------------------------ MODULE SqlOutboxRelay_proofs ------------------------
(***************************************************************************)
(* Safety of the SQL outbox relay for any number of rows, relays and       *)
(* attempts, any batch size, and with every failure the model knows.       *)
(*                                                                         *)
(* The invariant is built in three layers: what a relay holds (Holding),   *)
(* what the counters say (Counting), and what a relay that has sent knows  *)
(* (Sending).  None of the properties is inductive without Holding, which  *)
(* says that a held row is neither claimable nor dead and that the copy in *)
(* memory still has the row's attempt count.                               *)
(***************************************************************************)
EXTENDS SqlOutboxRelay, TLAPS

USE SqlOutboxRelayAssumption

Exclusive ==
    \A r, q \in Relays : \A i \in batch[r], j \in batch[q] :
       i.id = j.id => r = q /\ i = j

Holding ==
    /\ \A r \in Relays : pc[r] = "idle" => batch[r] = {}
    /\ \A r \in Relays : pc[r] \in {"sent", "failed"} => current[r] \in batch[r]
    /\ \A r \in Relays : \A i \in batch[r] :
          /\ status[i.id] \in {"PROCESSING", "PUBLISHED"}
          /\ attempts[i.id] = i.attempts
    /\ Exclusive

Unsent(r) == IF pc[r] = "send" THEN batch[r] ELSE batch[r] \ {current[r]}

Counting ==
    /\ \A m \in Messages : status[m] = "NONE" => attempts[m] = 0
    /\ RetriesAreUsable
    /\ SendsAreCounted
    /\ \A r \in Relays : \A i \in Unsent(r) : sends[i.id] < attempts[i.id]

Sending ==
    /\ PublishedWasSent
    /\ \A r \in Relays : pc[r] = "sent" => sends[current[r].id] > 0

IInv == TypeOK /\ Holding /\ Counting /\ Sending

----------------------------------------------------------------------------

(* A relay that goes on to its next item, or gives up its call, only       *)
(* drops items; nobody else is concerned.                                  *)
LEMMA Dropping ==
  ASSUME TypeOK, NEW r \in Relays, NextItem(r) \/ Abandon(r)
  PROVE  /\ batch' \in [Relays -> SUBSET Item]
         /\ current' \in [Relays -> Item \cup {NoItem}]
         /\ pc' \in [Relays -> {"idle", "send", "sent", "failed"}]
         /\ batch'[r] \subseteq batch[r] \ {current[r]}
         /\ pc'[r] \in {"idle", "send"}
         /\ pc'[r] = "idle" => batch'[r] = {}
         /\ \A q \in Relays \ {r} : /\ batch'[q] = batch[q]
                                    /\ current'[q] = current[q]
                                    /\ pc'[q] = pc[q]
  <1>1. CASE NextItem(r)
    BY <1>1 DEF NextItem, TypeOK
  <1>2. CASE Abandon(r)
    BY <1>2 DEF Abandon, TypeOK
  <1> QED BY <1>1, <1>2

LEMMA Marking ==
  ASSUME TypeOK, NEW r \in Relays, current[r] \in Item, NEW s \in Statuses, Mark(r, s)
  PROVE  /\ status' \in [Messages -> Statuses]
         /\ status'[current[r].id] = s
         /\ \A m \in Messages \ {current[r].id} : status'[m] = status[m]
  BY DEF Mark, TypeOK, Item

LEMMA NextStatusValue ==
  ASSUME NEW i \in Item
  PROVE  NextStatus(i) \in {"DEAD", "RETRY"} /\ NextStatus(i) \in Statuses
  BY DEF NextStatus, Statuses

(* What a claim does to the rows and to the claiming relay's memory.       *)
LEMMA Claiming ==
  ASSUME TypeOK, NEW r \in Relays, Claim(r)
  PROVE  \E B \in SUBSET Messages :
           /\ \A m \in B : Claimable(m)
           /\ \A m \in B : status'[m] = "PROCESSING" /\ attempts'[m] = attempts[m] + 1
           /\ \A m \in Messages \ B : status'[m] = status[m] /\ attempts'[m] = attempts[m]
           /\ \A i \in batch'[r] : i \in Item /\ i.id \in B /\ i.attempts = attempts[i.id] + 1
           /\ \A q \in Relays \ {r} : batch'[q] = batch[q]
  <1>1. PICK B \in SUBSET {m \in Messages : Claimable(m)} :
           /\ status' = [m \in Messages |->
                           IF m \in B THEN "PROCESSING" ELSE status[m]]
           /\ attempts' = [m \in Messages |->
                           IF m \in B THEN attempts[m] + 1 ELSE attempts[m]]
           /\ batch' = [batch EXCEPT ![r] =
                          {[id |-> m, attempts |-> attempts[m] + 1] : m \in B}]
    BY DEF Claim
  <1>2. batch'[r] = {[id |-> m, attempts |-> attempts[m] + 1] : m \in B}
    BY <1>1 DEF TypeOK
  <1>3. \A i \in batch'[r] : i \in Item /\ i.id \in B /\ i.attempts = attempts[i.id] + 1
    BY <1>1, <1>2 DEF TypeOK, Item
  <1>4. B \in SUBSET Messages /\ \A m \in B : Claimable(m)
    OBVIOUS
  <1>5. \A m \in B : status'[m] = "PROCESSING" /\ attempts'[m] = attempts[m] + 1
    BY <1>1
  <1>6. \A m \in Messages \ B : status'[m] = status[m] /\ attempts'[m] = attempts[m]
    BY <1>1
  <1>7. \A q \in Relays \ {r} : batch'[q] = batch[q]
    BY <1>1 DEF TypeOK
  <1> QED BY <1>3, <1>4, <1>5, <1>6, <1>7

LEMMA StepTyped ==
  ASSUME TypeOK, Holding, [Next]_vars
  PROVE  TypeOK'
  <1>1. CASE UNCHANGED vars
    BY <1>1 DEF TypeOK, vars, rows
  <1>2. ASSUME NEW m \in Messages, Insert(m) PROVE TypeOK'
    BY <1>2 DEF Insert, TypeOK, Statuses
  <1>3. ASSUME NEW r \in Relays, Claim(r) PROVE TypeOK'
    <2>1. batch' \in [Relays -> SUBSET Item]
      <3>1. PICK B \in SUBSET Messages : batch' = [batch EXCEPT ![r] =
                    {[id |-> m, attempts |-> attempts[m] + 1] : m \in B}]
        BY <1>3 DEF Claim
      <3>2. {[id |-> m, attempts |-> attempts[m] + 1] : m \in B} \subseteq Item
        BY DEF TypeOK, Item
      <3> QED BY <3>1, <3>2 DEF TypeOK
    <2>2. status' \in [Messages -> Statuses] /\ attempts' \in [Messages -> Nat]
      BY <1>3 DEF Claim, TypeOK, Statuses
    <2> QED BY <1>3, <2>1, <2>2 DEF Claim, TypeOK
  <1>4. ASSUME NEW r \in Relays, Send(r) PROVE TypeOK'
    <2>1. PICK i \in batch[r] :
             /\ current' = [current EXCEPT ![r] = i]
             /\ sends' = [sends EXCEPT ![i.id] = @ + 1] \/ UNCHANGED sends
             /\ \E l \in {"sent", "failed"} : pc' = [pc EXCEPT ![r] = l]
      BY <1>4 DEF Send
    <2>2. i \in Item
      BY DEF TypeOK
    <2> QED BY <1>4, <2>1, <2>2 DEF Send, rows, TypeOK, Item
  <1>5. ASSUME NEW r \in Relays, MarkPublished(r) PROVE TypeOK'
    <2>1. current[r] \in Item /\ "PUBLISHED" \in Statuses
      BY <1>5 DEF MarkPublished, Holding, TypeOK, Statuses
    <2>2. status' \in [Messages -> Statuses]
      BY <1>5, <2>1, Marking DEF MarkPublished, TypeOK
    <2> QED BY <1>5, <2>2, Dropping DEF MarkPublished, TypeOK
  <1>6. ASSUME NEW r \in Relays, MarkFailed(r) PROVE TypeOK'
    <2>1. current[r] \in Item
      BY <1>6 DEF MarkFailed, Holding, TypeOK
    <2>2. status' \in [Messages -> Statuses]
      BY <1>6, <2>1, Marking, NextStatusValue DEF MarkFailed, TypeOK
    <2> QED BY <1>6, <2>2, Dropping DEF MarkFailed, TypeOK
  <1>7. ASSUME NEW r \in Relays, Crash(r) PROVE TypeOK'
    BY <1>7, Dropping DEF Crash, TypeOK, rows
  <1> QED BY <1>1, <1>2, <1>3, <1>4, <1>5, <1>6, <1>7 DEF Next, Relay

(* The steps of one call after its claim: the batch only shrinks, the      *)
(* attempt counts stay, and the only row that changes is the current       *)
(* item's, which ends up PUBLISHED, RETRY or DEAD.  A row that became      *)
(* claimable or dead is in nobody's hands any more.                        *)
LEMMA Settling ==
  ASSUME TypeOK, Holding, NEW r \in Relays, MarkPublished(r) \/ MarkFailed(r) \/ Crash(r)
  PROVE  /\ UNCHANGED <<attempts, sends>>
         /\ batch'[r] \subseteq batch[r]
         /\ pc'[r] = "idle" => batch'[r] = {}
         /\ pc'[r] = "failed" => current'[r] = current[r] /\ current[r] \in batch'[r]
         /\ pc'[r] = "send" => batch'[r] \subseteq batch[r] \ {current[r]}
         /\ pc'[r] \in {"idle", "send", "failed"}
         /\ pc[r] = "send" => pc'[r] = "idle" /\ UNCHANGED status
         /\ \A q \in Relays \ {r} : /\ batch'[q] = batch[q]
                                    /\ current'[q] = current[q]
                                    /\ pc'[q] = pc[q]
         /\ \/ UNCHANGED status
            \/ /\ current[r] \in batch[r]
               /\ pc[r] \in {"sent", "failed"}
               /\ \A m \in Messages \ {current[r].id} : status'[m] = status[m]
               /\ \/ pc[r] = "sent" /\ status'[current[r].id] = "PUBLISHED"
                  \/ /\ status'[current[r].id] = NextStatus(current[r])
                     /\ batch'[r] \subseteq batch[r] \ {current[r]}
  <1>1. CASE MarkPublished(r)
    <2>1. current[r] \in batch[r] /\ current[r] \in Item /\ "PUBLISHED" \in Statuses
      BY <1>1 DEF MarkPublished, Holding, TypeOK, Statuses
    <2>2. CASE NextItem(r)
      BY <1>1, <2>1, <2>2, Marking, Dropping DEF MarkPublished
    <2>3. CASE pc' = [pc EXCEPT ![r] = "failed"] /\ UNCHANGED <<batch, current>>
      BY <1>1, <2>1, <2>3, Marking DEF MarkPublished, TypeOK
    <2> QED BY <1>1, <2>2, <2>3 DEF MarkPublished
  <1>2. CASE MarkFailed(r)
    <2>1. current[r] \in batch[r] /\ current[r] \in Item
      BY <1>2 DEF MarkFailed, Holding, TypeOK
    <2>2. NextItem(r) \/ Abandon(r)
      BY <1>2 DEF MarkFailed
    <2>3. UNCHANGED status \/ Mark(r, NextStatus(current[r]))
      BY <1>2 DEF MarkFailed
    <2> QED BY <1>2, <2>1, <2>2, <2>3, Marking, NextStatusValue, Dropping
            DEF MarkFailed
  <1>3. CASE Crash(r)
    BY <1>3, Dropping DEF Crash, Abandon, TypeOK, rows
  <1> QED BY <1>1, <1>2, <1>3

LEMMA StepHolding ==
  ASSUME TypeOK, Holding, [Next]_vars
  PROVE  Holding'
  <1>1. CASE UNCHANGED vars
    BY <1>1 DEF Holding, Exclusive, vars, rows
  <1>2. ASSUME NEW m \in Messages, Insert(m) PROVE Holding'
    <2>1. \A r \in Relays : \A i \in batch[r] : i.id \in Messages /\ i.id # m
      BY <1>2 DEF Insert, Holding, TypeOK, Item
    <2> QED BY <1>2, <2>1 DEF Insert, Holding, Exclusive, TypeOK
  <1>3. ASSUME NEW r \in Relays, Claim(r) PROVE Holding'
    <2>1. PICK B \in SUBSET Messages :
           /\ \A m \in B : Claimable(m)
           /\ \A m \in B : status'[m] = "PROCESSING" /\ attempts'[m] = attempts[m] + 1
           /\ \A m \in Messages \ B : status'[m] = status[m] /\ attempts'[m] = attempts[m]
           /\ \A i \in batch'[r] : i \in Item /\ i.id \in B /\ i.attempts = attempts[i.id] + 1
           /\ \A q \in Relays \ {r} : batch'[q] = batch[q]
      BY <1>3, Claiming
    <2>2. \A q \in Relays \ {r} : \A i \in batch[q] : i.id \in Messages \ B
      BY <2>1 DEF Holding, Claimable, TypeOK, Item
    <2>3. \A i, j \in batch'[r] : i.id = j.id => i = j
      BY <2>1 DEF Item
    <2>4. Exclusive'
      BY <2>1, <2>2, <2>3 DEF Holding, Exclusive
    <2>5. \A q \in Relays : \A i \in batch'[q] :
             status'[i.id] \in {"PROCESSING", "PUBLISHED"} /\ attempts'[i.id] = i.attempts
      BY <2>1, <2>2 DEF Holding
    <2>6. pc'[r] = "send" /\ current' = current /\ \A q \in Relays \ {r} : pc'[q] = pc[q]
      BY <1>3 DEF Claim, TypeOK
    <2> QED BY <2>1, <2>4, <2>5, <2>6 DEF Holding
  <1>4. ASSUME NEW r \in Relays, Send(r) PROVE Holding'
    <2>1. PICK i \in batch[r] : current' = [current EXCEPT ![r] = i]
      BY <1>4 DEF Send
    <2>2. pc'[r] \in {"sent", "failed"} /\ \A q \in Relays \ {r} : pc'[q] = pc[q]
      BY <1>4 DEF Send, TypeOK
    <2>3. UNCHANGED <<status, attempts, batch>>
      BY <1>4 DEF Send, rows
    <2> QED BY <2>1, <2>2, <2>3 DEF Holding, Exclusive, TypeOK
  <1>5. ASSUME NEW r \in Relays, MarkPublished(r) \/ MarkFailed(r) \/ Crash(r) PROVE Holding'
    <2>1. \A q \in Relays : batch'[q] \subseteq batch[q]
      BY <1>5, Settling
    <2>2. Exclusive'
      BY <2>1 DEF Holding, Exclusive
    <2>3. ASSUME NEW q \in Relays, NEW i \in batch'[q]
          PROVE  status'[i.id] \in {"PROCESSING", "PUBLISHED"} /\ attempts'[i.id] = i.attempts
      <3>1. i \in batch[q] /\ i.id \in Messages
        BY <2>1 DEF TypeOK, Item
      <3>2. CASE status'[i.id] = status[i.id]
        BY <1>5, <3>1, <3>2, Settling DEF Holding
      <3>3. CASE i.id = current[r].id /\ current[r] \in batch[r]
        <4>1. q = r /\ i = current[r]
          BY <3>1, <3>3 DEF Holding, Exclusive
        <4> QED BY <1>5, <3>1, <3>3, <4>1, Settling DEF Holding
      <3> QED BY <1>5, <3>1, <3>2, <3>3, Settling
    <2>4. \A q \in Relays : pc'[q] = "idle" => batch'[q] = {}
      BY <1>5, Settling DEF Holding
    <2>5. \A q \in Relays : pc'[q] \in {"sent", "failed"} => current'[q] \in batch'[q]
      BY <1>5, Settling DEF Holding
    <2> QED BY <2>2, <2>3, <2>4, <2>5 DEF Holding
  <1> QED BY <1>1, <1>2, <1>3, <1>4, <1>5 DEF Next, Relay

LEMMA StepCounting ==
  ASSUME TypeOK, Holding, Counting, [Next]_vars
  PROVE  Counting'
  <1>1. CASE UNCHANGED vars
    BY <1>1 DEF Counting, RetriesAreUsable, SendsAreCounted, Unsent, vars, rows
  <1>2. ASSUME NEW m \in Messages, Insert(m) PROVE Counting'
    <2>1. attempts[m] = 0 /\ 0 < MaxAttempts
      BY <1>2 DEF Insert, Counting
    <2> QED BY <1>2, <2>1
            DEF Insert, Counting, RetriesAreUsable, SendsAreCounted, Unsent, TypeOK
  <1>3. ASSUME NEW r \in Relays, Claim(r) PROVE Counting'
    <2>1. PICK B \in SUBSET Messages :
           /\ \A m \in B : Claimable(m)
           /\ \A m \in B : status'[m] = "PROCESSING" /\ attempts'[m] = attempts[m] + 1
           /\ \A m \in Messages \ B : status'[m] = status[m] /\ attempts'[m] = attempts[m]
           /\ \A i \in batch'[r] : i \in Item /\ i.id \in B /\ i.attempts = attempts[i.id] + 1
           /\ \A q \in Relays \ {r} : batch'[q] = batch[q]
      BY <1>3, Claiming
    <2>2. /\ pc'[r] = "send" /\ UNCHANGED <<sends, current>>
          /\ \A q \in Relays \ {r} : pc'[q] = pc[q]
      BY <1>3 DEF Claim, TypeOK
    <2>3. \A q \in Relays \ {r} : \A i \in batch[q] : i.id \in Messages \ B
      BY <2>1 DEF Holding, Claimable, TypeOK, Item
    <2>4. SendsAreCounted'
      BY <2>1, <2>2 DEF Counting, SendsAreCounted, Claimable, TypeOK
    <2>5. RetriesAreUsable'
      BY <2>1 DEF Counting, RetriesAreUsable
    <2>6. \A m \in B : sends'[m] < attempts'[m]
      BY <2>1, <2>2 DEF Counting, SendsAreCounted, TypeOK
    <2>7. \A q \in Relays : \A i \in Unsent(q)' : sends'[i.id] < attempts'[i.id]
      BY <2>1, <2>2, <2>3, <2>6 DEF Counting, Unsent
    <2>8. \A m \in Messages : status'[m] = "NONE" => attempts'[m] = 0
      BY <2>1 DEF Counting
    <2> QED BY <2>4, <2>5, <2>7, <2>8 DEF Counting
  <1>4. ASSUME NEW r \in Relays, Send(r) PROVE Counting'
    <2>1. PICK i \in batch[r] :
             /\ current' = [current EXCEPT ![r] = i]
             /\ sends' = [sends EXCEPT ![i.id] = @ + 1] \/ UNCHANGED sends
      BY <1>4 DEF Send
    <2>2. /\ pc[r] = "send" /\ pc'[r] \in {"sent", "failed"}
          /\ \A q \in Relays \ {r} : pc'[q] = pc[q]
          /\ UNCHANGED <<status, attempts, batch>>
      BY <1>4 DEF Send, TypeOK, rows
    <2>3. i.id \in Messages /\ sends[i.id] < attempts[i.id]
      BY <2>2 DEF TypeOK, Item, Counting, Unsent
    <2>4. /\ sends'[i.id] <= attempts[i.id]
          /\ \A m \in Messages \ {i.id} : sends'[m] = sends[m]
      BY <2>1, <2>3 DEF TypeOK
    <2>5. SendsAreCounted'
      BY <2>2, <2>4 DEF Counting, SendsAreCounted
    <2>6. ASSUME NEW q \in Relays, NEW j \in Unsent(q)' PROVE sends'[j.id] < attempts'[j.id]
      <3>1. j \in Unsent(q) /\ j # i
        BY <2>1, <2>2, <2>6 DEF Unsent, Holding, Exclusive, TypeOK
      <3>2. j \in batch[q] /\ j.id \in Messages
        BY <3>1 DEF Unsent, TypeOK, Item
      <3>3. j.id # i.id
        BY <3>1, <3>2 DEF Holding, Exclusive
      <3> QED BY <2>2, <2>4, <3>1, <3>2, <3>3 DEF Counting
    <2> QED BY <2>2, <2>5, <2>6 DEF Counting, RetriesAreUsable
  <1>5. ASSUME NEW r \in Relays, MarkPublished(r) \/ MarkFailed(r) \/ Crash(r) PROVE Counting'
    <2>1. \A q \in Relays : Unsent(q)' \subseteq Unsent(q)
      <3>1. ASSUME NEW q \in Relays \ {r} PROVE Unsent(q)' = Unsent(q)
        <4>1. batch'[q] = batch[q] /\ current'[q] = current[q] /\ pc'[q] = pc[q]
          BY <1>5, Settling
        <4> QED BY <4>1 DEF Unsent
      <3>2. Unsent(r)' \subseteq Unsent(r)
        BY <1>5, Settling DEF Unsent, MarkPublished, MarkFailed, Crash
      <3> QED BY <3>1, <3>2
    <2>2. ASSUME current[r] \in batch[r], status'[current[r].id] = NextStatus(current[r])
          PROVE  LET m == current[r].id IN
                 /\ status'[m] \in {"PENDING", "RETRY"} => attempts[m] < MaxAttempts
                 /\ status'[m] = "DEAD" => attempts[m] = MaxAttempts
      <3>1. /\ current[r].attempts = attempts[current[r].id]
            /\ attempts[current[r].id] \in Nat
            /\ attempts[current[r].id] <= MaxAttempts
        BY <2>2 DEF Holding, TypeOK, Item, Counting, SendsAreCounted
      <3> QED BY <2>2, <3>1 DEF NextStatus
    <2>3. RetriesAreUsable'
      BY <1>5, <2>2, Settling DEF Counting, RetriesAreUsable
    <2>4. \A m \in Messages : status'[m] = "NONE" => status[m] = "NONE"
      BY <1>5, Settling, NextStatusValue DEF TypeOK
    <2> QED BY <1>5, <2>1, <2>3, <2>4, Settling DEF Counting, SendsAreCounted
  <1> QED BY <1>1, <1>2, <1>3, <1>4, <1>5 DEF Next, Relay

LEMMA StepSending ==
  ASSUME TypeOK, Holding, Sending, [Next]_vars
  PROVE  Sending'
  <1>1. CASE UNCHANGED vars
    BY <1>1 DEF Sending, PublishedWasSent, vars, rows
  <1>2. ASSUME NEW m \in Messages, Insert(m) PROVE Sending'
    BY <1>2 DEF Insert, Sending, PublishedWasSent, TypeOK
  <1>3. ASSUME NEW r \in Relays, Claim(r) PROVE Sending'
    BY <1>3, Claiming DEF Claim, Sending, PublishedWasSent, TypeOK
  <1>4. ASSUME NEW r \in Relays, Send(r) PROVE Sending'
    <2>1. PICK i \in batch[r] :
             /\ current' = [current EXCEPT ![r] = i]
             /\ \/ sends' = [sends EXCEPT ![i.id] = @ + 1]
                \/ UNCHANGED sends /\ pc'[r] = "failed"
      BY <1>4 DEF Send, TypeOK
    <2>2. i.id \in Messages
      BY DEF TypeOK, Item
    <2>3. \A m \in Messages : sends[m] > 0 => sends'[m] > 0
      BY <2>1, <2>2 DEF TypeOK
    <2>4. pc'[r] = "sent" => sends'[current'[r].id] > 0
      BY <2>1, <2>2 DEF TypeOK
    <2>5. ASSUME NEW q \in Relays, q # r, pc'[q] = "sent" PROVE sends'[current'[q].id] > 0
      <3>1. pc[q] = "sent" /\ current'[q] = current[q]
        BY <1>4, <2>1, <2>5 DEF Send, TypeOK
      <3>2. current[q].id \in Messages
        BY <3>1 DEF Holding, TypeOK, Item
      <3> QED BY <2>3, <3>1, <3>2 DEF Sending
    <2>6. UNCHANGED status
      BY <1>4 DEF Send, rows
    <2> QED BY <2>3, <2>4, <2>5, <2>6 DEF Sending, PublishedWasSent
  <1>5. ASSUME NEW r \in Relays, MarkPublished(r) \/ MarkFailed(r) \/ Crash(r) PROVE Sending'
    <2>1. PublishedWasSent'
      <3>1. current[r] \in batch[r] => NextStatus(current[r]) # "PUBLISHED"
        BY NextStatusValue DEF TypeOK
      <3> QED BY <1>5, <3>1, Settling DEF Sending, PublishedWasSent
    <2> QED BY <1>5, <2>1, Settling DEF Sending
  <1> QED BY <1>1, <1>2, <1>3, <1>4, <1>5 DEF Next, Relay

(* A dead row is neither claimable nor held, so that no step can touch it. *)
LEMMA StepDead ==
  ASSUME TypeOK, Holding, [Next]_vars, NEW m \in Messages, status[m] = "DEAD"
  PROVE  status'[m] = "DEAD" /\ sends'[m] = sends[m]
  <1>1. \A r \in Relays : \A i \in batch[r] : i.id # m
    BY DEF Holding
  <1>2. CASE UNCHANGED vars
    BY <1>2 DEF vars, rows
  <1>3. CASE \E o \in Messages : Insert(o)
    BY <1>3 DEF Insert, TypeOK
  <1>4. CASE \E r \in Relays : Claim(r)
    BY <1>4, Claiming DEF Claim, Claimable
  <1>5. CASE \E r \in Relays : Send(r)
    BY <1>1, <1>5 DEF Send, rows, TypeOK
  <1>6. CASE \E r \in Relays : MarkPublished(r) \/ MarkFailed(r) \/ Crash(r)
    BY <1>1, <1>6, Settling
  <1> QED BY <1>2, <1>3, <1>4, <1>5, <1>6 DEF Next, Relay

----------------------------------------------------------------------------

LEMMA Invariance == Spec => []IInv
  <1>1. Init => IInv
    BY DEF Init, IInv, TypeOK, Statuses, Item, Holding, Exclusive, Counting,
           RetriesAreUsable, SendsAreCounted, Unsent, Sending, PublishedWasSent
  <1>2. IInv /\ [Next]_vars => IInv'
    BY StepTyped, StepHolding, StepCounting, StepSending DEF IInv
  <1> QED BY <1>1, <1>2, PTL DEF Spec

(* The relay's tables and variables keep their types.                      *)
THEOREM TypeCorrect == Spec => []TypeOK
  BY Invariance, PTL DEF IInv

(* Claims are exclusive, with any number of relays, whatever fails.        *)
THEOREM NeverHeldTwice == Spec => []ExclusiveClaim
  <1>1. IInv => ExclusiveClaim
    BY DEF IInv, Holding, Exclusive, ExclusiveClaim, Held
  <1> QED BY <1>1, Invariance, PTL

(* No row is marked PUBLISHED before SNS has its message.                  *)
THEOREM NeverForged == Spec => []PublishedWasSent
  BY Invariance, PTL DEF IInv, Sending

(* At most MaxAttempts copies of a message ever reach SNS.                 *)
THEOREM BoundedDuplicates == Spec => []SendsAreCounted
  BY Invariance, PTL DEF IInv, Counting

(* No row is stranded in RETRY, and DEAD comes after the last attempt.     *)
THEOREM NeverStranded == Spec => []RetriesAreUsable
  BY Invariance, PTL DEF IInv, Counting

(* A message that was given up stays given up.                             *)
THEOREM DeadForGood == Spec => DeadIsFinal
  <1>1. IInv /\ [Next]_vars =>
          [\A m \in Messages : status[m] = "DEAD" =>
             status'[m] = "DEAD" /\ sends'[m] = sends[m]]_vars
    BY StepDead DEF IInv
  <1> QED BY <1>1, Invariance, PTL DEF Spec, DeadIsFinal
----------------------------------------------------------------------------
(* The promise of OutboxPromise.                                           *)

Announced == {m \in Messages : status[m] # "NONE"}
Sent == {m \in Messages : sends[m] > 0}
Verdict(m) == IF status[m] \in {"PUBLISHED", "DEAD"} THEN status[m] ELSE "OPEN"
Verdicts == [m \in Messages |-> Verdict(m)]

(* A step that changes no row and sends nothing is a stutter.              *)
LEMMA PromiseStutter ==
  ASSUME UNCHANGED <<status, attempts, sends>>
  PROVE  UNCHANGED Promise!vars
  BY DEF Promise!vars

(* Saving the row announces the message.                                   *)
LEMMA PromiseInsert ==
  ASSUME IInv, NEW m \in Messages, Insert(m)
  PROVE  [Promise!Next]_(Promise!vars)
  <1>1. /\ status'[m] = "PENDING" /\ status[m] = "NONE"
        /\ \A n \in Messages \ {m} : status'[n] = status[n]
        /\ UNCHANGED <<attempts, sends>>
    BY DEF Insert, IInv, TypeOK
  <1>2. m \notin Announced /\ Announced' = Announced \cup {m}
    BY <1>1 DEF Announced
  <1>3. \A n \in Messages : Verdict(n)' = Verdict(n)
    BY <1>1 DEF Verdict
  <1>4. Verdicts' = Verdicts
    BY <1>3 DEF Verdicts
  <1>5. Promise!Announce(m)
    BY <1>1, <1>2, <1>4 DEF Promise!Announce, Announced, Verdicts, Verdict
  <1> QED BY <1>5 DEF Promise!Next

(* A claim begins attempts, at rows that wait and have an attempt left.    *)
LEMMA PromiseClaim ==
  ASSUME IInv, NEW r \in Relays, Claim(r)
  PROVE  [Promise!Next]_(Promise!vars)
  <1>1. PICK B \in SUBSET Messages :
           /\ \A m \in B : Claimable(m)
           /\ \A m \in B : status'[m] = "PROCESSING" /\ attempts'[m] = attempts[m] + 1
           /\ \A m \in Messages \ B :
                 status'[m] = status[m] /\ attempts'[m] = attempts[m]
    BY Claiming DEF IInv
  <1>2. \A m \in B : /\ status[m] \in {"PENDING", "RETRY"}
                     /\ attempts[m] < MaxAttempts
    BY <1>1 DEF Claimable
  <1>3. UNCHANGED sends /\ attempts' \in [Messages -> Nat]
    BY StepTyped DEF Claim, IInv, Next, Relay, TypeOK
  <1>4. Announced' = Announced /\ B \subseteq Announced
    BY <1>1, <1>2 DEF Announced
  <1>5. \A m \in Messages : Verdict(m)' = Verdict(m)
    BY <1>1, <1>2 DEF Verdict
  <1>6. Verdicts' = Verdicts
    BY <1>5 DEF Verdicts
  <1>7. \A m \in Messages :
           attempts'[m] = IF m \in B /\ attempts[m] < MaxAttempts
                          THEN attempts[m] + 1 ELSE attempts[m]
    BY <1>1, <1>2
  <1>8. attempts' = [m \in Messages |->
                       IF m \in B /\ attempts[m] < MaxAttempts
                       THEN attempts[m] + 1 ELSE attempts[m]]
    BY <1>3, <1>7
  <1>9. \E R \in SUBSET B :
           Verdicts' = [m \in Messages |-> IF m \in R THEN "OPEN" ELSE Verdicts[m]]
    <2>1. Verdicts' = [m \in Messages |-> IF m \in {} THEN "OPEN" ELSE Verdicts[m]]
      BY <1>6 DEF Verdicts
    <2> WITNESS {} \in SUBSET B
    <2> QED BY <2>1
  <1>10. UNCHANGED Sent
    BY <1>3 DEF Sent
  <1>11. Promise!Begin(B)
    BY <1>4, <1>8, <1>9, <1>10
       DEF Promise!Begin, Announced, Sent, Verdicts, Verdict
  <1> QED BY <1>11 DEF Promise!Next

(* What a relay sends is in its batch, and was counted when it was claimed.*)
LEMMA PromiseSend ==
  ASSUME IInv, NEW r \in Relays, Send(r)
  PROVE  [Promise!Next]_(Promise!vars)
  <1>1. PICK i \in batch[r] : \/ sends' = [sends EXCEPT ![i.id] = @ + 1]
                              \/ UNCHANGED sends
    BY DEF Send
  <1>2. UNCHANGED <<status, attempts>>
    BY DEF Send, rows
  <1>3. CASE UNCHANGED sends
    BY <1>2, <1>3, PromiseStutter
  <1>4. CASE sends' = [sends EXCEPT ![i.id] = @ + 1]
    <2>1. i.id \in Messages
      BY DEF IInv, TypeOK, Item
    <2>2. sends[i.id] \in Nat /\ attempts[i.id] \in Nat /\ sends[i.id] < attempts[i.id]
      BY <2>1 DEF IInv, TypeOK, Counting, Unsent, Send
    <2>3. /\ sends'[i.id] = sends[i.id] + 1
          /\ \A m \in Messages \ {i.id} : sends'[m] = sends[m]
      BY <1>4, <2>1 DEF IInv, TypeOK
    <2>4. Sent' = Sent \cup {i.id}
      BY <2>1, <2>2, <2>3 DEF Sent
    <2>5. attempts[i.id] > 0
      BY <2>2
    <2>6. Promise!Send(i.id)
      BY <1>2, <2>4, <2>5 DEF Promise!Send, Sent
    <2> QED BY <2>1, <2>6 DEF Promise!Next
  <1> QED BY <1>1, <1>3, <1>4

(* A mark that takes effect settles the message of the relay's item.       *)
LEMMA PromiseMark ==
  ASSUME IInv, NEW r \in Relays, pc[r] \in {"sent", "failed"},
         UNCHANGED <<attempts, sends>>,
         NEW s \in Statuses, Mark(r, s),
         \/ s = "PUBLISHED" /\ pc[r] = "sent"
         \/ s = NextStatus(current[r])
  PROVE  [Promise!Next]_(Promise!vars)
  <1>1. PICK i \in batch[r] : i = current[r] /\ i \in Item /\ i.id \in Messages
    BY DEF IInv, TypeOK, Holding, Item
  <1>2. /\ attempts[i.id] = i.attempts /\ status[i.id] # "NONE"
        /\ attempts[i.id] \in Nat /\ attempts[i.id] <= MaxAttempts
    BY <1>1 DEF IInv, TypeOK, Holding, Counting, SendsAreCounted
  <1>3. /\ status'[i.id] = s
        /\ \A m \in Messages \ {i.id} : status'[m] = status[m]
    BY <1>1, Marking DEF IInv
  <1>4. s \in {"PUBLISHED", "DEAD", "RETRY"}
    BY <1>1, NextStatusValue
  <1>5. Announced' = Announced
    BY <1>1, <1>2, <1>3, <1>4 DEF Announced
  <1> DEFINE v == IF s = "RETRY" THEN "OPEN" ELSE s
  <1>6. v \in {"OPEN", "PUBLISHED", "DEAD"}
    BY <1>4
  <1>7. /\ Verdict(i.id)' = v
        /\ \A m \in Messages \ {i.id} : Verdict(m)' = Verdict(m)
    BY <1>3, <1>4 DEF Verdict
  <1>8. Verdicts' = [Verdicts EXCEPT ![i.id] = v]
    BY <1>1, <1>7 DEF Verdicts
  <1>9. v = "PUBLISHED" => i.id \in Sent
    BY <1>1, NextStatusValue DEF IInv, Sending, Sent
  <1>10. v = "DEAD" => attempts[i.id] = MaxAttempts
    BY <1>1, <1>2 DEF NextStatus
  <1>11. Promise!Settle(i.id, v)
    BY <1>5, <1>8, <1>9, <1>10 DEF Promise!Settle, Announced, Sent, Verdicts, Verdict
  <1> QED BY <1>1, <1>6, <1>11 DEF Promise!Next

(* RefinesPromise: the relays keep the promise of an outbox, with any      *)
(* number of them, and whatever fails.                                     *)
THEOREM ImplementsPromise == Spec => RefinesPromise
  <1>1. Init => Promise!Init
    BY DEF Init, Promise!Init
  <1>2. IInv /\ [Next]_vars => [Promise!Next]_(Promise!vars)
    <2> SUFFICES ASSUME IInv, [Next]_vars PROVE [Promise!Next]_(Promise!vars)
      OBVIOUS
    <2>1. CASE UNCHANGED vars
      BY <2>1, PromiseStutter DEF vars, rows
    <2>2. CASE \E m \in Messages : Insert(m)
      BY <2>2, PromiseInsert
    <2>3. CASE \E r \in Relays : Claim(r)
      BY <2>3, PromiseClaim
    <2>4. CASE \E r \in Relays : Send(r)
      BY <2>4, PromiseSend
    <2>5. ASSUME NEW r \in Relays, MarkPublished(r)
          PROVE  [Promise!Next]_(Promise!vars)
      <3>1. /\ Mark(r, "PUBLISHED") \/ UNCHANGED status
            /\ pc[r] = "sent" /\ UNCHANGED <<attempts, sends>>
        BY <2>5 DEF MarkPublished
      <3>2. "PUBLISHED" \in Statuses
        BY DEF Statuses
      <3> QED BY <3>1, <3>2, PromiseMark, PromiseStutter
    <2>6. ASSUME NEW r \in Relays, MarkFailed(r)
          PROVE  [Promise!Next]_(Promise!vars)
      <3>1. /\ Mark(r, NextStatus(current[r])) \/ UNCHANGED status
            /\ pc[r] = "failed" /\ UNCHANGED <<attempts, sends>>
        BY <2>6 DEF MarkFailed
      <3>2. NextStatus(current[r]) \in Statuses
        BY DEF NextStatus, Statuses
      <3> QED BY <3>1, <3>2, PromiseMark, PromiseStutter
    <2>7. CASE \E r \in Relays : Crash(r)
      BY <2>7, PromiseStutter DEF Crash, rows
    <2> QED BY <2>1, <2>2, <2>3, <2>4, <2>5, <2>6, <2>7 DEF Next, Relay
  <1> QED BY <1>1, <1>2, Invariance, PTL DEF Spec, RefinesPromise, Promise!Spec
=============================================================================
