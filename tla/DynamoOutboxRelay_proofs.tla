----------------------- MODULE DynamoOutboxRelay_proofs -----------------------
(***************************************************************************)
(* Safety of the DynamoDB outbox relay for any number of items, relays and *)
(* attempts, with scans that lag and any number of failures.               *)
(*                                                                         *)
(* Relays overwrite each other, so that nothing can be said of an item and *)
(* the image of it in some relay's memory together.  What holds is said of *)
(* each version of an item by itself: the item, the replica and the image  *)
(* a relay holds are each Sound with respect to the two histories, which   *)
(* only grow.                                                              *)
(*                                                                         *)
(* For the items left behind, OneStrandedPerFault is not inductive: an     *)
(* item may lose its relay while another one still has it in its batch.    *)
(* The orphans, in PROCESSING with no relay at work on them, are.          *)
(***************************************************************************)
EXTENDS DynamoOutboxRelay, FiniteSetTheorems, TLAPS

USE DynamoOutboxRelayAssumption

\* Some version of the item m, given the attempts t begun and the messages s
\* sent.
Sound(row, m, t, s) ==
    /\ row \in ItemRow \cup {NoItem}
    /\ row.attempts <= t[m]
    /\ row.status = "RETRY" => row.attempts \in 1 .. MaxAttempts - 1
    /\ row.status = "DEAD" => row.attempts = MaxAttempts
    /\ row.status \in {"PENDING", "NONE"} => row.attempts = 0
    /\ row.status \in {"PROCESSING", "PUBLISHED"} => row.attempts \in 1 .. MaxAttempts
    /\ row.status = "PUBLISHED" => m \in s

\* An image a relay has scanned.
Fresh(i, t) == i \in Image /\ i.attempts < MaxAttempts /\ i.attempts <= t[i.id]

\* The image it works on, whose attempt it has begun.
Begun(r, t, s) ==
    /\ current[r] \in Image
    /\ current[r].attempts < MaxAttempts
    /\ current[r].attempts + 1 <= t[current[r].id]
    /\ pc[r] = "sent" => current[r].id \in s

Busy(r) == pc[r] \in {"send", "sent", "failed"}

IInv ==
    /\ TypeOK
    /\ \A m \in Messages : Sound(item[m], m, tries, sent)
    /\ \A m \in Messages : Sound(replica[m], m, tries, sent)
    /\ \A r \in Relays : \A i \in batch[r] : Fresh(i, tries)
    /\ \A r \in Relays : Busy(r) => Begun(r, tries, sent)

----------------------------------------------------------------------------

\* The histories t and s only grow.
Grown(t, s) ==
    /\ t \in [Messages -> 0 .. MaxAttempts]
    /\ \A m \in Messages : tries[m] <= t[m]
    /\ s \subseteq Messages
    /\ sent \subseteq s

(* What is sound stays sound while the histories grow.                     *)
LEMMA StaysSound ==
  ASSUME TypeOK, NEW t, NEW s, Grown(t, s)
  PROVE  /\ \A m \in Messages : \A row \in ItemRow \cup {NoItem} :
              Sound(row, m, tries, sent) => Sound(row, m, t, s)
         /\ \A i \in Image : Fresh(i, tries) => Fresh(i, t)
         /\ \A r \in Relays : Begun(r, tries, sent) => Begun(r, t, s)
  <1>1. ASSUME NEW m \in Messages, NEW row \in ItemRow \cup {NoItem},
               Sound(row, m, tries, sent)
        PROVE  Sound(row, m, t, s)
    <2>1. row.attempts \in Nat /\ tries[m] \in Nat /\ t[m] \in Nat /\ tries[m] <= t[m]
      BY DEF ItemRow, NoItem, TypeOK, Grown
    <2> QED BY <1>1, <2>1 DEF Sound, Grown
  <1>2. ASSUME NEW i \in Image, Fresh(i, tries) PROVE Fresh(i, t)
    <2>1. i.id \in Messages /\ i.attempts \in Nat
      BY DEF Image
    <2>2. tries[i.id] \in Nat /\ t[i.id] \in Nat /\ tries[i.id] <= t[i.id]
      BY <2>1 DEF TypeOK, Grown
    <2> QED BY <1>2, <2>1, <2>2 DEF Fresh
  <1>3. ASSUME NEW r \in Relays, Begun(r, tries, sent) PROVE Begun(r, t, s)
    <2>1. current[r].id \in Messages /\ current[r].attempts \in Nat
      BY <1>3 DEF Begun, Image
    <2>2. /\ tries[current[r].id] \in Nat /\ t[current[r].id] \in Nat
          /\ tries[current[r].id] <= t[current[r].id]
      BY <2>1 DEF TypeOK, Grown
    <2> QED BY <1>3, <2>1, <2>2 DEF Begun, Grown
  <1> QED BY <1>1, <1>2, <1>3

(* The item after a Put of an image.                                       *)
LEMMA Putting ==
  ASSUME TypeOK, NEW r \in Relays, NEW i \in Image, NEW st \in Statuses, Put(r, i, st)
  PROVE  /\ item' \in [Messages -> ItemRow \cup {NoItem}]
         /\ item'[i.id] = [status |-> st, attempts |-> i.attempts + 1]
         /\ \A m \in Messages \ {i.id} : item'[m] = item[m]
  <1>1. i.id \in Messages /\ [status |-> st, attempts |-> i.attempts + 1] \in ItemRow
    BY DEF Image, ItemRow
  <1> QED BY <1>1 DEF Put, TypeOK

(* A relay that goes on to its next image, or gives up its call.           *)
LEMMA Dropping ==
  ASSUME TypeOK, NEW r \in Relays, NextImage(r) \/ Abandon(r)
  PROVE  /\ batch' \in [Relays -> SUBSET Image]
         /\ current' \in [Relays -> Image \cup {NoImage}]
         /\ pc' \in [Relays -> {"idle", "take", "send", "sent", "failed"}]
         /\ batch'[r] \subseteq batch[r]
         /\ pc'[r] \in {"idle", "take"}
         /\ \A q \in Relays \ {r} : /\ batch'[q] = batch[q]
                                    /\ current'[q] = current[q]
                                    /\ pc'[q] = pc[q]
  <1>1. CASE NextImage(r)
    BY <1>1 DEF NextImage, Goto, TypeOK
  <1>2. CASE Abandon(r)
    BY <1>2 DEF Abandon, Goto, TypeOK
  <1> QED BY <1>1, <1>2

----------------------------------------------------------------------------
(* Each action preserves the invariant.                                    *)

LEMMA InsertStep ==
  ASSUME IInv, NEW m \in Messages, Insert(m)
  PROVE  IInv'
  <1>1. item' \in [Messages -> ItemRow \cup {NoItem}]
    BY DEF IInv, Insert, TypeOK, ItemRow, Statuses
  <1>2. Sound(item'[m], m, tries, sent)
    BY DEF IInv, Insert, TypeOK, Sound, ItemRow, Statuses
  <1>3. \A n \in Messages \ {m} : item'[n] = item[n]
    BY DEF IInv, Insert, TypeOK
  <1> QED BY <1>1, <1>2, <1>3
          DEF IInv, Insert, TypeOK, history, relay, Busy, Begun

LEMMA ReplicateStep ==
  ASSUME IInv, NEW m \in Messages, Replicate(m)
  PROVE  IInv'
  <1>1. replica' \in [Messages -> ItemRow \cup {NoItem}]
    BY DEF IInv, Replicate, TypeOK
  <1>2. replica'[m] = item[m] /\ \A n \in Messages \ {m} : replica'[n] = replica[n]
    BY DEF IInv, Replicate, TypeOK
  <1> QED BY <1>1, <1>2 DEF IInv, Replicate, TypeOK, history, relay, Busy, Begun

LEMMA ShiftStep ==
  ASSUME IInv, NEW m \in Messages, Shift(m)
  PROVE  IInv'
  BY DEF IInv, Shift, TypeOK, history, relay, Busy, Begun

LEMMA ScanStep ==
  ASSUME IInv, NEW r \in Relays, Scan(r)
  PROVE  IInv'
  <1>1. PICK view \in [Messages -> {item, replica}] :
           batch' = [batch EXCEPT ![r] =
                       {[id |-> m, attempts |-> view[m][m].attempts] :
                          m \in {n \in page : Outstanding(view[n][n])}}]
    BY DEF Scan
  <1>2. \A m \in Messages : view[m][m] \in {item[m], replica[m]}
    OBVIOUS
  <1>3. \A m \in Messages : Sound(view[m][m], m, tries, sent)
    BY <1>2 DEF IInv
  <1>4. ASSUME NEW m \in Messages, Outstanding(view[m][m])
        PROVE  Fresh([id |-> m, attempts |-> view[m][m].attempts], tries)
    <2>1. Sound(view[m][m], m, tries, sent)
      BY <1>3
    <2>2. view[m][m].attempts \in Nat /\ view[m][m].attempts < MaxAttempts
      BY <1>4, <2>1 DEF Sound, Outstanding
    <2>3. view[m][m].attempts <= tries[m]
      BY <2>1 DEF Sound
    <2> QED BY <2>2, <2>3 DEF Fresh, Image
  <1>5. batch'[r] = {[id |-> m, attempts |-> view[m][m].attempts] :
                        m \in {n \in page : Outstanding(view[n][n])}}
    BY <1>1 DEF IInv, TypeOK
  <1>6. \A i \in batch'[r] : Fresh(i, tries)
    BY <1>4, <1>5 DEF IInv, TypeOK
  <1>7. batch'[r] \subseteq Image
    BY <1>6 DEF Fresh
  <1>8. batch' \in [Relays -> SUBSET Image] /\ \A q \in Relays \ {r} : batch'[q] = batch[q]
    BY <1>1, <1>7 DEF IInv, TypeOK
  <1>9. /\ pc' \in [Relays -> {"idle", "take", "send", "sent", "failed"}]
        /\ pc'[r] = "take"
        /\ \A q \in Relays \ {r} : pc'[q] = pc[q]
    BY DEF IInv, TypeOK, Scan
  <1>10. UNCHANGED <<item, replica, page, sent, tries, faults, current>>
    BY DEF Scan, history
  <1>11. TypeOK'
    BY <1>8, <1>9, <1>10 DEF IInv, TypeOK
  <1>12. \A q \in Relays : Busy(q)' => Begun(q, tries, sent)'
    BY <1>9, <1>10 DEF IInv, Busy, Begun
  <1> QED BY <1>6, <1>8, <1>10, <1>11, <1>12 DEF IInv

LEMMA PutProcessingStep ==
  ASSUME IInv, NEW r \in Relays, PutProcessing(r)
  PROVE  IInv'
  <1>1. PICK i \in batch[r] :
           /\ current' = [current EXCEPT ![r] = i]
           /\ tries' = [tries EXCEPT ![i.id] = IF @ < MaxAttempts THEN @ + 1 ELSE @]
           /\ \/ Put(r, i, "PROCESSING") /\ Goto(r, "send") /\ UNCHANGED faults
              \/ /\ Fault
                 /\ Put(r, i, "PROCESSING") \/ UNCHANGED item
                 /\ Goto(r, "failed")
    BY DEF PutProcessing
  <1>2. i \in Image /\ i.id \in Messages /\ i.attempts \in Nat /\ Fresh(i, tries)
    BY DEF IInv, TypeOK, Image
  <1>3. /\ tries' \in [Messages -> 0 .. MaxAttempts]
        /\ i.attempts + 1 <= tries'[i.id]
        /\ \A m \in Messages : tries[m] <= tries'[m]
    BY <1>1, <1>2 DEF IInv, TypeOK, Fresh
  <1>4. Grown(tries', sent)
    BY <1>3 DEF Grown, IInv, TypeOK
  <1>5. /\ pc' \in [Relays -> {"idle", "take", "send", "sent", "failed"}]
        /\ pc'[r] \in {"send", "failed"}
        /\ \A q \in Relays \ {r} : pc'[q] = pc[q]
    BY <1>1 DEF IInv, TypeOK, Goto
  <1>6. /\ current' \in [Relays -> Image \cup {NoImage}]
        /\ current'[r] = i
        /\ \A q \in Relays \ {r} : current'[q] = current[q]
    BY <1>1, <1>2 DEF IInv, TypeOK
  <1>7. UNCHANGED <<replica, page, sent, batch>>
    BY DEF PutProcessing
  <1>8. faults' \in 0 .. MaxFaults
    BY <1>1 DEF IInv, TypeOK, Fault
  <1>9. /\ item' \in [Messages -> ItemRow \cup {NoItem}]
        /\ \A m \in Messages : Sound(item'[m], m, tries', sent)
    <2>1. \A m \in Messages : Sound(item[m], m, tries', sent)
      BY <1>4, StaysSound DEF IInv, TypeOK
    <2>2. CASE UNCHANGED item
      BY <2>1, <2>2 DEF IInv, TypeOK
    <2>3. CASE Put(r, i, "PROCESSING")
      <3>1. "PROCESSING" \in Statuses
        BY DEF Statuses
      <3>2. /\ item' \in [Messages -> ItemRow \cup {NoItem}]
            /\ item'[i.id] = [status |-> "PROCESSING", attempts |-> i.attempts + 1]
            /\ \A m \in Messages \ {i.id} : item'[m] = item[m]
        BY <1>2, <2>3, <3>1, Putting DEF IInv
      <3>3. Sound(item'[i.id], i.id, tries', sent)
        BY <1>2, <1>3, <3>1, <3>2 DEF Sound, Fresh, ItemRow
      <3> QED BY <2>1, <3>2, <3>3
    <2> QED BY <1>1, <2>2, <2>3
  <1>10. TypeOK'
    BY <1>3, <1>5, <1>6, <1>7, <1>8, <1>9 DEF IInv, TypeOK
  <1>11. \A m \in Messages : Sound(replica'[m], m, tries', sent')
    BY <1>4, <1>7, StaysSound DEF IInv, TypeOK
  <1>12. \A q \in Relays : \A j \in batch'[q] : Fresh(j, tries')
    BY <1>4, <1>7, StaysSound DEF IInv, TypeOK
  <1>13. ASSUME NEW q \in Relays, Busy(q)' PROVE Begun(q, tries, sent)'
    <2>1. CASE q = r
      BY <1>2, <1>3, <1>5, <1>6, <2>1 DEF Begun, Fresh
    <2>2. CASE q # r
      <3>1. Begun(q, tries, sent)
        BY <1>5, <1>13, <2>2 DEF IInv, Busy
      <3> QED BY <1>4, <1>5, <1>6, <1>7, <2>2, <3>1, StaysSound DEF IInv, Begun
    <2> QED BY <2>1, <2>2
  <1> QED BY <1>7, <1>9, <1>10, <1>11, <1>12, <1>13 DEF IInv

LEMMA SendStep ==
  ASSUME IInv, NEW r \in Relays, Send(r)
  PROVE  IInv'
  <1>1. Begun(r, tries, sent) /\ current[r].id \in Messages
    BY DEF IInv, Send, Busy, Begun, Image
  <1>2. /\ \/ sent' = sent \cup {current[r].id} /\ pc' = [pc EXCEPT ![r] = "sent"]
           \/ sent' \in {sent, sent \cup {current[r].id}} /\ pc' = [pc EXCEPT ![r] = "failed"]
        /\ UNCHANGED <<item, replica, page, tries, batch, current>>
        /\ faults' \in 0 .. MaxFaults
    BY DEF IInv, TypeOK, Send, Goto, Fault
  <1>3. Grown(tries, sent')
    BY <1>1, <1>2 DEF Grown, IInv, TypeOK
  <1>4. TypeOK'
    BY <1>1, <1>2 DEF IInv, TypeOK
  <1>5. /\ \A m \in Messages : Sound(item[m], m, tries, sent')
        /\ \A m \in Messages : Sound(replica[m], m, tries, sent')
    BY <1>3, StaysSound DEF IInv, TypeOK
  <1>6. ASSUME NEW q \in Relays, Busy(q)' PROVE Begun(q, tries, sent)'
    <2>1. CASE q = r
      BY <1>1, <1>2, <2>1 DEF IInv, TypeOK, Begun
    <2>2. CASE q # r
      <3>1. pc'[q] = pc[q]
        BY <1>2, <2>2 DEF IInv, TypeOK
      <3>2. Begun(q, tries, sent)
        BY <1>6, <3>1 DEF IInv, Busy
      <3> QED BY <1>2, <1>3, <3>1, <3>2, StaysSound DEF IInv, Begun
    <2> QED BY <2>1, <2>2
  <1> QED BY <1>2, <1>4, <1>5, <1>6 DEF IInv

(* The Put of an outcome, PUBLISHED after a publication or RETRY or DEAD   *)
(* after a failure, makes a sound item of the image.                       *)
LEMMA OutcomePut ==
  ASSUME IInv, NEW r \in Relays, Busy(r), NEW st \in Statuses, Put(r, current[r], st),
         \/ st = "PUBLISHED" /\ pc[r] = "sent"
         \/ st = NextStatus(current[r])
  PROVE  /\ item' \in [Messages -> ItemRow \cup {NoItem}]
         /\ \A m \in Messages : Sound(item'[m], m, tries, sent)
  <1> DEFINE i == current[r]
  <1>1. /\ i \in Image /\ i.id \in Messages /\ i.attempts \in Nat
        /\ i.attempts < MaxAttempts /\ i.attempts + 1 <= tries[i.id]
        /\ pc[r] = "sent" => i.id \in sent
    BY DEF IInv, Begun, Image
  <1>2. /\ item' \in [Messages -> ItemRow \cup {NoItem}]
        /\ item'[i.id] = [status |-> st, attempts |-> i.attempts + 1]
        /\ \A m \in Messages \ {i.id} : item'[m] = item[m]
    BY <1>1, Putting DEF IInv
  <1>3. Sound(item'[i.id], i.id, tries, sent)
    <2>1. CASE st = "PUBLISHED" /\ pc[r] = "sent"
      BY <1>1, <1>2, <2>1 DEF Sound, ItemRow
    <2>2. CASE st = NextStatus(current[r]) /\ i.attempts + 1 >= MaxAttempts
      BY <1>1, <1>2, <2>2 DEF Sound, ItemRow, NextStatus
    <2>3. CASE st = NextStatus(current[r]) /\ i.attempts + 1 < MaxAttempts
      BY <1>1, <1>2, <2>3 DEF Sound, ItemRow, NextStatus
    <2> QED BY <1>1, <2>1, <2>2, <2>3
  <1> QED BY <1>2, <1>3 DEF IInv

(* After a Put, whatever it was, a call that goes on keeps the invariant.  *)
LEMMA AfterPut ==
  ASSUME IInv, NEW r \in Relays,
         item' \in [Messages -> ItemRow \cup {NoItem}],
         \A m \in Messages : Sound(item'[m], m, tries, sent),
         UNCHANGED <<replica, page, sent, tries>>, faults' \in 0 .. MaxFaults,
         \/ NextImage(r) \/ Abandon(r)
         \/ Busy(r) /\ Goto(r, "failed") /\ UNCHANGED <<batch, current>>
  PROVE  IInv'
  <1>1. CASE NextImage(r) \/ Abandon(r)
    <2>1. /\ batch' \in [Relays -> SUBSET Image]
          /\ current' \in [Relays -> Image \cup {NoImage}]
          /\ pc' \in [Relays -> {"idle", "take", "send", "sent", "failed"}]
          /\ batch'[r] \subseteq batch[r]
          /\ pc'[r] \in {"idle", "take"}
          /\ \A q \in Relays \ {r} : /\ batch'[q] = batch[q]
                                     /\ current'[q] = current[q]
                                     /\ pc'[q] = pc[q]
      BY <1>1, Dropping DEF IInv
    <2>2. TypeOK'
      BY <2>1 DEF IInv, TypeOK
    <2>3. \A q \in Relays : \A i \in batch'[q] : Fresh(i, tries)
      BY <2>1 DEF IInv
    <2>4. \A q \in Relays : Busy(q)' => Begun(q, tries, sent)'
      BY <2>1 DEF IInv, Busy, Begun
    <2> QED BY <2>2, <2>3, <2>4 DEF IInv
  <1>2. CASE Busy(r) /\ Goto(r, "failed") /\ UNCHANGED <<batch, current>>
    <2>1. /\ pc' \in [Relays -> {"idle", "take", "send", "sent", "failed"}]
          /\ pc'[r] = "failed"
          /\ \A q \in Relays \ {r} : pc'[q] = pc[q]
      BY <1>2 DEF IInv, TypeOK, Goto
    <2>2. TypeOK'
      BY <1>2, <2>1 DEF IInv, TypeOK
    <2>3. \A q \in Relays : Busy(q)' => Begun(q, tries, sent)'
      BY <1>2, <2>1 DEF IInv, Busy, Begun
    <2> QED BY <1>2, <2>2, <2>3 DEF IInv
  <1> QED BY <1>1, <1>2

LEMMA PutPublishedStep ==
  ASSUME IInv, NEW r \in Relays, PutPublished(r)
  PROVE  IInv'
  <1>1. Busy(r) /\ pc[r] = "sent" /\ "PUBLISHED" \in Statuses
    BY DEF PutPublished, Busy, Statuses
  <1>2. Put(r, current[r], "PUBLISHED") \/ UNCHANGED item
    BY DEF PutPublished
  <1>3. /\ item' \in [Messages -> ItemRow \cup {NoItem}]
        /\ \A m \in Messages : Sound(item'[m], m, tries, sent)
    <2>1. CASE UNCHANGED item
      BY <2>1 DEF IInv, TypeOK
    <2>2. CASE Put(r, current[r], "PUBLISHED")
      BY <1>1, <2>2, OutcomePut
    <2> QED BY <1>2, <2>1, <2>2
  <1>4. faults' \in 0 .. MaxFaults
    BY DEF PutPublished, Fault, IInv, TypeOK
  <1>5. \/ NextImage(r)
        \/ Goto(r, "failed") /\ UNCHANGED <<batch, current>>
    BY DEF PutPublished
  <1>6. UNCHANGED <<replica, page, sent, tries>>
    BY DEF PutPublished
  <1> QED BY <1>1, <1>3, <1>4, <1>5, <1>6, AfterPut

LEMMA PutFailedStep ==
  ASSUME IInv, NEW r \in Relays, PutFailed(r)
  PROVE  IInv'
  <1>1. Busy(r) /\ NextStatus(current[r]) \in Statuses
    BY DEF PutFailed, Busy, Statuses, NextStatus
  <1>2. Put(r, current[r], NextStatus(current[r])) \/ UNCHANGED item
    BY DEF PutFailed
  <1>3. /\ item' \in [Messages -> ItemRow \cup {NoItem}]
        /\ \A m \in Messages : Sound(item'[m], m, tries, sent)
    <2>1. CASE UNCHANGED item
      BY <2>1 DEF IInv, TypeOK
    <2>2. CASE Put(r, current[r], NextStatus(current[r]))
      BY <1>1, <2>2, OutcomePut
    <2> QED BY <1>2, <2>1, <2>2
  <1>4. faults' \in 0 .. MaxFaults
    BY DEF PutFailed, Fault, IInv, TypeOK
  <1>5. NextImage(r) \/ Abandon(r)
    BY DEF PutFailed
  <1>6. UNCHANGED <<replica, page, sent, tries>>
    BY DEF PutFailed
  <1> QED BY <1>3, <1>4, <1>5, <1>6, AfterPut

LEMMA CrashStep ==
  ASSUME IInv, NEW r \in Relays, Crash(r)
  PROVE  IInv'
  <1>1. /\ item' \in [Messages -> ItemRow \cup {NoItem}]
        /\ \A m \in Messages : Sound(item'[m], m, tries, sent)
    BY DEF Crash, IInv, TypeOK
  <1>2. Abandon(r) /\ faults' \in 0 .. MaxFaults /\ UNCHANGED <<replica, page, sent, tries>>
    BY DEF Crash, Fault, IInv, TypeOK
  <1> QED BY <1>1, <1>2, AfterPut

----------------------------------------------------------------------------

LEMMA InitIInv == Init => IInv
  <1> SUFFICES ASSUME Init PROVE IInv
    OBVIOUS
  <1>1. TypeOK
    BY DEF Init, TypeOK
  <1>2. \A m \in Messages : Sound(NoItem, m, tries, sent)
    BY DEF Init, Sound, NoItem
  <1> QED BY <1>1, <1>2 DEF Init, IInv, Busy

LEMMA NextIInv == IInv /\ [Next]_vars => IInv'
  <1> SUFFICES ASSUME IInv, [Next]_vars PROVE IInv'
    OBVIOUS
  <1>1. CASE UNCHANGED vars
    BY <1>1 DEF IInv, TypeOK, Busy, Begun, vars, history, relay
  <1>2. CASE \E m \in Messages : Insert(m) \/ Replicate(m) \/ Shift(m)
    BY <1>2, InsertStep, ReplicateStep, ShiftStep
  <1>3. CASE \E r \in Relays : Relay(r) \/ Crash(r)
    BY <1>3, ScanStep, PutProcessingStep, SendStep, PutPublishedStep, PutFailedStep,
       CrashStep DEF Relay
  <1> QED BY <1>1, <1>2, <1>3 DEF Next

(* What the invariant says of the properties.                              *)
LEMMA IInvImplies == IInv => TypeOK /\ PublishedWasSent /\ RetriesAreUsable
  <1> SUFFICES ASSUME IInv PROVE PublishedWasSent /\ RetriesAreUsable
    BY DEF IInv
  <1>1. PublishedWasSent
    BY DEF IInv, Sound, PublishedWasSent
  <1>2. ASSUME NEW m \in Messages
        PROVE  /\ item[m].status \in Statuses \cup {"NONE"}
               /\ tries[m] \in 0 .. MaxAttempts
               /\ item[m].status = "DEAD" => tries[m] = MaxAttempts
    BY DEF IInv, Sound, TypeOK, ItemRow, NoItem
  <1>3. RetriesAreUsable
    BY <1>2 DEF IInv, Sound, RetriesAreUsable, Statuses
  <1> QED BY <1>1, <1>3

LEMMA Invariance == Spec => []IInv
  BY InitIInv, NextIInv, PTL DEF Spec

(* Items, replicas, counters and relays keep their types, for any number   *)
(* of items, relays, attempts and failures.                                *)
THEOREM TypeCorrect == Spec => []TypeOK
  BY Invariance, IInvImplies, PTL

(* No relay, whatever stale image it puts back, marks a message PUBLISHED  *)
(* that SNS has not accepted.                                              *)
THEOREM NeverForged == Spec => []PublishedWasSent
  BY Invariance, IInvImplies, PTL

(* Stale counts never make a waiting item unusable, and no message is      *)
(* given up before MaxAttempts attempts were begun.                        *)
THEOREM NeverGivenUpEarly == Spec => []RetriesAreUsable
  BY Invariance, IInvImplies, PTL

----------------------------------------------------------------------------
(* The items left behind.                                                  *)

WorksOn(r, m) == Busy(r) /\ current[r].id = m

Orphans == {m \in Messages : /\ item[m].status = "PROCESSING"
                             /\ \A r \in Relays : ~WorksOn(r, m)}

FewOrphans == IsFiniteSet(Orphans) /\ Cardinality(Orphans) <= faults

\* A relay at work on an image has it in its batch.
CurrentHeld == \A r \in Relays : Busy(r) => current[r] \in batch[r]

LEMMA StepCurrentHeld ==
  ASSUME IInv, CurrentHeld, [Next]_vars
  PROVE  CurrentHeld'
  <1>1. CASE UNCHANGED vars
    BY <1>1 DEF CurrentHeld, Busy, vars, relay
  <1>2. ASSUME NEW m \in Messages, Insert(m) \/ Replicate(m) \/ Shift(m) PROVE CurrentHeld'
    BY <1>2 DEF CurrentHeld, Busy, Insert, Replicate, Shift, relay
  <1>3. ASSUME NEW r \in Relays, Scan(r) PROVE CurrentHeld'
    <2>1. /\ pc'[r] = "take"
          /\ \A q \in Relays \ {r} : pc'[q] = pc[q] /\ batch'[q] = batch[q]
          /\ current' = current
      BY <1>3 DEF Scan, IInv, TypeOK
    <2> QED BY <2>1 DEF CurrentHeld, Busy
  <1>4. ASSUME NEW r \in Relays, PutProcessing(r) PROVE CurrentHeld'
    <2>1. /\ current'[r] \in batch[r]
          /\ \A q \in Relays \ {r} : pc'[q] = pc[q] /\ current'[q] = current[q]
          /\ batch' = batch
      BY <1>4 DEF PutProcessing, Goto, IInv, TypeOK
    <2> QED BY <2>1 DEF CurrentHeld, Busy
  <1>5. ASSUME NEW r \in Relays, Send(r) PROVE CurrentHeld'
    <2>1. /\ \A q \in Relays \ {r} : pc'[q] = pc[q]
          /\ UNCHANGED <<batch, current>>
          /\ Busy(r)
      BY <1>5 DEF Send, Goto, IInv, TypeOK, Busy
    <2> QED BY <2>1 DEF CurrentHeld, Busy
  <1>6. ASSUME NEW r \in Relays, PutPublished(r) \/ PutFailed(r) \/ Crash(r)
        PROVE  CurrentHeld'
    <2>1. CASE NextImage(r) \/ Abandon(r)
      BY <2>1, Dropping DEF CurrentHeld, Busy, IInv
    <2>2. CASE Busy(r) /\ Goto(r, "failed") /\ UNCHANGED <<batch, current>>
      BY <2>2 DEF CurrentHeld, Busy, Goto, IInv, TypeOK
    <2> QED BY <1>6, <2>1, <2>2 DEF PutPublished, PutFailed, Crash, Busy
  <1> QED BY <1>1, <1>2, <1>3, <1>4, <1>5, <1>6 DEF Next, Relay

LEMMA CountOrphans ==
  ASSUME TypeOK, FewOrphans, NEW m, NEW S,
         \/ S \subseteq Orphans /\ faults' \in Nat /\ faults' >= faults
         \/ S \subseteq Orphans \cup {m} /\ faults' = faults + 1
  PROVE  IsFiniteSet(S) /\ Cardinality(S) <= faults'
  <1>1. faults \in Nat
    BY DEF TypeOK
  <1>2. Cardinality(Orphans) \in Nat /\ Cardinality(Orphans) <= faults
    BY FS_CardinalityType DEF FewOrphans
  <1>3. IsFiniteSet(Orphans)
    BY DEF FewOrphans
  <1>4. CASE S \subseteq Orphans /\ faults' \in Nat /\ faults' >= faults
    <2>1. IsFiniteSet(S) /\ Cardinality(S) <= Cardinality(Orphans)
      BY <1>3, <1>4, FS_Subset
    <2>2. Cardinality(S) \in Nat
      BY <2>1, FS_CardinalityType
    <2> QED BY <1>1, <1>2, <1>4, <2>1, <2>2
  <1>5. CASE S \subseteq Orphans \cup {m} /\ faults' = faults + 1
    <2> DEFINE T == Orphans \cup {m}
    <2>1. IsFiniteSet(T) /\ Cardinality(T) <= Cardinality(Orphans) + 1
      <3>1. IsFiniteSet(T)
        BY <1>3, FS_AddElement
      <3>2. \/ Cardinality(T) = Cardinality(Orphans)
            \/ Cardinality(T) = Cardinality(Orphans) + 1
        BY <1>3, FS_AddElement
      <3>3. Cardinality(T) <= Cardinality(Orphans) + 1
        BY <1>2, <3>2
      <3> QED BY <3>1, <3>3
    <2>2. IsFiniteSet(S) /\ Cardinality(S) <= Cardinality(T)
      BY <1>5, <2>1, FS_Subset
    <2>3. Cardinality(S) \in Nat /\ Cardinality(T) \in Nat
      BY <2>1, <2>2, FS_CardinalityType
    <2> QED BY <1>1, <1>2, <1>5, <2>1, <2>2, <2>3
  <1> QED BY <1>4, <1>5

LEMMA StepFewOrphans ==
  ASSUME IInv, FewOrphans, [Next]_vars
  PROVE  FewOrphans'
  <1>1. faults \in Nat /\ TypeOK
    BY DEF IInv, TypeOK
  <1> SUFFICES \E m : \/ Orphans' \subseteq Orphans /\ faults' \in Nat /\ faults' >= faults
                      \/ Orphans' \subseteq Orphans \cup {m} /\ faults' = faults + 1
    BY <1>1, CountOrphans DEF FewOrphans
  <1>2. CASE UNCHANGED vars
    <2>1. Orphans' = Orphans /\ faults' = faults
      BY <1>2 DEF Orphans, WorksOn, Busy, vars, history, relay
    <2> QED BY <1>1, <2>1
  <1>3. ASSUME NEW m \in Messages, Insert(m) \/ Replicate(m) \/ Shift(m)
        PROVE  Orphans' \subseteq Orphans /\ faults' = faults
    BY <1>3, <1>1 DEF Insert, Replicate, Shift, Orphans, WorksOn, Busy, history, relay, TypeOK
  <1>4. ASSUME NEW r \in Relays, Scan(r)
        PROVE  Orphans' \subseteq Orphans /\ faults' = faults
    <2>1. /\ ~Busy(r)
          /\ \A q \in Relays \ {r} : pc'[q] = pc[q]
          /\ current' = current /\ item' = item /\ faults' = faults
      BY <1>1, <1>4 DEF Scan, TypeOK, Busy, history
    <2> QED BY <2>1 DEF Orphans, WorksOn, Busy
  <1>5. ASSUME NEW r \in Relays, PutProcessing(r)
        PROVE  Orphans' \subseteq Orphans /\ faults' \in Nat /\ faults' >= faults
    <2>1. PICK i \in batch[r] :
            /\ current' = [current EXCEPT ![r] = i]
            /\ \/ Put(r, i, "PROCESSING") /\ Goto(r, "send") /\ UNCHANGED faults
               \/ /\ Fault
                  /\ Put(r, i, "PROCESSING") \/ UNCHANGED item
                  /\ Goto(r, "failed")
      BY <1>5 DEF PutProcessing
    <2>2. faults' \in Nat /\ faults' >= faults
      BY <1>1, <2>1 DEF Fault
    <2>3. /\ current'[r] = i /\ pc'[r] \in {"send", "failed"} /\ ~Busy(r)
          /\ \A q \in Relays \ {r} : pc'[q] = pc[q] /\ current'[q] = current[q]
      BY <1>1, <1>5, <2>1 DEF TypeOK, Goto, PutProcessing, Busy
    <2>4. WorksOn(r, i.id)'
      BY <2>3 DEF WorksOn, Busy
    <2>5. \A m \in Messages : m # i.id => item'[m] = item[m]
      <3>1. i \in Image /\ "PROCESSING" \in Statuses
        BY <1>1 DEF TypeOK, Statuses
      <3> QED BY <1>1, <2>1, <3>1, Putting DEF TypeOK
    <2>6. \A q \in Relays, m \in Messages : WorksOn(q, m) => WorksOn(q, m)'
      BY <2>3 DEF WorksOn, Busy
    <2>7. Orphans' \subseteq Orphans
      BY <2>4, <2>5, <2>6 DEF Orphans
    <2> QED BY <2>2, <2>7
  <1>6. ASSUME NEW r \in Relays, Send(r)
        PROVE  Orphans' \subseteq Orphans /\ faults' \in Nat /\ faults' >= faults
    <2>1. /\ pc[r] = "send" /\ pc'[r] \in {"sent", "failed"}
          /\ \A q \in Relays \ {r} : pc'[q] = pc[q]
          /\ current' = current /\ item' = item
      BY <1>1, <1>6 DEF Send, TypeOK, Goto
    <2>2. faults' \in Nat /\ faults' >= faults
      BY <1>1, <1>6 DEF Send, Fault
    <2> QED BY <2>1, <2>2 DEF Orphans, WorksOn, Busy
  <1>7. ASSUME NEW r \in Relays, PutPublished(r) \/ PutFailed(r) \/ Crash(r)
        PROVE  \/ Orphans' \subseteq Orphans /\ faults' \in Nat /\ faults' >= faults
               \/ Orphans' \subseteq Orphans \cup {current[r].id} /\ faults' = faults + 1
    <2> DEFINE c == current[r].id
    <2>1. \A m \in Messages : m # c => item'[m] = item[m]
      <3>1. CASE Crash(r)
        BY <3>1 DEF Crash
      <3>2. CASE PutPublished(r) \/ PutFailed(r)
        <4>1. current[r] \in Image
          BY <3>2 DEF PutPublished, PutFailed, IInv, Busy, Begun
        <4>2. "PUBLISHED" \in Statuses /\ NextStatus(current[r]) \in Statuses
          BY DEF Statuses, NextStatus
        <4> QED BY <1>1, <3>2, <4>1, <4>2, Putting DEF PutPublished, PutFailed
      <3> QED BY <1>7, <3>1, <3>2
    <2>2. \A q \in Relays \ {r}, m \in Messages : WorksOn(q, m) => WorksOn(q, m)'
      <3>1. CASE NextImage(r) \/ Abandon(r)
        BY <1>1, <3>1, Dropping DEF WorksOn, Busy
      <3>2. CASE Goto(r, "failed") /\ UNCHANGED <<batch, current>>
        BY <1>1, <3>2 DEF WorksOn, Busy, Goto, TypeOK
      <3> QED BY <1>7, <3>1, <3>2 DEF PutPublished, PutFailed, Crash
    <2>3. Orphans' \subseteq Orphans \cup {c}
      BY <2>1, <2>2 DEF Orphans, WorksOn
    <2>4. CASE Fault
      BY <2>3, <2>4 DEF Fault
    <2>5. CASE faults' = faults /\ NextImage(r)
               /\ \/ Put(r, current[r], "PUBLISHED")
                  \/ Put(r, current[r], NextStatus(current[r]))
      <3>1. current[r] \in Image /\ c \in Messages
        <4>1. ~Fault
          BY <1>1, <2>5 DEF Fault
        <4>2. Busy(r)
          BY <1>7, <4>1 DEF PutPublished, PutFailed, Crash, Busy
        <4> QED BY <4>2 DEF IInv, Begun, Image
      <3>2. "PUBLISHED" \in Statuses /\ NextStatus(current[r]) \in Statuses
            /\ NextStatus(current[r]) # "PROCESSING"
        BY DEF Statuses, NextStatus
      <3>3. item'[c].status # "PROCESSING"
        <4>1. PICK st \in Statuses : st # "PROCESSING" /\ Put(r, current[r], st)
          BY <2>5, <3>2
        <4>2. item'[c] = [status |-> st, attempts |-> current[r].attempts + 1]
          BY <1>1, <3>1, <4>1, Putting
        <4> QED BY <4>1, <4>2
      <3>4. Orphans' \subseteq Orphans
        BY <2>3, <3>3 DEF Orphans
      <3> QED BY <1>1, <2>5, <3>4
    <2> QED BY <1>7, <2>4, <2>5 DEF PutPublished, PutFailed, Crash
  <1> QED BY <1>1, <1>2, <1>3, <1>4, <1>5, <1>6, <1>7 DEF Next, Relay

LEMMA OrphansInvariance == Spec => [](IInv /\ CurrentHeld /\ FewOrphans)
  <1>1. Init => CurrentHeld /\ FewOrphans
    <2> SUFFICES ASSUME Init PROVE CurrentHeld /\ FewOrphans
      OBVIOUS
    <2>1. Orphans = {} /\ faults = 0
      BY DEF Init, Orphans, NoItem
    <2>2. IsFiniteSet(Orphans) /\ Cardinality(Orphans) = 0
      BY <2>1, FS_EmptySet
    <2> QED BY <2>1, <2>2 DEF Init, CurrentHeld, Busy, FewOrphans
  <1>2. IInv /\ CurrentHeld /\ FewOrphans /\ [Next]_vars => CurrentHeld' /\ FewOrphans'
    BY StepCurrentHeld, StepFewOrphans
  <1> QED BY <1>1, <1>2, InitIInv, NextIInv, PTL DEF Spec

(* Every failure leaves at most one item behind that no Scan finds.        *)
THEOREM FewLeftBehind == Spec => []OneStrandedPerFault
  <1>1. IInv /\ CurrentHeld /\ FewOrphans => OneStrandedPerFault
    <2> SUFFICES ASSUME IInv, CurrentHeld, FewOrphans PROVE OneStrandedPerFault
      OBVIOUS
    <2> DEFINE S == {m \in Messages : Stranded(m)}
    <2>1. S \subseteq Orphans
      BY DEF Stranded, Orphans, WorksOn, Held, CurrentHeld
    <2>2. IsFiniteSet(S) /\ Cardinality(S) <= Cardinality(Orphans)
      BY <2>1, FS_Subset DEF FewOrphans
    <2>3. Cardinality(S) \in Nat /\ Cardinality(Orphans) \in Nat /\ faults \in Nat
      BY <2>2, FS_CardinalityType DEF FewOrphans, IInv, TypeOK
    <2> QED BY <2>2, <2>3 DEF FewOrphans, OneStrandedPerFault
  <1> QED BY <1>1, OrphansInvariance, PTL
----------------------------------------------------------------------------
(* The promise of OutboxPromise.                                           *)

\* What a Scan finds, and what a relay has in its batch, was announced.
Existing ==
    /\ \A m \in Messages : replica[m] # NoItem => item[m] # NoItem
    /\ \A r \in Relays : \A i \in batch[r] : item[i.id] # NoItem

(* An item that exists is only ever replaced by another one.               *)
LEMMA StaysThere ==
  ASSUME IInv, [Next]_vars, NEW m \in Messages, item[m] # NoItem
  PROVE  item'[m] # NoItem
  <1>1. CASE UNCHANGED item
    BY <1>1
  <1>2. ASSUME NEW n \in Messages, Insert(n) PROVE item'[m] # NoItem
    BY <1>2 DEF Insert, IInv, TypeOK
  <1>3. ASSUME NEW r \in Relays, NEW i \in Image, NEW st \in Statuses, Put(r, i, st)
        PROVE  item'[m] # NoItem
    <2>1. /\ item'[i.id] = [status |-> st, attempts |-> i.attempts + 1]
          /\ \A n \in Messages \ {i.id} : item'[n] = item[n]
      BY <1>3, Putting DEF IInv
    <2> QED BY <2>1 DEF Statuses, NoItem
  <1>4. ASSUME NEW r \in Relays, PutProcessing(r), ~UNCHANGED item
        PROVE  item'[m] # NoItem
    <2>1. PICK i \in batch[r] : Put(r, i, "PROCESSING")
      BY <1>4 DEF PutProcessing
    <2>2. i \in Image /\ "PROCESSING" \in Statuses
      BY DEF IInv, TypeOK, Statuses
    <2> QED BY <1>3, <2>1, <2>2
  <1>5. ASSUME NEW r \in Relays, PutPublished(r) \/ PutFailed(r), ~UNCHANGED item
        PROVE  item'[m] # NoItem
    <2>1. current[r] \in Image
      BY <1>5 DEF IInv, Busy, Begun, PutPublished, PutFailed
    <2>2. PICK st \in Statuses : Put(r, current[r], st)
      BY <1>5 DEF PutPublished, PutFailed, NextStatus, Statuses
    <2> QED BY <1>3, <2>1, <2>2
  <1> QED BY <1>1, <1>2, <1>4, <1>5
          DEF Next, Relay, vars, Replicate, Shift, Scan, Send, Crash

LEMMA StepExisting ==
  ASSUME IInv, Existing, [Next]_vars
  PROVE  Existing'
  <1>1. \A m \in Messages : replica'[m] # NoItem => item'[m] # NoItem
    <2> SUFFICES ASSUME NEW m \in Messages, replica'[m] # NoItem
                 PROVE  item'[m] # NoItem
      OBVIOUS
    <2>1. replica'[m] = replica[m] \/ replica'[m] = item[m]
      BY DEF Next, Relay, vars, Insert, Replicate, Shift, Scan, PutProcessing, Send,
             PutPublished, PutFailed, Crash, IInv, TypeOK
    <2> QED BY <2>1, StaysThere DEF Existing
  <1>2. ASSUME NEW q \in Relays, NEW i \in batch'[q]
        PROVE  item'[i.id] # NoItem
    <2>1. CASE i \in batch[q]
      BY <2>1, StaysThere DEF Existing, IInv, TypeOK, Image
    <2>2. ASSUME NEW r \in Relays, Scan(r), i \notin batch[q]
          PROVE  item'[i.id] # NoItem
      <3>1. PICK view \in [Messages -> {item, replica}] :
               batch' = [batch EXCEPT ![r] =
                           {[id |-> m, attempts |-> view[m][m].attempts] :
                              m \in {n \in page : Outstanding(view[n][n])}}]
        BY <2>2 DEF Scan
      <3>2. q = r /\ batch'[r] = {[id |-> m, attempts |-> view[m][m].attempts] :
                                    m \in {n \in page : Outstanding(view[n][n])}}
        BY <1>2, <2>2, <3>1 DEF IInv, TypeOK
      <3>3. PICK m \in Messages : Outstanding(view[m][m]) /\ i.id = m
        BY <1>2, <3>2 DEF IInv, TypeOK
      <3>4. view[m][m] \in {item[m], replica[m]} /\ view[m][m] # NoItem
        BY <3>3 DEF Outstanding, NoItem
      <3> QED BY <2>2, <3>3, <3>4 DEF Existing, Scan
    <2>3. ASSUME NEW r \in Relays, NextImage(r) \/ Abandon(r)
          PROVE  i \in batch[q]
      BY <1>2, <2>3, Dropping DEF IInv
    <2>4. CASE UNCHANGED batch
      BY <1>2, <2>1, <2>4
    <2> QED BY <2>1, <2>2, <2>3, <2>4
            DEF Next, Relay, vars, relay, Insert, Replicate, Shift, PutProcessing, Send,
                PutPublished, PutFailed, Crash
  <1> QED BY <1>1, <1>2 DEF Existing

Announced == {m \in Messages : item[m] # NoItem}
Verdict(m) == IF item[m].status \in {"PUBLISHED", "DEAD"} THEN item[m].status ELSE "OPEN"
Verdicts == [m \in Messages |-> Verdict(m)]

(* A step that leaves the items and the histories alone is a stutter.      *)
LEMMA PromiseStutter ==
  ASSUME UNCHANGED <<item, tries, sent>>
  PROVE  UNCHANGED Promise!vars
  BY DEF Promise!vars

(* Putting the item announces the message.                                 *)
LEMMA PromiseInsert ==
  ASSUME IInv, NEW m \in Messages, Insert(m)
  PROVE  [Promise!Next]_(Promise!vars)
  <1>1. /\ item'[m] = [status |-> "PENDING", attempts |-> 0] /\ item[m] = NoItem
        /\ \A n \in Messages \ {m} : item'[n] = item[n]
        /\ UNCHANGED <<tries, sent>>
    BY DEF Insert, IInv, TypeOK, history
  <1>2. m \notin Announced /\ Announced' = Announced \cup {m}
    BY <1>1 DEF Announced, NoItem
  <1>3. \A n \in Messages : Verdict(n)' = Verdict(n)
    BY <1>1 DEF Verdict, NoItem
  <1>4. Verdicts' = Verdicts
    BY <1>3 DEF Verdicts
  <1>5. Promise!Announce(m)
    BY <1>1, <1>2, <1>4 DEF Promise!Announce, Announced, Verdicts, Verdict
  <1> QED BY <1>5 DEF Promise!Next

(* A Put, if it takes effect, concerns one item, which existed before.     *)
LEMMA PromisePut ==
  ASSUME IInv, NEW r \in Relays, NEW i \in Image, NEW st \in Statuses, Put(r, i, st),
         item[i.id] # NoItem
  PROVE  /\ Announced' = Announced
         /\ Verdicts' = [Verdicts EXCEPT ![i.id] =
                            IF st \in {"PUBLISHED", "DEAD"} THEN st ELSE "OPEN"]
  <1>1. /\ item'[i.id] = [status |-> st, attempts |-> i.attempts + 1]
        /\ \A n \in Messages \ {i.id} : item'[n] = item[n]
    BY Putting DEF IInv
  <1>2. item'[i.id] # NoItem
    BY <1>1 DEF Statuses, NoItem
  <1>3. Announced' = Announced
    BY <1>1, <1>2 DEF Announced
  <1>4. /\ Verdict(i.id)' = IF st \in {"PUBLISHED", "DEAD"} THEN st ELSE "OPEN"
        /\ \A n \in Messages \ {i.id} : Verdict(n)' = Verdict(n)
    BY <1>1 DEF Verdict
  <1>5. Verdicts' = [Verdicts EXCEPT ![i.id] =
                       IF st \in {"PUBLISHED", "DEAD"} THEN st ELSE "OPEN"]
    BY <1>4 DEF Verdicts
  <1> QED BY <1>3, <1>5

(* A relay begins an attempt at an item of its batch, which may take back  *)
(* a verdict another relay has reached meanwhile.                          *)
LEMMA PromiseProcessing ==
  ASSUME IInv, Existing, NEW r \in Relays, PutProcessing(r)
  PROVE  [Promise!Next]_(Promise!vars)
  <1>1. PICK i \in batch[r] :
           /\ tries' = [tries EXCEPT ![i.id] = IF @ < MaxAttempts THEN @ + 1 ELSE @]
           /\ Put(r, i, "PROCESSING") \/ UNCHANGED item
    BY DEF PutProcessing
  <1>2. i \in Image /\ i.id \in Messages /\ item[i.id] # NoItem
    BY DEF IInv, TypeOK, Image, Existing
  <1>3. /\ Announced' = Announced
        /\ \/ Verdicts' = Verdicts
           \/ Verdicts' = [Verdicts EXCEPT ![i.id] = "OPEN"]
    <2>1. CASE UNCHANGED item
      BY <2>1 DEF Announced, Verdicts, Verdict
    <2>2. CASE Put(r, i, "PROCESSING")
      <3>1. "PROCESSING" \in Statuses
        BY DEF Statuses
      <3> QED BY <1>2, <2>2, <3>1, PromisePut
    <2> QED BY <1>1, <2>1, <2>2
  <1> DEFINE Reopened(R) ==
         Verdicts' = [m \in Messages |-> IF m \in R THEN "OPEN" ELSE Verdicts[m]]
  <1>4. \E R \in SUBSET {i.id} : Reopened(R)
    <2>1. CASE Verdicts' = Verdicts
      <3>1. Reopened({})
        BY <2>1 DEF Verdicts
      <3> WITNESS {} \in SUBSET {i.id}
      <3> QED BY <3>1
    <2>2. CASE Verdicts' = [Verdicts EXCEPT ![i.id] = "OPEN"]
      <3>1. Reopened({i.id})
        BY <2>2 DEF Verdicts
      <3> QED BY <3>1
    <2> QED BY <1>3, <2>1, <2>2
  <1>5. tries' = [m \in Messages |->
                    IF m \in {i.id} /\ tries[m] < MaxAttempts THEN tries[m] + 1
                                                              ELSE tries[m]]
    BY <1>1, <1>2 DEF IInv, TypeOK
  <1>6. {i.id} \subseteq Announced
    BY <1>2 DEF Announced
  <1>7. UNCHANGED sent
    BY DEF PutProcessing
  <1>8. Promise!Begin({i.id})
    BY <1>3, <1>4, <1>5, <1>6, <1>7
       DEF Promise!Begin, Announced, Verdicts, Verdict
  <1> QED BY <1>2, <1>8 DEF Promise!Next

(* What a relay sends was begun.                                           *)
LEMMA PromiseSend ==
  ASSUME IInv, NEW r \in Relays, Send(r)
  PROVE  [Promise!Next]_(Promise!vars)
  <1>1. /\ current[r].id \in Messages /\ current[r].attempts \in Nat
        /\ current[r].attempts + 1 <= tries[current[r].id]
    BY DEF IInv, Send, Busy, Begun, Image
  <1>2. tries[current[r].id] \in Nat /\ tries[current[r].id] > 0
    BY <1>1 DEF IInv, TypeOK
  <1>3. UNCHANGED <<item, tries>>
    BY DEF Send
  <1>4. CASE sent' = sent \cup {current[r].id}
    <2>1. Promise!Send(current[r].id)
      BY <1>2, <1>3, <1>4 DEF Promise!Send
    <2> QED BY <1>1, <2>1 DEF Promise!Next
  <1>5. CASE UNCHANGED sent
    BY <1>3, <1>5, PromiseStutter
  <1> QED BY <1>4, <1>5 DEF Send

(* A Put of an outcome settles the message, rightly or with stale data.    *)
LEMMA PromiseOutcome ==
  ASSUME IInv, Existing, CurrentHeld, NEW r \in Relays, Busy(r),
         UNCHANGED <<tries, sent>>,
         NEW st \in Statuses, Put(r, current[r], st),
         \/ st = "PUBLISHED" /\ pc[r] = "sent"
         \/ st = NextStatus(current[r])
  PROVE  [Promise!Next]_(Promise!vars)
  <1>1. PICK i \in batch[r] : i = current[r]
    BY DEF CurrentHeld
  <1>2. /\ i \in Image /\ i.id \in Messages /\ i.attempts \in Nat
        /\ i.attempts + 1 <= tries[i.id] /\ tries[i.id] \in 0 .. MaxAttempts
        /\ pc[r] = "sent" => i.id \in sent
        /\ item[i.id] # NoItem
    BY <1>1 DEF IInv, TypeOK, Begun, Image, Existing
  <1> DEFINE v == IF st \in {"PUBLISHED", "DEAD"} THEN st ELSE "OPEN"
  <1>3. Announced' = Announced /\ Verdicts' = [Verdicts EXCEPT ![i.id] = v]
    BY <1>1, <1>2, PromisePut
  <1>4. v = "PUBLISHED" => i.id \in sent
    BY <1>1, <1>2 DEF NextStatus
  <1>5. v = "DEAD" => tries[i.id] = MaxAttempts
    BY <1>1, <1>2 DEF NextStatus
  <1>6. v \in {"OPEN", "PUBLISHED", "DEAD"}
    OBVIOUS
  <1>7. Promise!Settle(i.id, v)
    BY <1>3, <1>4, <1>5 DEF Promise!Settle, Announced, Verdicts, Verdict
  <1> QED BY <1>2, <1>6, <1>7 DEF Promise!Next

LEMMA StepPromise ==
  ASSUME IInv, Existing, CurrentHeld, [Next]_vars
  PROVE  [Promise!Next]_(Promise!vars)
  <1>1. CASE UNCHANGED vars
    BY <1>1, PromiseStutter DEF vars, history
  <1>2. CASE \E m \in Messages : Insert(m)
    BY <1>2, PromiseInsert
  <1>3. CASE \E m \in Messages : Replicate(m) \/ Shift(m)
    BY <1>3, PromiseStutter DEF Replicate, Shift, history
  <1>4. CASE \E r \in Relays : Scan(r) \/ Crash(r)
    BY <1>4, PromiseStutter DEF Scan, Crash, history
  <1>5. CASE \E r \in Relays : PutProcessing(r)
    BY <1>5, PromiseProcessing
  <1>6. CASE \E r \in Relays : Send(r)
    BY <1>6, PromiseSend
  <1>7. ASSUME NEW r \in Relays, PutPublished(r)
        PROVE  [Promise!Next]_(Promise!vars)
    <2>1. /\ Put(r, current[r], "PUBLISHED") \/ UNCHANGED item
          /\ pc[r] = "sent" /\ Busy(r) /\ UNCHANGED <<tries, sent>>
      BY <1>7 DEF PutPublished, Busy
    <2>2. "PUBLISHED" \in Statuses
      BY DEF Statuses
    <2> QED BY <2>1, <2>2, PromiseOutcome, PromiseStutter
  <1>8. ASSUME NEW r \in Relays, PutFailed(r)
        PROVE  [Promise!Next]_(Promise!vars)
    <2>1. /\ Put(r, current[r], NextStatus(current[r])) \/ UNCHANGED item
          /\ Busy(r) /\ UNCHANGED <<tries, sent>>
      BY <1>8 DEF PutFailed, Busy
    <2>2. NextStatus(current[r]) \in Statuses
      BY DEF NextStatus, Statuses
    <2> QED BY <2>1, <2>2, PromiseOutcome, PromiseStutter
  <1> QED BY <1>1, <1>2, <1>3, <1>4, <1>5, <1>6, <1>7, <1>8 DEF Next, Relay

(* RefinesPromise: although nothing of what a relay has in memory need be  *)
(* true any more when it is put back, the table keeps the promise of an    *)
(* outbox, with any number of relays and failures.                         *)
THEOREM ImplementsPromise == Spec => RefinesPromise
  <1>1. Init => Promise!Init
    <2> SUFFICES ASSUME Init PROVE Promise!Init
      OBVIOUS
    <2>1. {m \in Messages : item[m] # NoItem} = {}
      BY DEF Init
    <2>2. \A m \in Messages : item[m].status = "NONE"
      BY DEF Init, NoItem
    <2> QED BY <2>1, <2>2 DEF Init, Promise!Init
  <1>2. Init => Existing
    BY DEF Init, Existing
  <1>3. IInv /\ Existing /\ [Next]_vars => Existing'
    BY StepExisting
  <1>4. IInv /\ Existing /\ CurrentHeld /\ [Next]_vars => [Promise!Next]_(Promise!vars)
    BY StepPromise
  <1> QED BY <1>1, <1>2, <1>3, <1>4, OrphansInvariance, PTL
          DEF Spec, RefinesPromise, Promise!Spec
=============================================================================
