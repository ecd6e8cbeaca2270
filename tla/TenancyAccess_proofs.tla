------------------------- MODULE TenancyAccess_proofs -------------------------
(***************************************************************************)
(* Safety of the way from an activation to the tenant's access, for any    *)
(* number of messages, relays and consumers, any limits, and whatever      *)
(* fails.                                                                  *)
(*                                                                         *)
(* The relay's part is not proved again: a step of the whole is a step of  *)
(* SqlOutboxRelay or leaves its variables alone (RunsOutbox), so that its  *)
(* theorems hold here (RelayProofs).  On the consumers' side, copies are   *)
(* numbered by their arrival (Numbered), and every receive of a copy whose *)
(* message is not granted is paid for by a failure or still under way      *)
(* (Tried).                                                                *)
(***************************************************************************)
EXTENDS TenancyAccess, FiniteSetTheorems, TLAPS

RelayProofs == INSTANCE SqlOutboxRelay_proofs

USE TenancyAccessAssumption

----------------------------------------------------------------------------
(* The outbox within the whole.                                            *)

LEMMA RelayAssumption == RelayProofs!SqlOutboxRelayAssumption
  BY OutboxAssumption
     DEF Outbox!SqlOutboxRelayAssumption, RelayProofs!SqlOutboxRelayAssumption

(* The relay that is proved about is the relay that is composed here.      *)
LEMMA SameRelay ==
  ASSUME NEW r, Outbox!Relay(r) \/ Outbox!Crash(r)
  PROVE  RelayProofs!Relay(r) \/ RelayProofs!Crash(r)
  <1>1. CASE Outbox!Claim(r)
    <2>1. \A m : Outbox!Claimable(m) = RelayProofs!Claimable(m)
      BY DEF Outbox!Claimable, RelayProofs!Claimable
    <2>2. {m \in Messages : Outbox!Claimable(m)}
             = {m \in Messages : RelayProofs!Claimable(m)}
      BY <2>1
    <2>3. RelayProofs!Claim(r)
      BY <1>1, <2>2, Zenon DEF Outbox!Claim, RelayProofs!Claim,
                               Outbox!Cardinality, RelayProofs!Cardinality
    <2> QED BY <2>3 DEF RelayProofs!Relay
  <1>2. CASE Outbox!Send(r)
    BY <1>2 DEF Outbox!Send, RelayProofs!Send, Outbox!rows, RelayProofs!rows,
                RelayProofs!Relay
  <1>3. CASE Outbox!MarkPublished(r)
    <2>1. RelayProofs!MarkPublished(r)
      BY <1>3 DEF Outbox!MarkPublished, RelayProofs!MarkPublished,
                  Outbox!Mark, RelayProofs!Mark,
                  Outbox!NextItem, RelayProofs!NextItem,
                  Outbox!NoItem, RelayProofs!NoItem
    <2> QED BY <2>1 DEF RelayProofs!Relay
  <1>4. CASE Outbox!MarkFailed(r)
    <2>1. RelayProofs!MarkFailed(r)
      BY <1>4 DEF Outbox!MarkFailed, RelayProofs!MarkFailed,
                  Outbox!Mark, RelayProofs!Mark,
                  Outbox!NextStatus, RelayProofs!NextStatus,
                  Outbox!NextItem, RelayProofs!NextItem,
                  Outbox!NoItem, RelayProofs!NoItem,
                  Outbox!Abandon, RelayProofs!Abandon
    <2> QED BY <2>1 DEF RelayProofs!Relay
  <1>5. CASE Outbox!Crash(r)
    BY <1>5 DEF Outbox!Crash, RelayProofs!Crash,
                Outbox!Abandon, RelayProofs!Abandon,
                Outbox!NoItem, RelayProofs!NoItem,
                Outbox!rows, RelayProofs!rows
  <1> QED BY <1>1, <1>2, <1>3, <1>4, <1>5 DEF Outbox!Relay

LEMMA SameStep ==
  ASSUME [Outbox!Next]_(Outbox!vars)
  PROVE  [RelayProofs!Next]_(RelayProofs!vars)
  <1>1. CASE UNCHANGED Outbox!vars
    BY <1>1 DEF Outbox!vars, RelayProofs!vars, Outbox!rows, RelayProofs!rows
  <1>2. ASSUME NEW m \in Messages, Outbox!Insert(m)
        PROVE  RelayProofs!Next
    BY <1>2 DEF Outbox!Insert, RelayProofs!Insert, RelayProofs!Next
  <1>3. ASSUME NEW r \in Relays, Outbox!Relay(r) \/ Outbox!Crash(r)
        PROVE  RelayProofs!Next
    BY <1>3, SameRelay DEF RelayProofs!Next
  <1> QED BY <1>1, <1>2, <1>3 DEF Outbox!Next

LEMMA StepOutbox ==
  ASSUME [Next]_vars
  PROVE  [Outbox!Next]_(Outbox!vars)
  <1>1. CASE Tenancy
    BY <1>1 DEF Tenancy
  <1>2. CASE UNCHANGED outbox
    BY <1>2 DEF outbox, Outbox!vars, Outbox!rows
  <1>3. ASSUME NEW c \in Consumers, Consume(c) \/ Crash(c)
        PROVE  UNCHANGED outbox
    BY <1>3 DEF Consume, Receive, Project, Delete, Discard, Crash
  <1> QED BY <1>1, <1>2, <1>3 DEF Next, Arrive, Redrive, vars

(* The composed system runs the tenancy context's outbox: consumers and    *)
(* queues neither change its rows nor its relays.                          *)
THEOREM RunsOutbox == Spec => Outbox!Spec
  <1>1. Init => Outbox!Init
    BY DEF Init
  <1>2. [Next]_vars => [Outbox!Next]_(Outbox!vars)
    BY StepOutbox
  <1> QED BY <1>1, <1>2, PTL DEF Spec, Outbox!Spec

LEMMA RelayInvariance == Spec => []RelayProofs!IInv
  <1>1. Outbox!Init => RelayProofs!Init
    BY DEF Outbox!Init, RelayProofs!Init, Outbox!NoItem, RelayProofs!NoItem
  <1>2. [Outbox!Next]_(Outbox!vars) => [RelayProofs!Next]_(RelayProofs!vars)
    BY SameStep
  <1>3. Outbox!Spec => RelayProofs!Spec
    BY <1>1, <1>2, PTL DEF Outbox!Spec, RelayProofs!Spec
  <1> QED BY <1>3, RunsOutbox, RelayAssumption, RelayProofs!Invariance, PTL

(* What the consumers' side relies on.                                     *)
Announced ==
    /\ status \in [Messages -> Outbox!Statuses]
    /\ sends \in [Messages -> Nat]
    /\ \A m \in Messages : sends[m] <= MaxAttempts
    /\ \A m \in Messages : sends[m] > 0 => status[m] # "NONE"

LEMMA RelayAnnounces == RelayProofs!IInv => Announced
  <1> SUFFICES ASSUME RelayProofs!IInv PROVE Announced
    OBVIOUS
  <1>1. /\ status \in [Messages -> Outbox!Statuses]
        /\ attempts \in [Messages -> Nat]
        /\ sends \in [Messages -> Nat]
    BY DEF RelayProofs!IInv, RelayProofs!TypeOK, RelayProofs!Statuses, Outbox!Statuses
  <1>2. /\ \A m \in Messages : status[m] = "NONE" => attempts[m] = 0
        /\ \A m \in Messages : sends[m] <= attempts[m] /\ attempts[m] <= MaxAttempts
    BY DEF RelayProofs!IInv, RelayProofs!Counting, RelayProofs!SendsAreCounted
  <1>3. MaxAttempts \in Nat
    BY OutboxAssumption DEF Outbox!SqlOutboxRelayAssumption
  <1> QED BY <1>1, <1>2, <1>3 DEF Announced

LEMMA AlwaysAnnounced == Spec => []Announced
  BY RelayAnnounces, RelayInvariance, PTL

(* SNS forgets no message it has accepted, and the outbox no row: a step   *)
(* adds one row at most.                                                   *)
LEMMA StepAnnounced ==
  ASSUME Announced, [Outbox!Next]_(Outbox!vars)
  PROVE  /\ \A m \in Messages : sends'[m] >= sends[m]
         /\ \/ \A m \in Messages : status[m] = "NONE" <=> status'[m] = "NONE"
            \/ \E n \in Messages :
                  /\ status[n] = "NONE" /\ status'[n] # "NONE"
                  /\ \A m \in Messages \ {n} : status'[m] = status[m]
  <1>1. CASE UNCHANGED Outbox!vars
    BY <1>1 DEF Outbox!vars, Outbox!rows, Announced
  <1>2. ASSUME NEW n \in Messages, Outbox!Insert(n)
        PROVE  /\ sends' = sends
               /\ status[n] = "NONE" /\ status'[n] # "NONE"
               /\ \A m \in Messages \ {n} : status'[m] = status[m]
    BY <1>2 DEF Outbox!Insert, Announced
  <1>3. ASSUME NEW r \in Relays, Outbox!Claim(r)
        PROVE  /\ sends' = sends
               /\ \A m \in Messages : status[m] = "NONE" <=> status'[m] = "NONE"
    <2>1. PICK B \in SUBSET {m \in Messages : Outbox!Claimable(m)} :
             status' = [m \in Messages |-> IF m \in B THEN "PROCESSING" ELSE status[m]]
      BY <1>3 DEF Outbox!Claim
    <2>2. \A m \in B : status[m] # "NONE"
      BY DEF Outbox!Claimable
    <2>3. sends' = sends
      BY <1>3 DEF Outbox!Claim
    <2> QED BY <2>1, <2>2, <2>3
  <1>4. ASSUME NEW r \in Relays, Outbox!Send(r)
        PROVE  /\ \A m \in Messages : sends'[m] >= sends[m]
               /\ status' = status
    BY <1>4 DEF Outbox!Send, Outbox!rows, Announced
  <1>5. ASSUME NEW r \in Relays, Outbox!MarkPublished(r) \/ Outbox!MarkFailed(r)
        PROVE  /\ sends' = sends
               /\ \/ status' = status
                  \/ \E st \in Outbox!Statuses \ {"NONE"} : Outbox!Mark(r, st)
    BY <1>5 DEF Outbox!MarkPublished, Outbox!MarkFailed, Outbox!NextStatus, Outbox!Statuses
  <1>6. ASSUME NEW r \in Relays, Outbox!Crash(r)
        PROVE  sends' = sends /\ status' = status
    BY <1>6 DEF Outbox!Crash, Outbox!rows
  <1>7. ASSUME NEW r \in Relays, NEW st \in Outbox!Statuses \ {"NONE"},
               Outbox!Mark(r, st)
        PROVE  \/ \A m \in Messages : status[m] = "NONE" <=> status'[m] = "NONE"
               \/ \E n \in Messages :
                     /\ status[n] = "NONE" /\ status'[n] # "NONE"
                     /\ \A m \in Messages \ {n} : status'[m] = status[m]
    BY <1>7 DEF Outbox!Mark, Announced
  <1>8. sends' = sends => \A m \in Messages : sends'[m] >= sends[m]
    BY DEF Announced
  <1> QED BY <1>1, <1>2, <1>3, <1>4, <1>5, <1>6, <1>7, <1>8
             DEF Outbox!Next, Outbox!Relay

----------------------------------------------------------------------------
(* The queue and the consumers.                                            *)

\* What a consumer holds, by the place where it is.
Shape(c) ==
    /\ cpc[c] = "poll" => polled[c] = {}
    /\ cpc[c] \in {"poll", "project"} => copy[c] = NoCopy
    /\ cpc[c] \in {"delete", "discard"} => copy[c] \in Copy /\ copy[c].id \in inbox

\* Copies are numbered as they arrive, and are copies of what SNS has got.
Numbered ==
    /\ \A k \in Queued \cup dlq : k.n <= arrivals[k.id]
    /\ \A c \in Consumers : \A k \in polled[c] : k.n <= arrivals[k.id]
    /\ \A m \in Messages : arrivals[m] <= sends[m]

Holders(k) == {c \in Consumers : Holds(c, k)}

\* How often a copy was handed out.
Receives(k) == IF k \in Queued THEN queue[k] ELSE MaxReceives

Tried(k) ==
    k.id \in Messages \ inbox =>
       /\ IsFiniteSet(Holders(k))
       /\ Receives(k) <= faults + Cardinality(Holders(k))

IInv ==
    /\ TypeOK
    /\ \A c \in Consumers : Shape(c)
    /\ Numbered
    /\ \A k \in Queued \cup dlq : Tried(k)
    /\ GrantedWithMarker
    /\ DeletedAfterGrant

(* A copy has a number, which NoCopy has not.                              *)
LEMMA CopyFacts ==
  /\ NoCopy \notin Copy
  /\ \A k \in Copy : /\ k.id \in Messages \cup Probes
                     /\ k.n \in Nat /\ k.n > 0
                     /\ k = [id |-> k.id, n |-> k.n]
  BY DEF Copy, NoCopy

(* A consumer that goes on, with what it had or less.                      *)
LEMMA GoingOn ==
  ASSUME IInv, NEW c \in Consumers, NEW R \in SUBSET polled[c], GoOn(c, R),
         inbox \subseteq inbox'
  PROVE  /\ polled' \in [Consumers -> SUBSET Copy]
         /\ copy' \in [Consumers -> Copy \cup {NoCopy}]
         /\ cpc' \in [Consumers -> {"poll", "project", "delete", "discard"}]
         /\ \A x \in Consumers : Shape(x)'
         /\ polled'[c] = R /\ copy'[c] = NoCopy
         /\ \A x \in Consumers \ {c} : polled'[x] = polled[x] /\ copy'[x] = copy[x]
  <1>1. /\ polled \in [Consumers -> SUBSET Copy]
        /\ copy \in [Consumers -> Copy \cup {NoCopy}]
        /\ cpc \in [Consumers -> {"poll", "project", "delete", "discard"}]
    BY DEF IInv, TypeOK
  <1>2. /\ polled' = [polled EXCEPT ![c] = R]
        /\ copy' = [copy EXCEPT ![c] = NoCopy]
        /\ cpc' = [cpc EXCEPT ![c] = IF R = {} THEN "poll" ELSE "project"]
    BY DEF GoOn
  <1>3. R \in SUBSET Copy
    BY <1>1
  <1>4. Shape(c)'
    BY <1>1, <1>2 DEF Shape
  <1>5. ASSUME NEW x \in Consumers \ {c} PROVE Shape(x)'
    <2>1. polled'[x] = polled[x] /\ copy'[x] = copy[x] /\ cpc'[x] = cpc[x]
      BY <1>1, <1>2
    <2> QED BY <2>1 DEF IInv, Shape
  <1> QED BY <1>1, <1>2, <1>3, <1>4, <1>5

(* A consumer that works on one of its copies, whose message is processed. *)
LEMMA WorkingOn ==
  ASSUME IInv, NEW c \in Consumers, NEW k \in polled[c], NEW l \in {"delete", "discard"},
         WorkOn(c, k, l), inbox \subseteq inbox', k.id \in inbox'
  PROVE  /\ polled' \in [Consumers -> SUBSET Copy]
         /\ copy' \in [Consumers -> Copy \cup {NoCopy}]
         /\ cpc' \in [Consumers -> {"poll", "project", "delete", "discard"}]
         /\ \A x \in Consumers : Shape(x)'
         /\ polled'[c] = polled[c] \ {k} /\ copy'[c] = k
         /\ \A x \in Consumers \ {c} : polled'[x] = polled[x] /\ copy'[x] = copy[x]
  <1>1. /\ polled \in [Consumers -> SUBSET Copy]
        /\ copy \in [Consumers -> Copy \cup {NoCopy}]
        /\ cpc \in [Consumers -> {"poll", "project", "delete", "discard"}]
    BY DEF IInv, TypeOK
  <1>2. /\ polled' = [polled EXCEPT ![c] = polled[c] \ {k}]
        /\ copy' = [copy EXCEPT ![c] = k]
        /\ cpc' = [cpc EXCEPT ![c] = l]
    BY <1>1 DEF WorkOn
  <1>3. k \in Copy
    BY <1>1
  <1>4. Shape(c)'
    BY <1>1, <1>2, <1>3 DEF Shape
  <1>5. ASSUME NEW x \in Consumers \ {c} PROVE Shape(x)'
    <2>1. polled'[x] = polled[x] /\ copy'[x] = copy[x] /\ cpc'[x] = cpc[x]
      BY <1>1, <1>2
    <2> QED BY <2>1 DEF IInv, Shape
  <1> QED BY <1>1, <1>2, <1>3, <1>4, <1>5

----------------------------------------------------------------------------
(* Each receive of a copy is paid for by a failure, or is still under way. *)

(* A set that loses one element at most.                                   *)
LEMMA OneLess ==
  ASSUME NEW S, IsFiniteSet(S), NEW T \in SUBSET S, NEW c, S \ {c} \subseteq T
  PROVE  /\ IsFiniteSet(T) /\ Cardinality(T) \in Nat /\ Cardinality(S) \in Nat
         /\ Cardinality(S) <= Cardinality(T) + 1
  <1>1. IsFiniteSet(T) /\ Cardinality(T) \in Nat /\ Cardinality(S) \in Nat
    BY FS_Subset, FS_CardinalityType
  <1>2. CASE T = S
    BY <1>1, <1>2
  <1>3. CASE T = S \ {c} /\ c \in S
    BY <1>1, <1>3, FS_RemoveElement
  <1> QED BY <1>1, <1>2, <1>3

LEMMA ConsumerTried ==
  ASSUME IInv, NEW c \in Consumers,
         inbox \subseteq inbox', dlq' = dlq, faults' \in {faults, faults + 1},
         Queued' \subseteq Queued, \A k \in Queued' : queue'[k] = queue[k],
         \A x \in Consumers \ {c} : polled'[x] = polled[x] /\ copy'[x] = copy[x],
         \A k \in Copy : Holds(c, k)' => Holds(c, k),
         \A k \in Copy : k.id \in Messages \ inbox' /\ Holds(c, k) /\ ~Holds(c, k)'
                          => faults' = faults + 1
  PROVE  \A k \in Queued' \cup dlq' : Tried(k)'
  <1> SUFFICES ASSUME NEW k \in Queued' \cup dlq', k.id \in Messages \ inbox'
               PROVE  /\ IsFiniteSet(Holders(k)')
                      /\ Receives(k)' <= faults' + Cardinality(Holders(k)')
    BY DEF Tried
  <1>1. k \in Queued \cup dlq /\ k \in Copy
    BY DEF IInv, TypeOK
  <1>2. /\ IsFiniteSet(Holders(k))
        /\ Receives(k) <= faults + Cardinality(Holders(k))
    BY <1>1 DEF IInv, Tried
  <1>3. Receives(k)' = Receives(k) /\ Receives(k) \in Nat /\ faults \in Nat
    <2>1. CASE k \in Queued'
      BY <2>1 DEF Receives, IInv, TypeOK
    <2>2. CASE k \notin Queued'
      <3>1. k \notin Queued
        BY <2>2 DEF IInv, TypeOK
      <3> QED BY <2>2, <3>1 DEF Receives, IInv, TypeOK
    <2> QED BY <2>1, <2>2
  <1>4. Holders(k)' \in SUBSET Holders(k) /\ Holders(k) \ {c} \subseteq Holders(k)'
    BY <1>1 DEF Holders, Holds
  <1>5. /\ IsFiniteSet(Holders(k)')
        /\ Cardinality(Holders(k)') \in Nat /\ Cardinality(Holders(k)) \in Nat
        /\ Cardinality(Holders(k)) <= Cardinality(Holders(k)') + 1
    BY <1>2, <1>4, OneLess
  <1>6. CASE Holders(k)' = Holders(k)
    BY <1>2, <1>3, <1>5, <1>6
  <1>7. CASE Holders(k)' # Holders(k)
    <2>1. Holds(c, k) /\ ~Holds(c, k)'
      BY <1>1, <1>4, <1>7 DEF Holders
    <2>2. faults' = faults + 1
      BY <1>1, <2>1
    <2> QED BY <1>2, <1>3, <1>5, <2>2
  <1> QED BY <1>6, <1>7

----------------------------------------------------------------------------
(* Every step keeps the invariant.                                         *)

LEMMA StepTenancy ==
  ASSUME IInv, Announced, Announced', [Outbox!Next]_(Outbox!vars),
         UNCHANGED <<sqs, table, consumer, faults>>
  PROVE  IInv'
  <1>1. \A m \in Messages : /\ sends'[m] >= sends[m]
                            /\ sends[m] \in Nat /\ sends'[m] \in Nat
    BY StepAnnounced DEF Announced
  <1>2. /\ UNCHANGED <<arrivals, queue, dlq, inbox, access, polled, copy, cpc, faults>>
        /\ UNCHANGED Queued
    BY DEF sqs, table, consumer, Queued
  <1>3. TypeOK'
    BY <1>2 DEF IInv, TypeOK
  <1>4. \A c \in Consumers : Shape(c)'
    BY <1>2 DEF IInv, Shape
  <1>5. Numbered'
    <2>1. \A m \in Messages : arrivals[m] \in Nat /\ arrivals[m] <= sends[m]
      BY DEF IInv, TypeOK, Numbered
    <2> QED BY <1>1, <1>2, <2>1 DEF IInv, Numbered
  <1>6. \A k \in Queued' \cup dlq' : Tried(k)'
    BY <1>2 DEF IInv, Tried, Receives, Holders, Holds
  <1>7. GrantedWithMarker' /\ DeletedAfterGrant'
    BY <1>1, <1>2 DEF IInv, GrantedWithMarker, DeletedAfterGrant, MayReport
  <1> QED BY <1>3, <1>4, <1>5, <1>6, <1>7 DEF IInv

LEMMA StepArrive ==
  ASSUME IInv, Announced, NEW m \in Messages \cup Probes, Arrive(m)
  PROVE  IInv'
  <1>1. /\ arrivals \in [Messages \cup Probes -> Nat]
        /\ Queued \subseteq Copy /\ queue \in [Queued -> 0 .. MaxReceives]
        /\ dlq \subseteq Copy /\ dlq \cap Queued = {}
        /\ MaxReceives \in Nat
    BY DEF IInv, TypeOK
  <1>2. PICK k \in Copy : k = [id |-> m, n |-> arrivals[m] + 1]
    <2>1. arrivals[m] + 1 \in Nat \ {0}
      BY <1>1
    <2>2. [id |-> m, n |-> arrivals[m] + 1] \in Copy
      BY <2>1 DEF Copy
    <2> QED BY <2>2
  <1>3. /\ arrivals' = [arrivals EXCEPT ![m] = arrivals[m] + 1]
        /\ queue' = [j \in Queued \cup {k} |-> IF j = k THEN 0 ELSE queue[j]]
        /\ UNCHANGED <<sends, dlq, inbox, access, polled, copy, cpc, faults>>
        /\ m \in Messages => arrivals[m] < sends[m]
    BY <1>1, <1>2 DEF Arrive, Place, outbox, table, consumer, TenancyAccessAssumption
  <1>4. /\ \A j \in Queued \cup dlq : j.n <= arrivals[j.id]
        /\ \A c \in Consumers : \A j \in polled[c] : j.n <= arrivals[j.id]
        /\ \A j \in Messages : arrivals[j] <= sends[j] /\ sends[j] \in Nat
    BY DEF IInv, Numbered, Announced
  <1>5. k \notin Queued \cup dlq /\ \A c \in Consumers : k \notin polled[c]
    BY <1>1, <1>2, <1>4
  <1>6. Queued' = Queued \cup {k} /\ queue' \in [Queued' -> 0 .. MaxReceives]
    BY <1>1, <1>3 DEF Queued
  <1>7. TypeOK'
    <2>1. arrivals' \in [Messages \cup Probes -> Nat]
      BY <1>1, <1>3
    <2>2. dlq' \cap Queued' = {} /\ Queued' \subseteq Copy
      BY <1>1, <1>2, <1>3, <1>5, <1>6
    <2> QED BY <1>3, <1>6, <2>1, <2>2 DEF IInv, TypeOK
  <1>8. \A c \in Consumers : Shape(c)'
    BY <1>3 DEF IInv, Shape
  <1>9. \A j \in Copy : j.n <= arrivals[j.id] => j.n <= arrivals'[j.id]
    BY <1>1, <1>3, CopyFacts
  <1>10. Numbered'
    <2>1. \A j \in Queued' \cup dlq' : j.n <= arrivals'[j.id]
      BY <1>1, <1>2, <1>3, <1>4, <1>6, <1>9
    <2>2. \A c \in Consumers : \A j \in polled'[c] : j.n <= arrivals'[j.id]
      BY <1>3, <1>4, <1>9 DEF IInv, TypeOK
    <2>3. \A j \in Messages : arrivals'[j] <= sends'[j]
      BY <1>1, <1>3, <1>4
    <2> QED BY <2>1, <2>2, <2>3 DEF Numbered
  <1>11. \A j \in Queued' \cup dlq' : Tried(j)'
    <2>1. ASSUME NEW j \in Queued \cup dlq PROVE Tried(j)'
      <3>1. Receives(j)' = Receives(j)
        BY <1>1, <1>3, <1>5, <1>6, <2>1 DEF Receives
      <3> QED BY <1>3, <3>1 DEF IInv, Tried, Holders, Holds
    <2>2. Tried(k)'
      <3> SUFFICES ASSUME k.id \in Messages \ inbox
                   PROVE  IsFiniteSet(Holders(k)') /\ Receives(k)' <= faults' + Cardinality(Holders(k)')
        BY <1>3 DEF Tried
      <3>1. \A c \in Consumers : copy[c] # k
        BY <1>2, CopyFacts DEF IInv, TypeOK, Shape
      <3>2. Holders(k)' = {}
        BY <1>3, <1>5, <3>1 DEF Holders, Holds
      <3>3. Receives(k)' = 0
        BY <1>3, <1>6 DEF Receives
      <3>4. faults' \in Nat
        BY <1>3 DEF IInv, TypeOK
      <3> QED BY <3>2, <3>3, <3>4, FS_EmptySet
    <2> QED BY <1>3, <1>6, <2>1, <2>2
  <1>12. GrantedWithMarker'
    BY <1>3 DEF IInv, GrantedWithMarker, MayReport
  <1>13. DeletedAfterGrant'
    <2> SUFFICES ASSUME NEW q \in Messages \cup Probes, NEW n \in 1 .. arrivals'[q],
                        [id |-> q, n |-> n] \notin Queued' \cup dlq'
                 PROVE  q \in access
      BY <1>3 DEF DeletedAfterGrant, MayReport
    <2>1. [id |-> q, n |-> n] # k /\ [id |-> q, n |-> n] \notin Queued \cup dlq
      BY <1>3, <1>6
    <2>2. n \in 1 .. arrivals[q]
      BY <1>1, <1>2, <1>3, <2>1
    <2> QED BY <2>1, <2>2 DEF IInv, DeletedAfterGrant, MayReport
  <1> QED BY <1>7, <1>8, <1>10, <1>11, <1>12, <1>13 DEF IInv

LEMMA StepRedrive ==
  ASSUME IInv, NEW k \in Queued, Redrive(k)
  PROVE  IInv'
  <1>1. /\ Queued \subseteq Copy /\ queue \in [Queued -> 0 .. MaxReceives]
        /\ dlq \subseteq Copy /\ dlq \cap Queued = {}
    BY DEF IInv, TypeOK
  <1>2. /\ queue' = [j \in Queued \ {k} |-> queue[j]]
        /\ Queued' = Queued \ {k} /\ dlq' = dlq \cup {k}
        /\ Queued' \cup dlq' = Queued \cup dlq
        /\ queue[k] = MaxReceives
        /\ UNCHANGED <<sends, arrivals, inbox, access, polled, copy, cpc, faults>>
    BY DEF Redrive, Without, Queued, outbox, table, consumer
  <1>3. TypeOK'
    <2>1. queue' \in [Queued' -> 0 .. MaxReceives]
      BY <1>1, <1>2
    <2> QED BY <1>1, <1>2, <2>1 DEF IInv, TypeOK
  <1>4. \A c \in Consumers : Shape(c)'
    BY <1>2 DEF IInv, Shape
  <1>5. Numbered'
    BY <1>2 DEF IInv, Numbered
  <1>6. ASSUME NEW j \in Queued' \cup dlq' PROVE Tried(j)'
    <2>1. Receives(j)' = Receives(j)
      BY <1>1, <1>2 DEF Receives
    <2> QED BY <1>2, <2>1 DEF IInv, Tried, Holders, Holds
  <1>7. GrantedWithMarker' /\ DeletedAfterGrant'
    BY <1>2 DEF IInv, GrantedWithMarker, DeletedAfterGrant, MayReport
  <1> QED BY <1>3, <1>4, <1>5, <1>6, <1>7 DEF IInv

LEMMA StepReceive ==
  ASSUME IInv, NEW c \in Consumers, Receive(c)
  PROVE  IInv'
  <1>1. /\ Queued \subseteq Copy /\ queue \in [Queued -> 0 .. MaxReceives]
        /\ dlq \subseteq Copy /\ dlq \cap Queued = {}
        /\ polled \in [Consumers -> SUBSET Copy]
        /\ cpc \in [Consumers -> {"poll", "project", "delete", "discard"}]
        /\ MaxReceives \in Nat /\ faults \in Nat
    BY DEF IInv, TypeOK, TenancyAccessAssumption
  <1>2. PICK B \in SUBSET {k \in Queued : queue[k] < MaxReceives} :
           /\ queue' = [k \in Queued |-> IF k \in B THEN queue[k] + 1 ELSE queue[k]]
           /\ polled' = [polled EXCEPT ![c] = B]
    BY DEF Receive
  <1>3. /\ Queued' = Queued
        /\ cpc[c] = "poll" /\ cpc' = [cpc EXCEPT ![c] = "project"]
        /\ UNCHANGED <<sends, arrivals, dlq, inbox, access, copy, faults>>
    BY <1>2 DEF Receive, Queued, outbox, table
  <1>4. \A x \in Consumers \ {c} : polled'[x] = polled[x] /\ cpc'[x] = cpc[x]
    BY <1>1, <1>2, <1>3
  <1>5. polled'[c] = B /\ cpc'[c] = "project" /\ polled[c] = {} /\ copy[c] = NoCopy
    BY <1>1, <1>2, <1>3 DEF IInv, Shape
  <1>6. TypeOK'
    <2>1. queue' \in [Queued' -> 0 .. MaxReceives]
      BY <1>1, <1>2, <1>3
    <2>2. polled' \in [Consumers -> SUBSET Copy]
      BY <1>1, <1>2
    <2>3. cpc' \in [Consumers -> {"poll", "project", "delete", "discard"}]
      BY <1>1, <1>3
    <2> QED BY <1>3, <2>1, <2>2, <2>3 DEF IInv, TypeOK
  <1>7. ASSUME NEW x \in Consumers PROVE Shape(x)'
    BY <1>3, <1>4, <1>5 DEF IInv, Shape
  <1>8. Numbered'
    <2>1. \A x \in Consumers : \A k \in polled'[x] : k.n <= arrivals[k.id]
      BY <1>4, <1>5 DEF IInv, Numbered
    <2> QED BY <1>3, <2>1 DEF IInv, Numbered
  <1>9. ASSUME NEW k \in Queued' \cup dlq' PROVE Tried(k)'
    <2> SUFFICES ASSUME k.id \in Messages \ inbox
                 PROVE  /\ IsFiniteSet(Holders(k)')
                        /\ Receives(k)' <= faults + Cardinality(Holders(k)')
      BY <1>3 DEF Tried
    <2>1. /\ IsFiniteSet(Holders(k)) /\ Cardinality(Holders(k)) \in Nat
          /\ Receives(k) <= faults + Cardinality(Holders(k))
      BY <1>3, FS_CardinalityType DEF IInv, Tried
    <2>2. c \notin Holders(k)
      BY <1>1, <1>3, <1>5, CopyFacts DEF Holders, Holds
    <2>3. CASE k \in B
      <3>1. Holders(k)' = Holders(k) \cup {c}
        BY <1>3, <1>4, <1>5, <2>3 DEF Holders, Holds
      <3>2. Receives(k)' = Receives(k) + 1 /\ Receives(k) \in Nat
        BY <1>1, <1>2, <1>3, <2>3 DEF Receives
      <3>3. /\ IsFiniteSet(Holders(k)')
            /\ Cardinality(Holders(k)') = Cardinality(Holders(k)) + 1
        BY <2>1, <2>2, <3>1, FS_AddElement
      <3> QED BY <1>1, <2>1, <3>2, <3>3
    <2>4. CASE k \notin B
      <3>1. Holders(k)' = Holders(k)
        BY <1>1, <1>3, <1>4, <1>5, <2>2, <2>4, CopyFacts DEF Holders, Holds
      <3>2. Receives(k)' = Receives(k)
        BY <1>2, <1>3, <2>4 DEF Receives
      <3> QED BY <2>1, <3>1, <3>2
    <2> QED BY <2>3, <2>4
  <1>10. GrantedWithMarker' /\ DeletedAfterGrant'
    BY <1>3 DEF IInv, GrantedWithMarker, DeletedAfterGrant, MayReport
  <1> QED BY <1>6, <1>7, <1>8, <1>9, <1>10 DEF IInv

(* What every step of a consumer with its copies has in common: it goes on *)
(* or starts to work on one, it removes from the queue what is processed,  *)
(* and a failure is all that makes it lose a copy that is not.             *)
LEMMA StepConsumer ==
  ASSUME IInv, NEW c \in Consumers,
         UNCHANGED <<sends, arrivals, dlq>>,
         Queued' \subseteq Queued, queue' = [k \in Queued' |-> queue[k]],
         \A k \in Queued \ Queued' : k.id \in inbox',
         inbox \subseteq inbox', inbox' \subseteq Messages, access' = inbox',
         \A m \in inbox' : sends[m] > 0,
         \/ \E R \in SUBSET polled[c] : GoOn(c, R)
         \/ \E k \in polled[c], l \in {"delete", "discard"} :
               k.id \in inbox' /\ WorkOn(c, k, l) /\ copy[c] = NoCopy,
         UNCHANGED faults \/ Fault,
         \A k \in Copy : /\ Holds(c, k) /\ ~Holds(c, k)'
                         /\ k.id \in Messages \ inbox'
                        => Fault
  PROVE  IInv'
  <1>1. /\ polled' \in [Consumers -> SUBSET Copy]
        /\ copy' \in [Consumers -> Copy \cup {NoCopy}]
        /\ cpc' \in [Consumers -> {"poll", "project", "delete", "discard"}]
        /\ \A x \in Consumers : Shape(x)'
        /\ polled'[c] \subseteq polled[c]
        /\ copy'[c] = NoCopy \/ copy'[c] \in polled[c]
        /\ \A x \in Consumers \ {c} : polled'[x] = polled[x] /\ copy'[x] = copy[x]
    <2>1. CASE \E R \in SUBSET polled[c] : GoOn(c, R)
      <3>1. PICK R \in SUBSET polled[c] : GoOn(c, R)
        BY <2>1
      <3> QED BY <3>1, GoingOn
    <2>2. CASE \E k \in polled[c], l \in {"delete", "discard"} :
                  k.id \in inbox' /\ WorkOn(c, k, l) /\ copy[c] = NoCopy
      <3>1. PICK k \in polled[c], l \in {"delete", "discard"} :
                  k.id \in inbox' /\ WorkOn(c, k, l)
        BY <2>2
      <3> QED BY <3>1, WorkingOn
    <2> QED BY <2>1, <2>2
  <1>2. faults' \in {faults, faults + 1} /\ faults' \in 0 .. MaxFaults
    BY DEF IInv, TypeOK, Fault, TenancyAccessAssumption
  <1>3. TypeOK'
    <2>1. queue' \in [Queued' -> 0 .. MaxReceives]
      BY DEF IInv, TypeOK
    <2> QED BY <1>1, <1>2, <2>1 DEF IInv, TypeOK
  <1>4. Numbered'
    <2>1. ASSUME NEW x \in Consumers, NEW k \in polled'[x] PROVE k.n <= arrivals'[k.id]
      BY <1>1, <2>1 DEF IInv, Numbered
    <2> QED BY <2>1 DEF IInv, Numbered
  <1>5. \A k \in Queued' \cup dlq' : Tried(k)'
    <2>1. \A k \in Copy : Holds(c, k)' => Holds(c, k)
      BY <1>1, CopyFacts DEF Holds
    <2>2. \A k \in Copy : /\ Holds(c, k) /\ ~Holds(c, k)'
                          /\ k.id \in Messages \ inbox'
                         => faults' = faults + 1
      BY DEF Fault
    <2> QED BY <1>1, <1>2, <2>1, <2>2, ConsumerTried
  <1>6. GrantedWithMarker'
    BY DEF IInv, GrantedWithMarker, MayReport
  <1>7. DeletedAfterGrant'
    <2> SUFFICES ASSUME NEW m \in Messages \cup Probes, NEW n \in 1 .. arrivals[m],
                        [id |-> m, n |-> n] \notin Queued' \cup dlq
                 PROVE  m \in inbox'
      BY DEF DeletedAfterGrant, MayReport
    <2>1. CASE [id |-> m, n |-> n] \in Queued
      BY <2>1
    <2>2. CASE [id |-> m, n |-> n] \notin Queued
      BY <2>2 DEF IInv, DeletedAfterGrant, GrantedWithMarker, MayReport
    <2> QED BY <2>1, <2>2
  <1> QED BY <1>1, <1>3, <1>4, <1>5, <1>6, <1>7 DEF IInv

\* What is processed has the access it was processed for.
LEMMA Processed ==
  ASSUME IInv
  PROVE  /\ inbox \subseteq Messages /\ access = inbox
         /\ \A m \in inbox : sends[m] > 0
  BY DEF IInv, TypeOK, GrantedWithMarker, MayReport

LEMMA StepProject ==
  ASSUME IInv, Announced, NEW c \in Consumers, Project(c)
  PROVE  IInv'
  <1>1. PICK k \in polled[c] :
           \/ ~Parses(k.id) /\ Leave(c, k) /\ UNCHANGED faults
           \/ /\ k.id \in inbox
              /\ WorkOn(c, k, "discard")
              /\ UNCHANGED <<table, faults>>
           \/ /\ Parses(k.id) /\ k.id \notin inbox
              /\ Grant(k.id)
              /\ \/ WorkOn(c, k, "delete") /\ UNCHANGED faults
                 \/ GoOn(c, polled[c] \ {k}) /\ Fault
           \/ Parses(k.id) /\ Leave(c, k) /\ Fault
    BY DEF Project
  <1>2. /\ UNCHANGED <<sends, arrivals, dlq, queue>>
        /\ Queued' = Queued /\ copy[c] = NoCopy
    BY DEF Project, outbox, sqs, Queued, IInv, Shape
  <1>3. queue' = [j \in Queued' |-> queue[j]]
    BY <1>2 DEF IInv, TypeOK
  <1>4. k \in Copy /\ polled[c] \ {k} \in SUBSET polled[c]
    BY DEF IInv, TypeOK
  <1>5. k.id \in Messages => sends[k.id] > 0
    <2>1. /\ k.n \in Nat /\ k.n > 0 /\ k.n <= arrivals[k.id]
          /\ k.id \in Messages \cup Probes
      BY <1>4, CopyFacts DEF IInv, Numbered
    <2>2. k.id \in Messages => /\ arrivals[k.id] <= sends[k.id]
                              /\ arrivals[k.id] \in Nat /\ sends[k.id] \in Nat
      BY DEF IInv, TypeOK, Numbered, Announced
    <2> QED BY <2>1, <2>2
  <1>6. \A R : GoOn(c, R) =>
           \A j \in Copy : Holds(c, j) /\ ~Holds(c, j)' => j \notin R
    BY DEF GoOn, Holds, IInv, TypeOK
  <1>7. CASE ~Parses(k.id) /\ Leave(c, k) /\ UNCHANGED faults
    <2>1. k.id \notin Messages /\ GoOn(c, polled[c] \ {k}) /\ UNCHANGED <<inbox, access>>
      BY <1>7 DEF Parses, Leave, table
    <2>2. \A j \in Copy : Holds(c, j) /\ ~Holds(c, j)' => j = k
      BY <1>2, <1>4, <1>6, <2>1, CopyFacts DEF Holds
    <2> QED BY <1>2, <1>3, <1>4, <1>7, <2>1, <2>2, Processed, StepConsumer
  <1>8. CASE k.id \in inbox /\ WorkOn(c, k, "discard") /\ UNCHANGED <<table, faults>>
    <2>1. UNCHANGED <<inbox, access, faults>>
      BY <1>8 DEF table
    <2>2. \A j \in Copy : Holds(c, j) => Holds(c, j)'
      BY <1>2, <1>8, CopyFacts DEF WorkOn, Holds, IInv, TypeOK
    <2> QED BY <1>2, <1>3, <1>8, <2>1, <2>2, Processed, StepConsumer
  <1>9. CASE Parses(k.id) /\ Grant(k.id) /\ WorkOn(c, k, "delete") /\ UNCHANGED faults
    <2>1. \A j \in Copy : Holds(c, j) => Holds(c, j)'
      BY <1>2, <1>9, CopyFacts DEF WorkOn, Holds, IInv, TypeOK
    <2>2. /\ k.id \in Messages /\ inbox' = inbox \cup {k.id}
          /\ access' = access \cup {k.id}
      BY <1>9 DEF Parses, Grant
    <2>3. /\ inbox \subseteq inbox' /\ inbox' \subseteq Messages
          /\ access' = inbox' /\ k.id \in inbox'
          /\ \A m \in inbox' : sends[m] > 0
      BY <1>5, <2>2, Processed
    <2> QED BY <1>2, <1>3, <1>9, <2>1, <2>3, StepConsumer
  <1>10. CASE Parses(k.id) /\ Grant(k.id) /\ GoOn(c, polled[c] \ {k}) /\ Fault
    <2>1. /\ k.id \in Messages /\ inbox' = inbox \cup {k.id}
          /\ access' = access \cup {k.id}
      BY <1>10 DEF Parses, Grant
    <2>2. /\ inbox \subseteq inbox' /\ inbox' \subseteq Messages
          /\ access' = inbox'
          /\ \A m \in inbox' : sends[m] > 0
      BY <1>5, <2>1, Processed
    <2> QED BY <1>2, <1>3, <1>4, <1>10, <2>2, StepConsumer
  <1>11. CASE Leave(c, k) /\ Fault
    <2>1. GoOn(c, polled[c] \ {k}) /\ UNCHANGED <<inbox, access>>
      BY <1>11 DEF Leave, table
    <2> QED BY <1>2, <1>3, <1>4, <1>11, <2>1, Processed, StepConsumer
  <1> QED BY <1>1, <1>7, <1>8, <1>9, <1>10, <1>11

(* A copy is removed from the queue, or stays, while it is worked on.      *)
LEMMA Removing ==
  ASSUME IInv, NEW c \in Consumers, cpc[c] \in {"delete", "discard"}, Remove(c)
  PROVE  /\ Queued' \subseteq Queued /\ queue' = [k \in Queued' |-> queue[k]]
         /\ \A k \in Queued \ Queued' : k.id \in inbox
         /\ copy[c].id \in inbox
  <1>1. queue = [k \in Queued |-> queue[k]] /\ copy[c].id \in inbox
    BY DEF IInv, TypeOK, Shape
  <1>2. CASE queue' = Without({copy[c]})
    BY <1>1, <1>2 DEF Without, Queued
  <1>3. CASE UNCHANGED queue
    BY <1>1, <1>3 DEF Queued
  <1> QED BY <1>2, <1>3 DEF Remove

LEMMA StepDelete ==
  ASSUME IInv, NEW c \in Consumers, Delete(c)
  PROVE  IInv'
  <1>1. Remove(c) /\ GoOn(c, polled[c]) /\ (UNCHANGED faults \/ Fault)
    BY DEF Delete, Remove
  <1>2. cpc[c] = "delete" /\ UNCHANGED <<sends, arrivals, dlq, inbox, access>>
    BY DEF Delete, outbox, table
  <1>3. \A k \in Copy : Holds(c, k) /\ ~Holds(c, k)' => k = copy[c]
    BY <1>1 DEF GoOn, Holds, IInv, TypeOK
  <1> QED BY <1>1, <1>2, <1>3, Removing, Processed, StepConsumer

LEMMA StepDiscard ==
  ASSUME IInv, NEW c \in Consumers, Discard(c)
  PROVE  IInv'
  <1>1. /\ Remove(c)
        /\ \/ GoOn(c, polled[c]) /\ UNCHANGED faults
           \/ GoOn(c, {}) /\ Fault
    BY DEF Discard, Remove
  <1>2. cpc[c] = "discard" /\ UNCHANGED <<sends, arrivals, dlq, inbox, access>>
    BY DEF Discard, outbox, table
  <1>3. GoOn(c, polled[c]) =>
           \A k \in Copy : Holds(c, k) /\ ~Holds(c, k)' => k = copy[c]
    BY DEF GoOn, Holds, IInv, TypeOK
  <1> QED BY <1>1, <1>2, <1>3, Removing, Processed, StepConsumer

LEMMA StepCrash ==
  ASSUME IInv, NEW c \in Consumers, Crash(c)
  PROVE  IInv'
  <1>1. /\ GoOn(c, {}) /\ Fault
        /\ UNCHANGED <<sends, arrivals, dlq, inbox, access, queue>>
    BY DEF Crash, outbox, sqs, table
  <1>2. Queued' = Queued /\ queue' = [k \in Queued' |-> queue[k]]
    BY <1>1 DEF Queued, IInv, TypeOK
  <1> QED BY <1>1, <1>2, Processed, StepConsumer

LEMMA StepIInv ==
  ASSUME IInv, Announced, Announced', [Next]_vars
  PROVE  IInv'
  <1>1. CASE Tenancy
    BY <1>1, StepTenancy DEF Tenancy
  <1>2. CASE UNCHANGED vars
    BY <1>2, StepTenancy DEF vars, outbox, Outbox!vars, Outbox!rows
  <1>3. ASSUME NEW c \in Consumers, Consume(c) \/ Crash(c)
        PROVE  IInv'
    BY <1>3, StepReceive, StepProject, StepDelete, StepDiscard, StepCrash DEF Consume
  <1> QED BY <1>1, <1>2, <1>3, StepArrive, StepRedrive DEF Next

LEMMA Invariance == Spec => []IInv
  <1>1. Init => IInv
    <2> SUFFICES ASSUME Init PROVE IInv
      OBVIOUS
    <2>1. /\ Queued = {} /\ queue \in [Queued -> 0 .. MaxReceives]
          /\ dlq = {} /\ inbox = {} /\ access = {}
          /\ arrivals = [m \in Messages \cup Probes |-> 0]
      BY DEF Init, Queued
    <2>2. TypeOK
      BY <2>1 DEF Init, TypeOK, TenancyAccessAssumption
    <2>3. \A c \in Consumers : Shape(c) /\ polled[c] = {}
      BY DEF Init, Shape
    <2>4. \A m \in Messages : arrivals[m] = 0 /\ sends[m] = 0
      BY DEF Init, Outbox!Init
    <2>5. Numbered
      BY <2>1, <2>3, <2>4 DEF Numbered
    <2>6. GrantedWithMarker /\ DeletedAfterGrant
      BY <2>1 DEF GrantedWithMarker, DeletedAfterGrant, MayReport
    <2> QED BY <2>1, <2>2, <2>3, <2>5, <2>6 DEF IInv
  <1>2. IInv /\ Announced /\ Announced' /\ [Next]_vars => IInv'
    BY StepIInv
  <1> QED BY <1>1, <1>2, AlwaysAnnounced, PTL DEF Spec

(* The queues, the table and the consumers always hold values of their     *)
(* types, and no copy is in both queues.                                   *)
THEOREM TypeCorrect == Spec => []TypeOK
  BY Invariance, PTL DEF IInv

(* Marker and snapshot stand or fall together, and nothing is granted that *)
(* the tenancy context never sent.                                         *)
THEOREM AlwaysWithMarker == Spec => []GrantedWithMarker
  BY Invariance, PTL DEF IInv

(* No copy leaves the queue for good before its message is granted.        *)
THEOREM NeverLost == Spec => []DeletedAfterGrant
  BY Invariance, PTL DEF IInv

(* A copy is given up only after each of its receives has failed by itself.*)
THEOREM NeverStarved == Spec => []DeadLettersWereTried
  <1>1. IInv => DeadLettersWereTried
    <2> SUFFICES ASSUME IInv, NEW k \in dlq, k.id \notin Probes, k.id \notin access,
                        \A c \in Consumers : ~Holds(c, k)
                 PROVE  faults >= MaxReceives
      BY DEF DeadLettersWereTried, MayReport
    <2>1. k.id \in Messages \ inbox
      BY CopyFacts, Processed DEF IInv, TypeOK
    <2>2. Holders(k) = {}
      BY DEF Holders
    <2>3. Receives(k) = MaxReceives
      BY DEF Receives, IInv, TypeOK
    <2>4. Receives(k) <= faults + Cardinality(Holders(k))
      BY <2>1 DEF IInv, Tried
    <2>5. faults \in Nat /\ MaxReceives \in Nat
      BY DEF IInv, TypeOK, TenancyAccessAssumption
    <2> QED BY <2>2, <2>3, <2>4, <2>5, FS_EmptySet
  <1> QED BY <1>1, Invariance, PTL

----------------------------------------------------------------------------
(* From the outbox to the access item: the abstract promise.               *)

Activated == {m \in Messages : status[m] # "NONE"}
Copies == [m \in Messages |-> arrivals[m]]

LEMMA ImplementsActivate ==
  ASSUME IInv, Announced, Announced', [Outbox!Next]_(Outbox!vars),
         UNCHANGED <<arrivals, access>>
  PROVE  [Delivery!Next]_(Delivery!vars)
  <1>1. Copies' = Copies
    BY DEF Copies
  <1>2. CASE \A m \in Messages : status[m] = "NONE" <=> status'[m] = "NONE"
    <2>1. Activated' = Activated
      BY <1>2 DEF Activated
    <2> QED BY <1>1, <2>1 DEF Delivery!vars, Activated, Copies
  <1>3. CASE \E n \in Messages :
                /\ status[n] = "NONE" /\ status'[n] # "NONE"
                /\ \A m \in Messages \ {n} : status'[m] = status[m]
    <2>1. PICK n \in Messages :
             /\ status[n] = "NONE" /\ status'[n] # "NONE"
             /\ \A m \in Messages \ {n} : status'[m] = status[m]
      BY <1>3
    <2>2. n \notin Activated /\ Activated' = Activated \cup {n}
      BY <2>1 DEF Activated
    <2>3. Delivery!Activate(n)
      BY <1>1, <2>2 DEF Delivery!Activate, Activated, Copies
    <2> QED BY <2>3 DEF Delivery!Next
  <1> QED BY <1>2, <1>3, StepAnnounced

LEMMA ImplementsDeliver ==
  ASSUME IInv, Announced, NEW m \in Messages \cup Probes, Arrive(m)
  PROVE  [Delivery!Next]_(Delivery!vars)
  <1>1. /\ arrivals \in [Messages \cup Probes -> Nat]
        /\ arrivals' = [arrivals EXCEPT ![m] = arrivals[m] + 1]
        /\ UNCHANGED <<status, access>>
    BY DEF Arrive, outbox, table, IInv, TypeOK
  <1>2. Activated' = Activated
    BY <1>1 DEF Activated
  <1>3. CASE m \in Probes
    <2>1. m \notin Messages
      BY <1>3 DEF TenancyAccessAssumption
    <2>2. Copies' = Copies
      BY <1>1, <2>1 DEF Copies
    <2> QED BY <1>1, <1>2, <2>2 DEF Delivery!vars, Activated, Copies
  <1>4. CASE m \notin Probes
    <2>1. m \in Messages /\ arrivals[m] < sends[m]
      BY <1>4 DEF Arrive
    <2>2. /\ sends[m] \in Nat /\ sends[m] <= MaxAttempts
          /\ sends[m] > 0 => status[m] # "NONE"
          /\ arrivals[m] \in Nat /\ MaxAttempts \in Nat
      BY <1>1, <2>1, OutboxAssumption DEF Announced, Outbox!SqlOutboxRelayAssumption
    <2>3. m \in Activated /\ Copies[m] < MaxAttempts
      BY <2>1, <2>2 DEF Activated, Copies
    <2>4. Copies' = [Copies EXCEPT ![m] = Copies[m] + 1]
      BY <1>1, <2>1 DEF Copies
    <2>5. Delivery!Deliver(m)
      BY <1>1, <1>2, <2>3, <2>4 DEF Delivery!Deliver, Activated, Copies
    <2> QED BY <2>1, <2>5 DEF Delivery!Next
  <1> QED BY <1>3, <1>4

LEMMA ImplementsGrant ==
  ASSUME IInv, NEW c \in Consumers, Project(c)
  PROVE  [Delivery!Next]_(Delivery!vars)
  <1>1. UNCHANGED <<status, arrivals>>
    BY DEF Project, outbox, sqs
  <1>2. Activated' = Activated /\ Copies' = Copies
    BY <1>1 DEF Activated, Copies
  <1>3. CASE UNCHANGED access
    BY <1>2, <1>3 DEF Delivery!vars, Activated, Copies
  <1>4. CASE access' # access
    <2>1. PICK k \in polled[c] : Parses(k.id) /\ k.id \notin inbox /\ Grant(k.id)
      BY <1>4 DEF Project, Leave, table
    <2>2. k.id \in Messages /\ k.id \notin access /\ access' = access \cup {k.id}
      BY <2>1, Processed DEF Parses, Grant
    <2>3. k.n \in Nat /\ k.n > 0 /\ k.n <= arrivals[k.id] /\ arrivals[k.id] \in Nat
      BY <2>2, CopyFacts DEF IInv, TypeOK, Numbered
    <2>4. Copies[k.id] > 0
      BY <2>2, <2>3 DEF Copies
    <2>5. Delivery!Grant(k.id)
      BY <1>2, <2>2, <2>4 DEF Delivery!Grant, Activated, Copies
    <2> QED BY <2>2, <2>5 DEF Delivery!Next
  <1> QED BY <1>3, <1>4

(* The outbox, the queues and the consumers together keep the promise:     *)
(* every step of any of them activates one tenancy, puts out one copy,     *)
(* grants one access, or changes nothing the promise is about.              *)
THEOREM ImplementsDelivery == Spec => RefinesDelivery
  <1>1. Init => Delivery!Init
    <2> SUFFICES ASSUME Init PROVE Delivery!Init
      OBVIOUS
    <2>1. \A m \in Messages : status[m] = "NONE"
      BY DEF Init, Outbox!Init
    <2>2. Activated = {} /\ Copies = [m \in Messages |-> 0] /\ access = {}
      BY <2>1 DEF Init, Activated, Copies
    <2> QED BY <2>2 DEF Delivery!Init, Activated, Copies
  <1>2. IInv /\ Announced /\ Announced' /\ [Next]_vars => [Delivery!Next]_(Delivery!vars)
    <2> SUFFICES ASSUME IInv, Announced, Announced', [Next]_vars
                 PROVE  [Delivery!Next]_(Delivery!vars)
      OBVIOUS
    <2>1. ASSUME NEW m \in Messages \cup Probes, Arrive(m)
          PROVE  [Delivery!Next]_(Delivery!vars)
      BY <2>1, ImplementsDeliver
    <2>2. ASSUME NEW c \in Consumers, Project(c)
          PROVE  [Delivery!Next]_(Delivery!vars)
      BY <2>2, ImplementsGrant
    <2>3. ASSUME \/ Tenancy
                 \/ \E k \in Queued : Redrive(k)
                 \/ \E c \in Consumers : Receive(c) \/ Delete(c) \/ Discard(c) \/ Crash(c)
                 \/ UNCHANGED vars
          PROVE  [Delivery!Next]_(Delivery!vars)
      <3>1. UNCHANGED <<arrivals, access>>
        BY <2>3 DEF Tenancy, Redrive, Receive, Delete, Discard, Crash, sqs, table, vars
      <3> QED BY <3>1, StepOutbox, ImplementsActivate
    <2> QED BY <2>1, <2>2, <2>3 DEF Next, Consume
  <1> QED BY <1>1, <1>2, Invariance, AlwaysAnnounced, PTL DEF Spec, Delivery!Spec, RefinesDelivery
=============================================================================
