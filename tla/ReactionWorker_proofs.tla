------------------------- MODULE ReactionWorker_proofs -------------------------
(***************************************************************************)
(* Safety of the reaction worker for any number of deliveries, workers and *)
(* attempts, whatever fails, poisoned executors included.                  *)
(*                                                                         *)
(* Everything rests on Serial: the SELECT ... FOR UPDATE without a LIMIT   *)
(* locks the due rows all together, and the row a worker is at stays due   *)
(* until it commits, so that the workers in fact take turns.  A row at     *)
(* which a worker is therefore cannot be finished by another, and the      *)
(* outcome is computed from the attempt count the row still has.           *)
(***************************************************************************)
EXTENDS ReactionWorker, TLAPS

USE ReactionWorkerAssumption

Busy(w) == pc[w] # "idle"

Serial ==
    /\ \A w, x \in Workers : Busy(w) /\ Busy(x) => w = x
    /\ \A w \in Workers : Busy(w) => job[w] \in due /\ job[w] \in locked[w]

\* A due row waits, and one without an executor waits for its first attempt.
DueWaits ==
    /\ \A d \in due : delivery[d].status \in {"PENDING", "RETRY"}
    /\ \A d \in Unknown : delivery[d].status # "RETRY"

\* What the place of a worker says of its row and of the open transaction.
Place ==
    \A w \in Workers :
       /\ pc[w] = "dead" => job[w] \in Unknown
       /\ pc[w] \in {"execute", "succeeded", "failed"} => job[w] \notin Unknown
       /\ pc[w] = "succeeded" => wrote[w]

IInv == /\ TypeOK /\ Serial /\ DueWaits /\ Place
        /\ RetriesAreUsable /\ EffectsAreRecorded

----------------------------------------------------------------------------

LEMMA RowFacts ==
  ASSUME TypeOK, NEW d \in Deliveries
  PROVE  /\ delivery[d].status \in Statuses \cup {"NONE"}
         /\ delivery[d].attempts \in Nat
         /\ effects[d] \in Nat
  BY DEF TypeOK, DeliveryRow, NoRow

(* A call that ends leaves nothing of the worker behind.                   *)
LEMMA Ending ==
  ASSUME TypeOK, NEW w \in Workers, End(w)
  PROVE  /\ pc' \in [Workers -> {"idle", "execute", "dead", "succeeded", "failed"}]
         /\ locked' \in [Workers -> SUBSET Deliveries]
         /\ job' \in [Workers -> Deliveries \cup {NoJob}]
         /\ wrote' \in [Workers -> BOOLEAN]
         /\ pc'[w] = "idle"
         /\ \A x \in Workers \ {w} :
               pc'[x] = pc[x] /\ locked'[x] = locked[x] /\ job'[x] = job[x] /\ wrote'[x] = wrote[x]
  BY DEF TypeOK, End, Goto

LEMMA RegisterStep ==
  ASSUME IInv, NEW d \in Deliveries, Register(d)
  PROVE  IInv'
  <1>1. /\ delivery' \in [Deliveries -> DeliveryRow \cup {NoRow}]
        /\ delivery'[d] = [status |-> "PENDING", attempts |-> 0]
        /\ \A x \in Deliveries \ {d} : delivery'[x] = delivery[x]
    BY DEF Register, IInv, TypeOK, DeliveryRow, Statuses
  <1>2. UNCHANGED <<effects, faults, pc, locked, job, wrote>> /\ due' = due \cup {d}
    BY DEF Register, worker
  <1>3. order' \in [Deliveries -> Nat] /\ clock' \in Nat
    BY DEF Register, IInv, TypeOK
  <1>4. TypeOK'
    BY <1>1, <1>2, <1>3 DEF IInv, TypeOK
  <1>5. Serial' /\ Place'
    BY <1>2 DEF IInv, Serial, Place, Busy
  <1>6. DueWaits'
    <2>1. due \subseteq Deliveries
      BY DEF IInv, TypeOK
    <2> QED BY <1>1, <1>2, <2>1 DEF IInv, DueWaits
  <1>7. delivery[d].status = "NONE" /\ effects[d] <= 0 /\ effects[d] \in Nat
    BY RowFacts DEF Register, NoRow, IInv, EffectsAreRecorded
  <1>8. RetriesAreUsable' /\ EffectsAreRecorded'
    BY <1>1, <1>2, <1>7 DEF IInv, RetriesAreUsable, EffectsAreRecorded
  <1> QED BY <1>4, <1>5, <1>6, <1>8 DEF IInv

LEMMA ElapseStep ==
  ASSUME IInv, NEW d \in Deliveries, Elapse(d)
  PROVE  IInv'
  <1>1. /\ UNCHANGED <<delivery, effects, faults, pc, locked, job, wrote>>
        /\ due' = due \cup {d} /\ delivery[d].status = "RETRY"
    BY DEF Elapse, worker
  <1>2. order' \in [Deliveries -> Nat] /\ clock' \in Nat
    BY DEF Elapse, IInv, TypeOK
  <1> QED BY <1>1, <1>2 DEF IInv, TypeOK, Serial, DueWaits, Place, Busy,
                            RetriesAreUsable, EffectsAreRecorded

LEMMA ClaimStep ==
  ASSUME IInv, NEW w \in Workers, Claim(w)
  PROVE  IInv'
  <1>1. PICK d \in due :
           /\ job' = [job EXCEPT ![w] = d]
           /\ pc' = [pc EXCEPT ![w] = IF d \in Unknown THEN "dead" ELSE "execute"]
    BY DEF Claim, Goto
  <1>2. /\ UNCHANGED <<table, faults, wrote>>
        /\ locked' = [locked EXCEPT ![w] = due]
        /\ \A x \in Workers : locked[x] \cap due = {}
    BY DEF Claim
  <1>3. TypeOK'
    BY <1>1, <1>2 DEF IInv, TypeOK, table
  <1>4. \A x \in Workers : ~Busy(x)
    BY <1>2 DEF IInv, Serial
  <1>5. /\ job'[w] = d /\ locked'[w] = due /\ due' = due
        /\ pc'[w] = IF d \in Unknown THEN "dead" ELSE "execute"
        /\ \A x \in Workers \ {w} : pc'[x] = pc[x]
    BY <1>1, <1>2 DEF IInv, TypeOK, table
  <1>6. Serial' /\ Place'
    BY <1>4, <1>5 DEF Serial, Place, Busy
  <1>7. DueWaits' /\ RetriesAreUsable' /\ EffectsAreRecorded'
    BY <1>2 DEF IInv, DueWaits, RetriesAreUsable, EffectsAreRecorded, table
  <1> QED BY <1>3, <1>6, <1>7 DEF IInv

LEMMA ExecuteStep ==
  ASSUME IInv, NEW w \in Workers, Execute(w)
  PROVE  IInv'
  <1>1. /\ UNCHANGED <<table, locked, job>>
        /\ pc[w] = "execute"
        /\ \/ pc' = [pc EXCEPT ![w] = "succeeded"] /\ wrote' = [wrote EXCEPT ![w] = TRUE]
           \/ /\ pc' = [pc EXCEPT ![w] = "failed"]
              /\ \E b \in BOOLEAN : wrote' = [wrote EXCEPT ![w] = b]
    BY DEF Execute, Goto
  <1>2. faults' \in 0 .. MaxFaults
    BY DEF Execute, Fault, IInv, TypeOK
  <1>3. TypeOK'
    BY <1>1, <1>2 DEF IInv, TypeOK, table
  <1>4. /\ \A x \in Workers \ {w} : pc'[x] = pc[x] /\ wrote'[x] = wrote[x]
        /\ pc'[w] \in {"succeeded", "failed"}
        /\ pc'[w] = "succeeded" => wrote'[w]
    BY <1>1 DEF IInv, TypeOK
  <1>5. Serial' /\ Place'
    BY <1>1, <1>4 DEF IInv, Serial, Place, Busy, table
  <1>6. DueWaits' /\ RetriesAreUsable' /\ EffectsAreRecorded'
    BY <1>1 DEF IInv, DueWaits, RetriesAreUsable, EffectsAreRecorded, table
  <1> QED BY <1>3, <1>5, <1>6 DEF IInv

(* The row a commit writes: its attempt counted, and a status that suits.  *)
LEMMA Committing ==
  ASSUME IInv, NEW w \in Workers, Commit(w)
  PROVE  /\ job[w] \in Deliveries /\ job[w] \in due
         /\ Outcome(w) \in DeliveryRow
         /\ Outcome(w).attempts = delivery[job[w]].attempts + 1
         /\ Outcome(w).attempts \in 1 .. MaxAttempts
         /\ Outcome(w).status \in {"SUCCEEDED", "RETRY", "DEAD"}
         /\ Outcome(w).status = "SUCCEEDED" => wrote[w]
         /\ Outcome(w).status = "RETRY" =>
               job[w] \notin Unknown /\ Outcome(w).attempts < MaxAttempts
         /\ Outcome(w).status = "DEAD" =>
               Outcome(w).attempts = IF job[w] \in Unknown THEN 1 ELSE MaxAttempts
  <1> DEFINE d == job[w]
  <1>1. Busy(w) /\ pc[w] \in {"dead", "succeeded", "failed"}
    BY DEF Commit, Busy
  <1>2. d \in due /\ d \in Deliveries
    BY <1>1 DEF IInv, TypeOK, Serial
  <1>3. /\ delivery[d].status \in {"PENDING", "RETRY"}
        /\ delivery[d].attempts \in Nat
        /\ d \in Unknown => delivery[d].status = "PENDING"
    BY <1>2, RowFacts DEF IInv, DueWaits
  <1>4. /\ delivery[d].status = "PENDING" => delivery[d].attempts = 0
        /\ delivery[d].attempts + 1 \in 1 .. MaxAttempts
    BY <1>2, <1>3 DEF IInv, RetriesAreUsable
  <1>5. CASE pc[w] = "dead"
    BY <1>2, <1>3, <1>4, <1>5 DEF IInv, Place, Outcome, DeliveryRow, Statuses
  <1>6. CASE pc[w] = "succeeded"
    BY <1>2, <1>3, <1>4, <1>6 DEF IInv, Place, Outcome, DeliveryRow, Statuses
  <1>7. CASE pc[w] = "failed"
    BY <1>2, <1>3, <1>4, <1>7 DEF IInv, Place, Outcome, Retries, DeliveryRow, Statuses
  <1> QED BY <1>1, <1>5, <1>6, <1>7

LEMMA CommitStep ==
  ASSUME IInv, NEW w \in Workers, Commit(w)
  PROVE  IInv'
  <1> DEFINE d == job[w]
  <1>1. /\ d \in Deliveries /\ d \in due
        /\ Outcome(w) \in DeliveryRow
        /\ Outcome(w).attempts = delivery[d].attempts + 1
        /\ Outcome(w).attempts \in 1 .. MaxAttempts
        /\ Outcome(w).status \in {"SUCCEEDED", "RETRY", "DEAD"}
        /\ Outcome(w).status = "SUCCEEDED" => wrote[w]
        /\ Outcome(w).status = "RETRY" => d \notin Unknown /\ Outcome(w).attempts < MaxAttempts
        /\ Outcome(w).status = "DEAD" =>
              Outcome(w).attempts = IF d \in Unknown THEN 1 ELSE MaxAttempts
    BY Committing
  <1>2. /\ delivery' \in [Deliveries -> DeliveryRow \cup {NoRow}]
        /\ delivery'[d] = Outcome(w)
        /\ \A x \in Deliveries \ {d} : delivery'[x] = delivery[x]
    BY <1>1 DEF Commit, IInv, TypeOK
  <1>3. /\ effects' \in [Deliveries -> Nat]
        /\ effects'[d] = IF wrote[w] THEN effects[d] + 1 ELSE effects[d]
        /\ \A x \in Deliveries \ {d} : effects'[x] = effects[x]
    BY <1>1 DEF Commit, IInv, TypeOK
  <1>4. End(w) /\ due' = due \ {d} /\ UNCHANGED <<order, clock, faults>>
    BY DEF Commit
  <1>5. /\ pc' \in [Workers -> {"idle", "execute", "dead", "succeeded", "failed"}]
        /\ locked' \in [Workers -> SUBSET Deliveries]
        /\ job' \in [Workers -> Deliveries \cup {NoJob}]
        /\ wrote' \in [Workers -> BOOLEAN]
        /\ pc'[w] = "idle"
        /\ \A x \in Workers \ {w} :
              pc'[x] = pc[x] /\ locked'[x] = locked[x] /\ job'[x] = job[x] /\ wrote'[x] = wrote[x]
    BY <1>4, Ending DEF IInv
  <1>6. TypeOK'
    BY <1>2, <1>3, <1>4, <1>5 DEF IInv, TypeOK
  <1>7. Busy(w) /\ ~Busy(w)'
    BY <1>5 DEF Commit, Busy
  <1>8. \A x \in Workers : ~Busy(x)'
    BY <1>5, <1>7 DEF IInv, Serial, Busy
  <1>9. Serial' /\ Place'
    BY <1>8 DEF Serial, Place, Busy
  <1>10. DueWaits'
    <2>1. due \subseteq Deliveries /\ due' \subseteq due \ {d}
      BY <1>4 DEF IInv, TypeOK
    <2> QED BY <1>1, <1>2, <2>1 DEF IInv, DueWaits
  <1>11. RetriesAreUsable'
    <2>1. \A x \in Deliveries \ {d} : delivery'[x] = delivery[x]
      BY <1>2
    <2> QED BY <1>1, <1>2, <2>1 DEF IInv, RetriesAreUsable
  <1>12. EffectsAreRecorded'
    <2>1. effects[d] \in Nat /\ effects[d] <= delivery[d].attempts /\ delivery[d].attempts \in Nat
      BY <1>1, RowFacts DEF IInv, EffectsAreRecorded
    <2> QED BY <1>1, <1>2, <1>3, <2>1 DEF IInv, EffectsAreRecorded
  <1> QED BY <1>6, <1>9, <1>10, <1>11, <1>12 DEF IInv

LEMMA RollbackStep ==
  ASSUME IInv, NEW w \in Workers, Rollback(w)
  PROVE  IInv'
  <1>1. End(w) /\ UNCHANGED table /\ faults' \in 0 .. MaxFaults /\ Busy(w)
    BY DEF Rollback, Fault, IInv, TypeOK, Busy
  <1>2. /\ pc' \in [Workers -> {"idle", "execute", "dead", "succeeded", "failed"}]
        /\ locked' \in [Workers -> SUBSET Deliveries]
        /\ job' \in [Workers -> Deliveries \cup {NoJob}]
        /\ wrote' \in [Workers -> BOOLEAN]
        /\ pc'[w] = "idle"
        /\ \A x \in Workers \ {w} :
              pc'[x] = pc[x] /\ locked'[x] = locked[x] /\ job'[x] = job[x] /\ wrote'[x] = wrote[x]
    BY <1>1, Ending DEF IInv
  <1>3. TypeOK'
    BY <1>1, <1>2 DEF IInv, TypeOK, table
  <1>4. \A x \in Workers : ~Busy(x)'
    BY <1>1, <1>2 DEF IInv, Serial, Busy
  <1>5. Serial' /\ Place'
    BY <1>4 DEF Serial, Place, Busy
  <1> QED BY <1>1, <1>3, <1>5
          DEF IInv, DueWaits, RetriesAreUsable, EffectsAreRecorded, table

----------------------------------------------------------------------------

LEMMA InitIInv == Init => IInv
  <1> SUFFICES ASSUME Init PROVE IInv
    OBVIOUS
  <1>1. TypeOK
    BY DEF Init, TypeOK
  <1> QED BY <1>1 DEF Init, IInv, NoRow, Serial, DueWaits, Place, Busy,
                      RetriesAreUsable, EffectsAreRecorded

LEMMA NextIInv == IInv /\ [Next]_vars => IInv'
  <1> SUFFICES ASSUME IInv, [Next]_vars PROVE IInv'
    OBVIOUS
  <1>1. CASE UNCHANGED vars
    BY <1>1 DEF IInv, TypeOK, Serial, DueWaits, Place, Busy, RetriesAreUsable,
                EffectsAreRecorded, vars, table, worker
  <1>2. CASE \E d \in Deliveries : Register(d) \/ Elapse(d)
    BY <1>2, RegisterStep, ElapseStep
  <1>3. CASE \E w \in Workers : Work(w) \/ Rollback(w)
    BY <1>3, ClaimStep, ExecuteStep, CommitStep, RollbackStep DEF Work
  <1> QED BY <1>1, <1>2, <1>3 DEF Next

LEMMA Invariance == Spec => []IInv
  BY InitIInv, NextIInv, PTL DEF Spec

(* The table, the counters and the workers keep their types, for any       *)
(* number of deliveries and workers.                                       *)
THEOREM TypeCorrect == Spec => []TypeOK
  BY Invariance, PTL DEF IInv

(* Workers take turns: the SELECT ... FOR UPDATE names every due row, so    *)
(* that a second worker gets none of them while the first is in its        *)
(* transaction, whatever rows arrive or fall due meanwhile.                *)
THEOREM OneAtATime ==
  Spec => [](\A w, x \in Workers : Busy(w) /\ Busy(x) => w = x)
  <1>1. IInv => \A w, x \in Workers : Busy(w) /\ Busy(x) => w = x
    BY DEF IInv, Serial
  <1> QED BY <1>1, Invariance, PTL

(* An effect stands only beside the record of the attempt that made it,    *)
(* whatever statement fails.                                               *)
THEOREM AlwaysRecorded == Spec => []EffectsAreRecorded
  BY Invariance, PTL DEF IInv

(* A row that waits has an attempt left, and a dead row has used them all. *)
THEOREM NeverUnusable == Spec => []RetriesAreUsable
  BY Invariance, PTL DEF IInv

(* A reaction that has succeeded is never run to an effect again.          *)
THEOREM SucceededForGood == Spec => SucceededIsFinal
  <1>1. IInv /\ [Next]_vars =>
          [\A d \in Deliveries : delivery[d].status = "SUCCEEDED" =>
              delivery'[d] = delivery[d] /\ effects'[d] = effects[d]]_vars
    <2> SUFFICES ASSUME IInv, Next, NEW d \in Deliveries,
                        delivery[d].status = "SUCCEEDED"
                 PROVE  delivery'[d] = delivery[d] /\ effects'[d] = effects[d]
      BY DEF vars
    <2>1. ASSUME NEW x \in Deliveries, Register(x) \/ Elapse(x)
          PROVE  delivery'[d] = delivery[d] /\ effects'[d] = effects[d]
      BY <2>1 DEF Register, Elapse, NoRow, IInv, TypeOK
    <2>2. ASSUME NEW w \in Workers, Claim(w) \/ Execute(w) \/ Rollback(w)
          PROVE  delivery'[d] = delivery[d] /\ effects'[d] = effects[d]
      BY <2>2 DEF Claim, Execute, Rollback, table
    <2>3. ASSUME NEW w \in Workers, Commit(w)
          PROVE  delivery'[d] = delivery[d] /\ effects'[d] = effects[d]
      <3>1. job[w] \in due /\ job[w] # d
        BY <2>3, Committing DEF IInv, DueWaits
      <3> QED BY <2>3, <3>1 DEF Commit, IInv, TypeOK
    <2> QED BY <2>1, <2>2, <2>3 DEF Next, Work
  <1> QED BY <1>1, Invariance, PTL DEF Spec, SucceededIsFinal
=============================================================================
