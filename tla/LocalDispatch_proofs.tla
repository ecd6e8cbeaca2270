------------------------- MODULE LocalDispatch_proofs -------------------------
(***************************************************************************)
(* Safety of the local event dispatcher for any number of events and       *)
(* dispatchers, any batch size and any failures.                           *)
(*                                                                         *)
(* Two dispatchers may hold the same row, and the second overwrites what   *)
(* the first committed.  What survives this is said of each transaction by *)
(* itself: its writes (Writing) are outcomes the bus has seen, except that *)
(* of the row it is at, so that whatever commit comes last is a good one.  *)
(***************************************************************************)
EXTENDS LocalDispatch, FiniteSetTheorems, WellFoundedInduction, TLAPS

USE LocalDispatchAssumption

\* The loop is at a row.
Looping(d) == pc[d] \in {"claim", "publish", "dispatched", "reverted"}
AtRow(d) == pc[d] \in {"publish", "dispatched", "reverted"}

Selecting ==
    /\ \A d \in Dispatchers : Looping(d) <=> batch[d] # {}
    /\ \A d \in Dispatchers : pc[d] = "idle" => Locked(d) = {}
    /\ \A d \in Dispatchers : batch[d] \cup Locked(d) \subseteq journal
    /\ \A e \in Events : status[e] # "NONE" => e \in journal

\* A row the transaction d is done with has its outcome.
Settled(d, e) ==
    /\ written[d][e] \in {"PENDING", "DISPATCHED"}
    /\ written[d][e] = "DISPATCHED" => broadcasts[e] > 0
    /\ faults = 0 => written[d][e] = "DISPATCHED"

Coherent(d) ==
    /\ \A e \in Locked(d) : (AtRow(d) /\ e = Row(d)) \/ Settled(d, e)
    /\ pc[d] = "dispatched" => broadcasts[Row(d)] > 0
    /\ pc[d] = "reverted" => faults > 0

Writing == \A d \in Dispatchers : Coherent(d)

IInv == /\ TypeOK /\ Selecting /\ Writing
        /\ NothingStranded /\ DispatchedWasBroadcast

----------------------------------------------------------------------------

LessThan == {p \in Nat \X Nat : p[1] < p[2]}

(* A set of numbers that is not empty has a smallest one.                  *)
LEMMA HasSmallest ==
  ASSUME NEW T \in SUBSET Nat, T # {}
  PROVE  \E x \in T : \A y \in T : x <= y
  <1>1. OpToRel(<, Nat) = LessThan
    BY DEF OpToRel, LessThan
  <1>2. IsWellFoundedOn(LessThan, Nat)
    BY <1>1, NatLessThanWellFounded
  <1>3. PICK x \in T : \A y \in T : ~ (<<y, x>> \in LessThan)
    BY <1>2, WFMin
  <1>4. \A m, n \in Nat : <<m, n>> \in LessThan <=> m < n
    BY DEF LessThan
  <1>5. \A y \in T : ~(y < x)
    BY <1>3, <1>4
  <1>6. \A y \in T : x <= y
    BY <1>5
  <1> QED BY <1>6

(* The row the loop is at is one of the batch.                             *)
LEMMA RowInBatch ==
  ASSUME TypeOK, Selecting, NEW d \in Dispatchers, Looping(d)
  PROVE  Row(d) \in batch[d] /\ Row(d) \in Events /\ Row(d) \in journal
  <1>1. batch[d] \in SUBSET Nat /\ batch[d] # {} /\ batch[d] \subseteq Events
    BY DEF TypeOK, Selecting
  <1>2. \E e \in batch[d] : \A f \in batch[d] : e <= f
    BY <1>1, HasSmallest
  <1>3. Row(d) \in batch[d]
    BY <1>2 DEF Row
  <1> QED BY <1>1, <1>3 DEF Selecting

(* A row is the same in the next state if the batch is.                    *)
LEMMA SameRow ==
  ASSUME NEW d, batch'[d] = batch[d]
  PROVE  Row(d)' = Row(d)
  BY DEF Row

(* What holds of a dispatcher that takes no step.                          *)
LEMMA Others ==
  ASSUME IInv, NEW d \in Dispatchers, pc'[d] = pc[d], batch'[d] = batch[d],
         written'[d] = written[d], broadcasts' \in [Events -> Nat],
         \A e \in Events : broadcasts'[e] >= broadcasts[e],
         faults' \in Nat, faults' >= faults
  PROVE  /\ Coherent(d)'
         /\ Locked(d)' = Locked(d)
         /\ Looping(d)' <=> Looping(d)
  <1>1. /\ Locked(d)' = Locked(d) /\ Row(d)' = Row(d)
        /\ (AtRow(d)' <=> AtRow(d)) /\ (Looping(d)' <=> Looping(d))
    BY SameRow DEF Locked, AtRow, Looping
  <1>2. faults \in Nat /\ \A e \in Events : broadcasts[e] \in Nat
    BY DEF IInv, TypeOK
  <1>3. Coherent(d)
    BY DEF IInv, Writing
  <1>4. \A e \in Events : Settled(d, e) => Settled(d, e)'
    BY <1>2 DEF Settled
  <1>5. Locked(d) \subseteq Events
    BY DEF Locked
  <1>6. pc[d] = "dispatched" => Row(d) \in Events
    BY RowInBatch DEF IInv, Looping
  <1>7. pc'[d] = "dispatched" => broadcasts'[Row(d)'] > 0
    <2>1. \A e \in Events : broadcasts[e] > 0 => broadcasts'[e] > 0
      BY <1>2
    <2>2. pc[d] = "dispatched" => broadcasts[Row(d)] > 0
      BY <1>3 DEF Coherent
    <2>3. pc[d] = "dispatched" => broadcasts'[Row(d)] > 0
      BY <1>6, <2>1, <2>2
    <2> QED BY <1>1, <2>3
  <1>8. pc'[d] = "reverted" => faults' > 0
    BY <1>2, <1>3 DEF Coherent
  <1>9. \A e \in Locked(d)' : (AtRow(d)' /\ e = Row(d)') \/ Settled(d, e)'
    BY <1>1, <1>3, <1>4, <1>5 DEF Coherent
  <1> QED BY <1>1, <1>7, <1>8, <1>9 DEF Coherent

(* A step of the dispatcher d has to be looked at for d only.              *)
LEMMA OneMoves ==
  ASSUME IInv, NEW d \in Dispatchers, TypeOK', journal' = journal,
         \A x \in Dispatchers \ {d} : /\ pc'[x] = pc[x]
                                      /\ batch'[x] = batch[x]
                                      /\ written'[x] = written[x],
         \A e \in Events : broadcasts'[e] >= broadcasts[e],
         faults' >= faults,
         \A e \in Events : status'[e] # "NONE" => e \in journal,
         Looping(d)' <=> batch'[d] # {},
         pc'[d] = "idle" => Locked(d)' = {},
         batch'[d] \cup Locked(d)' \subseteq journal,
         Coherent(d)', NothingStranded', DispatchedWasBroadcast'
  PROVE  IInv'
  <1>1. broadcasts' \in [Events -> Nat] /\ faults' \in Nat
    BY DEF TypeOK
  <1>2. \A x \in Dispatchers \ {d} : /\ Coherent(x)'
                                     /\ Locked(x)' = Locked(x)
                                     /\ Looping(x)' <=> Looping(x)
    BY <1>1, Others
  <1>3. Writing'
    BY <1>2 DEF Writing
  <1>4. Selecting'
    <2>1. \A x \in Dispatchers : Looping(x)' <=> batch'[x] # {}
      BY <1>2 DEF IInv, Selecting
    <2>2. \A x \in Dispatchers : pc'[x] = "idle" => Locked(x)' = {}
      BY <1>2 DEF IInv, Selecting
    <2>3. \A x \in Dispatchers : batch'[x] \cup Locked(x)' \subseteq journal'
      BY <1>2 DEF IInv, Selecting
    <2> QED BY <2>1, <2>2, <2>3 DEF Selecting
  <1> QED BY <1>3, <1>4 DEF IInv

----------------------------------------------------------------------------

LEMMA JournalStep ==
  ASSUME IInv, NEW e \in Events, Journal(e) \/ Register(e)
  PROVE  IInv'
  <1>1. UNCHANGED <<broadcasts, faults, pc, batch, written>>
    BY DEF Journal, Register, history, dispatcher
  <1>2. /\ journal \subseteq journal' /\ journal' \subseteq Events
        /\ status' \in [Events -> Statuses]
        /\ \A f \in Events : \/ status'[f] = status[f]
                             \/ status'[f] = "PENDING" /\ f \in journal
    <2>1. CASE Journal(e)
      BY <2>1 DEF Journal, IInv, TypeOK
    <2>2. CASE Register(e)
      BY <2>2 DEF Register, IInv, TypeOK, Statuses
    <2> QED BY <2>1, <2>2
  <1>3. TypeOK'
    BY <1>1, <1>2 DEF IInv, TypeOK
  <1>4. faults \in Nat /\ broadcasts \in [Events -> Nat]
    BY DEF IInv, TypeOK
  <1>5. \A e_1 \in Events : broadcasts'[e_1] >= broadcasts[e_1]
    BY <1>1, <1>4
  <1>6. \A d \in Dispatchers : /\ Coherent(d)'
                               /\ Locked(d)' = Locked(d)
                               /\ Looping(d)' <=> Looping(d)
    BY <1>1, <1>4, <1>5, Others
  <1>7. Selecting'
    BY <1>1, <1>2, <1>6 DEF IInv, Selecting
  <1>8. Writing'
    BY <1>6 DEF Writing
  <1>9. NothingStranded' /\ DispatchedWasBroadcast'
    BY <1>1, <1>2 DEF IInv, NothingStranded, DispatchedWasBroadcast
  <1> QED BY <1>3, <1>7, <1>8, <1>9 DEF IInv

(* The values and facts every step of a dispatcher needs.                  *)
LEMMA Typed ==
  ASSUME IInv
  PROVE  /\ faults \in Nat
         /\ \A e \in Events : broadcasts[e] \in Nat
         /\ \A e \in Events : status[e] # "NONE" => e \in journal
  BY DEF IInv, TypeOK, Selecting

LEMMA FindStep ==
  ASSUME IInv, NEW d \in Dispatchers, Find(d)
  PROVE  IInv'
  <1>1. UNCHANGED <<journal, status, broadcasts, faults, written>>
    BY DEF Find, history
  <1>2. PICK B \in SUBSET Pending : Oldest(B) /\ batch' = [batch EXCEPT ![d] = B]
    BY DEF Find
  <1>3. /\ batch' \in [Dispatchers -> SUBSET Events]
        /\ batch'[d] = B
        /\ \A x \in Dispatchers \ {d} : batch'[x] = batch[x]
    BY <1>2 DEF IInv, TypeOK, Pending
  <1>4. /\ pc' \in [Dispatchers -> {"idle", "claim", "publish", "dispatched",
                                    "reverted", "commit"}]
        /\ pc'[d] = "claim" /\ pc[d] = "idle"
        /\ \A x \in Dispatchers \ {d} : pc'[x] = pc[x]
    BY DEF Find, IInv, TypeOK
  <1>5. TypeOK'
    BY <1>1, <1>3, <1>4 DEF IInv, TypeOK
  <1>6. B # {}
    <2>1. CASE Cardinality(Pending) <= BatchSize
      BY <1>2, <2>1 DEF Oldest, Find
    <2>2. CASE ~(Cardinality(Pending) <= BatchSize)
      <3>1. Cardinality(B) = BatchSize
        BY <1>2, <2>2 DEF Oldest
      <3> QED BY <3>1, FS_EmptySet
    <2> QED BY <2>1, <2>2
  <1>7. B \subseteq journal
    BY <1>2 DEF Pending, IInv, Selecting
  <1>8. Locked(d)' = {}
    BY <1>1, <1>4 DEF Locked, IInv, Selecting
  <1>9. Coherent(d)' /\ (Looping(d)' <=> batch'[d] # {})
    BY <1>3, <1>4, <1>6, <1>8 DEF Coherent, Looping
  <1>10. NothingStranded' /\ DispatchedWasBroadcast'
    BY <1>1 DEF IInv, NothingStranded, DispatchedWasBroadcast
  <1> QED
    BY <1>1, <1>3, <1>4, <1>5, <1>7, <1>8, <1>9, <1>10, Typed, OneMoves

LEMMA ClaimStep ==
  ASSUME IInv, NEW d \in Dispatchers, Claim(d)
  PROVE  IInv'
  <1>1. pc[d] = "claim" /\ Looping(d)
    BY DEF Claim, Looping
  <1>2. Row(d) \in batch[d] /\ Row(d) \in Events /\ Row(d) \in journal
    BY <1>1, RowInBatch DEF IInv
  <1>3. /\ written' = [written EXCEPT ![d][Row(d)] = "PROCESSING"]
        /\ pc' = [pc EXCEPT ![d] = "publish"]
        /\ UNCHANGED <<journal, status, broadcasts, faults, batch>>
    BY <1>2 DEF Claim, Write, Goto, history
  <1>4. TypeOK'
    BY <1>2, <1>3 DEF IInv, TypeOK, Statuses
  <1>5. /\ pc'[d] = "publish" /\ batch'[d] = batch[d]
        /\ \A e \in Events \ {Row(d)} : written'[d][e] = written[d][e]
        /\ \A x \in Dispatchers \ {d} :
              pc'[x] = pc[x] /\ batch'[x] = batch[x] /\ written'[x] = written[x]
    BY <1>2, <1>3 DEF IInv, TypeOK
  <1>6. Row(d)' = Row(d)
    BY <1>5, SameRow
  <1>7. Locked(d)' \subseteq Locked(d) \cup {Row(d)}
    BY <1>5 DEF Locked
  <1>8. \A e \in Locked(d) : Settled(d, e)
    BY <1>1 DEF IInv, Writing, Coherent, AtRow
  <1>9. \A e \in Locked(d)' \ {Row(d)} : Settled(d, e)'
    BY <1>3, <1>5, <1>7, <1>8 DEF Settled, Locked
  <1>10. Coherent(d)'
    BY <1>5, <1>6, <1>9 DEF Coherent, AtRow
  <1>11. batch'[d] \cup Locked(d)' \subseteq journal
    BY <1>2, <1>5, <1>7 DEF IInv, Selecting
  <1>12. Looping(d)' /\ batch'[d] # {} /\ pc'[d] # "idle"
    BY <1>2, <1>5 DEF Looping
  <1>13. NothingStranded' /\ DispatchedWasBroadcast'
    BY <1>3 DEF IInv, NothingStranded, DispatchedWasBroadcast
  <1> QED
    BY <1>3, <1>4, <1>5, <1>10, <1>11, <1>12, <1>13, Typed, OneMoves

LEMMA PublishStep ==
  ASSUME IInv, NEW d \in Dispatchers, Publish(d)
  PROVE  IInv'
  <1>1. pc[d] = "publish" /\ Looping(d) /\ AtRow(d)
    BY DEF Publish, Looping, AtRow
  <1>2. Row(d) \in batch[d] /\ Row(d) \in Events
    BY <1>1, RowInBatch DEF IInv
  <1>3. UNCHANGED <<journal, status, batch, written>>
    BY DEF Publish
  <1>4. \/ /\ broadcasts' = [broadcasts EXCEPT ![Row(d)] = @ + 1]
           /\ pc' = [pc EXCEPT ![d] = "dispatched"]
           /\ faults' = faults
        \/ /\ \/ broadcasts' = [broadcasts EXCEPT ![Row(d)] = @ + 1]
              \/ broadcasts' = broadcasts
           /\ pc' = [pc EXCEPT ![d] = "reverted"]
           /\ faults' = faults + 1 /\ faults < MaxFaults
    BY DEF Publish, Fault, Goto
  <1>5. /\ faults \in 0 .. MaxFaults /\ broadcasts \in [Events -> Nat]
        /\ pc \in [Dispatchers -> {"idle", "claim", "publish", "dispatched",
                                   "reverted", "commit"}]
    BY DEF IInv, TypeOK
  <1>6. /\ broadcasts' \in [Events -> Nat]
        /\ \A e \in Events : broadcasts'[e] >= broadcasts[e]
    BY <1>2, <1>4, <1>5
  <1>7. faults' \in 0 .. MaxFaults /\ faults' >= faults
    BY <1>4, <1>5
  <1>8. /\ pc' \in [Dispatchers -> {"idle", "claim", "publish", "dispatched",
                                    "reverted", "commit"}]
        /\ \A x \in Dispatchers \ {d} : pc'[x] = pc[x]
        /\ \/ pc'[d] = "dispatched" /\ broadcasts'[Row(d)] > 0
           \/ pc'[d] = "reverted" /\ faults' > 0
    <2>1. CASE /\ broadcasts' = [broadcasts EXCEPT ![Row(d)] = @ + 1]
               /\ pc' = [pc EXCEPT ![d] = "dispatched"]
      <3>1. broadcasts'[Row(d)] > 0
        <4>1. broadcasts[Row(d)] \in Nat
          BY <1>2, <1>5
        <4>2. broadcasts'[Row(d)] = broadcasts[Row(d)] + 1
          BY <1>2, <1>5, <2>1
        <4> QED BY <4>1, <4>2
      <3> QED BY <1>5, <2>1, <3>1
    <2>2. CASE pc' = [pc EXCEPT ![d] = "reverted"] /\ faults' = faults + 1
      <3>1. faults' > 0
        BY <1>5, <2>2
      <3> QED BY <1>5, <2>2, <3>1
    <2> QED BY <1>4, <2>1, <2>2
  <1>9. TypeOK'
    BY <1>3, <1>6, <1>7, <1>8 DEF IInv, TypeOK
  <1>10. Row(d)' = Row(d) /\ Locked(d)' = Locked(d)
    BY <1>3, SameRow DEF Locked
  <1>11. \A e \in Events : Settled(d, e) => Settled(d, e)'
    <2>1. \A e \in Events : broadcasts[e] > 0 => broadcasts'[e] > 0
      BY <1>5, <1>6
    <2>2. faults' = 0 => faults = 0
      BY <1>5, <1>7
    <2> QED BY <1>3, <2>1, <2>2 DEF Settled
  <1>12. \A e \in Locked(d)' : (AtRow(d)' /\ e = Row(d)') \/ Settled(d, e)'
    BY <1>8, <1>10, <1>11 DEF IInv, Writing, Coherent, AtRow, Locked
  <1>13. Coherent(d)'
    BY <1>8, <1>10, <1>12 DEF Coherent
  <1>14. Looping(d)' /\ batch'[d] # {} /\ pc'[d] # "idle"
    BY <1>2, <1>3, <1>8 DEF Looping
  <1>15. batch'[d] \cup Locked(d)' \subseteq journal
    BY <1>3, <1>10 DEF IInv, Selecting
  <1>16. NothingStranded'
    BY <1>3 DEF IInv, NothingStranded
  <1>17. DispatchedWasBroadcast'
    BY <1>3, <1>5, <1>6 DEF IInv, DispatchedWasBroadcast
  <1> QED
    BY <1>3, <1>6, <1>7, <1>8, <1>9, <1>13, <1>14, <1>15, <1>16, <1>17,
       Typed, OneMoves

LEMMA SaveStep ==
  ASSUME IInv, NEW d \in Dispatchers, Save(d)
  PROVE  IInv'
  <1>1. pc[d] \in {"dispatched", "reverted"} /\ Looping(d)
    BY DEF Save, Looping
  <1>2. Row(d) \in batch[d] /\ Row(d) \in Events /\ Row(d) \in journal
    BY <1>1, RowInBatch DEF IInv
  <1> DEFINE next == IF batch[d] = {Row(d)} THEN "commit" ELSE "claim"
  <1>3. /\ written' = [written EXCEPT ![d][Row(d)] = Outcome(d)]
        /\ batch' = [batch EXCEPT ![d] = @ \ {Row(d)}]
        /\ pc' = [pc EXCEPT ![d] = next]
        /\ UNCHANGED <<journal, status, broadcasts, faults>>
    BY DEF Save, Write, Goto, history
  <1>4. Outcome(d) \in Statuses
    BY DEF Outcome, Statuses
  <1>5. next \in {"commit", "claim"}
    OBVIOUS
  <1>6. TypeOK'
    BY <1>2, <1>3, <1>4, <1>5 DEF IInv, TypeOK
  <1>7. /\ pc'[d] = next /\ batch'[d] = batch[d] \ {Row(d)}
        /\ written'[d][Row(d)] = Outcome(d)
        /\ \A e \in Events \ {Row(d)} : written'[d][e] = written[d][e]
        /\ \A x \in Dispatchers \ {d} :
              pc'[x] = pc[x] /\ batch'[x] = batch[x] /\ written'[x] = written[x]
    BY <1>2, <1>3 DEF IInv, TypeOK
  <1>8. Locked(d)' \subseteq Locked(d) \cup {Row(d)}
    BY <1>7 DEF Locked
  <1>9. \A e \in Locked(d) \ {Row(d)} : Settled(d, e)
    BY DEF IInv, Writing, Coherent
  <1> PICK r \in Events : r = Row(d)
    BY <1>2
  <1>10. \A e \in Locked(d)' \ {r} : Settled(d, e)'
    BY <1>3, <1>7, <1>8, <1>9 DEF Settled, Locked
  <1>11. Settled(d, r)'
    <2>1. CASE pc[d] = "dispatched"
      <3>1. broadcasts[r] > 0
        BY <2>1 DEF IInv, Writing, Coherent
      <3>2. written'[d][r] = "DISPATCHED"
        BY <1>7, <2>1 DEF Outcome
      <3> QED BY <1>3, <3>1, <3>2 DEF Settled
    <2>2. CASE pc[d] = "reverted"
      <3>1. faults > 0 /\ faults \in Nat
        BY <2>2, Typed DEF IInv, Writing, Coherent
      <3>2. written'[d][r] = "PENDING"
        BY <1>7, <2>2 DEF Outcome
      <3> QED BY <1>3, <3>1, <3>2 DEF Settled
    <2> QED BY <1>1, <2>1, <2>2
  <1>12. Coherent(d)'
    <2>1. \A e \in Locked(d)' : Settled(d, e)'
      BY <1>10, <1>11
    <2> QED BY <1>5, <1>7, <2>1 DEF Coherent
  <1>13. (Looping(d)' <=> batch'[d] # {}) /\ pc'[d] # "idle"
    BY <1>2, <1>7 DEF Looping
  <1>14. batch'[d] \cup Locked(d)' \subseteq journal
    BY <1>2, <1>7, <1>8 DEF IInv, Selecting
  <1>15. NothingStranded' /\ DispatchedWasBroadcast'
    BY <1>3 DEF IInv, NothingStranded, DispatchedWasBroadcast
  <1>16. \A e \in Events : broadcasts'[e] >= broadcasts[e]
    BY <1>3, Typed
  <1> QED
    BY <1>3, <1>6, <1>7, <1>12, <1>13, <1>14, <1>15, <1>16, Typed, OneMoves

(* What the end of a transaction leaves of it: nothing.                    *)
LEMMA Ended ==
  ASSUME IInv, NEW d \in Dispatchers, End(d)
  PROVE  /\ pc' \in [Dispatchers -> {"idle", "claim", "publish", "dispatched",
                                     "reverted", "commit"}]
         /\ batch' \in [Dispatchers -> SUBSET Events]
         /\ written' \in [Dispatchers -> [Events -> Statuses]]
         /\ pc'[d] = "idle" /\ batch'[d] = {} /\ Locked(d)' = {}
         /\ \A x \in Dispatchers \ {d} :
               pc'[x] = pc[x] /\ batch'[x] = batch[x] /\ written'[x] = written[x]
         /\ Coherent(d)'
         /\ Looping(d)' <=> batch'[d] # {}
  <1>1. /\ pc' = [pc EXCEPT ![d] = "idle"] /\ batch' = [batch EXCEPT ![d] = {}]
        /\ written' = [written EXCEPT ![d] = Nothing]
    BY DEF End, Goto
  <1>2. Nothing \in [Events -> Statuses]
    BY DEF Nothing, Statuses
  <1>3. /\ pc' \in [Dispatchers -> {"idle", "claim", "publish", "dispatched",
                                    "reverted", "commit"}]
        /\ batch' \in [Dispatchers -> SUBSET Events]
        /\ written' \in [Dispatchers -> [Events -> Statuses]]
        /\ pc'[d] = "idle" /\ batch'[d] = {} /\ written'[d] = Nothing
        /\ \A x \in Dispatchers \ {d} :
              pc'[x] = pc[x] /\ batch'[x] = batch[x] /\ written'[x] = written[x]
    BY <1>1, <1>2 DEF IInv, TypeOK
  <1>4. Locked(d)' = {}
    BY <1>3 DEF Locked, Nothing
  <1> QED BY <1>3, <1>4 DEF Coherent, Looping

LEMMA CommitStep ==
  ASSUME IInv, NEW d \in Dispatchers, Commit(d)
  PROVE  IInv'
  <1>1. /\ pc[d] = "commit" /\ End(d)
        /\ UNCHANGED <<journal, broadcasts, faults>>
        /\ status' = [e \in Events |->
                         IF e \in Locked(d) THEN written[d][e] ELSE status[e]]
    BY DEF Commit, history
  <1>2. \A e \in Locked(d) : Settled(d, e)
    BY <1>1 DEF IInv, Writing, Coherent, AtRow
  <1>3. \A e \in Events :
           \/ status'[e] = status[e]
           \/ status'[e] = written[d][e] /\ e \in Locked(d) /\ Settled(d, e)
    BY <1>1, <1>2
  <1>4. status' \in [Events -> Statuses]
    BY <1>1 DEF IInv, TypeOK
  <1>5. TypeOK'
    BY <1>1, <1>4, Ended DEF IInv, TypeOK
  <1>6. \A e \in Events : status'[e] # "NONE" => e \in journal
    BY <1>3 DEF IInv, Selecting
  <1>7. NothingStranded' /\ DispatchedWasBroadcast'
    BY <1>1, <1>3 DEF IInv, NothingStranded, DispatchedWasBroadcast, Settled
  <1>8. /\ \A e \in Events : broadcasts'[e] >= broadcasts[e]
        /\ faults' >= faults
    BY <1>1, Typed
  <1>9. batch'[d] \cup Locked(d)' \subseteq journal
    BY <1>1, Ended
  <1> QED BY <1>1, <1>5, <1>6, <1>7, <1>8, <1>9, Ended, OneMoves

LEMMA RollbackStep ==
  ASSUME IInv, NEW d \in Dispatchers, Rollback(d)
  PROVE  IInv'
  <1>1. /\ End(d) /\ UNCHANGED <<journal, status, broadcasts>>
        /\ faults < MaxFaults /\ faults' = faults + 1
    BY DEF Rollback, Fault
  <1>2. TypeOK'
    BY <1>1, Ended DEF IInv, TypeOK
  <1>3. NothingStranded' /\ DispatchedWasBroadcast'
    BY <1>1 DEF IInv, NothingStranded, DispatchedWasBroadcast
  <1>4. /\ \A e \in Events : broadcasts'[e] >= broadcasts[e]
        /\ faults' >= faults
        /\ \A e \in Events : status'[e] # "NONE" => e \in journal
    BY <1>1, Typed
  <1>5. batch'[d] \cup Locked(d)' \subseteq journal
    BY <1>1, Ended
  <1> QED BY <1>1, <1>2, <1>3, <1>4, <1>5, Ended, OneMoves

----------------------------------------------------------------------------

LEMMA InitIInv == Init => IInv
  <1> SUFFICES ASSUME Init PROVE IInv
    OBVIOUS
  <1>1. Nothing \in [Events -> Statuses]
    BY DEF Nothing, Statuses
  <1>2. TypeOK
    BY <1>1 DEF Init, TypeOK, Statuses
  <1>3. \A d \in Dispatchers : Locked(d) = {}
    BY DEF Init, Locked, Nothing
  <1>4. Selecting
    BY <1>3 DEF Init, Selecting, Looping
  <1>5. Writing
    BY <1>3 DEF Init, Writing, Coherent
  <1>6. NothingStranded /\ DispatchedWasBroadcast
    BY DEF Init, NothingStranded, DispatchedWasBroadcast
  <1> QED BY <1>2, <1>4, <1>5, <1>6 DEF IInv

LEMMA StutterIInv == IInv /\ UNCHANGED vars => IInv'
  <1> SUFFICES ASSUME IInv, UNCHANGED vars PROVE IInv'
    OBVIOUS
  <1>1. UNCHANGED <<journal, status, broadcasts, faults, pc, batch, written>>
    BY DEF vars, history, dispatcher
  <1>2. \A d \in Dispatchers : /\ Coherent(d)'
                               /\ Locked(d)' = Locked(d)
                               /\ Looping(d)' <=> Looping(d)
    <2>1. /\ broadcasts' \in [Events -> Nat] /\ faults' \in Nat /\ faults' >= faults
          /\ \A e \in Events : broadcasts'[e] >= broadcasts[e]
      BY <1>1 DEF IInv, TypeOK
    <2> QED BY <1>1, <2>1, Others
  <1>3. TypeOK'
    BY <1>1 DEF IInv, TypeOK
  <1>4. Selecting' /\ Writing'
    BY <1>1, <1>2 DEF IInv, Selecting, Writing
  <1>5. NothingStranded' /\ DispatchedWasBroadcast'
    BY <1>1 DEF IInv, NothingStranded, DispatchedWasBroadcast
  <1> QED BY <1>3, <1>4, <1>5 DEF IInv

LEMMA NextIInv == IInv /\ [Next]_vars => IInv'
  <1> SUFFICES ASSUME IInv, Next PROVE IInv'
    BY StutterIInv
  <1>1. CASE \E e \in Events : Journal(e) \/ Register(e)
    BY <1>1, JournalStep
  <1>2. CASE \E d \in Dispatchers : Dispatch(d) \/ Rollback(d)
    BY <1>2, FindStep, ClaimStep, PublishStep, SaveStep, CommitStep,
       RollbackStep DEF Dispatch
  <1> QED BY <1>1, <1>2 DEF Next

LEMMA Invariance == Spec => []IInv
  BY InitIInv, NextIInv, PTL DEF Spec

(* TypeOK: every variable keeps its type, and the statuses are those of    *)
(* local_event_dispatches.                                                 *)
THEOREM TypeCorrect == Spec => []TypeOK
  <1>1. IInv => TypeOK
    BY DEF IInv
  <1> QED BY <1>1, Invariance, PTL

(* NothingStranded: whatever fails, no committed row stays claimed or is   *)
(* given up, so that each one not yet dispatched is found again.           *)
THEOREM NeverStranded == Spec => []NothingStranded
  <1>1. IInv => NothingStranded
    BY DEF IInv
  <1> QED BY <1>1, Invariance, PTL

(* DispatchedWasBroadcast: also of two dispatchers that hold the same row, *)
(* neither marks it DISPATCHED before the bus has got the event.           *)
THEOREM NeverSkipped == Spec => []DispatchedWasBroadcast
  <1>1. IInv => DispatchedWasBroadcast
    BY DEF IInv
  <1> QED BY <1>1, Invariance, PTL

(* DispatchedIsFinal: as long as nothing fails a dispatched row remains    *)
(* so, although a second dispatcher may claim and publish it again.        *)
THEOREM DispatchedForGood == Spec => DispatchedIsFinal
  <1> DEFINE Final == \A e \in Events :
                         status[e] = "DISPATCHED" /\ faults' = 0
                            => status'[e] = "DISPATCHED"
  <1>1. IInv /\ [Next]_vars => [Final]_vars
    <2> SUFFICES ASSUME IInv, Next PROVE Final
      BY DEF vars
    <2>1. CASE \E e \in Events : Journal(e) \/ Register(e)
      BY <2>1 DEF Journal, Register, IInv, TypeOK
    <2>2. ASSUME NEW d \in Dispatchers, Commit(d)
          PROVE  Final
      <3>1. \A e \in Locked(d) : Settled(d, e)
        BY <2>2 DEF Commit, IInv, Writing, Coherent, AtRow
      <3> QED BY <2>2, <3>1 DEF Commit, Settled, history
    <2>3. CASE \E d \in Dispatchers :
                  Find(d) \/ Claim(d) \/ Publish(d) \/ Save(d) \/ Rollback(d)
      <3>1. status' = status
        BY <2>3 DEF Find, Claim, Publish, Save, Rollback
      <3> QED BY <3>1
    <2> QED BY <2>1, <2>2, <2>3 DEF Next, Dispatch
  <1>2. [][Final]_vars <=> DispatchedIsFinal
    BY DEF DispatchedIsFinal
  <1> QED BY <1>1, <1>2, Invariance, PTL DEF Spec

----------------------------------------------------------------------------
(* The repetitions of an event, for finitely many dispatchers.  What a     *)
(* dispatcher may still do to an event is its role.  One that will publish *)
(* it, or may still select its row, uses up one publication; one whose     *)
(* publication failed lets everybody start over when it commits; and a     *)
(* failure pays for a round of all of them.                                *)

Role(d, e) ==
    IF e \in batch[d]
    THEN IF pc[d] = "dispatched" /\ e = Row(d) THEN "did"
         ELSE IF pc[d] = "reverted" /\ e = Row(d) THEN "failed" ELSE "will"
    ELSE IF written[d][e] = "DISPATCHED" THEN "did"
         ELSE IF written[d][e] = "PENDING" THEN "failed" ELSE "none"

Round == Cardinality(Dispatchers)

\* Who may still publish the event in this round.
Left(e) == {d \in Dispatchers : \/ Role(d, e) = "will"
                                \/ Role(d, e) = "none" /\ status[e] # "DISPATCHED"}

Failed(e) == {d \in Dispatchers : Role(d, e) = "failed"}

\* The publications of so many rounds.
Rounds(n) == n * Round

Counted(e) ==
    broadcasts[e] + Cardinality(Left(e)) + Rounds(Cardinality(Failed(e)))
        <= Rounds(faults + 1)

LEMMA NextRound ==
  ASSUME IsFiniteSet(Dispatchers), NEW n \in Nat
  PROVE  /\ Round \in Nat /\ Rounds(n) \in Nat
         /\ Rounds(n + 1) = Rounds(n) + Round
  <1>1. Round \in Nat
    BY FS_CardinalityType DEF Round
  <1> QED BY <1>1 DEF Rounds

LEMMA Counts ==
  ASSUME IsFiniteSet(Dispatchers), NEW S \in SUBSET Dispatchers
  PROVE  /\ IsFiniteSet(S) /\ Cardinality(S) \in Nat
         /\ Round \in Nat /\ Cardinality(S) <= Round
  BY FS_Subset, FS_CardinalityType DEF Round

(* One dispatcher comes to a set or leaves it.                             *)
LEMMA Moving ==
  ASSUME IsFiniteSet(Dispatchers), NEW S \in SUBSET Dispatchers,
         NEW T \in SUBSET Dispatchers, NEW d \in Dispatchers, S \ {d} = T \ {d}
  PROVE  /\ (d \in S <=> d \in T) => S = T
         /\ d \in S /\ d \notin T => Cardinality(S) = Cardinality(T) + 1
  <1>1. IsFiniteSet(T)
    BY Counts
  <1>2. (d \in S <=> d \in T) => S = T
    OBVIOUS
  <1>3. ASSUME d \in S, d \notin T PROVE Cardinality(S) = Cardinality(T) + 1
    <2>1. S = T \cup {d}
      BY <1>3
    <2> QED BY <1>1, <1>3, <2>1, FS_AddElement
  <1> QED BY <1>2, <1>3

LEMMA SameRole ==
  ASSUME NEW d, pc'[d] = pc[d], batch'[d] = batch[d], written'[d] = written[d]
  PROVE  \A e : Role(d, e)' = Role(d, e)
  BY SameRow DEF Role

LEMMA SameSets ==
  ASSUME NEW e \in Events, \A d \in Dispatchers : Role(d, e)' = Role(d, e),
         status'[e] = "DISPATCHED" <=> status[e] = "DISPATCHED"
  PROVE  Left(e)' = Left(e) /\ Failed(e)' = Failed(e)
  BY DEF Left, Failed

(* The part of one dispatcher changes.                                     *)
LEMMA OtherSets ==
  ASSUME NEW e \in Events, NEW d \in Dispatchers,
         \A x \in Dispatchers \ {d} : Role(x, e)' = Role(x, e),
         status'[e] = "DISPATCHED" <=> status[e] = "DISPATCHED"
  PROVE  /\ Left(e) \in SUBSET Dispatchers /\ Left(e)' \in SUBSET Dispatchers
         /\ Failed(e) \in SUBSET Dispatchers /\ Failed(e)' \in SUBSET Dispatchers
         /\ Left(e) \ {d} = Left(e)' \ {d} /\ Failed(e) \ {d} = Failed(e)' \ {d}
  <1>1. Left(e) \ {d} = Left(e)' \ {d}
    BY DEF Left
  <1>2. Failed(e) \ {d} = Failed(e)' \ {d}
    BY DEF Failed
  <1> QED BY <1>1, <1>2 DEF Left, Failed

\* The numbers that are counted.
LEMMA Numbers ==
  ASSUME IInv, IsFiniteSet(Dispatchers), NEW e \in Events
  PROVE  /\ Cardinality(Left(e)) \in Nat /\ Cardinality(Failed(e)) \in Nat
         /\ Cardinality(Left(e)') \in Nat /\ Cardinality(Failed(e)') \in Nat
         /\ Cardinality(Left(e)') <= Round
         /\ faults \in Nat /\ broadcasts[e] \in Nat
         /\ Round \in Nat
         /\ Rounds(faults + 1) \in Nat
         /\ Rounds((faults + 1) + 1) = Rounds(faults + 1) + Round
         /\ Rounds(Cardinality(Failed(e))) \in Nat
         /\ Rounds(Cardinality(Failed(e)')) \in Nat
         /\ Rounds(Cardinality(Failed(e)) + 1) = Rounds(Cardinality(Failed(e))) + Round
         /\ Rounds(Cardinality(Failed(e)') + 1) = Rounds(Cardinality(Failed(e)')) + Round
  <1>1. /\ Left(e) \in SUBSET Dispatchers /\ Left(e)' \in SUBSET Dispatchers
        /\ Failed(e) \in SUBSET Dispatchers /\ Failed(e)' \in SUBSET Dispatchers
    BY DEF Left, Failed
  <1>2. /\ Cardinality(Left(e)) \in Nat /\ Cardinality(Failed(e)) \in Nat
        /\ Cardinality(Left(e)') \in Nat /\ Cardinality(Failed(e)') \in Nat
        /\ Cardinality(Left(e)') <= Round
    BY <1>1, Counts
  <1> QED BY <1>2, NextRound, Typed

(* Nobody's part in the event changes, but there may have been a failure.  *)
LEMMA SameCount ==
  ASSUME IInv, IsFiniteSet(Dispatchers), NEW e \in Events, Counted(e),
         Left(e)' = Left(e), Failed(e)' = Failed(e),
         broadcasts'[e] = broadcasts[e],
         faults' \in {faults, faults + 1}
  PROVE  Counted(e)'
  <1>1. /\ Rounds(faults' + 1) \in Nat /\ Rounds(faults + 1) \in Nat
        /\ Rounds(faults + 1) <= Rounds(faults' + 1)
    BY Numbers
  <1> QED BY <1>1, Numbers DEF Counted

LEMMA FindCount ==
  ASSUME IInv, IsFiniteSet(Dispatchers), NEW e \in Events, Counted(e),
         NEW d \in Dispatchers, Find(d)
  PROVE  Counted(e)'
  <1>1. /\ UNCHANGED <<status, broadcasts, faults, written>>
        /\ pc[d] = "idle" /\ pc' = [pc EXCEPT ![d] = "claim"]
    BY DEF Find, Goto, history
  <1>2. PICK B \in SUBSET Pending : batch' = [batch EXCEPT ![d] = B]
    BY DEF Find
  <1>3. /\ pc'[d] = "claim" /\ batch'[d] = B
        /\ \A x \in Dispatchers \ {d} : pc'[x] = pc[x] /\ batch'[x] = batch[x]
    BY <1>1, <1>2 DEF IInv, TypeOK
  <1>4. batch[d] = {} /\ written[d][e] = "NONE"
    BY <1>1 DEF IInv, Selecting, Looping, Locked
  <1>5. \A x \in Dispatchers \ {d} : Role(x, e)' = Role(x, e)
    BY <1>1, <1>3, SameRole
  <1>6. Role(d, e) = "none"
    BY <1>4 DEF Role
  <1>7. Role(d, e)' = "none" \/ (Role(d, e)' = "will" /\ status[e] # "DISPATCHED")
    BY <1>1, <1>3, <1>4 DEF Role, Pending
  <1>8. Left(e)' = Left(e) /\ Failed(e)' = Failed(e)
    BY <1>1, <1>5, <1>6, <1>7 DEF Left, Failed
  <1> QED BY <1>1, <1>8, SameCount

LEMMA ClaimCount ==
  ASSUME IInv, IsFiniteSet(Dispatchers), NEW e \in Events, Counted(e),
         NEW d \in Dispatchers, Claim(d)
  PROVE  Counted(e)'
  <1>1. pc[d] = "claim" /\ Row(d) \in batch[d] /\ Row(d) \in Events /\ Row(d) \in journal
    BY RowInBatch DEF Claim, Looping, IInv
  <1>2. /\ written' = [written EXCEPT ![d][Row(d)] = "PROCESSING"]
        /\ pc' = [pc EXCEPT ![d] = "publish"]
        /\ UNCHANGED <<status, broadcasts, faults, batch>>
    BY <1>1 DEF Claim, Write, Goto, history
  <1>3. /\ pc'[d] = "publish" /\ (e # Row(d) => written'[d][e] = written[d][e])
        /\ \A x \in Dispatchers \ {d} : pc'[x] = pc[x] /\ written'[x] = written[x]
    BY <1>1, <1>2 DEF IInv, TypeOK
  <1>4. \A x \in Dispatchers \ {d} : Role(x, e)' = Role(x, e)
    BY <1>2, <1>3, SameRole
  <1>5. Role(d, e)' = Role(d, e)
    BY <1>1, <1>2, <1>3 DEF Role
  <1> QED BY <1>2, <1>4, <1>5, SameSets, SameCount

LEMMA PublishCount ==
  ASSUME IInv, IsFiniteSet(Dispatchers), NEW e \in Events, Counted(e),
         NEW d \in Dispatchers, Publish(d)
  PROVE  Counted(e)'
  <1>1. pc[d] = "publish" /\ Row(d) \in batch[d] /\ Row(d) \in Events
    BY RowInBatch DEF Publish, Looping, IInv
  <1>2. UNCHANGED <<status, batch, written>> /\ Row(d)' = Row(d)
    BY SameRow DEF Publish
  <1>3. \/ /\ broadcasts' = [broadcasts EXCEPT ![Row(d)] = @ + 1]
           /\ pc' = [pc EXCEPT ![d] = "dispatched"]
           /\ faults' = faults
        \/ /\ \/ broadcasts' = [broadcasts EXCEPT ![Row(d)] = @ + 1]
              \/ broadcasts' = broadcasts
           /\ pc' = [pc EXCEPT ![d] = "reverted"]
           /\ faults' = faults + 1
    BY DEF Publish, Fault, Goto
  <1>4. /\ pc'[d] \in {"dispatched", "reverted"}
        /\ \A x \in Dispatchers \ {d} : pc'[x] = pc[x]
    BY <1>3 DEF IInv, TypeOK
  <1>5. \A x \in Dispatchers \ {d} : Role(x, e)' = Role(x, e)
    BY <1>2, <1>4, SameRole
  <1>6. CASE e # Row(d)
    <2>1. Role(d, e)' = Role(d, e)
      BY <1>1, <1>2, <1>4, <1>6 DEF Role
    <2>2. broadcasts'[e] = broadcasts[e] /\ faults' \in {faults, faults + 1}
      BY <1>3, <1>6 DEF IInv, TypeOK
    <2> QED BY <1>2, <1>5, <2>1, <2>2, SameSets, SameCount
  <1>7. CASE e = Row(d)
    <2>1. Role(d, e) = "will"
      BY <1>1, <1>7 DEF Role
    <2>2. d \in Left(e) /\ d \notin Failed(e)
      <3>1. d \in Left(e)
        BY <2>1 DEF Left
      <3>2. d \notin Failed(e)
        BY <2>1 DEF Failed
      <3> QED BY <3>1, <3>2
    <2>3. /\ Left(e) \in SUBSET Dispatchers /\ Left(e)' \in SUBSET Dispatchers
          /\ Failed(e) \in SUBSET Dispatchers /\ Failed(e)' \in SUBSET Dispatchers
          /\ Left(e) \ {d} = Left(e)' \ {d} /\ Failed(e) \ {d} = Failed(e)' \ {d}
      BY <1>2, <1>5, OtherSets
    <2>4. Role(d, e)' \in {"did", "failed"}
      BY <1>1, <1>2, <1>4, <1>7 DEF Role
    <2>5. d \notin Left(e)'
      BY <2>4 DEF Left
    <2>6. Cardinality(Left(e)) = Cardinality(Left(e)') + 1
      BY <2>2, <2>3, <2>5, Moving
    <2>7. CASE /\ broadcasts' = [broadcasts EXCEPT ![Row(d)] = @ + 1]
               /\ pc' = [pc EXCEPT ![d] = "dispatched"]
               /\ faults' = faults
      <3>1. broadcasts'[e] = broadcasts[e] + 1 /\ pc'[d] = "dispatched"
        BY <1>7, <2>7 DEF IInv, TypeOK
      <3>2. Role(d, e)' = "did"
        BY <1>1, <1>2, <1>7, <3>1 DEF Role
      <3>3. Failed(e)' = Failed(e)
        BY <2>2, <2>3, <3>2 DEF Failed
      <3> QED BY <2>6, <2>7, <3>1, <3>3, Numbers DEF Counted
    <2>8. CASE /\ \/ broadcasts' = [broadcasts EXCEPT ![Row(d)] = @ + 1]
                  \/ broadcasts' = broadcasts
               /\ pc' = [pc EXCEPT ![d] = "reverted"]
               /\ faults' = faults + 1
      <3>1. broadcasts'[e] \in {broadcasts[e], broadcasts[e] + 1} /\ pc'[d] = "reverted"
        BY <1>7, <2>8 DEF IInv, TypeOK
      <3>2. Role(d, e)' = "failed"
        BY <1>1, <1>2, <1>7, <3>1 DEF Role
      <3>3. d \in Failed(e)'
        BY <3>2 DEF Failed
      <3>4. Cardinality(Failed(e)') = Cardinality(Failed(e)) + 1
        BY <2>2, <2>3, <3>3, Moving
      <3>5. Rounds(Cardinality(Failed(e)')) = Rounds(Cardinality(Failed(e))) + Round
        BY <3>4, Numbers
      <3>6. Rounds(faults' + 1) = Rounds(faults + 1) + Round
        BY <2>8, Numbers
      <3> QED BY <2>6, <3>1, <3>5, <3>6, Numbers DEF Counted
    <2> QED BY <1>3, <2>7, <2>8
  <1> QED BY <1>6, <1>7

LEMMA SaveCount ==
  ASSUME IInv, IsFiniteSet(Dispatchers), NEW e \in Events, Counted(e),
         NEW d \in Dispatchers, Save(d)
  PROVE  Counted(e)'
  <1>1. /\ pc[d] \in {"dispatched", "reverted"}
        /\ Row(d) \in batch[d] /\ Row(d) \in Events
    BY RowInBatch DEF Save, Looping, IInv
  <1> DEFINE next == IF batch[d] = {Row(d)} THEN "commit" ELSE "claim"
  <1>2. /\ written' = [written EXCEPT ![d][Row(d)] = Outcome(d)]
        /\ batch' = [batch EXCEPT ![d] = @ \ {Row(d)}]
        /\ pc' = [pc EXCEPT ![d] = next]
        /\ UNCHANGED <<status, broadcasts, faults>>
    BY DEF Save, Write, Goto, history
  <1>3. /\ pc'[d] \in {"commit", "claim"} /\ batch'[d] = batch[d] \ {Row(d)}
        /\ written'[d][Row(d)] = Outcome(d)
        /\ e # Row(d) => written'[d][e] = written[d][e]
        /\ \A x \in Dispatchers \ {d} :
              pc'[x] = pc[x] /\ batch'[x] = batch[x] /\ written'[x] = written[x]
    BY <1>1, <1>2 DEF IInv, TypeOK
  <1>4. \A x \in Dispatchers \ {d} : Role(x, e)' = Role(x, e)
    BY <1>3, SameRole
  <1>5. Role(d, e)' = Role(d, e)
    <2>1. CASE e # Row(d)
      BY <1>3, <2>1 DEF Role
    <2>2. CASE e = Row(d) /\ pc[d] = "dispatched"
      <3>1. Role(d, e) = "did" /\ e \notin batch'[d] /\ written'[d][e] = "DISPATCHED"
        BY <1>1, <1>3, <2>2 DEF Role, Outcome
      <3> QED BY <3>1 DEF Role
    <2>3. CASE e = Row(d) /\ pc[d] = "reverted"
      <3>1. Role(d, e) = "failed" /\ e \notin batch'[d] /\ written'[d][e] = "PENDING"
        BY <1>1, <1>3, <2>3 DEF Role, Outcome
      <3> QED BY <3>1 DEF Role
    <2> QED BY <1>1, <2>1, <2>2, <2>3
  <1> QED BY <1>2, <1>4, <1>5, SameSets, SameCount

(* After its transaction a dispatcher has no part in any event.            *)
LEMMA EndedRole ==
  ASSUME IInv, NEW e \in Events, NEW d \in Dispatchers, End(d)
  PROVE  /\ Role(d, e)' = "none"
         /\ \A x \in Dispatchers \ {d} : Role(x, e)' = Role(x, e)
  <1>1. batch'[d] = {} /\ Locked(d)' = {}
    BY Ended
  <1>2. written'[d][e] = "NONE"
    BY <1>1 DEF Locked
  <1>3. \A x \in Dispatchers \ {d} : Role(x, e)' = Role(x, e)
    BY Ended, SameRole
  <1> QED BY <1>1, <1>2, <1>3 DEF Role

LEMMA CommitCount ==
  ASSUME IInv, IsFiniteSet(Dispatchers), NEW e \in Events, Counted(e),
         NEW d \in Dispatchers, Commit(d)
  PROVE  Counted(e)'
  <1>1. /\ pc[d] = "commit" /\ End(d) /\ UNCHANGED <<broadcasts, faults>>
        /\ status'[e] = IF e \in Locked(d) THEN written[d][e] ELSE status[e]
    BY DEF Commit, history
  <1>2. /\ Role(d, e)' = "none"
        /\ \A x \in Dispatchers \ {d} : Role(x, e)' = Role(x, e)
    BY <1>1, EndedRole
  <1>3. batch[d] = {}
    BY <1>1 DEF IInv, Selecting, Looping
  <1>4. CASE e \notin Locked(d)
    <2>1. Role(d, e) = "none" /\ status'[e] = status[e]
      BY <1>1, <1>3, <1>4 DEF Role, Locked
    <2> QED BY <1>1, <1>2, <2>1, SameSets, SameCount
  <1>5. CASE e \in Locked(d) /\ written[d][e] = "DISPATCHED"
    <2>1. Role(d, e) = "did" /\ status'[e] = "DISPATCHED"
      BY <1>1, <1>3, <1>5 DEF Role
    <2>2. Left(e)' \subseteq Left(e) /\ Failed(e)' = Failed(e)
      <3>1. Left(e)' \subseteq Left(e)
        BY <1>2, <2>1 DEF Left
      <3>2. Failed(e)' = Failed(e)
        BY <1>2, <2>1 DEF Failed
      <3> QED BY <3>1, <3>2
    <2>3. Left(e) \in SUBSET Dispatchers
      BY DEF Left
    <2>4. Cardinality(Left(e)') <= Cardinality(Left(e))
      BY <2>2, <2>3, Counts, FS_Subset
    <2>5. Cardinality(Failed(e)') = Cardinality(Failed(e))
      BY <2>2
    <2>6. UNCHANGED <<broadcasts, faults>>
      BY <1>1
    <2> QED BY <2>4, <2>5, <2>6, Numbers DEF Counted
  <1>6. CASE e \in Locked(d) /\ written[d][e] = "PENDING"
    <2>1. Role(d, e) = "failed"
      BY <1>3, <1>6 DEF Role
    <2>2. /\ Failed(e) \in SUBSET Dispatchers /\ Failed(e)' \in SUBSET Dispatchers
          /\ d \in Failed(e) /\ d \notin Failed(e)'
          /\ Failed(e) \ {d} = Failed(e)' \ {d}
      BY <1>2, <2>1 DEF Failed
    <2>3. Cardinality(Failed(e)) = Cardinality(Failed(e)') + 1
      BY <2>2, Moving
    <2>4. Rounds(Cardinality(Failed(e))) = Rounds(Cardinality(Failed(e)')) + Round
      BY <2>3, Numbers
    <2>5. UNCHANGED <<broadcasts, faults>>
      BY <1>1
    <2> QED BY <2>4, <2>5, Numbers DEF Counted
  <1>7. e \in Locked(d) => written[d][e] \in {"DISPATCHED", "PENDING"}
    BY <1>1 DEF IInv, Writing, Coherent, AtRow, Settled
  <1> QED BY <1>4, <1>5, <1>6, <1>7

LEMMA RollbackCount ==
  ASSUME IInv, IsFiniteSet(Dispatchers), NEW e \in Events, Counted(e),
         NEW d \in Dispatchers, Rollback(d)
  PROVE  Counted(e)'
  <1>1. End(d) /\ UNCHANGED <<status, broadcasts>> /\ faults' = faults + 1
    BY DEF Rollback, Fault
  <1>2. /\ Role(d, e)' = "none"
        /\ \A x \in Dispatchers \ {d} : Role(x, e)' = Role(x, e)
    BY <1>1, EndedRole
  <1>3. /\ Left(e) \in SUBSET Dispatchers /\ Left(e)' \in SUBSET Dispatchers
        /\ Failed(e) \in SUBSET Dispatchers /\ Failed(e)' \in SUBSET Dispatchers
        /\ Left(e) \ {d} = Left(e)' \ {d}
        /\ Failed(e)' \subseteq Failed(e)
    <2>1. Failed(e)' \subseteq Failed(e)
      BY <1>2 DEF Failed
    <2> QED BY <1>1, <1>2, <2>1, OtherSets
  <1>4. Cardinality(Left(e)') <= Cardinality(Left(e)) + Round
    BY <1>1, Numbers
  <1>5. Rounds(Cardinality(Failed(e)')) <= Rounds(Cardinality(Failed(e)))
    <2>1. CASE d \in Failed(e)
      <3>1. d \notin Failed(e)'
        BY <1>2 DEF Failed
      <3>2. Failed(e) \ {d} = Failed(e)' \ {d}
        BY <1>1, <1>2, OtherSets
      <3>3. Cardinality(Failed(e)) = Cardinality(Failed(e)') + 1
        BY <1>3, <2>1, <3>1, <3>2, Moving
      <3> QED BY <3>3, Numbers
    <2>2. CASE d \notin Failed(e)
      <3>1. Failed(e)' = Failed(e)
        BY <1>2, <2>2 DEF Failed
      <3> QED BY <3>1, Numbers
    <2> QED BY <2>1, <2>2
  <1>6. Rounds(faults' + 1) = Rounds(faults + 1) + Round
    BY <1>1, Numbers
  <1> QED BY <1>1, <1>4, <1>5, <1>6, Numbers DEF Counted

LEMMA StepCount ==
  ASSUME IInv, IsFiniteSet(Dispatchers), NEW e \in Events, Counted(e), [Next]_vars
  PROVE  Counted(e)'
  <1>1. CASE UNCHANGED vars \/ \E f \in Events : Journal(f) \/ Register(f)
    <2>1. UNCHANGED <<broadcasts, faults, pc, batch, written>>
      BY <1>1 DEF vars, history, dispatcher, Journal, Register
    <2>2. status'[e] = "DISPATCHED" <=> status[e] = "DISPATCHED"
      BY <1>1 DEF vars, Journal, Register, IInv, TypeOK
    <2>3. \A d \in Dispatchers : Role(d, e)' = Role(d, e)
      BY <2>1, SameRole
    <2> QED BY <2>1, <2>2, <2>3, SameSets, SameCount
  <1>2. ASSUME NEW d \in Dispatchers, Dispatch(d) \/ Rollback(d)
        PROVE  Counted(e)'
    BY <1>2, FindCount, ClaimCount, PublishCount, SaveCount, CommitCount,
       RollbackCount DEF Dispatch
  <1> QED BY <1>1, <1>2 DEF Next

(* DuplicatesAreBounded: while nothing fails the bus gets an event once    *)
(* from each dispatcher at most, and each failure adds one such round.     *)
THEOREM FewDuplicates ==
  ASSUME IsFiniteSet(Dispatchers)
  PROVE  Spec => []DuplicatesAreBounded
  <1> DEFINE All == \A e \in Events : Counted(e)
  <1>1. Init => All
    <2> SUFFICES ASSUME Init, NEW e \in Events PROVE Counted(e)
      OBVIOUS
    <2>1. faults = 0 /\ broadcasts[e] = 0 /\ status[e] = "NONE"
      BY DEF Init
    <2>2. \A d \in Dispatchers : Role(d, e) = "none"
      BY DEF Init, Role, Nothing
    <2>3. Left(e) = Dispatchers /\ Failed(e) = {}
      BY <2>1, <2>2 DEF Left, Failed
    <2>4. Round \in Nat /\ Rounds(0) = 0 /\ Rounds(0 + 1) = Round
      BY NextRound DEF Rounds
    <2> QED BY <2>1, <2>3, <2>4, FS_EmptySet DEF Counted, Round
  <1>2. IInv /\ All /\ [Next]_vars => All'
    BY StepCount
  <1>3. IInv /\ All => DuplicatesAreBounded
    <2> SUFFICES ASSUME IInv, All, NEW e \in Events
                 PROVE  broadcasts[e] <= Round * (1 + faults)
      BY DEF DuplicatesAreBounded, Round
    <2>1. broadcasts[e] <= Rounds(faults + 1)
      BY Numbers DEF Counted
    <2>2. Rounds(faults + 1) = Round * (1 + faults)
      BY Numbers DEF Rounds
    <2> QED BY <2>1, <2>2
  <1> QED BY <1>1, <1>2, <1>3, Invariance, PTL DEF Spec
=============================================================================
