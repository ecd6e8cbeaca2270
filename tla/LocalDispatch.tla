----------------------------- MODULE LocalDispatch -----------------------------
(***************************************************************************)
(* LocalEventDispatcher.dispatchPendingEvents of the tenancy and the auth  *)
(* context (the two classes are the same), run by any number of processes  *)
(* over the local_event_dispatches table.                                  *)
(*                                                                         *)
(* A call is one READ COMMITTED transaction.  It selects the oldest        *)
(* PENDING rows without locking them and then takes them one by one:       *)
(* UPDATE to PROCESSING, publication on the in-process EventBus, UPDATE to *)
(* DISPATCHED, or to PENDING if the bus threw.  Each UPDATE locks its row  *)
(* until the transaction ends, and nobody sees any of them before.         *)
(***************************************************************************)
EXTENDS Naturals, FiniteSets

CONSTANTS Events,        \* domain events, numbered in the order of available_at
          Dispatchers,   \* processes that run the dispatcher
          BatchSize,     \* take (10)
          MaxFaults      \* bound: failures in a behaviour

ASSUME LocalDispatchAssumption ==
    /\ Events \subseteq Nat
    /\ BatchSize \in Nat \ {0}
    /\ MaxFaults \in Nat

VARIABLES
    journal,      \* domain_event_journal
    status,       \* local_event_dispatches.status; "NONE" while there is no row
    broadcasts,   \* how many times the bus has got the event
    faults,       \* how many failures there were
    pc,           \* the next statement of each dispatcher
    batch,        \* the selected rows it has not finished
    written       \* what its open transaction has made of the rows it locked

history == <<broadcasts, faults>>
dispatcher == <<pc, batch, written>>
vars == <<journal, status, history, dispatcher>>

Statuses == {"NONE", "PENDING", "PROCESSING", "DISPATCHED", "DEAD"}

Locked(d) == {e \in Events : written[d][e] # "NONE"}
Nothing == [e \in Events |-> "NONE"]

Fault == /\ faults < MaxFaults
         /\ faults' = faults + 1

----------------------------------------------------------------------------
(* EventPersistenceHelper: the journal's row and the dispatch's, in order. *)

Journal(e) ==
    /\ e \notin journal
    /\ journal' = journal \cup {e}
    /\ UNCHANGED <<status, history, dispatcher>>

\* Variant: the dispatch's row is saved first.
Register_First(e) ==
    /\ status[e] = "NONE"
    /\ status' = [status EXCEPT ![e] = "PENDING"]
    /\ UNCHANGED <<journal, history, dispatcher>>

Register(e) ==
    /\ e \in journal
    /\ status[e] = "NONE"
    /\ status' = [status EXCEPT ![e] = "PENDING"]
    /\ UNCHANGED <<journal, history, dispatcher>>

----------------------------------------------------------------------------

Pending == {e \in Events : status[e] = "PENDING"}

\* The first BatchSize rows in the order of available_at.
Oldest(B) == /\ B \subseteq Pending
             /\ \A e \in B, f \in Pending \ B : e < f
             /\ IF Cardinality(Pending) <= BatchSize THEN B = Pending
                ELSE Cardinality(B) = BatchSize

Find(d) ==
    /\ pc[d] = "idle"
    /\ Pending # {}
    /\ \E B \in SUBSET Pending :
          Oldest(B) /\ batch' = [batch EXCEPT ![d] = B]
    /\ pc' = [pc EXCEPT ![d] = "claim"]
    /\ UNCHANGED <<journal, status, history, written>>

\* The row the loop is at.
Row(d) == CHOOSE e \in batch[d] : \A f \in batch[d] : e <= f

\* An UPDATE of the transaction.
Write(d, s) == written' = [written EXCEPT ![d][Row(d)] = s]

Goto(d, l) == pc' = [pc EXCEPT ![d] = l]

\* Variant: there is no transaction, each UPDATE commits by itself.
Claim_Autocommit(d) ==
    /\ pc[d] = "claim"
    /\ Write(d, "PROCESSING")
    /\ status' = [status EXCEPT ![Row(d)] = "PROCESSING"]
    /\ Goto(d, "publish")
    /\ UNCHANGED <<journal, history, batch>>

\* The UPDATE to PROCESSING waits for the lock of the row, and then takes
\* effect whatever the status has become; the journal is read next.
Claim(d) ==
    /\ pc[d] = "claim"
    /\ \A x \in Dispatchers \ {d} : Row(d) \notin Locked(x)
    /\ IF Row(d) \in journal
       THEN Write(d, "PROCESSING") /\ Goto(d, "publish") /\ UNCHANGED batch
       ELSE /\ Write(d, "DEAD")
            /\ batch' = [batch EXCEPT ![d] = @ \ {Row(d)}]
            /\ Goto(d, IF batch[d] = {Row(d)} THEN "commit" ELSE "claim")
    /\ UNCHANGED <<journal, status, history>>

\* Variant: the error of the bus is logged and otherwise ignored.
Publish_Swallow(d) ==
    /\ pc[d] = "publish"
    /\ \/ broadcasts' = [broadcasts EXCEPT ![Row(d)] = @ + 1] /\ UNCHANGED faults
       \/ Fault /\ UNCHANGED broadcasts
    /\ Goto(d, "dispatched")
    /\ UNCHANGED <<journal, status, batch, written>>

\* The bus takes the event; or throws, after some handlers had it or none.
Publish(d) ==
    /\ pc[d] = "publish"
    /\ LET broadcast == broadcasts' = [broadcasts EXCEPT ![Row(d)] = @ + 1]
       IN \/ broadcast /\ Goto(d, "dispatched") /\ UNCHANGED faults
          \/ Fault /\ (broadcast \/ UNCHANGED broadcasts) /\ Goto(d, "reverted")
    /\ UNCHANGED <<journal, status, batch, written>>

\* Variant: the row of a failed publication is left as it is.
Outcome_Keep(d) == IF pc[d] = "dispatched" THEN "DISPATCHED" ELSE "PROCESSING"

\* Variant: the row goes back to PENDING in any case.
Outcome_Revert(d) == "PENDING"

\* What the last save of an iteration writes.
Outcome(d) == IF pc[d] = "dispatched" THEN "DISPATCHED" ELSE "PENDING"

Save(d) ==
    /\ pc[d] \in {"dispatched", "reverted"}
    /\ Write(d, Outcome(d))
    /\ batch' = [batch EXCEPT ![d] = @ \ {Row(d)}]
    /\ Goto(d, IF batch[d] = {Row(d)} THEN "commit" ELSE "claim")
    /\ UNCHANGED <<journal, status, history>>

End(d) == /\ written' = [written EXCEPT ![d] = Nothing]
          /\ batch' = [batch EXCEPT ![d] = {}]
          /\ Goto(d, "idle")

Commit(d) ==
    /\ pc[d] = "commit"
    /\ status' = [e \in Events |->
                     IF e \in Locked(d) THEN written[d][e] ELSE status[e]]
    /\ End(d)
    /\ UNCHANGED <<journal, history>>

\* A statement fails (also in the catch block, for a failed statement has
\* aborted the transaction), or the process dies: everything is undone, the
\* marks of events the bus has already got among it.
Rollback(d) ==
    /\ pc[d] # "idle"
    /\ Fault
    /\ End(d)
    /\ UNCHANGED <<journal, status, broadcasts>>

----------------------------------------------------------------------------

Dispatch(d) == Find(d) \/ Claim(d) \/ Publish(d) \/ Save(d) \/ Commit(d)

Init ==
    /\ journal = {}
    /\ status = [e \in Events |-> "NONE"]
    /\ broadcasts = [e \in Events |-> 0]
    /\ faults = 0
    /\ pc = [d \in Dispatchers |-> "idle"]
    /\ batch = [d \in Dispatchers |-> {}]
    /\ written = [d \in Dispatchers |-> Nothing]

Next == \/ \E e \in Events : Journal(e) \/ Register(e)
        \/ \E d \in Dispatchers : Dispatch(d) \/ Rollback(d)

Spec == Init /\ [][Next]_vars

\* PostgreSQL grants a lock that is free, Node resumes a call that has been
\* answered, and whoever runs the dispatchers calls them again and again.
FairSpec == Spec /\ \A d \in Dispatchers : WF_vars(Dispatch(d))

----------------------------------------------------------------------------

(* The tables, the counters and every dispatcher's memory hold values of   *)
(* their types.                                                            *)
TypeOK ==
    /\ journal \subseteq Events
    /\ status \in [Events -> Statuses]
    /\ broadcasts \in [Events -> Nat]
    /\ faults \in 0 .. MaxFaults
    /\ pc \in [Dispatchers -> {"idle", "claim", "publish", "dispatched",
                               "reverted", "commit"}]
    /\ batch \in [Dispatchers -> SUBSET Events]
    /\ written \in [Dispatchers -> [Events -> Statuses]]

(* A dispatch is never stuck: no row is left PROCESSING by a call that     *)
(* died, and none is given up for an event the journal does not hold.      *)
NothingStranded ==
    \A e \in Events : status[e] \in {"NONE", "PENDING", "DISPATCHED"}

(* A row says DISPATCHED only if the bus has got the event.                *)
DispatchedWasBroadcast ==
    \A e \in Events : status[e] = "DISPATCHED" => broadcasts[e] > 0

(* While nothing fails, a dispatched event stays so, although a second     *)
(* dispatcher that had selected its row before publishes it again.         *)
DispatchedIsFinal ==
    [][\A e \in Events :
          status[e] = "DISPATCHED" /\ faults' = 0 => status'[e] = "DISPATCHED"]_vars

(* The repetitions of an event are bounded: each dispatcher that selected  *)
(* the row while it was PENDING publishes it, and a failure makes them     *)
(* start over.                                                             *)
DuplicatesAreBounded ==
    \A e \in Events :
       broadcasts[e] <= Cardinality(Dispatchers) * (1 + faults)

(* When nothing fails any more, every event with a dispatch row reaches    *)
(* the bus and its row rests at DISPATCHED.                                *)
EventuallyDispatched ==
    \A e \in Events : <>[](status[e] \in {"NONE", "DISPATCHED"})
=============================================================================
