----------------------------- MODULE ReactionWorker -----------------------------
(***************************************************************************)
(* DurableReactionWorker.processNextPendingDelivery of the auth context,   *)
(* run by any number of processes over domain_reaction_deliveries.         *)
(*                                                                         *)
(* A call is one transaction.  Its SELECT ... FOR UPDATE has an order but  *)
(* no LIMIT: it locks every due row, and takes the first.  The reaction's  *)
(* executor writes in the same transaction, so that the effect and its     *)
(* bookkeeping commit together; an error of JavaScript is caught and       *)
(* recorded beside whatever the executor wrote before it, an error of SQL  *)
(* has aborted the transaction and takes the record of it along.           *)
(***************************************************************************)
EXTENDS Naturals, FiniteSets

CONSTANTS Deliveries,    \* rows: an event and a reaction to it
          Unknown,       \* those for whose reaction there is no executor
          Poisoned,      \* those whose executor's SQL always fails
          Workers,       \* processes that run the worker
          MaxAttempts,   \* maxAttempts (5)
          MaxFaults      \* bound: passing failures in a behaviour

ASSUME ReactionWorkerAssumption ==
    /\ Unknown \subseteq Deliveries
    /\ Poisoned \subseteq Deliveries
    /\ MaxAttempts \in Nat \ {0}
    /\ MaxFaults \in Nat

VARIABLES
    delivery,   \* domain_reaction_deliveries
    due,        \* the waiting rows with available_at <= now
    order,      \* available_at, of the rows that are or were due
    clock,      \* the latest available_at that has come
    effects,    \* how many times writes of the executor were committed
    faults,     \* how many failures have passed
    pc,         \* the next statement of each worker
    locked,     \* the rows its transaction has locked
    job,        \* the row it works on
    wrote       \* has the executor written in the open transaction?

table == <<delivery, due, order, clock, effects>>
worker == <<pc, locked, job, wrote>>
vars == <<table, faults, worker>>

Statuses == {"PENDING", "RETRY", "SUCCEEDED", "DEAD"}
DeliveryRow == [status: Statuses, attempts: Nat]
NoRow == [status |-> "NONE", attempts |-> 0]
NoJob == {}

Fault == /\ faults < MaxFaults
         /\ faults' = faults + 1

----------------------------------------------------------------------------

\* EventPersistenceHelper: available_at is when the event occurred, which
\* may be earlier than that of rows that are already due.
Register(d) ==
    /\ delivery[d] = NoRow
    /\ delivery' = [delivery EXCEPT ![d] = [status |-> "PENDING", attempts |-> 0]]
    /\ due' = due \cup {d}
    /\ clock' = clock + 1
    /\ \E t \in {0, clock + 1} : order' = [order EXCEPT ![d] = t]
    /\ UNCHANGED <<effects, faults, worker>>

\* The backoff of a row is over.
Elapse(d) ==
    /\ delivery[d].status = "RETRY"
    /\ d \notin due
    /\ due' = due \cup {d}
    /\ clock' = clock + 1
    /\ order' = [order EXCEPT ![d] = clock + 1]
    /\ UNCHANGED <<delivery, effects, faults, worker>>

----------------------------------------------------------------------------

Goto(w, l) == pc' = [pc EXCEPT ![w] = l]

\* The first row in the order of available_at.
First(d) == d \in due /\ \A x \in due : order[d] <= order[x]

\* Variant: no row is locked.
Claim_NoLock(w) ==
    /\ pc[w] = "idle"
    /\ \E d \in due :
          /\ First(d)
          /\ job' = [job EXCEPT ![w] = d]
          /\ Goto(w, IF d \in Unknown THEN "dead" ELSE "execute")
    /\ UNCHANGED <<table, faults, locked, wrote>>

\* A lock another transaction holds is waited for, and the row is checked
\* against the WHERE again.  The UPDATE to PROCESSING, which nobody sees,
\* and the reading of the journal and of the executors are part of the step.
Claim(w) ==
    /\ pc[w] = "idle"
    /\ \A x \in Workers : locked[x] \cap due = {}
    /\ \E d \in due :
          /\ First(d)
          /\ job' = [job EXCEPT ![w] = d]
          /\ Goto(w, IF d \in Unknown THEN "dead" ELSE "execute")
    /\ locked' = [locked EXCEPT ![w] = due]
    /\ UNCHANGED <<table, faults, wrote>>

\* The executor finishes its writes; or throws, before a write or after.
Execute(w) ==
    /\ pc[w] = "execute"
    /\ job[w] \notin Poisoned
    /\ \/ /\ wrote' = [wrote EXCEPT ![w] = TRUE]
          /\ Goto(w, "succeeded")
          /\ UNCHANGED faults
       \/ /\ Fault
          /\ \E b \in BOOLEAN : wrote' = [wrote EXCEPT ![w] = b]
          /\ Goto(w, "failed")
    /\ UNCHANGED <<table, locked, job>>

End(w) == /\ Goto(w, "idle")
          /\ locked' = [locked EXCEPT ![w] = {}]
          /\ job' = [job EXCEPT ![w] = NoJob]
          /\ wrote' = [wrote EXCEPT ![w] = FALSE]

\* Is there an attempt left after this one?
Retries(w) == delivery[job[w]].attempts + 1 < MaxAttempts

\* Variant: a failed row keeps the status PROCESSING.
Outcome_Kept(w) ==
    [status |-> CASE pc[w] = "succeeded" -> "SUCCEEDED"
                  [] pc[w] = "failed" /\ Retries(w) -> "PROCESSING"
                  [] OTHER -> "DEAD",
     attempts |-> delivery[job[w]].attempts + 1]

\* The row as the call leaves it: done, DEAD for want of an executor, RETRY
\* with a backoff, or DEAD after the last attempt.
Outcome(w) ==
    [status |-> CASE pc[w] = "succeeded" -> "SUCCEEDED"
                  [] pc[w] = "failed" /\ Retries(w) -> "RETRY"
                  [] OTHER -> "DEAD",
     attempts |-> delivery[job[w]].attempts + 1]

\* The last save, and COMMIT.
Commit(w) ==
    /\ pc[w] \in {"dead", "succeeded", "failed"}
    /\ delivery' = [delivery EXCEPT ![job[w]] = Outcome(w)]
    /\ due' = due \ {job[w]}
    /\ effects' = [effects EXCEPT ![job[w]] = IF wrote[w] THEN @ + 1 ELSE @]
    /\ End(w)
    /\ UNCHANGED <<order, clock, faults>>

\* Variant: the executor writes with a connection of its own.
Rollback_Outside(w) ==
    /\ pc[w] # "idle"
    /\ effects' = [effects EXCEPT ![job[w]] = IF wrote[w] THEN @ + 1 ELSE @]
    /\ Fault
    /\ End(w)
    /\ UNCHANGED <<delivery, due, order, clock>>

\* A statement fails, the executor's or one of the worker's own, or the
\* process dies.  After a failed statement the catch block's save fails as
\* well, and the attempt is not counted.
Rollback(w) ==
    /\ pc[w] # "idle"
    /\ \/ Fault
       \/ pc[w] = "execute" /\ job[w] \in Poisoned /\ UNCHANGED faults
    /\ End(w)
    /\ UNCHANGED table

----------------------------------------------------------------------------

Work(w) == Claim(w) \/ Execute(w) \/ Commit(w)

Init ==
    /\ delivery = [d \in Deliveries |-> NoRow]
    /\ due = {}
    /\ order = [d \in Deliveries |-> 0]
    /\ clock = 0
    /\ effects = [d \in Deliveries |-> 0]
    /\ faults = 0
    /\ pc = [w \in Workers |-> "idle"]
    /\ locked = [w \in Workers |-> {}]
    /\ job = [w \in Workers |-> NoJob]
    /\ wrote = [w \in Workers |-> FALSE]

Next == \/ \E d \in Deliveries : Register(d) \/ Elapse(d)
        \/ \E w \in Workers : Work(w) \/ Rollback(w)

Spec == Init /\ [][Next]_vars

\* Time passes; PostgreSQL grants a lock that is free; a call goes on until
\* it ends; and whoever runs the workers calls them again and again.
FairSpec == /\ Spec
            /\ \A d \in Deliveries : WF_vars(Elapse(d))
            /\ \A w \in Workers : WF_vars(Work(w) \/ Rollback(w))
----------------------------------------------------------------------------

(* The table, the counters and every worker's memory hold values of their  *)
(* types.                                                                  *)
TypeOK ==
    /\ delivery \in [Deliveries -> DeliveryRow \cup {NoRow}]
    /\ due \subseteq Deliveries
    /\ order \in [Deliveries -> Nat]
    /\ clock \in Nat
    /\ effects \in [Deliveries -> Nat]
    /\ faults \in 0 .. MaxFaults
    /\ pc \in [Workers -> {"idle", "execute", "dead", "succeeded", "failed"}]
    /\ locked \in [Workers -> SUBSET Deliveries]
    /\ job \in [Workers -> Deliveries \cup {NoJob}]
    /\ wrote \in [Workers -> BOOLEAN]

(* A reaction that has succeeded is over: no worker that waited for its    *)
(* row, or died with it, makes its effect happen again.                    *)
SucceededIsFinal ==
    [][\A d \in Deliveries :
          delivery[d].status = "SUCCEEDED" =>
             delivery'[d] = delivery[d] /\ effects'[d] = effects[d]]_vars

(* An effect exists only together with the record of the attempt that made *)
(* it (durable-reaction-worker.ts:79), whichever statement fails in        *)
(* between, and a success only together with its effect.                   *)
EffectsAreRecorded ==
    \A d \in Deliveries :
       /\ effects[d] <= delivery[d].attempts
       /\ delivery[d].status = "SUCCEEDED" => effects[d] > 0

(* The count of a row suits its status: a row that waits has an attempt    *)
(* left, and a row that was given up has used them all, or had no executor.*)
RetriesAreUsable ==
    \A d \in Deliveries :
       CASE delivery[d].status = "RETRY" -> delivery[d].attempts \in 1 .. MaxAttempts - 1
         [] delivery[d].status = "DEAD" ->
               delivery[d].attempts = IF d \in Unknown THEN 1 ELSE MaxAttempts
         [] delivery[d].status = "SUCCEEDED" -> delivery[d].attempts \in 1 .. MaxAttempts
         [] OTHER -> delivery[d].attempts = 0

(* The worker "independently claims and retries exactly that failed row"   *)
(* (ADR-005): when failures stop, every delivery is done or given up,      *)
(* whatever goes wrong with other rows.                                    *)
IndependentlySettled ==
    \A d \in Deliveries \ Poisoned :
       <>[](delivery[d].status \in {"NONE", "SUCCEEDED", "DEAD"})
=============================================================================
