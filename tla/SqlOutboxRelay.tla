---------------------------- MODULE SqlOutboxRelay ----------------------------
(***************************************************************************)
(* OutboxRelayService.relayPendingMessages of the tenancy context, run by  *)
(* any number of processes over the integration_outbox table.              *)
(*                                                                         *)
(* A call claims a batch in one short transaction (SELECT ... FOR UPDATE,  *)
(* then PROCESSING and one more attempt), and afterwards, with no          *)
(* transaction open, publishes each claimed row to SNS and updates the row *)
(* to PUBLISHED, RETRY or DEAD.  The loop works on the rows as they were   *)
(* claimed.  Any call to SNS or to the database may fail after it took     *)
(* effect: the relay then sees an error.                                   *)
(***************************************************************************)
EXTENDS Naturals, FiniteSets

CONSTANTS Messages,      \* outbox rows: one per activation event
          Relays,        \* processes that run the relay
          MaxAttempts,   \* maxAttempts (5)
          BatchSize,     \* take(10)
          CanCrash,      \* may a process die between two statements?
          DbCanFail      \* may an UPDATE outside the claim fail?

ASSUME SqlOutboxRelayAssumption ==
    /\ MaxAttempts \in Nat \ {0}
    /\ BatchSize \in Nat \ {0}
    /\ CanCrash \in BOOLEAN
    /\ DbCanFail \in BOOLEAN

VARIABLES
    status,     \* integration_outbox.status; "NONE" while there is no row
    attempts,   \* integration_outbox.attempt_count
    sends,      \* how many times SNS has accepted the message
    pc,         \* the next statement of each relay
    batch,      \* the claimed items a relay has not finished
    current     \* the item whose outcome is being recorded

rows == <<status, attempts>>
vars == <<rows, sends, pc, batch, current>>

Statuses == {"NONE", "PENDING", "PROCESSING", "PUBLISHED", "RETRY", "DEAD"}

\* A claimed entity, with the attempt count it has in memory.
Item == [id: Messages, attempts: Nat]
NoItem == [id |-> {}, attempts |-> 0]

Held(r) == {i.id : i \in batch[r]}

----------------------------------------------------------------------------

\* EventPersistenceHelper saves the row (see SaveOutbox of TenancyCommands).
Insert(m) ==
    /\ status[m] = "NONE"
    /\ status' = [status EXCEPT ![m] = "PENDING"]
    /\ UNCHANGED <<attempts, sends, pc, batch, current>>

\* Variant: a row a dead relay left in PROCESSING is taken up at once.
Claimable_Reclaim(m) ==
    /\ status[m] \in {"PENDING", "RETRY", "PROCESSING"}
    /\ attempts[m] < MaxAttempts

\* Variant: the query's limit is one attempt short of the catch block's.
Claimable_Short(m) == /\ status[m] \in {"PENDING", "RETRY"}
                      /\ attempts[m] + 1 < MaxAttempts

Claimable(m) == /\ status[m] \in {"PENDING", "RETRY"}
                /\ attempts[m] < MaxAttempts

\* Variant: the attempt is counted in memory and not saved.
Claim_Uncounted(r) ==
    /\ pc[r] = "idle"
    /\ \E B \in SUBSET {m \in Messages : Claimable(m)} :
          /\ B # {}
          /\ Cardinality(B) <= BatchSize
          /\ status' = [m \in Messages |->
                           IF m \in B THEN "PROCESSING" ELSE status[m]]
          /\ batch' = [batch EXCEPT ![r] =
                          {[id |-> m, attempts |-> attempts[m] + 1] : m \in B}]
    /\ pc' = [pc EXCEPT ![r] = "send"]
    /\ UNCHANGED <<attempts, sends, current>>

\* The query has no order: any rows that match may be the first ten.  The
\* row locks make the claim one step; a row another claim held is checked
\* against the WHERE again once the lock is free, and skipped.
Claim(r) ==
    /\ pc[r] = "idle"
    /\ \E B \in SUBSET {m \in Messages : Claimable(m)} :
          /\ B # {}
          /\ Cardinality(B) <= BatchSize
          /\ status' = [m \in Messages |->
                           IF m \in B THEN "PROCESSING" ELSE status[m]]
          /\ attempts' = [m \in Messages |->
                           IF m \in B THEN attempts[m] + 1 ELSE attempts[m]]
          /\ batch' = [batch EXCEPT ![r] =
                          {[id |-> m, attempts |-> attempts[m] + 1] : m \in B}]
    /\ pc' = [pc EXCEPT ![r] = "send"]
    /\ UNCHANGED <<sends, current>>

----------------------------------------------------------------------------

\* Variant: an error of SNS is logged and otherwise ignored.
Send_Swallow(r) ==
    /\ pc[r] = "send"
    /\ \E i \in batch[r] :
          /\ current' = [current EXCEPT ![r] = i]
          /\ \/ sends' = [sends EXCEPT ![i.id] = @ + 1]
             \/ UNCHANGED sends
    /\ pc' = [pc EXCEPT ![r] = "sent"]
    /\ UNCHANGED <<rows, batch>>

\* SNS accepts the message and says so; or accepts it and the answer is
\* lost; or does not accept it.
Send(r) ==
    /\ pc[r] = "send"
    /\ \E i \in batch[r] :
          /\ current' = [current EXCEPT ![r] = i]
          /\ \/ /\ sends' = [sends EXCEPT ![i.id] = @ + 1]
                /\ \E l \in {"sent", "failed"} : pc' = [pc EXCEPT ![r] = l]
             \/ /\ UNCHANGED sends
                /\ pc' = [pc EXCEPT ![r] = "failed"]
    /\ UNCHANGED <<rows, batch>>

\* UPDATE ... WHERE message_id = the current item's.
Mark(r, s) == status' = [status EXCEPT ![current[r].id] = s]

\* The loop goes on to the next item of the batch, if there is one.
NextItem(r) ==
    /\ batch' = [batch EXCEPT ![r] = @ \ {current[r]}]
    /\ current' = [current EXCEPT ![r] = NoItem]
    /\ pc' = [pc EXCEPT ![r] = IF batch[r] = {current[r]} THEN "idle" ELSE "send"]

\* The call ends with the rest of its batch unsettled.
Abandon(r) == /\ batch' = [batch EXCEPT ![r] = {}]
              /\ current' = [current EXCEPT ![r] = NoItem]
              /\ pc' = [pc EXCEPT ![r] = "idle"]

MarkPublished(r) ==
    /\ pc[r] = "sent"
    /\ \/ Mark(r, "PUBLISHED") /\ NextItem(r)
       \/ /\ DbCanFail
          /\ Mark(r, "PUBLISHED") \/ UNCHANGED status
          /\ pc' = [pc EXCEPT ![r] = "failed"]
          /\ UNCHANGED <<batch, current>>
    /\ UNCHANGED <<attempts, sends>>

\* Variant: one attempt too many is granted.
NextStatus_OffByOne(i) == IF i.attempts > MaxAttempts THEN "DEAD" ELSE "RETRY"

NextStatus(i) == IF i.attempts >= MaxAttempts THEN "DEAD" ELSE "RETRY"

\* The update of the catch block is not guarded: its error ends the call.
MarkFailed(r) ==
    /\ pc[r] = "failed"
    /\ \/ Mark(r, NextStatus(current[r])) /\ NextItem(r)
       \/ /\ DbCanFail
          /\ Mark(r, NextStatus(current[r])) \/ UNCHANGED status
          /\ Abandon(r)
    /\ UNCHANGED <<attempts, sends>>

\* Nothing but a relay's own memory remembers which rows it has claimed.
Crash(r) == /\ CanCrash
            /\ pc[r] # "idle"
            /\ Abandon(r)
            /\ UNCHANGED <<rows, sends>>

----------------------------------------------------------------------------

Relay(r) == Claim(r) \/ Send(r) \/ MarkPublished(r) \/ MarkFailed(r)

Init ==
    /\ status = [m \in Messages |-> "NONE"]
    /\ attempts = [m \in Messages |-> 0]
    /\ sends = [m \in Messages |-> 0]
    /\ pc = [r \in Relays |-> "idle"]
    /\ batch = [r \in Relays |-> {}]
    /\ current = [r \in Relays |-> NoItem]

Next == \/ \E m \in Messages : Insert(m)
        \/ \E r \in Relays : Relay(r) \/ Crash(r)

Spec == Init /\ [][Next]_vars

\* Node resumes a call whose statement has been answered, and whoever runs
\* the relays calls them again and again.
FairSpec == Spec /\ \A r \in Relays : WF_vars(Relay(r))

----------------------------------------------------------------------------

(* The rows, the counters and every relay's memory hold values of their    *)
(* types.                                                                  *)
TypeOK ==
    /\ status \in [Messages -> Statuses]
    /\ attempts \in [Messages -> Nat]
    /\ sends \in [Messages -> Nat]
    /\ pc \in [Relays -> {"idle", "send", "sent", "failed"}]
    /\ batch \in [Relays -> SUBSET Item]
    /\ current \in [Relays -> Item \cup {NoItem}]

(* No message is in the hands of two relays at the same time: rows are     *)
(* claimed under FOR UPDATE (outbox-relay.service.ts:29), and the marks    *)
(* made outside the transaction, some of which take effect although the    *)
(* relay saw them fail, never make a row claimable that is still held.     *)
ExclusiveClaim ==
    \A r, q \in Relays : r # q => Held(r) \cap Held(q) = {}

(* A row says PUBLISHED only if SNS has accepted its message.              *)
PublishedWasSent == \A m \in Messages : status[m] = "PUBLISHED" => sends[m] > 0

\* The promise of an outbox in terms of the table and of what SNS has got.
Promise == INSTANCE OutboxPromise WITH
    announced <- {m \in Messages : status[m] # "NONE"},
    begun <- attempts,
    sent <- {m \in Messages : sends[m] > 0},
    verdict <- [m \in Messages |->
                   IF status[m] \in {"PUBLISHED", "DEAD"} THEN status[m] ELSE "OPEN"]

(* The relays keep the promise of OutboxPromise, whatever dies or fails in *)
(* doubt and although marks of failed updates may still take effect: every *)
(* send is of a row with an attempt on record, PUBLISHED is only ever      *)
(* written after a send, and DEAD only after the last attempt.             *)
RefinesPromise == Promise!Spec

(* SNS gets a message at most once per attempt that is on record, and at   *)
(* most MaxAttempts times in all, whoever crashed in between: duplicates   *)
(* are expected, an unbounded stream of them is not.                       *)
SendsAreCounted ==
    \A m \in Messages : sends[m] <= attempts[m] /\ attempts[m] <= MaxAttempts

(* A row waits for a retry exactly as long as it has attempts left, so     *)
(* that no row is both unclaimable and short of a final status; DEAD means *)
(* that all the attempts were made.                                        *)
RetriesAreUsable ==
    \A m \in Messages :
       /\ status[m] \in {"PENDING", "RETRY"} => attempts[m] < MaxAttempts
       /\ status[m] = "DEAD" => attempts[m] = MaxAttempts

(* DEAD is final: whatever other relays have in flight, a message that was *)
(* given up is not sent or revived later.                                  *)
DeadIsFinal ==
    [][\A m \in Messages : status[m] = "DEAD" =>
          status'[m] = "DEAD" /\ sends'[m] = sends[m]]_vars

\* The row of a call that died, or whose last UPDATE was lost.
Stranded(m) == status[m] = "PROCESSING" /\ \A r \in Relays : m \notin Held(r)

(* Every message is settled in the end, published or dead after its last   *)
(* attempt, unless a call ended while it held the message: no failure that *)
(* a relay survives leaves a row where no later call picks it up.          *)
EventuallySettled ==
    \A m \in Messages :
       status[m] = "PENDING" ~> \/ status[m] \in {"PUBLISHED", "DEAD"}
                                \/ Stranded(m)
=============================================================================
