---------------------------- MODULE TenancyAccess ----------------------------
(***************************************************************************)
(* How the maintenance context learns who rents which unit: the tenancy    *)
(* context's SQL outbox (SqlOutboxRelay, composed here) publishes          *)
(* TenancyActivated.v1 to SNS, SNS puts a copy of each accepted message    *)
(* into the maintenance context's queue, and TenancyEventsConsumer grants  *)
(* the access that DynamoDBTenancyAccessAdapter reads.                     *)
(*                                                                         *)
(* SQS counts how often it hands out a copy.  A copy that is not deleted   *)
(* becomes visible again after its visibility timeout, also while a slow   *)
(* consumer still works on it, and goes to the dead-letter queue after     *)
(* MaxReceives.  Copies that no activation stands behind (the probes that  *)
(* doctor-ministack.ts publishes for the same queue) do not parse.         *)
(***************************************************************************)
EXTENDS Naturals, FiniteSets

CONSTANTS Messages, Relays, MaxAttempts, BatchSize, CanCrash, DbCanFail,
          Consumers,     \* processes that run TenancyEventsConsumer
          Probes,        \* messages that fail the envelope's schema
          PollSize,      \* MaxNumberOfMessages (5)
          MaxReceives,   \* maxReceiveCount of the redrive policy (5)
          MaxFaults      \* bound: failed calls and crashes of the consumers

ASSUME TenancyAccessAssumption ==
    /\ Messages \cap Probes = {}
    /\ PollSize \in Nat \ {0}
    /\ MaxReceives \in Nat \ {0}
    /\ MaxFaults \in Nat

VARIABLES
    status, attempts, sends, pc, batch, current,   \* those of SqlOutboxRelay
    arrivals,   \* how many copies SNS has put into the queue
    queue,      \* the copies in the queue, with their receive counts
    dlq,        \* the copies in the dead-letter queue
    inbox,      \* the messages with an INBOX# item
    access,     \* the messages with an ACCESS# item: all of them isActive
    polled,     \* the copies a consumer has received and not looked at
    copy,       \* the copy it works on
    cpc,        \* its next call
    faults      \* failed calls and crashes so far

outbox == <<status, attempts, sends, pc, batch, current>>
sqs == <<arrivals, queue, dlq>>
table == <<inbox, access>>
consumer == <<polled, copy, cpc>>
vars == <<outbox, sqs, table, consumer, faults>>

Outbox == INSTANCE SqlOutboxRelay

ASSUME OutboxAssumption == Outbox!SqlOutboxRelayAssumption

Copy == [id: Messages \cup Probes, n: Nat \ {0}]
NoCopy == [id |-> {}, n |-> 0]

\* queue is a function: the receive count of every copy that is in it.
Queued == DOMAIN queue
Without(B) == [k \in Queued \ B |-> queue[k]]

Fault == /\ faults < MaxFaults
         /\ faults' = faults + 1

----------------------------------------------------------------------------

Place(k) == queue' = [j \in Queued \cup {k} |-> IF j = k THEN 0 ELSE queue[j]]

\* SNS puts a copy into the queue for every time it has accepted the message.
Arrive(m) ==
    /\ IF m \in Probes THEN arrivals[m] = 0 ELSE arrivals[m] < sends[m]
    /\ arrivals' = [arrivals EXCEPT ![m] = @ + 1]
    /\ Place([id |-> m, n |-> arrivals[m] + 1])
    /\ UNCHANGED <<outbox, dlq, table, consumer, faults>>

Redrive(k) ==
    /\ queue[k] = MaxReceives
    /\ queue' = Without({k})
    /\ dlq' = dlq \cup {k}
    /\ UNCHANGED <<outbox, arrivals, table, consumer, faults>>

----------------------------------------------------------------------------
(* TenancyEventsConsumer.                                                  *)

\* Variant: a copy that was handed out before is not taken again.
Receive_Fresh(c) ==
    /\ cpc[c] = "poll"
    /\ \E B \in SUBSET {k \in Queued : queue[k] = 0} :
          /\ B # {}
          /\ Cardinality(B) <= PollSize
          /\ queue' = [k \in Queued |-> IF k \in B THEN queue[k] + 1 ELSE queue[k]]
          /\ polled' = [polled EXCEPT ![c] = B]
    /\ cpc' = [cpc EXCEPT ![c] = "project"]
    /\ UNCHANGED <<outbox, arrivals, dlq, table, copy, faults>>

\* Copies that another consumer holds may have become visible again.
Receive(c) ==
    /\ cpc[c] = "poll"
    /\ \E B \in SUBSET {k \in Queued : queue[k] < MaxReceives} :
          /\ B # {}
          /\ Cardinality(B) <= PollSize
          /\ queue' = [k \in Queued |-> IF k \in B THEN queue[k] + 1 ELSE queue[k]]
          /\ polled' = [polled EXCEPT ![c] = B]
    /\ cpc' = [cpc EXCEPT ![c] = "project"]
    /\ UNCHANGED <<outbox, arrivals, dlq, table, copy, faults>>

\* The loop goes on with the copies in R, or the poll is over.
GoOn(c, R) ==
    /\ polled' = [polled EXCEPT ![c] = R]
    /\ copy' = [copy EXCEPT ![c] = NoCopy]
    /\ cpc' = [cpc EXCEPT ![c] = IF R = {} THEN "poll" ELSE "project"]

WorkOn(c, k, l) ==
    /\ polled' = [polled EXCEPT ![c] = @ \ {k}]
    /\ copy' = [copy EXCEPT ![c] = k]
    /\ cpc' = [cpc EXCEPT ![c] = l]

\* Variant: every error is taken for a duplicate.
Leave_Duplicate(c, k) == WorkOn(c, k, "discard") /\ UNCHANGED table

\* Variant: an error ends the poll.
Leave_EndPoll(c, k) == GoOn(c, {}) /\ UNCHANGED table

\* The catch block, for an error that is not "Conditional...": k stays queued.
Leave(c, k) == GoOn(c, polled[c] \ {k}) /\ UNCHANGED table

\* Variant: marker and snapshot are two writes, and the second may fail.
Grant_TwoWrites(m) == /\ inbox' = inbox \cup {m}
                      /\ access' = access \cup {m} \/ UNCHANGED access

\* TransactWriteItems of the marker and the snapshot.
Grant(m) == inbox' = inbox \cup {m} /\ access' = access \cup {m}

Parses(m) == m \in Messages

\* The envelope does not parse; or the transaction fails on the marker that
\* is there; or it commits; or it fails, perhaps only after it committed.
Project(c) ==
    /\ cpc[c] = "project"
    /\ \E k \in polled[c] :
          \/ ~Parses(k.id) /\ Leave(c, k) /\ UNCHANGED faults
          \/ /\ k.id \in inbox
             /\ WorkOn(c, k, "discard")
             /\ UNCHANGED <<table, faults>>
          \/ /\ Parses(k.id) /\ k.id \notin inbox
             /\ Grant(k.id)
             /\ \/ WorkOn(c, k, "delete") /\ UNCHANGED faults
                \/ GoOn(c, polled[c] \ {k}) /\ Fault
          \/ Parses(k.id) /\ Leave(c, k) /\ Fault
    /\ UNCHANGED <<outbox, sqs>>

\* DeleteMessage.  The receipt of a copy that was handed out again since
\* may be too old to delete it.
Remove(c) == queue' = Without({copy[c]}) \/ UNCHANGED queue

\* The copy is deleted, or the catch block logs the error: the loop goes on.
Delete(c) ==
    /\ cpc[c] = "delete"
    /\ \/ queue' = Without({copy[c]}) /\ UNCHANGED faults
       \/ Fault /\ Remove(c)
    /\ GoOn(c, polled[c])
    /\ UNCHANGED <<outbox, arrivals, dlq, table>>

\* In the catch block itself nothing catches the error: it ends the poll.
Discard(c) ==
    /\ cpc[c] = "discard"
    /\ \/ queue' = Without({copy[c]}) /\ GoOn(c, polled[c]) /\ UNCHANGED faults
       \/ Fault /\ Remove(c) /\ GoOn(c, {})
    /\ UNCHANGED <<outbox, arrivals, dlq, table>>

Crash(c) ==
    /\ cpc[c] # "poll"
    /\ Fault
    /\ GoOn(c, {})
    /\ UNCHANGED <<outbox, sqs, table>>

----------------------------------------------------------------------------

\* verifyActiveAccess: no item, or an error of the GetItem, is a no.
MayReport(m) == m \in access

Tenancy == Outbox!Next /\ UNCHANGED <<sqs, table, consumer, faults>>

Relay(r) == Outbox!Relay(r) /\ UNCHANGED <<sqs, table, consumer, faults>>

Consume(c) == Receive(c) \/ Project(c) \/ Delete(c) \/ Discard(c)

Init ==
    /\ Outbox!Init
    /\ arrivals = [m \in Messages \cup Probes |-> 0]
    /\ queue = [k \in {} |-> 0]
    /\ dlq = {} /\ inbox = {} /\ access = {}
    /\ polled = [c \in Consumers |-> {}]
    /\ copy = [c \in Consumers |-> NoCopy]
    /\ cpc = [c \in Consumers |-> "poll"]
    /\ faults = 0

Next == \/ Tenancy
        \/ \E m \in Messages \cup Probes : Arrive(m)
        \/ \E k \in Queued : Redrive(k)
        \/ \E c \in Consumers : Consume(c) \/ Crash(c)

Spec == Init /\ [][Next]_vars

\* The relays as in SqlOutboxRelay; SNS delivers what it accepted and SQS
\* applies the redrive policy; whoever runs the consumers calls them again
\* and again.
FairSpec ==
    /\ Spec
    /\ \A r \in Relays : WF_vars(Relay(r))
    /\ \A m \in Messages : WF_vars(Arrive(m))
    /\ WF_vars(\E k \in Queued : Redrive(k))
    /\ \A c \in Consumers : WF_vars(Consume(c))

----------------------------------------------------------------------------

Holds(c, k) == k \in polled[c] \/ copy[c] = k

(* The queues, the table and the consumers hold values of their types, and *)
(* no copy is in both queues.                                              *)
TypeOK ==
    /\ arrivals \in [Messages \cup Probes -> Nat]
    /\ Queued \subseteq Copy /\ queue \in [Queued -> 0 .. MaxReceives]
    /\ dlq \subseteq Copy /\ dlq \cap Queued = {}
    /\ inbox \subseteq Messages /\ access \subseteq Messages
    /\ polled \in [Consumers -> SUBSET Copy]
    /\ copy \in [Consumers -> Copy \cup {NoCopy}]
    /\ cpc \in [Consumers -> {"poll", "project", "delete", "discard"}]
    /\ faults \in 0 .. MaxFaults

(* A tenant may report on a unit exactly if the activation's message was   *)
(* processed, and no message is processed that the tenancy context never   *)
(* sent: marker and snapshot stand or fall together (tenancy-events.       *)
(* consumer.ts:63), whatever is retried or arrives twice.                  *)
GrantedWithMarker ==
    \A m \in Messages \cup Probes :
       /\ MayReport(m) <=> m \in inbox
       /\ MayReport(m) => m \in Messages /\ sends[m] > 0

Delivery == INSTANCE ActivationDelivery WITH
    Tenancies <- Messages,
    MaxCopies <- MaxAttempts,
    activated <- {m \in Messages : status[m] # "NONE"},
    copies <- [m \in Messages |-> arrivals[m]],
    granted <- access

(* From the outbox's row to the access item, the two contexts keep the     *)
(* promise of ActivationDelivery: no access without an activation that is  *)
(* on record, at most MaxAttempts copies however often relays fail, and    *)
(* one grant per activation however often copies are handed out.           *)
RefinesDelivery == Delivery!Spec

(* A copy leaves the queue for good only when its message was granted, by  *)
(* whichever consumer: "Delete from SQS only after DynamoDB write commits  *)
(* successfully" (tenancy-events.consumer.ts:102).                         *)
DeletedAfterGrant ==
    \A m \in Messages \cup Probes : \A n \in 1 .. arrivals[m] :
       [id |-> m, n |-> n] \notin Queued \cup dlq => MayReport(m)

(* A copy is given up, with its message not granted and nobody at work on  *)
(* it, only after each of its receives ended in a failure of its own: no   *)
(* other copy of a batch, one that cannot be parsed included, uses them up.*)
DeadLettersWereTried ==
    \A k \in dlq :
       \/ k.id \in Probes
       \/ MayReport(k.id)
       \/ \E c \in Consumers : Holds(c, k)
       \/ faults >= MaxReceives

(* Every activation gives its tenant access in the end, unless the relay   *)
(* gave the row up or left it behind, or a copy is in the dead-letter      *)
(* queue, where an operator finds it.                                      *)
EventuallyGranted ==
    \A m \in Messages :
       status[m] = "PENDING" ~> \/ MayReport(m)
                                \/ status[m] = "DEAD"
                                \/ Outbox!Stranded(m)
                                \/ \E k \in dlq : k.id = m
=============================================================================
