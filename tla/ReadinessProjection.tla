------------------------- MODULE ReadinessProjection -------------------------
(***************************************************************************)
(* How the tenancy context learns whether a unit may be leased: the        *)
(* maintenance context's events travel over SNS and an SQS queue to        *)
(* MaintenanceEventsConsumer, which keeps one projection row per unit in   *)
(* PostgreSQL; TypeOrmRentalUnitReadinessAdapter reads it.                 *)
(*                                                                         *)
(* The queue delivers at least once and in any order, also to a second     *)
(* consumer while a first one still works on the message.  A message is    *)
(* processed in one READ COMMITTED transaction of several statements, of   *)
(* which other transactions see nothing before its commit; an uncommitted  *)
(* inbox row blocks an insert of the same row.  projectionRepo.save first  *)
(* selects the row and then writes the columns in which the entity         *)
(* differs from it.                                                        *)
(***************************************************************************)
EXTENDS MaintenanceRequests

CONSTANTS Consumers     \* processes that run the consumer

VARIABLES
    published,    \* messages the relay has published, once or more
    queue,        \* messages in the SQS queue
    inbox,        \* inbox: the messages with a committed marker
    projection,   \* rental_unit_readiness_projections, by unit
    cpc,          \* the next statement of each consumer
    message,      \* the message it works on
    entity,       \* the projection entity in its memory
    seen          \* the row projectionRepo.save has selected

sqs == <<published, queue>>
store == <<inbox, projection>>
consumer == <<cpc, message, entity, seen>>
readiness == <<sqs, store, consumer>>
vars == <<maintenance, readiness>>

ProjectionRow == [ready: BOOLEAN, last: Nat \cup {-1},
                  status: {"ACTIVE", "GAP_DETECTED"}]

ASSUME ReadinessProjectionAssumption == None \notin ProjectionRow

\* The entity the consumer builds for a unit that has no row yet.
Fresh == [ready |-> TRUE, last |-> -1, status |-> "ACTIVE"]

----------------------------------------------------------------------------
(* The way of a message into the queue.                                    *)

\* The relay retries, and SNS and SQS may duplicate: a message may come
\* back after it was deleted.
Publish(m) ==
    /\ m \in outbox
    /\ m \notin queue
    /\ published' = published \cup {m}
    /\ queue' = queue \cup {m}
    /\ UNCHANGED <<maintenance, store, consumer>>

Receive(c, m) ==
    /\ cpc[c] = "idle"
    /\ m \in queue
    /\ cpc' = [cpc EXCEPT ![c] = "inbox"]
    /\ message' = [message EXCEPT ![c] = m]
    /\ UNCHANGED <<maintenance, sqs, store, entity, seen>>

----------------------------------------------------------------------------
(* MaintenanceEventsConsumer, one message.                                 *)

Goto(c, l) == /\ cpc' = [cpc EXCEPT ![c] = l]
              /\ UNCHANGED message

Release(c) == /\ cpc' = [cpc EXCEPT ![c] = "idle"]
              /\ message' = [message EXCEPT ![c] = None]
              /\ entity' = [entity EXCEPT ![c] = None]
              /\ seen' = [seen EXCEPT ![c] = None]

FindInbox(c) ==
    /\ cpc[c] = "inbox"
    /\ Goto(c, IF message[c] \in inbox THEN "delete" ELSE "marker")
    /\ UNCHANGED <<maintenance, sqs, store, entity, seen>>

\* The consumers whose transaction holds a marker nobody else sees yet.
Marking(d) == cpc[d] \in {"load", "select", "write"}

\* inboxRepo.save: waits for the transaction that holds the same row.  When
\* that one commits, this one fails or updates the row and goes on.
SaveMarker(c) ==
    /\ cpc[c] = "marker"
    /\ \A d \in Consumers : Marking(d) => message[d] # message[c]
    /\ Goto(c, "load")
    /\ UNCHANGED <<maintenance, sqs, store, entity, seen>>

\* COMMIT, when nothing but the marker was written.
CommitMarker(c) == /\ inbox' = inbox \cup {message[c]}
                   /\ Goto(c, "delete")

\* Variant: a gap is skipped over.
Applied_Skip(row, m) ==
    IF m.version = row.last + 1
    THEN [ready |-> ~m.blocking, last |-> m.version, status |-> "ACTIVE"]
    ELSE [row EXCEPT !.status = "GAP_DETECTED", !.last = m.version]

Applied(row, m) ==
    IF m.version = row.last + 1
    THEN [ready |-> ~m.blocking, last |-> m.version, status |-> "ACTIVE"]
    ELSE [row EXCEPT !.status = "GAP_DETECTED"]

Current(u) == IF projection[u] = None THEN Fresh ELSE projection[u]

\* Variant: the versions are not compared, the last event wins.
LoadProjection_LastWins(c) ==
    LET m == message[c] IN
    /\ cpc[c] = "load"
    /\ entity' = [entity EXCEPT ![c] =
                     [ready |-> ~m.blocking, last |-> m.version, status |-> "ACTIVE"]]
    /\ Goto(c, "select")
    /\ UNCHANGED <<maintenance, sqs, store, seen>>

\* findOne, and the comparison of versions.
LoadProjection(c) ==
    LET m == message[c]
        row == Current(m.unit)
    IN /\ cpc[c] = "load"
       /\ \/ m.version <= row.last /\ CommitMarker(c) /\ UNCHANGED entity
          \/ /\ m.version > row.last
             /\ entity' = [entity EXCEPT ![c] = Applied(row, m)]
             /\ Goto(c, "select")
             /\ UNCHANGED inbox
       /\ UNCHANGED <<maintenance, sqs, projection, seen>>

SelectProjection(c) ==
    /\ cpc[c] = "select"
    /\ seen' = [seen EXCEPT ![c] = projection[message[c].unit]]
    /\ Goto(c, "write")
    /\ UNCHANGED <<maintenance, sqs, store, entity>>

\* The columns in which the entity differs from what save has selected.
Updated(row, s, e) ==
    [ready |-> IF e.ready # s.ready THEN e.ready ELSE row.ready,
     last |-> IF e.last # s.last THEN e.last ELSE row.last,
     status |-> IF e.status # s.status THEN e.status ELSE row.status]

\* Variant: the projection is saved on a connection of its own, and the
\* transaction of the marker may still fail.
WriteProjection_OwnConnection(c) ==
    LET u == message[c].unit IN
    /\ cpc[c] = "write"
    /\ projection' = [projection EXCEPT ![u] =
                         IF seen[c] = None THEN entity[c]
                         ELSE Updated(@, seen[c], entity[c])]
    /\ \/ CommitMarker(c) /\ UNCHANGED <<entity, seen>>
       \/ Release(c) /\ UNCHANGED inbox
    /\ UNCHANGED <<maintenance, sqs>>

\* The UPDATE or INSERT, and COMMIT: no other write of the row comes between
\* them.  A second INSERT breaks the primary key and rolls everything back.
WriteProjection(c) ==
    LET u == message[c].unit IN
    /\ cpc[c] = "write"
    /\ \/ /\ seen[c] = None
          /\ projection[u] = None
          /\ projection' = [projection EXCEPT ![u] = entity[c]]
          /\ CommitMarker(c)
          /\ UNCHANGED <<entity, seen>>
       \/ /\ seen[c] # None
          /\ projection' = [projection EXCEPT ![u] = Updated(@, seen[c], entity[c])]
          /\ CommitMarker(c)
          /\ UNCHANGED <<entity, seen>>
       \/ /\ seen[c] = None
          /\ projection[u] # None
          /\ Release(c)
          /\ UNCHANGED store
    /\ UNCHANGED <<maintenance, sqs>>

DeleteMessage(c) ==
    /\ cpc[c] = "delete"
    /\ queue' = queue \ {message[c]}
    /\ Release(c)
    /\ UNCHANGED <<maintenance, published, store>>

\* Variant: the message is deleted whatever became of it.
Fail_Delete(c) ==
    /\ cpc[c] # "idle"
    /\ queue' = queue \ {message[c]}
    /\ Release(c)
    /\ UNCHANGED <<maintenance, published, store>>

\* A statement fails or the process dies: the transaction is rolled back,
\* and the message becomes visible in the queue again.
Fail(c) == /\ cpc[c] # "idle"
           /\ Release(c)
           /\ UNCHANGED <<maintenance, sqs, store>>

----------------------------------------------------------------------------

\* assertReadyToLease does not throw.
Leasable(u) == \/ projection[u] = None
               \/ projection[u].status = "ACTIVE" /\ projection[u].ready

Consume(c) ==
    \/ \E m \in queue : Receive(c, m)
    \/ FindInbox(c) \/ SaveMarker(c) \/ LoadProjection(c)
    \/ SelectProjection(c) \/ WriteProjection(c)
    \/ DeleteMessage(c) \/ Fail(c)

Init ==
    /\ InitRequests
    /\ published = {} /\ queue = {} /\ inbox = {}
    /\ projection = [u \in Units |-> None]
    /\ cpc = [c \in Consumers |-> "idle"]
    /\ message = [c \in Consumers |-> None]
    /\ entity = [c \in Consumers |-> None]
    /\ seen = [c \in Consumers |-> None]

Next == \/ Command /\ UNCHANGED readiness
        \/ \E m \in outbox : Publish(m)
        \/ \E c \in Consumers : Consume(c)

Spec == Init /\ [][Next]_vars

----------------------------------------------------------------------------

(* The queue, the tables and the consumers hold values of their types.     *)
TypeOK ==
    /\ RequestsTypeOK
    /\ queue \subseteq published /\ published \subseteq outbox
    /\ inbox \subseteq outbox
    /\ projection \in [Units -> ProjectionRow \cup {None}]
    /\ cpc \in [Consumers -> {"idle", "inbox", "marker", "load", "select",
                              "write", "delete"}]
    /\ message \in [Consumers -> Message \cup {None}]
    /\ entity \in [Consumers -> ProjectionRow \cup {None}]
    /\ seen \in [Consumers -> ProjectionRow \cup {None}]

(* A message leaves the queue only after the transaction that processed it *)
(* has committed, whichever consumer fails or dies in between.             *)
DeletedAfterCommit == published \ queue \subseteq inbox

(* However the columns of several transactions mix, a row carries no       *)
(* verdict that no message gave: a unit is blocked only where a processed  *)
(* message blocks it, and free at a version only where one frees it.       *)
VerdictHasSource ==
    \A u \in Units :
       projection[u] # None /\ (projection[u].ready => projection[u].last # -1) =>
          \E m \in inbox : m.unit = u /\ m.blocking = ~projection[u].ready

(* A row at version n stands on processed messages of every version up to  *)
(* n: an event that arrives early is not taken for the next one.           *)
NoVersionSkipped ==
    \A u \in Units :
       projection[u] # None =>
          \A v \in 0 .. projection[u].last :
             \E m \in inbox : m.unit = u /\ m.version = v

\* The unit is at version v at least, and so is the entity of every
\* consumer that is about to write its row.
AtLeast(u, v) ==
    /\ projection[u] # None
    /\ projection[u].last >= v
    /\ \A c \in Consumers :
          cpc[c] \in {"select", "write"} /\ message[c].unit = u => entity[c].last >= v

(* Stale events are no-ops (maintenance-events.consumer.ts:110): a version *)
(* that is reached is lost again only to a consumer that had compared its  *)
(* message before, whatever is repeated, reordered, rolled back or mixed.  *)
NeverBelow ==
    [][\A u \in Units, v \in 0 .. MaxVersion : AtLeast(u, v) => AtLeast(u, v)']_vars

----------------------------------------------------------------------------

(* Every event has reached the projection; no transaction is open.         *)
Quiet == outbox \subseteq inbox /\ \A c \in Consumers : cpc[c] = "idle"

(* assertReadyToLease throws "if a blocking repair request is currently    *)
(* active" (rental-unit-readiness.port.ts:5), at the latest when all       *)
(* events have been processed.                                             *)
BlockingRequestBlocks ==
    Quiet => \A q \in Requests :
                /\ requests[q] # None
                /\ requests[q].emergency
                /\ requests[q].status # "RESOLVED"
                => ~Leasable(requests[q].unit)
=============================================================================
