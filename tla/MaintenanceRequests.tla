-------------------------- MODULE MaintenanceRequests --------------------------
(***************************************************************************)
(* The command side of the maintenance context: OpenRequest, ScheduleVisit *)
(* and ResolveRequest, run by concurrent handlers against one DynamoDB     *)
(* table through DynamoDBMaintenanceRepository.                            *)
(*                                                                         *)
(* A handler loads a request, applies the aggregate's method and saves the *)
(* result in one TransactWriteItems: the request's item, conditional on    *)
(* its version, together with the integration event if there is one.  A    *)
(* read may be eventually consistent, which is a read made earlier; and    *)
(* findById answers null when the read fails.                              *)
(***************************************************************************)
EXTENDS Integers, FiniteSets

CONSTANTS Requests,     \* identifiers of repair requests
          Units,        \* rental units
          Handlers,     \* commands being handled at the same time
          MaxVersion,   \* bound: no request gets beyond this version
          None

RequestRow == [unit: Units, emergency: BOOLEAN,
               status: {"OPENED", "SCHEDULED", "RESOLVED"}, version: Nat]

\* An item OUTBOX#...: what its payloadJson and eventType say.
Message == [request: Requests, unit: Units, kind: {"opened", "resolved"},
            blocking: BOOLEAN, version: Nat]

ASSUME MaintenanceRequestsAssumption ==
    MaxVersion \in Nat /\ None \notin RequestRow \cup Requests

VARIABLES
    requests,   \* the items REQUEST#..., by id
    outbox,     \* the items OUTBOX#..., whatever their delivery status
    access,     \* the units whose tenant has an item ACCESS#.../UNIT#...
    job,        \* the request each handler is about to save, if any
    draft       \* the aggregate in the handler's memory

maintenance == <<requests, outbox, access, job, draft>>

----------------------------------------------------------------------------

\* TenancyEventsConsumer projects an activated tenancy (never revoked).
GrantAccess(u) ==
    /\ u \notin access
    /\ access' = access \cup {u}
    /\ UNCHANGED <<requests, outbox, job, draft>>

Handle(h, q, row) == /\ job[h] = None
                     /\ job' = [job EXCEPT ![h] = q]
                     /\ draft' = [draft EXCEPT ![h] = row]
                     /\ UNCHANGED <<requests, outbox, access>>

Done(h) == /\ job' = [job EXCEPT ![h] = None]
           /\ draft' = [draft EXCEPT ![h] = None]
           /\ UNCHANGED access

\* An existing request does not always stop the use case: its read may have
\* failed.  The emergency flag is what the description's words make of it.
OpenRequest(h, q, u, e) ==
    /\ u \in access
    /\ Handle(h, q, [unit |-> u, emergency |-> e,
                     status |-> "OPENED", version |-> 0])

\* isClosed is kept as the status RESOLVED: nothing rejects a request.
Open(q) == /\ requests[q] # None
           /\ requests[q].status # "RESOLVED"
           /\ requests[q].version < MaxVersion

ScheduleVisit(h, q) ==
    /\ Open(q)
    /\ Handle(h, q, [requests[q] EXCEPT !.status = "SCHEDULED", !.version = @ + 1])

ResolveRequest(h, q) ==
    /\ Open(q)
    /\ Handle(h, q, [requests[q] EXCEPT !.status = "RESOLVED", !.version = @ + 1])

----------------------------------------------------------------------------

Opened(q, row) == [request |-> q, unit |-> row.unit, kind |-> "opened",
                   blocking |-> row.emergency, version |-> 0]

Resolved(q, row) == [request |-> q, unit |-> row.unit, kind |-> "resolved",
                     blocking |-> FALSE, version |-> row.version]

\* Variant: a resolution is announced by a write of its own, later.
Events_OpenedOnly(q, row) ==
    IF row.status = "OPENED" THEN {Opened(q, row)} ELSE {}

\* A scheduled visit is not announced, although it takes a version.
Events(q, row) == CASE row.status = "OPENED" -> {Opened(q, row)}
                    [] row.status = "RESOLVED" -> {Resolved(q, row)}
                    [] OTHER -> {}

\* Variant: the Put of an update has no ConditionExpression.
Expected_Unconditional(q, row) == row.version = 0 => requests[q] = None

\* attribute_not_exists(PK), or version = :expectedVersion.
Expected(q, row) ==
    IF row.version = 0
    THEN requests[q] = None
    ELSE requests[q] # None /\ requests[q].version = row.version - 1

\* TransactWriteItems: both items or neither.  A handler that fails or dies
\* before it is like one whose condition fails.
Save(h) ==
    /\ job[h] # None
    /\ \/ /\ Expected(job[h], draft[h])
          /\ requests' = [requests EXCEPT ![job[h]] = draft[h]]
          /\ outbox' = outbox \cup Events(job[h], draft[h])
       \/ UNCHANGED <<requests, outbox>>
    /\ Done(h)

----------------------------------------------------------------------------

Command ==
    \/ \E u \in Units : GrantAccess(u)
    \/ \E h \in Handlers :
          \/ \E q \in Requests :
                \/ \E u \in Units, e \in BOOLEAN : OpenRequest(h, q, u, e)
                \/ ScheduleVisit(h, q)
                \/ ResolveRequest(h, q)
          \/ Save(h)

InitRequests ==
    /\ requests = [q \in Requests |-> None]
    /\ outbox = {}
    /\ access = {}
    /\ job = [h \in Handlers |-> None]
    /\ draft = [h \in Handlers |-> None]

SpecRequests == InitRequests /\ [][Command]_maintenance

----------------------------------------------------------------------------

(* The table and the handlers hold values of their types.                  *)
RequestsTypeOK ==
    /\ requests \in [Requests -> RequestRow \cup {None}]
    /\ outbox \subseteq Message
    /\ access \subseteq Units
    /\ job \in [Handlers -> Requests \cup {None}]
    /\ draft \in [Handlers -> RequestRow \cup {None}]

(* A resolved request stays as it is: a handler that loaded it before (or  *)
(* opens it again after a failed read) cannot undo the resolution.         *)
ClosedIsFinal ==
    [][\A q \in Requests :
          requests[q] # None /\ requests[q].status = "RESOLVED"
             => requests'[q] = requests[q]]_maintenance

(* The outbox tells the story of the table: one opening per request, with  *)
(* its unit and its urgency, and one resolution, at the version of the     *)
(* stored row, exactly when the request is resolved.                       *)
OutboxTellsAll ==
    \A q \in Requests :
       {m \in outbox : m.request = q} =
          IF requests[q] = None THEN {}
          ELSE {Opened(q, requests[q])} \cup
               (IF requests[q].status = "RESOLVED"
                THEN {Resolved(q, requests[q])} ELSE {})
=============================================================================
