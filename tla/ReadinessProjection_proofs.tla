---------------------- MODULE ReadinessProjection_proofs ----------------------
(***************************************************************************)
(* Safety of the maintenance commands and of the readiness projection they *)
(* feed, for any number of requests, units, handlers and consumers, over a *)
(* queue that repeats and reorders.                                        *)
(*                                                                         *)
(* The commands stand on optimistic locking: a handler that may still save *)
(* has loaded the row as it is now, because every save takes a version and *)
(* none is taken twice (Drafts).                                           *)
(*                                                                         *)
(* Two consumers of one unit overwrite each other's columns, but not the   *)
(* fact that every version up to the one a row names was processed         *)
(* (Working): it holds of the entity of each consumer by itself, and of    *)
(* every mixture of an entity with the row.  For the verdict it takes more *)
(* than the row and the entities: as long as no message that frees a unit  *)
(* was processed, the rows that were selected, too, are those of a unit    *)
(* nobody has freed, and of such rows no mixture is new (Sourced).         *)
(***************************************************************************)
EXTENDS ReadinessProjection, TLAPS

USE MaintenanceRequestsAssumption

----------------------------------------------------------------------------
(* The command side by itself.                                             *)

(* What a handler's draft says about the stored row: it is either out of   *)
(* date, or made from that very row, which was open.                       *)
Drafts ==
    \A h \in Handlers : job[h] # None =>
       LET q == job[h]
           row == draft[h]
       IN /\ q \in Requests
          /\ row \in RequestRow
          /\ row.version = 0 <=> row.status = "OPENED"
          /\ row.version # 0 =>
                /\ requests[q] # None
                /\ row.version - 1 <= requests[q].version
                /\ row.version - 1 = requests[q].version =>
                      /\ requests[q].status # "RESOLVED"
                      /\ row.unit = requests[q].unit
                      /\ row.emergency = requests[q].emergency

IInv == RequestsTypeOK /\ Drafts /\ OutboxTellsAll

LEMMA NoneIsNoRow == None \notin RequestRow /\ None \notin Requests
  OBVIOUS

LEMMA EventsTyped ==
  ASSUME NEW q \in Requests, NEW row \in RequestRow
  PROVE  /\ Events(q, row) \subseteq Message
         /\ \A m \in Events(q, row) : m.request = q
  <1>1. Opened(q, row) \in Message /\ Resolved(q, row) \in Message
    BY DEF Opened, Resolved, Message, RequestRow
  <1>2. Opened(q, row).request = q /\ Resolved(q, row).request = q
    BY DEF Opened, Resolved
  <1>3. Events(q, row) \subseteq {Opened(q, row), Resolved(q, row)}
    <2>1. CASE row.status = "OPENED"
      BY <2>1 DEF Events
    <2>2. CASE row.status = "RESOLVED"
      BY <2>2 DEF Events
    <2>3. CASE row.status = "SCHEDULED"
      BY <2>3 DEF Events
    <2> QED BY <2>1, <2>2, <2>3 DEF RequestRow
  <1> QED BY <1>1, <1>2, <1>3

(* The draft of a command on an open request.                              *)
LEMMA NextVersion ==
  ASSUME NEW row \in RequestRow, NEW s \in {"SCHEDULED", "RESOLVED"}
  PROVE  \E new \in RequestRow :
            /\ new = [row EXCEPT !.status = s, !.version = @ + 1]
            /\ new.version = row.version + 1
            /\ new.version # 0
            /\ new.status = s
            /\ new.unit = row.unit /\ new.emergency = row.emergency
  <1> DEFINE new == [row EXCEPT !.status = s, !.version = @ + 1]
  <1>1. row.version + 1 \in Nat /\ row.version + 1 # 0
    BY DEF RequestRow
  <1>2. /\ new \in RequestRow
        /\ new.version = row.version + 1 /\ new.version # 0
        /\ new.status = s
        /\ new.unit = row.unit /\ new.emergency = row.emergency
    BY <1>1 DEF RequestRow
  <1> QED BY <1>2

(* A save that takes effect.                                               *)
Saved(h) == /\ Expected(job[h], draft[h])
            /\ requests' = [requests EXCEPT ![job[h]] = draft[h]]
            /\ outbox' = outbox \cup Events(job[h], draft[h])

(* A new draft: a request to be opened, or the next version of a row.      *)
LEMMA Handling ==
  ASSUME RequestsTypeOK, NEW h \in Handlers, NEW q \in Requests,
         \/ \E u \in Units, e \in BOOLEAN : OpenRequest(h, q, u, e)
         \/ ScheduleVisit(h, q)
         \/ ResolveRequest(h, q)
  PROVE  \E row \in RequestRow :
           /\ Handle(h, q, row)
           /\ row.version = 0 <=> row.status = "OPENED"
           /\ row.version # 0 => /\ requests[q] # None
                                 /\ row.version - 1 = requests[q].version
                                 /\ requests[q].status # "RESOLVED"
                                 /\ row.unit = requests[q].unit
                                 /\ row.emergency = requests[q].emergency
  <1>1. ASSUME NEW u \in Units, NEW e \in BOOLEAN, OpenRequest(h, q, u, e)
        PROVE  \E row \in RequestRow :
                  /\ Handle(h, q, row)
                  /\ row.version = 0
                  /\ row.status = "OPENED"
    <2> DEFINE row == [unit |-> u, emergency |-> e, status |-> "OPENED", version |-> 0]
    <2>1. row \in RequestRow /\ row.version = 0 /\ row.status = "OPENED"
      BY DEF RequestRow
    <2>2. Handle(h, q, row)
      BY <1>1 DEF OpenRequest
    <2> QED BY <2>1, <2>2
  <1>2. ASSUME NEW s \in {"SCHEDULED", "RESOLVED"}, Open(q),
               Handle(h, q, [requests[q] EXCEPT !.status = s, !.version = @ + 1])
        PROVE  \E row \in RequestRow :
                  /\ Handle(h, q, row)
                  /\ row.version # 0
                  /\ row.status = s
                  /\ requests[q] # None
                  /\ row.version - 1 = requests[q].version
                  /\ requests[q].status # "RESOLVED"
                  /\ row.unit = requests[q].unit
                  /\ row.emergency = requests[q].emergency
    <2>1. requests[q] \in RequestRow
      BY <1>2 DEF Open, RequestsTypeOK
    <2>2. PICK row \in RequestRow :
             /\ row = [requests[q] EXCEPT !.status = s, !.version = @ + 1]
             /\ row.version = requests[q].version + 1
             /\ row.version # 0
             /\ row.status = s
             /\ row.unit = requests[q].unit /\ row.emergency = requests[q].emergency
      BY <2>1, NextVersion
    <2>3. Handle(h, q, row) /\ requests[q] # None /\ requests[q].status # "RESOLVED"
      BY <1>2, <2>2 DEF Open
    <2>4. row.version - 1 = requests[q].version
      BY <2>1, <2>2 DEF RequestRow
    <2> QED BY <2>2, <2>3, <2>4
  <1> QED BY <1>1, <1>2 DEF ScheduleVisit, ResolveRequest

LEMMA StepTyped ==
  ASSUME IInv, [Command]_maintenance
  PROVE  RequestsTypeOK'
  <1>1. CASE UNCHANGED maintenance
    BY <1>1 DEF IInv, RequestsTypeOK, maintenance
  <1>2. ASSUME NEW u \in Units, GrantAccess(u) PROVE RequestsTypeOK'
    BY <1>2 DEF IInv, RequestsTypeOK, GrantAccess
  <1>3. ASSUME NEW h \in Handlers, NEW q \in Requests, NEW row \in RequestRow,
               Handle(h, q, row)
        PROVE  RequestsTypeOK'
    BY <1>3 DEF IInv, RequestsTypeOK, Handle
  <1>4. ASSUME NEW h \in Handlers, Save(h) PROVE RequestsTypeOK'
    <2>1. job[h] \in Requests /\ draft[h] \in RequestRow
      BY <1>4 DEF IInv, Drafts, Save
    <2>2. Events(job[h], draft[h]) \subseteq Message
      BY <2>1, EventsTyped
    <2> QED BY <1>4, <2>1, <2>2 DEF IInv, RequestsTypeOK, Save, Done
  <1> QED BY <1>1, <1>2, <1>3, <1>4, Handling DEF Command, IInv

LEMMA StepDrafts ==
  ASSUME IInv, [Command]_maintenance
  PROVE  Drafts'
  <1>1. CASE UNCHANGED maintenance
    BY <1>1 DEF IInv, Drafts, maintenance
  <1>2. ASSUME NEW u \in Units, GrantAccess(u) PROVE Drafts'
    BY <1>2 DEF IInv, Drafts, GrantAccess
  <1>3. ASSUME NEW h \in Handlers, NEW q \in Requests, NEW row \in RequestRow,
               Handle(h, q, row),
               row.version = 0 <=> row.status = "OPENED",
               row.version # 0 => /\ requests[q] # None
                                  /\ row.version - 1 = requests[q].version
                                  /\ requests[q].status # "RESOLVED"
                                  /\ row.unit = requests[q].unit
                                  /\ row.emergency = requests[q].emergency
        PROVE  Drafts'
    <2>1. /\ requests' = requests
          /\ job'[h] = q /\ draft'[h] = row
          /\ \A g \in Handlers \ {h} : job'[g] = job[g] /\ draft'[g] = draft[g]
      BY <1>3 DEF Handle, IInv, RequestsTypeOK
    <2>2. requests[q] # None => requests[q].version \in Nat
      BY DEF IInv, RequestsTypeOK, RequestRow
    <2> QED BY <1>3, <2>1, <2>2 DEF IInv, Drafts
  <1>4. ASSUME NEW h \in Handlers, Save(h) PROVE Drafts'
    <2>1. /\ job'[h] = None
          /\ \A g \in Handlers \ {h} : job'[g] = job[g] /\ draft'[g] = draft[g]
      BY <1>4 DEF Save, Done, IInv, RequestsTypeOK
    <2>2. CASE UNCHANGED requests
      BY <2>1, <2>2 DEF IInv, Drafts
    <2>3. CASE Saved(h)
      <3>1. job[h] \in Requests /\ draft[h] \in RequestRow
        BY <1>4 DEF IInv, Drafts, Save
      <3>2. /\ requests'[job[h]] = draft[h]
            /\ \A q \in Requests \ {job[h]} : requests'[q] = requests[q]
        BY <2>3, <3>1 DEF Saved, IInv, RequestsTypeOK
      <3>3. requests[job[h]] # None => draft[h].version > requests[job[h]].version
        BY <2>3, <3>1 DEF Saved, Expected, IInv, RequestsTypeOK, RequestRow
      <3>4. SUFFICES ASSUME NEW g \in Handlers, g # h, job[g] = job[h],
                            draft[g].version # 0
                     PROVE  /\ requests'[job[g]] # None
                            /\ draft[g].version - 1 < requests'[job[g]].version
        BY <2>1, <3>1, <3>2, <3>4 DEF IInv, Drafts, RequestRow
      <3>5. /\ requests[job[g]] \in RequestRow /\ draft[g] \in RequestRow
            /\ draft[g].version - 1 <= requests[job[g]].version
        BY <3>1, <3>4, NoneIsNoRow DEF IInv, Drafts, RequestsTypeOK
      <3>6. draft[h].version > requests[job[g]].version
        BY <3>3, <3>4, <3>5, NoneIsNoRow
      <3> QED BY <3>1, <3>2, <3>4, <3>5, <3>6, NoneIsNoRow DEF RequestRow
    <2> QED BY <1>4, <2>2, <2>3 DEF Save, Saved
  <1> QED BY <1>1, <1>2, <1>3, <1>4, Handling DEF Command, IInv

(* A save that takes effect is of a request that was not resolved, and     *)
(* keeps its unit and urgency.                                             *)
LEMMA SavedRow ==
  ASSUME IInv, NEW h \in Handlers, job[h] # None, Saved(h)
  PROVE  LET q == job[h] row == draft[h] IN
         /\ q \in Requests /\ row \in RequestRow
         /\ requests'[q] = row
         /\ \A o \in Requests \ {q} : requests'[o] = requests[o]
         /\ \/ requests[q] = None /\ row.status = "OPENED"
            \/ /\ requests[q] # None
               /\ requests[q].status # "RESOLVED"
               /\ row.status # "OPENED"
               /\ row.unit = requests[q].unit
               /\ row.emergency = requests[q].emergency
  <1>1. job[h] \in Requests /\ draft[h] \in RequestRow
    BY DEF IInv, Drafts
  <1>2. /\ requests'[job[h]] = draft[h]
        /\ \A o \in Requests \ {job[h]} : requests'[o] = requests[o]
    BY <1>1 DEF Saved, IInv, RequestsTypeOK
  <1>3. CASE draft[h].version = 0
    BY <1>1, <1>2, <1>3 DEF Saved, Expected, IInv, Drafts
  <1>4. CASE draft[h].version # 0
    <2>1. requests[job[h]] # None /\ requests[job[h]].version = draft[h].version - 1
      BY <1>4 DEF Saved, Expected
    <2> QED BY <1>1, <1>2, <1>4, <2>1 DEF IInv, Drafts
  <1> QED BY <1>1, <1>2, <1>3, <1>4

LEMMA StepOutbox ==
  ASSUME IInv, [Command]_maintenance
  PROVE  OutboxTellsAll'
  <1>1. CASE UNCHANGED <<requests, outbox>>
    BY <1>1 DEF IInv, OutboxTellsAll
  <1>2. ASSUME NEW h \in Handlers, Save(h), Saved(h) PROVE OutboxTellsAll'
    <2> DEFINE q == job[h]
               row == draft[h]
               About(box, o) == {m \in box : m.request = o}
    <2>1. job[h] # None
      BY <1>2 DEF Save
    <2>2. /\ q \in Requests /\ row \in RequestRow
          /\ requests'[q] = row
          /\ \A o \in Requests \ {q} : requests'[o] = requests[o]
          /\ \/ requests[q] = None /\ row.status = "OPENED"
             \/ /\ requests[q] # None
                /\ requests[q].status # "RESOLVED"
                /\ row.status # "OPENED"
                /\ row.unit = requests[q].unit
                /\ row.emergency = requests[q].emergency
      BY <1>2, <2>1, SavedRow
    <2>3. \A m \in Events(q, row) : m.request = q
      BY <2>2, EventsTyped
    <2>4. outbox' = outbox \cup Events(q, row)
      BY <1>2 DEF Saved
    <2>5. \A o \in Requests \ {q} : About(outbox', o) = About(outbox, o)
      BY <2>3, <2>4
    <2>6. About(outbox', q) = About(outbox, q) \cup Events(q, row)
      BY <2>3, <2>4
    <2>7. About(outbox', q) = IF row.status = "RESOLVED"
                             THEN {Opened(q, row), Resolved(q, row)}
                             ELSE {Opened(q, row)}
      <3>1. row.status \in {"OPENED", "SCHEDULED", "RESOLVED"}
        BY <2>2 DEF RequestRow
      <3>2. CASE requests[q] = None
        <4>1. About(outbox, q) = {}
          BY <2>2, <3>2 DEF IInv, OutboxTellsAll
        <4>2. row.status = "OPENED" /\ Events(q, row) = {Opened(q, row)}
          BY <2>2, <3>2 DEF Events
        <4> QED BY <2>6, <4>1, <4>2
      <3>3. CASE requests[q] # None
        <4>1. About(outbox, q) = {Opened(q, requests[q])}
          BY <2>2, <3>3 DEF IInv, OutboxTellsAll
        <4>2. Opened(q, requests[q]) = Opened(q, row)
          BY <2>2, <3>3 DEF Opened
        <4>3. CASE row.status = "RESOLVED"
          <5>1. Events(q, row) = {Resolved(q, row)}
            BY <4>3 DEF Events
          <5> QED BY <2>6, <4>1, <4>2, <4>3, <5>1
        <4>4. CASE row.status = "SCHEDULED"
          <5>1. Events(q, row) = {}
            BY <4>4 DEF Events
          <5> QED BY <2>6, <4>1, <4>2, <4>4, <5>1
        <4> QED BY <2>2, <3>1, <3>3, <4>3, <4>4
      <3> QED BY <3>2, <3>3
    <2> QED BY <2>2, <2>5, <2>7, NoneIsNoRow DEF IInv, OutboxTellsAll
  <1>3. UNCHANGED <<requests, outbox>> \/ \E h \in Handlers : Save(h) /\ Saved(h)
    BY DEF Command, GrantAccess, OpenRequest, ScheduleVisit, ResolveRequest,
           Handle, Save, Saved, maintenance
  <1> QED BY <1>1, <1>2, <1>3

LEMMA StepClosed ==
  ASSUME IInv, [Command]_maintenance, NEW q \in Requests,
         requests[q] # None, requests[q].status = "RESOLVED"
  PROVE  requests'[q] = requests[q]
  <1>1. UNCHANGED requests \/ \E h \in Handlers : Save(h) /\ Saved(h)
    BY DEF Command, GrantAccess, OpenRequest, ScheduleVisit, ResolveRequest,
           Handle, Save, Saved, maintenance
  <1>2. ASSUME NEW h \in Handlers, Save(h), Saved(h) PROVE requests'[q] = requests[q]
    BY <1>2, SavedRow DEF Save
  <1> QED BY <1>1, <1>2

LEMMA Invariance == SpecRequests => []IInv
  <1>1. InitRequests => IInv
    BY DEF InitRequests, IInv, RequestsTypeOK, Drafts, OutboxTellsAll
  <1>2. IInv /\ [Command]_maintenance => IInv'
    BY StepTyped, StepDrafts, StepOutbox DEF IInv
  <1> QED BY <1>1, <1>2, PTL DEF SpecRequests

----------------------------------------------------------------------------

(* The table, the outbox and the handlers keep their types.                *)
THEOREM TypeCorrect == SpecRequests => []RequestsTypeOK
  BY Invariance, PTL DEF IInv

(* The outbox tells exactly what happened to each request: the events and  *)
(* the rows are written together, and no version is written twice.         *)
THEOREM OutboxComplete == SpecRequests => []OutboxTellsAll
  BY Invariance, PTL DEF IInv

(* No interleaving of handlers undoes a resolution.                        *)
THEOREM ClosedForGood == SpecRequests => ClosedIsFinal
  <1>1. IInv /\ [Command]_maintenance =>
          [\A q \in Requests :
             requests[q] # None /\ requests[q].status = "RESOLVED"
                => requests'[q] = requests[q]]_maintenance
    BY StepClosed
  <1> QED BY <1>1, Invariance, PTL DEF SpecRequests, ClosedIsFinal

----------------------------------------------------------------------------
(* The projection.                                                         *)

HIDE MaintenanceRequestsAssumption
USE ReadinessProjectionAssumption

\* S holds messages of every version of the unit up to n.
Covered(S, u, n) == \A v \in 0 .. n : \E m \in S : m.unit = u /\ m.version = v

Carrying(c) == cpc[c] \in {"select", "write"}

Working ==
    \A c \in Consumers :
       /\ cpc[c] # "idle" => message[c] \in published
       /\ cpc[c] = "delete" => message[c] \in inbox
       /\ Carrying(c) =>
             /\ entity[c] \in ProjectionRow
             /\ Covered(inbox \cup {message[c]}, message[c].unit, entity[c].last)
       /\ cpc[c] = "write" /\ seen[c] # None => projection[message[c].unit] # None

PInv == /\ IInv /\ TypeOK /\ Working
        /\ DeletedAfterCommit /\ NoVersionSkipped

----------------------------------------------------------------------------

LEMMA CoveredByMore ==
  ASSUME NEW S, NEW T, S \subseteq T, NEW u, NEW n, Covered(S, u, n)
  PROVE  Covered(T, u, n)
  BY DEF Covered

(* The consumers do not touch the command side.                            *)
LEMMA StepCommand == [Next]_vars => [Command]_maintenance
  BY DEF Next, vars, Publish, Consume, Receive, FindInbox, SaveMarker,
         LoadProjection, SelectProjection, WriteProjection, DeleteMessage, Fail

(* The maintenance context as it runs with its consumers is the context by *)
(* itself: what is proved of the commands holds of the whole.              *)
THEOREM RunsRequests == Spec => SpecRequests
  <1>1. Init => InitRequests
    BY DEF Init
  <1> QED BY <1>1, StepCommand, PTL DEF Spec, SpecRequests

(* Whatever the consumers do meanwhile, the outbox they are fed from tells *)
(* exactly what happened to each request.                                  *)
THEOREM AlwaysToldAll == Spec => []OutboxTellsAll
  BY RunsRequests, OutboxComplete, PTL

(* Whatever the consumers do meanwhile, a resolution stays.                *)
THEOREM StaysClosed == Spec => ClosedIsFinal
  BY RunsRequests, ClosedForGood

(* Its invariant holds throughout, and the outbox only grows.              *)
LEMMA Commands ==
  ASSUME IInv, [Next]_vars
  PROVE  IInv' /\ outbox \subseteq outbox'
  <1>1. [Command]_maintenance
    BY StepCommand
  <1>2. IInv'
    BY <1>1, StepTyped, StepDrafts, StepOutbox DEF IInv
  <1>3. outbox \subseteq outbox'
    BY <1>1 DEF Command, GrantAccess, OpenRequest, ScheduleVisit,
       ResolveRequest, Handle, Save, maintenance
  <1> QED BY <1>2, <1>3

(* What a consumer builds from a row and a message that is newer.          *)
LEMMA AppliedRow ==
  ASSUME NEW row \in ProjectionRow, NEW m \in Message
  PROVE  /\ Applied(row, m) \in ProjectionRow
         /\ m.version = row.last + 1 =>
               Applied(row, m) = [ready |-> ~m.blocking, last |-> m.version,
                                  status |-> "ACTIVE"]
         /\ m.version # row.last + 1 =>
               /\ Applied(row, m).last = row.last
               /\ Applied(row, m).ready = row.ready
  <1>1. m.version \in Nat /\ m.blocking \in BOOLEAN
    BY DEF Message
  <1>2. CASE m.version = row.last + 1
    BY <1>1, <1>2 DEF Applied, ProjectionRow
  <1>3. CASE m.version # row.last + 1
    BY <1>3 DEF Applied, ProjectionRow
  <1> QED BY <1>2, <1>3

LEMMA FreshRow == Fresh \in ProjectionRow /\ Fresh.last = -1 /\ Fresh.ready = TRUE
  BY DEF Fresh, ProjectionRow

LEMMA UpdatedRow ==
  ASSUME NEW row \in ProjectionRow, NEW s \in ProjectionRow, NEW e \in ProjectionRow
  PROVE  /\ Updated(row, s, e) \in ProjectionRow
         /\ Updated(row, s, e).last \in {row.last, e.last}
         /\ Updated(row, row, e) = e
  <1>1. Updated(row, s, e) \in ProjectionRow
    BY DEF Updated, ProjectionRow
  <1>2. Updated(row, s, e).last \in {row.last, e.last}
    BY DEF Updated
  <1>3. Updated(row, row, e) = e
    <2>1. Updated(row, row, e) = [ready |-> e.ready, last |-> e.last,
                                  status |-> e.status]
      BY DEF Updated
    <2> QED BY <2>1 DEF ProjectionRow
  <1> QED BY <1>1, <1>2, <1>3

(* What the consumer reads of a unit.                                      *)
LEMMA CurrentRow ==
  ASSUME TypeOK, NoVersionSkipped, NEW u \in Units
  PROVE  Current(u) \in ProjectionRow /\ Covered(inbox, u, Current(u).last)
  <1>1. CASE projection[u] = None
    <2>1. Current(u) = Fresh
      BY <1>1 DEF Current
    <2>2. 0 .. -1 = {}
      OBVIOUS
    <2> QED BY <2>1, <2>2, FreshRow DEF Covered
  <1>2. CASE projection[u] # None
    BY <1>2 DEF Current, TypeOK, NoVersionSkipped, Covered
  <1> QED BY <1>1, <1>2

----------------------------------------------------------------------------

(* What a consumer that is at work knows of its message.                   *)
LEMMA AtMessage ==
  ASSUME PInv, NEW c \in Consumers, cpc[c] # "idle"
  PROVE  /\ message[c] \in published /\ message[c] \in outbox
         /\ message[c] \in Message
         /\ message[c].unit \in Units
         /\ message[c].version \in Nat
  <1>1. message[c] \in published
    BY DEF PInv, Working
  <1>2. message[c] \in outbox /\ message[c] \in Message
    BY <1>1 DEF PInv, TypeOK, RequestsTypeOK
  <1> QED BY <1>1, <1>2 DEF Message

(* A step of one consumer has to be looked at for that consumer only.      *)
LEMMA OneMoves ==
  ASSUME PInv, IInv', outbox \subseteq outbox', NEW c \in Consumers,
         \A d \in Consumers \ {c} : /\ cpc'[d] = cpc[d]
                                    /\ message'[d] = message[d]
                                    /\ entity'[d] = entity[d]
                                    /\ seen'[d] = seen[d],
         published \subseteq published', inbox \subseteq inbox',
         \A u \in Units : projection[u] # None => projection'[u] # None,
         cpc'[c] # "idle" => message'[c] \in published',
         cpc'[c] = "delete" => message'[c] \in inbox',
         Carrying(c)' =>
            /\ entity'[c] \in ProjectionRow
            /\ Covered(inbox' \cup {message'[c]}, message'[c].unit, entity'[c].last),
         cpc'[c] = "write" /\ seen'[c] # None
            => projection'[message'[c].unit] # None
  PROVE  Working'
  <1>1. ASSUME NEW d \in Consumers \ {c}
        PROVE  /\ cpc'[d] # "idle" => message'[d] \in published'
               /\ cpc'[d] = "delete" => message'[d] \in inbox'
               /\ Carrying(d)' =>
                     /\ entity'[d] \in ProjectionRow
                     /\ Covered(inbox' \cup {message'[d]}, message'[d].unit, entity'[d].last)
               /\ cpc'[d] = "write" /\ seen'[d] # None
                     => projection'[message'[d].unit] # None
    <2>1. /\ cpc[d] # "idle" => message[d] \in published
          /\ cpc[d] = "delete" => message[d] \in inbox
          /\ Carrying(d) =>
                /\ entity[d] \in ProjectionRow
                /\ Covered(inbox \cup {message[d]}, message[d].unit, entity[d].last)
          /\ cpc[d] = "write" /\ seen[d] # None => projection[message[d].unit] # None
          /\ cpc[d] # "idle" => message[d].unit \in Units
      BY AtMessage DEF PInv, Working
    <2>2. Carrying(d)' <=> Carrying(d)
      BY DEF Carrying
    <2>3. Covered(inbox \cup {message[d]}, message[d].unit, entity[d].last)
             => Covered(inbox' \cup {message[d]}, message[d].unit, entity[d].last)
      BY CoveredByMore
    <2> QED BY <2>1, <2>2, <2>3
  <1> QED BY <1>1 DEF Working

----------------------------------------------------------------------------

(* Command, Publish and stuttering: no consumer moves.                     *)
LEMMA OutsideStep ==
  ASSUME PInv, IInv', outbox \subseteq outbox', UNCHANGED <<store, consumer>>,
         \/ UNCHANGED sqs
         \/ \E m \in outbox : Publish(m)
  PROVE  PInv'
  <1>1. UNCHANGED <<inbox, projection, cpc, message, entity, seen>>
    BY DEF store, consumer
  <1>2. \/ UNCHANGED <<published, queue>>
        \/ \E m \in outbox : /\ published' = published \cup {m}
                             /\ queue' = queue \cup {m}
    BY DEF sqs, Publish
  <1>3. /\ published \subseteq published'
        /\ published' \subseteq outbox' /\ queue' \subseteq published'
        /\ published' \ queue' \subseteq published \ queue
    BY <1>2 DEF PInv, TypeOK
  <1>4. RequestsTypeOK'
    BY DEF IInv
  <1>5. TypeOK'
    BY <1>1, <1>3, <1>4 DEF PInv, TypeOK
  <1>6. \A d \in Consumers : /\ cpc[d] # "idle" => message[d] \in published
                             /\ cpc[d] = "delete" => message[d] \in inbox
                             /\ Carrying(d) => /\ entity[d] \in ProjectionRow
                                               /\ Covered(inbox \cup {message[d]}, message[d].unit, entity[d].last)
                             /\ cpc[d] = "write" /\ seen[d] # None
                                   => projection[message[d].unit] # None
    BY DEF PInv, Working
  <1>7. Working'
    BY <1>1, <1>3, <1>6 DEF Working, Carrying, Covered
  <1>8. DeletedAfterCommit' /\ NoVersionSkipped'
    BY <1>1, <1>3 DEF PInv, DeletedAfterCommit, NoVersionSkipped
  <1> QED BY <1>5, <1>7, <1>8 DEF PInv

LEMMA ReceiveStep ==
  ASSUME PInv, IInv', outbox \subseteq outbox', NEW c \in Consumers,
         NEW m \in queue, Receive(c, m)
  PROVE  PInv'
  <1>1. /\ UNCHANGED <<outbox, published, queue, inbox, projection, entity, seen>>
        /\ cpc' = [cpc EXCEPT ![c] = "inbox"]
        /\ message' = [message EXCEPT ![c] = m]
    BY DEF Receive, maintenance, sqs, store
  <1>2. m \in published /\ m \in Message
    BY DEF PInv, TypeOK, RequestsTypeOK
  <1>3. TypeOK'
    BY <1>1, <1>2 DEF PInv, TypeOK, IInv
  <1>4. /\ cpc'[c] = "inbox" /\ message'[c] = m
        /\ \A d \in Consumers \ {c} : cpc'[d] = cpc[d] /\ message'[d] = message[d]
    BY <1>1 DEF PInv, TypeOK
  <1>5. ~Carrying(c)'
    BY <1>4 DEF Carrying
  <1>6. Working'
    <2>1. message'[c] \in published' /\ cpc'[c] # "delete" /\ cpc'[c] # "write"
      BY <1>1, <1>2, <1>4
    <2>2. \A d \in Consumers \ {c} : entity'[d] = entity[d] /\ seen'[d] = seen[d]
      BY <1>1
    <2> QED BY <1>1, <1>4, <1>5, <2>1, <2>2, OneMoves
  <1>7. DeletedAfterCommit' /\ NoVersionSkipped'
    BY <1>1 DEF PInv, DeletedAfterCommit, NoVersionSkipped
  <1> QED BY <1>3, <1>6, <1>7 DEF PInv

LEMMA InboxStep ==
  ASSUME PInv, IInv', outbox \subseteq outbox', NEW c \in Consumers,
         FindInbox(c) \/ SaveMarker(c)
  PROVE  PInv'
  <1> DEFINE next == IF FindInbox(c) THEN IF message[c] \in inbox THEN "delete" ELSE "marker"
                                     ELSE "load"
  <1>1. /\ UNCHANGED <<outbox, published, queue, inbox, projection, message, entity, seen>>
        /\ cpc[c] # "idle"
        /\ cpc' = [cpc EXCEPT ![c] = next]
        /\ next = "delete" => message[c] \in inbox
        /\ next \in {"marker", "delete", "load"}
    BY DEF FindInbox, SaveMarker, Goto, maintenance, sqs, store
  <1> HIDE DEF next
  <1>2. TypeOK'
    BY <1>1 DEF PInv, TypeOK, IInv
  <1>3. cpc'[c] = next /\ \A d \in Consumers \ {c} : cpc'[d] = cpc[d]
    BY <1>1 DEF PInv, TypeOK
  <1>4. Working'
    BY <1>1, <1>3, AtMessage, OneMoves DEF Carrying
  <1>5. DeletedAfterCommit' /\ NoVersionSkipped'
    BY <1>1 DEF PInv, DeletedAfterCommit, NoVersionSkipped
  <1> QED BY <1>2, <1>4, <1>5 DEF PInv

LEMMA LoadStep ==
  ASSUME PInv, IInv', outbox \subseteq outbox', NEW c \in Consumers,
         LoadProjection(c)
  PROVE  PInv'
  <1> DEFINE m == message[c]
             row == Current(m.unit)
             e == Applied(row, m)
  <1>1. /\ cpc[c] = "load"
        /\ UNCHANGED <<outbox, published, queue, projection, message, seen>>
    BY DEF LoadProjection, CommitMarker, Goto, maintenance, sqs
  <1>2. /\ m \in published /\ m \in outbox /\ m \in Message
        /\ m.unit \in Units /\ m.version \in Nat
    BY <1>1, AtMessage
  <1>3. row \in ProjectionRow /\ Covered(inbox, m.unit, row.last)
    BY <1>2, CurrentRow DEF PInv
  <1>4. CASE CommitMarker(c) /\ UNCHANGED entity
    <2>1. /\ inbox' = inbox \cup {m} /\ cpc' = [cpc EXCEPT ![c] = "delete"]
          /\ entity' = entity
      BY <1>4 DEF CommitMarker, Goto
    <2>2. TypeOK'
      BY <1>1, <1>2, <2>1 DEF PInv, TypeOK, IInv
    <2>3. cpc'[c] = "delete" /\ \A d \in Consumers \ {c} : cpc'[d] = cpc[d]
      BY <2>1 DEF PInv, TypeOK
    <2>4. Working'
      BY <1>1, <1>2, <2>1, <2>3, OneMoves DEF Carrying
    <2>5. DeletedAfterCommit' /\ NoVersionSkipped'
      BY <1>1, <2>1 DEF PInv, DeletedAfterCommit, NoVersionSkipped
    <2> QED BY <2>2, <2>4, <2>5 DEF PInv
  <1>5. CASE /\ m.version > row.last
             /\ entity' = [entity EXCEPT ![c] = e]
             /\ Goto(c, "select")
             /\ UNCHANGED inbox
    <2>1. cpc' = [cpc EXCEPT ![c] = "select"] /\ inbox' = inbox
      BY <1>5 DEF Goto
    <2>2. /\ e \in ProjectionRow
          /\ m.version = row.last + 1 => e.last = m.version
          /\ m.version # row.last + 1 => e.last = row.last
      BY <1>2, <1>3, AppliedRow
    <2> HIDE DEF e, row
    <2>3. Covered(inbox \cup {m}, m.unit, e.last)
      <3>1. CASE m.version = row.last + 1
        <4>1. \A v \in 0 .. m.version : v = m.version \/ v \in 0 .. row.last
          BY <1>2, <1>3, <3>1 DEF ProjectionRow
        <4> QED BY <1>3, <2>2, <3>1, <4>1 DEF Covered
      <3>2. CASE m.version # row.last + 1
        BY <1>3, <2>2, <3>2 DEF Covered
      <3> QED BY <3>1, <3>2
    <2>4. TypeOK'
      BY <1>1, <1>5, <2>1, <2>2 DEF PInv, TypeOK, IInv
    <2>5. /\ cpc'[c] = "select" /\ entity'[c] = e
          /\ \A d \in Consumers \ {c} : cpc'[d] = cpc[d] /\ entity'[d] = entity[d]
      BY <1>5, <2>1 DEF PInv, TypeOK
    <2>6. Working'
      BY <1>1, <1>2, <2>1, <2>2, <2>3, <2>5, OneMoves DEF Carrying
    <2>7. DeletedAfterCommit' /\ NoVersionSkipped'
      BY <1>1, <2>1 DEF PInv, DeletedAfterCommit, NoVersionSkipped
    <2> QED BY <2>4, <2>6, <2>7 DEF PInv
  <1> QED BY <1>4, <1>5 DEF LoadProjection

LEMMA SelectStep ==
  ASSUME PInv, IInv', outbox \subseteq outbox', NEW c \in Consumers,
         SelectProjection(c)
  PROVE  PInv'
  <1>1. /\ UNCHANGED <<outbox, published, queue, inbox, projection, message, entity>>
        /\ cpc[c] = "select" /\ cpc' = [cpc EXCEPT ![c] = "write"]
        /\ seen' = [seen EXCEPT ![c] = projection[message[c].unit]]
    BY DEF SelectProjection, Goto, maintenance, sqs, store
  <1>2. message[c].unit \in Units /\ message[c] \in published
    BY <1>1, AtMessage
  <1>3. TypeOK'
    BY <1>1, <1>2 DEF PInv, TypeOK, IInv
  <1>4. /\ cpc'[c] = "write" /\ seen'[c] = projection[message[c].unit]
        /\ \A d \in Consumers \ {c} : cpc'[d] = cpc[d] /\ seen'[d] = seen[d]
    BY <1>1 DEF PInv, TypeOK
  <1>5. /\ entity[c] \in ProjectionRow
        /\ Covered(inbox \cup {message[c]}, message[c].unit, entity[c].last)
    BY <1>1 DEF PInv, Working, Carrying
  <1>6. Working'
    BY <1>1, <1>2, <1>4, <1>5, OneMoves DEF Carrying
  <1>7. DeletedAfterCommit' /\ NoVersionSkipped'
    BY <1>1 DEF PInv, DeletedAfterCommit, NoVersionSkipped
  <1> QED BY <1>3, <1>6, <1>7 DEF PInv

(* A write of the projection that commits: of the entity, or of a mixture  *)
(* of it with the row.                                                     *)
Written(c, row) == /\ projection' = [projection EXCEPT ![message[c].unit] = row]
                   /\ CommitMarker(c)
                   /\ UNCHANGED <<entity, seen>>

LEMMA WriteCases ==
  ASSUME PInv, NEW c \in Consumers, WriteProjection(c)
  PROVE  LET old == projection[message[c].unit] IN
         \/ \E row \in ProjectionRow :
               /\ Written(c, row)
               /\ \/ seen[c] = None /\ old = None /\ row = entity[c]
                  \/ /\ seen[c] \in ProjectionRow /\ old \in ProjectionRow
                     /\ row = Updated(old, seen[c], entity[c])
         \/ Release(c) /\ UNCHANGED store
  <1>1. cpc[c] = "write"
    BY DEF WriteProjection
  <1>2. entity[c] \in ProjectionRow
    BY <1>1 DEF PInv, Working, Carrying
  <1>3. message[c].unit \in Units
    BY <1>1, AtMessage
  <1>4. /\ projection[message[c].unit] \in ProjectionRow \cup {None}
        /\ seen[c] \in ProjectionRow \cup {None}
        /\ seen[c] # None => projection[message[c].unit] # None
    BY <1>1, <1>3 DEF PInv, TypeOK, Working
  <1>5. CASE seen[c] = None
    BY <1>2, <1>5 DEF WriteProjection, Written
  <1>6. CASE seen[c] # None
    <2> DEFINE row == Updated(projection[message[c].unit], seen[c], entity[c])
    <2>1. row \in ProjectionRow
      BY <1>2, <1>4, <1>6, UpdatedRow
    <2>2. Written(c, row)
      BY <1>3, <1>6 DEF WriteProjection, Written, PInv, TypeOK
    <2> QED BY <1>4, <1>6, <2>1, <2>2
  <1> QED BY <1>5, <1>6

(* The message is released: nothing is left of it but what was committed.  *)
LEMMA Released ==
  ASSUME PInv, IInv', outbox \subseteq outbox', NEW c \in Consumers, Release(c),
         UNCHANGED <<published, store>>, queue' \subseteq queue
  PROVE  TypeOK' /\ Working' /\ NoVersionSkipped'
  <1>1. /\ cpc' = [cpc EXCEPT ![c] = "idle"] /\ message' = [message EXCEPT ![c] = None]
        /\ entity' = [entity EXCEPT ![c] = None] /\ seen' = [seen EXCEPT ![c] = None]
        /\ UNCHANGED <<inbox, projection>>
    BY DEF Release, store
  <1>2. TypeOK'
    <2>1. inbox' \subseteq outbox' /\ published' \subseteq outbox' /\ queue' \subseteq published'
      BY <1>1 DEF PInv, TypeOK
    <2> QED BY <1>1, <2>1 DEF PInv, TypeOK, IInv
  <1>3. /\ cpc'[c] = "idle"
        /\ \A d \in Consumers \ {c} : /\ cpc'[d] = cpc[d] /\ message'[d] = message[d]
                                      /\ entity'[d] = entity[d] /\ seen'[d] = seen[d]
    BY <1>1 DEF PInv, TypeOK
  <1>4. ~Carrying(c)'
    BY <1>3 DEF Carrying
  <1>5. Working'
    BY <1>1, <1>3, <1>4, OneMoves
  <1>6. NoVersionSkipped'
    BY <1>1 DEF PInv, NoVersionSkipped
  <1> QED BY <1>2, <1>5, <1>6

LEMMA WriteStep ==
  ASSUME PInv, IInv', outbox \subseteq outbox', NEW c \in Consumers,
         WriteProjection(c)
  PROVE  PInv'
  <1> DEFINE m == message[c]
             u == m.unit
  <1>1. cpc[c] = "write" /\ UNCHANGED <<outbox, published, queue>>
    BY DEF WriteProjection, maintenance, sqs
  <1>2. m \in published /\ m \in outbox /\ u \in Units
    BY <1>1, AtMessage
  <1>3. /\ entity[c] \in ProjectionRow
        /\ Covered(inbox \cup {m}, u, entity[c].last)
    BY <1>1 DEF PInv, Working, Carrying
  <1>4. ASSUME NEW row \in ProjectionRow, Written(c, row),
               \/ seen[c] = None /\ projection[u] = None /\ row = entity[c]
               \/ /\ seen[c] \in ProjectionRow /\ projection[u] \in ProjectionRow
                  /\ row = Updated(projection[u], seen[c], entity[c])
        PROVE  PInv'
    <2>1. /\ projection' = [projection EXCEPT ![u] = row]
          /\ inbox' = inbox \cup {m} /\ cpc' = [cpc EXCEPT ![c] = "delete"]
          /\ UNCHANGED <<message, entity, seen>>
      BY <1>4 DEF Written, CommitMarker, Goto
    <2>2. TypeOK'
      BY <1>1, <1>2, <2>1 DEF PInv, TypeOK, IInv
    <2>3. /\ cpc'[c] = "delete" /\ projection'[u] = row
          /\ \A d \in Consumers \ {c} : cpc'[d] = cpc[d]
          /\ \A v \in Units \ {u} : projection'[v] = projection[v]
      BY <1>2, <2>1 DEF PInv, TypeOK
    <2>4. \A v \in Units : projection[v] # None => projection'[v] # None
      BY <2>3
    <2>5. ~Carrying(c)'
      BY <2>3 DEF Carrying
    <2>6. Working'
      BY <1>1, <1>2, <2>1, <2>3, <2>4, <2>5, OneMoves
    <2>7. Covered(inbox', u, row.last)
      <3>1. row.last = entity[c].last \/ (row.last = projection[u].last /\ projection[u] # None)
        BY <1>3, <1>4, UpdatedRow
      <3>2. CASE row.last = entity[c].last
        BY <1>3, <2>1, <3>2
      <3>3. CASE row.last = projection[u].last /\ projection[u] # None
        <4>1. Covered(inbox, u, row.last)
          BY <1>2, <3>3 DEF PInv, NoVersionSkipped, Covered
        <4> QED BY <2>1, <4>1, CoveredByMore
      <3> QED BY <3>1, <3>2, <3>3
    <2>8. NoVersionSkipped'
      <3>1. ASSUME NEW v \in Units, projection'[v] # None
            PROVE  Covered(inbox', v, projection'[v].last)
        <4>1. CASE v = u
          BY <2>3, <2>7, <4>1
        <4>2. CASE v # u
          <5>1. Covered(inbox, v, projection'[v].last)
            BY <2>3, <3>1, <4>2 DEF PInv, NoVersionSkipped, Covered
          <5> QED BY <2>1, <5>1, CoveredByMore
        <4> QED BY <4>1, <4>2
      <3> QED BY <3>1 DEF NoVersionSkipped, Covered
    <2>9. DeletedAfterCommit'
      BY <1>1, <2>1 DEF PInv, DeletedAfterCommit
    <2> QED BY <2>2, <2>6, <2>8, <2>9 DEF PInv
  <1>5. CASE Release(c) /\ UNCHANGED store
    <2>1. TypeOK' /\ Working' /\ NoVersionSkipped'
      BY <1>1, <1>5, Released
    <2>2. DeletedAfterCommit'
      BY <1>1, <1>5 DEF PInv, DeletedAfterCommit, store
    <2> QED BY <2>1, <2>2 DEF PInv
  <1> QED BY <1>4, <1>5, WriteCases

LEMMA EndStep ==
  ASSUME PInv, IInv', outbox \subseteq outbox', NEW c \in Consumers,
         DeleteMessage(c) \/ Fail(c)
  PROVE  PInv'
  <1>1. /\ Release(c) /\ UNCHANGED <<outbox, published, store>>
        /\ \/ queue' = queue
           \/ queue' = queue \ {message[c]} /\ cpc[c] = "delete"
    BY DEF DeleteMessage, Fail, maintenance, sqs
  <1>2. TypeOK' /\ Working' /\ NoVersionSkipped'
    BY <1>1, Released
  <1>3. DeletedAfterCommit'
    BY <1>1 DEF PInv, Working, DeletedAfterCommit, store
  <1> QED BY <1>2, <1>3 DEF PInv

----------------------------------------------------------------------------

LEMMA InitPInv == Init => PInv
  <1> SUFFICES ASSUME Init PROVE PInv
    OBVIOUS
  <1>1. IInv
    BY DEF Init, InitRequests, IInv, RequestsTypeOK, Drafts, OutboxTellsAll
  <1>2. TypeOK
    BY <1>1 DEF Init, TypeOK, IInv, InitRequests
  <1>3. Working
    BY DEF Init, Working, Carrying
  <1>4. DeletedAfterCommit /\ NoVersionSkipped
    BY DEF Init, DeletedAfterCommit, NoVersionSkipped
  <1> QED BY <1>1, <1>2, <1>3, <1>4 DEF PInv

LEMMA NextPInv == PInv /\ [Next]_vars => PInv'
  <1> SUFFICES ASSUME PInv, [Next]_vars PROVE PInv'
    OBVIOUS
  <1>1. IInv' /\ outbox \subseteq outbox'
    BY Commands DEF PInv
  <1>2. CASE UNCHANGED vars
    BY <1>1, <1>2, OutsideStep DEF vars, readiness
  <1>3. CASE Command /\ UNCHANGED readiness
    BY <1>1, <1>3, OutsideStep DEF readiness
  <1>4. CASE \E m \in outbox : Publish(m)
    BY <1>1, <1>4, OutsideStep DEF Publish
  <1>5. ASSUME NEW c \in Consumers, Consume(c)
        PROVE  PInv'
    BY <1>1, <1>5, ReceiveStep, InboxStep, LoadStep, SelectStep, WriteStep,
       EndStep DEF Consume
  <1> QED BY <1>2, <1>3, <1>4, <1>5 DEF Next

LEMMA ProjectionInvariance == Spec => []PInv
  BY InitPInv, NextPInv, PTL DEF Spec

(* TypeOK: queue, tables and consumers keep their types.                   *)
THEOREM ProjectionTypeCorrect == Spec => []TypeOK
  <1>1. PInv => TypeOK
    BY DEF PInv
  <1> QED BY <1>1, ProjectionInvariance, PTL

(* DeletedAfterCommit: whichever consumer fails, and however often the     *)
(* queue hands a message out, it leaves the queue only when processed.     *)
THEOREM NeverLost == Spec => []DeletedAfterCommit
  <1>1. PInv => DeletedAfterCommit
    BY DEF PInv
  <1> QED BY <1>1, ProjectionInvariance, PTL

(* NoVersionSkipped: also where consumers overwrite each other's columns,  *)
(* a row names no version whose predecessors were not all processed.       *)
THEOREM NeverSkipping == Spec => []NoVersionSkipped
  <1>1. PInv => NoVersionSkipped
    BY DEF PInv
  <1> QED BY <1>1, ProjectionInvariance, PTL

----------------------------------------------------------------------------
(* What mixed columns cannot do.                                           *)

(* A step leaves the table alone, or it is the write of one consumer.      *)
LEMMA TableStep ==
  ASSUME PInv, [Next]_vars
  PROVE  /\ inbox \subseteq inbox'
         /\ \/ projection' = projection
            \/ \E c \in Consumers, row \in ProjectionRow :
                  /\ cpc[c] = "write" /\ cpc' = [cpc EXCEPT ![c] = "delete"]
                  /\ message[c] \in Message /\ message[c].unit \in Units
                  /\ message' = message /\ entity' = entity /\ seen' = seen
                  /\ projection' = [projection EXCEPT ![message[c].unit] = row]
                  /\ inbox' = inbox \cup {message[c]}
                  /\ \/ /\ projection[message[c].unit] = None
                        /\ row = entity[c]
                     \/ /\ seen[c] \in ProjectionRow
                        /\ projection[message[c].unit] \in ProjectionRow
                        /\ row = Updated(projection[message[c].unit], seen[c], entity[c])
  <1>1. CASE UNCHANGED store
    BY <1>1 DEF store
  <1>2. ASSUME NEW c \in Consumers, LoadProjection(c)
        PROVE  projection' = projection /\ inbox \subseteq inbox'
    BY <1>2 DEF LoadProjection, CommitMarker
  <1>3. ASSUME NEW c \in Consumers, WriteProjection(c), ~UNCHANGED store
        PROVE  \E row \in ProjectionRow :
                  /\ cpc[c] = "write" /\ cpc' = [cpc EXCEPT ![c] = "delete"]
                  /\ message[c] \in Message /\ message[c].unit \in Units
                  /\ message' = message /\ entity' = entity /\ seen' = seen
                  /\ projection' = [projection EXCEPT ![message[c].unit] = row]
                  /\ inbox' = inbox \cup {message[c]}
                  /\ \/ projection[message[c].unit] = None /\ row = entity[c]
                     \/ /\ seen[c] \in ProjectionRow
                        /\ projection[message[c].unit] \in ProjectionRow
                        /\ row = Updated(projection[message[c].unit], seen[c], entity[c])
    <2>1. cpc[c] = "write"
      BY <1>3 DEF WriteProjection
    <2>2. message[c] \in Message /\ message[c].unit \in Units
      BY <2>1, AtMessage
    <2>3. PICK row \in ProjectionRow :
             /\ Written(c, row)
             /\ \/ projection[message[c].unit] = None /\ row = entity[c]
                \/ /\ seen[c] \in ProjectionRow
                   /\ projection[message[c].unit] \in ProjectionRow
                   /\ row = Updated(projection[message[c].unit], seen[c], entity[c])
      BY <1>3, WriteCases
    <2> QED BY <2>1, <2>2, <2>3 DEF Written, CommitMarker, Goto
  <1>4. \/ UNCHANGED store
        \/ \E c \in Consumers : LoadProjection(c) \/ WriteProjection(c)
    BY DEF Next, vars, readiness, Publish, Consume, Receive, FindInbox, SaveMarker,
           SelectProjection, DeleteMessage, Fail
  <1> QED BY <1>1, <1>2, <1>3, <1>4

(* An entity that is carried on is the one it was, or was just made; so is *)
(* the row it will be compared with.                                       *)
LEMMA CarriedOn ==
  ASSUME PInv, [Next]_vars, NEW d \in Consumers, Carrying(d)'
  PROVE  /\ message'[d] = message[d] /\ cpc[d] # "idle"
         /\ \/ Carrying(d) /\ entity'[d] = entity[d]
            \/ /\ projection' = projection
               /\ message[d].version > Current(message[d].unit).last
               /\ entity'[d] = Applied(Current(message[d].unit), message[d])
         /\ cpc'[d] = "write" =>
               \/ cpc[d] = "write" /\ seen'[d] = seen[d]
               \/ projection' = projection /\ seen'[d] = projection[message[d].unit]
  <1>1. CASE UNCHANGED consumer
    BY <1>1 DEF consumer, Carrying
  <1>2. ASSUME NEW c \in Consumers, Consume(c), c # d
        PROVE  /\ cpc'[d] = cpc[d] /\ message'[d] = message[d]
               /\ entity'[d] = entity[d] /\ seen'[d] = seen[d]
    BY <1>2 DEF Consume, Receive, FindInbox, SaveMarker, LoadProjection,
                SelectProjection, WriteProjection, CommitMarker, DeleteMessage,
                Fail, Release, Goto, PInv, TypeOK
  <1>3. CASE LoadProjection(d)
    <2>1. message' = message /\ projection' = projection /\ cpc[d] = "load"
      BY <1>3 DEF LoadProjection, CommitMarker, Goto
    <2>2. \/ cpc'[d] = "delete"
          \/ /\ message[d].version > Current(message[d].unit).last
             /\ entity'[d] = Applied(Current(message[d].unit), message[d])
             /\ cpc'[d] = "select"
      BY <1>3 DEF LoadProjection, CommitMarker, Goto, PInv, TypeOK
    <2> QED BY <2>1, <2>2 DEF Carrying
  <1>4. CASE SelectProjection(d)
    BY <1>4 DEF SelectProjection, Goto, store, Carrying, PInv, TypeOK
  <1>5. ASSUME cpc' \in {[cpc EXCEPT ![d] = l] :
                            l \in {"idle", "inbox", "marker", "load", "delete"}}
        PROVE  FALSE
    BY <1>5 DEF Carrying, PInv, TypeOK
  <1>6. ASSUME Consume(d)
        PROVE  \/ LoadProjection(d) \/ SelectProjection(d)
               \/ cpc' \in {[cpc EXCEPT ![d] = l] :
                               l \in {"idle", "inbox", "marker", "load", "delete"}}
    BY <1>6 DEF Consume, Receive, FindInbox, SaveMarker, WriteProjection, CommitMarker,
                Goto, Release, DeleteMessage, Fail
  <1>7. UNCHANGED consumer \/ \E c \in Consumers : Consume(c)
    BY DEF Next, vars, readiness, Publish
  <1> QED BY <1>1, <1>2, <1>3, <1>4, <1>5, <1>6, <1>7 DEF Carrying

(* NeverBelow: with any number of consumers, a version is lost only to one *)
(* that had read the row before it was reached.                            *)
THEOREM LostToOldReadsOnly == Spec => NeverBelow
  <1> DEFINE Kept == \A u \in Units, v \in 0 .. MaxVersion :
                        AtLeast(u, v) => AtLeast(u, v)'
  <1>1. PInv /\ [Next]_vars => [Kept]_vars
    <2> SUFFICES ASSUME PInv, [Next]_vars,
                        NEW u \in Units, NEW v \in 0 .. MaxVersion, AtLeast(u, v)
                 PROVE  AtLeast(u, v)'
      OBVIOUS
    <2>1. projection[u] \in ProjectionRow /\ projection[u].last >= v
      BY DEF AtLeast, PInv, TypeOK
    <2>2. \A c \in Consumers : Carrying(c) =>
             /\ entity[c] \in ProjectionRow
             /\ message[c].unit = u => entity[c].last >= v
      BY DEF AtLeast, Carrying, PInv, Working
    <2>3. projection'[u] # None /\ projection'[u].last >= v
      <3>1. CASE projection' = projection
        BY <2>1, <3>1
      <3>2. ASSUME NEW c \in Consumers, NEW row \in ProjectionRow,
                   cpc[c] = "write", message[c].unit \in Units,
                   projection' = [projection EXCEPT ![message[c].unit] = row],
                   \/ projection[message[c].unit] = None
                   \/ /\ seen[c] \in ProjectionRow
                      /\ projection[message[c].unit] \in ProjectionRow
                      /\ row = Updated(projection[message[c].unit], seen[c], entity[c])
            PROVE  projection'[u] # None /\ projection'[u].last >= v
        <4>1. CASE message[c].unit # u
          BY <2>1, <3>2, <4>1 DEF PInv, TypeOK
        <4>2. CASE message[c].unit = u
          <5>1. entity[c] \in ProjectionRow /\ entity[c].last >= v
            BY <2>2, <3>2, <4>2 DEF Carrying
          <5>2. row = Updated(projection[u], seen[c], entity[c])
            BY <2>1, <3>2, <4>2
          <5>3. row.last \in {projection[u].last, entity[c].last}
            BY <5>2 DEF Updated
          <5>4. projection'[u] = row
            BY <3>2, <4>2 DEF PInv, TypeOK
          <5> QED BY <2>1, <5>1, <5>3, <5>4
        <4> QED BY <4>1, <4>2
      <3> QED BY <3>1, <3>2, TableStep
    <2>4. ASSUME NEW d \in Consumers, Carrying(d)', message'[d].unit = u
          PROVE  entity'[d].last >= v
      <3>1. message[d].unit = u /\ cpc[d] # "idle"
        BY <2>4, CarriedOn
      <3>2. CASE Carrying(d) /\ entity'[d] = entity[d]
        BY <2>2, <3>1, <3>2
      <3>3. CASE entity'[d] = Applied(Current(u), message[d])
                 /\ message[d].version > Current(u).last
        <4>1. Current(u) = projection[u]
          BY <2>1 DEF Current
        <4>2. message[d] \in Message /\ message[d].version \in Nat
          BY <3>1, AtMessage
        <4>3. \/ entity'[d].last = message[d].version
              \/ entity'[d].last = projection[u].last
          BY <2>1, <3>3, <4>1, <4>2, AppliedRow DEF Applied
        <4> QED BY <2>1, <3>3, <4>1, <4>2, <4>3 DEF ProjectionRow
      <3> QED BY <2>4, <3>1, <3>2, <3>3, CarriedOn
    <2> QED BY <2>3, <2>4 DEF AtLeast, Carrying
  <1>2. [][Kept]_vars <=> NeverBelow
    BY DEF NeverBelow
  <1> QED BY <1>1, <1>2, ProjectionInvariance, PTL DEF Spec

----------------------------------------------------------------------------

Blocks(S, u) == \E m \in S : m.unit = u /\ m.blocking
Frees(S, u) == \E m \in S : m.unit = u /\ ~m.blocking

\* A row of a unit that nobody has freed: as fresh, or blocked at version 0.
Unfreed(row) == \/ row.ready /\ row.last = -1
                \/ ~row.ready /\ row.last = 0

Blocked ==
    /\ \A u \in Units :
          projection[u] # None /\ ~projection[u].ready => Blocks(inbox, u)
    /\ \A c \in Consumers :
          Carrying(c) /\ ~entity[c].ready
             => Blocks(inbox \cup {message[c]}, message[c].unit)

Sourced ==
    \A u \in Units :
       ~Frees(inbox, u) =>
          /\ projection[u] # None => Unfreed(projection[u])
          /\ \A c \in Consumers :
                /\ Carrying(c) /\ message[c].unit = u /\ message[c].blocking
                      => Unfreed(entity[c])
                /\ cpc[c] = "write" /\ message[c].unit = u /\ seen[c] # None
                      => Unfreed(seen[c])

(* Only an opening blocks, and it is the first of its request's versions.  *)
LEMMA BlockingIsFirst ==
  ASSUME PInv, NEW m \in outbox, m.blocking
  PROVE  m.version = 0
  <1>1. m \in Message /\ m.request \in Requests
    BY DEF PInv, TypeOK, RequestsTypeOK, Message
  <1>2. m \in {k \in outbox : k.request = m.request}
    OBVIOUS
  <1>3. \/ m = Opened(m.request, requests[m.request])
        \/ m = Resolved(m.request, requests[m.request])
    BY <1>1, <1>2 DEF PInv, IInv, OutboxTellsAll
  <1>4. m # Resolved(m.request, requests[m.request])
    BY DEF Resolved
  <1>5. m = Opened(m.request, requests[m.request])
    BY <1>3, <1>4
  <1> QED BY <1>5 DEF Opened

LEMMA UnfreedMixture ==
  ASSUME NEW row \in ProjectionRow, NEW s \in ProjectionRow, NEW e \in ProjectionRow,
         Unfreed(row), Unfreed(s), Unfreed(e)
  PROVE  Unfreed(Updated(row, s, e))
  BY DEF Unfreed, Updated, ProjectionRow

LEMMA BlockedStep ==
  ASSUME PInv, Blocked, [Next]_vars
  PROVE  Blocked'
  <1>1. inbox \subseteq inbox'
    BY TableStep
  <1>2. ASSUME NEW u \in Units, projection'[u] # None, ~projection'[u].ready
        PROVE  Blocks(inbox', u)
    <2>1. CASE projection'[u] = projection[u]
      BY <1>1, <1>2, <2>1 DEF Blocked, Blocks
    <2>2. ASSUME NEW c \in Consumers, NEW row \in ProjectionRow,
                 cpc[c] = "write", message[c].unit \in Units,
                 projection' = [projection EXCEPT ![message[c].unit] = row],
                 inbox' = inbox \cup {message[c]},
                 \/ row = entity[c]
                 \/ /\ projection[message[c].unit] \in ProjectionRow
                    /\ row = Updated(projection[message[c].unit], seen[c], entity[c])
          PROVE  Blocks(inbox', u)
      <3>1. CASE message[c].unit # u
        BY <2>1, <2>2, <3>1 DEF PInv, TypeOK
      <3>2. CASE message[c].unit = u
        <4>1. projection'[u] = row /\ ~row.ready
          BY <1>2, <2>2, <3>2 DEF PInv, TypeOK
        <4>2. row.ready = entity[c].ready
              \/ (projection[u] # None /\ row.ready = projection[u].ready)
          BY <2>2, <3>2 DEF Updated
        <4>3. ~entity[c].ready => Blocks(inbox', u)
          BY <2>2, <3>2 DEF Blocked, Carrying
        <4>4. projection[u] # None /\ ~projection[u].ready => Blocks(inbox', u)
          BY <1>1 DEF Blocked, Blocks
        <4> QED BY <4>1, <4>2, <4>3, <4>4
      <3> QED BY <3>1, <3>2
    <2> QED BY <2>1, <2>2, TableStep
  <1>3. ASSUME NEW d \in Consumers, Carrying(d)', ~entity'[d].ready
        PROVE  Blocks(inbox' \cup {message'[d]}, message'[d].unit)
    <2>1. message'[d] = message[d] /\ cpc[d] # "idle"
      BY <1>3, CarriedOn
    <2>2. CASE Carrying(d) /\ entity'[d] = entity[d]
      BY <1>1, <1>3, <2>1, <2>2 DEF Blocked, Blocks
    <2>3. CASE entity'[d] = Applied(Current(message[d].unit), message[d])
      <3> DEFINE row == Current(message[d].unit)
      <3>1. message[d] \in Message /\ message[d].unit \in Units
        BY <2>1, AtMessage
      <3>2. row \in ProjectionRow
        BY <3>1, CurrentRow DEF PInv
      <3>3. CASE entity'[d].ready = ~message[d].blocking
        BY <1>3, <2>1, <3>3 DEF Blocks
      <3>4. CASE entity'[d].ready = row.ready
        <4>1. projection[message[d].unit] # None /\ row = projection[message[d].unit]
          BY <1>3, <3>4, FreshRow DEF Current
        <4> QED BY <1>1, <1>3, <2>1, <3>1, <3>4, <4>1 DEF Blocked, Blocks
      <3> QED BY <2>3, <3>1, <3>2, <3>3, <3>4 DEF Applied
    <2> QED BY <1>3, <2>2, <2>3, CarriedOn
  <1> QED BY <1>2, <1>3 DEF Blocked

LEMMA SourcedStep ==
  ASSUME PInv, Sourced, [Next]_vars
  PROVE  Sourced'
  <1> SUFFICES ASSUME NEW u \in Units, ~Frees(inbox', u)
               PROVE  /\ projection'[u] # None => Unfreed(projection'[u])
                      /\ \A d \in Consumers :
                            /\ Carrying(d)' /\ message'[d].unit = u /\ message'[d].blocking
                                  => Unfreed(entity'[d])
                            /\ cpc'[d] = "write" /\ message'[d].unit = u /\ seen'[d] # None
                                  => Unfreed(seen'[d])
    BY DEF Sourced, Frees, Unfreed
  <1>1. ~Frees(inbox, u)
    BY TableStep DEF Frees
  <1>2. /\ projection[u] # None => Unfreed(projection[u]) /\ projection[u] \in ProjectionRow
        /\ \A c \in Consumers :
              /\ Carrying(c) /\ message[c].unit = u /\ message[c].blocking
                    => Unfreed(entity[c]) /\ entity[c] \in ProjectionRow
              /\ cpc[c] = "write" /\ message[c].unit = u /\ seen[c] # None
                    => Unfreed(seen[c])
    BY <1>1 DEF Sourced, PInv, TypeOK, Working
  <1>3. projection'[u] # None => Unfreed(projection'[u])
    <2>1. CASE projection' = projection
      BY <1>2, <2>1
    <2>2. ASSUME NEW c \in Consumers, NEW row \in ProjectionRow,
                 cpc[c] = "write", message[c].unit \in Units,
                 message[c] \in Message,
                 projection' = [projection EXCEPT ![message[c].unit] = row],
                 inbox' = inbox \cup {message[c]},
                 \/ projection[message[c].unit] = None /\ row = entity[c]
                 \/ /\ seen[c] \in ProjectionRow
                    /\ projection[message[c].unit] \in ProjectionRow
                    /\ row = Updated(projection[message[c].unit], seen[c], entity[c])
          PROVE  projection'[u] # None => Unfreed(projection'[u])
      <3>1. CASE message[c].unit # u
        BY <1>2, <2>2, <3>1 DEF PInv, TypeOK
      <3>2. CASE message[c].unit = u
        <4>1. projection'[u] = row
          BY <2>2, <3>2 DEF PInv, TypeOK
        <4>2. message[c].blocking
          BY <2>2, <3>2 DEF Frees, Message
        <4>3. Unfreed(entity[c]) /\ entity[c] \in ProjectionRow
          BY <1>2, <2>2, <3>2, <4>2 DEF Carrying
        <4>4. CASE row = entity[c]
          BY <4>1, <4>3, <4>4
        <4>5. CASE /\ seen[c] \in ProjectionRow
                   /\ projection[u] \in ProjectionRow
                   /\ row = Updated(projection[u], seen[c], entity[c])
          <5>1. seen[c] # None /\ projection[u] # None
            BY <4>5
          <5>2. Unfreed(seen[c]) /\ Unfreed(projection[u])
            BY <1>2, <2>2, <3>2, <5>1
          <5> QED BY <4>1, <4>3, <4>5, <5>2, UnfreedMixture
        <4> QED BY <2>2, <3>2, <4>4, <4>5
      <3> QED BY <3>1, <3>2
    <2> QED BY <2>1, <2>2, TableStep
  <1>4. ASSUME NEW d \in Consumers, Carrying(d)', message'[d].unit = u, message'[d].blocking
        PROVE  Unfreed(entity'[d])
    <2>1. message'[d] = message[d] /\ cpc[d] # "idle"
      BY <1>4, CarriedOn
    <2>2. CASE Carrying(d) /\ entity'[d] = entity[d]
      BY <1>2, <1>4, <2>1, <2>2
    <2>3. CASE /\ message[d].version > Current(u).last
               /\ entity'[d] = Applied(Current(u), message[d])
      <3>1. message[d] \in outbox /\ message[d] \in Message
        BY <2>1, AtMessage
      <3>2. message[d].version = 0
        BY <1>4, <2>1, <3>1, BlockingIsFirst
      <3>3. Current(u) \in ProjectionRow /\ Current(u).last = -1
        <4>1. Current(u) \in ProjectionRow
          BY CurrentRow DEF PInv
        <4> QED BY <2>3, <3>2, <4>1 DEF ProjectionRow
      <3>4. entity'[d] = [ready |-> ~message[d].blocking, last |-> 0, status |-> "ACTIVE"]
        BY <2>3, <3>1, <3>2, <3>3, AppliedRow
      <3>5. entity'[d].ready = ~message[d].blocking /\ entity'[d].last = 0
        BY <3>4
      <3>6. message[d].blocking
        BY <1>4, <2>1
      <3> QED BY <3>5, <3>6, Zenon DEF Unfreed
    <2> QED BY <1>4, <2>1, <2>2, <2>3, CarriedOn
  <1>5. ASSUME NEW d \in Consumers, cpc'[d] = "write", message'[d].unit = u, seen'[d] # None
        PROVE  Unfreed(seen'[d])
    <2>1. Carrying(d)'
      BY <1>5 DEF Carrying
    <2>2. message'[d] = message[d]
      BY <2>1, CarriedOn
    <2>3. \/ cpc[d] = "write" /\ seen'[d] = seen[d]
          \/ seen'[d] = projection[message[d].unit]
      BY <1>5, <2>1, CarriedOn
    <2> QED BY <1>2, <1>5, <2>2, <2>3
  <1> QED BY <1>3, <1>4, <1>5

(* VerdictHasSource: with any number of consumers that overwrite each      *)
(* other's columns, no row carries a verdict that no message gave.         *)
THEOREM AlwaysSourced == Spec => []VerdictHasSource
  <1>1. Init => Blocked /\ Sourced
    BY DEF Init, Blocked, Sourced, Carrying
  <1>2. PInv /\ Blocked /\ Sourced /\ [Next]_vars => Blocked' /\ Sourced'
    BY BlockedStep, SourcedStep
  <1>3. ASSUME PInv, Blocked, Sourced PROVE VerdictHasSource
    <2> SUFFICES ASSUME NEW u \in Units, projection[u] # None,
                        projection[u].ready => projection[u].last # -1
                 PROVE  \E m \in inbox : m.unit = u /\ m.blocking = ~projection[u].ready
      BY DEF VerdictHasSource
    <2>1. projection[u].ready \in BOOLEAN /\ \A m \in inbox : m.blocking \in BOOLEAN
      BY <1>3 DEF PInv, TypeOK, RequestsTypeOK, Message, ProjectionRow
    <2>2. CASE ~projection[u].ready
      <3>1. PICK m \in inbox : m.unit = u /\ m.blocking
        BY <1>3, <2>2 DEF Blocked, Blocks
      <3> QED BY <2>1, <2>2, <3>1, Zenon
    <2>3. CASE projection[u].ready
      <3>1. ~Unfreed(projection[u])
        BY <2>3 DEF Unfreed
      <3>2. PICK m \in inbox : m.unit = u /\ ~m.blocking
        BY <1>3, <3>1 DEF Sourced, Frees
      <3> QED BY <2>1, <2>3, <3>2, Zenon
    <2> QED BY <2>2, <2>3
  <1> QED BY <1>1, <1>2, <1>3, ProjectionInvariance, PTL DEF Spec
=============================================================================
