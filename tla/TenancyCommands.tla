--------------------------- MODULE TenancyCommands ---------------------------
(***************************************************************************)
(* The command side of the tenancy context: the use cases of               *)
(* src/tenancy/application/commands, run by concurrent HTTP requests       *)
(* against PostgreSQL through the TypeORM repositories.                    *)
(*                                                                         *)
(* No use case opens a transaction: every statement a repository issues    *)
(* commits by itself, and other requests run between any two of them.  A   *)
(* request that saves an invitation, one that saves a handover protocol,   *)
(* and one that saves a tenancy go through the steps                       *)
(*                                                                         *)
(*    load, guards,  InvitationCheck  InvitationSelect  InvitationWrite    *)
(*    load, guards,  ProtocolCheck    ProtocolSelect    ProtocolWrite      *)
(*    load, guards,  CheckVersion     SaveSelect        SaveWrite          *)
(*                   SaveJournal      SaveDispatch      SaveOutbox         *)
(*                                                                         *)
(* The select and the write are the two statements of TypeORM's            *)
(* repo.save(entity): read the row, then write the columns in which the    *)
(* entity differs from what was read (WHERE id = ... only; a version       *)
(* column that is not among them is incremented), or insert the entity     *)
(* when there was no row.                                                  *)
(*                                                                         *)
(* Identifiers are chosen by the clients, and a client may send a command  *)
(* twice.  RegisterUnit is one action, because nothing but the existence   *)
(* of the unit is ever read.                                               *)
(***************************************************************************)
EXTENDS Naturals, FiniteSets

CONSTANTS Units, Invitations, Tenancies, Handovers,  \* identifiers (UUIDs)
          Requests,      \* the requests in flight at the same time
          NoticeDates,   \* notice dates a command may carry
          MaxDay,        \* lease dates are taken from 1..MaxDay
          MaxVersion,    \* bound: no command is loaded at this version
          MaxEntries,    \* bound: readings and checks of one protocol
          MaxSealed,     \* bound: no protocol beyond this version is confirmed
          None           \* SQL NULL, or no row

Days == 1..MaxDay

TenancyRow == [unit: Units, from: Days, to: Days,
               status: {"RESERVED", "ACTIVE", "TERMINATED", "ENDED"},
               notice: NoticeDates \cup {None}, version: Nat]

InvitationRow == [unit: Units, status: {"PENDING", "ACCEPTED"}, version: Nat]

\* Every protocol that is stored has been closed.
ProtocolRow == [tenancy: Tenancies, version: Nat]

ASSUME TenancyCommandsAssumption ==
    /\ MaxDay \in Nat
    /\ MaxVersion \in Nat
    /\ MaxEntries \in Nat
    /\ MaxSealed \in Nat
    /\ None \notin TenancyRow \cup InvitationRow \cup ProtocolRow
                   \cup Tenancies \cup NoticeDates

VARIABLES
    units,        \* rental_units: the registered units
    invitations,  \* tenancy_invitations, by id
    expired,      \* the invitations whose expiresAt has passed
    handovers,    \* handover_protocols, by id
    tenancies,    \* tenancies, by id
    journal,      \* domain_event_journal: <<aggregate id, its version>>
    dispatches,   \* local_event_dispatches, by the event they are for
    outbox,       \* integration_outbox, by the event they are for
    accepted,     \* history: the invitations that were ever stored as accepted
    handed,       \* history: the tenancies a protocol was ever stored for
    orphaned,     \* history: the tenancies whose activation was saved and
                  \*          whose request died before it saved the event
    pc,           \* the next statement of each request, "idle" if none
    target,       \* the tenancy the request works on
    source,       \* the invitation or handover protocol the request names
    invite,       \* the invitation aggregate in the request's memory
    protocol,     \* the handover protocol in the request's memory
    entity,       \* the tenancy aggregate in the request's memory
    seen          \* the row repo.save has selected

tables == <<units, invitations, expired, handovers, tenancies>>
events == <<journal, dispatches, outbox>>
history == <<accepted, handed, orphaned>>
locals == <<pc, target, source, invite, protocol, entity, seen>>
vars == <<tables, events, history, locals>>

Events == Tenancies \X Nat

----------------------------------------------------------------------------
(* The exclusion constraint uq_tenancy_overlap_prevention, and the query   *)
(* hasOverlappingTenancy, which reads the same condition.                  *)

Occupying(row) == row.status \in {"RESERVED", "ACTIVE"}

\* Variant: the constraint's range is written '[)' and leaves out its end.
SameDays_HalfOpen(row1, row2) == row1.from < row2.to /\ row2.from < row1.to

SameDays(row1, row2) == row1.from <= row2.to /\ row2.from <= row1.to

Overlaps(t, row) ==
    \E o \in Tenancies \ {t} :
        /\ tenancies[o] # None
        /\ tenancies[o].unit = row.unit
        /\ Occupying(tenancies[o])
        /\ SameDays(tenancies[o], row)

\* Variant: the migration leaves the constraint out; only the query guards.
Admissible_Unguarded(t, row) == TRUE

\* PostgreSQL accepts the row: it is outside the constraint's WHERE, or its
\* range is well formed and overlaps nobody's.
Admissible(t, row) ==
    Occupying(row) => row.from <= row.to /\ ~Overlaps(t, row)

----------------------------------------------------------------------------
(* What a request does when it ends, fails or dies: its memory is gone.    *)

Finish(r) == /\ pc' = [pc EXCEPT ![r] = "idle"]
             /\ target' = [target EXCEPT ![r] = None]
             /\ source' = [source EXCEPT ![r] = None]
             /\ invite' = [invite EXCEPT ![r] = None]
             /\ protocol' = [protocol EXCEPT ![r] = None]
             /\ entity' = [entity EXCEPT ![r] = None]
             /\ seen' = [seen EXCEPT ![r] = None]

Goto(r, l) == /\ pc' = [pc EXCEPT ![r] = l]
              /\ UNCHANGED <<target, source, invite, protocol, entity, seen>>

\* A use case has loaded, or built, the aggregates i (an invitation) and
\* e (tenancy t), or None for the one it does not work on.
Start(r, l, t, s, i, e) == /\ pc[r] = "idle"
                           /\ pc' = [pc EXCEPT ![r] = l]
                           /\ target' = [target EXCEPT ![r] = t]
                           /\ source' = [source EXCEPT ![r] = s]
                           /\ invite' = [invite EXCEPT ![r] = i]
                           /\ entity' = [entity EXCEPT ![r] = e]
                           /\ UNCHANGED <<protocol, seen>>

\* One column of TypeORM's UPDATE: set to the entity's value when that is
\* not the value the select saw, else left as it is stored.
Column(stored, old, new) == IF new # old THEN new ELSE stored

----------------------------------------------------------------------------
(* RegisterUnitUseCase.                                                    *)

RegisterUnit(u) ==
    /\ u \notin units
    /\ units' = units \cup {u}
    /\ UNCHANGED <<invitations, expired, handovers, tenancies, events, history,
                   locals>>

----------------------------------------------------------------------------
(* The clock.                                                              *)

Expire(i) ==
    /\ invitations[i] # None
    /\ i \notin expired
    /\ expired' = expired \cup {i}
    /\ UNCHANGED <<units, invitations, handovers, tenancies, events, history,
                   locals>>

----------------------------------------------------------------------------
(* InviteTenantUseCase and AcceptInvitationUseCase, up to the point where  *)
(* the invitation is saved.                                                *)

Unused(i) == invitations[i] = None /\ \A q \in Requests : source[q] # i

\* The same command was sent before: it is in flight, or was stored.
SentBefore(i, u) ==
    \/ invitations[i] # None /\ invitations[i].unit = u
    \/ \E q \in Requests :
          source[q] = i /\ invite[q] # None /\ invite[q].unit = u

InviteLoad(r, i, u) ==
    /\ u \in units
    /\ Unused(i) \/ SentBefore(i, u)
    /\ Start(r, "inviteCheck", None, i,
             [unit |-> u, status |-> "PENDING", version |-> 0], None)
    /\ UNCHANGED <<tables, events, history>>

Reservation(u, from, to) ==
    [unit |-> u, from |-> from, to |-> to,
     status |-> "RESERVED", notice |-> None, version |-> 0]

\* findById, isExpired; accept() and the constructor fail on what is loaded
\* here or on the command itself, so their guards are taken here too.
AcceptLoad(r, i, t, from, to) ==
    /\ invitations[i] # None
    /\ i \notin expired
    /\ invitations[i].status = "PENDING"
    /\ invitations[i].version < MaxVersion
    /\ from <= to
    /\ Start(r, "overlap", t, i, [invitations[i] EXCEPT !.status = "ACCEPTED"],
             Reservation(invitations[i].unit, from, to))
    /\ UNCHANGED <<tables, events, history>>

\* Variant: the tenancy is saved and the invitation is not.
AcceptOverlap_TenancyOnly(r) ==
    /\ pc[r] = "overlap"
    /\ \/ ~Overlaps(None, entity[r]) /\ Goto(r, "check")
       \/ Overlaps(None, entity[r]) /\ Finish(r)
    /\ UNCHANGED <<tables, events, history>>

AcceptOverlap(r) ==
    /\ pc[r] = "overlap"
    /\ \/ ~Overlaps(None, entity[r]) /\ Goto(r, "inviteCheck")
       \/ Overlaps(None, entity[r]) /\ Finish(r)
    /\ UNCHANGED <<tables, events, history>>

----------------------------------------------------------------------------
(* TypeOrmTenancyInvitationRepository.save.                                *)

\* Variant: save() does not compare the versions.
InvitationCheck_Uncompared(r) ==
    LET row == invitations[source[r]]
    IN /\ pc[r] = "inviteCheck"
       /\ pc' = [pc EXCEPT ![r] = "inviteSelect"]
       /\ invite' = [invite EXCEPT ![r].version = IF row = None THEN 0
                                                 ELSE row.version + 1]
       /\ UNCHANGED <<tables, events, history, target, source, protocol, entity,
                      seen>>

InvitationCheck(r) ==
    LET row == invitations[source[r]]
        Keep(v) == /\ pc' = [pc EXCEPT ![r] = "inviteSelect"]
                   /\ invite' = [invite EXCEPT ![r].version = v]
                   /\ UNCHANGED <<target, source, protocol, entity, seen>>
    IN /\ pc[r] = "inviteCheck"
       /\ \/ row = None /\ Keep(0)
          \/ /\ row # None /\ row.version = invite[r].version
             /\ Keep(row.version + 1)
          \/ row # None /\ row.version # invite[r].version /\ Finish(r)
       /\ UNCHANGED <<tables, events, history>>

InvitationSelect(r) ==
    /\ pc[r] = "inviteSelect"
    /\ seen' = [seen EXCEPT ![r] = invitations[source[r]]]
    /\ pc' = [pc EXCEPT ![r] = "inviteWrite"]
    /\ UNCHANGED <<tables, events, history, target, source, invite, protocol,
                   entity>>

InvitationUpdated(row, s, i) ==
    [unit |-> Column(row.unit, s.unit, i.unit),
     status |-> Column(row.status, s.status, i.status),
     version |-> IF i.version # s.version THEN i.version ELSE row.version + 1]

InvitationWritten(r) ==
    LET row == invitations[source[r]]
        s == seen[r]
        i == invite[r]
    IN IF s = None THEN i ELSE IF i = s THEN row ELSE InvitationUpdated(row, s, i)

\* A second INSERT of the id fails.  Then an invitation is sent, and an
\* acceptance goes on to save its tenancy.
InvitationWrite(r) ==
    /\ pc[r] = "inviteWrite"
    /\ \/ /\ seen[r] = None => invitations[source[r]] = None
          /\ invitations' = [invitations EXCEPT ![source[r]] = InvitationWritten(r)]
          /\ accepted' = IF InvitationWritten(r).status = "ACCEPTED"
                          THEN accepted \cup {source[r]} ELSE accepted
          /\ \/ target[r] = None /\ Finish(r)
             \/ /\ target[r] # None
                /\ pc' = [pc EXCEPT ![r] = "check"]
                /\ seen' = [seen EXCEPT ![r] = None]
                /\ UNCHANGED <<target, source, invite, protocol, entity>>
       \/ /\ seen[r] = None /\ invitations[source[r]] # None
          /\ Finish(r)
          /\ UNCHANGED <<invitations, accepted>>
    /\ UNCHANGED <<units, expired, handovers, tenancies, events,
                   handed, orphaned>>

----------------------------------------------------------------------------
(* ConfirmHandoverUseCase and TypeOrmHandoverProtocolRepository.save.      *)

\* findById answers: a row whose dates are out of order throws.
Readable(t) == tenancies[t] # None /\ tenancies[t].from <= tenancies[t].to

Confirmable(h) == handovers[h] # None => handovers[h].version < MaxSealed

\* Variant: the versions of a protocol count its entries only.
ConfirmLoad_CloseUncounted(r, h, t, n) ==
    /\ Readable(t)
    /\ Confirmable(h)
    /\ pc[r] = "idle"
    /\ pc' = [pc EXCEPT ![r] = "protocolCheck"]
    /\ source' = [source EXCEPT ![r] = h]
    /\ protocol' = [protocol EXCEPT ![r] = [tenancy |-> t, version |-> n]]
    /\ UNCHANGED <<tables, events, history, target, invite, entity, seen>>

\* The protocol is always a new aggregate: each of its n entries and
\* close() have counted its version up.
ConfirmLoad(r, h, t, n) ==
    /\ Readable(t)
    /\ Confirmable(h)
    /\ pc[r] = "idle"
    /\ pc' = [pc EXCEPT ![r] = "protocolCheck"]
    /\ source' = [source EXCEPT ![r] = h]
    /\ protocol' = [protocol EXCEPT ![r] = [tenancy |-> t, version |-> n + 1]]
    /\ UNCHANGED <<tables, events, history, target, invite, entity, seen>>

ProtocolCheck(r) ==
    LET row == handovers[source[r]]
        Keep(v) == /\ pc' = [pc EXCEPT ![r] = "protocolSelect"]
                   /\ protocol' = [protocol EXCEPT ![r].version = v]
                   /\ UNCHANGED <<target, source, invite, entity, seen>>
    IN /\ pc[r] = "protocolCheck"
       /\ \/ row = None /\ Keep(0)
          \/ row # None /\ row.version = protocol[r].version /\ Keep(row.version + 1)
          \/ row # None /\ row.version # protocol[r].version /\ Finish(r)
       /\ UNCHANGED <<tables, events, history>>

ProtocolSelect(r) ==
    /\ pc[r] = "protocolSelect"
    /\ seen' = [seen EXCEPT ![r] = handovers[source[r]]]
    /\ pc' = [pc EXCEPT ![r] = "protocolWrite"]
    /\ UNCHANGED <<tables, events, history, target, source, invite, protocol,
                   entity>>

\* What an UPDATE may make of the row.  Readings and checklist are not kept:
\* where nothing else differs they may, and then the version is counted up.
ProtocolUpdated(row, s, p) ==
    IF p = s
    THEN {row, [row EXCEPT !.version = @ + 1]}
    ELSE {[tenancy |-> Column(row.tenancy, s.tenancy, p.tenancy),
           version |-> IF p.version # s.version THEN p.version ELSE row.version + 1]}

\* A second INSERT of the id fails.
ProtocolWrite(r) ==
    LET row == handovers[source[r]]
        Store(new) == /\ handovers' = [handovers EXCEPT ![source[r]] = new]
                      /\ handed' = handed \cup {new.tenancy}
    IN /\ pc[r] = "protocolWrite"
       /\ \/ seen[r] = None /\ row = None /\ Store(protocol[r])
          \/ seen[r] = None /\ row # None /\ UNCHANGED <<handovers, handed>>
          \/ /\ seen[r] # None
             /\ \E new \in ProtocolUpdated(row, seen[r], protocol[r]) : Store(new)
       /\ Finish(r)
       /\ UNCHANGED <<units, invitations, expired, tenancies, events,
                      accepted, orphaned>>

----------------------------------------------------------------------------
(* ActivateTenancyUseCase, GiveNoticeUseCase, EndTenancyUseCase.  The      *)
(* aggregate's methods are applied to the row as it was loaded.            *)

Loadable(t) == Readable(t) /\ tenancies[t].version < MaxVersion

ActivateLoad(r, t, h) ==
    /\ Loadable(t)
    /\ tenancies[t].status = "RESERVED"
    /\ Start(r, "readiness", t, h, None,
             [tenancies[t] EXCEPT !.status = "ACTIVE", !.version = @ + 1])
    /\ UNCHANGED <<tables, events, history>>

\* assertReadyToLease: the projection it reads follows the maintenance
\* context and may say either at any time.
ActivateReadiness(r) ==
    /\ pc[r] = "readiness"
    /\ Goto(r, "handover") \/ Finish(r)
    /\ UNCHANGED <<tables, events, history>>

\* The protocol h is stored, closed, and for the tenancy t.
HandedOverBy(h, t) == handovers[h] # None /\ handovers[h].tenancy = t

\* Variant: any closed protocol will do.
ActivateHandover_AnyTenancy(r) ==
    /\ pc[r] = "handover"
    /\ \/ handovers[source[r]] # None /\ Goto(r, "check")
       \/ handovers[source[r]] = None /\ Finish(r)
    /\ UNCHANGED <<tables, events, history>>

ActivateHandover(r) ==
    /\ pc[r] = "handover"
    /\ \/ HandedOverBy(source[r], target[r]) /\ Goto(r, "check")
       \/ ~HandedOverBy(source[r], target[r]) /\ Finish(r)
    /\ UNCHANGED <<tables, events, history>>

GiveNoticeLoad(r, t, d) ==
    /\ Loadable(t)
    /\ tenancies[t].status = "ACTIVE"
    /\ Start(r, "check", t, None, None,
             [tenancies[t] EXCEPT !.status = "TERMINATED", !.notice = d,
                                  !.version = @ + 1])
    /\ UNCHANGED <<tables, events, history>>

EndLoad(r, t) ==
    /\ Loadable(t)
    /\ tenancies[t].status \in {"ACTIVE", "TERMINATED"}
    /\ Start(r, "check", t, None, None,
             [tenancies[t] EXCEPT !.status = "ENDED", !.version = @ + 1])
    /\ UNCHANGED <<tables, events, history>>

----------------------------------------------------------------------------
(* TypeOrmTenancyRepository.save.                                          *)

\* A new aggregate is at version 0, which no stored row precedes.
CheckVersion(r) ==
    LET row == tenancies[target[r]] IN
    /\ pc[r] = "check"
    /\ \/ row = None /\ Goto(r, "select")
       \/ row # None /\ row.version + 1 = entity[r].version /\ Goto(r, "select")
       \/ row # None /\ row.version + 1 # entity[r].version /\ Finish(r)
    /\ UNCHANGED <<tables, events, history>>

SaveSelect(r) ==
    /\ pc[r] = "select"
    /\ seen' = [seen EXCEPT ![r] = tenancies[target[r]]]
    /\ pc' = [pc EXCEPT ![r] = "write"]
    /\ UNCHANGED <<tables, events, history, target, source, invite, protocol,
                   entity>>

\* The UPDATE that turns what is stored into e, for an entity e that was
\* compared with the row s: only the columns in which they differ are set.
Updated(row, s, e) ==
    [unit |-> Column(row.unit, s.unit, e.unit),
     from |-> Column(row.from, s.from, e.from),
     to |-> Column(row.to, s.to, e.to),
     status |-> Column(row.status, s.status, e.status),
     notice |-> Column(row.notice, s.notice, e.notice),
     version |-> IF e.version # s.version THEN e.version ELSE row.version + 1]

\* The statement's row: the entity itself (INSERT), the stored row when no
\* column differs (no statement), or the UPDATE's outcome.
Written(r) ==
    LET row == tenancies[target[r]]
        s == seen[r]
        e == entity[r]
    IN IF s = None THEN e ELSE IF e = s THEN row ELSE Updated(row, s, e)

\* A second INSERT breaks the primary key; any write may break the
\* exclusion constraint.  Either way nothing is written and save throws.
Accepted(r) == /\ seen[r] = None => tenancies[target[r]] = None
               /\ Admissible(target[r], Written(r))

\* Variant: save() returns without persisting the pending events.
SaveWrite_NoEvents(r) ==
    /\ pc[r] = "write"
    /\ \/ /\ Accepted(r)
          /\ tenancies' = [tenancies EXCEPT ![target[r]] = Written(r)]
       \/ ~Accepted(r) /\ UNCHANGED tenancies
    /\ Finish(r)
    /\ UNCHANGED <<units, invitations, expired, handovers, events,
                   history>>

\* Only activate() records a domain event.
SaveWrite(r) ==
    /\ pc[r] = "write"
    /\ \/ /\ Accepted(r)
          /\ tenancies' = [tenancies EXCEPT ![target[r]] = Written(r)]
          /\ \/ entity[r].status = "ACTIVE" /\ Goto(r, "journal")
             \/ entity[r].status # "ACTIVE" /\ Finish(r)
       \/ ~Accepted(r) /\ Finish(r) /\ UNCHANGED tenancies
    /\ UNCHANGED <<units, invitations, expired, handovers, events,
                   history>>

----------------------------------------------------------------------------
(* EventPersistenceHelper.persistEvents, for the one event of activate().  *)

Event(r) == <<target[r], entity[r].version>>

\* Variant: the outbox row is saved before the dispatch row.
SaveJournal_OutboxNext(r) ==
    /\ pc[r] = "journal"
    /\ Event(r) \notin journal
    /\ journal' = journal \cup {Event(r)}
    /\ Goto(r, "outbox")
    /\ UNCHANGED <<tables, history, dispatches, outbox>>

\* The journal is unique on (aggregate, version, index).
SaveJournal(r) ==
    /\ pc[r] = "journal"
    /\ \/ /\ Event(r) \notin journal
          /\ journal' = journal \cup {Event(r)}
          /\ Goto(r, "dispatch")
       \/ Event(r) \in journal /\ Finish(r) /\ UNCHANGED journal
    /\ UNCHANGED <<tables, history, dispatches, outbox>>

SaveDispatch(r) ==
    /\ pc[r] = "dispatch"
    /\ dispatches' = dispatches \cup {Event(r)}
    /\ Goto(r, "outbox")
    /\ UNCHANGED <<tables, history, journal, outbox>>

SaveOutbox(r) ==
    /\ pc[r] = "outbox"
    /\ outbox' = outbox \cup {Event(r)}
    /\ Finish(r)
    /\ UNCHANGED <<tables, history, journal, dispatches>>

----------------------------------------------------------------------------

\* The process that serves the request dies, or its connection is lost.
Crash(r) == /\ pc[r] # "idle"
            /\ Finish(r)
            /\ orphaned' = IF pc[r] = "journal" THEN orphaned \cup {target[r]}
                                               ELSE orphaned
            /\ UNCHANGED <<tables, events, accepted, handed>>

Invite(r) == \/ AcceptOverlap(r)
             \/ InvitationCheck(r) \/ InvitationSelect(r) \/ InvitationWrite(r)

Protocol(r) == ProtocolCheck(r) \/ ProtocolSelect(r) \/ ProtocolWrite(r)

Activate(r) == ActivateReadiness(r) \/ ActivateHandover(r)

Save(r) == CheckVersion(r) \/ SaveSelect(r) \/ SaveWrite(r)

Persist(r) == SaveJournal(r) \/ SaveDispatch(r) \/ SaveOutbox(r)

Load(r) ==
    \/ \E i \in Invitations, u \in Units : InviteLoad(r, i, u)
    \/ \E t \in Tenancies :
          \/ \E i \in Invitations, from, to \in Days :
                AcceptLoad(r, i, t, from, to)
          \/ \E h \in Handovers, n \in 0..MaxEntries : ConfirmLoad(r, h, t, n)
          \/ \E h \in Handovers : ActivateLoad(r, t, h)
          \/ \E d \in NoticeDates : GiveNoticeLoad(r, t, d)
          \/ EndLoad(r, t)

Init ==
    /\ units = {}
    /\ invitations = [i \in Invitations |-> None]
    /\ expired = {}
    /\ handovers = [h \in Handovers |-> None]
    /\ tenancies = [t \in Tenancies |-> None]
    /\ journal = {} /\ dispatches = {} /\ outbox = {}
    /\ accepted = {} /\ handed = {} /\ orphaned = {}
    /\ pc = [r \in Requests |-> "idle"]
    /\ target = [r \in Requests |-> None]
    /\ source = [r \in Requests |-> None]
    /\ invite = [r \in Requests |-> None]
    /\ protocol = [r \in Requests |-> None]
    /\ entity = [r \in Requests |-> None]
    /\ seen = [r \in Requests |-> None]

Next ==
    \/ \E u \in Units : RegisterUnit(u)
    \/ \E i \in Invitations : Expire(i)
    \/ \E r \in Requests : \/ Load(r) \/ Invite(r) \/ Protocol(r) \/ Activate(r)
                           \/ Save(r) \/ Persist(r) \/ Crash(r)

Spec == Init /\ [][Next]_vars

----------------------------------------------------------------------------

(* Every table and every local variable holds values of its type. *)
TypeOK ==
    /\ units \subseteq Units
    /\ invitations \in [Invitations -> InvitationRow \cup {None}]
    /\ expired \subseteq Invitations
    /\ handovers \in [Handovers -> ProtocolRow \cup {None}]
    /\ tenancies \in [Tenancies -> TenancyRow \cup {None}]
    /\ journal \subseteq Events
    /\ dispatches \subseteq Events
    /\ outbox \subseteq Events
    /\ accepted \subseteq Invitations
    /\ handed \subseteq Tenancies
    /\ orphaned \subseteq Tenancies
    /\ pc \in [Requests -> {"idle", "overlap", "inviteCheck", "inviteSelect",
                            "inviteWrite", "protocolCheck", "protocolSelect",
                            "protocolWrite", "readiness", "handover", "check",
                            "select", "write", "journal", "dispatch",
                            "outbox"}]
    /\ target \in [Requests -> Tenancies \cup {None}]
    /\ source \in [Requests -> Invitations \cup Handovers \cup {None}]
    /\ invite \in [Requests -> InvitationRow \cup {None}]
    /\ protocol \in [Requests -> ProtocolRow \cup {None}]
    /\ entity \in [Requests -> TenancyRow \cup {None}]
    /\ seen \in [Requests -> TenancyRow \cup InvitationRow \cup ProtocolRow
                             \cup {None}]

(* No two tenancies that are reserved or active share a unit and a day,    *)
(* however the steps of concurrent requests interleave: the check made     *)
(* before the save (accept-invitation.use-case.ts:32) is stale when the    *)
(* row is written, and an activation may overwrite a row that was ended    *)
(* and rented again meanwhile; the exclusion constraint holds the line.    *)
NoDoubleBooking ==
    \A t, o \in Tenancies :
       /\ t # o
       /\ tenancies[t] # None /\ Occupying(tenancies[t])
       /\ tenancies[o] # None /\ Occupying(tenancies[o])
       /\ tenancies[t].unit = tenancies[o].unit
       => ~SameDays(tenancies[t], tenancies[o])

(* The table of tenancies implements the calendar of ADR-004. *)
Stay(row) == [unit |-> row.unit, from |-> row.from, to |-> row.to]

Calendar == INSTANCE OccupancyCalendar WITH
    booked <- [t \in Tenancies |->
                 IF tenancies[t] # None /\ Occupying(tenancies[t])
                 THEN Stay(tenancies[t]) ELSE None]

RefinesCalendar == Calendar!Spec

(* A stored tenancy stands on an invitation to its unit whose acceptance   *)
(* was committed before: no crash, conflict or race between the two saves, *)
(* and no invitation that is sent twice, leaves a lease that nobody had    *)
(* accepted an invitation to.                                              *)
ReservedByAcceptance ==
    \A t \in Tenancies :
       tenancies[t] # None =>
          \E i \in accepted : /\ invitations[i] # None
                              /\ invitations[i].unit = tenancies[t].unit

(* Whatever was overwritten since, a tenancy that is or was active had a   *)
(* closed handover protocol of its own (tenancy.aggregate.ts:71-76).       *)
ActivatedAfterHandover ==
    \A t \in Tenancies :
       tenancies[t] # None /\ tenancies[t].status # "RESERVED" => t \in handed

(* A message may reach SNS, or a handler, only for an event the journal    *)
(* already holds: the three rows are separate commits, in this order.      *)
JournalFirst == outbox \subseteq dispatches /\ dispatches \subseteq journal

\* The activation of t is on record, or a request is about to record it.
Recorded(t) == \/ \E e \in journal : e[1] = t
               \/ \E r \in Requests : pc[r] = "journal" /\ target[r] = t

(* The tenancy and its pending events are saved "atomically"               *)
(* (typeorm-tenancy.repository.ts:69): a tenancy leaves RESERVED only with *)
(* an activation event on record, or about to be.                          *)
ActivationJournaled ==
    \A t \in Tenancies :
       tenancies[t] # None /\ tenancies[t].status # "RESERVED" => Recorded(t)

(* Nothing but a request that dies between the two commits costs an        *)
(* activation its event: no conflict, no failed statement of another       *)
(* request and no row that was overwritten in between.                     *)
LostByCrashOnly ==
    \A t \in Tenancies :
       tenancies[t] # None /\ tenancies[t].status # "RESERVED"
          => Recorded(t) \/ t \in orphaned

\* An invitation in the hands of a request that has passed its comparison
\* of versions to store it as PENDING.
Sending(i) == \E r \in Requests : /\ source[r] = i
                                  /\ pc[r] \in {"inviteSelect", "inviteWrite"}
                                  /\ invite[r].status = "PENDING"

Settled(i) == /\ invitations[i] # None
              /\ invitations[i].status = "ACCEPTED"
              /\ invitations[i].version # 0
              /\ ~Sending(i)

(* An accepted invitation stays accepted, however often its POST is        *)
(* repeated and by how many requests it is accepted, once no repetition    *)
(* that was compared with the row before is left to be written.  (Version  *)
(* 0 is what such a repetition may leave behind, and the next one passes.) *)
AcceptedForGood == [][\A i \in Invitations : Settled(i) => Settled(i)']_vars

\* A protocol whose id no other confirmation found free.
Sealed(h) == /\ handovers[h] # None
             /\ handovers[h].version = 0
             /\ \A r \in Requests :
                   source[r] = h => pc[r] \notin {"protocolSelect", "protocolWrite"}

(* A closed protocol is never changed again by a later confirmation of its *)
(* id, for whichever tenancy and with whatever readings: only one that had *)
(* found the id free before the first was stored can do that.  It holds    *)
(* because close() counts the version of the new aggregate up, so that it  *)
(* never equals that of the row.                                           *)
SealedForGood ==
    [][\A h \in Handovers :
          Sealed(h) => Sealed(h)' /\ handovers'[h] = handovers[h]]_vars
=============================================================================
