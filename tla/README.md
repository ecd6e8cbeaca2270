# Flatrent in TLA+

Flatrent (`src/src`) manages rental flats: owners register units and invite
tenants, tenants accept, move in and report repairs. It is one NestJS program of
three contexts that share no tables and talk through messages:

    HTTP -> tenancy (PostgreSQL) --outbox--> SNS/SQS --> maintenance (DynamoDB)
                 ^                                          |
                 +------------ SQS/SNS <------- outbox -----+
    HTTP -> auth (PostgreSQL)

The modules here model what the code does when requests, relays and consumers run
concurrently, fail half-way and are repeated, model-check it with TLC, and prove
the main results with TLAPS for every number of tenants, processes and messages.

Paths below are relative to `src/src`; `PROJECT.json` has the lines of every
definition.

## Inventory

| Component | State | Operations | What makes it correct |
|---|---|---|---|
| Tenancy commands (`tenancy/application/commands`, `domain/model`, TypeORM repositories) | `rental_units`, `tenancy_invitations`, `handover_protocols`, `tenancies` | register, invite, accept, confirm handover, activate, give notice, end | a unit has one occupant at a time; an activation has its handover; a tenancy stands on an acceptance, and an acceptance is not taken back; a closed protocol is not rewritten |
| Occupancy guard (`migrations/1721382500000`, `hasOverlappingTenancy`) | the exclusion constraint on `tenancies` | every INSERT and UPDATE | ADR-004: one active or reserved tenancy per unit and period |
| Event persistence (`event-persistence.helper.ts`) | `domain_event_journal`, `local_event_dispatches`, `integration_outbox` | persist the events of an aggregate | no event without its tenancy, no message without its event, no activation without its event but by a crash |
| SQL outbox relay (`tenancy/infrastructure/messaging/outbox-relay.service.ts`) | `integration_outbox` status and attempts | claim, publish, mark | at least once, bounded duplicates, DEAD is final, nothing is stranded |
| Tenancy access (`maintenance/interfaces/sqs/tenancy-events.consumer.ts`) | DynamoDB items `ACCESS#`, `INBOX#` | process one message | a tenant may report repairs exactly if the activation was processed; no message is lost or given up untried |
| Maintenance commands (`maintenance/application/commands`, `dynamodb-maintenance.repository.ts`) | items `REQUEST#`, `OUTBOX#` | open, schedule, resolve | a resolution is final; table and outbox tell the same story |
| DynamoDB outbox relay (`maintenance/infrastructure/messaging`) | item status and attempts | scan, publish, put back | no item claims a publication that did not happen or is given up early; a failure strands one item at most |
| Readiness projection (`tenancy/interfaces/sqs/maintenance-events.consumer.ts`, readiness adapter) | `inbox`, `rental_unit_readiness_projections` | process one message; `assertReadyToLease` | nothing is deleted before its effect is committed, no version is skipped, stale events are no-ops, a verdict comes from an event, an emergency blocks leasing |
| Local dispatchers (`*/infrastructure/messaging/local-event-dispatcher.ts`) | `local_event_dispatches` | dispatch pending events | each event reaches the bus; its repetitions are bounded; no row is stranded |
| Auth sessions and accounts (`auth/application/commands`) | `user_accounts`, `refresh_sessions` | register, login, refresh, logout, change password, revoke all | an address has one account; a revoked session stays revoked; a refresh token is good for one rotation |
| Reaction worker (`auth/infrastructure/messaging/durable-reaction-worker.ts`) | `domain_reaction_deliveries` | process one delivery | effect and bookkeeping together; five attempts; one delivery's failure is its own |
| Everything else | none | controllers, CQRS handlers, queries, hashing, JWT, CLI, logging, composition | stateless |

How they meet. A command handler calls a repository; repositories issue statements,
each of which commits by itself, because no use case uses the unit of work
(`typeorm-unit-of-work.ts`). The outbox rows of a context are read by its relay,
published to SNS, delivered by SQS queues (visibility timeout 60 s, five receives,
then a dead-letter queue) and processed by the other context's consumer. Nothing in
the program schedules relays, consumers and dispatchers: some process outside it
calls them, any number of them at the same time.

What is hard here: check-then-write across statements; TypeORM's `save`, which
selects the row and then writes only the columns that differ, without the version in
its WHERE; two saves, or a save and its events, in separate commits; crashes between
any two of them; clients that repeat a POST; errors whose effect is in doubt; messages
duplicated and reordered; and two consumers of one queue. `PROJECT.json` lists the
hazards, each at its line with the properties that watch it.

## Modules

| Module | Models | Proofs |
|---|---|---|
| `OccupancyCalendar` | the abstract promise of ADR-004 | |
| `TenancyCommands` | tenancy commands, occupancy guard, event persistence | `TenancyCommands_proofs` |
| `OutboxPromise` | the abstract promise that both outboxes keep | |
| `SqlOutboxRelay` | the SQL outbox relay | `SqlOutboxRelay_proofs` |
| `MaintenanceRequests` | maintenance commands and their outbox items | `ReadinessProjection_proofs` |
| `ReadinessProjection` | extends `MaintenanceRequests` by queue, consumer, projection and adapter | `ReadinessProjection_proofs` |
| `AuthCommands` | auth use cases, their repositories and event persistence | `AuthCommands_proofs` |
| `DynamoOutboxRelay` | the DynamoDB outbox relay over a table whose scans lag | `DynamoOutboxRelay_proofs` |
| `LocalDispatch` | the local event dispatcher, the same class in tenancy and auth | `LocalDispatch_proofs` |
| `ReactionWorker` | the reaction worker | `ReactionWorker_proofs` |
| `TenancyAccess` | composes `SqlOutboxRelay` with SNS, SQS, its dead-letter queue and the consumer that grants access | `TenancyAccess_proofs` |
| `ActivationDelivery` | the abstract promise of the two contexts about an activated tenancy | |
| `MC*` | symmetry sets for TLC | |

### TenancyCommands

`pc[r]` is the next statement of request `r`; `target`, `source`, `invite`,
`protocol`, `entity` and `seen` are what the request holds in memory. A use case is a
load action (`AcceptLoad`, `ConfirmLoad`, `ActivateLoad`, ...) that takes the guards
decided on the loaded row, further reads (`AcceptOverlap`, `ActivateReadiness`,
`ActivateHandover`), and the steps of the repositories' `save`: compare versions,
select, write, and for an activation the journal, the dispatch and the outbox row.
Between any two of them every other request may run, and the process may die
(`Crash`, which also stands for a lost connection).

The write action is PostgreSQL and TypeORM together: `Updated`, `InvitationUpdated` and
`ProtocolUpdated` set the columns in which the entity differs from the row `save`
selected (a version that does not differ is incremented by `@VersionColumn`), and
`Accepted` is the primary key and the exclusion constraint. Ids come from the client,
so that two requests may name the same ones, and a client may repeat the POST of an
invitation at any time. Guards in `accept()` and in the constructor of `Tenancy` are
taken in the load action: they depend on nothing that is read later.
`ActivateReadiness` may answer either way: what it reads is `ReadinessProjection`'s.
`RegisterUnit` alone is a single action, because nothing but the existence of a unit
is ever read.

The confirmation of a handover always builds a new protocol under the client's id. Its
version counts the entries and the closing, so it is never 0, and `ProtocolCheck`
refuses it against a stored row, which has version 0. But between `findOne` and the
statements of `repo.save` another confirmation may store the id: both go on with
version 0, and the later one's UPDATE moves the protocol to its own tenancy, also when
the first one's has been activated on it meanwhile. `ProtocolUpdated` leaves out the
readings and the checklist, in which the two may differ as well: where nothing else
does, the UPDATE may or may not happen.

Three histories remember what the tables may forget: `accepted` (the invitations that
were ever stored as ACCEPTED), `handed` (the tenancies a protocol was ever stored
for) and `orphaned` (the tenancies whose activation was saved and whose request died
before it saved the event). `LostByCrashOnly`, `ReservedByAcceptance` and
`ActivatedAfterHandover` are stated with them, no action reads them.

`OccupancyCalendar` maps the table to one variable: the stay of each tenancy that is
RESERVED or ACTIVE. Its step writes one entry, and only a stay that collides with
nobody's.

### SqlOutboxRelay

A relay claims up to `BatchSize` rows in one step, which the row locks justify, and
then works on its batch in memory: SNS accepts, accepts with the answer lost, or
refuses; an UPDATE outside the claim takes effect or not and may report an error
either way (`DbCanFail`); the relay may die (`CanCrash`). The catch block's own UPDATE
is unguarded, so its error ends the call and abandons the rest of the batch.

`OutboxPromise` is what this relay and the one over DynamoDB have in common
(`RefinesPromise` of both): messages are announced, attempts at them begin, some of
them send, and the outbox's verdict is PUBLISHED only of a message that was sent and
DEAD only after `MaxAttempts` attempts. It leaves open what the relays do differently:
here sends are bounded and DEAD is final; over DynamoDB an item may lose attempts that
were made, so that sends are not bounded by `MaxAttempts`, and a relay that has not
seen a verdict may reopen it, which the abstract `Begin` and `Settle` allow.

### AuthCommands

Built like `TenancyCommands`: a use case is a load action that takes the guards, and
the steps of `save`. An account records one event per save, a session none. `token`
stands for `tokenHash` and `expiresAt`, which are only ever set together, and a
refusal (`RefreshRefuse`) for an expired session, a revoked one and a wrong token,
all of which save a revoked session. `RevokeAll` is the one UPDATE of
`revokeAllByUserId`, on which TypeORM increments the version as well. The two
`save`s number versions differently, as in the code: an account's version is
incremented by the aggregate before the comparison, a session's after it.

`OverForGood` is about the mixtures of columns a save may write: it says that once
nobody holds an entity loaded before the revocation, the session is dead. Without
that condition it is false: a refresh under way puts the row back. A change of the
password revokes no session, although the master plan (line 302) asks for it, and no
use case records `RefreshTokenReuseDetected` or calls `block()`.

### MaintenanceRequests and ReadinessProjection

A handler loads a request (possibly an older version: DynamoDB reads are eventually
consistent; the load action is then simply earlier) and saves its draft in one
`TransactWriteItems`. `OpenRequest` is possible for an existing request, because
`findById` answers null when the read fails. A scheduled visit takes a version but no
event, as in the code.

The queue is a set in which a published message appears as often as relays, SNS and
SQS care to repeat it. A message is identified with its record: no two saves of a
request share a version. The consumer's transaction is five steps, invisible to
others until the write that commits it, and any number of consumers run it at the same
time. `SaveMarker` waits for a transaction that holds the same inbox row; after that one
has committed, the waiting one continues (TypeORM updates the row it now finds) or
fails. Nobody locks the row of the projection: two consumers may compare with the same
version, and the later one's UPDATE sets the columns in which its entity differs from
what its own `save` has selected. `Fail` covers every error and crash: rollback, and the
message stays in the queue.

### DynamoOutboxRelay

One action per call to DynamoDB or SNS. `Scan` decides item by item whether the relay
sees the table or a replica that lags behind it, and keeps images in memory
(`batch`); every `Put` then replaces the whole item by such an image, counted up,
without a condition. Two relays thus put each other's items back: a PUBLISHED item may
turn PROCESSING or RETRY again, and an attempt one of them counted may be lost. Each
call may fail with or without effect; the inner catch block turns a failure into RETRY
or DEAD, and an error of its own Put ends the call, as does a crash. `tries` and `sent`
are histories: what was really begun and what SNS really has. Nothing looks for
PROCESSING items, so that an item whose relay dies there stays there (`Stranded`).

The code sends one `ScanCommand` and does not follow `LastEvaluatedKey`, so that DynamoDB
answers with what the filter leaves of the first 1 MB of a table in which requests,
markers, access rights and items that are PUBLISHED stay for good. `page` is the set
of items that lie within that part; `Scan` sees no other, and `Shift` moves an item out
of it or back, as what lies before it grows or shrinks. Nothing forces an item to
return. `ShiftsAnytime` is a bound: where it is FALSE, as in the run, an item moves only
while it waits for a relay; a move while no relay could take it up changes no Scan that
a later move would not. The theorems hold for both values.

### LocalDispatch

A call is one READ COMMITTED transaction: `Find` selects the oldest PENDING rows and
locks nothing, then each row is claimed, published on the in-process bus and marked,
and `Commit` shows it all at once. `written[d]` is what the open transaction has made
of the rows its UPDATEs have locked. An UPDATE waits for a row another transaction has
locked and then takes effect whatever the row has become, so that a second dispatcher
publishes the batch again. `Rollback` is a failed statement, a lost connection, or
PostgreSQL ending a deadlock, which two dispatchers that order rows of equal
`available_at` differently can run into. The attempt count is left out, because the
code increments it and decides nothing by it, and so is the branch for a dispatcher
without a bus, which only tests construct.

### ReactionWorker

A call is one transaction. Its SELECT ... FOR UPDATE is ordered but has no LIMIT, so
that it locks every due row and the workers in fact take turns: a property of the
program (`Serial` in the proofs), not of the model. `Execute` lets the executor throw
before a write or after one. `Commit` then stores RETRY, with what the executor wrote
before it threw. An error of SQL has aborted the transaction, so that the save of the
catch block fails too: `Rollback` undoes the record of the attempt along with the
effect. `Poisoned` are the deliveries whose executor runs into that every time. (The
one executor registered so far only logs; it takes one whose SQL fails, or a payload in
the journal that `JSON.parse`, outside the inner `try`, refuses.) A backoff is the
event `Elapse` that its end has come, and `available_at` is kept as far as the order of
the rows goes.

### TenancyAccess

`Outbox == INSTANCE SqlOutboxRelay` runs the tenancy context's relay with all its
faults beside SNS (`Arrive`: one copy per accepted send), SQS (receive counts,
visibility, `Redrive` after `MaxReceives`, as `bootstrap-ministack.ts` configures the
queue) and `TenancyEventsConsumer`: receive up to five copies, and for each one the
conditional transaction of marker and snapshot, and the delete. The inner catch block
takes an error whose name or message says that the condition failed for a duplicate
and deletes the copy; any other is logged and the copy left. An error of that delete,
and a body that is not JSON at all, which is parsed outside the inner `try`
(`tenancy-events.consumer.ts:49`), end the poll; the module has the first (`Discard`)
and leaves the second out, as SNS only sends JSON. `verifyActiveAccess` answers no
when its read fails. An access right is kept per message: the code's key is tenant and
unit, so that a second activation of the same pair would overwrite the snapshot of the
first with one that grants the same. Access is never withdrawn, because the end of a
tenancy publishes no event.

`ActivationDelivery` says what all of this amounts to: an activation is recorded, then
put out in at most `MaxAttempts` copies, then granted, once, on the strength of a copy
(`RefinesDelivery`). Its variables are the outbox rows that exist, SNS's copies and the
ACCESS# items; relay, receive counts, redeliveries, markers and faults are all
stuttering, unless something is granted twice or out of nothing.

## Runs

A "violation" run shows a place where the code departs from what a comment, an ADR
or the plan says; `PROJECT.json` quotes the lines.

| Run | Shows | Bounds, and why they are enough |
|---|---|---|
| `TenancyCommands_race` | no double booking, own handover before activation, no closed protocol rewritten by a later confirmation, journal first, no event lost but by a crash: 2 racing requests, crashes, repeated POSTs | 2 tenancies of 1 unit on 1 day always collide; 1 protocol, so that two confirmations want the same id; versions up to 3 are a whole life (reserve, activate, notice, end) |
| `TenancyCommands_stays` | calendar refinement, leases stand on acceptances, an acceptance is taken back by no later repetition: crashes and repeated POSTs again | 2 days give stays that overlap, touch or are apart; 1 invitation, so that its repetitions and acceptances meet; versions up to 2: reserve, activate, end |
| `TenancyCommands_lost` | violation: a crash between the commits of tenancy and event loses the event | as `_race` |
| `SqlOutboxRelay_faults` | refinement of the outbox's promise, exclusive claims, bounded duplicates, usable retries, DEAD final; every message is settled unless a call ended while it held it | 3 messages, batches of 2 and 2 relays: a relay holds two rows while another claims the third; 3 attempts for the code's 5: first, middle and last |
| `ReadinessProjection_race` | nothing lost before it is committed, no version skipped, no verdict without a source, stale events no-ops; resolution final, outbox complete | 3 consumers: one's write mixes with another's while a third holds an older row; 2 handlers on 1 request; versions up to 2: open, schedule, resolve, which makes a gap; two requests whose versions clash are the run below, and the theorems' |
| `ReadinessProjection_blocking` | violation: a second request's emergency does not block | |
| `AuthCommands_races` | one account per address, journal first, what is over stays over: 2 racing requests, revocations, crashes | 2 users want 1 address; 1 session suffices, since no step reads two; 3 tokens: a login and two rotations that cross |
| `DynamoOutboxRelay_lag` | refinement of the outbox's promise, counts that suit the status, one stranded item per failure, rest in the end for what the page shows: lagging scans, failing calls | 2 relays with 2 items: a relay overwrites one item while it has the other; 2 attempts: a first and a last; 2 faults, so that a catch block's Put can fail after the call it caught |
| `LocalDispatch_two` | nothing stranded, no mark without broadcast, bounded repetitions, DISPATCHED final without faults, all dispatched in the end | 2 dispatchers and 3 events in batches of 2: batches that are equal, overlap or follow one another; 2 faults |
| `ReactionWorker_two` | effect with record, a success final, all settled in the end | 2 workers, 3 deliveries, one without executor; 3 attempts: first, middle, last; 4 faults exhaust one delivery and hit another |
| `ReactionWorker_poison` | violation: a delivery whose SQL fails stops all others | 1 worker, 2 deliveries |
| `TenancyAccess_grants` | refinement of the delivery's promise, marker with access, no copy lost ungranted or given up untried, each activation granted or left where it is found | 1 activation sent up to twice, 1 probe that does not parse, 2 consumers, 2 receives, 2 consumer faults: enough to exhaust a copy |

`MaxVersion` bounds the version at which a command may be loaded, and `MaxFaults` the
number of failures; `MaxEntries` and `MaxSealed` bound the entries of a confirmed
protocol and the version of one that is confirmed again. None is a limit of the code.

`CHECK_DEADLOCK FALSE` stands in the runs of the relays, the dispatcher, the worker
and the access grant: they rest when everything is settled.

Where the code keeps less than a property one might expect, the property says what is
left of it, and this is what fails:

- `ActivationJournaled` (the run `TenancyCommands_lost`): tenancy and event are saved
  by separate commits, although a comment says "atomically"
  (`typeorm-tenancy.repository.ts:69`), and the process may die in between.
  `LostByCrashOnly` says that nothing else costs the event. In the same way the save of
  the tenancy may fail when that of the invitation has been made, and an ACCEPTED
  invitation stays without a tenancy (`accept-invitation.use-case.ts:59`).
- "An accepted invitation stays accepted": a POST repeated while its invitation is
  being accepted passes the version check and puts the row back to PENDING (the master
  plan, line 1634, asks for the prior outcome), and it may leave it at version 0, where
  the next repetition passes as well. `AcceptedForGood` is about an acceptance with a
  version above 0 and with no such repetition left to be written; those that come later
  are refused. `ReservedByAcceptance` asks for an acceptance that was committed, not
  for one that is still to be seen.
- "An active tenancy has a protocol of its own": a confirmation that found the id free
  moves the protocol of an active tenancy to its own (`TenancyCommands`, above), although
  a closed protocol is to be immutable (master plan, line 324). `ActivatedAfterHandover`
  says that there was one, `SealedForGood` that later confirmations cannot do it.
- Versions are compared in a SELECT of their own and not in the UPDATE, so that a
  command on a tenancy that was loaded before another one ended it may take the end
  back (ADR-004, lines 11-15, asks for an optimistic version). Likewise a
  refresh under way revives a session that was revoked meanwhile; two concurrent
  refreshes may both succeed, and one client's token is then not the stored one; and
  two acceptances of one invitation for days that do not overlap give it two
  tenancies, although the master plan (line 317) calls an invitation single-use.
- "The version of a projection never goes back": two consumers each compare with the
  version they read, and the later writer wins, although the comment at
  `maintenance-events.consumer.ts:110` calls a stale event a no-op. `NeverBelow` says
  that a version reached is lost only to a consumer that had compared before. Nor is
  a row always the image of one message: columns of several transactions mix, and
  `VerdictHasSource` says what their mixtures still have. A projection marked
  GAP_DETECTED is restored only by the missing event, which for a scheduled visit is
  never published: the reconciliation the plan asks for is "mocked for now"
  (`maintenance-events.consumer.ts:125`).
- "Every message is published in the end". The rows of an SQL relay that dies stay
  PROCESSING, and nothing looks for them (ADR-005, line 23): `EventuallySettled` and
  `EventuallyGranted` except them. `SettledForGood` excepts besides the items that lie
  beyond the first page of the table, now and again or for ever.
- After a fault `DispatchedIsFinal` fails: a dispatcher that held the row as well, and
  whose bus throws, puts it back to PENDING.

**Fairness.** Five modules have a `FairSpec`: weak fairness of each relay, dispatcher,
worker and consumer, of replicas catching up, of the end of a backoff, and of SNS and
SQS delivering. Node resumes a call whose statement was answered and PostgreSQL grants
a lock that is free; that somebody calls relays and consumers again and again is an
assumption about the deployment, since the repository contains no scheduler: only
tests call `pollAndProcess`. Nothing is fair that the code cannot force: inserting,
failing, crashing. In `ReactionWorker` fairness is of `Work(w) \/ Rollback(w)`: a call
goes on until it ends, well or not. Failures are bounded by `MaxFaults`, hence the
liveness properties say what happens once failures stop; in `SqlOutboxRelay` they
are bounded by the attempts of the messages.

## Proofs

All theorems hold for every value of the constants, under the modules' ASSUMEs: the
bounds are natural numbers, the flags Booleans, `None` is none of the values it stands
beside. No theorem about `TenancyCommands` or `ReadinessProjection` limits crashes,
repeated requests or the number of processes. Every invariant and every action property
of a passing run is stated by one of them, and so are all refinements. Finiteness is
assumed once, of the dispatchers whose broadcasts are counted. Each module's
`TypeCorrect` proves its type invariant, which the runs therefore do not repeat.

**TenancyCommands.** `TypeCorrect` proves `IInv == TypeOK /\ InFlight`: a request
between two statements really holds the entity, the target and the selected row its
next statement uses. Type correctness alone is not inductive, because a write takes
its values from there.

- `NeverDoubleBooked`: inductive with `IInv`, since each write asks `Admissible` of
  the very row it writes. That includes rows put together by `Updated` from stale
  columns, which is why no assumption on versions is needed.
- `ImplementsCalendar`: each write of `tenancies` maps to `Occupy`, `Vacate` or a
  stutter; all other steps stutter.
- `StaysAccepted` (`AcceptedForGood`): `InvitationInv` says that a request at an invitation
  either sends one, and then compares with version 0, or accepts one, and then has
  counted its version up once it is compared. A repetition of the POST is hence refused
  at a settled row, and every other write leaves it accepted and above 0.
- `AlwaysInvited` (`ReservedByAcceptance`): by `AcceptanceInv` a request that is about to
  save a tenancy, new or loaded, has an invitation in `accepted` to the tenancy's unit
  behind it; the unit of an invitation never changes, repeated or not
  (`InvitationInv`).
- `AlwaysHandedOver` (`ActivatedAfterHandover`): `HandoverInv` says that a request past
  `ActivateHandover`, or one that loaded a tenancy past RESERVED, works on a tenancy
  that is in `handed`, and that the tenancy of every stored protocol is. The latter is
  why a protocol may be overwritten and the theorem still holds.
- `StaysSealed` (`SealedForGood`): by `Closing`, the protocol of a request that has not
  been compared is never at version 0, which is that of the row.
- `AlwaysJournalFirst`: by `EventInv`, which ties `pc` in `{"dispatch", "outbox"}` to
  rows that were already inserted; this is where the order of the three commits
  matters, and crashes do no harm.
- `ActivationOnRecord` (`LostByCrashOnly`): `RecordInv` says that a request that has
  seen a tenancy past RESERVED has an event, or an orphan, to show for it, unless
  another request is about to write one.

**SqlOutboxRelay.** `IInv == TypeOK /\ Holding /\ Counting /\ Sending`: a held item is
PROCESSING with the attempts in memory equal to those on record, or about to be marked
by its only holder (`Holding`); sends and attempts are in step for each stage of a
relay (`Counting`); a relay about to mark PUBLISHED has sent (`Sending`). All the
safety properties and `DeadIsFinal` follow, with faults in doubt and crashes. For
`ImplementsPromise` an insertion maps to `Announce`, a claim to `Begin`, a send to
`Send`, a mark that takes effect to `Settle`, and all else to a stutter.

**MaintenanceRequests** (the first part of `ReadinessProjection_proofs`).
`IInv == RequestsTypeOK /\ Drafts /\ OutboxTellsAll`: a draft is a proper successor of
some version of its request. `OutboxComplete` and
`ClosedForGood` follow from the condition of the transaction alone. `RunsRequests`
carries both over to the composition: the consumers' steps leave the commands'
variables alone, so that `AlwaysToldAll` and `StaysClosed` hold beside any number of
them, which is the specification that the runs check.

**AuthCommands.** `IInv == TypeOK /\ InFlight`, as above.

- `EmailsAreUnique`: inductive, since each write of `accounts` asks the unique index.
- `AlwaysJournalFirst`: by `EventInv`, as for tenancies.
- `OverIsFinal`: only `SessionWrite` and `RevokeAll` change a session; where both the
  row and the entity are revoked, every mixture of their columns is (`WrittenSession`),
  and a revoked row is only ever loaded to be revoked (`LoadsRevoked`).

**ReadinessProjection.** `PInv` joins the invariant of the maintenance commands with
`TypeOK`, `Working`, `DeletedAfterCommit` and `NoVersionSkipped`. The last one is about
rows that two consumers overwrite column by column. `Working` therefore says it of
each consumer's entity by itself: every version up to the one it names is in the inbox,
or is the message in hand; a mixture of entity and row names one of their versions.

`NeverLost` and `NeverSkipping` follow, and so do, for any number of consumers,

- `AlwaysSourced` (`VerdictHasSource`): that a blocked row has a message which blocks
  it is said of each entity by itself, too (`Blocked`). That a free one has a message
  which frees it takes more: as long as a unit has none, its row, the entities of its
  consumers and the rows they have selected are all as new or blocked at version 0
  (`Sourced`), and no mixture of such rows is anything else.
- `LostToOldReadsOnly` (`NeverBelow`): an entity built from a row that has reached `v`
  is at `v` or above, and the version of a mixture is that of the row or of an entity.

**DynamoOutboxRelay.** Relays overwrite each other, so that nothing can be said of an
item and its image in some relay's memory together. `IInv` says of every version by
itself (item, replica, image) that it is `Sound` with respect to the histories `tries`
and `sent`, which only grow. `NeverForged` and `NeverGivenUpEarly` follow at once. For
`FewLeftBehind` the stranded items are not an inductive notion, as an item may lose its
relay while another still has it in its batch; the orphans (PROCESSING and nobody at
work on them) are, and each needs a fault of its own. `ImplementsPromise` needs
`Existing` besides: what a replica or a relay still has was announced in the table.
Every Put that takes effect is then a `Begin` or a `Settle`, with current data or not.
Safety does not depend on what the page shows, and `Shift` disturbs nothing.

**LocalDispatch.** `Selecting` ties loop and batch to the place of a dispatcher;
`Writing` says of each transaction by itself that its writes are outcomes the bus has
seen, but for the row it is at. Whichever commit comes last is then a good one, which
is `NeverStranded`, `NeverSkipped` and `DispatchedForGood`.

`FewDuplicates` counts, for one event, who may still publish it. A dispatcher plays one
`Role` with respect to the event: it has nothing to do with it, will publish it, has done
so, or has failed to. `Left` are those that may still publish before somebody's mark is
final, and each dispatcher that failed may start one more round. `Counted`: the
broadcasts so far, those left, and a round for each that failed are together at most
one round more than there were faults. A step moves at most one dispatcher between these
sets, and a commit, which ends a round for everybody else, is where the sum can only
shrink.

**ReactionWorker.** `Serial`: at most one worker is inside its transaction, because it
has locked a due row, and the row stays due until it commits. The outcome is hence
computed from the attempts the row still has: `AlwaysRecorded`, `SucceededForGood` and
`NeverUnusable`, which no run repeats. `OneAtATime` states the first part of it, because
it is not obvious from the code that parallel workers gain nothing.

**TenancyAccess.** The relay's safety is not proved again. `RunsOutbox`: a step of the
whole is a step of `Outbox` or leaves its variables alone; `RelayProofs`, the instance of
`SqlOutboxRelay_proofs` over the same variables, then gives its invariant here
(`RelayInvariance`, under the outbox's own assumption). The consumers need only one
consequence, `Announced`: what SNS has got belongs to a row, at most `MaxAttempts` times.
`IInv` joins

- `Shape`: what a consumer holds at each place, and that it deletes only what is granted;
- `Numbered`: copies bear numbers up to the arrivals, which are no more than the sends,
  so that the next copy is a new one;
- `Tried`: as long as a message is not granted, every receive of one of its copies has
  been paid for by a fault or is still in some consumer's hands. This is the invariant
  behind `NeverStarved`: `DeadLettersWereTried` alone speaks of copies that are already
  in the dead-letter queue.

`AlwaysWithMarker` and `NeverLost` are parts of it. `ImplementsDelivery` maps the
insertion of an outbox row to `Activate`, an arrival to `Deliver`, the transaction that
writes marker and access to `Grant`, and every other step to a stutter.

**Only model-checked.** The liveness properties (`EventuallySettled`,
`SettledForGood`, `EventuallyDispatched`, `IndependentlySettled`,
`EventuallyGranted`), which are outside the prover's reach: they rest on fairness, and
their invariants on ENABLED. The three violations are TLC's as well.

## Plan

1. Done: `TenancyCommands` with `OccupancyCalendar`, `SqlOutboxRelay`,
   `MaintenanceRequests`, `ReadinessProjection`, `AuthCommands`, `DynamoOutboxRelay`,
   `LocalDispatch`, `ReactionWorker`, `TenancyAccess`.
2. Done: the safety of all of them proved, and `TenancyAccess` with
   `ActivationDelivery` on top of the theorems about `SqlOutboxRelay`; `OutboxPromise`,
   which both relays are proved to implement.
3. The tokens in the clients' hands, to say which client a concurrent refresh leaves
   with a token that is good for nothing.
4. `TenancyAccess` on to `MaintenanceRequests`, up to "an activated tenant can report a
   repair"; now `GrantAccess` of the one stands for `Grant` of the other.

## Not modelled

Controllers, CQRS handlers, queries, composition and the CLI hold no state. Hashing
and JWT are libraries behind stateless ports. Meter readings, addresses, descriptions,
correlation ids and payload formats are data no property depends on. The scripts that
set up and inspect the local infrastructure run outside the program; what they fix for
it, the redrive policy and the subscriptions, is in `TenancyAccess`. The queue of
`ReadinessProjection` has no dead-letter queue: a message that is never accepted stays.
Time appears as the events it brings about: an invitation expires, a backoff or a
visibility timeout ends.
