----------------------------- MODULE AuthCommands -----------------------------
(***************************************************************************)
(* The use cases of src/auth/application/commands, run by concurrent HTTP  *)
(* requests (and the CLI) against PostgreSQL through TypeORM.  As in       *)
(* TenancyCommands, no use case opens a transaction, and a request goes    *)
(* through the statements                                                  *)
(*                                                                         *)
(*    load, guards,  SessionCheck  SessionSelect  SessionWrite             *)
(*    load, guards,  AccountCheck  AccountSelect  AccountWrite             *)
(*                   SaveJournal   SaveDispatch   SaveOutbox               *)
(*                                                                         *)
(* of which the select and the write are the two statements of TypeORM's   *)
(* repo.save(entity).                                                      *)
(*                                                                         *)
(* A session's token hash and its expiresAt are set together, by login and *)
(* rotate() only, and stand here as one column `token': a number nobody    *)
(* was given before.  A password hash is salted and new with every save of *)
(* an account, so that an account's UPDATE always has a column to set; no  *)
(* property tells two passwords apart.  No use case blocks an account.     *)
(***************************************************************************)
EXTENDS Naturals

CONSTANTS Users,        \* identifiers of accounts, chosen by the clients
          Emails,       \* normalised addresses
          Sessions,     \* identifiers of sessions, chosen by the server
          Requests,     \* the requests in flight at the same time
          MaxVersion,   \* bound: no command is loaded at this version
          MaxToken,     \* bound: how many tokens are generated
          CanCrash,     \* may a process die between two statements?
          None          \* no row

AccountRow == [email: Emails, version: Nat]

SessionRow == [user: Users, token: Nat, revoked: BOOLEAN, version: Nat]

ASSUME AuthCommandsAssumption ==
    /\ MaxVersion \in Nat
    /\ MaxToken \in Nat
    /\ CanCrash \in BOOLEAN
    /\ Users \cap Sessions = {}
    /\ None \notin AccountRow \cup SessionRow \cup Users \cup Sessions

VARIABLES
    accounts,     \* user_accounts, by id
    sessions,     \* refresh_sessions, by id
    fresh,        \* the next token
    journal,      \* domain_event_journal: <<account, its version>>
    dispatches,   \* local_event_dispatches, by the event they are for
    outbox,       \* integration_outbox, by the event they are for
    pc,           \* the next statement of each request, "idle" if none
    target,       \* the account or session the request saves
    entity,       \* the aggregate in the request's memory
    seen          \* the row repo.save has selected

tables == <<accounts, sessions, fresh>>
events == <<journal, dispatches, outbox>>
locals == <<pc, target, entity, seen>>
vars == <<tables, events, locals>>

Events == Users \X Nat

AtAccount == {"accountCheck", "accountSelect", "accountWrite"}
AtSession == {"sessionCheck", "sessionSelect", "sessionWrite"}
AtEvents == {"journal", "dispatch", "outbox"}

----------------------------------------------------------------------------

Start(r, l, id, e) == /\ pc[r] = "idle"
                      /\ pc' = [pc EXCEPT ![r] = l]
                      /\ target' = [target EXCEPT ![r] = id]
                      /\ entity' = [entity EXCEPT ![r] = e]
                      /\ UNCHANGED seen

Goto(r, l) == /\ pc' = [pc EXCEPT ![r] = l]
              /\ UNCHANGED <<target, entity, seen>>

Finish(r) == /\ pc' = [pc EXCEPT ![r] = "idle"]
             /\ target' = [target EXCEPT ![r] = None]
             /\ entity' = [entity EXCEPT ![r] = None]
             /\ seen' = [seen EXCEPT ![r] = None]

\* One column of TypeORM's UPDATE: set only if the entity's value is not the
\* one the select saw.
Column(stored, old, new) == IF new # old THEN new ELSE stored

\* @VersionColumn is incremented when it is not among the columns set.
NextVersion(stored, old, new) == IF new # old THEN new ELSE stored + 1

----------------------------------------------------------------------------
(* LoginUseCase, RefreshTokenUseCase and LogoutUseCase, up to the save.    *)

\* The password is that of the account as it was loaded.
Login(r, u, s) ==
    /\ accounts[u] # None
    /\ sessions[s] = None /\ \A q \in Requests : target[q] # s
    /\ fresh < MaxToken
    /\ Start(r, "sessionCheck", s,
             [user |-> u, token |-> fresh, revoked |-> FALSE, version |-> 0])
    /\ fresh' = fresh + 1
    /\ UNCHANGED <<accounts, sessions, events>>

\* Variant: isRevoked is left to the constructor's default.
Loaded_Default(s) ==
    IF sessions[s] = None THEN None ELSE [sessions[s] EXCEPT !.revoked = FALSE]

\* RefreshSessionMapper.toDomain.
Loaded(s) == sessions[s]

Loadable(s) == Loaded(s) # None /\ Loaded(s).version < MaxVersion

\* The token presented is the session's, which has not expired.
RefreshRotate(r, s) ==
    /\ Loadable(s)
    /\ ~Loaded(s).revoked
    /\ fresh < MaxToken
    /\ Start(r, "sessionCheck", s, [Loaded(s) EXCEPT !.token = fresh])
    /\ fresh' = fresh + 1
    /\ UNCHANGED <<accounts, sessions, events>>

Revoke(r, s) ==
    /\ Loadable(s)
    /\ Start(r, "sessionCheck", s, [Loaded(s) EXCEPT !.revoked = TRUE])
    /\ UNCHANGED <<tables, events>>

\* The session has expired or is revoked, or the token is another one:
\* whichever it is, a revoked session is saved before the error.
RefreshRefuse(r, s) == Revoke(r, s)

Logout(r, s) == Revoke(r, s)

\* One UPDATE of all the user's rows.
RevokeAll(u) ==
    LET mine == {s \in Sessions : sessions[s] # None /\ sessions[s].user = u} IN
    /\ \A s \in mine : sessions[s].version < MaxVersion
    /\ sessions' = [s \in Sessions |->
                       IF s \in mine
                       THEN [sessions[s] EXCEPT !.revoked = TRUE, !.version = @ + 1]
                       ELSE sessions[s]]
    /\ UNCHANGED <<accounts, fresh, events, locals>>

----------------------------------------------------------------------------
(* TypeOrmRefreshSessionRepository.save; sessions record no events.        *)

SessionCheck(r) ==
    LET row == sessions[target[r]]
        Keep(v) == /\ pc' = [pc EXCEPT ![r] = "sessionSelect"]
                   /\ entity' = [entity EXCEPT ![r].version = v]
                   /\ UNCHANGED <<target, seen>>
    IN /\ pc[r] = "sessionCheck"
       /\ \/ row = None /\ Keep(0)
          \/ /\ row # None /\ row.version = entity[r].version
             /\ Keep(row.version + 1)
          \/ row # None /\ row.version # entity[r].version /\ Finish(r)
       /\ UNCHANGED <<tables, events>>

SessionSelect(r) ==
    /\ pc[r] = "sessionSelect"
    /\ seen' = [seen EXCEPT ![r] = sessions[target[r]]]
    /\ pc' = [pc EXCEPT ![r] = "sessionWrite"]
    /\ UNCHANGED <<tables, events, target, entity>>

SessionUpdated(row, s, e) ==
    [user |-> Column(row.user, s.user, e.user),
     token |-> Column(row.token, s.token, e.token),
     revoked |-> Column(row.revoked, s.revoked, e.revoked),
     version |-> NextVersion(row.version, s.version, e.version)]

SessionWritten(r) ==
    LET row == sessions[target[r]]
        s == seen[r]
        e == entity[r]
    IN IF s = None THEN e ELSE IF e = s THEN row ELSE SessionUpdated(row, s, e)

SessionWrite(r) ==
    /\ pc[r] = "sessionWrite"
    /\ sessions' = [sessions EXCEPT ![target[r]] = SessionWritten(r)]
    /\ Finish(r)
    /\ UNCHANGED <<accounts, fresh, events>>

----------------------------------------------------------------------------
(* RegisterUserUseCase and ChangePasswordUseCase, up to the save.          *)

Register(r, u, m) ==
    /\ \A w \in Users : accounts[w] # None => accounts[w].email # m
    /\ Start(r, "accountCheck", u, [email |-> m, version |-> 0])
    /\ UNCHANGED <<tables, events>>

ChangePassword(r, u) ==
    /\ accounts[u] # None
    /\ accounts[u].version < MaxVersion
    /\ Start(r, "accountCheck", u, [accounts[u] EXCEPT !.version = @ + 1])
    /\ UNCHANGED <<tables, events>>

----------------------------------------------------------------------------
(* TypeOrmUserAccountRepository.save.                                      *)

\* A new account is at version 0, which no stored row precedes.
AccountCheck(r) ==
    LET row == accounts[target[r]] IN
    /\ pc[r] = "accountCheck"
    /\ \/ row = None /\ Goto(r, "accountSelect")
       \/ /\ row # None /\ row.version + 1 = entity[r].version
          /\ Goto(r, "accountSelect")
       \/ row # None /\ row.version + 1 # entity[r].version /\ Finish(r)
    /\ UNCHANGED <<tables, events>>

AccountSelect(r) ==
    /\ pc[r] = "accountSelect"
    /\ seen' = [seen EXCEPT ![r] = accounts[target[r]]]
    /\ pc' = [pc EXCEPT ![r] = "accountWrite"]
    /\ UNCHANGED <<tables, events, target, entity>>

AccountWritten(r) ==
    LET row == accounts[target[r]]
        s == seen[r]
        e == entity[r]
    IN IF s = None THEN e
       ELSE [email |-> Column(row.email, s.email, e.email),
             version |-> NextVersion(row.version, s.version, e.version)]

\* Variant: the schema does not make email unique; only the query guards.
Accepted_AnyEmail(r) == seen[r] = None => accounts[target[r]] = None

\* The primary key, and the unique email.
Accepted(r) ==
    /\ seen[r] = None => accounts[target[r]] = None
    /\ \A w \in Users \ {target[r]} :
          accounts[w] # None => accounts[w].email # AccountWritten(r).email

AccountWrite(r) ==
    /\ pc[r] = "accountWrite"
    /\ \/ /\ Accepted(r)
          /\ accounts' = [accounts EXCEPT ![target[r]] = AccountWritten(r)]
          /\ Goto(r, "journal")
       \/ ~Accepted(r) /\ Finish(r) /\ UNCHANGED accounts
    /\ UNCHANGED <<sessions, fresh, events>>

----------------------------------------------------------------------------
(* EventPersistenceHelper.persistEvents, for the one event of the save.    *)
(* The catalog registers no reaction for either event.                     *)

Event(r) == <<target[r], entity[r].version>>

\* Variant: the outbox row is saved before the dispatch row.
SaveJournal_OutboxNext(r) ==
    /\ pc[r] = "journal"
    /\ Event(r) \notin journal
    /\ journal' = journal \cup {Event(r)}
    /\ Goto(r, "outbox")
    /\ UNCHANGED <<tables, dispatches, outbox>>

\* The journal is unique on (aggregate, version, index).
SaveJournal(r) ==
    /\ pc[r] = "journal"
    /\ \/ /\ Event(r) \notin journal
          /\ journal' = journal \cup {Event(r)}
          /\ Goto(r, "dispatch")
       \/ Event(r) \in journal /\ Finish(r) /\ UNCHANGED journal
    /\ UNCHANGED <<tables, dispatches, outbox>>

\* Only UserRegistered (version 0) is an integration event.
SaveDispatch(r) ==
    /\ pc[r] = "dispatch"
    /\ dispatches' = dispatches \cup {Event(r)}
    /\ \/ entity[r].version = 0 /\ Goto(r, "outbox")
       \/ entity[r].version # 0 /\ Finish(r)
    /\ UNCHANGED <<tables, journal, outbox>>

SaveOutbox(r) ==
    /\ pc[r] = "outbox"
    /\ outbox' = outbox \cup {Event(r)}
    /\ Finish(r)
    /\ UNCHANGED <<tables, journal, dispatches>>

----------------------------------------------------------------------------

\* The process that serves the request dies, or its connection is lost.
Crash(r) == /\ CanCrash
            /\ pc[r] # "idle"
            /\ Finish(r)
            /\ UNCHANGED <<tables, events>>

Load(r) ==
    \/ \E s \in Sessions :
          \/ \E u \in Users : Login(r, u, s)
          \/ RefreshRotate(r, s) \/ RefreshRefuse(r, s) \/ Logout(r, s)
    \/ \E u \in Users :
          \/ \E m \in Emails : Register(r, u, m)
          \/ ChangePassword(r, u)

SaveSession(r) == SessionCheck(r) \/ SessionSelect(r) \/ SessionWrite(r)

SaveAccount(r) == AccountCheck(r) \/ AccountSelect(r) \/ AccountWrite(r)

Persist(r) == SaveJournal(r) \/ SaveDispatch(r) \/ SaveOutbox(r)

Init ==
    /\ accounts = [u \in Users |-> None]
    /\ sessions = [s \in Sessions |-> None]
    /\ fresh = 0
    /\ journal = {} /\ dispatches = {} /\ outbox = {}
    /\ pc = [r \in Requests |-> "idle"]
    /\ target = [r \in Requests |-> None]
    /\ entity = [r \in Requests |-> None]
    /\ seen = [r \in Requests |-> None]

Next ==
    \/ \E u \in Users : RevokeAll(u)
    \/ \E r \in Requests :
          Load(r) \/ SaveSession(r) \/ SaveAccount(r) \/ Persist(r) \/ Crash(r)

Spec == Init /\ [][Next]_vars

----------------------------------------------------------------------------

(* Every table and every local variable holds values of its type. *)
TypeOK ==
    /\ accounts \in [Users -> AccountRow \cup {None}]
    /\ sessions \in [Sessions -> SessionRow \cup {None}]
    /\ fresh \in Nat
    /\ journal \subseteq Events
    /\ dispatches \subseteq Events
    /\ outbox \subseteq Events
    /\ pc \in [Requests -> {"idle"} \cup AtAccount \cup AtSession \cup AtEvents]
    /\ target \in [Requests -> Users \cup Sessions \cup {None}]
    /\ entity \in [Requests -> AccountRow \cup SessionRow \cup {None}]
    /\ seen \in [Requests -> AccountRow \cup SessionRow \cup {None}]

(* An address belongs to one account, although the use case looks for it   *)
(* long before it saves (register-user.use-case.ts:24), and although two   *)
(* registrations of one id may overwrite each other's row.                 *)
OneAccountPerEmail ==
    \A u, w \in Users :
       accounts[u] # None /\ accounts[w] # None /\ u # w
          => accounts[u].email # accounts[w].email

(* A message is only ever in the outbox, and a dispatch pending, for an    *)
(* event the journal holds, wherever a process dies between the commits.   *)
JournalFirst == outbox \subseteq dispatches /\ dispatches \subseteq journal

(* A session that is revoked, with no request at work on it that loaded it *)
(* before it was, is over.                                                 *)
Over(s) ==
    /\ sessions[s] # None /\ sessions[s].revoked
    /\ \A r \in Requests :
          pc[r] \in AtSession /\ target[r] = s => entity[r].revoked

(* What is over stays over: no later refresh, refused or not, no logout    *)
(* and no mixture of their columns makes the session valid again.          *)
OverForGood == [][\A s \in Sessions : Over(s) => Over(s)']_vars
=============================================================================
