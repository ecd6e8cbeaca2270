-------------------------- MODULE AuthCommands_proofs --------------------------
(***************************************************************************)
(* Theorems about AuthCommands, for every set of users, addresses,         *)
(* sessions and requests, and any number of versions and tokens.           *)
(***************************************************************************)
EXTENDS AuthCommands, TLAPS

(***************************************************************************)
(* What a request in flight remembers.                                     *)
(***************************************************************************)
InFlight ==
    \A r \in Requests :
       /\ pc[r] \in AtSession =>
             target[r] \in Sessions /\ entity[r] \in SessionRow
       /\ pc[r] \in AtAccount \cup AtEvents =>
             target[r] \in Users /\ entity[r] \in AccountRow
       /\ pc[r] = "sessionWrite" =>
             /\ seen[r] \in SessionRow \cup {None}
             /\ seen[r] # None => sessions[target[r]] # None
       /\ pc[r] = "accountWrite" =>
             /\ seen[r] \in AccountRow \cup {None}
             /\ seen[r] # None => accounts[target[r]] # None

IInv == TypeOK /\ InFlight

LEMMA NoneIsNoRow == None \notin AccountRow /\ None \notin SessionRow
  BY AuthCommandsAssumption

(* SessionWrite writes a row; it is revoked if the stored row and the      *)
(* session in memory both are.                                             *)
LEMMA WrittenSession ==
  ASSUME IInv, NEW r \in Requests, pc[r] = "sessionWrite"
  PROVE  /\ SessionWritten(r) \in SessionRow
         /\ /\ entity[r].revoked
            /\ sessions[target[r]] # None => sessions[target[r]].revoked
            => SessionWritten(r).revoked
  <1> DEFINE row == sessions[target[r]]  s == seen[r]  e == entity[r]
  <1>1. /\ e \in SessionRow /\ target[r] \in Sessions
        /\ s \in SessionRow \cup {None}
        /\ s # None => row # None
    BY DEF IInv, InFlight, AtSession
  <1>2. s # None => row \in SessionRow
    BY <1>1 DEF IInv, TypeOK
  <1>3. CASE s = None
    BY <1>1, <1>3 DEF SessionWritten
  <1>4. CASE s # None /\ e = s
    BY <1>1, <1>2, <1>4, NoneIsNoRow DEF SessionWritten
  <1>5. CASE s # None /\ e # s
    BY <1>1, <1>2, <1>5, NoneIsNoRow
       DEF SessionWritten, SessionUpdated, Column, NextVersion, SessionRow
  <1> QED BY <1>3, <1>4, <1>5

LEMMA WrittenAccount ==
  ASSUME IInv, NEW r \in Requests, pc[r] = "accountWrite"
  PROVE  AccountWritten(r) \in AccountRow
  <1> DEFINE row == accounts[target[r]]  s == seen[r]  e == entity[r]
  <1>1. /\ e \in AccountRow /\ target[r] \in Users
        /\ s \in AccountRow \cup {None}
        /\ s # None => row # None
    BY DEF IInv, InFlight, AtAccount
  <1>2. s # None => row \in AccountRow
    BY <1>1 DEF IInv, TypeOK
  <1>3. CASE s = None
    BY <1>1, <1>3 DEF AccountWritten
  <1>4. CASE s # None
    BY <1>1, <1>2, <1>4 DEF AccountWritten, Column, NextVersion, AccountRow
  <1> QED BY <1>3, <1>4

(* What RevokeAll makes of a row.                                          *)
RevokedNow(row) == [row EXCEPT !.revoked = TRUE, !.version = @ + 1]

LEMMA RevokedRow ==
  ASSUME NEW row \in SessionRow
  PROVE  RevokedNow(row) \in SessionRow /\ RevokedNow(row).revoked
  <1>1. row.version + 1 \in Nat
    BY DEF SessionRow
  <1> QED BY <1>1 DEF RevokedNow, SessionRow

(* A session that was loaded is a row, rotated or revoked.                 *)
LEMMA LoadedSession ==
  ASSUME TypeOK, NEW s \in Sessions, Loadable(s)
  PROVE  /\ Loaded(s) = sessions[s] /\ Loaded(s) \in SessionRow
         /\ \A n \in Nat : [Loaded(s) EXCEPT !.token = n] \in SessionRow
         /\ [Loaded(s) EXCEPT !.revoked = TRUE] \in SessionRow
         /\ [Loaded(s) EXCEPT !.revoked = TRUE].revoked
  <1>1. Loaded(s) = sessions[s] /\ sessions[s] \in SessionRow
    BY DEF TypeOK, Loadable, Loaded
  <1> QED BY <1>1 DEF SessionRow

(* A request that loads a well-typed entity keeps the invariant.           *)
LEMMA StartTyped ==
  ASSUME IInv, NEW r \in Requests, NEW l, NEW id, NEW e, Start(r, l, id, e),
         \/ l = "sessionCheck" /\ id \in Sessions /\ e \in SessionRow
         \/ l = "accountCheck" /\ id \in Users /\ e \in AccountRow,
         UNCHANGED <<accounts, sessions, events>>, fresh' \in Nat
  PROVE  IInv'
  <1>1. TypeOK'
    BY DEF IInv, TypeOK, Start, events, AtAccount, AtSession, AtEvents
  <1>2. InFlight'
    BY DEF IInv, TypeOK, InFlight, Start, events, AtAccount, AtSession, AtEvents
  <1> QED BY <1>1, <1>2 DEF IInv

LEMMA InitTyped == Init => IInv
  BY AuthCommandsAssumption
     DEF Init, IInv, TypeOK, InFlight, AtAccount, AtSession, AtEvents

LEMMA LoadTyped ==
  ASSUME IInv, NEW r \in Requests, Load(r)
  PROVE  IInv'
  <1> USE DEF tables
  <1>1. fresh \in Nat
    BY DEF IInv, TypeOK
  <1>2. ASSUME NEW s \in Sessions, NEW u \in Users, Login(r, u, s) PROVE IInv'
    <2>1. [user |-> u, token |-> fresh, revoked |-> FALSE, version |-> 0] \in SessionRow
      BY <1>1 DEF SessionRow
    <2> QED BY <1>1, <1>2, <2>1, StartTyped DEF Login
  <1>3. ASSUME NEW s \in Sessions, RefreshRotate(r, s) PROVE IInv'
    <2>1. [Loaded(s) EXCEPT !.token = fresh] \in SessionRow
      BY <1>1, <1>3, LoadedSession DEF RefreshRotate, IInv
    <2> QED BY <1>1, <1>3, <2>1, StartTyped DEF RefreshRotate
  <1>4. ASSUME NEW s \in Sessions, Revoke(r, s) PROVE IInv'
    <2>1. [Loaded(s) EXCEPT !.revoked = TRUE] \in SessionRow
      BY <1>4, LoadedSession DEF Revoke, IInv
    <2> QED BY <1>1, <1>4, <2>1, StartTyped DEF Revoke
  <1>5. ASSUME NEW u \in Users, NEW m \in Emails, Register(r, u, m) PROVE IInv'
    <2>1. [email |-> m, version |-> 0] \in AccountRow
      BY DEF AccountRow
    <2> QED BY <1>1, <1>5, <2>1, StartTyped DEF Register
  <1>6. ASSUME NEW u \in Users, ChangePassword(r, u) PROVE IInv'
    <2>1. accounts[u] \in AccountRow
      BY <1>6 DEF ChangePassword, IInv, TypeOK
    <2>2. [accounts[u] EXCEPT !.version = @ + 1] \in AccountRow
      BY <2>1 DEF AccountRow
    <2> QED BY <1>1, <1>6, <2>2, StartTyped DEF ChangePassword
  <1> QED BY <1>2, <1>3, <1>4, <1>5, <1>6 DEF Load, RefreshRefuse, Logout

LEMMA StepTyped == IInv /\ [Next]_vars => IInv'
  <1> SUFFICES ASSUME IInv, [Next]_vars PROVE IInv'
    OBVIOUS
  <1> USE NoneIsNoRow
          DEF IInv, InFlight, TypeOK, tables, events, locals, AtAccount, AtSession, AtEvents
  <1>1. ASSUME NEW u \in Users, RevokeAll(u) PROVE IInv'
    <2>1. ASSUME NEW s \in Sessions
          PROVE  /\ sessions'[s] \in SessionRow \cup {None}
                 /\ sessions[s] # None => sessions'[s] # None
      <3>1. sessions'[s] = sessions[s] \/ sessions'[s] = RevokedNow(sessions[s])
        BY <1>1 DEF RevokeAll, RevokedNow
      <3>2. CASE sessions[s] = None
        BY <1>1, <3>2 DEF RevokeAll
      <3>3. CASE sessions[s] # None
        BY <3>1, <3>3, RevokedRow
      <3> QED BY <3>2, <3>3
    <2>2. sessions' \in [Sessions -> SessionRow \cup {None}]
      BY <1>1, <2>1 DEF RevokeAll
    <2> QED BY <1>1, <2>1, <2>2 DEF RevokeAll
  <1>2. ASSUME NEW r \in Requests, Load(r) PROVE IInv'
    BY <1>2, LoadTyped
  <1>3. ASSUME NEW r \in Requests, SaveSession(r) PROVE IInv'
    <2>1. CASE SessionCheck(r)
      <3>1. CASE Finish(r)
        BY <2>1, <3>1 DEF SessionCheck, Finish
      <3>2. CASE ~Finish(r)
        <4>1. PICK v \in Nat : /\ entity' = [entity EXCEPT ![r].version = v]
                               /\ pc' = [pc EXCEPT ![r] = "sessionSelect"]
                               /\ UNCHANGED <<target, seen>>
          <5>1. sessions[target[r]] # None => sessions[target[r]].version + 1 \in Nat
            BY <2>1 DEF SessionCheck, SessionRow
          <5> QED BY <2>1, <3>2, <5>1 DEF SessionCheck
        <4>2. [entity[r] EXCEPT !.version = v] \in SessionRow
          BY <2>1, <4>1 DEF SessionCheck, SessionRow
        <4> QED BY <2>1, <4>1, <4>2 DEF SessionCheck
      <3> QED BY <3>1, <3>2
    <2>2. CASE SessionSelect(r) BY <2>2 DEF SessionSelect
    <2>3. CASE SessionWrite(r)
      BY <2>3, WrittenSession DEF SessionWrite, Finish
    <2> QED BY <1>3, <2>1, <2>2, <2>3 DEF SaveSession
  <1>4. ASSUME NEW r \in Requests, SaveAccount(r) PROVE IInv'
    <2>1. CASE AccountCheck(r) BY <2>1 DEF AccountCheck, Goto, Finish
    <2>2. CASE AccountSelect(r) BY <2>2 DEF AccountSelect
    <2>3. CASE AccountWrite(r)
      BY <2>3, WrittenAccount DEF AccountWrite, Goto, Finish
    <2> QED BY <1>4, <2>1, <2>2, <2>3 DEF SaveAccount
  <1>5. ASSUME NEW r \in Requests, Persist(r) PROVE IInv'
    <2>1. Event(r) \in Events
      BY <1>5 DEF Persist, SaveJournal, SaveDispatch, SaveOutbox, Event, Events, AccountRow
    <2>2. CASE SaveJournal(r) BY <2>1, <2>2 DEF SaveJournal, Goto, Finish
    <2>3. CASE SaveDispatch(r) BY <2>1, <2>3 DEF SaveDispatch, Goto, Finish
    <2>4. CASE SaveOutbox(r) BY <2>1, <2>4 DEF SaveOutbox, Finish
    <2> QED BY <1>5, <2>2, <2>3, <2>4 DEF Persist
  <1>6. ASSUME NEW r \in Requests, Crash(r) PROVE IInv'
    BY <1>6 DEF Crash, Finish
  <1>7. CASE UNCHANGED vars
    BY <1>7 DEF vars
  <1> QED BY <1>1, <1>2, <1>3, <1>4, <1>5, <1>6, <1>7 DEF Next

LEMMA Invariance == Spec => []IInv
  BY InitTyped, StepTyped, PTL DEF Spec

(* The tables and the requests' memory keep their types. *)
THEOREM TypeCorrect == Spec => []TypeOK
  BY Invariance, PTL DEF IInv

----------------------------------------------------------------------------
(***************************************************************************)
(* One account per address: only AccountWrite changes the table.           *)
(***************************************************************************)

LEMMA AccountsStep ==
  ASSUME [Next]_vars
  PROVE  UNCHANGED accounts \/ \E r \in Requests : AccountWrite(r)
  <1> USE DEF tables
  <1>1. ASSUME NEW u \in Users, RevokeAll(u) PROVE UNCHANGED accounts
    BY <1>1 DEF RevokeAll
  <1>2. ASSUME NEW r \in Requests, Load(r) PROVE UNCHANGED accounts
    BY <1>2 DEF Load, Login, RefreshRotate, RefreshRefuse, Logout, Revoke,
                Register, ChangePassword
  <1>3. ASSUME NEW r \in Requests, SaveSession(r) \/ AccountCheck(r) \/ AccountSelect(r)
        PROVE  UNCHANGED accounts
    BY <1>3 DEF SaveSession, SessionCheck, SessionSelect, SessionWrite,
                AccountCheck, AccountSelect
  <1>4. ASSUME NEW r \in Requests, Persist(r) \/ Crash(r) PROVE UNCHANGED accounts
    BY <1>4 DEF Persist, SaveJournal, SaveDispatch, SaveOutbox, Crash
  <1>5. CASE UNCHANGED vars
    BY <1>5 DEF vars
  <1> QED BY <1>1, <1>2, <1>3, <1>4, <1>5 DEF Next, SaveAccount

LEMMA StepOneAccount ==
  ASSUME IInv, OneAccountPerEmail, [Next]_vars
  PROVE  OneAccountPerEmail'
  <1>1. CASE UNCHANGED accounts
    BY <1>1 DEF OneAccountPerEmail
  <1>2. ASSUME NEW r \in Requests, Accepted(r), target[r] \in Users,
               accounts' = [accounts EXCEPT ![target[r]] = AccountWritten(r)]
        PROVE  OneAccountPerEmail'
    <2> DEFINE t == target[r]  row == AccountWritten(r)
    <2>1. accounts'[t] = row /\ \A w \in Users \ {t} : accounts'[w] = accounts[w]
      BY <1>2 DEF IInv, TypeOK
    <2>2. \A w \in Users \ {t} : accounts[w] # None => accounts[w].email # row.email
      BY <1>2 DEF Accepted
    <2> QED BY <2>1, <2>2 DEF OneAccountPerEmail
  <1>3. ASSUME NEW r \in Requests, AccountWrite(r), ~UNCHANGED accounts
        PROVE  /\ Accepted(r) /\ target[r] \in Users
               /\ accounts' = [accounts EXCEPT ![target[r]] = AccountWritten(r)]
    BY <1>3 DEF AccountWrite, IInv, InFlight, AtAccount
  <1> QED BY <1>1, <1>2, <1>3, AccountsStep

(* However registrations interleave, an address has one account.           *)
THEOREM EmailsAreUnique == Spec => []OneAccountPerEmail
  <1>1. Init => OneAccountPerEmail
    BY DEF Init, OneAccountPerEmail
  <1>2. IInv /\ OneAccountPerEmail /\ [Next]_vars => OneAccountPerEmail'
    BY StepOneAccount
  <1> QED BY <1>1, <1>2, Invariance, PTL DEF Spec

----------------------------------------------------------------------------
(***************************************************************************)
(* A request's memory changes only in its own steps.                       *)
(***************************************************************************)

Own(r) == <<pc[r], target[r], entity[r], seen[r]>>

LEMMA OwnStep ==
  ASSUME IInv, [Next]_vars, NEW r \in Requests
  PROVE  \/ UNCHANGED Own(r)
         \/ Load(r) \/ SaveSession(r) \/ SaveAccount(r) \/ Persist(r) \/ Crash(r)
  <1> USE DEF locals, Own, IInv, TypeOK
  <1>1. ASSUME NEW u \in Users, RevokeAll(u) PROVE UNCHANGED Own(r)
    BY <1>1 DEF RevokeAll
  <1>2. ASSUME NEW q \in Requests, q # r, Load(q) PROVE UNCHANGED Own(r)
    <2>1. PICK l, id, e : Start(q, l, id, e)
      BY <1>2 DEF Load, Login, RefreshRotate, RefreshRefuse, Logout, Revoke,
                  Register, ChangePassword
    <2> QED BY <1>2, <2>1 DEF Start
  <1>3. ASSUME NEW q \in Requests, q # r, SaveSession(q) PROVE UNCHANGED Own(r)
    BY <1>3 DEF SaveSession, SessionCheck, SessionSelect, SessionWrite, Finish
  <1>4. ASSUME NEW q \in Requests, q # r, SaveAccount(q) PROVE UNCHANGED Own(r)
    BY <1>4 DEF SaveAccount, AccountCheck, AccountSelect, AccountWrite, Goto, Finish
  <1>5. ASSUME NEW q \in Requests, q # r, Persist(q) \/ Crash(q)
        PROVE  UNCHANGED Own(r)
    BY <1>5 DEF Persist, SaveJournal, SaveDispatch, SaveOutbox, Crash, Goto, Finish
  <1>6. CASE UNCHANGED vars
    BY <1>6 DEF vars
  <1> QED BY <1>1, <1>2, <1>3, <1>4, <1>5, <1>6 DEF Next

----------------------------------------------------------------------------
(***************************************************************************)
(* The journal comes first.                                                *)
(***************************************************************************)

Persisted ==
    \A r \in Requests :
       /\ pc[r] = "dispatch" => Event(r) \in journal
       /\ pc[r] = "outbox" => Event(r) \in dispatches

EventInv == JournalFirst /\ Persisted

LEMMA EventRowsStep ==
  ASSUME [Next]_vars
  PROVE  UNCHANGED events \/ \E r \in Requests : Persist(r)
  <1> USE DEF events, tables
  <1>1. ASSUME NEW u \in Users, RevokeAll(u) PROVE UNCHANGED events
    BY <1>1 DEF RevokeAll
  <1>2. ASSUME NEW r \in Requests, Load(r) PROVE UNCHANGED events
    BY <1>2 DEF Load, Login, RefreshRotate, RefreshRefuse, Logout, Revoke,
                Register, ChangePassword
  <1>3. ASSUME NEW r \in Requests, SaveSession(r) \/ SaveAccount(r) \/ Crash(r)
        PROVE  UNCHANGED events
    BY <1>3 DEF SaveSession, SessionCheck, SessionSelect, SessionWrite,
                SaveAccount, AccountCheck, AccountSelect, AccountWrite, Crash
  <1> QED BY <1>1, <1>2, <1>3 DEF Next, vars

LEMMA StepEvents ==
  ASSUME IInv, EventInv, [Next]_vars
  PROVE  EventInv'
  <1> USE DEF events, JournalFirst, EventInv
  <1>1. JournalFirst' /\ journal \subseteq journal' /\ dispatches \subseteq dispatches'
    <2>1. ASSUME NEW r \in Requests, Persist(r)
          PROVE  JournalFirst' /\ journal \subseteq journal' /\ dispatches \subseteq dispatches'
      BY <2>1 DEF Persist, SaveJournal, SaveDispatch, SaveOutbox, Persisted
    <2> QED BY <2>1, EventRowsStep
  <1>2. ASSUME NEW r \in Requests
        PROVE  /\ pc'[r] = "dispatch" => Event(r)' \in journal'
               /\ pc'[r] = "outbox" => Event(r)' \in dispatches'
    <2> USE DEF IInv, TypeOK, Event
    <2>1. CASE UNCHANGED Own(r)
      BY <1>1, <2>1 DEF Own, Persisted
    <2>2. CASE Load(r)
      BY <2>2 DEF Load, Login, RefreshRotate, RefreshRefuse, Logout, Revoke,
                  Register, ChangePassword, Start
    <2>3. CASE SaveSession(r) \/ Crash(r)
      BY <2>3 DEF SaveSession, SessionCheck, SessionSelect, SessionWrite, Crash, Finish
    <2>4. CASE SaveAccount(r)
      BY <2>4 DEF SaveAccount, AccountCheck, AccountSelect, AccountWrite, Goto, Finish
    <2>5. CASE Persist(r)
      BY <2>5 DEF Persist, SaveJournal, SaveDispatch, SaveOutbox, Goto, Finish
    <2> QED BY <2>1, <2>2, <2>3, <2>4, <2>5, OwnStep
  <1> QED BY <1>1, <1>2 DEF Persisted

(* No event is dispatched or published that the journal does not hold.     *)
THEOREM AlwaysJournalFirst == Spec => []JournalFirst
  <1>1. Init => EventInv
    BY DEF Init, EventInv, JournalFirst, Persisted
  <1>2. IInv /\ EventInv /\ [Next]_vars => EventInv'
    BY StepEvents
  <1>3. EventInv => JournalFirst
    BY DEF EventInv
  <1> QED BY <1>1, <1>2, <1>3, Invariance, PTL DEF Spec

----------------------------------------------------------------------------
(***************************************************************************)
(* What is over stays over.                                                *)
(***************************************************************************)

(* A request loads an existing revoked session only to revoke it.          *)
LEMMA LoadsRevoked ==
  ASSUME IInv, NEW r \in Requests, NEW s \in Sessions, Over(s), Load(r),
         pc'[r] \in AtSession, target'[r] = s
  PROVE  entity'[r].revoked
  <1> USE DEF IInv, TypeOK, AtSession
  <1>1. ASSUME NEW o \in Sessions, NEW u \in Users, Login(r, u, o) PROVE FALSE
    BY <1>1 DEF Login, Start, Over
  <1>2. ASSUME NEW o \in Sessions, RefreshRotate(r, o) PROVE FALSE
    BY <1>2, LoadedSession DEF RefreshRotate, Start, Over
  <1>3. ASSUME NEW o \in Sessions, Revoke(r, o) PROVE entity'[r].revoked
    BY <1>3, LoadedSession DEF Revoke, Start
  <1>4. ASSUME NEW u \in Users,
               (\E m \in Emails : Register(r, u, m)) \/ ChangePassword(r, u)
        PROVE  FALSE
    BY <1>4 DEF Register, ChangePassword, Start
  <1> QED BY <1>1, <1>2, <1>3, <1>4 DEF Load, RefreshRefuse, Logout

LEMMA StaysRevoked ==
  ASSUME IInv, [Next]_vars, NEW s \in Sessions, Over(s)
  PROVE  sessions'[s] # None /\ sessions'[s].revoked
  <1> USE NoneIsNoRow DEF tables
  <1>1. sessions[s] \in SessionRow /\ sessions[s].revoked
    BY DEF Over, IInv, TypeOK
  <1>2. ASSUME NEW u \in Users, RevokeAll(u)
        PROVE  sessions'[s] # None /\ sessions'[s].revoked
    <2>1. sessions'[s] = sessions[s] \/ sessions'[s] = RevokedNow(sessions[s])
      BY <1>2 DEF RevokeAll, RevokedNow
    <2> QED BY <1>1, <2>1, RevokedRow
  <1>3. ASSUME NEW r \in Requests, SessionWrite(r)
        PROVE  sessions'[s] # None /\ sessions'[s].revoked
    <2>1. target[r] \in Sessions /\ SessionWritten(r) \in SessionRow
      BY <1>3, WrittenSession DEF SessionWrite, IInv, InFlight, AtSession
    <2>2. target[r] = s => SessionWritten(r).revoked
      BY <1>1, <1>3, WrittenSession DEF SessionWrite, Over, AtSession
    <2> QED BY <1>1, <1>3, <2>1, <2>2 DEF SessionWrite, IInv, TypeOK
  <1>4. ASSUME NEW r \in Requests,
               Load(r) \/ SessionCheck(r) \/ SessionSelect(r) \/ SaveAccount(r)
                  \/ Persist(r) \/ Crash(r)
        PROVE  UNCHANGED sessions
    BY <1>4 DEF Load, Login, RefreshRotate, RefreshRefuse, Logout, Revoke, Register,
                ChangePassword, SessionCheck, SessionSelect, SaveAccount, AccountCheck,
                AccountSelect, AccountWrite, Persist, SaveJournal, SaveDispatch,
                SaveOutbox, Crash
  <1>5. CASE UNCHANGED vars
    BY <1>1, <1>5 DEF vars
  <1> QED BY <1>1, <1>2, <1>3, <1>4, <1>5 DEF Next, SaveSession

LEMMA StepOver ==
  ASSUME IInv, [Next]_vars, NEW s \in Sessions, Over(s)
  PROVE  Over(s)'
  <1>1. ASSUME NEW r \in Requests, pc'[r] \in AtSession, target'[r] = s
        PROVE  entity'[r].revoked
    <2> USE DEF IInv, TypeOK
    <2>1. CASE UNCHANGED Own(r)
      BY <1>1, <2>1 DEF Own, Over
    <2>2. CASE Load(r)
      BY <1>1, <2>2, LoadsRevoked
    <2>3. CASE SaveSession(r)
      <3>1. pc[r] \in AtSession /\ target[r] = s /\ entity[r] \in SessionRow
        BY <1>1, <2>3 DEF SaveSession, SessionCheck, SessionSelect, SessionWrite,
                          Finish, AtSession, InFlight
      <3>2. entity'[r] = entity[r] \/ \E v : entity'[r] = [entity[r] EXCEPT !.version = v]
        BY <1>1, <2>3 DEF SaveSession, SessionCheck, SessionSelect, SessionWrite,
                          Finish, AtSession
      <3> QED BY <1>1, <3>1, <3>2 DEF Over, SessionRow
    <2>4. CASE SaveAccount(r) \/ Persist(r) \/ Crash(r)
      BY <1>1, <2>4 DEF SaveAccount, AccountCheck, AccountSelect, AccountWrite, Persist,
                        SaveJournal, SaveDispatch, SaveOutbox, Crash, Goto, Finish, AtSession
    <2> QED BY <2>1, <2>2, <2>3, <2>4, OwnStep
  <1> QED BY <1>1, StaysRevoked DEF Over

(* A revoked session, once no request is left that loaded it before it was *)
(* revoked, is never valid again.                                          *)
THEOREM OverIsFinal == Spec => OverForGood
  <1>1. IInv /\ [Next]_vars => \A s \in Sessions : Over(s) => Over(s)'
    BY StepOver
  <1> QED BY <1>1, Invariance, PTL DEF Spec, OverForGood

=============================================================================
