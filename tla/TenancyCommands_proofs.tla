------------------------ MODULE TenancyCommands_proofs -----------------------
(***************************************************************************)
(* Theorems about TenancyCommands, for every set of units, invitations,    *)
(* tenancies, handover protocols and requests, every range of days and any *)
(* number of versions.  Every request may die anywhere, and every command  *)
(* may be sent again.                                                      *)
(***************************************************************************)
EXTENDS TenancyCommands, TLAPS

(***************************************************************************)
(* What a request in flight remembers.  The type invariant is not          *)
(* inductive without it: the statements read columns of entity[r].         *)
(***************************************************************************)
Inviting == {"inviteCheck", "inviteSelect", "inviteWrite"}
Confirming == {"protocolCheck", "protocolSelect", "protocolWrite"}
Activating == {"readiness", "handover"}
Saving == {"check", "select", "write"}
Persisting == {"journal", "dispatch", "outbox"}

\* The request works on an invitation, and on no tenancy.
OnlyInvites(r) == pc[r] \in Inviting /\ target[r] = None

InFlight ==
    \A r \in Requests :
       /\ pc[r] # "idle" /\ pc[r] \notin Confirming /\ ~OnlyInvites(r) =>
             target[r] \in Tenancies /\ entity[r] \in TenancyRow
       /\ pc[r] = "idle" => invite[r] = None
       /\ pc[r] \in Inviting \cup {"overlap"} =>
             /\ source[r] \in Invitations
             /\ invite[r] \in InvitationRow
             /\ target[r] # None => entity[r].status = "RESERVED"
       /\ pc[r] = "inviteWrite" =>
             /\ seen[r] \in InvitationRow \cup {None}
             /\ seen[r] # None => invitations[source[r]] # None
       /\ pc[r] \in Confirming => /\ source[r] \in Handovers
                                  /\ protocol[r] \in ProtocolRow
                                  /\ invite[r] = None
       /\ pc[r] = "protocolWrite" =>
             /\ seen[r] \in ProtocolRow \cup {None}
             /\ seen[r] # None => handovers[source[r]] # None
       /\ pc[r] \in Activating => /\ source[r] \in Handovers
                                  /\ entity[r].status = "ACTIVE"
       /\ pc[r] = "write" =>
             /\ seen[r] \in TenancyRow \cup {None}
             /\ seen[r] # None => tenancies[target[r]] # None

IInv == TypeOK /\ InFlight

LEMMA NoneIsNoRow == /\ None \notin TenancyRow
                     /\ None \notin InvitationRow
                     /\ None \notin ProtocolRow
                     /\ None \notin Tenancies
  BY TenancyCommandsAssumption

(* What SaveWrite writes is a row, and each of its columns comes from the  *)
(* aggregate in memory or from the stored row.                             *)
LEMMA WrittenRow ==
  ASSUME TypeOK, InFlight, NEW r \in Requests, pc[r] = "write", Accepted(r)
  PROVE  /\ Written(r) \in TenancyRow
         /\ \/ Written(r).unit = entity[r].unit
            \/ /\ tenancies[target[r]] # None
               /\ Written(r).unit = tenancies[target[r]].unit
         /\ \/ Written(r).status = entity[r].status
            \/ /\ tenancies[target[r]] # None
               /\ Written(r).status = tenancies[target[r]].status
  <1>1. entity[r] \in TenancyRow /\ target[r] \in Tenancies
    BY DEF InFlight, OnlyInvites, Inviting, Confirming
  <1>2. tenancies[target[r]] \in TenancyRow \cup {None} /\ seen[r] \in TenancyRow \cup {None}
    BY <1>1 DEF TypeOK, InFlight
  <1>3. CASE seen[r] = None
    BY <1>1, <1>3 DEF Written
  <1>4. CASE seen[r] # None
    <2>1. tenancies[target[r]] \in TenancyRow
      BY <1>2, <1>4 DEF InFlight
    <2>2. CASE entity[r] = seen[r]
      BY <1>1, <1>2, <2>1, <2>2, <1>4, NoneIsNoRow DEF Written
    <2>3. CASE entity[r] # seen[r]
      BY <1>1, <1>2, <2>1, <2>3, <1>4, NoneIsNoRow
         DEF Written, Updated, Column, TenancyRow
    <2> QED BY <2>2, <2>3
  <1> QED BY <1>3, <1>4

(* And so for InvitationWrite. *)
LEMMA InvitationWrittenRow ==
  ASSUME TypeOK, InFlight, NEW r \in Requests, pc[r] = "inviteWrite"
  PROVE  InvitationWritten(r) \in InvitationRow
  <1>1. /\ source[r] \in Invitations /\ invite[r] \in InvitationRow
        /\ seen[r] \in InvitationRow \cup {None}
    BY DEF InFlight, Inviting
  <1>2. seen[r] # None => invitations[source[r]] \in InvitationRow
    BY <1>1 DEF TypeOK, InFlight
  <1>3. CASE seen[r] = None
    BY <1>1, <1>3 DEF InvitationWritten
  <1>4. CASE seen[r] # None
    BY <1>1, <1>2, <1>4 DEF InvitationWritten, InvitationUpdated, Column, InvitationRow
  <1> QED BY <1>3, <1>4

(* And so for ProtocolWrite. *)
LEMMA ProtocolWrittenRow ==
  ASSUME TypeOK, InFlight, NEW r \in Requests, pc[r] = "protocolWrite",
         seen[r] # None,
         NEW new \in ProtocolUpdated(handovers[source[r]], seen[r], protocol[r])
  PROVE  new \in ProtocolRow
  <1> DEFINE row == handovers[source[r]]
  <1>1. /\ source[r] \in Handovers /\ protocol[r] \in ProtocolRow
        /\ seen[r] \in ProtocolRow
    BY DEF InFlight, Confirming
  <1>2. row \in ProtocolRow
    BY <1>1 DEF TypeOK, InFlight
  <1>3. row.version + 1 \in Nat
    BY <1>2 DEF ProtocolRow
  <1>4. [row EXCEPT !.version = @ + 1] \in ProtocolRow
    BY <1>2, <1>3 DEF ProtocolRow
  <1>5. CASE protocol[r] = seen[r]
    BY <1>2, <1>4, <1>5 DEF ProtocolUpdated
  <1>6. CASE protocol[r] # seen[r]
    BY <1>1, <1>2, <1>3, <1>6 DEF ProtocolUpdated, Column, ProtocolRow
  <1> QED BY <1>5, <1>6

(* A request that loads a well-typed aggregate keeps the invariant, when   *)
(* its first statement is one that needs no invitation.                    *)
LEMMA StartTyped ==
  ASSUME IInv, NEW r \in Requests, NEW t \in Tenancies,
         NEW l \in {"readiness", "check"}, NEW x \in Handovers \cup {None},
         NEW e \in TenancyRow,
         l = "readiness" => x \in Handovers /\ e.status = "ACTIVE",
         Start(r, l, t, x, None, e), UNCHANGED <<tables, events, history>>
  PROVE  IInv'
  <1>1. TypeOK'
    BY DEF IInv, TypeOK, Start, tables, events, history
  <1>2. InFlight'
    BY NoneIsNoRow DEF IInv, TypeOK, InFlight, OnlyInvites, Inviting, Confirming,
                       Activating, Start, tables, events, history
  <1> QED BY <1>1, <1>2 DEF IInv

LEMMA RowUpdated ==
  ASSUME NEW row \in TenancyRow, NEW d \in NoticeDates
  PROVE  [row EXCEPT !.status = "TERMINATED", !.notice = d,
                     !.version = @ + 1] \in TenancyRow
  <1>1. row.version + 1 \in Nat
    BY DEF TenancyRow
  <1> QED BY <1>1 DEF TenancyRow

LEMMA RowEnded ==
  ASSUME NEW row \in TenancyRow
  PROVE  /\ [row EXCEPT !.status = "ACTIVE", !.version = @ + 1] \in TenancyRow
         /\ [row EXCEPT !.status = "ENDED", !.version = @ + 1] \in TenancyRow
  <1>1. row.version + 1 \in Nat
    BY DEF TenancyRow
  <1> QED BY <1>1 DEF TenancyRow

LEMMA LoadedRow ==
  ASSUME TypeOK, NEW t \in Tenancies, Loadable(t)
  PROVE  /\ tenancies[t] \in TenancyRow
         /\ [tenancies[t] EXCEPT !.status = "ACTIVE", !.version = @ + 1] \in TenancyRow
         /\ [tenancies[t] EXCEPT !.status = "ENDED", !.version = @ + 1] \in TenancyRow
         /\ \A d \in NoticeDates :
               [tenancies[t] EXCEPT !.status = "TERMINATED", !.notice = d,
                                    !.version = @ + 1] \in TenancyRow
  <1>1. tenancies[t] \in TenancyRow
    BY DEF TypeOK, Loadable, Readable
  <1> QED BY <1>1, RowUpdated, RowEnded

LEMMA InitTyped == Init => IInv
  BY TenancyCommandsAssumption
     DEF Init, IInv, TypeOK, InFlight, OnlyInvites, Inviting, Confirming, Activating

LEMMA StepTyped == IInv /\ [Next]_vars => IInv'
  <1> SUFFICES ASSUME IInv, [Next]_vars PROVE IInv'
    OBVIOUS
  <1> USE NoneIsNoRow
          DEF IInv, InFlight, OnlyInvites, Inviting, Confirming, Activating, TypeOK,
              tables, events, history, locals
  <1>1. ASSUME NEW u \in Units, RegisterUnit(u) PROVE IInv'
    BY <1>1 DEF RegisterUnit
  <1>2. ASSUME NEW i \in Invitations, Expire(i) PROVE IInv'
    BY <1>2 DEF Expire
  <1>3. ASSUME NEW r \in Requests, NEW i \in Invitations, NEW u \in Units,
               InviteLoad(r, i, u)
        PROVE  IInv'
    BY <1>3 DEF InviteLoad, Start, InvitationRow
  <1>4. ASSUME NEW r \in Requests, NEW h \in Handovers, NEW t \in Tenancies,
               NEW n \in 0..MaxEntries, ConfirmLoad(r, h, t, n)
        PROVE  IInv'
    <2>1. [tenancy |-> t, version |-> n + 1] \in ProtocolRow
      BY TenancyCommandsAssumption DEF ProtocolRow
    <2> QED BY <1>4, <2>1 DEF ConfirmLoad
  <1>5. ASSUME NEW r \in Requests, Protocol(r) PROVE IInv'
    <2>1. CASE ProtocolCheck(r)
      <3>1. CASE Finish(r)
        BY <2>1, <3>1 DEF ProtocolCheck, Finish
      <3>2. CASE ~Finish(r)
        <4>1. PICK v \in Nat : /\ protocol' = [protocol EXCEPT ![r].version = v]
                               /\ pc' = [pc EXCEPT ![r] = "protocolSelect"]
                               /\ UNCHANGED <<target, source, invite, entity, seen>>
          <5>1. handovers[source[r]] # None => handovers[source[r]].version + 1 \in Nat
            BY <2>1 DEF ProtocolCheck, ProtocolRow
          <5> QED BY <2>1, <3>2, <5>1 DEF ProtocolCheck
        <4>2. [protocol[r] EXCEPT !.version = v] \in ProtocolRow
          BY <2>1 DEF ProtocolCheck, ProtocolRow
        <4> QED BY <2>1, <4>1, <4>2 DEF ProtocolCheck
      <3> QED BY <3>1, <3>2
    <2>2. CASE ProtocolSelect(r) BY <2>2 DEF ProtocolSelect
    <2>3. CASE ProtocolWrite(r)
      <3>1. CASE UNCHANGED <<handovers, handed>>
        BY <2>3, <3>1 DEF ProtocolWrite, Finish
      <3>2. ASSUME NEW new \in ProtocolRow,
                   handovers' = [handovers EXCEPT ![source[r]] = new],
                   handed' = handed \cup {new.tenancy}
            PROVE  IInv'
        <4>1. new.tenancy \in Tenancies
          BY DEF ProtocolRow
        <4> QED BY <2>3, <3>2, <4>1 DEF ProtocolWrite, Finish
      <3> QED BY <2>3, <3>1, <3>2, ProtocolWrittenRow DEF ProtocolWrite
    <2> QED BY <1>5, <2>1, <2>2, <2>3 DEF Protocol
  <1>6. ASSUME NEW r \in Requests, NEW t \in Tenancies, NEW i \in Invitations,
               NEW from \in Days, NEW to \in Days, AcceptLoad(r, i, t, from, to)
        PROVE  IInv'
    BY <1>6 DEF AcceptLoad, Start, Reservation, TenancyRow, InvitationRow
  <1>7. ASSUME NEW r \in Requests, NEW t \in Tenancies, NEW h \in Handovers,
               ActivateLoad(r, t, h)
        PROVE  IInv'
    <2> DEFINE e == [tenancies[t] EXCEPT !.status = "ACTIVE", !.version = @ + 1]
    <2>1. e \in TenancyRow /\ tenancies[t] \in TenancyRow
      BY <1>7, LoadedRow DEF ActivateLoad
    <2>2. e.status = "ACTIVE"
      BY <2>1 DEF TenancyRow
    <2> QED BY <1>7, <2>1, <2>2, StartTyped DEF ActivateLoad
  <1>8. ASSUME NEW r \in Requests, NEW t \in Tenancies, NEW d \in NoticeDates,
               GiveNoticeLoad(r, t, d)
        PROVE  IInv'
    BY <1>8, LoadedRow, StartTyped DEF GiveNoticeLoad
  <1>9. ASSUME NEW r \in Requests, NEW t \in Tenancies, EndLoad(r, t) PROVE IInv'
    BY <1>9, LoadedRow, StartTyped DEF EndLoad
  <1>10. ASSUME NEW r \in Requests, Invite(r) PROVE IInv'
    <2>1. CASE AcceptOverlap(r) BY <2>1 DEF AcceptOverlap, Goto, Finish
    <2>2. CASE InvitationCheck(r)
      <3>1. CASE Finish(r)
        BY <2>2, <3>1 DEF InvitationCheck, Finish
      <3>2. CASE ~Finish(r)
        <4>1. PICK v \in Nat : /\ invite' = [invite EXCEPT ![r].version = v]
                               /\ pc' = [pc EXCEPT ![r] = "inviteSelect"]
                               /\ UNCHANGED <<target, source, protocol, entity, seen>>
          <5>1. invitations[source[r]] # None => invitations[source[r]].version + 1 \in Nat
            BY <2>2 DEF InvitationCheck, InvitationRow
          <5> QED BY <2>2, <3>2, <5>1 DEF InvitationCheck
        <4>2. [invite[r] EXCEPT !.version = v] \in InvitationRow
          BY <2>2 DEF InvitationCheck, InvitationRow
        <4> QED BY <2>2, <4>1, <4>2 DEF InvitationCheck
      <3> QED BY <3>1, <3>2
    <2>3. CASE InvitationSelect(r) BY <2>3 DEF InvitationSelect
    <2>4. CASE InvitationWrite(r)
      <3>1. InvitationWritten(r) \in InvitationRow /\ source[r] \in Invitations
        BY <2>4, InvitationWrittenRow DEF InvitationWrite
      <3>2. /\ invitations' \in [Invitations -> InvitationRow \cup {None}]
            /\ accepted' \subseteq Invitations
        BY <2>4, <3>1 DEF InvitationWrite
      <3>3. /\ UNCHANGED <<units, expired, handovers, tenancies, events, handed, orphaned>>
            /\ \/ Finish(r)
               \/ /\ pc' = [pc EXCEPT ![r] = "check"]
                  /\ seen' = [seen EXCEPT ![r] = None]
                  /\ UNCHANGED <<target, source, invite, protocol, entity>>
        BY <2>4 DEF InvitationWrite
      <3>4. TypeOK'
        BY <3>2, <3>3 DEF Finish
      <3>5. InFlight'
        BY <2>4, <3>1 DEF InvitationWrite, Finish
      <3> QED BY <3>4, <3>5
    <2> QED BY <1>10, <2>1, <2>2, <2>3, <2>4 DEF Invite
  <1>11. ASSUME NEW r \in Requests, Activate(r) PROVE IInv'
    <2>1. CASE ActivateReadiness(r) BY <2>1 DEF ActivateReadiness, Goto, Finish
    <2>2. CASE ActivateHandover(r)
      <3>1. CASE Goto(r, "check") BY <2>2, <3>1 DEF ActivateHandover, Goto
      <3>2. CASE Finish(r) BY <2>2, <3>2 DEF ActivateHandover, Finish
      <3> QED BY <2>2, <3>1, <3>2 DEF ActivateHandover
    <2> QED BY <1>11, <2>1, <2>2 DEF Activate
  <1>12. ASSUME NEW r \in Requests, Save(r) PROVE IInv'
    <2>1. CASE CheckVersion(r) BY <2>1 DEF CheckVersion, Goto, Finish
    <2>2. CASE SaveSelect(r) BY <2>2 DEF SaveSelect
    <2>3. CASE SaveWrite(r)
      <3>1. CASE Accepted(r) /\ tenancies' = [tenancies EXCEPT ![target[r]] = Written(r)]
        <4>1. Written(r) \in TenancyRow
          BY <2>3, <3>1, WrittenRow DEF SaveWrite
        <4>2. CASE Goto(r, "journal")
          <5>1. TypeOK'
            BY <2>3, <3>1, <4>1, <4>2 DEF SaveWrite, Goto
          <5>2. InFlight'
            BY <2>3, <3>1, <4>1, <4>2 DEF SaveWrite, Goto
          <5> QED BY <5>1, <5>2
        <4>3. CASE Finish(r)
          <5>1. TypeOK'
            BY <2>3, <3>1, <4>1, <4>3 DEF SaveWrite, Finish
          <5>2. InFlight'
            BY <2>3, <3>1, <4>1, <4>3 DEF SaveWrite, Finish
          <5> QED BY <5>1, <5>2
        <4> QED BY <2>3, <4>2, <4>3 DEF SaveWrite
      <3>2. CASE Finish(r) /\ UNCHANGED tenancies
        BY <2>3, <3>2 DEF SaveWrite, Finish
      <3> QED BY <2>3, <3>1, <3>2 DEF SaveWrite
    <2> QED BY <1>12, <2>1, <2>2, <2>3 DEF Save
  <1>13. ASSUME NEW r \in Requests, Persist(r) PROVE IInv'
    <2>1. Event(r) \in Events
      BY <1>13 DEF Persist, SaveJournal, SaveDispatch, SaveOutbox, Event, Events, TenancyRow
    <2>2. CASE SaveJournal(r) BY <2>1, <2>2 DEF SaveJournal, Goto, Finish
    <2>3. CASE SaveDispatch(r) BY <2>1, <2>3 DEF SaveDispatch, Goto
    <2>4. CASE SaveOutbox(r) BY <2>1, <2>4 DEF SaveOutbox, Finish
    <2> QED BY <1>13, <2>2, <2>3, <2>4 DEF Persist
  <1>14. ASSUME NEW r \in Requests, Crash(r) PROVE IInv'
    BY <1>14 DEF Crash, Finish
  <1>15. CASE UNCHANGED vars
    BY <1>15 DEF vars
  <1> QED
    BY <1>1, <1>2, <1>3, <1>4, <1>5, <1>6, <1>7, <1>8, <1>9, <1>10, <1>11, <1>12,
       <1>13, <1>14, <1>15 DEF Next, Load

LEMMA Invariance == Spec => []IInv
  BY InitTyped, StepTyped, PTL DEF Spec

(* The tables and the requests' memory keep their types. *)
THEOREM TypeCorrect == Spec => []TypeOK
  BY Invariance, PTL DEF IInv

----------------------------------------------------------------------------
(***************************************************************************)
(* Double booking.  Only SaveWrite changes the table of tenancies, one row *)
(* of it, and only to a row the exclusion constraint admits.               *)
(***************************************************************************)

LEMMA TenanciesStep ==
  ASSUME IInv, [Next]_vars
  PROVE  \/ UNCHANGED tenancies
         \/ \E r \in Requests :
               /\ SaveWrite(r)
               /\ pc[r] = "write"
               /\ Accepted(r)
               /\ target[r] \in Tenancies
               /\ Written(r) \in TenancyRow
               /\ tenancies' = [tenancies EXCEPT ![target[r]] = Written(r)]
  <1> USE DEF tables, events, history, locals
  <1>1. ASSUME NEW u \in Units, RegisterUnit(u) PROVE UNCHANGED tenancies
    BY <1>1 DEF RegisterUnit
  <1>2. ASSUME NEW i \in Invitations, Expire(i) PROVE UNCHANGED tenancies
    BY <1>2 DEF Expire
  <1>3. ASSUME NEW r \in Requests, Load(r) PROVE UNCHANGED tenancies
    BY <1>3 DEF Load, InviteLoad, AcceptLoad, ConfirmLoad, ActivateLoad,
                GiveNoticeLoad, EndLoad
  <1>4. ASSUME NEW r \in Requests, Invite(r) \/ Protocol(r) \/ Activate(r)
        PROVE  UNCHANGED tenancies
    BY <1>4 DEF Invite, AcceptOverlap, InvitationCheck, InvitationSelect, InvitationWrite,
                Protocol, ProtocolCheck, ProtocolSelect, ProtocolWrite,
                Activate, ActivateReadiness, ActivateHandover
  <1>5. ASSUME NEW r \in Requests, Persist(r) \/ Crash(r) PROVE UNCHANGED tenancies
    BY <1>5 DEF Persist, SaveJournal, SaveDispatch, SaveOutbox, Crash
  <1>6. ASSUME NEW r \in Requests, CheckVersion(r) \/ SaveSelect(r)
        PROVE  UNCHANGED tenancies
    BY <1>6 DEF CheckVersion, SaveSelect
  <1>7. ASSUME NEW r \in Requests, SaveWrite(r), ~UNCHANGED tenancies
        PROVE  /\ pc[r] = "write" /\ Accepted(r)
               /\ target[r] \in Tenancies /\ Written(r) \in TenancyRow
               /\ tenancies' = [tenancies EXCEPT ![target[r]] = Written(r)]
    <2>1. /\ pc[r] = "write" /\ Accepted(r)
          /\ tenancies' = [tenancies EXCEPT ![target[r]] = Written(r)]
      BY <1>7 DEF SaveWrite
    <2> QED BY <2>1, WrittenRow DEF IInv, InFlight, OnlyInvites, Inviting, Confirming
  <1>8. CASE UNCHANGED vars
    BY <1>8 DEF vars
  <1> QED BY <1>1, <1>2, <1>3, <1>4, <1>5, <1>6, <1>7, <1>8 DEF Next, Save

LEMMA StepNoDoubleBooking ==
  IInv /\ NoDoubleBooking /\ [Next]_vars => NoDoubleBooking'
  <1> SUFFICES ASSUME IInv, NoDoubleBooking, [Next]_vars PROVE NoDoubleBooking'
    OBVIOUS
  <1>1. CASE UNCHANGED tenancies
    BY <1>1 DEF NoDoubleBooking
  <1>2. ASSUME NEW r \in Requests, Accepted(r), target[r] \in Tenancies,
               Written(r) \in TenancyRow,
               tenancies' = [tenancies EXCEPT ![target[r]] = Written(r)]
        PROVE  NoDoubleBooking'
    <2> DEFINE t == target[r]  row == Written(r)
    <2>1. tenancies'[t] = row /\ \A o \in Tenancies \ {t} : tenancies'[o] = tenancies[o]
      BY <1>2 DEF IInv, TypeOK
    <2>2. ASSUME NEW o \in Tenancies \ {t}, Occupying(row),
                 tenancies[o] # None, Occupying(tenancies[o]),
                 tenancies[o].unit = row.unit
          PROVE  ~SameDays(tenancies[o], row) /\ ~SameDays(row, tenancies[o])
      BY <1>2, <2>2 DEF Accepted, Admissible, Overlaps, SameDays
    <2>3. SUFFICES ASSUME NEW a \in Tenancies, NEW b \in Tenancies, a # b,
                          tenancies'[a] # None, Occupying(tenancies'[a]),
                          tenancies'[b] # None, Occupying(tenancies'[b]),
                          tenancies'[a].unit = tenancies'[b].unit
                   PROVE  ~SameDays(tenancies'[a], tenancies'[b])
      BY DEF NoDoubleBooking, Occupying, SameDays
    <2>4. CASE a = t
      BY <2>1, <2>2, <2>3, <2>4
    <2>5. CASE b = t
      BY <2>1, <2>2, <2>3, <2>5
    <2>6. CASE a # t /\ b # t
      BY <2>1, <2>3, <2>6 DEF NoDoubleBooking
    <2> QED BY <2>4, <2>5, <2>6
  <1> QED BY <1>1, <1>2, TenanciesStep

(* However the statements of concurrent requests interleave, and wherever  *)
(* a process dies, no unit is reserved or rented twice for the same day.   *)
THEOREM NeverDoubleBooked == Spec => []NoDoubleBooking
  <1>1. Init => NoDoubleBooking
    BY DEF Init, NoDoubleBooking
  <1> QED BY <1>1, Invariance, StepNoDoubleBooking, PTL DEF Spec

----------------------------------------------------------------------------
(***************************************************************************)
(* The calendar of ADR-004.  A step either leaves every entry alone or     *)
(* rewrites the one of the tenancy that SaveWrite writes.                  *)
(***************************************************************************)

booked == [t \in Tenancies |->
             IF tenancies[t] # None /\ Occupying(tenancies[t])
             THEN Stay(tenancies[t]) ELSE None]

LEMMA StayIsNotNone ==
  ASSUME NEW row \in TenancyRow, row.from <= row.to
  PROVE  Stay(row) \in Calendar!Stays
  BY DEF Stay, Calendar!Stays, TenancyRow

LEMMA StepCalendar ==
  ASSUME IInv, [Next]_vars
  PROVE  [Calendar!Next]_booked
  <1>1. CASE UNCHANGED tenancies
    BY <1>1 DEF booked, Occupying
  <1>2. ASSUME NEW r \in Requests, Accepted(r), target[r] \in Tenancies,
               Written(r) \in TenancyRow,
               tenancies' = [tenancies EXCEPT ![target[r]] = Written(r)]
        PROVE  Calendar!Next
    <2> DEFINE t == target[r]  row == Written(r)
    <2>1. tenancies'[t] = row /\ \A o \in Tenancies \ {t} : tenancies'[o] = tenancies[o]
      BY <1>2 DEF IInv, TypeOK
    <2>2. row # None
      BY <1>2, NoneIsNoRow
    <2>3. booked' = [booked EXCEPT ![t] = IF Occupying(row) THEN Stay(row) ELSE None]
      <3> DEFINE stay == IF Occupying(row) THEN Stay(row) ELSE None
      <3>1. ASSUME NEW o \in Tenancies \ {t} PROVE booked'[o] = booked[o]
        BY <2>1, <3>1 DEF booked, Occupying, Stay
      <3>2. booked'[t] = stay
        BY <1>2, <2>1, <2>2 DEF booked, Occupying, Stay
      <3>3. /\ booked = [o \in Tenancies |-> booked[o]]
            /\ booked' = [o \in Tenancies |-> booked'[o]]
        BY DEF booked
      <3> QED BY <1>2, <3>1, <3>2, <3>3
    <2>4. CASE ~Occupying(row)
      BY <1>2, <2>3, <2>4 DEF Calendar!Next, Calendar!Vacate, booked
    <2>5. CASE Occupying(row)
      <3>1. row.from <= row.to /\ ~Overlaps(t, row)
        BY <1>2, <2>5 DEF Accepted, Admissible
      <3>2. Stay(row) \in Calendar!Stays
        BY <1>2, <3>1, StayIsNotNone
      <3>3. ASSUME NEW o \in Tenancies \ {t}, booked[o] # None
            PROVE  ~Calendar!Collide(booked[o], Stay(row))
        <4>1. /\ tenancies[o] # None /\ Occupying(tenancies[o])
              /\ booked[o] = Stay(tenancies[o])
          BY <3>3 DEF booked
        <4> QED BY <3>1, <4>1 DEF Calendar!Collide, Overlaps, Stay, SameDays
      <3>4. Calendar!FreeFor(t, Stay(row))
        BY <3>3 DEF Calendar!FreeFor, booked
      <3> QED BY <1>2, <2>3, <2>5, <3>2, <3>4
              DEF Calendar!Next, Calendar!Occupy, booked
    <2> QED BY <2>4, <2>5
  <1> QED BY <1>1, <1>2, TenanciesStep

(* The tenancies table, written by racing requests, is at every step the   *)
(* calendar ADR-004 promises.                                              *)
THEOREM ImplementsCalendar == Spec => RefinesCalendar
  <1>1. Init => Calendar!Init
    BY DEF Init, Calendar!Init
  <1>2. IInv /\ [Next]_vars => [Calendar!Next]_booked
    BY StepCalendar
  <1> QED BY <1>1, <1>2, Invariance, PTL DEF Spec, RefinesCalendar, Calendar!Spec, booked

----------------------------------------------------------------------------
(***************************************************************************)
(* A request's memory changes only in its own steps.                       *)
(***************************************************************************)

Own(r) == <<pc[r], target[r], source[r], invite[r], protocol[r], entity[r], seen[r]>>

LEMMA OwnStep ==
  ASSUME IInv, [Next]_vars, NEW r \in Requests
  PROVE  \/ UNCHANGED Own(r)
         \/ \/ Load(r) \/ Invite(r) \/ Protocol(r) \/ Activate(r) \/ Save(r)
            \/ Persist(r) \/ Crash(r)
  <1> USE DEF tables, events, history, locals, Own, IInv, TypeOK
  <1>1. ASSUME NEW u \in Units, RegisterUnit(u) PROVE UNCHANGED Own(r)
    BY <1>1 DEF RegisterUnit
  <1>2. ASSUME NEW i \in Invitations, Expire(i) PROVE UNCHANGED Own(r)
    BY <1>2 DEF Expire
  <1>3. ASSUME NEW q \in Requests, q # r, Load(q) PROVE UNCHANGED Own(r)
    <2>1. CASE \E l, t, x, i, e : Start(q, l, t, x, i, e)
      BY <1>3, <2>1 DEF Start
    <2>2. CASE \E h \in Handovers, t \in Tenancies, n \in 0..MaxEntries :
                  ConfirmLoad(q, h, t, n)
      BY <1>3, <2>2 DEF ConfirmLoad
    <2> QED BY <1>3, <2>1, <2>2
            DEF Load, InviteLoad, AcceptLoad, ActivateLoad, GiveNoticeLoad, EndLoad
  <1>4. ASSUME NEW q \in Requests, q # r, Invite(q) \/ Activate(q)
        PROVE  UNCHANGED Own(r)
    BY <1>4 DEF Invite, AcceptOverlap, InvitationCheck, InvitationSelect, InvitationWrite,
                Activate, ActivateReadiness, ActivateHandover, Goto, Finish
  <1>5. ASSUME NEW q \in Requests, q # r, Save(q) \/ Protocol(q) PROVE UNCHANGED Own(r)
    BY <1>5 DEF Save, CheckVersion, SaveSelect, SaveWrite, Protocol, ProtocolCheck,
                ProtocolSelect, ProtocolWrite, Goto, Finish
  <1>6. ASSUME NEW q \in Requests, q # r, Persist(q) \/ Crash(q)
        PROVE  UNCHANGED Own(r)
    BY <1>6 DEF Persist, SaveJournal, SaveDispatch, SaveOutbox, Crash, Goto, Finish
  <1>7. CASE UNCHANGED vars
    BY <1>7 DEF vars
  <1> QED BY <1>1, <1>2, <1>3, <1>4, <1>5, <1>6, <1>7 DEF Next

(* A request is about to save what it loaded, or what was accepted.         *)
LEMMA Saved ==
  ASSUME IInv, [Next]_vars, NEW r \in Requests, pc'[r] \in Activating \cup Saving
  PROVE  \/ /\ pc[r] \in Activating \cup Saving
            /\ entity'[r] = entity[r] /\ target'[r] = target[r]
         \/ /\ InvitationWrite(r) /\ pc[r] = "inviteWrite" /\ target[r] # None
            /\ invitations' = [invitations EXCEPT ![source[r]] = InvitationWritten(r)]
            /\ accepted' = IF InvitationWritten(r).status = "ACCEPTED"
                          THEN accepted \cup {source[r]} ELSE accepted
            /\ entity'[r] = entity[r] /\ target'[r] = target[r]
         \/ \E t \in Tenancies, h \in Handovers : ActivateLoad(r, t, h)
         \/ \E t \in Tenancies, d \in NoticeDates : GiveNoticeLoad(r, t, d)
         \/ \E t \in Tenancies : EndLoad(r, t)
  <1> USE DEF Activating, Saving, IInv, TypeOK
  <1>1. CASE UNCHANGED Own(r)
    BY <1>1 DEF Own
  <1>2. CASE Load(r)
    BY <1>2 DEF Load, InviteLoad, AcceptLoad, ConfirmLoad, Start
  <1>3. CASE Invite(r)
    BY <1>3 DEF Invite, AcceptOverlap, InvitationCheck, InvitationSelect,
                InvitationWrite, Goto, Finish
  <1>4. CASE Activate(r) \/ Protocol(r)
    BY <1>4 DEF Activate, ActivateReadiness, ActivateHandover, Protocol, ProtocolCheck,
                ProtocolSelect, ProtocolWrite, Goto, Finish
  <1>5. CASE Save(r)
    BY <1>5 DEF Save, CheckVersion, SaveSelect, SaveWrite, Goto, Finish
  <1>6. CASE Persist(r) \/ Crash(r)
    BY <1>6 DEF Persist, SaveJournal, SaveDispatch, SaveOutbox, Crash, Goto, Finish
  <1> QED BY <1>1, <1>2, <1>3, <1>4, <1>5, <1>6, OwnStep

----------------------------------------------------------------------------
(***************************************************************************)
(* Invitations.  Repeated POSTs may put an accepted row back to PENDING,   *)
(* but only those that were compared with the row before: they carry       *)
(* version 0, which an accepted row has only where such a POST left it.    *)
(* Whatever is written, an invitation keeps its unit (its repetitions say  *)
(* the same), and one that was ever accepted is on record in accepted.     *)
(***************************************************************************)

AtInvitation == Inviting \cup {"overlap"}

\* What a request that has an invitation in its memory knows of it.
Consistent(r) ==
    /\ source[r] \in Invitations
    /\ invite[r] \in InvitationRow
    /\ invitations[source[r]] # None => invite[r].unit = invitations[source[r]].unit
    /\ \A q \in Requests : invite[q] # None /\ source[q] = source[r]
                              => invite[q].unit = invite[r].unit

Sends(r) == /\ invite[r].status = "PENDING"
            /\ target[r] = None
            /\ pc[r] = "inviteCheck" => invite[r].version = 0

Accepts(r) == /\ invite[r].status = "ACCEPTED"
              /\ invitations[source[r]] # None
              /\ entity[r].unit = invite[r].unit
              /\ pc[r] \in {"inviteSelect", "inviteWrite"} => invite[r].version # 0

InvitationInv ==
    /\ \A i \in Invitations : invitations[i] # None /\ invitations[i].status = "ACCEPTED"
                                 => i \in accepted
    /\ \A r \in Requests :
          /\ invite[r] # None => Consistent(r)
          /\ pc[r] \in AtInvitation => invite[r] # None /\ (Sends(r) \/ Accepts(r))
          /\ pc[r] = "inviteWrite" /\ seen[r] # None =>
                /\ seen[r] \in InvitationRow
                /\ seen[r].unit = invite[r].unit
                /\ seen[r].status = "ACCEPTED" => source[r] \in accepted

(* Only InvitationWrite changes the table. *)
LEMMA InvitationsStep ==
  ASSUME IInv, [Next]_vars
  PROVE  \/ UNCHANGED <<invitations, accepted>>
         \/ \E r \in Requests :
               /\ InvitationWrite(r)
               /\ pc[r] = "inviteWrite" /\ source[r] \in Invitations
               /\ seen[r] = None => invitations[source[r]] = None
               /\ invitations' = [invitations EXCEPT ![source[r]] = InvitationWritten(r)]
               /\ accepted' = IF InvitationWritten(r).status = "ACCEPTED"
                             THEN accepted \cup {source[r]} ELSE accepted
  <1> USE DEF tables, events, history, locals
  <1>1. ASSUME NEW u \in Units, RegisterUnit(u) PROVE UNCHANGED <<invitations, accepted>>
    BY <1>1 DEF RegisterUnit
  <1>2. ASSUME NEW i \in Invitations, Expire(i) PROVE UNCHANGED <<invitations, accepted>>
    BY <1>2 DEF Expire
  <1>3. ASSUME NEW r \in Requests, Load(r) \/ Activate(r) \/ Protocol(r)
        PROVE  UNCHANGED <<invitations, accepted>>
    BY <1>3 DEF Load, InviteLoad, AcceptLoad, ConfirmLoad, ActivateLoad, GiveNoticeLoad,
                EndLoad, Activate, ActivateReadiness, ActivateHandover,
                Protocol, ProtocolCheck, ProtocolSelect, ProtocolWrite
  <1>4. ASSUME NEW r \in Requests, Save(r) \/ Persist(r) \/ Crash(r)
        PROVE  UNCHANGED <<invitations, accepted>>
    BY <1>4 DEF Save, CheckVersion, SaveSelect, SaveWrite,
                Persist, SaveJournal, SaveDispatch, SaveOutbox, Crash
  <1>5. ASSUME NEW r \in Requests, Invite(r), ~InvitationWrite(r)
        PROVE  UNCHANGED <<invitations, accepted>>
    BY <1>5 DEF Invite, AcceptOverlap, InvitationCheck, InvitationSelect
  <1>6. ASSUME NEW r \in Requests, InvitationWrite(r)
        PROVE  \/ UNCHANGED <<invitations, accepted>>
               \/ /\ pc[r] = "inviteWrite" /\ source[r] \in Invitations
                  /\ seen[r] = None => invitations[source[r]] = None
                  /\ invitations' = [invitations EXCEPT ![source[r]] = InvitationWritten(r)]
                  /\ accepted' = IF InvitationWritten(r).status = "ACCEPTED"
                                THEN accepted \cup {source[r]} ELSE accepted
    BY <1>6 DEF InvitationWrite, IInv, InFlight, Inviting
  <1>7. CASE UNCHANGED vars
    BY <1>7 DEF vars
  <1> QED BY <1>1, <1>2, <1>3, <1>4, <1>5, <1>6, <1>7 DEF Next, Invite

(* What a write makes of the row: the unit is everybody's, the status is   *)
(* what was sent or what was there.                                        *)
LEMMA InvitationWrittenColumns ==
  ASSUME IInv, InvitationInv, NEW r \in Requests, pc[r] = "inviteWrite",
         seen[r] = None => invitations[source[r]] = None
  PROVE  LET row == invitations[source[r]]
             new == InvitationWritten(r)
         IN /\ new \in InvitationRow
            /\ new.unit = invite[r].unit
            /\ row # None => new.unit = row.unit
            /\ \/ new.status = invite[r].status
               \/ /\ seen[r] # None /\ row # None
                  /\ invite[r].status = seen[r].status
                  /\ new.status = row.status
            /\ invite[r].version # 0 /\ row # None /\ row.version # 0
                  => new.version # 0
  <1> DEFINE row == invitations[source[r]]
             new == InvitationWritten(r)
  <1>1. /\ source[r] \in Invitations /\ invite[r] \in InvitationRow
        /\ seen[r] \in InvitationRow \cup {None} /\ row \in InvitationRow \cup {None}
        /\ seen[r] # None => row # None
        /\ row # None => invite[r].unit = row.unit
        /\ seen[r] # None => seen[r].unit = invite[r].unit
    BY DEF IInv, InFlight, TypeOK, Inviting, InvitationInv, AtInvitation, Consistent
  <1>2. new \in InvitationRow
    BY InvitationWrittenRow DEF IInv
  <1>3. CASE seen[r] = None
    BY <1>1, <1>2, <1>3 DEF InvitationWritten
  <1>4. CASE seen[r] # None /\ invite[r] = seen[r]
    BY <1>1, <1>2, <1>4, NoneIsNoRow DEF InvitationWritten
  <1>5. CASE seen[r] # None /\ invite[r] # seen[r]
    <2>1. new = [unit |-> Column(row.unit, seen[r].unit, invite[r].unit),
                 status |-> Column(row.status, seen[r].status, invite[r].status),
                 version |-> IF invite[r].version # seen[r].version
                             THEN invite[r].version ELSE row.version + 1]
      BY <1>5 DEF InvitationWritten, InvitationUpdated
    <2>2. /\ new.unit = Column(row.unit, seen[r].unit, invite[r].unit)
          /\ new.status = Column(row.status, seen[r].status, invite[r].status)
          /\ new.version = IF invite[r].version # seen[r].version
                           THEN invite[r].version ELSE row.version + 1
      BY <2>1
    <2>3. row # None /\ row.version \in Nat
      BY <1>1, <1>5 DEF InvitationRow
    <2> QED BY <1>1, <1>2, <1>5, <2>2, <2>3 DEF Column
  <1> QED BY <1>3, <1>4, <1>5

(* A stored invitation stays and keeps its unit; accepted only grows.      *)
LEMMA StoredInvitation ==
  ASSUME IInv, InvitationInv, [Next]_vars
  PROVE  /\ accepted \subseteq accepted'
         /\ \A i \in Invitations : invitations[i] # None =>
               /\ invitations'[i] # None
               /\ invitations'[i].unit = invitations[i].unit
  <1>1. CASE UNCHANGED <<invitations, accepted>>
    BY <1>1
  <1>2. ASSUME NEW r \in Requests, pc[r] = "inviteWrite", source[r] \in Invitations,
               seen[r] = None => invitations[source[r]] = None,
               invitations' = [invitations EXCEPT ![source[r]] = InvitationWritten(r)],
               accepted \subseteq accepted',
               NEW i \in Invitations, invitations[i] # None
        PROVE  /\ invitations'[i] # None
               /\ invitations'[i].unit = invitations[i].unit
    <2>1. /\ InvitationWritten(r) \in InvitationRow
          /\ invitations[source[r]] # None =>
                InvitationWritten(r).unit = invitations[source[r]].unit
      BY <1>2, InvitationWrittenColumns
    <2> QED BY <1>2, <2>1, NoneIsNoRow DEF IInv, TypeOK
  <1>3. accepted \subseteq accepted'
    BY InvitationsStep
  <1> QED BY <1>1, <1>2, <1>3, InvitationsStep

(* A request works on the invitation it worked on before, or loads it now. *)
LEMMA RememberedInvitation ==
  ASSUME IInv, [Next]_vars, NEW q \in Requests, invite'[q] # None
  PROVE  \/ /\ invite[q] # None /\ source'[q] = source[q]
            /\ invite[q] \in InvitationRow => /\ invite'[q] \in InvitationRow
                                              /\ invite'[q].unit = invite[q].unit
                                              /\ invite'[q].status = invite[q].status
         \/ \E i \in Invitations, u \in Units : InviteLoad(q, i, u)
         \/ \E i \in Invitations, t \in Tenancies, from, to \in Days :
               AcceptLoad(q, i, t, from, to)
  <1> USE DEF IInv, TypeOK
  <1>1. CASE UNCHANGED Own(q)
    BY <1>1 DEF Own
  <1>2. CASE Load(q)
    <2>1. ASSUME NEW t \in Tenancies
          PROVE  /\ ~\E h \in Handovers : ActivateLoad(q, t, h)
                 /\ ~\E d \in NoticeDates : GiveNoticeLoad(q, t, d)
                 /\ ~EndLoad(q, t)
      BY DEF ActivateLoad, GiveNoticeLoad, EndLoad, Start
    <2>2. ASSUME NEW t \in Tenancies, NEW h \in Handovers, NEW n \in 0..MaxEntries
          PROVE  ~ConfirmLoad(q, h, t, n)
      BY DEF ConfirmLoad, InFlight
    <2> QED BY <1>2, <2>1, <2>2 DEF Load
  <1>3. CASE InvitationCheck(q)
    <2>1. ~Finish(q)
      BY DEF Finish
    <2>2. PICK v \in Nat : /\ invite' = [invite EXCEPT ![q].version = v]
                           /\ UNCHANGED source
      <3>1. invitations[source[q]] # None => invitations[source[q]].version + 1 \in Nat
        BY <1>3 DEF InvitationCheck, InvitationRow, InFlight, Inviting
      <3> QED BY <1>3, <2>1, <3>1 DEF InvitationCheck
    <2>3. invite[q] \in InvitationRow
      BY <1>3 DEF InvitationCheck, InFlight, Inviting
    <2>4. invite'[q] = [invite[q] EXCEPT !.version = v]
      BY <2>2
    <2>5. /\ invite'[q] \in InvitationRow
          /\ invite'[q].unit = invite[q].unit /\ invite'[q].status = invite[q].status
      BY <2>3, <2>4 DEF InvitationRow
    <2> QED BY <2>2, <2>3, <2>5, NoneIsNoRow
  <1>4. CASE Invite(q) /\ ~InvitationCheck(q)
    BY <1>4 DEF Invite, AcceptOverlap, InvitationSelect, InvitationWrite, Goto, Finish
  <1>5. CASE Activate(q) \/ Save(q)
    BY <1>5 DEF Activate, ActivateReadiness, ActivateHandover,
                Save, CheckVersion, SaveSelect, SaveWrite, Goto, Finish
  <1>6. CASE Protocol(q)
    BY <1>6 DEF Protocol, ProtocolCheck, ProtocolSelect, ProtocolWrite, Finish
  <1>7. CASE Persist(q) \/ Crash(q)
    BY <1>7 DEF Persist, SaveJournal, SaveDispatch, SaveOutbox, Crash, Goto, Finish
  <1> QED BY <1>1, <1>2, <1>3, <1>4, <1>5, <1>6, <1>7, OwnStep

(* What InviteLoad and AcceptLoad put in a request's memory. *)
LEMMA InviteLoaded ==
  ASSUME IInv, InvitationInv, NEW r \in Requests,
         NEW i \in Invitations, NEW u \in Units, InviteLoad(r, i, u)
  PROVE  /\ pc[r] = "idle" /\ pc'[r] = "inviteCheck"
         /\ source'[r] = i /\ target'[r] = None
         /\ invite'[r] \in InvitationRow
         /\ invite'[r].unit = u
         /\ invite'[r].status = "PENDING" /\ invite'[r].version = 0
         /\ invitations[i] # None => invitations[i].unit = u
         /\ \A q \in Requests : invite[q] # None /\ source[q] = i => invite[q].unit = u
         /\ \A q \in Requests \ {r} : invite'[q] = invite[q] /\ source'[q] = source[q]
         /\ UNCHANGED <<tables, events, history>>
  <1>1. /\ pc[r] = "idle" /\ pc'[r] = "inviteCheck" /\ source'[r] = i /\ target'[r] = None
        /\ invite'[r] = [unit |-> u, status |-> "PENDING", version |-> 0]
        /\ \A q \in Requests \ {r} : invite'[q] = invite[q] /\ source'[q] = source[q]
        /\ UNCHANGED <<tables, events, history>>
    BY DEF InviteLoad, Start, IInv, TypeOK
  <1>2. CASE Unused(i)
    BY <1>1, <1>2 DEF Unused, InvitationRow
  <1>3. CASE invitations[i] # None /\ invitations[i].unit = u
    BY <1>1, <1>3 DEF InvitationRow, InvitationInv, Consistent
  <1>4. ASSUME NEW q \in Requests, source[q] = i, invite[q] # None, invite[q].unit = u
        PROVE  /\ invitations[i] # None => invitations[i].unit = u
               /\ \A p \in Requests : invite[p] # None /\ source[p] = i => invite[p].unit = u
    BY <1>4 DEF InvitationInv, Consistent
  <1>5. Unused(i) \/ SentBefore(i, u)
    BY DEF InviteLoad
  <1> QED BY <1>1, <1>2, <1>3, <1>4, <1>5 DEF SentBefore, InvitationRow

LEMMA AcceptLoaded ==
  ASSUME IInv, InvitationInv, NEW r \in Requests,
         NEW i \in Invitations, NEW t \in Tenancies, NEW from \in Days, NEW to \in Days,
         AcceptLoad(r, i, t, from, to)
  PROVE  /\ pc[r] = "idle" /\ pc'[r] = "overlap"
         /\ source'[r] = i
         /\ invitations[i] # None
         /\ invite'[r] \in InvitationRow
         /\ invite'[r].unit = invitations[i].unit
         /\ invite'[r].status = "ACCEPTED"
         /\ entity'[r].unit = invitations[i].unit
         /\ \A q \in Requests : invite[q] # None /\ source[q] = i
                                   => invite[q].unit = invitations[i].unit
         /\ \A q \in Requests \ {r} : invite'[q] = invite[q] /\ source'[q] = source[q]
         /\ UNCHANGED <<tables, events, history>>
  <1>1. invitations[i] \in InvitationRow /\ invitations[i] # None
    BY DEF AcceptLoad, IInv, TypeOK
  <1>2. /\ pc[r] = "idle" /\ pc'[r] = "overlap" /\ source'[r] = i
        /\ invite'[r] = [invitations[i] EXCEPT !.status = "ACCEPTED"]
        /\ entity'[r] = Reservation(invitations[i].unit, from, to)
        /\ \A q \in Requests \ {r} : invite'[q] = invite[q] /\ source'[q] = source[q]
        /\ UNCHANGED <<tables, events, history>>
    BY DEF AcceptLoad, Start, IInv, TypeOK
  <1>3. /\ invite'[r] \in InvitationRow /\ invite'[r].unit = invitations[i].unit
        /\ invite'[r].status = "ACCEPTED"
    BY <1>1, <1>2 DEF InvitationRow
  <1>4. entity'[r].unit = invitations[i].unit
    BY <1>2 DEF Reservation
  <1>5. \A q \in Requests : invite[q] # None /\ source[q] = i
                               => invite[q].unit = invitations[i].unit
    BY <1>1 DEF InvitationInv, Consistent
  <1> QED BY <1>1, <1>2, <1>3, <1>4, <1>5

LEMMA StepConsistent ==
  ASSUME IInv, InvitationInv, [Next]_vars
  PROVE  \A r \in Requests : invite'[r] # None => Consistent(r)'
  <1>1. ASSUME NEW q \in Requests, NEW i \in Invitations, NEW u,
               source'[q] = i, invite'[q] \in InvitationRow, invite'[q].unit = u,
               invitations[i] # None => invitations[i].unit = u,
               \A p \in Requests : invite[p] # None /\ source[p] = i => invite[p].unit = u,
               \A p \in Requests \ {q} : invite'[p] = invite[p] /\ source'[p] = source[p],
               UNCHANGED invitations,
               NEW r \in Requests, invite'[r] # None
        PROVE  Consistent(r)'
    <2>1. CASE r = q
      BY <1>1, <2>1 DEF Consistent
    <2>2. CASE r # q
      <3>1. Consistent(r)
        BY <1>1, <2>2 DEF InvitationInv
      <3>2. source[r] = i => invite[r].unit = u
        BY <1>1, <2>2
      <3> QED BY <1>1, <2>2, <3>1, <3>2 DEF Consistent
    <2> QED BY <2>1, <2>2
  <1>2. CASE \E q \in Requests, i \in Invitations, u \in Units : InviteLoad(q, i, u)
    <2>1. PICK q \in Requests, i \in Invitations, u \in Units : InviteLoad(q, i, u)
      BY <1>2
    <2> QED BY <1>1, <2>1, InviteLoaded DEF tables
  <1>3. CASE \E q \in Requests, i \in Invitations, t \in Tenancies, from, to \in Days :
                AcceptLoad(q, i, t, from, to)
    <2>1. PICK q \in Requests, i \in Invitations, t \in Tenancies, from \in Days, to \in Days :
             AcceptLoad(q, i, t, from, to)
      BY <1>3
    <2> QED BY <1>1, <2>1, AcceptLoaded DEF tables
  <1>4. ASSUME ~ \E q \in Requests, i \in Invitations, u \in Units : InviteLoad(q, i, u),
               ~ \E q \in Requests, i \in Invitations, t \in Tenancies, from, to \in Days :
                    AcceptLoad(q, i, t, from, to),
               NEW r \in Requests, invite'[r] # None
        PROVE  Consistent(r)'
    <2>1. ASSUME NEW q \in Requests, invite'[q] # None
          PROVE  /\ invite[q] # None /\ Consistent(q)
                 /\ source'[q] = source[q]
                 /\ invite'[q] \in InvitationRow /\ invite'[q].unit = invite[q].unit
      BY <1>4, <2>1, RememberedInvitation DEF InvitationInv, Consistent
    <2>2. ASSUME invitations'[source[r]] # None
          PROVE  invitations'[source[r]].unit = invite[r].unit
      <3>1. Consistent(r) /\ source[r] \in Invitations
        BY <1>4, <2>1 DEF Consistent
      <3>2. CASE invitations[source[r]] # None
        BY <3>1, <3>2, StoredInvitation DEF Consistent
      <3>3. CASE invitations[source[r]] = None
        <4>1. PICK q \in Requests :
                 /\ pc[q] = "inviteWrite" /\ source[q] \in Invitations
                 /\ seen[q] = None => invitations[source[q]] = None
                 /\ invitations' = [invitations EXCEPT ![source[q]] = InvitationWritten(q)]
          BY <2>2, <3>3, InvitationsStep
        <4>2. source[q] = source[r] /\ invitations'[source[r]] = InvitationWritten(q)
          BY <2>2, <3>1, <3>3, <4>1 DEF IInv, TypeOK
        <4>3. InvitationWritten(q).unit = invite[q].unit
          BY <4>1, InvitationWrittenColumns
        <4>4. invite[q] # None
          BY <4>1 DEF InvitationInv, AtInvitation, Inviting
        <4> QED BY <3>1, <4>2, <4>3, <4>4 DEF Consistent
      <3> QED BY <3>2, <3>3
    <2>3. \A q \in Requests : invite'[q] # None /\ source'[q] = source'[r]
                                 => invite'[q].unit = invite'[r].unit
      BY <1>4, <2>1 DEF Consistent
    <2> QED BY <1>4, <2>1, <2>2, <2>3 DEF Consistent
  <1> QED BY <1>2, <1>3, <1>4

(* A request that works on an invitation sends or accepts it.              *)
LEMMA StepSendsAccepts ==
  ASSUME IInv, InvitationInv, [Next]_vars, NEW r \in Requests, pc'[r] \in AtInvitation
  PROVE  /\ invite'[r] # None
         /\ Sends(r)' \/ Accepts(r)'
         /\ pc'[r] = "inviteWrite" /\ seen'[r] # None =>
               /\ seen'[r] \in InvitationRow
               /\ seen'[r].unit = invite'[r].unit
               /\ seen'[r].status = "ACCEPTED" => source'[r] \in accepted'
  <1> USE DEF AtInvitation, Inviting, IInv, TypeOK
  <1>1. CASE UNCHANGED Own(r)
    <2>1. /\ pc[r] \in AtInvitation /\ invite[r] # None /\ Consistent(r)
          /\ Sends(r) \/ Accepts(r)
      BY <1>1 DEF Own, InvitationInv
    <2>2. Sends(r) => Sends(r)'
      BY <1>1 DEF Own, Sends
    <2>3. Accepts(r) => Accepts(r)'
      BY <1>1, <2>1, StoredInvitation DEF Own, Accepts, Consistent
    <2>4. accepted \subseteq accepted'
      BY StoredInvitation
    <2> QED BY <1>1, <2>1, <2>2, <2>3, <2>4 DEF Own, InvitationInv
  <1>2. ASSUME NEW i \in Invitations, NEW u \in Units, InviteLoad(r, i, u)
        PROVE  invite'[r] # None /\ Sends(r)' /\ pc'[r] # "inviteWrite"
    BY <1>2, InviteLoaded, NoneIsNoRow DEF Sends
  <1>3. ASSUME NEW i \in Invitations, NEW t \in Tenancies, NEW from \in Days,
               NEW to \in Days, AcceptLoad(r, i, t, from, to)
        PROVE  invite'[r] # None /\ Accepts(r)' /\ pc'[r] # "inviteWrite"
    BY <1>3, AcceptLoaded, NoneIsNoRow DEF Accepts, tables
  <1>4. CASE AcceptOverlap(r)
    <2>1. /\ pc[r] = "overlap" /\ pc'[r] = "inviteCheck"
          /\ UNCHANGED <<invitations, target, source, invite, entity>>
      BY <1>4 DEF AcceptOverlap, Goto, Finish, tables
    <2>2. target[r] # None
      BY <2>1, NoneIsNoRow DEF InFlight, OnlyInvites, Confirming
    <2>3. invite[r] # None /\ Accepts(r)
      BY <2>1, <2>2 DEF InvitationInv, Sends
    <2> QED BY <2>1, <2>3 DEF Accepts
  <1>5. CASE InvitationCheck(r)
    <2> DEFINE row == invitations[source[r]]
    <2>1. /\ pc[r] = "inviteCheck" /\ pc'[r] = "inviteSelect"
          /\ UNCHANGED <<invitations, target, source, entity>>
      BY <1>5 DEF InvitationCheck, Finish, tables
    <2>2. source[r] \in Invitations /\ invite[r] \in InvitationRow
      BY <2>1 DEF InFlight
    <2>3. PICK v \in Nat : /\ invite' = [invite EXCEPT ![r].version = v]
                           /\ row # None => v = row.version + 1
      <3>1. row # None => row.version + 1 \in Nat
        BY <2>2 DEF InvitationRow
      <3>2. ~Finish(r)
        BY <2>1 DEF Finish
      <3> QED BY <1>5, <3>1, <3>2 DEF InvitationCheck
    <2>4. /\ invite'[r] \in InvitationRow
          /\ invite'[r].unit = invite[r].unit /\ invite'[r].status = invite[r].status
          /\ invite'[r].version = v
      BY <2>2, <2>3 DEF InvitationRow
    <2>5. row # None => v # 0
      BY <2>2, <2>3 DEF InvitationRow
    <2>6. Sends(r) => Sends(r)'
      BY <2>1, <2>4 DEF Sends
    <2>7. Accepts(r) => Accepts(r)'
      BY <2>1, <2>4, <2>5 DEF Accepts
    <2> QED BY <2>1, <2>4, <2>6, <2>7, NoneIsNoRow DEF InvitationInv
  <1>6. CASE InvitationSelect(r)
    <2>1. /\ pc[r] = "inviteSelect" /\ pc'[r] = "inviteWrite"
          /\ UNCHANGED <<invitations, accepted, target, source, invite, entity>>
          /\ seen'[r] = invitations[source[r]]
      BY <1>6 DEF InvitationSelect, tables, history
    <2>2. /\ source[r] \in Invitations /\ invite[r] # None /\ Consistent(r)
          /\ Sends(r) \/ Accepts(r)
      BY <2>1 DEF InFlight, InvitationInv
    <2>3. Sends(r) => Sends(r)'
      BY <2>1 DEF Sends
    <2>4. Accepts(r) => Accepts(r)'
      BY <2>1 DEF Accepts
    <2> QED BY <2>1, <2>2, <2>3, <2>4 DEF InvitationInv, Consistent
  <1>7. ~InvitationWrite(r)
    BY DEF InvitationWrite, Finish
  <1>8. ~Activate(r) /\ ~Save(r) /\ ~Persist(r) /\ ~Crash(r) /\ ~Protocol(r)
    BY DEF Activate, ActivateReadiness, ActivateHandover, Save, CheckVersion,
           SaveSelect, SaveWrite, Persist, SaveJournal, SaveDispatch, SaveOutbox,
           Protocol, ProtocolCheck, ProtocolSelect, ProtocolWrite,
           Crash, Goto, Finish
  <1>9. ~ \E t \in Tenancies : \/ \E h \in Handovers : ActivateLoad(r, t, h)
                               \/ \E h \in Handovers, n \in 0..MaxEntries :
                                     ConfirmLoad(r, h, t, n)
                               \/ \E d \in NoticeDates : GiveNoticeLoad(r, t, d)
                               \/ EndLoad(r, t)
    BY DEF ActivateLoad, ConfirmLoad, GiveNoticeLoad, EndLoad, Start
  <1> QED BY <1>1, <1>2, <1>3, <1>4, <1>5, <1>6, <1>7, <1>8, <1>9, OwnStep DEF Load, Invite

LEMMA StepInvitation ==
  ASSUME IInv, InvitationInv, [Next]_vars
  PROVE  InvitationInv'
  <1>1. ASSUME NEW i \in Invitations, invitations'[i] # None,
               invitations'[i].status = "ACCEPTED"
        PROVE  i \in accepted'
    <2>1. CASE invitations'[i] = invitations[i]
      BY <1>1, <2>1, StoredInvitation DEF InvitationInv
    <2>2. CASE invitations'[i] # invitations[i]
      BY <1>1, <2>2, InvitationsStep DEF IInv, TypeOK
    <2> QED BY <2>1, <2>2
  <1>2. \A r \in Requests : invite'[r] # None => Consistent(r)'
    BY StepConsistent
  <1>3. ASSUME NEW r \in Requests, pc'[r] \in AtInvitation
        PROVE  /\ invite'[r] # None
               /\ Sends(r)' \/ Accepts(r)'
               /\ pc'[r] = "inviteWrite" /\ seen'[r] # None =>
                     /\ seen'[r] \in InvitationRow
                     /\ seen'[r].unit = invite'[r].unit
                     /\ seen'[r].status = "ACCEPTED" => source'[r] \in accepted'
    BY <1>3, StepSendsAccepts
  <1> QED BY <1>1, <1>2, <1>3 DEF InvitationInv, AtInvitation, Inviting

LEMMA InvitationInvariance == Spec => []InvitationInv
  <1>1. Init => InvitationInv
    BY DEF Init, InvitationInv, AtInvitation, Inviting
  <1>2. IInv /\ InvitationInv /\ [Next]_vars => InvitationInv'
    BY StepInvitation
  <1> QED BY <1>1, <1>2, Invariance, PTL DEF Spec

(* AcceptedForGood: however often an invitation is sent again and by how   *)
(* many requests it is accepted, once it is accepted only a repetition     *)
(* that had been compared with the row before can take that back.          *)
THEOREM StaysAccepted == Spec => AcceptedForGood
  <1> DEFINE Kept == \A i \in Invitations : Settled(i) => Settled(i)'
  <1>1. IInv /\ InvitationInv /\ [Next]_vars => [Kept]_vars
    <2> SUFFICES ASSUME IInv, InvitationInv, [Next]_vars,
                        NEW i \in Invitations, Settled(i)
                 PROVE  Settled(i)'
      OBVIOUS
    <2>1. /\ invitations[i] \in InvitationRow
          /\ invitations[i] # None /\ invitations[i].status = "ACCEPTED"
          /\ invitations[i].version # 0 /\ ~Sending(i)
      BY DEF Settled, IInv, TypeOK
    <2>2. /\ invitations'[i] # None /\ invitations'[i].status = "ACCEPTED"
          /\ invitations'[i].version # 0
      <3>1. CASE invitations'[i] = invitations[i]
        BY <2>1, <3>1
      <3>2. CASE invitations'[i] # invitations[i]
        <4>1. PICK r \in Requests :
                 /\ pc[r] = "inviteWrite" /\ source[r] \in Invitations
                 /\ seen[r] = None => invitations[source[r]] = None
                 /\ invitations' = [invitations EXCEPT ![source[r]] = InvitationWritten(r)]
          BY <3>2, InvitationsStep
        <4>2. source[r] = i /\ invitations'[i] = InvitationWritten(r)
          BY <3>2, <4>1 DEF IInv, TypeOK
        <4>3. invite[r].status = "ACCEPTED" /\ invite[r].version # 0
          <5>1. invite[r].status # "PENDING"
            BY <2>1, <4>1, <4>2 DEF Sending
          <5> QED BY <4>1, <5>1 DEF InvitationInv, AtInvitation, Inviting, Sends, Accepts
        <4>4. /\ InvitationWritten(r) \in InvitationRow
              /\ \/ InvitationWritten(r).status = invite[r].status
                 \/ InvitationWritten(r).status = invitations[i].status
              /\ InvitationWritten(r).version # 0
          BY <2>1, <4>1, <4>2, <4>3, InvitationWrittenColumns
        <4> QED BY <2>1, <4>2, <4>3, <4>4, NoneIsNoRow
      <3> QED BY <3>1, <3>2
    <2>3. ASSUME NEW r \in Requests, source'[r] = i,
                 pc'[r] \in {"inviteSelect", "inviteWrite"},
                 invite'[r].status = "PENDING"
          PROVE  FALSE
      <3>1. CASE UNCHANGED Own(r)
        BY <2>1, <2>3, <3>1 DEF Own, Sending
      <3>2. CASE InvitationCheck(r)
        <4>1. /\ pc[r] = "inviteCheck" /\ source[r] = i
              /\ invitations[i].version = invite[r].version
          BY <2>1, <2>3, <3>2 DEF InvitationCheck, Finish, IInv, TypeOK
        <4>2. PICK v : invite' = [invite EXCEPT ![r].version = v]
          BY <2>3, <3>2 DEF InvitationCheck, Finish, IInv, TypeOK
        <4>3. invite[r].status = "PENDING"
          <5>1. invite[r] \in InvitationRow
            BY <4>1 DEF IInv, InFlight, Inviting
          <5> QED BY <2>3, <4>2, <5>1 DEF InvitationRow, IInv, TypeOK
        <4>4. invite[r].version = 0
          BY <4>1, <4>3 DEF InvitationInv, AtInvitation, Inviting, Sends, Accepts
        <4> QED BY <2>1, <4>1, <4>4
      <3>3. CASE InvitationSelect(r)
        BY <2>1, <2>3, <3>3 DEF InvitationSelect, Sending
      <3>4. UNCHANGED Own(r) \/ InvitationCheck(r) \/ InvitationSelect(r)
        <4> USE DEF IInv, TypeOK
        <4>1. ~Load(r)
          BY <2>3 DEF Load, InviteLoad, AcceptLoad, ConfirmLoad, ActivateLoad,
                      GiveNoticeLoad, EndLoad, Start
        <4>2. ~AcceptOverlap(r) /\ ~InvitationWrite(r)
          BY <2>3 DEF AcceptOverlap, InvitationWrite, Goto, Finish
        <4>3. ~Activate(r) /\ ~Save(r) /\ ~Persist(r) /\ ~Crash(r) /\ ~Protocol(r)
          BY <2>3 DEF Activate, ActivateReadiness, ActivateHandover, Save, CheckVersion,
                 SaveSelect, SaveWrite, Persist, SaveJournal, SaveDispatch, SaveOutbox,
                 Protocol, ProtocolCheck, ProtocolSelect, ProtocolWrite,
                 Crash, Goto, Finish
        <4> QED BY <4>1, <4>2, <4>3, OwnStep DEF Invite
      <3> QED BY <3>1, <3>2, <3>3, <3>4
    <2> QED BY <2>2, <2>3 DEF Settled, Sending
  <1>2. [][Kept]_vars <=> AcceptedForGood
    BY DEF AcceptedForGood
  <1> QED BY <1>1, <1>2, Invariance, InvitationInvariance, PTL DEF Spec

----------------------------------------------------------------------------
(***************************************************************************)
(* A tenancy stands on an invitation that was accepted.                    *)
(***************************************************************************)

Backed(u) == \E i \in accepted : /\ invitations[i] # None
                                 /\ invitations[i].unit = u

SavesBacked == \A r \in Requests :
                  pc[r] \in Activating \cup Saving => Backed(entity[r].unit)

AcceptanceInv == ReservedByAcceptance /\ SavesBacked

LEMMA BackedIsStable ==
  ASSUME IInv, InvitationInv, [Next]_vars, NEW u, Backed(u)
  PROVE  Backed(u)'
  <1>1. PICK i \in accepted : invitations[i] # None /\ invitations[i].unit = u
    BY DEF Backed
  <1>2. i \in Invitations
    BY DEF IInv, TypeOK
  <1>3. i \in accepted' /\ invitations'[i] # None /\ invitations'[i].unit = u
    BY <1>1, <1>2, StoredInvitation
  <1> QED BY <1>3 DEF Backed

(* A tenancy that can be loaded is backed, and so is the aggregate made    *)
(* from it; an acceptance is backed from InvitationWrite on.               *)
LEMMA StepAcceptance ==
  ASSUME IInv, InvitationInv, AcceptanceInv, [Next]_vars
  PROVE  AcceptanceInv'
  <1> USE DEF tables, events, history, locals
  <1>1. ReservedByAcceptance'
    <2>1. SUFFICES ASSUME NEW t \in Tenancies, tenancies'[t] # None
                   PROVE  Backed(tenancies[t].unit)'
      BY DEF ReservedByAcceptance, Backed
    <2>2. CASE tenancies[t] # None /\ tenancies'[t].unit = tenancies[t].unit
      <3>1. Backed(tenancies[t].unit)
        BY <2>2 DEF AcceptanceInv, ReservedByAcceptance, Backed
      <3>2. PICK u : u = tenancies[t].unit
        OBVIOUS
      <3>3. Backed(u)'
        BY <3>1, <3>2, BackedIsStable
      <3>4. tenancies'[t].unit = u
        BY <2>2, <3>2
      <3> QED BY <3>3, <3>4 DEF Backed
    <2>3. CASE ~(tenancies[t] # None /\ tenancies'[t].unit = tenancies[t].unit)
      <3>1. PICK r \in Requests : /\ pc[r] = "write"
                                 /\ Accepted(r)
                                 /\ target[r] = t
                                 /\ tenancies'[t] = Written(r)
        BY <2>1, <2>3, TenanciesStep DEF IInv, TypeOK
      <3>2. Written(r).unit = entity[r].unit
        BY <2>3, <3>1, WrittenRow DEF IInv
      <3>3. PICK u : u = entity[r].unit
        OBVIOUS
      <3>4. Backed(u)'
        BY <3>1, <3>3, BackedIsStable DEF AcceptanceInv, SavesBacked, Saving
      <3> QED BY <3>1, <3>2, <3>3, <3>4 DEF Backed
    <2> QED BY <2>2, <2>3
  <1>2. SavesBacked'
    <2>1. SUFFICES ASSUME NEW r \in Requests, pc'[r] \in Activating \cup Saving
                   PROVE  Backed(entity[r].unit)'
      BY DEF SavesBacked, Backed
    <2>2. CASE pc[r] \in Activating \cup Saving /\ entity'[r] = entity[r]
      <3>1. PICK u : u = entity[r].unit
        OBVIOUS
      <3>2. Backed(u)'
        BY <2>2, <3>1, BackedIsStable DEF AcceptanceInv, SavesBacked
      <3> QED BY <2>2, <3>1, <3>2 DEF Backed
    <2>3. CASE \E t \in Tenancies : /\ tenancies[t] # None
                                    /\ entity'[r].unit = tenancies[t].unit
      <3>1. PICK t \in Tenancies : /\ tenancies[t] # None
                                  /\ entity'[r].unit = tenancies[t].unit
        BY <2>3
      <3>2. PICK u : u = tenancies[t].unit
        OBVIOUS
      <3>3. Backed(u)'
        BY <3>1, <3>2, BackedIsStable
           DEF AcceptanceInv, ReservedByAcceptance, Backed
      <3> QED BY <3>1, <3>2, <3>3 DEF Backed
    <2>4. CASE /\ InvitationWrite(r) /\ pc[r] = "inviteWrite" /\ target[r] # None
               /\ invitations' = [invitations EXCEPT ![source[r]] = InvitationWritten(r)]
               /\ accepted' = IF InvitationWritten(r).status = "ACCEPTED"
                             THEN accepted \cup {source[r]} ELSE accepted
               /\ entity'[r] = entity[r] /\ target'[r] = target[r]
      <3>1. /\ source[r] \in Invitations /\ invite[r] \in InvitationRow
            /\ invite[r].status = "ACCEPTED" /\ entity[r].unit = invite[r].unit
        BY <2>4 DEF IInv, InFlight, InvitationInv, AtInvitation, Inviting, Sends, Accepts
      <3>2. seen[r] = None => invitations[source[r]] = None
        BY <2>1, <2>4 DEF InvitationWrite, Finish, Activating, Saving, IInv, TypeOK
      <3>3. /\ InvitationWritten(r) \in InvitationRow
            /\ InvitationWritten(r).unit = invite[r].unit
            /\ InvitationWritten(r).status # "ACCEPTED" =>
                  seen[r] # None /\ seen[r].status = "ACCEPTED"
        BY <2>4, <3>1, <3>2, InvitationWrittenColumns
      <3>4. source[r] \in accepted'
        BY <2>4, <3>3 DEF InvitationInv
      <3>5. invitations'[source[r]] = InvitationWritten(r)
        BY <2>4, <3>1 DEF IInv, TypeOK
      <3> QED BY <2>4, <3>1, <3>3, <3>4, <3>5, NoneIsNoRow DEF Backed
    <2>5. ASSUME NEW t \in Tenancies,
                 \/ \E h \in Handovers : ActivateLoad(r, t, h)
                 \/ \E d \in NoticeDates : GiveNoticeLoad(r, t, d)
                 \/ EndLoad(r, t)
          PROVE  tenancies[t] # None /\ entity'[r].unit = tenancies[t].unit
      <3>1. Loadable(t) /\ tenancies[t] \in TenancyRow
        BY <2>5, LoadedRow DEF ActivateLoad, GiveNoticeLoad, EndLoad, IInv
      <3> DEFINE row == tenancies[t]
      <3>2. \/ entity'[r] = [row EXCEPT !.status = "ACTIVE", !.version = @ + 1]
            \/ \E d \in NoticeDates :
                  entity'[r] = [row EXCEPT !.status = "TERMINATED", !.notice = d,
                                           !.version = @ + 1]
            \/ entity'[r] = [row EXCEPT !.status = "ENDED", !.version = @ + 1]
        BY <2>5 DEF ActivateLoad, GiveNoticeLoad, EndLoad, Start, IInv, TypeOK
      <3>3. entity'[r].unit = row.unit
        BY <3>1, <3>2 DEF TenancyRow
      <3> QED BY <3>1, <3>3 DEF Loadable, Readable
    <2> QED BY <2>1, <2>2, <2>3, <2>4, <2>5, Saved
  <1> QED BY <1>1, <1>2 DEF AcceptanceInv

(* ReservedByAcceptance: no crash, conflict, race or repeated POST leaves a*)
(* lease nobody had accepted an invitation to.                             *)
THEOREM AlwaysInvited == Spec => []ReservedByAcceptance
  <1>1. Init => AcceptanceInv
    BY DEF Init, AcceptanceInv, ReservedByAcceptance, SavesBacked, Activating, Saving
  <1>2. IInv /\ InvitationInv /\ AcceptanceInv /\ [Next]_vars => AcceptanceInv'
    BY StepAcceptance
  <1>3. AcceptanceInv => ReservedByAcceptance
    BY DEF AcceptanceInv
  <1> QED BY <1>1, <1>2, <1>3, Invariance, InvitationInvariance, PTL DEF Spec

----------------------------------------------------------------------------
(***************************************************************************)
(* An activated tenancy was handed over, and what was handed over is not   *)
(* handed over again.                                                      *)
(***************************************************************************)

\* close() has counted a protocol's version up before it is compared.
Closing == \A r \in Requests : pc[r] = "protocolCheck" => protocol[r].version # 0

SavesHandedOver ==
    \A r \in Requests :
       pc[r] \in Saving /\ entity[r].status # "RESERVED" => target[r] \in handed

HandoverInv == /\ ActivatedAfterHandover /\ SavesHandedOver /\ Closing
               /\ \A h \in Handovers : handovers[h] # None
                                          => handovers[h].tenancy \in handed

(* Only ProtocolWrite changes the table. *)
LEMMA HandoversStep ==
  ASSUME IInv, [Next]_vars
  PROVE  \/ UNCHANGED <<handovers, handed>>
         \/ \E r \in Requests, new \in ProtocolRow :
               /\ pc[r] = "protocolWrite" /\ source[r] \in Handovers
               /\ handovers' = [handovers EXCEPT ![source[r]] = new]
               /\ handed' = handed \cup {new.tenancy}
  <1> USE DEF tables, events, history, locals
  <1>1. ASSUME NEW u \in Units, RegisterUnit(u) PROVE UNCHANGED <<handovers, handed>>
    BY <1>1 DEF RegisterUnit
  <1>2. ASSUME NEW i \in Invitations, Expire(i) PROVE UNCHANGED <<handovers, handed>>
    BY <1>2 DEF Expire
  <1>3. ASSUME NEW r \in Requests, Load(r) \/ Invite(r) \/ Activate(r)
        PROVE  UNCHANGED <<handovers, handed>>
    BY <1>3 DEF Load, InviteLoad, AcceptLoad, ConfirmLoad, ActivateLoad, GiveNoticeLoad,
                EndLoad, Invite, AcceptOverlap, InvitationCheck, InvitationSelect,
                InvitationWrite, Activate, ActivateReadiness, ActivateHandover
  <1>4. ASSUME NEW r \in Requests, Save(r) \/ Persist(r) \/ Crash(r)
        PROVE  UNCHANGED <<handovers, handed>>
    BY <1>4 DEF Save, CheckVersion, SaveSelect, SaveWrite,
                Persist, SaveJournal, SaveDispatch, SaveOutbox, Crash
  <1>5. ASSUME NEW r \in Requests, Protocol(r), ~UNCHANGED <<handovers, handed>>
        PROVE  \E new \in ProtocolRow :
                  /\ pc[r] = "protocolWrite" /\ source[r] \in Handovers
                  /\ handovers' = [handovers EXCEPT ![source[r]] = new]
                  /\ handed' = handed \cup {new.tenancy}
    <2>1. ProtocolWrite(r) /\ pc[r] = "protocolWrite"
      BY <1>5 DEF Protocol, ProtocolCheck, ProtocolSelect, ProtocolWrite
    <2>2. source[r] \in Handovers /\ protocol[r] \in ProtocolRow
      BY <2>1 DEF IInv, InFlight, Confirming
    <2> QED BY <1>5, <2>1, <2>2, ProtocolWrittenRow DEF ProtocolWrite, IInv
  <1>6. CASE UNCHANGED vars
    BY <1>6 DEF vars
  <1> QED BY <1>1, <1>2, <1>3, <1>4, <1>5, <1>6 DEF Next

(* The status of a row that is stored after a step was stored before, or   *)
(* is that of the aggregate a request was saving.                          *)
LEMMA StatusStep ==
  ASSUME IInv, [Next]_vars, NEW t \in Tenancies, tenancies'[t] # None
  PROVE  \/ tenancies[t] # None /\ tenancies'[t].status = tenancies[t].status
         \/ \E r \in Requests : /\ SaveWrite(r) /\ pc[r] = "write"
                                /\ target[r] = t /\ Accepted(r)
                                /\ tenancies' = [tenancies EXCEPT ![target[r]] = Written(r)]
                                /\ tenancies'[t].status = entity[r].status
  <1>1. CASE UNCHANGED tenancies
    BY <1>1
  <1>2. ASSUME NEW r \in Requests, SaveWrite(r), pc[r] = "write", Accepted(r),
               target[r] \in Tenancies, Written(r) \in TenancyRow,
               tenancies' = [tenancies EXCEPT ![target[r]] = Written(r)]
        PROVE  \/ tenancies[t] # None /\ tenancies'[t].status = tenancies[t].status
               \/ target[r] = t /\ tenancies'[t].status = entity[r].status
    <2>1. CASE t = target[r]
      BY <1>2, <2>1, WrittenRow DEF IInv, TypeOK
    <2>2. CASE t # target[r]
      BY <1>2, <2>2 DEF IInv, TypeOK
    <2> QED BY <2>1, <2>2
  <1> QED BY <1>1, <1>2, TenanciesStep

(* What a command loads to give notice or to end was active.               *)
LEMMA LoadedStatus ==
  ASSUME IInv, NEW r \in Requests, NEW t \in Tenancies,
         \/ \E d \in NoticeDates : GiveNoticeLoad(r, t, d)
         \/ EndLoad(r, t)
  PROVE  /\ tenancies[t] # None /\ tenancies[t].status # "RESERVED"
         /\ target'[r] = t
         /\ entity'[r].status \in {"TERMINATED", "ENDED"}
         /\ UNCHANGED <<tables, events, history>>
  <1>1. Loadable(t) /\ tenancies[t] \in TenancyRow
    BY LoadedRow DEF GiveNoticeLoad, EndLoad, IInv
  <1>2. \/ \E d \in NoticeDates :
               entity'[r] = [tenancies[t] EXCEPT !.status = "TERMINATED", !.notice = d,
                                                 !.version = @ + 1]
        \/ entity'[r] = [tenancies[t] EXCEPT !.status = "ENDED", !.version = @ + 1]
    BY DEF GiveNoticeLoad, EndLoad, Start, IInv, TypeOK
  <1>3. entity'[r].status \in {"TERMINATED", "ENDED"}
    BY <1>1, <1>2 DEF TenancyRow
  <1> QED BY <1>1, <1>3 DEF GiveNoticeLoad, EndLoad, Loadable, Readable, Start, IInv, TypeOK

LEMMA StepClosing ==
  ASSUME IInv, HandoverInv, [Next]_vars
  PROVE  Closing'
  <1> USE DEF IInv, TypeOK
  <1> SUFFICES ASSUME NEW r \in Requests, pc'[r] = "protocolCheck"
               PROVE  protocol'[r].version # 0
    BY DEF Closing
  <1>1. CASE UNCHANGED Own(r)
    BY <1>1 DEF Own, HandoverInv, Closing
  <1>2. ASSUME NEW h \in Handovers, NEW t \in Tenancies, NEW n \in 0..MaxEntries,
               ConfirmLoad(r, h, t, n)
        PROVE  protocol'[r].version # 0
    <2>1. protocol'[r] = [tenancy |-> t, version |-> n + 1]
      BY <1>2 DEF ConfirmLoad
    <2>2. n + 1 # 0
      BY TenancyCommandsAssumption
    <2> QED BY <2>1, <2>2
  <1>3. ~ \E t \in Tenancies : \/ \E i \in Invitations, from, to \in Days :
                                     AcceptLoad(r, i, t, from, to)
                               \/ \E h \in Handovers : ActivateLoad(r, t, h)
                               \/ \E d \in NoticeDates : GiveNoticeLoad(r, t, d)
                               \/ EndLoad(r, t)
    BY DEF AcceptLoad, ActivateLoad, GiveNoticeLoad, EndLoad, Start
  <1>4. ~ \E i \in Invitations, u \in Units : InviteLoad(r, i, u)
    BY DEF InviteLoad, Start
  <1>5. ~Protocol(r) /\ ~Activate(r) /\ ~Save(r)
    BY DEF Protocol, ProtocolCheck, ProtocolSelect, ProtocolWrite,
           Activate, ActivateReadiness, ActivateHandover,
           Save, CheckVersion, SaveSelect, SaveWrite, Goto, Finish
  <1>6. ~Invite(r) /\ ~Persist(r) /\ ~Crash(r)
    BY DEF Invite, AcceptOverlap, InvitationCheck, InvitationSelect, InvitationWrite,
           Persist, SaveJournal, SaveDispatch, SaveOutbox, Crash, Goto, Finish
  <1> QED BY <1>1, <1>2, <1>3, <1>4, <1>5, <1>6, OwnStep DEF Load

LEMMA StepHandover ==
  ASSUME IInv, HandoverInv, [Next]_vars
  PROVE  HandoverInv'
  <1>1. handed \subseteq handed'
    BY HandoversStep
  <1>2. ASSUME NEW h \in Handovers, handovers'[h] # None
        PROVE  handovers'[h].tenancy \in handed'
    <2>1. CASE UNCHANGED <<handovers, handed>>
      BY <1>2, <2>1 DEF HandoverInv
    <2>2. ASSUME NEW r \in Requests, NEW new \in ProtocolRow, source[r] \in Handovers,
                 handovers' = [handovers EXCEPT ![source[r]] = new],
                 handed' = handed \cup {new.tenancy}
          PROVE  handovers'[h].tenancy \in handed'
      BY <1>2, <2>2 DEF HandoverInv, IInv, TypeOK
    <2> QED BY <2>1, <2>2, HandoversStep
  <1>3. ActivatedAfterHandover'
    <2>1. SUFFICES ASSUME NEW t \in Tenancies, tenancies'[t] # None,
                          tenancies'[t].status # "RESERVED"
                   PROVE  t \in handed
      BY <1>1 DEF ActivatedAfterHandover
    <2> QED BY <2>1, StatusStep
            DEF HandoverInv, ActivatedAfterHandover, SavesHandedOver, Saving
  <1>4. SavesHandedOver'
    <2>1. SUFFICES ASSUME NEW r \in Requests, pc'[r] \in Saving,
                          entity'[r].status # "RESERVED"
                   PROVE  target'[r] \in handed
      BY <1>1 DEF SavesHandedOver, Saving
    <2>2. CASE pc[r] \in Saving /\ entity'[r] = entity[r] /\ target'[r] = target[r]
      BY <2>1, <2>2 DEF HandoverInv, SavesHandedOver
    <2>3. CASE pc[r] \in Activating
      <3>1. /\ ActivateHandover(r) /\ HandedOverBy(source[r], target[r])
            /\ Goto(r, "check")
        <4> USE DEF Activating, Saving
        <4>1. ~UNCHANGED Own(r)
          BY <2>1, <2>3 DEF Own
        <4>2. ~Load(r)
          BY <2>3 DEF Load, InviteLoad, AcceptLoad, ConfirmLoad, ActivateLoad,
                      GiveNoticeLoad, EndLoad, Start
        <4>3. ~Invite(r) /\ ~Save(r) /\ ~Persist(r) /\ ~Protocol(r)
          BY <2>3 DEF Invite, AcceptOverlap, InvitationCheck, InvitationSelect, InvitationWrite,
                      Save, CheckVersion, SaveSelect, SaveWrite,
                      Persist, SaveJournal, SaveDispatch, SaveOutbox,
                      Protocol, ProtocolCheck, ProtocolSelect, ProtocolWrite
        <4>4. ~Finish(r)
          BY <2>1 DEF Finish, IInv, TypeOK
        <4>5. ~ActivateReadiness(r)
          BY <2>1, <4>4 DEF ActivateReadiness, Goto, IInv, TypeOK
        <4>6. Activate(r)
          BY <4>1, <4>2, <4>3, <4>4, OwnStep DEF Crash
        <4> QED BY <4>4, <4>5, <4>6 DEF Activate, ActivateHandover
      <3>2. source[r] \in Handovers /\ target'[r] = target[r]
        BY <2>3, <3>1 DEF IInv, InFlight, Goto
      <3> QED BY <3>1, <3>2 DEF HandoverInv, HandedOverBy
    <2>4. CASE /\ InvitationWrite(r) /\ pc[r] = "inviteWrite" /\ target[r] # None
               /\ entity'[r] = entity[r] /\ target'[r] = target[r]
      BY <2>1, <2>4 DEF IInv, InFlight, Inviting
    <2>5. CASE \E o \in Tenancies :
                  \/ \E d \in NoticeDates : GiveNoticeLoad(r, o, d)
                  \/ EndLoad(r, o)
      BY <2>5, LoadedStatus DEF HandoverInv, ActivatedAfterHandover
    <2>6. ~ \E o \in Tenancies, h \in Handovers : ActivateLoad(r, o, h)
      BY <2>1 DEF ActivateLoad, Start, Saving, IInv, TypeOK
    <2> QED BY <2>1, <2>2, <2>3, <2>4, <2>5, <2>6, Saved
  <1> QED BY <1>2, <1>3, <1>4, StepClosing DEF HandoverInv

LEMMA HandoverInvariance == Spec => []HandoverInv
  <1>1. Init => HandoverInv
    BY DEF Init, HandoverInv, ActivatedAfterHandover, SavesHandedOver, Saving, Closing
  <1>2. IInv /\ HandoverInv /\ [Next]_vars => HandoverInv'
    BY StepHandover
  <1> QED BY <1>1, <1>2, Invariance, PTL DEF Spec

(* ActivatedAfterHandover: nobody is ever activated for whom no closed     *)
(* protocol had been stored.                                               *)
THEOREM AlwaysHandedOver == Spec => []ActivatedAfterHandover
  <1>1. HandoverInv => ActivatedAfterHandover
    BY DEF HandoverInv
  <1> QED BY <1>1, HandoverInvariance, PTL

(* SealedForGood: a closed protocol is overwritten by no confirmation but  *)
(* one that had found its id free before.                                  *)
THEOREM StaysSealed == Spec => SealedForGood
  <1> DEFINE Kept == \A h \in Handovers :
                        Sealed(h) => Sealed(h)' /\ handovers'[h] = handovers[h]
  <1>1. IInv /\ HandoverInv /\ [Next]_vars => [Kept]_vars
    <2> SUFFICES ASSUME IInv, HandoverInv, [Next]_vars,
                        NEW h \in Handovers, Sealed(h)
                 PROVE  Sealed(h)' /\ handovers'[h] = handovers[h]
      OBVIOUS
    <2>1. handovers'[h] = handovers[h]
      <3>1. ASSUME NEW r \in Requests, pc[r] = "protocolWrite", NEW new,
                   source[r] \in Handovers,
                   handovers' = [handovers EXCEPT ![source[r]] = new]
            PROVE  handovers'[h] = handovers[h]
        <4>1. source[r] # h
          BY <3>1 DEF Sealed
        <4> QED BY <3>1, <4>1 DEF IInv, TypeOK
      <3> QED BY <3>1, HandoversStep
    <2>2. ASSUME NEW r \in Requests, source'[r] = h,
                 pc'[r] \in {"protocolSelect", "protocolWrite"}
          PROVE  FALSE
      <3> USE DEF IInv, TypeOK
      <3>1. CASE UNCHANGED Own(r)
        BY <2>2, <3>1 DEF Own, Sealed
      <3>2. CASE ProtocolCheck(r)
        <4>1. /\ pc[r] = "protocolCheck" /\ source[r] = h
              /\ handovers[h].version = protocol[r].version
          BY <2>2, <3>2 DEF ProtocolCheck, Finish, Sealed
        <4> QED BY <4>1 DEF HandoverInv, Closing, Sealed
      <3>3. CASE ProtocolSelect(r)
        BY <2>2, <3>3 DEF ProtocolSelect, Sealed
      <3>4. ~ProtocolWrite(r) /\ ~Activate(r) /\ ~Save(r)
        BY <2>2 DEF ProtocolWrite, Activate, ActivateReadiness, ActivateHandover,
                    Save, CheckVersion, SaveSelect, SaveWrite, Goto, Finish
      <3>5. ~Invite(r) /\ ~Persist(r) /\ ~Crash(r)
        BY <2>2 DEF Invite, AcceptOverlap, InvitationCheck, InvitationSelect,
                    InvitationWrite, Persist, SaveJournal, SaveDispatch, SaveOutbox,
                    Crash, Goto, Finish
      <3>6. ~Load(r)
        BY <2>2 DEF Load, InviteLoad, AcceptLoad, ConfirmLoad, ActivateLoad,
                    GiveNoticeLoad, EndLoad, Start
      <3> QED BY <3>1, <3>2, <3>3, <3>4, <3>5, <3>6, OwnStep DEF Protocol
    <2> QED BY <2>1, <2>2 DEF Sealed
  <1>2. [][Kept]_vars <=> SealedForGood
    BY DEF SealedForGood
  <1> QED BY <1>1, <1>2, Invariance, HandoverInvariance, PTL DEF Spec

----------------------------------------------------------------------------
(***************************************************************************)
(* The three rows of an event.                                             *)
(***************************************************************************)

Persisted ==
    \A r \in Requests : /\ pc[r] = "dispatch" => Event(r) \in journal
                        /\ pc[r] = "outbox" => Event(r) \in dispatches

EventInv == JournalFirst /\ Persisted

LEMMA EventRowsStep ==
  ASSUME IInv, [Next]_vars
  PROVE  \/ UNCHANGED events
         \/ \E r \in Requests : Persist(r)
  <1> USE DEF events
  <1>1. CASE (\E u \in Units : RegisterUnit(u)) \/ (\E i \in Invitations : Expire(i))
    BY <1>1 DEF RegisterUnit, Expire
  <1>2. ASSUME NEW r \in Requests, Load(r) \/ Invite(r) \/ Activate(r)
        PROVE  UNCHANGED events
    BY <1>2 DEF Load, InviteLoad, AcceptLoad, ConfirmLoad, ActivateLoad, GiveNoticeLoad,
                EndLoad, Invite, AcceptOverlap, InvitationCheck, InvitationSelect,
                InvitationWrite, Activate, ActivateReadiness, ActivateHandover
  <1>3. ASSUME NEW r \in Requests, Save(r) \/ Protocol(r) \/ Crash(r)
        PROVE  UNCHANGED events
    BY <1>3 DEF Save, CheckVersion, SaveSelect, SaveWrite, Protocol, ProtocolCheck,
                ProtocolSelect, ProtocolWrite, Crash
  <1> QED BY <1>1, <1>2, <1>3 DEF Next, vars

LEMMA NotPersisting ==
  ASSUME TypeOK, NEW r \in Requests, Load(r) \/ Invite(r) \/ Activate(r) \/ Protocol(r)
  PROVE  pc'[r] \notin {"dispatch", "outbox"}
  <1>1. PICK L : pc \in [Requests -> L]
    BY DEF TypeOK
  <1>2. CASE Load(r)
    <2> DEFINE Elsewhere == pc'[r] \notin {"dispatch", "outbox"}
    <2>1. ASSUME NEW l \in {"inviteCheck", "overlap", "protocolCheck", "readiness", "check"},
                 pc' = [pc EXCEPT ![r] = l]
          PROVE  Elsewhere
      BY <1>1, <2>1
    <2>2. ASSUME NEW i \in Invitations, NEW u \in Units, InviteLoad(r, i, u)
          PROVE  Elsewhere
      BY <2>1, <2>2 DEF InviteLoad, Start
    <2>3. ASSUME NEW i \in Invitations, NEW t \in Tenancies,
                 NEW from \in Days, NEW to \in Days, AcceptLoad(r, i, t, from, to)
          PROVE  Elsewhere
      BY <2>1, <2>3 DEF AcceptLoad, Start
    <2>4. ASSUME NEW t \in Tenancies, NEW h \in Handovers, ActivateLoad(r, t, h)
          PROVE  Elsewhere
      BY <2>1, <2>4 DEF ActivateLoad, Start
    <2>5. ASSUME NEW t \in Tenancies, NEW d \in NoticeDates, GiveNoticeLoad(r, t, d)
          PROVE  Elsewhere
      BY <2>1, <2>5 DEF GiveNoticeLoad, Start
    <2>6. ASSUME NEW t \in Tenancies, EndLoad(r, t) PROVE Elsewhere
      BY <2>1, <2>6 DEF EndLoad, Start
    <2>7. ASSUME NEW t \in Tenancies, NEW h \in Handovers, NEW n \in 0..MaxEntries,
                 ConfirmLoad(r, h, t, n)
          PROVE  Elsewhere
      BY <2>1, <2>7 DEF ConfirmLoad
    <2> QED BY <1>2, <2>2, <2>3, <2>4, <2>5, <2>6, <2>7 DEF Load
  <1>3. CASE AcceptOverlap(r)
    BY <1>1, <1>3 DEF AcceptOverlap, Goto, Finish
  <1>4. CASE InvitationCheck(r)
    BY <1>1, <1>4 DEF InvitationCheck, Finish
  <1>5. CASE InvitationSelect(r) \/ InvitationWrite(r)
    BY <1>1, <1>5 DEF InvitationSelect, InvitationWrite, Finish
  <1>6. CASE Activate(r)
    BY <1>1, <1>6 DEF Activate, ActivateReadiness, ActivateHandover, Goto, Finish
  <1>7. CASE ProtocolCheck(r)
    BY <1>1, <1>7 DEF ProtocolCheck, Finish
  <1>8. CASE ProtocolSelect(r) \/ ProtocolWrite(r)
    BY <1>1, <1>8 DEF ProtocolSelect, ProtocolWrite, Finish
  <1> QED BY <1>2, <1>3, <1>4, <1>5, <1>6, <1>7, <1>8 DEF Invite, Protocol

LEMMA StepEvents ==
  ASSUME IInv, EventInv, [Next]_vars
  PROVE  EventInv'
  <1> USE DEF events, JournalFirst, EventInv
  <1>1. JournalFirst' /\ journal \subseteq journal' /\ dispatches \subseteq dispatches'
    <2>1. ASSUME NEW r \in Requests, Persist(r)
          PROVE  JournalFirst' /\ journal \subseteq journal' /\ dispatches \subseteq dispatches'
      BY <2>1 DEF Persist, SaveJournal, SaveDispatch, SaveOutbox, Persisted
    <2> QED BY <2>1, EventRowsStep
  <1>2. ASSUME NEW r \in Requests
        PROVE  /\ pc'[r] = "dispatch" => Event(r)' \in journal'
               /\ pc'[r] = "outbox" => Event(r)' \in dispatches'
    <2> USE DEF IInv, TypeOK, Event
    <2>1. CASE UNCHANGED Own(r)
      BY <1>1, <2>1 DEF Own, Persisted
    <2>2. CASE Load(r) \/ Invite(r) \/ Activate(r) \/ Protocol(r)
      BY <2>2, NotPersisting
    <2>3. CASE Save(r) \/ Crash(r)
      BY <2>3 DEF Save, CheckVersion, SaveSelect, SaveWrite, Crash, Goto, Finish
    <2>4. CASE Persist(r)
      BY <2>4 DEF Persist, SaveJournal, SaveDispatch, SaveOutbox, Goto, Finish
    <2> QED BY <2>1, <2>2, <2>3, <2>4, OwnStep
  <1> QED BY <1>1, <1>2 DEF Persisted

(* No event is dispatched or published that the journal does not hold,     *)
(* even if the process dies between the three commits.                     *)
THEOREM AlwaysJournalFirst == Spec => []JournalFirst
  <1>1. Init => EventInv
    BY DEF Init, EventInv, JournalFirst, Persisted
  <1>2. IInv /\ EventInv /\ [Next]_vars => EventInv'
    BY StepEvents
  <1>3. EventInv => JournalFirst
    BY DEF EventInv
  <1> QED BY <1>1, <1>2, <1>3, Invariance, PTL DEF Spec

----------------------------------------------------------------------------
(***************************************************************************)
(* An activation is on record, or its request died before it was.          *)
(***************************************************************************)

OnRecord(t) == Recorded(t) \/ t \in orphaned

SavesOnRecord ==
    \A r \in Requests :
       pc[r] \in Saving /\ entity[r].status \in {"TERMINATED", "ENDED"}
          => OnRecord(target[r])

RecordInv == LostByCrashOnly /\ SavesOnRecord

LEMMA OnRecordIsStable ==
  ASSUME IInv, [Next]_vars, NEW t \in Tenancies, OnRecord(t)
  PROVE  OnRecord(t)'
  <1>1. journal \subseteq journal'
    <2>1. ASSUME NEW r \in Requests, Persist(r) PROVE journal \subseteq journal'
      BY <2>1 DEF Persist, SaveJournal, SaveDispatch, SaveOutbox
    <2> QED BY <2>1, EventRowsStep DEF events
  <1>2. CASE \E e \in journal : e[1] = t
    BY <1>1, <1>2 DEF OnRecord, Recorded
  <1>3. orphaned \subseteq orphaned'
    <2>1. ASSUME NEW r \in Requests, Load(r) \/ Invite(r) \/ Activate(r)
          PROVE  UNCHANGED orphaned
      BY <2>1 DEF Load, InviteLoad, AcceptLoad, ConfirmLoad, ActivateLoad, GiveNoticeLoad,
                  EndLoad, Invite, AcceptOverlap, InvitationCheck, InvitationSelect,
                  InvitationWrite, Activate, ActivateReadiness, ActivateHandover, history
    <2>2. ASSUME NEW r \in Requests, Save(r) \/ Persist(r) \/ Protocol(r)
          PROVE  UNCHANGED orphaned
      BY <2>2 DEF Save, CheckVersion, SaveSelect, SaveWrite, Protocol, ProtocolCheck,
                  ProtocolSelect, ProtocolWrite, Persist, SaveJournal, SaveDispatch,
                  SaveOutbox, history
    <2>3. ASSUME NEW r \in Requests, Crash(r) PROVE orphaned \subseteq orphaned'
      BY <2>3 DEF Crash
    <2>4. CASE (\E u \in Units : RegisterUnit(u)) \/ (\E i \in Invitations : Expire(i))
      BY <2>4 DEF RegisterUnit, Expire, history
    <2> QED BY <2>1, <2>2, <2>3, <2>4 DEF Next, vars, history
  <1>4. ASSUME NEW r \in Requests, pc[r] = "journal", target[r] = t
        PROVE  OnRecord(t)'
    <2>1. CASE UNCHANGED Own(r)
      BY <1>4, <2>1 DEF Own, OnRecord, Recorded
    <2>2. CASE SaveJournal(r)
      <3>1. Event(r) \in journal' /\ Event(r)[1] = t
        BY <1>4, <2>2 DEF SaveJournal, Event
      <3> QED BY <3>1 DEF OnRecord, Recorded
    <2>3. CASE Crash(r)
      BY <1>4, <2>3 DEF Crash, OnRecord
    <2>4. UNCHANGED Own(r) \/ SaveJournal(r) \/ Crash(r)
      <3>1. ~Load(r) /\ ~Invite(r) /\ ~Activate(r)
        BY <1>4
           DEF Load, InviteLoad, AcceptLoad, ConfirmLoad, ActivateLoad, GiveNoticeLoad,
               EndLoad, Start, Invite, AcceptOverlap, InvitationCheck, InvitationSelect,
               InvitationWrite, Activate, ActivateReadiness, ActivateHandover
      <3>2. ~Save(r) /\ ~Protocol(r) /\ ~SaveDispatch(r) /\ ~SaveOutbox(r)
        BY <1>4
           DEF Save, CheckVersion, SaveSelect, SaveWrite, Protocol, ProtocolCheck,
               ProtocolSelect, ProtocolWrite, SaveDispatch, SaveOutbox
      <3> QED BY <3>1, <3>2, OwnStep DEF Persist
    <2> QED BY <2>1, <2>2, <2>3, <2>4
  <1>5. CASE t \in orphaned
    BY <1>3, <1>5 DEF OnRecord
  <1> QED BY <1>2, <1>4, <1>5 DEF OnRecord, Recorded

LEMMA StepRecord ==
  ASSUME IInv, RecordInv, [Next]_vars
  PROVE  RecordInv'
  <1>1. LostByCrashOnly'
    <2>1. SUFFICES ASSUME NEW t \in Tenancies, tenancies'[t] # None,
                          tenancies'[t].status # "RESERVED"
                   PROVE  OnRecord(t)'
      BY DEF LostByCrashOnly, OnRecord, Recorded
    <2>2. CASE tenancies[t] # None /\ tenancies'[t].status = tenancies[t].status
      BY <2>1, <2>2, OnRecordIsStable DEF RecordInv, LostByCrashOnly, OnRecord
    <2>3. ASSUME NEW r \in Requests, SaveWrite(r), pc[r] = "write", target[r] = t,
                 Accepted(r), tenancies'[t].status = entity[r].status
          PROVE  OnRecord(t)'
      <3>1. entity[r] \in TenancyRow
        BY <2>3 DEF IInv, InFlight, OnlyInvites, Inviting, Confirming
      <3>2. CASE entity[r].status \in {"TERMINATED", "ENDED"}
        BY <2>3, <3>2, OnRecordIsStable DEF RecordInv, SavesOnRecord, Saving
      <3>3. CASE entity[r].status = "ACTIVE"
        BY <2>3, <3>3 DEF SaveWrite, Goto, OnRecord, Recorded, IInv, TypeOK
      <3> QED BY <2>1, <2>3, <3>1, <3>2, <3>3 DEF TenancyRow
    <2> QED BY <2>1, <2>2, <2>3, StatusStep
  <1>2. SavesOnRecord'
    <2>1. SUFFICES ASSUME NEW r \in Requests, pc'[r] \in Saving,
                          entity'[r].status \in {"TERMINATED", "ENDED"},
                          NEW t \in Tenancies, target'[r] = t
                   PROVE  OnRecord(t)'
      <3>1. ASSUME NEW r \in Requests, pc'[r] \in Saving PROVE target'[r] \in Tenancies
        BY <3>1, StepTyped DEF IInv, InFlight, OnlyInvites, Inviting, Saving, Confirming
      <3> QED BY <3>1 DEF SavesOnRecord, OnRecord, Recorded, Saving
    <2>2. CASE /\ pc[r] \in Activating \cup Saving
               /\ entity'[r] = entity[r] /\ target'[r] = target[r]
      <3>1. pc[r] \in Saving
        BY <2>1, <2>2 DEF IInv, InFlight
      <3> QED BY <2>1, <2>2, <3>1, OnRecordIsStable DEF RecordInv, SavesOnRecord
    <2>3. CASE /\ InvitationWrite(r) /\ pc[r] = "inviteWrite" /\ target[r] # None
               /\ entity'[r] = entity[r] /\ target'[r] = target[r]
      BY <2>1, <2>3 DEF IInv, InFlight, Inviting
    <2>4. CASE \E o \in Tenancies :
                  \/ \E d \in NoticeDates : GiveNoticeLoad(r, o, d)
                  \/ EndLoad(r, o)
      BY <2>1, <2>4, LoadedStatus, OnRecordIsStable
         DEF RecordInv, LostByCrashOnly, OnRecord
    <2>5. ~ \E o \in Tenancies, h \in Handovers : ActivateLoad(r, o, h)
      BY <2>1 DEF ActivateLoad, Start, Saving, IInv, TypeOK
    <2> QED BY <2>1, <2>2, <2>3, <2>4, <2>5, Saved
  <1> QED BY <1>1, <1>2 DEF RecordInv

(* LostByCrashOnly: every activation leaves its event in the journal,      *)
(* unless its request dies between the save of the tenancy and that of the *)
(* event.                                                                  *)
THEOREM ActivationOnRecord == Spec => []LostByCrashOnly
  <1>1. Init => RecordInv
    BY DEF Init, RecordInv, LostByCrashOnly, SavesOnRecord, Saving
  <1>2. IInv /\ RecordInv /\ [Next]_vars => RecordInv'
    BY StepRecord
  <1>3. RecordInv => LostByCrashOnly
    BY DEF RecordInv
  <1> QED BY <1>1, <1>2, <1>3, Invariance, PTL DEF Spec

=============================================================================
