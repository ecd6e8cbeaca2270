---------------------------- MODULE OutboxPromise ----------------------------
(***************************************************************************)
(* What an outbox promises to whoever saves a message in it, whichever     *)
(* relays empty it and whatever fails: nothing is sent that was not        *)
(* announced or whose attempt is not on record; the outbox says PUBLISHED  *)
(* only of a message that was sent, and DEAD only after MaxAttempts.  It   *)
(* promises no more: a message may be sent again, also after a verdict,    *)
(* and a verdict may be taken back by a relay that does not know of it.    *)
(***************************************************************************)
EXTENDS Naturals

CONSTANTS Messages,
          MaxAttempts   \* how often a message is tried before it is given up

VARIABLES announced,    \* the messages saved in the outbox
          begun,        \* the attempts begun, counted up to MaxAttempts
          sent,         \* the messages that were accepted for delivery
          verdict       \* what the outbox says has become of each

vars == <<announced, begun, sent, verdict>>

----------------------------------------------------------------------------

Init == /\ announced = {}
        /\ begun = [m \in Messages |-> 0]
        /\ sent = {}
        /\ verdict = [m \in Messages |-> "OPEN"]

Announce(m) == /\ m \notin announced
               /\ announced' = announced \cup {m}
               /\ UNCHANGED <<begun, sent, verdict>>

\* Attempts at the messages in S begin; some of them may have had a verdict.
Begin(S) ==
    /\ S \subseteq announced
    /\ begun' = [m \in Messages |->
                    IF m \in S /\ begun[m] < MaxAttempts THEN begun[m] + 1
                                                         ELSE begun[m]]
    /\ \E R \in SUBSET S :
          verdict' = [m \in Messages |-> IF m \in R THEN "OPEN" ELSE verdict[m]]
    /\ UNCHANGED <<announced, sent>>

Send(m) == /\ begun[m] > 0
           /\ sent' = sent \cup {m}
           /\ UNCHANGED <<announced, begun, verdict>>

\* How an attempt ends on record.
Settle(m, v) ==
    /\ v = "PUBLISHED" => m \in sent
    /\ v = "DEAD" => begun[m] = MaxAttempts
    /\ verdict' = [verdict EXCEPT ![m] = v]
    /\ UNCHANGED <<announced, begun, sent>>

Next ==
    \/ \E m \in Messages :
          \/ Announce(m) \/ Send(m)
          \/ \E v \in {"OPEN", "PUBLISHED", "DEAD"} : Settle(m, v)
    \/ \E S \in SUBSET Messages : Begin(S)

Spec == Init /\ [][Next]_vars
=============================================================================
