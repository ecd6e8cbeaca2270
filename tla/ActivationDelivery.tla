-------------------------- MODULE ActivationDelivery --------------------------
(***************************************************************************)
(* What the two contexts together promise about an activated tenancy,      *)
(* whatever relays, queues and consumers go through in between: its news   *)
(* travels only after the activation, in a bounded number of copies; the   *)
(* tenant gets access on the strength of a copy, one tenancy at a time,    *)
(* once, and keeps it.                                                     *)
(***************************************************************************)
EXTENDS Naturals

CONSTANTS Tenancies,   \* the tenancies that may be activated
          MaxCopies    \* how many copies of the news there may be

VARIABLES activated,   \* the tenancies whose activation is on record
          copies,      \* how many copies of the news were put out
          granted      \* the tenancies whose tenant may report repairs

vars == <<activated, copies, granted>>

----------------------------------------------------------------------------

Init == /\ activated = {}
        /\ copies = [t \in Tenancies |-> 0]
        /\ granted = {}

Activate(t) == /\ t \notin activated
               /\ activated' = activated \cup {t}
               /\ UNCHANGED <<copies, granted>>

Deliver(t) == /\ t \in activated
              /\ copies[t] < MaxCopies
              /\ copies' = [copies EXCEPT ![t] = @ + 1]
              /\ UNCHANGED <<activated, granted>>

Grant(t) == /\ copies[t] > 0
            /\ t \notin granted
            /\ granted' = granted \cup {t}
            /\ UNCHANGED <<activated, copies>>

Next == \E t \in Tenancies : Activate(t) \/ Deliver(t) \/ Grant(t)

Spec == Init /\ [][Next]_vars
=============================================================================
