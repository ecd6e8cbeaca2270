-------------------------- MODULE OccupancyCalendar --------------------------
(***************************************************************************)
(* What the tenancy context promises about a rental unit, whatever happens *)
(* to requests, processes and messages: "a rental unit can have only one   *)
(* active or reserved tenancy for any given time period" (ADR-004).        *)
(*                                                                         *)
(* The calendar holds, for each tenancy identifier, the stay it occupies   *)
(* or none.  A step rewrites the entry of one tenancy, and may write only  *)
(* a stay that collides with nobody else's.                                *)
(***************************************************************************)
EXTENDS Naturals

CONSTANTS Tenancies,   \* identifiers of tenancies
          Units,       \* identifiers of rental units
          Days,        \* the instants a stay may start or end at
          None         \* "no stay"

VARIABLE booked        \* booked[t]: the stay tenancy t occupies, or None

Stays == {s \in [unit: Units, from: Days, to: Days] : s.from <= s.to}

\* Both ends of a stay belong to it.
Collide(s1, s2) == /\ s1.unit = s2.unit
                   /\ s1.from <= s2.to
                   /\ s2.from <= s1.to

FreeFor(t, s) == \A o \in Tenancies \ {t} :
                    booked[o] # None => ~Collide(booked[o], s)

----------------------------------------------------------------------------

Init == booked = [t \in Tenancies |-> None]

Occupy(t, s) == /\ FreeFor(t, s)
                /\ booked' = [booked EXCEPT ![t] = s]

Vacate(t) == booked' = [booked EXCEPT ![t] = None]

Next == \E t \in Tenancies : Vacate(t) \/ \E s \in Stays : Occupy(t, s)

Spec == Init /\ [][Next]_booked
=============================================================================
