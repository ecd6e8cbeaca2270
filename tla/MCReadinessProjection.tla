------------------------ MODULE MCReadinessProjection ------------------------
(* Small instances of ReadinessProjection for TLC. *)
EXTENDS ReadinessProjection, TLC

Symmetry == Permutations(Requests) \cup Permutations(Handlers)
                \cup Permutations(Consumers) \cup Permutations(Units)
=============================================================================
