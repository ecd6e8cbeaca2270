-------------------------- MODULE MCTenancyCommands --------------------------
(* Small instances of TenancyCommands for TLC. *)
EXTENDS TenancyCommands, TLC

\* Requests are interchangeable; so are the other identifiers.
Symmetry == Permutations(Requests) \cup Permutations(Invitations)
                \cup Permutations(Tenancies) \cup Permutations(Units)
=============================================================================
