---------------------------- MODULE MCAuthCommands ----------------------------
(* Small instances of AuthCommands for TLC. *)
EXTENDS AuthCommands, TLC

\* Requests are interchangeable, and so are users.
Symmetry == Permutations(Requests) \cup Permutations(Users)
=============================================================================
