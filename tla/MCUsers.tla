------------------------------- MODULE MCUsers -------------------------------
(***************************************************************************)
(* Instances of Users for TLC.                                             *)
(***************************************************************************)
EXTENDS Users, TLC

CONSTANTS a1, a2, u1

Everybody == {a1, a2, u1}

TheAdmins == {a1, a2}

\* Requests are interchangeable, and so are administrators.
Symmetry == Permutations(Requests) \cup Permutations(TheAdmins)

=============================================================================
