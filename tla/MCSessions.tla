----------------------------- MODULE MCSessions ------------------------------
(***************************************************************************)
(* Instances of Sessions for TLC.                                          *)
(***************************************************************************)
EXTENDS Sessions, TLC

\* Requests are interchangeable.
Symmetry == Permutations(Requests)

=============================================================================
