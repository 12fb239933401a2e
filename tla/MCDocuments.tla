----------------------------- MODULE MCDocuments -----------------------------
(***************************************************************************)
(* Instances of Documents for TLC.                                         *)
(***************************************************************************)
EXTENDS Documents, TLC

\* Requests, document ids, contents of the editable columns and users are
\* interchangeable.
Symmetry == Permutations(Requests) \cup Permutations(DocIds)
              \cup Permutations(Headers) \cup Permutations(Users)

=============================================================================
