---------------------------- MODULE MCBackOffice ----------------------------
(***************************************************************************)
(* Instances of BackOffice for TLC.                                        *)
(***************************************************************************)
EXTENDS BackOffice, TLC

\* No action or property tells two values of one of these sets apart.
Symmetry ==
  UNION {Permutations(S) :
           S \in {Requests, Keys, Rates, Periods, LineSets, Approvers}}

=============================================================================
