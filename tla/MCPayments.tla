----------------------------- MODULE MCPayments ------------------------------
(***************************************************************************)
(* Instances of Payments for TLC.                                          *)
(***************************************************************************)
EXTENDS Payments, TLC

\* Requests, accounts and idempotency keys are interchangeable.
Symmetry == Permutations(Requests) \cup Permutations(Accounts)
              \cup Permutations(Keys)

=============================================================================
