----------------------------- MODULE BackOffice -----------------------------
(***************************************************************************)
(* The services around the ledger, served side by side: budgets, and the   *)
(* registers of accounts, dimensions, counterparties, contracts and rates. *)
(***************************************************************************)
EXTENDS Budgets, Registers

ASSUME IdsAssumption == BudgetIds \cap RowIds = {}

vars == <<req, served, budgets, lines, rows>>

Init ==
  /\ req = [r \in Requests |-> IdleRequest]
  /\ served = 0
  /\ BudgetInit
  /\ RegisterInit

Next ==
  \E r \in Requests :
    \/ BudgetStep(r) /\ UNCHANGED rows
    \/ RegisterStep(r) /\ UNCHANGED budgetVars

Spec == Init /\ [][Next]_vars

-----------------------------------------------------------------------------
(* Properties.                                                              *)

TypeOK ==
  /\ served \in 0..MaxServed
  /\ DOMAIN req = Requests
  /\ \A r \in Requests :
       req[r] = IdleRequest \/ req[r].op \in BudgetOps \cup RegisterOps
  /\ BudgetTypeOK
  /\ RegisterTypeOK

\* What was approved stays (budgets.service.ts:68-110, 181-204).
ApprovedBudgetsAreFrozen == [][\A b \in BudgetIds : ApprovedIsFrozen(b)]_vars

\* What has ended stays ended (contracts.service.ts:53-62,
\* counterparties.service.ts:88-108).
SettledRowsStay == [][\A i \in RowIds : SettledStays(i)]_vars

=============================================================================
