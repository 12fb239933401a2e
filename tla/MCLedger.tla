------------------------------ MODULE MCLedger ------------------------------
(***************************************************************************)
(* Instances of Ledger for TLC.                                            *)
(***************************************************************************)
EXTENDS Ledger, TLC

CONSTANTS cash, sales, rent

Types == [a \in {cash, sales, rent} |->
            CASE a = cash -> "ASSET" [] a = sales -> "INCOME" [] a = rent -> "EXPENSE"]

Cash == {cash}

\* 0.3 of the base currency: 0.01, 0.02 and 0.03 are nothing in it.
Rate == [digits |-> 3, places |-> 1]

\* With counterparty 1: sales of 1.01, and rent of 0.5 for cost center 1.
Document ==
  DocumentLines(
    <<[debitAccount |-> cash, creditAccount |-> sales, costCenter |-> 0,
       amount |-> [digits |-> 101, places |-> 2]],
      [debitAccount |-> rent, creditAccount |-> cash, costCenter |-> 1,
       amount |-> [digits |-> 5, places |-> 1]]>>, Rate, 1)

\* A payment of 0 passes the checks of its request, not those of the posting.
ZeroPayment == PaymentLines(TRUE, cash, rent, [digits |-> 0, places |-> 0], Rate, 0)

Posted == {Document, ZeroPayment}

\* Requests are interchangeable, and so are users.
Symmetry == Permutations(Requests) \cup Permutations(Users)

=============================================================================
