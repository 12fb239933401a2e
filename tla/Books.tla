-------------------------------- MODULE Books --------------------------------
(***************************************************************************)
(* The arithmetic of the ledger: decimal.util.ts, the lines that documents *)
(* and payments post, what PostingService makes of them, and the sums that *)
(* AnalyticsService and BudgetsService take over journal_lines.            *)
(*                                                                         *)
(* A decimal string is [digits, places], the number digits / 10^places; a  *)
(* money column is its number of minor units. A date range is the set of   *)
(* months it covers. Texts, contracts and projects are left out: no sum    *)
(* tells a project from a cost center.                                     *)
(***************************************************************************)
EXTENDS Integers, Sequences, FiniteSetsExt

CONSTANTS
  Accounts,
  TypeOf,      \* the type of each account
  CashAccounts,\* accounts whose isCash is true
  Dimensions   \* counterparties and cost centers; 0 stands for NULL

AccountType == {"ASSET", "LIABILITY", "EQUITY", "INCOME", "EXPENSE"}

ASSUME BooksAssumption ==
  /\ TypeOf \in [Accounts -> AccountType]
  /\ CashAccounts \subseteq Accounts
  /\ IsFiniteSet(Accounts) /\ IsFiniteSet(Dimensions)
  /\ 0 \in Dimensions

Decimal == [digits : Int, places : 0..6]

-----------------------------------------------------------------------------
(* decimal.util.ts.                                                         *)

Tens(k) == <<1, 10, 100, 1000, 10000, 100000, 1000000>>[k + 1]

\* BigInt division truncates toward zero.
Quotient(n, d) == IF n >= 0 THEN n \div d ELSE -((-n) \div d)

\* Digits beyond the wanted places are cut off, missing ones are zeros.
ToScaledUnits(v, places) ==
  IF v.places <= places THEN v.digits * Tens(places - v.places)
                        ELSE Quotient(v.digits, Tens(v.places - places))

ToMinorUnits(v) == ToScaledUnits(v, 2)

FromMinorUnits(n) == [digits |-> n, places |-> 2]

\* In minor units of the base currency.
ConvertWithRate(amount, rate) ==
  Quotient(ToMinorUnits(amount) * ToScaledUnits(rate, 6), Tens(6))

Zero == FromMinorUnits(0)

One == [digits |-> 1000000, places |-> 6]

-----------------------------------------------------------------------------
(* What is posted. A line names the account, the two amounts, the rate and  *)
(* the dimensions.                                                          *)

Line == [account : Accounts, debit : Decimal, credit : Decimal, rate : Decimal,
         counterparty : Dimensions, costCenter : Dimensions]

\* The two posting lines of each line of a document, in order.
DocumentLines(lines, rate, counterparty) ==
  [k \in 1..(2 * Len(lines)) |->
     LET line == lines[(k + 1) \div 2]
         isDebit == k % 2 = 1 IN
     [account |-> IF isDebit THEN line.debitAccount ELSE line.creditAccount,
      debit |-> IF isDebit THEN line.amount ELSE Zero,
      credit |-> IF isDebit THEN Zero ELSE line.amount,
      rate |-> rate, counterparty |-> counterparty,
      costCenter |-> line.costCenter]]

\* A payment: an outgoing one debits the counter account.
PaymentLines(outgoing, cash, counter, amount, rate, counterparty) ==
  LET Side(account, debit, credit) ==
        [account |-> account, debit |-> debit, credit |-> credit,
         rate |-> rate, counterparty |-> counterparty, costCenter |-> 0] IN
  <<Side(IF outgoing THEN counter ELSE cash, amount, Zero),
    Side(IF outgoing THEN cash ELSE counter, Zero, amount)>>

\* The other line of a debit and credit that were written together.
Partner(k) == IF k % 2 = 1 THEN k + 1 ELSE k - 1

\* The lines come in pairs: what one debits the other credits, at one rate.
InPairs(lines) ==
  \A k \in DOMAIN lines :
    /\ Partner(k) \in DOMAIN lines
    /\ lines[Partner(k)].debit = lines[k].credit
    /\ lines[Partner(k)].rate = lines[k].rate

\* sumMinorUnits of one column.
SumMinorUnits(lines, column) ==
  SumFunctionOnSet([k \in DOMAIN lines |-> ToMinorUnits(lines[k][column])], DOMAIN lines)

\* validateLines.
ValidLines(lines) ==
  /\ Len(lines) >= 2
  /\ \A k \in DOMAIN lines :
       LET debit == ToMinorUnits(lines[k].debit)
           credit == ToMinorUnits(lines[k].credit) IN
       /\ debit >= 0 /\ credit >= 0
       /\ (debit = 0) # (credit = 0)
  /\ SumMinorUnits(lines, "debit") = SumMinorUnits(lines, "credit")

\* A row of journal_lines.
Row == [account : Accounts, debit : Int, credit : Int, rate : Decimal,
        baseDebit : Int, baseCredit : Int,
        counterparty : Dimensions, costCenter : Dimensions]

\* A bug: the credit side is rounded up.
StoredRoundedUp(line) ==
  [account |-> line.account, rate |-> line.rate,
   debit |-> ToMinorUnits(line.debit), credit |-> ToMinorUnits(line.credit),
   baseDebit |-> ConvertWithRate(line.debit, line.rate),
   baseCredit |-> Quotient(ToMinorUnits(line.credit) * ToScaledUnits(line.rate, 6)
                             + Tens(6) - 1, Tens(6)),
   counterparty |-> line.counterparty, costCenter |-> line.costCenter]

Stored(line) ==
  [account |-> line.account, rate |-> line.rate,
   debit |-> ToMinorUnits(line.debit), credit |-> ToMinorUnits(line.credit),
   baseDebit |-> ConvertWithRate(line.debit, line.rate),
   baseCredit |-> ConvertWithRate(line.credit, line.rate),
   counterparty |-> line.counterparty, costCenter |-> line.costCenter]

\* A bug: the reversal is converted at today's rate.
SwappedAtTodaysRate(row) ==
  [account |-> row.account, rate |-> One,
   debit |-> FromMinorUnits(row.credit), credit |-> FromMinorUnits(row.debit),
   counterparty |-> row.counterparty, costCenter |-> row.costCenter]

\* The reversal of a row, as it is posted again.
Swapped(row) ==
  [account |-> row.account, rate |-> row.rate,
   debit |-> FromMinorUnits(row.credit), credit |-> FromMinorUnits(row.debit),
   counterparty |-> row.counterparty, costCenter |-> row.costCenter]

\* CHK_journal_lines_debit_xor_credit.
CheckDebitXorCredit(row) ==
  row.debit >= 0 /\ row.credit >= 0 /\ ~(row.debit > 0 /\ row.credit > 0)

\* SUM(<column>) over the rows of one entry.
SumOf(column, rows) ==
  SumFunctionOnSet([k \in DOMAIN rows |-> rows[k][column]], DOMAIN rows)

\* check_journal_entry_balance, at the commit.
CheckEntryBalance(rows) == SumOf("debit", rows) = SumOf("credit", rows)

-----------------------------------------------------------------------------
(* Sums over the journal: a sequence of entries with their month and lines. *)

\* The rows of the entries of some months, as pairs of positions.
RowsOf(journal, months) ==
  UNION {{i} \X DOMAIN journal[i].lines :
           i \in {j \in DOMAIN journal : journal[j].month \in months}}

RowAt(journal, p) == journal[p[1]].lines[p[2]]

\* COALESCE(SUM(l.<column>), 0).
Total(journal, column, rows) ==
  SumFunctionOnSet([p \in rows |-> RowAt(journal, p)[column]], rows)

IsDebitNormal(type) == type \in {"ASSET", "EXPENSE"}

\* trialBalance; accountBalances is the same over all months up to a date.
TrialBalance(journal, months) ==
  [a \in Accounts |->
     LET rows == {p \in RowsOf(journal, months) : RowAt(journal, p).account = a}
         debit == Total(journal, "debit", rows)
         credit == Total(journal, "credit", rows) IN
     [debit |-> debit, credit |-> credit,
      balance |-> IF TypeOf[a] = "ASSET" \/ TypeOf[a] = "EXPENSE"
                    THEN debit - credit ELSE credit - debit]]

RowsOfType(journal, months, type) ==
  {p \in RowsOf(journal, months) : TypeOf[RowAt(journal, p).account] = type}

\* What counting only the debits of the expenses would be.
ProfitAndLossGross(journal, months) ==
  LET income == RowsOfType(journal, months, "INCOME")
      expense == RowsOfType(journal, months, "EXPENSE") IN
  [totalIncome |-> Total(journal, "credit", income)
                     - Total(journal, "debit", income),
   totalExpense |-> Total(journal, "debit", expense)]

ProfitAndLoss(journal, months) ==
  LET income == RowsOfType(journal, months, "INCOME")
      expense == RowsOfType(journal, months, "EXPENSE") IN
  [totalIncome |-> Total(journal, "credit", income)
                     - Total(journal, "debit", income),
   totalExpense |-> Total(journal, "debit", expense)
                      - Total(journal, "credit", expense)]

NetProfit(journal, months) ==
  ProfitAndLoss(journal, months).totalIncome
    - ProfitAndLoss(journal, months).totalExpense

CashFlow(journal, months) ==
  LET rows == {p \in RowsOf(journal, months) :
                 RowAt(journal, p).account \in CashAccounts} IN
  [totalInflow |-> Total(journal, "debit", rows),
   totalOutflow |-> Total(journal, "credit", rows),
   netCashFlow |-> Total(journal, "debit", rows) - Total(journal, "credit", rows)]

\* The balance of one group, a counterparty and an account.
CounterpartyBalance(journal, months, counterparty, a) ==
  LET rows == {p \in RowsOf(journal, months) :
                 /\ RowAt(journal, p).counterparty = counterparty
                 /\ RowAt(journal, p).account = a} IN
  Total(journal, "debit", rows) - Total(journal, "credit", rows)

\* The actual amount of a budget line: of one cost center, or of all those of a
\* department, or, when the line names none, of all rows.
ActualForLine(journal, month, a, costCenters) ==
  LET rows == {p \in RowsOf(journal, {month}) :
                 /\ RowAt(journal, p).account = a
                 /\ RowAt(journal, p).costCenter \in costCenters}
      debit == Total(journal, "debit", rows)
      credit == Total(journal, "credit", rows) IN
  IF IsDebitNormal(TypeOf[a]) THEN debit - credit ELSE credit - debit

\* A line of getExecution, its planned amount in minor units.
Execution(journal, month, line) ==
  LET actual == ActualForLine(journal, month, line.account, line.costCenters) IN
  [planned |-> line.planned, actual |-> actual,
   deviation |-> actual - line.planned]

-----------------------------------------------------------------------------
(* What the sums have to do with one another, when every entry balances.    *)

\* A column of the trial balance, summed over some accounts.
SumOfAccounts(journal, months, column, accounts) ==
  LET balances == TrialBalance(journal, months) IN
  SumFunctionOnSet([a \in accounts |-> balances[a][column]], accounts)

BalanceOfType(journal, months, type) ==
  SumOfAccounts(journal, months, "balance", {a \in Accounts : TypeOf[a] = type})

\* The debits of the trial balance are its credits.
TrialBalanceBalances(journal, months) ==
  SumOfAccounts(journal, months, "debit", Accounts)
    = SumOfAccounts(journal, months, "credit", Accounts)

\* The net profit is what the assets gained over the liabilities and the equity.
ProfitIsGain(journal, months) ==
  NetProfit(journal, months)
    = BalanceOfType(journal, months, "ASSET") - BalanceOfType(journal, months, "LIABILITY")
        - BalanceOfType(journal, months, "EQUITY")

\* The cash flow is what the cash accounts took in and gave out.
CashFlowIsCash(journal, months) ==
  CashFlow(journal, months).netCashFlow
    = SumOfAccounts(journal, months, "debit", CashAccounts)
        - SumOfAccounts(journal, months, "credit", CashAccounts)

\* The counterparties, and the rows without one, make up each account.
CounterpartiesMakeAccount(journal, months) ==
  \A a \in Accounts :
    LET balance == TrialBalance(journal, months)[a] IN
    balance.debit - balance.credit
      = SumFunctionOnSet([c \in Dimensions |->
          CounterpartyBalance(journal, months, c, a)], Dimensions)

\* The actual amount of a budget line is the balance of its account, and so are
\* its cost centers together.
ActualIsBalance(journal, m) ==
  \A a \in Accounts :
    LET Of(centers) == Execution(journal, m,
                         [account |-> a, costCenters |-> centers, planned |-> 0])
        balance == TrialBalance(journal, {m})[a].balance IN
    /\ Of(Dimensions).deviation = balance
    /\ SumFunctionOnSet([c \in Dimensions |-> Of({c}).actual], Dimensions) = balance

\* Two entries leave nothing of each other, on any account and for any counterparty
\* and cost center, in either currency.
Cancel(original, reversal) ==
  LET pair == <<original, reversal>>
      places == {<<1, k>> : k \in DOMAIN original.lines}
                  \cup {<<2, k>> : k \in DOMAIN reversal.lines}
      Alike(p) == {q \in places :
                     /\ RowAt(pair, q).account = RowAt(pair, p).account
                     /\ RowAt(pair, q).counterparty = RowAt(pair, p).counterparty
                     /\ RowAt(pair, q).costCenter = RowAt(pair, p).costCenter} IN
  \A p \in places :
    /\ Total(pair, "debit", Alike(p)) = Total(pair, "credit", Alike(p))
    /\ Total(pair, "baseDebit", Alike(p)) = Total(pair, "baseCredit", Alike(p))

=============================================================================
