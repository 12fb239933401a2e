------------------------------- MODULE Journal -------------------------------
(***************************************************************************)
(* What a journal of double entries promises: entries are only ever added, *)
(* each of them balances, and the one thing that happens to an entry later *)
(* is that it is reversed: once, and by an entry of the same source that   *)
(* is no reversal's reversal and gives back what it took, row by row.      *)
(***************************************************************************)
EXTENDS Naturals, Sequences

CONSTANT Balanced  \* the rows that an entry may have: sequences of rows

VARIABLE entries

Init == entries = <<>>

\* A row that gives back what another took, in either currency.
MirrorsRow(row, original) ==
  /\ row.account = original.account /\ row.counterparty = original.counterparty
  /\ row.costCenter = original.costCenter
  /\ row.debit = original.credit /\ row.credit = original.debit
  /\ row.baseDebit = original.baseCredit /\ row.baseCredit = original.baseDebit

Mirrors(rows, original) ==
  /\ DOMAIN rows = DOMAIN original
  /\ \A k \in DOMAIN rows : MirrorsRow(rows[k], original[k])

\* The journal becomes old with one more entry, the reversal of entry i or of none.
Adds(old, i) ==
  LET new == entries'[Len(entries')] IN
  /\ Len(entries') = Len(entries) + 1
  /\ entries' = Append(old, new)
  /\ new.lines \in Balanced
  /\ new.status = "POSTED"
  /\ new.reverses = i

Post == Adds(entries, 0)

Reverse(i) ==
  LET reversal == entries'[Len(entries')] IN
  /\ entries[i].status = "POSTED" /\ entries[i].reverses = 0
  /\ Adds([entries EXCEPT ![i].status = "REVERSED"], i)
  /\ reversal.source = entries[i].source
  /\ Mirrors(reversal.lines, entries[i].lines)

Next == Post \/ \E i \in DOMAIN entries : Reverse(i)

Spec == Init /\ [][Next]_entries

=============================================================================
