---------------------------- MODULE PaymentsProofs ---------------------------
(***************************************************************************)
(* Theorems about Payments, for any number of requests, expense requests,  *)
(* keys and accounts, and any bounds.                                      *)
(*                                                                         *)
(* The invariant says of every request's record what the statements it has *)
(* executed have established: its shape, the state of its key in the       *)
(* unique index, and the row it has locked.                                *)
(***************************************************************************)
EXTENDS Payments, FiniteSetTheorems, SequenceTheorems, TLAPS

Shape(q) ==
  /\ q.pc \in {"load", "write", "locked", "read", "paying"} => q.expense \in ExpenseIds
  /\ q.pc \in {"load", "write", "locked", "paying"} => q.mem \in Expense
  /\ q.pc \in {"load", "write"} => q.mem.status = "DRAFT"
  /\ q.pc \in {"read", "insert", "inserted", "paying", "lost", "answer"} => q.key \in Keys
  /\ q.expense # Null => expenses[q.expense] # Null

Inserted(q) == q.pc \in {"inserted", "paying"}

KeyGood(r, q) ==
  /\ Inserted(q) => KeyFree(r, q.key) /\ ~KeyTaken(q.key)
  /\ q.pc = "lost" => KeyTaken(q.key)
  /\ q.pc = "answer" => /\ q.payment \in 1..Len(payments)
                        /\ payments[q.payment].key = q.key

Locks(q) == q.pc \in {"locked", "paying"}

\* No other request has the row of e locked.
LockFree(r, e) ==
  \A s \in Requests \ {r} : Locks(req[s]) => req[s].expense # e

LockGood(r, q) ==
  /\ Locks(q) => q.mem = expenses[q.expense] /\ LockFree(r, q.expense)
  /\ q.pc = "locked" => q.next \in Allowed(q.mem.status)
  /\ q.pc = "paying" => q.mem.status = "APPROVED"

Good(r, q) == Shape(q) /\ KeyGood(r, q) /\ LockGood(r, q)

Inv == TypeOK /\ \A r \in Requests : Good(r, req[r])

-----------------------------------------------------------------------------
(* The initial state, and steps of one request that write no table.         *)

LEMMA IdleRequestGood ==
  ASSUME NEW r \in Requests
  PROVE  IdleRequest \in Request /\ Good(r, IdleRequest)
  BY DEF IdleRequest, Request, PCs, Targets, Good, Shape, KeyGood, LockGood,
         Inserted, Locks

LEMMA InvInit == Init => Inv
  <1> SUFFICES ASSUME Init PROVE Inv
    OBVIOUS
  <1>1. \A r \in Requests : req[r] = IdleRequest
    BY DEF Init
  <1>2. TypeOK
    BY IdleRequestGood DEF Init, TypeOK
  <1> QED BY <1>1, <1>2, IdleRequestGood DEF Inv

\* A request gets a record that is good; nothing else changes.
LEMMA RequestStep ==
  ASSUME Inv, NEW r \in Requests, NEW q \in Request, Good(r, q),
         req' = [req EXCEPT ![r] = q],
         UNCHANGED <<expenses, approvals, payments, answers>>
  PROVE  Inv'
  <1>1. req \in [Requests -> Request] /\ req'[r] = q
        /\ \A s \in Requests \ {r} : req'[s] = req[s]
    BY DEF Inv, TypeOK
  <1>2. TypeOK'
    BY <1>1 DEF Inv, TypeOK
  <1>3. ASSUME NEW s \in Requests PROVE Good(s, req[s])'
    <2>1. Good(s, req'[s])
      BY <1>1 DEF Inv
    <2>2. Shape(req[s])'
      BY <2>1 DEF Good, Shape
    <2>3. ASSUME Inserted(req'[s]) PROVE KeyFree(s, req[s].key)'
      BY <1>1, <2>1, <2>3 DEF Good, KeyGood, KeyFree, Inserted
    <2>4. KeyGood(s, req[s])'
      BY <2>1, <2>3 DEF Good, KeyGood, KeyTaken, Inserted
    <2>5. ASSUME Locks(req'[s]) PROVE LockFree(s, req[s].expense)'
      BY <1>1, <2>1, <2>5 DEF Good, LockGood, LockFree, Locks
    <2>6. LockGood(s, req[s])'
      BY <2>1, <2>5 DEF Good, LockGood, Locks
    <2> QED BY <2>2, <2>4, <2>6 DEF Good
  <1> QED BY <1>2, <1>3 DEF Inv

\* A request that has no key, no lock and no expense request to remember.
LEMMA FinishStep ==
  ASSUME Inv, NEW r \in Requests, Finish(r),
         UNCHANGED <<expenses, approvals, payments, answers>>
  PROVE  Inv'
  BY IdleRequestGood, RequestStep DEF Finish

\* Whoever may lock or write a row finds nobody else has it locked.
LEMMA FreeLock ==
  ASSUME NEW r \in Requests, NEW e \in ExpenseIds,
         MayLock(r, e, "UPDATE") \/ MayLock(r, e, "NO KEY UPDATE")
  PROVE  LockFree(r, e)
  <1> SUFFICES ASSUME NEW s \in Requests \ {r}, Locks(req[s]), req[s].expense = e
               PROVE  FALSE
    BY DEF LockFree
  <1>1. "UPDATE" \in HeldModes(s, e)
    BY DEF HeldModes, LockModes, Locks, RowLock
  <1>2. "UPDATE" \in WaitsFor("UPDATE") /\ "UPDATE" \in WaitsFor("NO KEY UPDATE")
    BY DEF WaitsFor
  <1> QED BY <1>1, <1>2 DEF MayLock

-----------------------------------------------------------------------------
(* The steps of a request before it commits.                                *)

\* What the invariant says of a request's record.
LEMMA RecordType ==
  ASSUME Inv, NEW r \in Requests
  PROVE  /\ req[r] \in Request /\ Good(r, req[r])
         /\ req \in [Requests -> Request]
         /\ req[r].expense \in ExpenseIds => expenses[req[r].expense] \in Expense
  <1>1. req[r] \in Request /\ Good(r, req[r]) /\ req \in [Requests -> Request]
    BY DEF Inv, TypeOK
  <1>2. ASSUME req[r].expense \in ExpenseIds
        PROVE  expenses[req[r].expense] \in Expense
    <2>1. expenses[req[r].expense] # Null
      BY <1>1, <1>2, NullAssumption DEF Good, Shape
    <2> QED BY <1>2, <2>1 DEF Inv, TypeOK
  <1> QED BY <1>1, <1>2

LEMMA UpdateReadInv ==
  ASSUME Inv, NEW r \in Requests, NEW e \in ExpenseIds, NEW a \in Accounts,
         UpdateRead(r, e, a)
  PROVE  Inv'
  <1> DEFINE row == [expenses[e] EXCEPT !.status = "DRAFT", !.account = a]
             q == [IdleRequest EXCEPT !.pc = "load", !.expense = e, !.mem = row]
  <1>1. expenses[e] \in Expense /\ expenses[e] # Null
    BY DEF UpdateRead, Inv, TypeOK
  <1>2. row \in Expense
    BY <1>1 DEF Expense, Status
  <1>3. q \in Request /\ q.pc = "load" /\ q.expense = e /\ q.mem = row
    BY <1>2, IdleRequestGood DEF Request, IdleRequest, PCs
  <1>4. Good(r, q)
    <2> HIDE DEF q
    <2> QED BY <1>1, <1>2, <1>3 DEF Good, Shape, KeyGood, LockGood, Inserted, Locks
  <1>5. req' = [req EXCEPT ![r] = q]
    BY DEF UpdateRead, Start
  <1> QED BY <1>3, <1>4, <1>5, RequestStep DEF UpdateRead

LEMMA UpdateLoadInv ==
  ASSUME Inv, NEW r \in Requests, UpdateLoad(r)
  PROVE  Inv'
  <1> DEFINE diff == {c \in Columns : req[r].mem[c] # expenses[req[r].expense][c]}
             q == [req[r] EXCEPT !.pc = "write", !.diff = diff]
  <1>1. req[r] \in Request /\ Good(r, req[r]) /\ req[r].pc = "load"
    BY RecordType DEF UpdateLoad
  <1>2. /\ q \in Request /\ q.pc = "write" /\ q.expense = req[r].expense
        /\ q.mem = req[r].mem
    BY <1>1 DEF Request, PCs
  <1>3. Good(r, q)
    <2> HIDE DEF q
    <2> QED BY <1>1, <1>2 DEF Good, Shape, KeyGood, LockGood, Inserted, Locks
  <1>4. req' = [req EXCEPT ![r] = q]
    BY DEF UpdateLoad
  <1> QED BY <1>2, <1>3, <1>4, RequestStep DEF UpdateLoad

LEMMA LockExpenseInv ==
  ASSUME Inv, NEW r \in Requests, NEW e \in ExpenseIds, NEW next \in Targets,
         LockExpense(r, e, next)
  PROVE  Inv'
  <1> DEFINE q == [IdleRequest EXCEPT !.pc = "locked", !.expense = e, !.next = next,
                                      !.mem = expenses[e]]
  <1>1. /\ expenses[e] \in Expense /\ expenses[e] # Null
        /\ next \in Allowed(expenses[e].status) /\ LockFree(r, e)
    BY FreeLock DEF LockExpense, RowLock, Inv, TypeOK
  <1>2. /\ q \in Request /\ q.pc = "locked" /\ q.expense = e
        /\ q.mem = expenses[e] /\ q.next = next
    BY <1>1, IdleRequestGood DEF Request, IdleRequest, PCs
  <1>3. Good(r, q)
    <2> HIDE DEF q
    <2> QED BY <1>1, <1>2 DEF Good, Shape, KeyGood, LockGood, Inserted, Locks
  <1>4. req' = [req EXCEPT ![r] = q]
    BY DEF LockExpense, Start
  <1> QED BY <1>2, <1>3, <1>4, RequestStep DEF LockExpense

\* The position of a key that the index has.
LEMMA PaymentOfKey ==
  ASSUME NEW k, TypeOK, KeyTaken(k)
  PROVE  PaymentOf(k) \in 1..Len(payments) /\ payments[PaymentOf(k)].key = k
  <1>1. DOMAIN payments = 1..Len(payments)
    BY DEF TypeOK
  <1> QED BY <1>1 DEF KeyTaken, PaymentOf

LEMMA AskInv ==
  ASSUME Inv, NEW r \in Requests, NEW k \in Keys, NEW e \in ExpenseIds \cup {Null},
         Ask(r, k, e)
  PROVE  Inv'
  <1> DEFINE call == [IdleRequest EXCEPT !.key = k, !.expense = e]
             answer == [call EXCEPT !.pc = "answer", !.payment = PaymentOf(k)]
             begin == [call EXCEPT !.pc = IF e = Null THEN "insert" ELSE "read"]
  <1>1. e # Null => expenses[e] # Null
    BY DEF Ask
  <1>2. CASE KeyTaken(k)
    <2>1. PaymentOf(k) \in 1..Len(payments) /\ payments[PaymentOf(k)].key = k
      BY <1>2, PaymentOfKey DEF Inv
    <2>2. PaymentOf(k) \in Nat
      BY <2>1 DEF Inv, TypeOK
    <2>3. /\ answer \in Request /\ answer.pc = "answer" /\ answer.expense = e
          /\ answer.key = k /\ answer.payment = PaymentOf(k)
      BY <2>2, IdleRequestGood DEF Request, IdleRequest, PCs
    <2>4. Good(r, answer)
      <3> HIDE DEF answer
      <3> QED BY <1>1, <2>1, <2>3 DEF Good, Shape, KeyGood, LockGood, Inserted, Locks
    <2>5. req' = [req EXCEPT ![r] = answer]
      BY <1>2 DEF Ask, Start
    <2> QED BY <2>3, <2>4, <2>5, RequestStep DEF Ask
  <1>3. CASE ~KeyTaken(k)
    <2>1. /\ begin \in Request /\ begin.expense = e /\ begin.key = k
          /\ begin.pc = IF e = Null THEN "insert" ELSE "read"
      BY IdleRequestGood DEF Request, IdleRequest, PCs
    <2>2. Good(r, begin)
      <3> HIDE DEF begin
      <3> QED BY <1>1, <2>1 DEF Good, Shape, KeyGood, LockGood, Inserted, Locks
    <2>3. req' = [req EXCEPT ![r] = begin]
      BY <1>3 DEF Ask, Start
    <2> QED BY <2>1, <2>2, <2>3, RequestStep DEF Ask
  <1> QED BY <1>2, <1>3

LEMMA ReadExpenseInv ==
  ASSUME Inv, NEW r \in Requests, ReadExpense(r)
  PROVE  Inv'
  <1> DEFINE q == [req[r] EXCEPT !.pc = "insert", !.account = expenses[req[r].expense].account]
  <1>1. /\ req[r] \in Request /\ Good(r, req[r]) /\ req[r].pc = "read"
        /\ expenses[req[r].expense] \in Expense
    BY RecordType DEF ReadExpense, Good, Shape
  <1>2. expenses[req[r].expense].account \in Accounts
    BY <1>1 DEF Expense
  <1>3. /\ q \in Request /\ q.pc = "insert" /\ q.expense = req[r].expense
        /\ q.key = req[r].key
    BY <1>1, <1>2 DEF Request, PCs
  <1>4. Good(r, q)
    <2> HIDE DEF q
    <2> QED BY <1>1, <1>3 DEF Good, Shape, KeyGood, LockGood, Inserted, Locks
  <1>5. req' = [req EXCEPT ![r] = q]
    BY DEF ReadExpense
  <1> QED BY <1>3, <1>4, <1>5, RequestStep DEF ReadExpense

LEMMA InsertInv ==
  ASSUME Inv, NEW r \in Requests, InsertPayment(r) \/ InsertFails(r)
  PROVE  Inv'
  <1>1. ASSUME NEW pc \in {"inserted", "lost"}, Step(r, pc), req[r].pc = "insert",
               KeyFree(r, req[r].key), KeyTaken(req[r].key) <=> pc = "lost",
               UNCHANGED <<expenses, approvals, payments, answers>>
        PROVE  Inv'
    <2> DEFINE q == [req[r] EXCEPT !.pc = pc]
    <2>1. req[r] \in Request /\ Good(r, req[r])
      BY RecordType
    <2>2. /\ q \in Request /\ q.pc = pc /\ q.expense = req[r].expense
          /\ q.key = req[r].key
      BY <2>1 DEF Request, PCs
    <2>3. Good(r, q)
      <3> HIDE DEF q
      <3> QED BY <1>1, <2>1, <2>2 DEF Good, Shape, KeyGood, LockGood, Inserted, Locks
    <2>4. req' = [req EXCEPT ![r] = q]
      BY <1>1 DEF Step
    <2> QED BY <1>1, <2>2, <2>3, <2>4, RequestStep
  <1>2. CASE InsertPayment(r)
    BY <1>1, <1>2 DEF InsertPayment
  <1>3. CASE InsertFails(r)
    BY <1>1, <1>3 DEF InsertFails
  <1> QED BY <1>2, <1>3

LEMMA FindWinnerInv ==
  ASSUME Inv, NEW r \in Requests, FindWinner(r)
  PROVE  Inv'
  <1> DEFINE n == PaymentOf(req[r].key)
             q == [req[r] EXCEPT !.pc = "answer", !.payment = n]
  <1>1. req[r] \in Request /\ Good(r, req[r]) /\ req[r].pc = "lost"
    BY RecordType DEF FindWinner
  <1>2. n \in 1..Len(payments) /\ payments[n].key = req[r].key
    BY <1>1, PaymentOfKey DEF Inv, Good, KeyGood
  <1>3. n \in Nat
    BY <1>2 DEF Inv, TypeOK
  <1>4. /\ q \in Request /\ q.pc = "answer" /\ q.expense = req[r].expense
        /\ q.key = req[r].key /\ q.payment = n
    BY <1>1, <1>3 DEF Request, PCs
  <1>5. Good(r, q)
    <2> HIDE DEF q, n
    <2> QED BY <1>1, <1>2, <1>4 DEF Good, Shape, KeyGood, LockGood, Inserted, Locks
  <1>6. req' = [req EXCEPT ![r] = q]
    BY DEF FindWinner
  <1> QED BY <1>4, <1>5, <1>6, RequestStep DEF FindWinner

LEMMA LockPaidInv ==
  ASSUME Inv, NEW r \in Requests, LockPaid(r)
  PROVE  Inv'
  <1> DEFINE e == req[r].expense
             q == [req[r] EXCEPT !.pc = "paying", !.mem = expenses[e]]
  <1>1. /\ req[r] \in Request /\ Good(r, req[r]) /\ req[r].pc = "inserted"
        /\ e \in ExpenseIds /\ expenses[e] \in Expense
    <2>1. req[r].expense \in ExpenseIds \cup {Null}
      BY RecordType DEF Request
    <2> QED BY <2>1, RecordType DEF LockPaid
  <1>2. LockFree(r, e)
    BY <1>1, FreeLock DEF LockPaid, RowLock
  <1>3. CASE expenses[e].status = "APPROVED"
    <2>1. /\ q \in Request /\ q.pc = "paying" /\ q.expense = e
          /\ q.key = req[r].key /\ q.mem = expenses[e]
      BY <1>1 DEF Request, PCs
    <2>2. Good(r, q)
      <3> HIDE DEF q
      <3> QED BY <1>1, <1>2, <1>3, <2>1 DEF Good, Shape, KeyGood, LockGood, Inserted, Locks
    <2>3. req' = [req EXCEPT ![r] = q]
      BY <1>3 DEF LockPaid
    <2> QED BY <2>1, <2>2, <2>3, RequestStep DEF LockPaid
  <1>4. CASE expenses[e].status # "APPROVED"
    BY <1>4, FinishStep DEF LockPaid
  <1> QED BY <1>3, <1>4

-----------------------------------------------------------------------------
(* The steps that write a table.                                            *)

\* A row of expense_requests that nobody else has locked, or an unchanged one,
\* is written, and the request that wrote it ends.
LEMMA WriteExpense ==
  ASSUME Inv, NEW r \in Requests, NEW e \in ExpenseIds, NEW row \in Expense,
         expenses[e] # Null, row = expenses[e] \/ LockFree(r, e),
         expenses' = [expenses EXCEPT ![e] = row], Finish(r),
         approvals' \in [ExpenseIds -> Nat], UNCHANGED <<payments, answers>>
  PROVE  Inv'
  <1>1. /\ req \in [Requests -> Request] /\ req'[r] = IdleRequest
        /\ \A s \in Requests \ {r} : req'[s] = req[s]
    BY DEF Inv, TypeOK, Finish
  <1>2. row # Null
    BY NullAssumption
  <1>3. TypeOK'
    BY <1>1, IdleRequestGood DEF Inv, TypeOK, Finish
  <1>4. /\ expenses'[e] = row
        /\ \A x \in ExpenseIds \ {e} : expenses'[x] = expenses[x]
    BY DEF Inv, TypeOK
  <1>5. ASSUME NEW s \in Requests \ {r} PROVE Good(s, req[s])'
    <2>1. Good(s, req[s]) /\ req'[s] = req[s] /\ req[s].expense \in ExpenseIds \cup {Null}
      BY <1>1, RecordType DEF Request
    <2>2. Shape(req[s])'
      BY <1>2, <1>4, <2>1 DEF Good, Shape
    <2>3. ASSUME Inserted(req[s]) PROVE KeyFree(s, req[s].key)'
      BY <1>1, <2>1, <2>3 DEF Good, KeyGood, KeyFree, Inserted, IdleRequest
    <2>4. KeyGood(s, req[s])'
      BY <2>1, <2>3 DEF Good, KeyGood, KeyTaken, Inserted
    <2>5. ASSUME Locks(req[s]) PROVE LockFree(s, req[s].expense)'
      BY <1>1, <2>1, <2>5 DEF Good, LockGood, LockFree, Locks, IdleRequest
    <2>6. ASSUME Locks(req[s]) PROVE expenses'[req[s].expense] = expenses[req[s].expense]
      BY <1>4, <2>1, <2>6 DEF LockFree, Good, Shape, Locks
    <2>7. LockGood(s, req[s])'
      BY <2>1, <2>5, <2>6 DEF Good, LockGood, Locks
    <2> QED BY <2>2, <2>4, <2>7 DEF Good
  <1>6. Good(r, req[r])'
    BY <1>1 DEF IdleRequest, Good, Shape, KeyGood, LockGood, Inserted, Locks
  <1> QED BY <1>3, <1>5, <1>6 DEF Inv

\* What save() leaves of an entity in memory and the row it finds.
LEMMA SavedRow ==
  ASSUME NEW mem \in Expense, NEW row \in Expense, NEW diff
  PROVE  /\ Saved(mem, diff, row) \in Expense
         /\ Saved(mem, diff, row).status \in {mem.status, row.status}
         /\ diff = {} => Saved(mem, diff, row) = row
  BY DEF Saved, Expense

LEMMA UpdateCommitInv ==
  ASSUME Inv, NEW r \in Requests, UpdateCommit(r)
  PROVE  Inv'
  <1> DEFINE e == req[r].expense
             row == Saved(req[r].mem, req[r].diff, expenses[e])
  <1>1. /\ e \in ExpenseIds /\ expenses[e] \in Expense /\ req[r].mem \in Expense
    BY RecordType DEF UpdateCommit, Good, Shape
  <1>2. row \in Expense /\ (req[r].diff = {} => row = expenses[e])
    BY <1>1, SavedRow
  <1>3. req[r].diff # {} => LockFree(r, e)
    BY <1>1, FreeLock DEF UpdateCommit
  <1>4. expenses' = [expenses EXCEPT ![e] = row] /\ expenses[e] # Null
    BY <1>1, NullAssumption DEF UpdateCommit
  <1> HIDE DEF row
  <1> QED BY <1>1, <1>2, <1>3, <1>4, WriteExpense DEF UpdateCommit, Inv, TypeOK

LEMMA CommitTransitionInv ==
  ASSUME Inv, NEW r \in Requests, CommitTransition(r)
  PROVE  Inv'
  <1> DEFINE e == req[r].expense
             row == [req[r].mem EXCEPT !.status = req[r].next]
  <1>1. /\ e \in ExpenseIds /\ req[r].mem \in Expense /\ LockFree(r, e)
        /\ expenses[e] # Null /\ req[r].next \in Targets
    BY RecordType, NullAssumption
       DEF CommitTransition, Good, Shape, LockGood, Locks, Request
  <1>2. row \in Expense
    BY <1>1 DEF Expense, Targets, Status
  <1>3. expenses' = [expenses EXCEPT ![e] = row]
    BY DEF CommitTransition
  <1>4. approvals' \in [ExpenseIds -> Nat]
    <2>1. approvals \in [ExpenseIds -> Nat]
      BY DEF Inv, TypeOK
    <2> DEFINE count == IF req[r].next = "APPROVED" THEN approvals[e] + 1 ELSE approvals[e]
    <2>2. count \in Nat
      BY <1>1, <2>1
    <2>3. approvals' = [approvals EXCEPT ![e] = count]
      BY DEF CommitTransition
    <2> HIDE DEF count
    <2> QED BY <2>1, <2>2, <2>3
  <1> HIDE DEF row
  <1> QED BY <1>1, <1>2, <1>3, <1>4, WriteExpense DEF CommitTransition

LEMMA CreateInv ==
  ASSUME Inv, NEW e \in ExpenseIds, NEW a \in Accounts, Create(e, a)
  PROVE  Inv'
  <1> DEFINE row == [status |-> "DRAFT", account |-> a, payment |-> 0]
  <1>1. row \in Expense /\ row # Null
    BY NullAssumption DEF Expense, Status
  <1>2. /\ expenses[e] = Null /\ expenses'[e] = row
        /\ \A x \in ExpenseIds \ {e} : expenses'[x] = expenses[x]
    BY DEF Create, Inv, TypeOK
  <1>3. TypeOK'
    BY <1>1 DEF Create, Inv, TypeOK
  <1>4. ASSUME NEW s \in Requests PROVE Good(s, req[s])'
    <2>1. Good(s, req[s]) /\ req' = req /\ req[s].expense \in ExpenseIds \cup {Null}
      BY RecordType DEF Request, Create
    <2>2. Shape(req[s])'
      BY <1>1, <1>2, <2>1 DEF Good, Shape
    <2>3. KeyGood(s, req[s])'
      BY <2>1 DEF Create, Good, KeyGood, KeyFree, KeyTaken, Inserted
    <2>4. ASSUME Locks(req[s]) PROVE expenses'[req[s].expense] = expenses[req[s].expense]
      <3>1. req[s].expense \in ExpenseIds /\ expenses[req[s].expense] # Null
        BY <2>1, <2>4, NullAssumption DEF Good, Shape, Locks
      <3> QED BY <1>2, <3>1
    <2>5. ASSUME Locks(req[s]) PROVE LockFree(s, req[s].expense)'
      BY <2>1, <2>5 DEF Good, LockGood, LockFree, Locks
    <2>6. LockGood(s, req[s])'
      BY <2>1, <2>4, <2>5 DEF Good, LockGood, Locks
    <2> QED BY <2>2, <2>3, <2>6 DEF Good
  <1> QED BY <1>3, <1>4 DEF Inv

\* What CommitPayment finds when it can be executed.
LEMMA PayingRequest ==
  ASSUME Inv, NEW r \in Requests, CommitPayment(r)
  PROVE  /\ req[r].key \in Keys /\ Inserted(req[r])
         /\ KeyFree(r, req[r].key) /\ ~KeyTaken(req[r].key)
         /\ req[r].account \in Accounts \cup {Null}
         /\ req[r].expense \in ExpenseIds \cup {Null}
         /\ req[r].expense # Null =>
              /\ req[r].mem = expenses[req[r].expense]
              /\ expenses[req[r].expense] \in Expense
              /\ expenses[req[r].expense].status = "APPROVED"
              /\ LockFree(r, req[r].expense)
  <1>1. req[r] \in Request /\ Good(r, req[r])
    BY RecordType
  <1>2. req[r].pc = IF req[r].expense = Null THEN "inserted" ELSE "paying"
    BY DEF CommitPayment
  <1>3. /\ req[r].account \in Accounts \cup {Null}
        /\ req[r].expense \in ExpenseIds \cup {Null}
    BY <1>1 DEF Request
  <1>4. /\ req[r].key \in Keys /\ Inserted(req[r])
        /\ KeyFree(r, req[r].key) /\ ~KeyTaken(req[r].key)
    BY <1>1, <1>2 DEF Good, Shape, KeyGood, Inserted
  <1>5. ASSUME req[r].expense # Null
        PROVE  /\ req[r].mem = expenses[req[r].expense]
               /\ req[r].mem \in Expense
               /\ req[r].mem.status = "APPROVED"
               /\ LockFree(r, req[r].expense)
    BY <1>1, <1>2, <1>5 DEF Good, Shape, LockGood, Locks
  <1> QED BY <1>3, <1>4, <1>5

\* The rows and the request that CommitPayment leaves.
LEMMA PaymentStep ==
  ASSUME Inv, NEW r \in Requests, CommitPayment(r)
  PROVE  /\ payments' \in Seq(Payment) /\ Len(payments') = Len(payments) + 1
         /\ \A i \in 1..Len(payments) : payments'[i] = payments[i]
         /\ payments'[Len(payments) + 1].key = req[r].key
         /\ payments'[Len(payments) + 1].expense = req[r].expense
         /\ expenses' \in [ExpenseIds -> Expense \cup {Null}]
         /\ \A x \in ExpenseIds : x # req[r].expense => expenses'[x] = expenses[x]
         /\ req[r].expense # Null =>
              expenses'[req[r].expense] = [expenses[req[r].expense] EXCEPT
                 !.status = "ACCOUNTED", !.payment = Len(payments) + 1]
  <1> DEFINE e == req[r].expense
             n == Len(payments) + 1
             p == [key |-> req[r].key, expense |-> e, account |-> req[r].account]
             row == [expenses[e] EXCEPT !.status = "ACCOUNTED", !.payment = n]
  <1>1. p \in Payment /\ payments \in Seq(Payment) /\ n \in Nat
    BY PayingRequest DEF Payment, Inv, TypeOK
  <1>2. p.key = req[r].key /\ p.expense = e
    OBVIOUS
  <1>3. payments' = Append(payments, p)
    BY DEF CommitPayment
  <1>4. /\ payments' \in Seq(Payment) /\ Len(payments') = n /\ payments'[n] = p
        /\ \A i \in 1..Len(payments) : payments'[i] = payments[i]
    <2> HIDE DEF p
    <2> QED BY <1>1, <1>3, AppendProperties
  <1>5. e # Null => row \in Expense /\ expenses' = [expenses EXCEPT ![e] = row]
    BY <1>1, PayingRequest DEF CommitPayment, Expense, Status
  <1>6. e = Null => expenses' = expenses
    BY DEF CommitPayment
  <1>7. expenses \in [ExpenseIds -> Expense \cup {Null}] /\ e \in ExpenseIds \cup {Null}
    BY PayingRequest DEF Inv, TypeOK
  <1>8. /\ expenses' \in [ExpenseIds -> Expense \cup {Null}]
        /\ \A x \in ExpenseIds : x # e => expenses'[x] = expenses[x]
        /\ e # Null => expenses'[e] = row
    <2> HIDE DEF row
    <2> QED BY <1>5, <1>6, <1>7
  <1> QED BY <1>2, <1>4, <1>8

LEMMA CommitPaymentInv ==
  ASSUME Inv, NEW r \in Requests, CommitPayment(r)
  PROVE  Inv'
  <1> DEFINE e == req[r].expense
             n == Len(payments) + 1
             q == [IdleRequest EXCEPT !.pc = "answer", !.key = req[r].key, !.payment = n]
  <1>1. req[r].key \in Keys /\ n \in Nat /\ payments \in Seq(Payment)
    BY PayingRequest DEF Inv, TypeOK
  <1>2. /\ Len(payments) \in Nat /\ Len(payments') = Len(payments) + 1
        /\ DOMAIN payments = 1..Len(payments) /\ DOMAIN payments' = 1..Len(payments')
        /\ \A i \in 1..Len(payments) : payments'[i] = payments[i]
        /\ payments'[Len(payments) + 1].key = req[r].key
    <2>1. payments' \in Seq(Payment) /\ payments \in Seq(Payment)
      BY <1>1, PaymentStep
    <2>2. /\ Len(payments) \in Nat /\ DOMAIN payments = 1..Len(payments)
          /\ DOMAIN payments' = 1..Len(payments')
      BY <2>1
    <2>3. /\ Len(payments') = Len(payments) + 1
          /\ \A i \in 1..Len(payments) : payments'[i] = payments[i]
          /\ payments'[Len(payments) + 1].key = req[r].key
      BY PaymentStep, Zenon
    <2> QED BY <2>2, <2>3
  <1>3. q \in Request /\ q.pc = "answer" /\ q.expense = Null
        /\ q.key = req[r].key /\ q.payment = n
    BY <1>1, IdleRequestGood DEF Request, IdleRequest, PCs
  <1>4. /\ req \in [Requests -> Request] /\ req'[r] = q
        /\ \A s \in Requests \ {r} : req'[s] = req[s]
        /\ req' \in [Requests -> Request]
    <2>1. req' = [req EXCEPT ![r] = q] /\ req \in [Requests -> Request]
      BY DEF CommitPayment, Inv, TypeOK
    <2> HIDE DEF q
    <2> QED BY <1>3, <2>1
  <1> HIDE DEF q
  <1>5. TypeOK'
    <2>1. 1..Len(payments) \subseteq 1..Len(payments')
      BY <1>2
    <2>2. (answers \subseteq Keys \X (1..Len(payments)))'
      BY <2>1 DEF Inv, TypeOK, CommitPayment
    <2> QED BY <1>4, <2>2, PaymentStep DEF Inv, TypeOK, CommitPayment
  <1>6. \A x \in ExpenseIds : expenses[x] # Null => expenses'[x] # Null
    <2> SUFFICES ASSUME NEW x \in ExpenseIds, expenses[x] # Null
                 PROVE  expenses'[x] # Null
      OBVIOUS
    <2>1. CASE x # e
      BY <2>1, PaymentStep
    <2>2. CASE x = e
      <3>1. e # Null
        BY <2>2, NullAssumption
      <3>2. [expenses[e] EXCEPT !.status = "ACCOUNTED", !.payment = n] \in Expense
        BY <1>1, <3>1, PayingRequest DEF Expense, Status
      <3> QED BY <2>2, <3>1, <3>2, PaymentStep, NullAssumption
    <2> QED BY <2>1, <2>2
  <1>7. \A k : KeyTaken(k)' <=> KeyTaken(k) \/ k = req[r].key
    BY <1>2 DEF KeyTaken
  <1>8. ASSUME NEW s \in Requests \ {r} PROVE Good(s, req[s])'
    <2>1. Good(s, req[s]) /\ req'[s] = req[s] /\ req[s].expense \in ExpenseIds \cup {Null}
      BY <1>4, RecordType DEF Request
    <2>2. Shape(req[s])'
      BY <1>6, <2>1 DEF Good, Shape
    <2>3. ASSUME Inserted(req[s]) PROVE KeyFree(s, req[s].key)' /\ ~KeyTaken(req[s].key)'
      <3>1. req[s].key # req[r].key
        BY <2>3, PayingRequest DEF KeyFree, Inserted
      <3>2. ~KeyTaken(req[s].key)'
        BY <1>7, <2>1, <2>3, <3>1 DEF Good, KeyGood
      <3>3. KeyFree(s, req[s].key)'
        BY <1>3, <1>4, <2>1, <2>3 DEF Good, KeyGood, KeyFree, Inserted
      <3> QED BY <3>2, <3>3
    <2>4. ASSUME req[s].pc = "answer"
          PROVE  req[s].payment \in 1..Len(payments') /\ payments'[req[s].payment].key = req[s].key
      BY <1>2, <2>1, <2>4 DEF Good, KeyGood
    <2>5. KeyGood(s, req[s])'
      BY <1>7, <2>1, <2>3, <2>4 DEF Good, KeyGood, Inserted
    <2>6. ASSUME Locks(req[s]) PROVE LockFree(s, req[s].expense)'
      BY <1>3, <1>4, <2>1, <2>6 DEF Good, LockGood, LockFree, Locks
    <2>7. ASSUME Locks(req[s]) PROVE expenses'[req[s].expense] = expenses[req[s].expense]
      <3>1. req[s].expense \in ExpenseIds
        BY <2>1, <2>7 DEF Good, Shape, Locks
      <3>2. req[s].expense # e
        BY <2>7, <3>1, PayingRequest, NullAssumption DEF LockFree
      <3> QED BY <3>1, <3>2, PaymentStep
    <2>8. LockGood(s, req[s])'
      BY <2>1, <2>6, <2>7 DEF Good, LockGood, Locks
    <2> QED BY <2>2, <2>5, <2>8 DEF Good
  <1>9. Good(r, req[r])'
    <2>1. n \in 1..Len(payments') /\ payments'[n].key = req[r].key
      BY <1>2
    <2> QED BY <1>1, <1>3, <1>4, <2>1
            DEF Good, Shape, KeyGood, LockGood, Inserted, Locks
  <1> QED BY <1>5, <1>8, <1>9 DEF Inv

LEMMA AnswerInv ==
  ASSUME Inv, NEW r \in Requests, Answer(r)
  PROVE  Inv'
  <1>1. UNCHANGED <<expenses, approvals, payments>> /\ Finish(r)
    BY DEF Answer
  <1>2. req[r].key \in Keys /\ req[r].payment \in 1..Len(payments)
    BY RecordType DEF Answer, Good, Shape, KeyGood
  <1>3. (answers \subseteq Keys \X (1..Len(payments)))'
    BY <1>2 DEF Answer, Inv, TypeOK
  <1>4. /\ req \in [Requests -> Request] /\ req'[r] = IdleRequest
        /\ \A s \in Requests \ {r} : req'[s] = req[s]
    BY <1>1 DEF Inv, TypeOK, Finish
  <1>5. TypeOK'
    BY <1>1, <1>3, <1>4, IdleRequestGood DEF Inv, TypeOK, Finish
  <1>6. ASSUME NEW s \in Requests \ {r} PROVE Good(s, req[s])'
    <2>1. Good(s, req[s]) /\ req'[s] = req[s]
      BY <1>4, RecordType
    <2>2. Shape(req[s])'
      BY <1>1, <2>1 DEF Good, Shape
    <2>3. ASSUME Inserted(req[s]) PROVE KeyFree(s, req[s].key)'
      BY <1>4, <2>1, <2>3 DEF Good, KeyGood, KeyFree, Inserted, IdleRequest
    <2>4. KeyGood(s, req[s])'
      BY <1>1, <2>1, <2>3 DEF Good, KeyGood, KeyTaken, Inserted
    <2>5. ASSUME Locks(req[s]) PROVE LockFree(s, req[s].expense)'
      BY <1>4, <2>1, <2>5 DEF Good, LockGood, LockFree, Locks, IdleRequest
    <2>6. LockGood(s, req[s])'
      BY <1>1, <2>1, <2>5 DEF Good, LockGood, Locks
    <2> QED BY <2>2, <2>4, <2>6 DEF Good
  <1>7. Good(r, req[r])'
    BY <1>4 DEF IdleRequest, Good, Shape, KeyGood, LockGood, Inserted, Locks
  <1> QED BY <1>5, <1>6, <1>7 DEF Inv

-----------------------------------------------------------------------------
LEMMA InvNext ==
  ASSUME Inv, [Next]_vars
  PROVE  Inv'
  <1>1. ASSUME NEW e \in ExpenseIds, NEW a \in Accounts, Create(e, a) PROVE Inv'
    BY <1>1, CreateInv
  <1>2. ASSUME NEW r \in Requests, NEW e \in ExpenseIds, NEW a \in Accounts,
               UpdateRead(r, e, a)
        PROVE  Inv'
    BY <1>2, UpdateReadInv
  <1>3. ASSUME NEW r \in Requests, NEW e \in ExpenseIds, NEW next \in Targets,
               LockExpense(r, e, next)
        PROVE  Inv'
    BY <1>3, LockExpenseInv
  <1>4. ASSUME NEW r \in Requests, NEW k \in Keys, NEW e \in ExpenseIds \cup {Null},
               Ask(r, k, e)
        PROVE  Inv'
    BY <1>4, AskInv
  <1>5. ASSUME NEW r \in Requests, Advance(r) PROVE Inv'
    BY <1>5, UpdateLoadInv, UpdateCommitInv, CommitTransitionInv, ReadExpenseInv,
       InsertInv, FindWinnerInv, LockPaidInv, CommitPaymentInv, AnswerInv DEF Advance
  <1>6. ASSUME NEW r \in Requests, Rollback(r) \/ BreakDeadlock(r) PROVE Inv'
    BY <1>6, FinishStep DEF Rollback, BreakDeadlock
  <1>7. CASE UNCHANGED vars
    <2>1. TypeOK'
      BY <1>7 DEF Inv, TypeOK, vars
    <2>2. ASSUME NEW r \in Requests PROVE Good(r, req[r])'
      BY <1>7 DEF vars, Inv, Good, Shape, KeyGood, KeyFree, KeyTaken, Inserted,
                  LockGood, LockFree, Locks
    <2> QED BY <2>1, <2>2 DEF Inv
  <1> QED BY <1>1, <1>2, <1>3, <1>4, <1>5, <1>6, <1>7 DEF Next

\* Every reachable state satisfies the invariant.
THEOREM Invariance == Spec => []Inv
  <1> QED BY InvInit, InvNext, PTL DEF Spec

\* The tables and the requests' records keep the shapes that the code gives
\* them; an answer names a payment that exists.
THEOREM TypeCorrect == Spec => []TypeOK
  <1>1. Inv => TypeOK
    BY DEF Inv
  <1> QED BY <1>1, Invariance, PTL

-----------------------------------------------------------------------------
(* Deadlocks.                                                               *)

\* Whoever keeps a payment waiting at markPaid() and waits there too waits for that
\* payment: a circle of waits is one of two payments. They are of one expense request
\* and have different keys, so that the retries of a payment never deadlock.
OnlyRivalsDeadlock ==
  \A r, s \in Requests :
    /\ \A t \in Requests : Awaits(r, s) /\ Awaits(s, t) => Awaits(s, r)
    /\ Awaits(r, s) /\ Awaits(s, r) =>
         req[r].expense = req[s].expense /\ req[r].key # req[s].key

\* Two payments deadlock in the one way that OnlyRivalsDeadlock leaves.
THEOREM RetriesDoNotDeadlock == Spec => []OnlyRivalsDeadlock
  <1>1. ASSUME Inv, NEW r \in Requests, NEW s \in Requests, NEW t \in Requests,
               Awaits(r, s), Awaits(s, t)
        PROVE  /\ Awaits(s, r)
               /\ req[r].expense = req[s].expense /\ req[r].key # req[s].key
    <2>1. /\ r # s /\ req[r].pc = "inserted" /\ req[s].pc = "inserted"
          /\ req[s].expense # Null
      BY <1>1 DEF Awaits
    <2>2. req[s].expense = req[r].expense
      BY <1>1 DEF Awaits, HeldModes
    <2>3. "KEY SHARE" \in HeldModes(r, req[s].expense)
      BY <2>1, <2>2 DEF HeldModes, LockModes
    <2>4. "KEY SHARE" \in WaitsFor(RowLock("paying"))
      BY DEF WaitsFor, RowLock
    <2>5. Awaits(s, r)
      BY <2>1, <2>3, <2>4 DEF Awaits
    <2>6. KeyFree(r, req[r].key)
      BY <1>1, <2>1 DEF Inv, Good, KeyGood, Inserted
    <2> QED BY <2>1, <2>2, <2>5, <2>6 DEF KeyFree
  <1>2. Inv => OnlyRivalsDeadlock
    BY <1>1 DEF OnlyRivalsDeadlock
  <1> QED BY <1>2, Invariance, PTL

-----------------------------------------------------------------------------
(* What a step does to the payments.                                        *)

\* Only CommitPayment writes payments.
LEMMA PaymentsStep ==
  ASSUME [Next]_vars, payments' # payments
  PROVE  \E r \in Requests : CommitPayment(r)
  BY DEF Next, Advance, vars, Create, UpdateRead, UpdateLoad, UpdateCommit,
         LockExpense, CommitTransition, Ask, ReadExpense, InsertPayment, InsertFails,
         FindWinner, LockPaid, Answer, Rollback, BreakDeadlock

\* Every step that adds a payment of an expense request finds it APPROVED and
\* makes it ACCOUNTED, naming that payment, and changes nothing else of it.
THEOREM PaymentIsAtomic == Spec => PaysTheApproved
  <1> DEFINE Paid(i) == LET e == payments'[i].expense IN
               e # Null => /\ expenses[e].status = "APPROVED"
                           /\ expenses'[e] = [expenses[e] EXCEPT !.status = "ACCOUNTED",
                                                                 !.payment = i]
  <1>1. ASSUME Inv, [Next]_vars
        PROVE  \A i \in DOMAIN payments' \ DOMAIN payments : Paid(i)
    <2>1. CASE payments' = payments
      BY <2>1
    <2>2. ASSUME NEW r \in Requests, CommitPayment(r)
          PROVE  \A i \in DOMAIN payments' \ DOMAIN payments : Paid(i)
      <3> DEFINE n == Len(payments) + 1
      <3>1. DOMAIN payments' \ DOMAIN payments \subseteq {n}
        <4>1. payments \in Seq(Payment)
          BY <1>1 DEF Inv, TypeOK
        <4>2. payments' \in Seq(Payment) /\ Len(payments') = Len(payments) + 1
          BY <1>1, <2>2, PaymentStep, Zenon
        <4> QED BY <4>1, <4>2
      <3>2. payments'[n].expense = req[r].expense
        BY <1>1, <2>2, PaymentStep, Zenon
      <3>3. req[r].expense # Null =>
              /\ expenses[req[r].expense].status = "APPROVED"
              /\ expenses'[req[r].expense] = [expenses[req[r].expense] EXCEPT
                   !.status = "ACCOUNTED", !.payment = n]
        BY <1>1, <2>2, PaymentStep, PayingRequest, Zenon
      <3> HIDE DEF n
      <3>4. Paid(n)
        BY <3>2, <3>3, Zenon
      <3> QED BY <3>1, <3>4, Zenon
    <2> QED BY <1>1, <2>1, <2>2, PaymentsStep
  <1>2. Inv /\ [Next]_vars =>
          [\A i \in DOMAIN payments' \ DOMAIN payments : Paid(i)]_vars
    BY <1>1
  <1> QED BY <1>2, Invariance, PTL DEF Spec, PaysTheApproved

-----------------------------------------------------------------------------
(* Payments and approvals of an expense request.                            *)

PaidFor(e) == {i \in DOMAIN payments : payments[i].expense = e}

Pending(e) == IF expenses[e] # Null /\ expenses[e].status = "APPROVED" THEN 1 ELSE 0

LEMMA PaidForFinite ==
  ASSUME TypeOK, NEW e
  PROVE  IsFiniteSet(PaidFor(e)) /\ Cardinality(PaidFor(e)) \in Nat
  <1>1. PaidFor(e) \subseteq 1..Len(payments) /\ Len(payments) \in Nat
    BY DEF TypeOK, PaidFor
  <1>2. IsFiniteSet(1..Len(payments))
    BY <1>1, FS_Interval
  <1> QED BY <1>1, <1>2, FS_Subset, FS_CardinalityType

\* What one more payment does to the set of payments of an expense request.
LEMMA PaidForGrows ==
  ASSUME Inv, NEW r \in Requests, CommitPayment(r), NEW e \in ExpenseIds
  PROVE  Cardinality(PaidFor(e)') =
           Cardinality(PaidFor(e)) + IF req[r].expense = e THEN 1 ELSE 0
  <1> DEFINE n == Len(payments) + 1
  <1>1. payments \in Seq(Payment)
    BY DEF Inv, TypeOK
  <1>2. /\ payments' \in Seq(Payment) /\ Len(payments') = n
        /\ \A i \in 1..Len(payments) : payments'[i] = payments[i]
        /\ payments'[n].expense = req[r].expense
    BY PaymentStep, Zenon
  <1>3. /\ DOMAIN payments = 1..Len(payments) /\ DOMAIN payments' = 1..n
        /\ Len(payments) \in Nat
    BY <1>1, <1>2
  <1>4. IsFiniteSet(PaidFor(e)) /\ Cardinality(PaidFor(e)) \in Nat /\ n \notin PaidFor(e)
    <2>1. n \notin 1..Len(payments)
      BY <1>3
    <2>2. n \notin PaidFor(e)
      BY <1>3, <2>1 DEF PaidFor
    <2> QED BY <2>2, PaidForFinite DEF Inv
  <1>5. CASE req[r].expense = e
    <2>1. PaidFor(e)' = PaidFor(e) \cup {n}
      BY <1>2, <1>3, <1>5 DEF PaidFor
    <2> QED BY <1>4, <1>5, <2>1, FS_AddElement
  <1>6. CASE req[r].expense # e
    <2>1. PaidFor(e)' = PaidFor(e)
      BY <1>2, <1>3, <1>6 DEF PaidFor
    <2> QED BY <1>4, <1>6, <2>1
  <1> QED BY <1>5, <1>6

LEMMA ApprovalStep ==
  ASSUME Inv, ApprovalPaidOnce, [Next]_vars
  PROVE  ApprovalPaidOnce'
  <1> SUFFICES ASSUME NEW e \in ExpenseIds
               PROVE  Cardinality(PaidFor(e)') + Pending(e)' <= approvals'[e]
    BY DEF ApprovalPaidOnce, PaidFor, Pending
  <1>1. /\ Cardinality(PaidFor(e)) + Pending(e) <= approvals[e]
        /\ Cardinality(PaidFor(e)) \in Nat /\ approvals[e] \in Nat
        /\ expenses \in [ExpenseIds -> Expense \cup {Null}]
        /\ approvals \in [ExpenseIds -> Nat]
    BY PaidForFinite DEF ApprovalPaidOnce, PaidFor, Pending, Inv, TypeOK
  <1>2. Pending(e) \in {0, 1} /\ Pending(e)' \in {0, 1}
    BY DEF Pending
  <1>3. ASSUME payments' = payments, approvals' = approvals, Pending(e)' = 1 => Pending(e) = 1
        PROVE  Cardinality(PaidFor(e)') + Pending(e)' <= approvals'[e]
    <2>1. PaidFor(e)' = PaidFor(e)
      BY <1>3 DEF PaidFor
    <2> QED BY <1>1, <1>2, <1>3, <2>1
  <1>4. CASE expenses' = expenses /\ payments' = payments /\ approvals' = approvals
    BY <1>3, <1>4 DEF Pending
  <1>5. ASSUME NEW x \in ExpenseIds, NEW a \in Accounts, Create(x, a)
        PROVE  Cardinality(PaidFor(e)') + Pending(e)' <= approvals'[e]
    <2>1. Pending(e)' = 1 => Pending(e) = 1
      BY <1>1, <1>5 DEF Create, Pending
    <2> QED BY <1>3, <1>5, <2>1 DEF Create
  <1>6. ASSUME NEW r \in Requests, UpdateCommit(r)
        PROVE  Cardinality(PaidFor(e)') + Pending(e)' <= approvals'[e]
    <2> DEFINE x == req[r].expense
               row == Saved(req[r].mem, req[r].diff, expenses[x])
    <2>1. /\ x \in ExpenseIds /\ expenses[x] \in Expense /\ req[r].mem \in Expense
          /\ req[r].mem.status = "DRAFT" /\ expenses[x] # Null
      BY <1>6, RecordType, NullAssumption DEF UpdateCommit, Good, Shape
    <2>2. row.status \in {"DRAFT", expenses[x].status}
      BY <2>1, SavedRow
    <2>3. expenses' = [expenses EXCEPT ![x] = row]
      BY <1>6 DEF UpdateCommit
    <2> HIDE DEF row
    <2>4. Pending(e)' = 1 => Pending(e) = 1
      BY <1>1, <2>1, <2>2, <2>3 DEF Pending
    <2> QED BY <1>3, <1>6, <2>4 DEF UpdateCommit
  <1>7. ASSUME NEW r \in Requests, CommitTransition(r)
        PROVE  Cardinality(PaidFor(e)') + Pending(e)' <= approvals'[e]
    <2> DEFINE x == req[r].expense
               next == req[r].next
               row == [req[r].mem EXCEPT !.status = next]
    <2>1. /\ x \in ExpenseIds /\ expenses[x] \in Expense /\ req[r].mem = expenses[x]
          /\ next \in Allowed(expenses[x].status) /\ expenses[x] # Null
      BY <1>7, RecordType, NullAssumption
         DEF CommitTransition, Good, Shape, LockGood, Locks
    <2>2. row.status = next
      BY <2>1 DEF Expense
    <2>3. expenses' = [expenses EXCEPT ![x] = row] /\ payments' = payments
      BY <1>7 DEF CommitTransition
    <2> HIDE DEF row
    <2>4. PaidFor(e)' = PaidFor(e)
      BY <2>3 DEF PaidFor
    <2>5. CASE e # x
      <3>1. Pending(e)' = Pending(e) /\ approvals'[e] = approvals[e]
        BY <1>1, <1>7, <2>3, <2>5 DEF Pending, CommitTransition
      <3> QED BY <1>1, <2>4, <3>1
    <2>6. CASE e = x /\ next = "APPROVED"
      <3>1. Pending(e) = 0
        BY <2>1, <2>6 DEF Pending, Allowed
      <3>2. approvals'[e] = approvals[e] + 1
        BY <1>1, <1>7, <2>6 DEF CommitTransition
      <3> QED BY <1>1, <1>2, <2>4, <3>1, <3>2
    <2>7. CASE e = x /\ next # "APPROVED"
      <3>1. Pending(e)' = 0
        BY <1>1, <2>1, <2>2, <2>3, <2>7 DEF Pending
      <3>2. approvals'[e] = approvals[e]
        BY <1>1, <1>7, <2>7 DEF CommitTransition
      <3> QED BY <1>1, <1>2, <2>4, <3>1, <3>2
    <2> QED BY <2>5, <2>6, <2>7
  <1>8. ASSUME NEW r \in Requests, CommitPayment(r)
        PROVE  Cardinality(PaidFor(e)') + Pending(e)' <= approvals'[e]
    <2> DEFINE x == req[r].expense
    <2>1. approvals'[e] = approvals[e]
      BY <1>8 DEF CommitPayment
    <2>2. CASE e # x
      <3>1. expenses'[e] = expenses[e]
        BY <1>8, <2>2, PaymentStep, Zenon
      <3>2. Pending(e)' = Pending(e)
        BY <3>1 DEF Pending
      <3>3. Cardinality(PaidFor(e)') = Cardinality(PaidFor(e))
        BY <1>1, <1>8, <2>2, PaidForGrows
      <3> QED BY <1>1, <2>1, <3>2, <3>3
    <2>3. CASE e = x
      <3>1. x # Null
        BY <2>3, NullAssumption
      <3>2. /\ expenses[e].status = "APPROVED" /\ expenses[e] \in Expense
            /\ expenses'[e] = [expenses[e] EXCEPT !.status = "ACCOUNTED",
                                                  !.payment = Len(payments) + 1]
        BY <1>8, <2>3, <3>1, PaymentStep, PayingRequest, Zenon
      <3>3. Pending(e) = 1
        BY <3>2, NullAssumption DEF Pending
      <3>4. Pending(e)' = 0
        BY <3>2 DEF Pending, Expense
      <3>5. Cardinality(PaidFor(e)') = Cardinality(PaidFor(e)) + 1
        BY <1>8, <2>3, PaidForGrows
      <3> QED BY <1>1, <2>1, <3>3, <3>4, <3>5
    <2> QED BY <2>2, <2>3
  <1>9. CASE UNCHANGED vars
    BY <1>4, <1>9 DEF vars
  <1>10. ASSUME NEW r \in Requests, UpdateLoad(r) \/ ReadExpense(r) \/ InsertPayment(r)
                \/ InsertFails(r) \/ FindWinner(r) \/ LockPaid(r) \/ Answer(r)
                \/ Rollback(r) \/ BreakDeadlock(r)
         PROVE  expenses' = expenses /\ payments' = payments /\ approvals' = approvals
    BY <1>10 DEF UpdateLoad, ReadExpense, InsertPayment, InsertFails, FindWinner, LockPaid,
                 Answer, Rollback, BreakDeadlock
  <1>11. ASSUME NEW r \in Requests,
                \/ \E x \in ExpenseIds, a \in Accounts : UpdateRead(r, x, a)
                \/ \E x \in ExpenseIds, next \in Targets : LockExpense(r, x, next)
                \/ \E k \in Keys, x \in ExpenseIds \cup {Null} : Ask(r, k, x)
         PROVE  expenses' = expenses /\ payments' = payments /\ approvals' = approvals
    BY <1>11 DEF UpdateRead, LockExpense, Ask
  <1>12. ASSUME NEW r \in Requests, Advance(r)
         PROVE  Cardinality(PaidFor(e)') + Pending(e)' <= approvals'[e]
    BY <1>4, <1>6, <1>7, <1>8, <1>10, <1>12 DEF Advance
  <1> QED BY <1>4, <1>5, <1>9, <1>10, <1>11, <1>12 DEF Next

\* No expense request is paid more often than it is approved, and while it is
\* APPROVED one approval is left to pay.
THEOREM OnePaymentPerApproval == Spec => []ApprovalPaidOnce
  <1>1. Init => ApprovalPaidOnce
    <2> SUFFICES ASSUME Init, NEW e \in ExpenseIds
                 PROVE  Cardinality(PaidFor(e)) + Pending(e) <= approvals[e]
      BY DEF ApprovalPaidOnce, PaidFor, Pending
    <2>1. PaidFor(e) = {} /\ Pending(e) = 0 /\ approvals[e] = 0
      BY DEF Init, PaidFor, Pending
    <2> QED BY <2>1, FS_EmptySet
  <1> QED BY <1>1, Invariance, ApprovalStep, PTL DEF Spec

-----------------------------------------------------------------------------
(* The idempotency contract.                                                *)

\* The executions of the abstract specification.
KeysOf(s) == [i \in DOMAIN s |-> s[i].key]

LEMMA KeysOfAppend ==
  ASSUME NEW s \in Seq(Payment), NEW t \in Seq(Payment), NEW k,
         Len(t) = Len(s) + 1, \A i \in 1..Len(s) : t[i] = s[i],
         t[Len(s) + 1].key = k
  PROVE  KeysOf(t) = Append(KeysOf(s), k)
  <1>1. ASSUME NEW u \in Seq(Payment)
        PROVE  /\ KeysOf(u) \in Seq(Keys) /\ Len(KeysOf(u)) = Len(u)
               /\ \A i \in 1..Len(u) : KeysOf(u)[i] = u[i].key
    <2>1. DOMAIN u = 1..Len(u) /\ Len(u) \in Nat /\ \A i \in 1..Len(u) : u[i] \in Payment
      OBVIOUS
    <2>2. \A i \in 1..Len(u) : u[i].key \in Keys
      BY <2>1 DEF Payment
    <2>3. KeysOf(u) = [i \in 1..Len(u) |-> u[i].key]
      BY <2>1 DEF KeysOf
    <2> QED BY <2>1, <2>2, <2>3
  <1>2. k \in Keys
    <2>1. t[Len(s) + 1] \in Payment
      OBVIOUS
    <2> QED BY <2>1 DEF Payment
  <1> DEFINE a == KeysOf(s)
             b == KeysOf(t)
  <1>3. /\ a \in Seq(Keys) /\ Len(a) = Len(s)
        /\ b \in Seq(Keys) /\ Len(b) = Len(s) + 1
    BY <1>1
  <1>4. (\A i \in 1..Len(s) : b[i] = a[i]) /\ b[Len(s) + 1] = k
    BY <1>1
  <1> HIDE DEF a, b
  <1>5. /\ Append(a, k) \in Seq(Keys) /\ Len(Append(a, k)) = Len(s) + 1
        /\ Append(a, k)[Len(s) + 1] = k
        /\ \A i \in 1..Len(s) : Append(a, k)[i] = a[i]
    BY <1>2, <1>3, AppendProperties
  <1>6. \A i \in 1..Len(b) : b[i] = Append(a, k)[i]
    BY <1>3, <1>4, <1>5
  <1>7. b = Append(a, k)
    BY <1>3, <1>5, <1>6, SeqEqual
  <1> QED BY <1>7 DEF a, b

\* Under any interleaving of requests and retries a key is executed at most
\* once, and every answer is that execution: Payments implements AtMostOnce.
THEOREM KeepsThePromise == Spec => ImplementsAtMostOnce
  <1> DEFINE executions == [i \in DOMAIN payments |-> payments[i].key]
             stutter == UNCHANGED <<executions, answers>>
  <1>1. Init => Promise!Init
    BY DEF Init, Promise!Init
  <1>2. ASSUME Inv, [Next]_vars
        PROVE  Promise!Next \/ stutter
    <2>1. ASSUME NEW r \in Requests, CommitPayment(r) PROVE Promise!Next
      <3> DEFINE k == req[r].key
      <3>1. k \in Keys /\ ~KeyTaken(k) /\ answers' = answers
        BY <1>2, <2>1, PayingRequest DEF CommitPayment
      <3>2. \A i \in DOMAIN executions : executions[i] # k
        BY <3>1 DEF KeyTaken
      <3>3. executions' = Append(executions, k)
        <4>1. payments \in Seq(Payment)
          BY <1>2 DEF Inv, TypeOK
        <4>2. /\ payments' \in Seq(Payment) /\ Len(payments') = Len(payments) + 1
              /\ \A i \in 1..Len(payments) : payments'[i] = payments[i]
              /\ payments'[Len(payments) + 1].key = k
          BY <1>2, <2>1, PaymentStep, Zenon
        <4>3. KeysOf(payments') = Append(KeysOf(payments), k)
          BY <4>1, <4>2, KeysOfAppend
        <4> QED BY <4>3 DEF KeysOf
      <3>4. Promise!Execute(k)
        BY <3>1, <3>2, <3>3 DEF Promise!Execute
      <3> QED BY <3>1, <3>4 DEF Promise!Next, Promise!Execute
    <2>2. ASSUME NEW r \in Requests, Answer(r) PROVE Promise!Next
      <3> DEFINE k == req[r].key
                 i == req[r].payment
      <3>1. k \in Keys /\ i \in DOMAIN payments /\ payments[i].key = k
        <4>1. payments \in Seq(Payment)
          BY <1>2 DEF Inv, TypeOK
        <4>2. k \in Keys /\ i \in 1..Len(payments) /\ payments[i].key = k
          BY <1>2, <2>2, RecordType DEF Answer, Good, Shape, KeyGood
        <4> QED BY <4>1, <4>2
      <3>2. payments' = payments /\ answers' = answers \cup {<<k, i>>}
        BY <2>2 DEF Answer
      <3>3. i \in DOMAIN executions /\ executions[i] = k /\ executions' = executions
        BY <3>1, <3>2
      <3>4. Promise!Answer(k)
        BY <3>2, <3>3 DEF Promise!Answer
      <3> QED BY <3>1, <3>4 DEF Promise!Next
    <2>3. ASSUME \A r \in Requests : ~CommitPayment(r) /\ ~Answer(r)
          PROVE  UNCHANGED <<payments, answers>>
      BY <1>2, <2>3
         DEF Next, Advance, vars, Create, UpdateRead, UpdateLoad, UpdateCommit,
             LockExpense, CommitTransition, Ask, ReadExpense, InsertPayment,
             InsertFails, FindWinner, LockPaid, Rollback, BreakDeadlock
    <2> QED BY <2>1, <2>2, <2>3
  <1>3. Inv /\ [Next]_vars => [Promise!Next]_<<executions, answers>>
    BY <1>2
  <1> QED BY <1>1, <1>3, Invariance, PTL DEF Spec, ImplementsAtMostOnce, Promise!Spec

=============================================================================
