------------------------------ MODULE Payments -------------------------------
(***************************************************************************)
(* Payments and the expense requests they pay: PaymentsService and         *)
(* ExpenseRequestsService, run by several requests at a time against one   *)
(* database at READ COMMITTED.                                             *)
(*                                                                         *)
(* expenses, payments, approvals are the committed tables; what a          *)
(* transaction has written and not committed is in its request's record.   *)
(* A payment is known by its position in payments, the order of commits.   *)
(* Clients retry as they like, so that any request may carry any key.      *)
(*                                                                         *)
(* The expense account stands for the columns a requester edits. Who calls *)
(* is left out (a refused call changes nothing), and so is the posting to  *)
(* the ledger: it commits with the payment, or fails, like everything      *)
(* else, by Rollback.                                                      *)
(***************************************************************************)
EXTENDS Naturals, Sequences, FiniteSets, RowLocks

CONSTANTS
  Requests,     \* HTTP requests the server works on at the same time
  ExpenseIds,   \* ids of rows of expense_requests
  Accounts,     \* contents of an expense request's editable columns
  Keys,         \* idempotency keys
  Null,         \* no row, no expense request, no account, no key
  MaxPayments,  \* bound: rows of payments
  MaxApprovals  \* bound: approvals of one expense request

ASSUME BoundsAssumption == MaxPayments \in Nat /\ MaxApprovals \in Nat

VARIABLES
  expenses,   \* expense_requests: [ExpenseIds -> Expense or Null]
  approvals,  \* how many APPROVE rows expense_request_approvals has for it
  payments,   \* payments, in the order of their commits
  answers,    \* pairs of a key and a payment some client was answered with
  req         \* what each request is doing

vars == <<expenses, approvals, payments, answers, req>>

-----------------------------------------------------------------------------
Status == {"DRAFT", "SUBMITTED", "APPROVED", "REJECTED", "PAID", "ACCOUNTED",
           "CANCELLED"}

Editable == {"DRAFT", "REJECTED"}

Allowed(s) ==
  CASE s = "DRAFT"     -> {"SUBMITTED", "CANCELLED"}
    [] s = "SUBMITTED" -> {"APPROVED", "REJECTED"}
    [] s = "APPROVED"  -> {"PAID", "CANCELLED"}
    [] s = "REJECTED"  -> {"DRAFT"}
    [] s = "PAID"      -> {"ACCOUNTED"}
    [] OTHER           -> {}

\* A row of expense_requests. paymentId and journalEntryId are assigned by the
\* same payment; 0 is NULL.
Expense == [status : Status, account : Accounts, payment : Nat]

ASSUME NullAssumption == Null \notin Expense \cup ExpenseIds \cup Accounts \cup Keys

Columns == {"status", "account", "payment"}

\* A committed row of payments is always EXECUTED.
Payment == [key : Keys, expense : ExpenseIds \cup {Null},
            account : Accounts \cup {Null}]

\* The statuses transition() is called with.
Targets == {"SUBMITTED", "APPROVED", "REJECTED", "CANCELLED"}

PCs == {"idle",
        "load", "write",                             \* update
        "locked",                                    \* transition
        "read", "insert", "inserted", "paying",      \* execute
        "lost", "answer"}

Request == [pc : PCs, expense : ExpenseIds \cup {Null}, next : Targets,
            key : Keys \cup {Null}, account : Accounts \cup {Null},
            payment : Nat,             \* what the caller will be answered with
            mem : Expense \cup {Null}, \* the entity in memory
            diff : SUBSET Columns]     \* the columns save() will write

IdleRequest == [pc |-> "idle", expense |-> Null, next |-> "SUBMITTED",
                key |-> Null, account |-> Null, payment |-> 0, mem |-> Null,
                diff |-> {}]

Init ==
  /\ expenses = [e \in ExpenseIds |-> Null]
  /\ approvals = [e \in ExpenseIds |-> 0]
  /\ payments = <<>>
  /\ answers = {}
  /\ req = [r \in Requests |-> IdleRequest]

Step(r, pc) == req' = [req EXCEPT ![r].pc = pc]

Start(r, fields) ==
  /\ req[r].pc = "idle"
  /\ req' = [req EXCEPT ![r] = fields]

Finish(r) == req' = [req EXCEPT ![r] = IdleRequest]

-----------------------------------------------------------------------------
(* Row locks of expense_requests and the unique index of payments. A row of *)
(* payments refers to its expense request by a foreign key: the INSERT takes*)
(* KEY SHARE on the expense request, and keeps it until the transaction     *)
(* ends. The one back, paymentId, only refers to payments nobody else has   *)
(* locked.                                                                  *)

\* What a bug that forgets the pessimistic lock of markPaid would leave.
RowLockNoneInPay(pc) == IF pc = "paying" THEN "NONE" ELSE "UPDATE"

\* The lock with which transition() and markPaid() read the expense request.
RowLock(pc) == "UPDATE"

HeldModes(r, e) ==
  {m \in LockModes :
     /\ req[r].expense = e
     /\ \/ m = "KEY SHARE" /\ req[r].pc \in {"inserted", "paying"}
        \/ m = RowLock(req[r].pc) /\ req[r].pc \in {"locked", "paying"}}

MayLock(r, e, mode) ==
  \A s \in Requests \ {r} : HeldModes(s, e) \cap WaitsFor(mode) = {}

\* markPaid() of r waits for a lock of s. (Nothing else waits that others wait for,
\* but an INSERT that has its key in the index and wants KEY SHARE; and whom that
\* one waits for waits for nobody.)
Awaits(r, s) ==
  /\ r # s /\ req[r].pc = "inserted" /\ req[r].expense # Null
  /\ HeldModes(s, req[r].expense) \cap WaitsFor(RowLock("paying")) # {}

\* What is left of it without the detector.
NeverDeadlocked(r) == FALSE

\* PostgreSQL finds out after deadlock_timeout, and fails one of the two.
Deadlocked(r) == \E s \in Requests : Awaits(r, s) /\ Awaits(s, r)

\* A committed row has the key.
KeyTaken(k) == \E i \in DOMAIN payments : payments[i].key = k

\* An INSERT waits for a transaction that has inserted the same key, to see
\* whether it commits.
KeyFree(r, k) ==
  \A s \in Requests \ {r} : req[s].pc \in {"inserted", "paying"} => req[s].key # k

PaymentOf(k) == CHOOSE i \in DOMAIN payments : payments[i].key = k

-----------------------------------------------------------------------------
(* ExpenseRequestsService.                                                  *)

Create(e, a) ==
  /\ expenses[e] = Null
  /\ expenses' = [expenses EXCEPT ![e] =
                    [status |-> "DRAFT", account |-> a, payment |-> 0]]
  /\ UNCHANGED <<approvals, payments, answers, req>>

\* update(): findOne without a lock, the checks, and the edits in memory.
UpdateRead(r, e, a) ==
  /\ expenses[e] # Null /\ expenses[e].status \in Editable
  /\ Start(r, [IdleRequest EXCEPT !.pc = "load", !.expense = e,
                 !.mem = [expenses[e] EXCEPT !.status = "DRAFT", !.account = a]])
  /\ UNCHANGED <<expenses, approvals, payments, answers>>

\* save() reads the row again, and finds the columns to write.
UpdateLoad(r) ==
  LET row == expenses[req[r].expense] IN
  /\ req[r].pc = "load"
  /\ req' = [req EXCEPT ![r].pc = "write",
                        ![r].diff = {c \in Columns : req[r].mem[c] # row[c]}]
  /\ UNCHANGED <<expenses, approvals, payments, answers>>

\* The row that this UPDATE leaves.
Saved(mem, diff, row) ==
  [row EXCEPT !.status  = IF "status"  \in diff THEN mem.status  ELSE @,
              !.account = IF "account" \in diff THEN mem.account ELSE @,
              !.payment = IF "payment" \in diff THEN mem.payment ELSE @]

\* save() writes them.
UpdateCommit(r) ==
  LET e == req[r].expense
      diff == req[r].diff IN
  /\ req[r].pc = "write"
  /\ diff # {} => MayLock(r, e, "NO KEY UPDATE")
  /\ expenses' = [expenses EXCEPT ![e] = Saved(req[r].mem, diff, @)]
  /\ Finish(r)
  /\ UNCHANGED <<approvals, payments, answers>>

\* transition(): the row FOR UPDATE, and the check of the table.
\* Bound: approvals.
LockExpense(r, e, next) ==
  /\ expenses[e] # Null /\ next \in Allowed(expenses[e].status)
  /\ next = "APPROVED" => approvals[e] < MaxApprovals
  /\ MayLock(r, e, RowLock("locked"))
  /\ Start(r, [IdleRequest EXCEPT !.pc = "locked", !.expense = e, !.next = next,
                                  !.mem = expenses[e]])
  /\ UNCHANGED <<expenses, approvals, payments, answers>>

\* save(), the row of expense_request_approvals, the audit row, the commit.
CommitTransition(r) ==
  LET e == req[r].expense
      next == req[r].next IN
  /\ req[r].pc = "locked"
  /\ expenses' = [expenses EXCEPT ![e] = [req[r].mem EXCEPT !.status = next]]
  /\ approvals' = [approvals EXCEPT ![e] = IF next = "APPROVED" THEN @ + 1 ELSE @]
  /\ Finish(r)
  /\ UNCHANGED <<payments, answers>>

-----------------------------------------------------------------------------
(* PaymentsService.execute.                                                 *)

\* The pre-check on the key; then the transaction begins.
\* Bound: payments, those under way included.
Ask(r, k, e) ==
  /\ e # Null => expenses[e] # Null
  /\ LET call == [IdleRequest EXCEPT !.key = k, !.expense = e]
     IN IF KeyTaken(k)
          THEN Start(r, [call EXCEPT !.pc = "answer", !.payment = PaymentOf(k)])
          ELSE /\ Len(payments) + Cardinality({s \in Requests : req[s].key # Null})
                    < MaxPayments
               /\ Start(r, [call EXCEPT !.pc = IF e = Null THEN "insert" ELSE "read"])
  /\ UNCHANGED <<expenses, approvals, payments, answers>>

\* The expense request, read without a lock: its account will be debited.
ReadExpense(r) ==
  /\ req[r].pc = "read"
  /\ req' = [req EXCEPT ![r].pc = "insert",
                        ![r].account = expenses[req[r].expense].account]
  /\ UNCHANGED <<expenses, approvals, payments, answers>>

\* What is left of the INSERT without the unique index.
InsertUnchecked(r) ==
  LET e == req[r].expense IN
  /\ req[r].pc = "insert"
  /\ e # Null => MayLock(r, e, "KEY SHARE")
  /\ Step(r, "inserted")
  /\ UNCHANGED <<expenses, approvals, payments, answers>>

\* The INSERT of the payment, first into the index, then the check of the foreign
\* key; and its posting to the ledger.
InsertPayment(r) ==
  LET e == req[r].expense IN
  /\ req[r].pc = "insert"
  /\ KeyFree(r, req[r].key) /\ ~KeyTaken(req[r].key)
  /\ e # Null => MayLock(r, e, "KEY SHARE")
  /\ Step(r, "inserted")
  /\ UNCHANGED <<expenses, approvals, payments, answers>>

\* The INSERT violates the unique index: the transaction is rolled back.
InsertFails(r) ==
  /\ req[r].pc = "insert"
  /\ KeyFree(r, req[r].key) /\ KeyTaken(req[r].key)
  /\ Step(r, "lost")
  /\ UNCHANGED <<expenses, approvals, payments, answers>>

\* What a catch clause would do that answers with the payment just undone.
FindPending(r) ==
  /\ req[r].pc = "lost"
  /\ req' = [req EXCEPT ![r].pc = "answer", ![r].payment = Len(payments) + 1]
  /\ UNCHANGED <<expenses, approvals, payments, answers>>

\* The catch clause: the winner's row is the answer.
FindWinner(r) ==
  /\ req[r].pc = "lost"
  /\ req' = [req EXCEPT ![r].pc = "answer", ![r].payment = PaymentOf(req[r].key)]
  /\ UNCHANGED <<expenses, approvals, payments, answers>>

\* What a markPaid() that does not look at the status would do.
LockPaidUnchecked(r) ==
  LET e == req[r].expense IN
  /\ req[r].pc = "inserted" /\ e # Null
  /\ MayLock(r, e, RowLock("paying"))
  /\ req' = [req EXCEPT ![r].pc = "paying", ![r].mem = expenses[e]]
  /\ UNCHANGED <<expenses, approvals, payments, answers>>

\* markPaid(): the row FOR UPDATE, for which it waits until every other payment of
\* the expense request has ended; unless it is APPROVED the payment is undone.
LockPaid(r) ==
  LET e == req[r].expense IN
  /\ req[r].pc = "inserted" /\ e # Null
  /\ MayLock(r, e, RowLock("paying"))
  /\ IF expenses[e].status = "APPROVED"
       THEN req' = [req EXCEPT ![r].pc = "paying", ![r].mem = expenses[e]]
       ELSE Finish(r)
  /\ UNCHANGED <<expenses, approvals, payments, answers>>

\* The saves of markPaid() and markAccounted(), the audit row, the commit.
CommitPayment(r) ==
  LET e == req[r].expense
      n == Len(payments) + 1 IN
  /\ IF e = Null THEN req[r].pc = "inserted"
                 ELSE req[r].pc = "paying" /\ MayLock(r, e, "NO KEY UPDATE")
  /\ payments' = Append(payments, [key |-> req[r].key, expense |-> e,
                                   account |-> req[r].account])
  /\ expenses' = IF e = Null THEN expenses
                 ELSE [expenses EXCEPT ![e] = [req[r].mem EXCEPT
                         !.status = "ACCOUNTED", !.payment = n]]
  /\ req' = [req EXCEPT ![r] = [IdleRequest EXCEPT !.pc = "answer",
                                  !.key = req[r].key, !.payment = n]]
  /\ UNCHANGED <<approvals, answers>>

\* The answer reaches the client.
Answer(r) ==
  /\ req[r].pc = "answer"
  /\ answers' = answers \cup {<<req[r].key, req[r].payment>>}
  /\ Finish(r)
  /\ UNCHANGED <<expenses, approvals, payments>>

\* Any transaction may be lost at any statement, by a timeout, a posting that
\* the ledger refuses or a crash, and any answer on its way.
Rollback(r) ==
  /\ req[r].pc # "idle"
  /\ Finish(r)
  /\ UNCHANGED <<expenses, approvals, payments, answers>>

BreakDeadlock(r) ==
  /\ Deadlocked(r)
  /\ Finish(r)
  /\ UNCHANGED <<expenses, approvals, payments, answers>>

-----------------------------------------------------------------------------
\* The steps by which a request that has started gets on.
Advance(r) ==
  \/ UpdateLoad(r)
  \/ UpdateCommit(r)
  \/ CommitTransition(r)
  \/ ReadExpense(r)
  \/ InsertPayment(r)
  \/ InsertFails(r)
  \/ FindWinner(r)
  \/ LockPaid(r)
  \/ CommitPayment(r)
  \/ Answer(r)

Next ==
  \/ \E e \in ExpenseIds, a \in Accounts : Create(e, a)
  \/ \E r \in Requests :
       \/ \E e \in ExpenseIds, a \in Accounts : UpdateRead(r, e, a)
       \/ \E e \in ExpenseIds, next \in Targets : LockExpense(r, e, next)
       \/ \E k \in Keys, e \in ExpenseIds \cup {Null} : Ask(r, k, e)
       \/ Advance(r)
       \/ Rollback(r)
       \/ BreakDeadlock(r)

Spec == Init /\ [][Next]_vars

\* PostgreSQL queues the waiters of a row and of a key, so that what comes free
\* often enough is given, and looks for a deadlock whenever one has waited for
\* deadlock_timeout. Nothing else needs to be rolled back.
Fairness ==
  /\ \A r \in Requests : SF_vars(Advance(r))
  /\ WF_vars(\E r \in Requests : BreakDeadlock(r))

FairSpec == Spec /\ Fairness

-----------------------------------------------------------------------------
(* Properties.                                                              *)

TypeOK ==
  /\ expenses \in [ExpenseIds -> Expense \cup {Null}]
  /\ approvals \in [ExpenseIds -> Nat]
  /\ payments \in Seq(Payment)
  /\ answers \subseteq Keys \X (1..Len(payments))
  /\ req \in [Requests -> Request]

\* The idempotency contract (payments.service.ts:31-37): under any concurrency
\* of requests and retries, with lost answers and rolled back attempts, a key
\* is executed at most once and every answer is that execution.
Promise == INSTANCE AtMostOnce WITH
  executions <- [i \in DOMAIN payments |-> payments[i].key]

ImplementsAtMostOnce == Promise!Spec

\* Each approval is good for one payment: an expense request has no more
\* payments, counting the one it is approved for now, than approvals -
\* whatever stale updates do to its status.
ApprovalPaidOnce ==
  \A e \in ExpenseIds :
    Cardinality({i \in DOMAIN payments : payments[i].expense = e})
      + (IF expenses[e] # Null /\ expenses[e].status = "APPROVED" THEN 1 ELSE 0)
      <= approvals[e]

\* A payment and what it does to its expense request are one step: the request
\* was APPROVED until then, keeps what others have written to it, and names the
\* payment from then on (markPaid, markAccounted).
PaysTheApproved ==
  [][\A i \in DOMAIN payments' \ DOMAIN payments :
       LET e == payments'[i].expense IN
       e # Null => /\ expenses[e].status = "APPROVED"
                   /\ expenses'[e] = [expenses[e] EXCEPT !.status = "ACCOUNTED",
                                                         !.payment = i]]_vars

\* Every request ends with no help but that of the deadlock detector, which two
\* payments of one expense request need: each of them keeps KEY SHARE of the row
\* that markPaid() of the other wants FOR UPDATE. Waiting for a key is never part
\* of such a circle.
EveryRequestEnds == \A r \in Requests : []<>(req[r].pc = "idle")

\* expense-request.entity.ts:25: the account of an expense request is debited
\* when the request is paid. The code reads it before the payment is inserted,
\* and does not read it again once the request is locked.
DebitsItsAccount ==
  [][\A i \in DOMAIN payments' \ DOMAIN payments :
       LET e == payments'[i].expense IN
       e # Null => payments'[i].account = expenses[e].account]_vars

=============================================================================
