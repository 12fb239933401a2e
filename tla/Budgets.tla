------------------------------- MODULE Budgets -------------------------------
(***************************************************************************)
(* BudgetsService: a budget is edited while it is a draft, approved, and   *)
(* closed; its execution compares its lines with the ledger.               *)
(*                                                                         *)
(* budgets and lines are the committed tables; what a transaction will     *)
(* write is in its request. Periods and accounts are never deleted, so     *)
(* that the reads that only check that they exist are left out. The lines  *)
(* of a budget are one value: they are written together.                   *)
(***************************************************************************)
EXTENDS Serving

CONSTANTS
  BudgetIds,
  Periods,
  LineSets,   \* the lines of a budget, all together
  Approvers

VARIABLES
  budgets,  \* [BudgetIds -> Budget or Null]
  lines     \* budget_lines: [BudgetIds -> LineSets or Null]

budgetVars == <<budgets, lines>>

-----------------------------------------------------------------------------
BudgetStatus == {"DRAFT", "APPROVED", "CLOSED"}

AllowedBudget(s) ==
  CASE s = "DRAFT"    -> {"APPROVED"}
    [] s = "APPROVED" -> {"CLOSED"}
    [] OTHER          -> {}

\* approvedAt is assigned with approvedByUserId.
Budget == [period : Periods, status : BudgetStatus,
           approvedBy : Approvers \cup {Null}]

\* The fields an update may carry, each or not.
BudgetInput == [period : Periods \cup {Null}, lines : LineSets \cup {Null}]

\* A transition: to approve names the approver, to close does not.
BudgetMove == [next : {"APPROVED"}, by : Approvers]
                \cup [next : {"CLOSED"}, by : {Null}]

\* How a request is on a budget.
BudgetOps == {"create budget", "update budget", "move budget", "read budget"}

ASSUME NullIsNoBudget == Null \notin Budget \cup LineSets \cup Approvers

\* The header and the lines, as findById has read them.
Answer == [header : Budget, lines : LineSets]

BudgetRequest ==
  [op : {"create budget"}, pc : {"insert"}, row : BudgetIds, mem : {Null},
   arg : [period : Periods, lines : LineSets]]
    \cup
  [op : {"update budget"}, pc : {"lock", "save"}, row : BudgetIds,
   mem : Budget \cup {Null}, arg : BudgetInput]
    \cup
  [op : {"move budget"}, pc : {"lock", "save"}, row : BudgetIds,
   mem : Budget \cup {Null}, arg : BudgetMove]
    \cup
  [op : {"read budget"}, pc : {"header", "lines", "answer"}, row : BudgetIds,
   mem : Budget \cup Answer \cup {Null}, arg : {Null}]

BudgetInit ==
  /\ budgets = [b \in BudgetIds |-> Null]
  /\ lines = [b \in BudgetIds |-> Null]

-----------------------------------------------------------------------------
\* FOR UPDATE in update() and in transition(), until the commit.
LocksBudget(r) ==
  req[r].op \in {"update budget", "move budget"} /\ req[r].pc = "save"

\* Reading without the lock would be this.
NoLock(r) == TRUE

MayLockBudget(r) ==
  \A s \in Requests \ {r} : LocksBudget(s) => req[s].row # req[r].row

\* The new id is a uuid: nobody else has it.
BeginCreateBudget(r) ==
  \E b \in BudgetIds, p \in Periods, l \in LineSets :
    /\ budgets[b] = Null
    /\ \A s \in Requests : req[s].op = "create budget" => req[s].row # b
    /\ Begin(r, "create budget", "insert", b, [period |-> p, lines |-> l])

BeginBudgetRequest(r) ==
  \E b \in BudgetIds :
    \/ \E i \in BudgetInput : Begin(r, "update budget", "lock", b, i)
    \/ \E m \in BudgetMove : Begin(r, "move budget", "lock", b, m)
    \/ Begin(r, "read budget", "header", b, Null)

\* replaceLines(): the lines are deleted and others inserted.
ReplaceLines(b, l) == lines' = [lines EXCEPT ![b] = l]

\* The budget, its lines and the audit row, in one transaction.
CommitNewBudget(r) ==
  LET b == req[r].row IN
  /\ At(r, "create budget", "insert")
  /\ budgets' = [budgets EXCEPT ![b] = [period |-> req[r].arg.period,
                                        status |-> "DRAFT", approvedBy |-> Null]]
  /\ ReplaceLines(b, req[r].arg.lines)
  /\ Finish(r)

\* The row is read under the lock and its status checked; what does not pass ends
\* the request.
LockForUpdate(r) ==
  LET b == req[r].row IN
  /\ At(r, "update budget", "lock")
  /\ MayLockBudget(r)
  /\ IF budgets[b] # Null /\ budgets[b].status = "DRAFT"
       THEN Proceed(r, "save", budgets[b])
       ELSE Finish(r)
  /\ UNCHANGED budgetVars

\* The header is saved, then the lines replaced, then the commit.
CommitUpdate(r) ==
  LET b == req[r].row
      input == req[r].arg IN
  /\ At(r, "update budget", "save")
  /\ budgets' = [budgets EXCEPT ![b] =
                   IF input.period = Null THEN req[r].mem
                     ELSE [req[r].mem EXCEPT !.period = input.period]]
  /\ IF input.lines = Null THEN UNCHANGED lines ELSE ReplaceLines(b, input.lines)
  /\ Finish(r)

LockForMove(r) ==
  LET b == req[r].row IN
  /\ At(r, "move budget", "lock")
  /\ MayLockBudget(r)
  /\ IF budgets[b] # Null /\ req[r].arg.next \in AllowedBudget(budgets[b].status)
       THEN Proceed(r, "save", budgets[b])
       ELSE Finish(r)
  /\ UNCHANGED budgetVars

\* Closing leaves approvedByUserId as it is.
CommitMove(r) ==
  LET b == req[r].row
      move == req[r].arg IN
  /\ At(r, "move budget", "save")
  /\ budgets' = [budgets EXCEPT ![b] =
                   [req[r].mem EXCEPT !.status = move.next,
                                      !.approvedBy = IF move.next = "APPROVED"
                                                       THEN move.by ELSE @]]
  /\ UNCHANGED lines
  /\ Finish(r)

\* findById, of getExecution and of the request for a budget: the header, and
\* then the lines, in two statements.
ReadHeader(r) ==
  LET b == req[r].row IN
  /\ At(r, "read budget", "header")
  /\ IF budgets[b] # Null THEN Proceed(r, "lines", budgets[b]) ELSE Finish(r)
  /\ UNCHANGED budgetVars

ReadLines(r) ==
  /\ At(r, "read budget", "lines")
  /\ Proceed(r, "answer", [header |-> req[r].mem, lines |-> lines[req[r].row]])
  /\ UNCHANGED budgetVars

\* The sums over the ledger, whose arithmetic is in Books, and the answer.
AnswerBudget(r) ==
  /\ At(r, "read budget", "answer")
  /\ Finish(r)
  /\ UNCHANGED budgetVars

\* lock_timeout, statement_timeout, a failed statement.
RollbackBudget(r) ==
  /\ req[r].op \in BudgetOps
  /\ Finish(r)
  /\ UNCHANGED budgetVars

BudgetStep(r) ==
  \/ (BeginCreateBudget(r) \/ BeginBudgetRequest(r)) /\ UNCHANGED budgetVars
  \/ CommitNewBudget(r)
  \/ LockForUpdate(r)
  \/ CommitUpdate(r)
  \/ LockForMove(r)
  \/ CommitMove(r)
  \/ ReadHeader(r)
  \/ ReadLines(r)
  \/ AnswerBudget(r)
  \/ RollbackBudget(r)

-----------------------------------------------------------------------------
(* Properties.                                                              *)

BudgetTypeOK ==
  /\ budgets \in [BudgetIds -> Budget \cup {Null}]
  /\ lines \in [BudgetIds -> LineSets \cup {Null}]
  /\ \A b \in BudgetIds : (budgets[b] = Null) = (lines[b] = Null)
  /\ \A r \in Requests : req[r].op \in BudgetOps => req[r] \in BudgetRequest

\* What was approved stays: the period and the lines of a budget that is no draft
\* and the name of its approver never change, though an update that is under way
\* has read a draft and two approvals may run at once
\* (budgets.service.ts:68-110, 181-204).
ApprovedIsFrozen(b) ==
  budgets[b] # Null /\ budgets[b].status # "DRAFT" =>
    /\ budgets'[b].period = budgets[b].period
    /\ budgets'[b].approvedBy = budgets[b].approvedBy
    /\ budgets'[b].status \in {budgets[b].status, "CLOSED"}
    /\ lines'[b] = lines[b]

\* The execution of a budget whose header was read as approved is that of the
\* lines that were approved, although the lines are read by a later statement;
\* of a draft the two may be of different versions
\* (budgets.service.ts:61-66, 114-142).
AnswersWhatWasApproved ==
  \A r \in Requests : At(r, "read budget", "answer") =>
    LET b == req[r].row
        header == req[r].mem.header IN
    header.status # "DRAFT" =>
      /\ req[r].mem.lines = lines[b]
      /\ header.period = budgets[b].period
      /\ header.approvedBy = budgets[b].approvedBy
      /\ header.approvedBy # Null

=============================================================================
