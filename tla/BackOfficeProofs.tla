-------------------------- MODULE BackOfficeProofs --------------------------
(***************************************************************************)
(* Theorems about BackOffice, for any number of requests, budgets, rows,   *)
(* keys and rates, and any bound on the requests that are begun.           *)
(*                                                                         *)
(* The invariant says of the record of each request how what it has in     *)
(* memory relates to the tables as they are now: a budget that is locked   *)
(* is the one in memory, a header that was read as approved is still that  *)
(* of its budget, a row in memory is of the kind of the row it was.        *)
(***************************************************************************)
EXTENDS BackOffice, TLAPS

Columns == {"op", "pc", "row", "mem", "arg"}

IsRequest(q) == q = [c \in Columns |-> q[c]]

-----------------------------------------------------------------------------
(* Requests on budgets.                                                     *)

\* BudgetRequest, operation by operation.
BudgetForm(q) ==
  /\ IsRequest(q) /\ q.row \in BudgetIds
  /\ \/ /\ q.op = "create budget" /\ q.pc = "insert" /\ q.mem = Null
        /\ q.arg \in [period : Periods, lines : LineSets]
     \/ /\ q.op = "update budget" /\ q.pc \in {"lock", "save"}
        /\ q.mem \in Budget \cup {Null} /\ q.arg \in BudgetInput
     \/ /\ q.op = "move budget" /\ q.pc \in {"lock", "save"}
        /\ q.mem \in Budget \cup {Null} /\ q.arg \in BudgetMove
     \/ /\ q.op = "read budget" /\ q.pc \in {"header", "lines", "answer"}
        /\ q.mem \in Budget \cup Answer \cup {Null} /\ q.arg = Null

LEMMA BudgetForms ==
  ASSUME NEW q, BudgetForm(q) PROVE q \in BudgetRequest
  BY DEF BudgetForm, IsRequest, Columns, BudgetRequest

Locks(q) == q.op \in {"update budget", "move budget"} /\ q.pc = "save"

\* A header h that was read is that of budget b but for the status, unless it was
\* that of a draft.
Known(h, b) ==
  /\ h \in Budget /\ budgets[b] # Null
  /\ h.status # "DRAFT" =>
       /\ budgets[b].status # "DRAFT" /\ h.approvedBy # Null
       /\ budgets[b].period = h.period /\ budgets[b].approvedBy = h.approvedBy

OfBudgetRequest(q) ==
  q.op \in BudgetOps =>
    /\ BudgetForm(q)
    /\ q.op = "create budget" => budgets[q.row] = Null
    /\ Locks(q) => q.mem = budgets[q.row] /\ q.mem # Null
    /\ q.op = "update budget" /\ q.pc = "save" => q.mem.status = "DRAFT"
    /\ q.op = "move budget" /\ q.pc = "save" => q.arg.next \in AllowedBudget(q.mem.status)
    /\ q.op = "read budget" /\ q.pc = "lines" => Known(q.mem, q.row)
    /\ q.op = "read budget" /\ q.pc = "answer" =>
         /\ Known(q.mem.header, q.row)
         /\ q.mem.header.status # "DRAFT" => q.mem.lines = lines[q.row]

OfBudget(b) ==
  /\ budgets[b] = Null <=> lines[b] = Null
  /\ budgets[b] # Null /\ budgets[b].status # "DRAFT" => budgets[b].approvedBy # Null

\* Two requests that shut each other out.
Rivals(p, q) ==
  /\ p.row = q.row
  /\ \/ p.op = "create budget" /\ q.op = "create budget"
     \/ Locks(p) /\ Locks(q)

BudgetsInv ==
  /\ budgets \in [BudgetIds -> Budget \cup {Null}]
  /\ lines \in [BudgetIds -> LineSets \cup {Null}]
  /\ \A b \in BudgetIds : OfBudget(b)
  /\ \A r \in Requests : OfBudgetRequest(req[r])
  /\ \A r, s \in Requests : r # s => ~Rivals(req[r], req[s])

\* The records of the requests.
ServingInv ==
  /\ served \in 0..MaxServed
  /\ req = [r \in Requests |-> req[r]]
  /\ \A r \in Requests :
       /\ IsRequest(req[r])
       /\ req[r] = IdleRequest \/ req[r].op \in BudgetOps \cup RegisterOps

-----------------------------------------------------------------------------
LEMMA IdleIsFine ==
  /\ IsRequest(IdleRequest) /\ IdleRequest.op = "none" /\ IdleRequest.mem = Null
  /\ IdleRequest.op \notin BudgetOps \cup RegisterOps
  BY DEF IsRequest, Columns, IdleRequest, BudgetOps, RegisterOps

LEMMA OpsDiffer == \A op \in RegisterOps : op \notin BudgetOps
  BY DEF RegisterOps, BudgetOps

\* Only the record of r changes.
OnlyAt(r) ==
  /\ \A s \in Requests \ {r} : req'[s] = req[s]
  /\ req' = [s \in Requests |-> req'[s]]

\* A request's record becomes q.
LEMMA Becomes ==
  ASSUME ServingInv, NEW r \in Requests, NEW q, req' = [req EXCEPT ![r] = q]
  PROVE  req'[r] = q /\ OnlyAt(r)
  BY DEF ServingInv, OnlyAt

\* What the steps of Serving do to the record of a request.
LEMMA Begins ==
  ASSUME NEW r \in Requests, NEW op, NEW pc, NEW row, NEW arg,
         Begin(r, op, pc, row, arg), ServingInv
  PROVE  /\ OnlyAt(r) /\ served' \in 0..MaxServed
         /\ IsRequest(req'[r]) /\ req'[r].op = op /\ req'[r].pc = pc
         /\ req'[r].row = row /\ req'[r].mem = Null /\ req'[r].arg = arg
  <1> DEFINE q == [op |-> op, pc |-> pc, row |-> row, mem |-> Null, arg |-> arg]
  <1>1. req' = [req EXCEPT ![r] = q] /\ served' \in 0..MaxServed
    BY BoundAssumption DEF Begin, ServingInv
  <1>2. IsRequest(q) /\ q.op = op /\ q.pc = pc /\ q.row = row /\ q.mem = Null /\ q.arg = arg
    BY DEF IsRequest, Columns
  <1> HIDE DEF q
  <1>3. req'[r] = q /\ OnlyAt(r)
    BY <1>1, Becomes
  <1> QED BY <1>1, <1>2, <1>3

LEMMA Proceeds ==
  ASSUME NEW r \in Requests, NEW pc, NEW mem, Proceed(r, pc, mem), ServingInv
  PROVE  /\ OnlyAt(r) /\ served' = served
         /\ IsRequest(req'[r]) /\ req'[r].op = req[r].op /\ req'[r].pc = pc
         /\ req'[r].row = req[r].row /\ req'[r].mem = mem /\ req'[r].arg = req[r].arg
  <1>1. PICK p : p = req[r] /\ IsRequest(p)
    BY DEF ServingInv
  <1> DEFINE q == [p EXCEPT !.pc = pc, !.mem = mem]
  <1>2. req' = [req EXCEPT ![r] = q] /\ served' = served
    BY <1>1 DEF Proceed, ServingInv
  <1>3. /\ IsRequest(q) /\ q.op = p.op /\ q.pc = pc /\ q.row = p.row /\ q.mem = mem
        /\ q.arg = p.arg
    BY <1>1 DEF IsRequest, Columns
  <1> HIDE DEF q
  <1>4. req'[r] = q /\ OnlyAt(r)
    BY <1>2, Becomes
  <1> QED BY <1>1, <1>2, <1>3, <1>4

LEMMA Finishes ==
  ASSUME NEW r \in Requests, Finish(r), ServingInv
  PROVE  OnlyAt(r) /\ served' = served /\ req'[r] = IdleRequest
  BY Becomes DEF Finish

LEMMA ServingStays ==
  ASSUME ServingInv, NEW r \in Requests, OnlyAt(r), NEW q, req'[r] = q,
         IsRequest(q), q = IdleRequest \/ q.op \in BudgetOps \cup RegisterOps,
         served' \in 0..MaxServed
  PROVE  ServingInv'
  <1>1. ASSUME NEW s \in Requests
        PROVE  /\ IsRequest(req'[s])
               /\ req'[s] = IdleRequest \/ req'[s].op \in BudgetOps \cup RegisterOps
    <2>1. CASE s = r
      BY <2>1
    <2>2. CASE s # r
      BY <2>2 DEF ServingInv, OnlyAt
    <2> QED BY <2>1, <2>2
  <1> QED BY <1>1 DEF ServingInv, IsRequest, OnlyAt

-----------------------------------------------------------------------------
(* Steps on budgets.                                                        *)

\* A request goes on, or begins, or ends; no table changes.
LEMMA BudgetsStay ==
  ASSUME BudgetsInv, ServingInv, NEW r \in Requests, NEW q,
         OnlyAt(r), req'[r] = q, budgets' = budgets, lines' = lines,
         OfBudgetRequest(q), \A s \in Requests \ {r} : ~Rivals(q, req[s])
  PROVE  BudgetsInv'
  <1>1. /\ req'[r] = q
        /\ \A s \in Requests \ {r} : req'[s] = req[s]
    BY DEF OnlyAt
  <1>2. ASSUME NEW s \in Requests PROVE OfBudgetRequest(req[s])'
    <2>1. OfBudgetRequest(req'[s])
      BY <1>1 DEF BudgetsInv
    <2> QED BY <2>1 DEF OfBudgetRequest, Known
  <1>3. ASSUME NEW a \in Requests, NEW b \in Requests, a # b
        PROVE  ~Rivals(req'[a], req'[b])
    <2>1. CASE a = r
      BY <1>1, <1>3, <2>1
    <2>2. CASE b = r
      BY <1>1, <1>3, <2>2 DEF Rivals
    <2>3. CASE a # r /\ b # r
      BY <1>1, <1>3, <2>3 DEF BudgetsInv
    <2> QED BY <2>1, <2>2, <2>3
  <1>4. \A b \in BudgetIds : OfBudget(b)'
    BY DEF BudgetsInv, OfBudget
  <1>5. ASSUME NEW a \in Requests, NEW b \in Requests, a # b
        PROVE  ~Rivals(req[a], req[b])'
    BY <1>3, <1>5 DEF Rivals, Locks
  <1> QED BY <1>2, <1>4, <1>5 DEF BudgetsInv

LEMMA IdleBudget ==
  /\ OfBudgetRequest(IdleRequest)
  /\ \A q : ~Rivals(IdleRequest, q)
  BY IdleIsFine DEF OfBudgetRequest, Rivals, Locks, BudgetOps

\* A request ends without a trace.
LEMMA BudgetRequestEnds ==
  ASSUME BudgetsInv, ServingInv, NEW r \in Requests, Finish(r), UNCHANGED budgetVars
  PROVE  BudgetsInv'
  BY BudgetsStay, IdleBudget, Finishes DEF budgetVars

Frozen == \A b \in BudgetIds : ApprovedIsFrozen(b)

\* A request that had budget t to itself writes it, and ends.
LEMMA BudgetWritten ==
  ASSUME BudgetsInv, ServingInv, NEW r \in Requests, NEW t \in BudgetIds,
         req[r].row = t, req[r].op = "create budget" \/ Locks(req[r]),
         Finish(r),
         budgets' \in [BudgetIds -> Budget \cup {Null}],
         lines' \in [BudgetIds -> LineSets \cup {Null}],
         \A b \in BudgetIds \ {t} : budgets'[b] = budgets[b] /\ lines'[b] = lines[b],
         OfBudget(t)', budgets'[t] # Null, ApprovedIsFrozen(t)
  PROVE  BudgetsInv' /\ Frozen
  <1>1. /\ req'[r] = IdleRequest
        /\ \A s \in Requests \ {r} : req'[s] = req[s]
    BY Finishes DEF OnlyAt
  <1>2. \A b \in BudgetIds : OfBudget(b)'
    <2>1. \A b \in BudgetIds : OfBudget(b)
      BY DEF BudgetsInv
    <2>2. \A b \in BudgetIds \ {t} : OfBudget(b)'
      BY <2>1 DEF OfBudget
    <2> QED BY <2>2 DEF OfBudget
  <1>3. Frozen
    BY DEF Frozen, ApprovedIsFrozen
  <1>4. \A b \in BudgetIds : budgets[b] # Null => budgets'[b] # Null
    OBVIOUS
  <1>5. ASSUME NEW s \in Requests PROVE OfBudgetRequest(req[s])'
    <2>1. CASE s = r
      BY <1>1, <2>1, IdleIsFine DEF OfBudgetRequest
    <2>2. CASE s # r
      <3>1. PICK q : q = req[s]
        OBVIOUS
      <3>2. /\ req'[s] = q /\ OfBudgetRequest(q)
            /\ ~Rivals(req[r], q) /\ OfBudgetRequest(req[r])
        BY <1>1, <2>2, <3>1 DEF BudgetsInv
      <3> SUFFICES ASSUME q.op \in BudgetOps PROVE OfBudgetRequest(q)'
        BY <3>2 DEF OfBudgetRequest
      <3>3. q.row \in BudgetIds /\ BudgetForm(q)
        BY <3>2 DEF OfBudgetRequest, BudgetForm
      <3>4. ASSUME q.op = "create budget" \/ Locks(q) PROVE q.row # t
        <4>1. budgets[t] = Null <=> req[r].op = "create budget"
          BY <3>2 DEF OfBudgetRequest, Locks, BudgetOps
        <4>2. q.row = t => (budgets[t] = Null <=> q.op = "create budget")
          BY <3>2, <3>4 DEF OfBudgetRequest, Locks
        <4> QED BY <3>2, <3>4, <4>1, <4>2 DEF Rivals, Locks
      <3>5. \A h : Known(h, q.row) => Known(h, q.row)'
        BY <1>3, <1>4, <3>3 DEF Known, Frozen, ApprovedIsFrozen
      <3>6. q.op = "create budget" => budgets'[q.row] = Null
        BY <3>2, <3>3, <3>4 DEF OfBudgetRequest
      <3>7. Locks(q) => q.mem = budgets'[q.row] /\ q.mem # Null
        BY <3>2, <3>3, <3>4 DEF OfBudgetRequest
      <3>8. q.op = "read budget" /\ q.pc = "answer" =>
              /\ Known(q.mem.header, q.row)'
              /\ q.mem.header.status # "DRAFT" => q.mem.lines = lines'[q.row]
        <4> SUFFICES ASSUME q.op = "read budget", q.pc = "answer"
                     PROVE  /\ Known(q.mem.header, q.row)'
                            /\ q.mem.header.status # "DRAFT" => q.mem.lines = lines'[q.row]
          OBVIOUS
        <4>1. /\ Known(q.mem.header, q.row)
              /\ q.mem.header.status # "DRAFT" => q.mem.lines = lines[q.row]
          BY <3>2 DEF OfBudgetRequest
        <4>2. q.mem.header.status # "DRAFT" => lines'[q.row] = lines[q.row]
          BY <1>3, <3>3, <4>1 DEF Known, Frozen, ApprovedIsFrozen
        <4> QED BY <3>5, <4>1, <4>2
      <3> QED BY <3>2, <3>3, <3>5, <3>6, <3>7, <3>8 DEF OfBudgetRequest
    <2> QED BY <2>1, <2>2
  <1>6. ASSUME NEW a \in Requests, NEW b \in Requests, a # b
        PROVE  ~Rivals(req'[a], req'[b])
    <2>1. CASE a = r \/ b = r
      BY <1>1, <2>1, IdleIsFine DEF Rivals, Locks
    <2>2. CASE a # r /\ b # r
      BY <1>1, <1>6, <2>2 DEF BudgetsInv
    <2> QED BY <2>1, <2>2
  <1>7. ASSUME NEW a \in Requests, NEW b \in Requests, a # b
        PROVE  ~Rivals(req[a], req[b])'
    BY <1>6, <1>7 DEF Rivals, Locks
  <1> QED BY <1>2, <1>3, <1>5, <1>7 DEF BudgetsInv

LEMMA NoRival ==
  ASSUME NEW p, NEW q, p.op # "create budget", ~Locks(p)
  PROVE  ~Rivals(p, q)
  BY DEF Rivals

LEMMA InvBeginCreateBudget ==
  ASSUME BudgetsInv, ServingInv, NEW r \in Requests, BeginCreateBudget(r),
         UNCHANGED budgetVars
  PROVE  BudgetsInv'
  <1>1. PICK b \in BudgetIds, p \in Periods, l \in LineSets :
          /\ budgets[b] = Null
          /\ \A s \in Requests : req[s].op = "create budget" => req[s].row # b
          /\ Begin(r, "create budget", "insert", b, [period |-> p, lines |-> l])
    BY DEF BeginCreateBudget
  <1>q. PICK q : q = req'[r]
    OBVIOUS
  <1> DEFINE input == [period |-> p, lines |-> l]
  <1>0. input \in [period : Periods, lines : LineSets]
    OBVIOUS
  <1>6. Begin(r, "create budget", "insert", b, input)
    BY <1>1
  <1> HIDE DEF input
  <1>2. /\ OnlyAt(r) /\ IsRequest(q)
        /\ q.op = "create budget" /\ q.pc = "insert" /\ q.row = b
        /\ q.mem = Null /\ q.arg = input
    BY <1>q, <1>6, Begins
  <1>3. BudgetForm(q)
    BY <1>0, <1>2 DEF BudgetForm
  <1>4. OfBudgetRequest(q)
    BY <1>1, <1>2, <1>3 DEF OfBudgetRequest, Locks
  <1>5. \A s \in Requests \ {r} : ~Rivals(q, req[s])
    BY <1>1, <1>2 DEF Rivals, Locks
  <1> QED BY <1>q, <1>2, <1>4, <1>5, BudgetsStay DEF budgetVars

LEMMA InvBeginBudgetRequest ==
  ASSUME BudgetsInv, ServingInv, NEW r \in Requests, BeginBudgetRequest(r),
         UNCHANGED budgetVars
  PROVE  BudgetsInv'
  <1>1. PICK b \in BudgetIds :
          \/ \E i \in BudgetInput : Begin(r, "update budget", "lock", b, i)
          \/ \E m \in BudgetMove : Begin(r, "move budget", "lock", b, m)
          \/ Begin(r, "read budget", "header", b, Null)
    BY DEF BeginBudgetRequest
  <1>2. PICK op, pc, arg :
          /\ Begin(r, op, pc, b, arg)
          /\ \/ op = "update budget" /\ pc = "lock" /\ arg \in BudgetInput
             \/ op = "move budget" /\ pc = "lock" /\ arg \in BudgetMove
             \/ op = "read budget" /\ pc = "header" /\ arg = Null
    BY <1>1
  <1>q. PICK q : q = req'[r]
    OBVIOUS
  <1>3. /\ OnlyAt(r) /\ IsRequest(q)
        /\ q.op = op /\ q.pc = pc /\ q.row = b /\ q.mem = Null /\ q.arg = arg
    BY <1>q, <1>2, Begins
  <1>4. BudgetForm(q)
    BY <1>2, <1>3 DEF BudgetForm
  <1>5. q.op # "create budget" /\ ~Locks(q)
    BY <1>2, <1>3 DEF Locks
  <1>6. OfBudgetRequest(q)
    BY <1>2, <1>3, <1>4, <1>5 DEF OfBudgetRequest
  <1> QED BY <1>q, <1>3, <1>5, <1>6, NoRival, BudgetsStay DEF budgetVars

\* Whoever gets the lock of a budget is the only one to have it.
LEMMA LockTaken ==
  ASSUME BudgetsInv, ServingInv, NEW r \in Requests, MayLockBudget(r),
         req[r].op \in {"update budget", "move budget"},
         NEW b \in BudgetIds, b = req[r].row, budgets[b] # Null,
         req[r].op = "update budget" => budgets[b].status = "DRAFT",
         req[r].op = "move budget" =>
           req[r].arg.next \in AllowedBudget(budgets[b].status),
         Proceed(r, "save", budgets[b]), UNCHANGED budgetVars
  PROVE  BudgetsInv'
  <1>q. PICK q : q = req'[r]
    OBVIOUS
  <1>1. /\ OnlyAt(r) /\ IsRequest(q)
        /\ q.op = req[r].op /\ q.pc = "save" /\ q.row = b
        /\ q.mem = budgets[b] /\ q.arg = req[r].arg
    BY <1>q, Proceeds
  <1>2. OfBudgetRequest(req[r]) /\ req[r].op \in BudgetOps
    BY DEF BudgetsInv, BudgetOps
  <1>3. BudgetForm(q)
    BY <1>1, <1>2 DEF OfBudgetRequest, BudgetForm, BudgetsInv
  <1>4. OfBudgetRequest(q)
    BY <1>1, <1>3 DEF OfBudgetRequest
  <1>5. \A s \in Requests \ {r} : ~Rivals(q, req[s])
    BY <1>1 DEF MayLockBudget, LocksBudget, Rivals, Locks
  <1> QED BY <1>q, <1>1, <1>4, <1>5, BudgetsStay DEF budgetVars

LEMMA InvLockForUpdate ==
  ASSUME BudgetsInv, ServingInv, NEW r \in Requests, LockForUpdate(r)
  PROVE  BudgetsInv'
  <1>1. req[r].op = "update budget" /\ MayLockBudget(r) /\ UNCHANGED budgetVars
    BY DEF LockForUpdate, At
  <1>2. PICK b \in BudgetIds : b = req[r].row
    BY <1>1 DEF BudgetsInv, OfBudgetRequest, BudgetForm, BudgetOps
  <1>3. CASE budgets[b] # Null /\ budgets[b].status = "DRAFT"
    BY <1>1, <1>2, <1>3, LockTaken DEF LockForUpdate
  <1>4. CASE ~(budgets[b] # Null /\ budgets[b].status = "DRAFT")
    BY <1>1, <1>2, <1>4, BudgetRequestEnds DEF LockForUpdate
  <1> QED BY <1>3, <1>4

LEMMA InvLockForMove ==
  ASSUME BudgetsInv, ServingInv, NEW r \in Requests, LockForMove(r)
  PROVE  BudgetsInv'
  <1>1. req[r].op = "move budget" /\ MayLockBudget(r) /\ UNCHANGED budgetVars
    BY DEF LockForMove, At
  <1>2. PICK b \in BudgetIds : b = req[r].row
    BY <1>1 DEF BudgetsInv, OfBudgetRequest, BudgetForm, BudgetOps
  <1> DEFINE may == budgets[b] # Null /\ req[r].arg.next \in AllowedBudget(budgets[b].status)
  <1>3. CASE may
    BY <1>1, <1>2, <1>3, LockTaken DEF LockForMove
  <1>4. CASE ~may
    BY <1>1, <1>2, <1>4, BudgetRequestEnds DEF LockForMove
  <1> QED BY <1>3, <1>4

LEMMA InvReadHeader ==
  ASSUME BudgetsInv, ServingInv, NEW r \in Requests, ReadHeader(r)
  PROVE  BudgetsInv'
  <1>1. /\ req[r].op = "read budget" /\ UNCHANGED budgetVars
        /\ OfBudgetRequest(req[r]) /\ req[r].op \in BudgetOps
    BY DEF ReadHeader, At, BudgetsInv, BudgetOps
  <1>2. PICK b \in BudgetIds : b = req[r].row
    BY <1>1 DEF OfBudgetRequest, BudgetForm
  <1>3. CASE budgets[b] # Null
    <2>q. PICK q : q = req'[r]
      OBVIOUS
    <2>1. /\ OnlyAt(r) /\ IsRequest(q)
          /\ q.op = "read budget" /\ q.pc = "lines" /\ q.row = b
          /\ q.mem = budgets[b] /\ q.arg = req[r].arg
      BY <2>q, <1>1, <1>2, <1>3, Proceeds DEF ReadHeader
    <2>2. BudgetForm(q)
      BY <1>1, <2>1 DEF OfBudgetRequest, BudgetForm, BudgetsInv
    <2>3. Known(budgets[b], b)
      BY <1>3 DEF Known, BudgetsInv, OfBudget
    <2>4. OfBudgetRequest(q) /\ q.op # "create budget" /\ ~Locks(q)
      BY <2>1, <2>2, <2>3 DEF OfBudgetRequest, Locks
    <2> QED BY <2>q, <1>1, <2>1, <2>4, NoRival, BudgetsStay DEF budgetVars
  <1>4. CASE budgets[b] = Null
    BY <1>1, <1>2, <1>4, BudgetRequestEnds DEF ReadHeader
  <1> QED BY <1>3, <1>4

LEMMA InvReadLines ==
  ASSUME BudgetsInv, ServingInv, NEW r \in Requests, ReadLines(r)
  PROVE  BudgetsInv'
  <1>1. /\ req[r].op = "read budget" /\ UNCHANGED budgetVars /\ req[r].pc = "lines"
        /\ OfBudgetRequest(req[r]) /\ req[r].op \in BudgetOps
    BY DEF ReadLines, At, BudgetsInv, BudgetOps
  <1>2. PICK b \in BudgetIds : b = req[r].row
    BY <1>1 DEF OfBudgetRequest, BudgetForm
  <1>3. PICK h \in Budget : h = req[r].mem /\ Known(h, b)
    BY <1>1, <1>2 DEF OfBudgetRequest, Known
  <1> DEFINE answer == [header |-> h, lines |-> lines[b]]
  <1>4. answer \in Answer /\ answer.header = h /\ answer.lines = lines[b]
    <2>1. lines[b] \in LineSets
      BY <1>3 DEF BudgetsInv, OfBudget, Known
    <2> QED BY <2>1 DEF Answer
  <1>5. Proceed(r, "answer", answer)
    BY <1>2, <1>3 DEF ReadLines
  <1> HIDE DEF answer
  <1>q. PICK q : q = req'[r]
    OBVIOUS
  <1>6. /\ OnlyAt(r) /\ IsRequest(q)
        /\ q.op = "read budget" /\ q.pc = "answer" /\ q.row = b
        /\ q.mem = answer /\ q.arg = req[r].arg
    BY <1>q, <1>1, <1>2, <1>5, Proceeds
  <1>7. BudgetForm(q)
    BY <1>1, <1>4, <1>6 DEF OfBudgetRequest, BudgetForm
  <1>8. OfBudgetRequest(q) /\ q.op # "create budget" /\ ~Locks(q)
    BY <1>3, <1>4, <1>6, <1>7 DEF OfBudgetRequest, Locks
  <1> QED BY <1>q, <1>1, <1>6, <1>8, NoRival, BudgetsStay DEF budgetVars

-----------------------------------------------------------------------------
(* Commits on budgets.                                                      *)

LEMMA InvCommitNewBudget ==
  ASSUME BudgetsInv, ServingInv, NEW r \in Requests, CommitNewBudget(r)
  PROVE  BudgetsInv' /\ Frozen
  <1>1. /\ req[r].op = "create budget" /\ OfBudgetRequest(req[r])
        /\ req[r].op \in BudgetOps
    BY DEF CommitNewBudget, At, BudgetsInv, BudgetOps
  <1>2. PICK b \in BudgetIds : b = req[r].row
    BY <1>1 DEF OfBudgetRequest, BudgetForm
  <1>3. PICK p \in Periods, l \in LineSets : req[r].arg.period = p /\ req[r].arg.lines = l
    BY <1>1 DEF OfBudgetRequest, BudgetForm
  <1> DEFINE new == [period |-> p, status |-> "DRAFT", approvedBy |-> Null]
  <1>4. /\ budgets' = [budgets EXCEPT ![b] = new] /\ lines' = [lines EXCEPT ![b] = l]
        /\ Finish(r)
    BY <1>2, <1>3 DEF CommitNewBudget, ReplaceLines
  <1>5. new \in Budget /\ new.status = "DRAFT" /\ new # Null /\ l # Null
    BY NullIsNoBudget DEF Budget, BudgetStatus
  <1> HIDE DEF new
  <1>6. /\ budgets' \in [BudgetIds -> Budget \cup {Null}]
        /\ lines' \in [BudgetIds -> LineSets \cup {Null}]
        /\ budgets'[b] = new /\ lines'[b] = l
        /\ \A c \in BudgetIds \ {b} : budgets'[c] = budgets[c] /\ lines'[c] = lines[c]
    BY <1>4, <1>5 DEF BudgetsInv
  <1>7. OfBudget(b)'
    BY <1>5, <1>6 DEF OfBudget
  <1>8. ApprovedIsFrozen(b)
    BY <1>1, <1>2 DEF ApprovedIsFrozen, OfBudgetRequest
  <1> QED BY <1>1, <1>2, <1>4, <1>5, <1>6, <1>7, <1>8, BudgetWritten

LEMMA InvCommitUpdate ==
  ASSUME BudgetsInv, ServingInv, NEW r \in Requests, CommitUpdate(r)
  PROVE  BudgetsInv' /\ Frozen
  <1>1. /\ req[r].op = "update budget" /\ req[r].pc = "save" /\ OfBudgetRequest(req[r])
        /\ req[r].op \in BudgetOps /\ Locks(req[r])
    BY DEF CommitUpdate, At, BudgetsInv, BudgetOps, Locks
  <1>2. PICK b \in BudgetIds : b = req[r].row
    BY <1>1 DEF OfBudgetRequest, BudgetForm
  <1>3. PICK old \in Budget :
          old = req[r].mem /\ old = budgets[b] /\ old.status = "DRAFT" /\ old # Null
    BY <1>1, <1>2 DEF OfBudgetRequest, BudgetForm
  <1>4. PICK input \in BudgetInput : input = req[r].arg
    BY <1>1 DEF OfBudgetRequest, BudgetForm
  <1> DEFINE new == IF input.period = Null THEN old ELSE [old EXCEPT !.period = input.period]
             newLines == IF input.lines = Null THEN lines[b] ELSE input.lines
  <1>5. /\ budgets' = [budgets EXCEPT ![b] = new]
        /\ lines' = IF input.lines = Null THEN lines ELSE [lines EXCEPT ![b] = input.lines]
        /\ Finish(r)
    BY <1>2, <1>3, <1>4 DEF CommitUpdate, ReplaceLines
  <1>6. new \in Budget /\ new.status = "DRAFT" /\ new # Null
    BY <1>3, NullIsNoBudget DEF Budget, BudgetInput
  <1>7. newLines \in LineSets /\ newLines # Null
    BY <1>3, NullIsNoBudget DEF BudgetInput, BudgetsInv, OfBudget
  <1> HIDE DEF new
  <1>8. /\ budgets' \in [BudgetIds -> Budget \cup {Null}]
        /\ lines' \in [BudgetIds -> LineSets \cup {Null}]
        /\ budgets'[b] = new /\ lines'[b] = newLines
        /\ \A c \in BudgetIds \ {b} : budgets'[c] = budgets[c] /\ lines'[c] = lines[c]
    BY <1>5, <1>6, <1>7 DEF BudgetsInv
  <1>9. OfBudget(b)'
    BY <1>6, <1>7, <1>8 DEF OfBudget
  <1>10. ApprovedIsFrozen(b)
    BY <1>3 DEF ApprovedIsFrozen
  <1> QED BY <1>1, <1>2, <1>5, <1>6, <1>8, <1>9, <1>10, BudgetWritten

LEMMA InvCommitMove ==
  ASSUME BudgetsInv, ServingInv, NEW r \in Requests, CommitMove(r)
  PROVE  BudgetsInv' /\ Frozen
  <1>1. /\ req[r].op = "move budget" /\ req[r].pc = "save" /\ OfBudgetRequest(req[r])
        /\ req[r].op \in BudgetOps /\ Locks(req[r])
    BY DEF CommitMove, At, BudgetsInv, BudgetOps, Locks
  <1>2. PICK b \in BudgetIds : b = req[r].row
    BY <1>1 DEF OfBudgetRequest, BudgetForm
  <1>3. PICK move \in BudgetMove : move = req[r].arg
    BY <1>1 DEF OfBudgetRequest, BudgetForm
  <1>4. PICK old \in Budget :
          /\ old = req[r].mem /\ old = budgets[b] /\ old # Null
          /\ move.next \in AllowedBudget(old.status)
          /\ old.status # "DRAFT" => old.approvedBy # Null
    BY <1>1, <1>2, <1>3 DEF OfBudgetRequest, BudgetForm, BudgetsInv, OfBudget
  <1> DEFINE by == IF move.next = "APPROVED" THEN move.by ELSE old.approvedBy
             new == [old EXCEPT !.status = move.next, !.approvedBy = by]
  <1>5. /\ budgets' = [budgets EXCEPT ![b] = new] /\ lines' = lines
        /\ Finish(r)
    BY <1>2, <1>3, <1>4 DEF CommitMove
  <1>6. \/ old.status = "DRAFT" /\ move.next = "APPROVED" /\ move.by \in Approvers
        \/ old.status = "APPROVED" /\ move.next = "CLOSED"
    BY <1>4 DEF AllowedBudget, BudgetMove
  <1>7. /\ new \in Budget /\ new # Null /\ new.period = old.period
        /\ new.status = move.next /\ new.approvedBy = by /\ by # Null
    BY <1>4, <1>6, NullIsNoBudget DEF Budget, BudgetStatus
  <1> HIDE DEF new
  <1>8. /\ budgets' \in [BudgetIds -> Budget \cup {Null}]
        /\ lines' \in [BudgetIds -> LineSets \cup {Null}]
        /\ budgets'[b] = new
        /\ \A c \in BudgetIds \ {b} : budgets'[c] = budgets[c] /\ lines'[c] = lines[c]
    BY <1>5, <1>7 DEF BudgetsInv
  <1>9. OfBudget(b)'
    BY <1>4, <1>5, <1>7, <1>8 DEF OfBudget, BudgetsInv
  <1>10. ApprovedIsFrozen(b)
    BY <1>4, <1>5, <1>6, <1>7, <1>8 DEF ApprovedIsFrozen
  <1> QED BY <1>1, <1>2, <1>5, <1>7, <1>8, <1>9, <1>10, BudgetWritten

-----------------------------------------------------------------------------
(* Rows of the registers.                                                   *)

LEMMA RowForms ==
  \A q : q \in Row <=> /\ q = [c \in {"kind", "key", "state"} |-> q[c]]
                       /\ q.kind \in Kinds /\ q.key \in Keys /\ q.state \in States(q.kind)
  <1> SUFFICES ASSUME NEW q
               PROVE  q \in Row <=>
                        /\ q = [c \in {"kind", "key", "state"} |-> q[c]]
                        /\ q.kind \in Kinds /\ q.key \in Keys /\ q.state \in States(q.kind)
    OBVIOUS
  <1>1. q \in Row <=> \E k \in Kinds : q \in [kind : {k}, key : Keys, state : States(k)]
    BY DEF Row
  <1>2. \A k : q \in [kind : {k}, key : Keys, state : States(k)] <=>
                 /\ q = [c \in {"kind", "key", "state"} |-> q[c]]
                 /\ q.kind = k /\ q.key \in Keys /\ q.state \in States(k)
    OBVIOUS
  <1> QED BY <1>1, <1>2

LEMMA RowChanges ==
  ASSUME NEW q \in Row, NEW k \in Keys, NEW x \in States(q.kind)
  PROVE  /\ [q EXCEPT !.key = k, !.state = x] \in Row
         /\ [q EXCEPT !.key = k, !.state = x].kind = q.kind
         /\ [q EXCEPT !.key = k, !.state = x].key = k
         /\ [q EXCEPT !.key = k, !.state = x].state = x
         /\ [q EXCEPT !.key = k] \in Row /\ [q EXCEPT !.key = k].kind = q.kind
         /\ [q EXCEPT !.key = k].state = q.state
         /\ [q EXCEPT !.state = x] \in Row /\ [q EXCEPT !.state = x].kind = q.kind
         /\ [q EXCEPT !.state = x].state = x
  <1>1. /\ q = [c \in {"kind", "key", "state"} |-> q[c]]
        /\ q.kind \in Kinds /\ q.key \in Keys /\ q.state \in States(q.kind)
    BY RowForms
  <1> DEFINE both == [q EXCEPT !.key = k, !.state = x]
             one == [q EXCEPT !.key = k]
             other == [q EXCEPT !.state = x]
  <1>2. /\ both = [c \in {"kind", "key", "state"} |-> both[c]]
        /\ both.kind = q.kind /\ both.key = k /\ both.state = x
    BY <1>1
  <1>3. /\ one = [c \in {"kind", "key", "state"} |-> one[c]]
        /\ one.kind = q.kind /\ one.key = k /\ one.state = q.state
    BY <1>1
  <1>4. /\ other = [c \in {"kind", "key", "state"} |-> other[c]]
        /\ other.kind = q.kind /\ other.key = q.key /\ other.state = x
    BY <1>1
  <1> HIDE DEF both, one, other
  <1>5. both \in Row /\ one \in Row /\ other \in Row
    BY <1>1, <1>2, <1>3, <1>4, RowForms
  <1> QED BY <1>2, <1>3, <1>4, <1>5 DEF both, one, other

\* A row that is found by its kind and state to have ended.
LEMMA Ended ==
  ASSUME NEW q \in Row, HasEnded(q)
  PROVE  /\ q.kind \in {"account", "counterparty", "contract"}
         /\ q.kind # "contract" => q.state = "inactive"
  <1>1. q.kind \in Kinds /\ q.state \in States(q.kind)
    BY RowForms
  <1>2. CASE q.kind = "contract"
    BY <1>2
  <1>3. CASE q.kind = "rate"
    BY <1>1, <1>3, RatesAssumption DEF HasEnded, States
  <1>4. CASE q.kind \in {"account", "counterparty", "dimension"}
    BY <1>1, <1>4 DEF HasEnded, States
  <1> QED BY <1>1, <1>2, <1>3, <1>4 DEF Kinds

-----------------------------------------------------------------------------
(* Requests on the registers.                                               *)

\* What is going to be written, and why it cannot undo the end of the row.
OfWrite(q) ==
  /\ q.arg \in [row : Row, columns : SUBSET {"key", "state"}]
  /\ q.arg.row.kind = rows[q.row].kind
  /\ q.op = "update" => q.arg.row.state = q.mem.state
  /\ q.op = "change" /\ rows[q.row].kind \in {"account", "counterparty"} =>
       q.arg.row.state = "inactive"

OfChange(q) ==
  /\ q.pc \in {"read", "clash", "save", "write"}
  /\ q.row \in RowIds /\ rows[q.row] # Null
  /\ q.mem \in Row \cup {Null}
  /\ q.pc # "read" => q.mem \in Row /\ q.mem.kind = rows[q.row].kind
  /\ q.op = "update" => rows[q.row].kind = "counterparty"
  /\ q.op = "change" => rows[q.row].kind # "dimension"
  /\ q.op = "change" /\ q.pc # "read" /\ rows[q.row].kind = "contract" => ~HasEnded(q.mem)
  /\ q.pc = "write" => OfWrite(q)
  /\ q.pc # "write" =>
       /\ q.op = "update" => q.arg \in Keys \cup {Null}
       /\ q.op = "change" => q.arg \in States(rows[q.row].kind)
       /\ q.op = "change" /\ rows[q.row].kind \in {"account", "counterparty"} =>
            q.arg = "inactive"

OfRegisterRequest(q) ==
  /\ q.op = "create" =>
       q.pc \in {"find", "insert"} /\ q.row = Null /\ q.mem = Null /\ q.arg \in Row
  /\ q.op \in {"update", "change"} => OfChange(q)

OneForEachKey ==
  \A i, j \in RowIds :
    rows[i] # Null /\ rows[j] # Null /\ rows[i].kind = rows[j].kind
        /\ rows[i].key = rows[j].key => i = j

RegistersInv ==
  /\ rows \in [RowIds -> Row \cup {Null}]
  /\ OneForEachKey
  /\ \A r \in Requests : OfRegisterRequest(req[r])

LEMMA IdleRegister == OfRegisterRequest(IdleRequest)
  BY DEF OfRegisterRequest, IdleRequest

LEMMA RegistersStay ==
  ASSUME RegistersInv, NEW r \in Requests, OnlyAt(r), NEW q, req'[r] = q,
         OfRegisterRequest(q), rows' = rows
  PROVE  RegistersInv'
  <1>1. ASSUME NEW s \in Requests PROVE OfRegisterRequest(req[s])'
    <2>1. OfRegisterRequest(req'[s])
      BY DEF RegistersInv, OnlyAt
    <2> QED BY <2>1 DEF OfRegisterRequest, OfChange, OfWrite
  <1> QED BY <1>1 DEF RegistersInv, OneForEachKey

LEMMA RegisterRequestEnds ==
  ASSUME RegistersInv, ServingInv, NEW r \in Requests, Finish(r), rows' = rows
  PROVE  RegistersInv'
  BY RegistersStay, IdleRegister, Finishes

\* One row is written, under a key that is free, and the request ends.
LEMMA RowWritten ==
  ASSUME RegistersInv, ServingInv, NEW r \in Requests, Finish(r), NEW i \in RowIds,
         NEW row \in Row, KeyFree(i, row), rows' = [rows EXCEPT ![i] = row],
         rows[i] # Null => row.kind = rows[i].kind
  PROVE  RegistersInv'
  <1>1. /\ rows' \in [RowIds -> Row \cup {Null}] /\ rows'[i] = row /\ row # Null
        /\ \A j \in RowIds \ {i} : rows'[j] = rows[j]
    BY NullIsNoRow DEF RegistersInv
  <1>2. OneForEachKey'
    <2>1. \A j \in RowIds \ {i} :
            ~(rows[j] # Null /\ rows[j].kind = row.kind /\ rows[j].key = row.key)
      BY DEF KeyFree, Registered
    <2> QED BY <1>1, <2>1 DEF RegistersInv, OneForEachKey
  <1>3. \A j \in RowIds : rows[j] # Null => rows'[j] # Null /\ rows'[j].kind = rows[j].kind
    BY <1>1
  <1>4. ASSUME NEW s \in Requests PROVE OfRegisterRequest(req[s])'
    <2>1. OfRegisterRequest(req'[s])
      BY Finishes, IdleRegister DEF RegistersInv, OnlyAt
    <2> QED BY <1>3, <2>1 DEF OfRegisterRequest, OfChange, OfWrite
  <1> QED BY <1>1, <1>2, <1>4 DEF RegistersInv

LEMMA InvCreates ==
  ASSUME RegistersInv, ServingInv, NEW r \in Requests, rows' = rows,
         \/ CreateAccount(r) \/ CreateDimension(r) \/ CreateCounterparty(r)
         \/ CreateContract(r) \/ SetRate(r)
  PROVE  RegistersInv' /\ ServingInv'
  <1>1. PICK kind, state :
          kind \in Kinds /\ state \in States(kind) /\ BeginCreate(r, kind, state)
    <2>1. /\ {"account", "dimension", "counterparty", "contract", "rate"} = Kinds
          /\ "active" \in States("account") /\ "active" \in States("dimension")
          /\ "active" \in States("counterparty") /\ "DRAFT" \in States("contract")
          /\ Rates = States("rate")
      BY DEF Kinds, States, ContractStatus
    <2> QED
      BY <2>1 DEF CreateAccount, CreateDimension, CreateCounterparty, CreateContract, SetRate
  <1>2. PICK key \in Keys :
          Begin(r, "create", "find", Null, [kind |-> kind, key |-> key, state |-> state])
    BY <1>1 DEF BeginCreate
  <1> DEFINE new == [kind |-> kind, key |-> key, state |-> state]
  <1>3. new \in Row
    <2>1. /\ new = [c \in {"kind", "key", "state"} |-> new[c]]
          /\ new.kind \in Kinds /\ new.key \in Keys /\ new.state \in States(new.kind)
      BY <1>1, <1>2
    <2> HIDE DEF new
    <2> QED BY <2>1, RowForms
  <1>4. Begin(r, "create", "find", Null, new)
    BY <1>2
  <1> HIDE DEF new
  <1>q. PICK q : q = req'[r]
    OBVIOUS
  <1>5. /\ OnlyAt(r) /\ IsRequest(q) /\ served' \in 0..MaxServed
        /\ q.op = "create" /\ q.pc = "find" /\ q.row = Null /\ q.mem = Null /\ q.arg = new
    BY <1>q, <1>4, Begins
  <1>6. OfRegisterRequest(q)
    BY <1>3, <1>5 DEF OfRegisterRequest
  <1>7. q.op \in BudgetOps \cup RegisterOps
    BY <1>5 DEF RegisterOps
  <1> QED BY <1>q, <1>5, <1>6, <1>7, RegistersStay, ServingStays

LEMMA InvChanges ==
  ASSUME RegistersInv, ServingInv, NEW r \in Requests, rows' = rows,
         \/ UpdateCounterparty(r) \/ DeactivateCounterparty(r)
         \/ DeactivateAccount(r) \/ ChangeContractStatus(r)
  PROVE  RegistersInv' /\ ServingInv'
  <1>1. PICK kind, op, arg :
          /\ BeginChange(r, kind, op, arg)
          /\ \/ kind = "counterparty" /\ op = "update" /\ arg \in Keys \cup {Null}
             \/ kind = "counterparty" /\ op = "change" /\ arg = "inactive"
             \/ kind = "account" /\ op = "change" /\ arg = "inactive"
             \/ kind = "contract" /\ op = "change" /\ arg \in ContractStatus
    <2>1. CASE UpdateCounterparty(r)      BY <2>1 DEF UpdateCounterparty
    <2>2. CASE DeactivateCounterparty(r)  BY <2>2 DEF DeactivateCounterparty
    <2>3. CASE DeactivateAccount(r)       BY <2>3 DEF DeactivateAccount
    <2>4. CASE ChangeContractStatus(r)    BY <2>4 DEF ChangeContractStatus
    <2> QED BY <2>1, <2>2, <2>3, <2>4
  <1>2. PICK i \in RowIds : /\ rows[i] # Null /\ rows[i].kind = kind
                            /\ Begin(r, op, "read", i, arg)
    BY <1>1 DEF BeginChange
  <1>q. PICK q : q = req'[r]
    OBVIOUS
  <1>3. /\ OnlyAt(r) /\ IsRequest(q) /\ served' \in 0..MaxServed
        /\ q.op = op /\ q.pc = "read" /\ q.row = i /\ q.mem = Null /\ q.arg = arg
    BY <1>q, <1>2, Begins
  <1>4. OfChange(q)
    BY <1>1, <1>2, <1>3 DEF OfChange, States
  <1>5. OfRegisterRequest(q) /\ q.op \in BudgetOps \cup RegisterOps
    BY <1>1, <1>3, <1>4 DEF OfRegisterRequest, RegisterOps
  <1> QED BY <1>q, <1>3, <1>5, RegistersStay, ServingStays

\* A request ends without having written.
LEMMA InvEnds ==
  ASSUME RegistersInv, ServingInv, NEW r \in Requests, Finish(r), rows' = rows
  PROVE  RegistersInv' /\ ServingInv'
  <1>1. served' \in 0..MaxServed
    BY Finishes DEF ServingInv
  <1> QED BY <1>1, RegisterRequestEnds, Finishes, IdleIsFine, ServingStays

\* A request on a register goes on.
LEMMA GoesOn ==
  ASSUME RegistersInv, ServingInv, NEW r \in Requests, OnlyAt(r), rows' = rows,
         served' = served, NEW q, q = req'[r], IsRequest(q), q.op \in RegisterOps,
         OfRegisterRequest(q)
  PROVE  RegistersInv' /\ ServingInv'
  <1>1. served' \in 0..MaxServed
    BY DEF ServingInv
  <1> QED BY <1>1, RegistersStay, ServingStays

LEMMA InvFind ==
  ASSUME RegistersInv, ServingInv, NEW r \in Requests, Find(r)
  PROVE  RegistersInv' /\ ServingInv'
  <1>1. PICK new \in Row : new = req[r].arg
    BY DEF Find, At, RegistersInv, OfRegisterRequest
  <1>2. /\ rows' = rows /\ req[r].op = "create" /\ req[r].pc = "find"
        /\ OfRegisterRequest(req[r])
    BY DEF Find, At, RegistersInv
  <1>q. PICK q : q = req'[r]
    OBVIOUS
  <1>3. CASE Proceed(r, "insert", Null)
    <2>1. /\ OnlyAt(r) /\ IsRequest(q) /\ served' = served
          /\ q.op = "create" /\ q.pc = "insert" /\ q.row = req[r].row /\ q.mem = Null
          /\ q.arg = new
      BY <1>q, <1>1, <1>2, <1>3, Proceeds
    <2>2. OfRegisterRequest(q) /\ q.op \in RegisterOps
      BY <1>2, <2>1 DEF OfRegisterRequest, RegisterOps
    <2> QED BY <1>q, <1>2, <2>1, <2>2, GoesOn
  <1>4. CASE Finish(r)
    BY <1>2, <1>4, InvEnds
  <1>5. CASE \E i \in Registered(new.kind, new.key) :
               /\ new.kind = "rate"
               /\ req' = [req EXCEPT ![r] = [op |-> "change", pc |-> "save", row |-> i,
                                             mem |-> rows[i], arg |-> new.state]]
               /\ UNCHANGED served
    <2>1. PICK i \in RowIds :
            /\ new.kind = "rate" /\ rows[i] # Null /\ rows[i].kind = "rate"
            /\ req' = [req EXCEPT ![r] = [op |-> "change", pc |-> "save", row |-> i,
                                          mem |-> rows[i], arg |-> new.state]]
            /\ served' = served
      BY <1>5 DEF Registered
    <2> DEFINE p == [op |-> "change", pc |-> "save", row |-> i,
                     mem |-> rows[i], arg |-> new.state]
    <2>2. /\ IsRequest(p) /\ p.op = "change" /\ p.pc = "save" /\ p.row = i
          /\ p.mem = rows[i] /\ p.arg = new.state
      BY DEF IsRequest, Columns
    <2>3. req' = [req EXCEPT ![r] = p]
      BY <2>1
    <2> HIDE DEF p
    <2>4. p = q /\ OnlyAt(r)
      BY <1>q, <2>3, Becomes
    <2>5. new.state \in States("rate") /\ rows[i] \in Row
      BY <2>1, RowForms DEF RegistersInv
    <2>6. OfChange(p)
      BY <2>1, <2>2, <2>5 DEF OfChange
    <2>7. OfRegisterRequest(q) /\ q.op \in RegisterOps
      BY <2>2, <2>4, <2>6 DEF OfRegisterRequest, RegisterOps
    <2> QED BY <1>q, <1>2, <2>1, <2>2, <2>4, <2>7, GoesOn
  <1> QED BY <1>1, <1>3, <1>4, <1>5 DEF Find

LEMMA InvInsert ==
  ASSUME RegistersInv, ServingInv, NEW r \in Requests, Insert(r)
  PROVE  RegistersInv' /\ ServingInv'
  <1>1. PICK new \in Row : new = req[r].arg
    BY DEF Insert, At, RegistersInv, OfRegisterRequest
  <1>2. PICK i \in RowIds :
          /\ rows[i] = Null
          /\ rows' = IF KeyFree(i, new) THEN [rows EXCEPT ![i] = new] ELSE rows
    BY <1>1 DEF Insert
  <1>3. Finish(r)
    BY DEF Insert
  <1>4. CASE KeyFree(i, new)
    <2>1. served' \in 0..MaxServed
      BY <1>3, Finishes DEF ServingInv
    <2>2. RegistersInv'
      BY <1>2, <1>3, <1>4, RowWritten
    <2> QED BY <1>3, <2>1, <2>2, Finishes, IdleIsFine, ServingStays
  <1>5. CASE ~KeyFree(i, new)
    BY <1>2, <1>3, <1>5, InvEnds
  <1> QED BY <1>4, <1>5

LEMMA InvReadForChange ==
  ASSUME RegistersInv, ServingInv, NEW r \in Requests, ReadForChange(r)
  PROVE  RegistersInv' /\ ServingInv'
  <1>1. /\ rows' = rows /\ req[r].op = "change" /\ req[r].pc = "read"
        /\ OfChange(req[r])
    BY DEF ReadForChange, At, RegistersInv, OfRegisterRequest
  <1>2. PICK i \in RowIds : i = req[r].row
    BY <1>1 DEF OfChange
  <1>3. rows[i] # Null /\ rows[i] \in Row
    BY <1>1, <1>2 DEF OfChange, RegistersInv
  <1> DEFINE refused == /\ rows[i].kind = "contract"
                        /\ req[r].arg \notin AllowedContract(rows[i].state)
  <1>4. CASE refused
    BY <1>1, <1>2, <1>4, InvEnds DEF ReadForChange
  <1>5. CASE ~refused
    <2>1. rows[i].kind = "contract" => ~HasEnded(rows[i])
      <3> SUFFICES ASSUME rows[i].kind = "contract", HasEnded(rows[i]) PROVE FALSE
        OBVIOUS
      <3>1. rows[i].state \in ContractStatus
        BY <1>3, RowForms DEF States
      <3>2. AllowedContract(rows[i].state) = {}
        BY <3>1 DEF AllowedContract, HasEnded, ContractStatus
      <3> QED BY <1>5, <3>2
    <2>2. Proceed(r, "save", rows[i])
      BY <1>2, <1>5 DEF ReadForChange
    <2>q. PICK q : q = req'[r]
      OBVIOUS
    <2>3. /\ OnlyAt(r) /\ IsRequest(q) /\ served' = served
          /\ q.op = "change" /\ q.pc = "save" /\ q.row = i /\ q.mem = rows[i]
          /\ q.arg = req[r].arg
      BY <2>q, <1>1, <1>2, <2>2, Proceeds
    <2>4. OfChange(q)
      BY <1>1, <1>2, <1>3, <2>1, <2>3 DEF OfChange
    <2>5. OfRegisterRequest(q) /\ q.op \in RegisterOps
      BY <2>3, <2>4 DEF OfRegisterRequest, RegisterOps
    <2> QED BY <2>q, <1>1, <2>3, <2>5, GoesOn
  <1> QED BY <1>4, <1>5

LEMMA InvReadForUpdate ==
  ASSUME RegistersInv, ServingInv, NEW r \in Requests, ReadForUpdate(r)
  PROVE  RegistersInv' /\ ServingInv'
  <1>1. /\ rows' = rows /\ req[r].op = "update" /\ req[r].pc = "read"
        /\ OfChange(req[r])
    BY DEF ReadForUpdate, At, RegistersInv, OfRegisterRequest
  <1>2. PICK i \in RowIds : i = req[r].row
    BY <1>1 DEF OfChange
  <1>3. rows[i] # Null /\ rows[i] \in Row
    BY <1>1, <1>2 DEF OfChange, RegistersInv
  <1>4. PICK pc \in {"save", "clash"} : Proceed(r, pc, rows[i])
    BY <1>2 DEF ReadForUpdate
  <1>q. PICK q : q = req'[r]
    OBVIOUS
  <1>5. /\ OnlyAt(r) /\ IsRequest(q) /\ served' = served
        /\ q.op = "update" /\ q.pc = pc /\ q.row = i /\ q.mem = rows[i]
        /\ q.arg = req[r].arg
    BY <1>q, <1>1, <1>2, <1>4, Proceeds
  <1>6. OfChange(q)
    BY <1>1, <1>2, <1>3, <1>5 DEF OfChange
  <1>7. OfRegisterRequest(q) /\ q.op \in RegisterOps
    BY <1>5, <1>6 DEF OfRegisterRequest, RegisterOps
  <1> QED BY <1>q, <1>1, <1>5, <1>7, GoesOn

LEMMA InvCheckClash ==
  ASSUME RegistersInv, ServingInv, NEW r \in Requests, CheckClash(r)
  PROVE  RegistersInv' /\ ServingInv'
  <1>1. /\ rows' = rows /\ req[r].op = "update" /\ req[r].pc = "clash"
        /\ OfChange(req[r])
    BY DEF CheckClash, At, RegistersInv, OfRegisterRequest
  <1>2. CASE Finish(r)
    BY <1>1, <1>2, InvEnds
  <1>3. CASE Proceed(r, "save", req[r].mem)
    <2>q. PICK q : q = req'[r]
      OBVIOUS
    <2>m. PICK mem : mem = req[r].mem
      OBVIOUS
    <2>1. /\ OnlyAt(r) /\ IsRequest(q) /\ served' = served
          /\ q.op = "update" /\ q.pc = "save" /\ q.row = req[r].row
          /\ q.mem = mem /\ q.arg = req[r].arg
      BY <2>q, <2>m, <1>1, <1>3, Proceeds
    <2>2. OfChange(q)
      BY <1>1, <2>1, <2>m DEF OfChange
    <2>3. OfRegisterRequest(q) /\ q.op \in RegisterOps
      BY <2>1, <2>2 DEF OfRegisterRequest, RegisterOps
    <2> QED BY <2>q, <1>1, <2>1, <2>3, GoesOn
  <1> QED BY <1>2, <1>3 DEF CheckClash

\* What save() is going to write.
LEMMA ChangedRow ==
  ASSUME RegistersInv, NEW r \in Requests, req[r].op \in {"update", "change"},
         req[r].pc = "save", NEW i \in RowIds, i = req[r].row
  PROVE  /\ Changed(r) \in Row /\ Changed(r).kind = rows[i].kind
         /\ req[r].op = "update" => Changed(r).state = req[r].mem.state
         /\ req[r].op = "change" /\ rows[i].kind \in {"account", "counterparty"} =>
              Changed(r).state = "inactive"
  <1>1. PICK mem \in Row : mem = req[r].mem /\ mem.kind = rows[i].kind
    BY DEF RegistersInv, OfRegisterRequest, OfChange
  <1>2. OfChange(req[r])
    BY DEF RegistersInv, OfRegisterRequest
  <1>3. mem.kind \in Kinds /\ mem.key \in Keys /\ mem.state \in States(mem.kind)
    BY RowForms
  <1>4. CASE req[r].op = "update"
    <2>1. CASE req[r].arg = Null
      <3>1. Changed(r) = mem
        BY <1>1, <1>4, <2>1 DEF Changed
      <3> QED BY <1>1, <1>4, <3>1
    <2>2. CASE req[r].arg # Null
      <3>1. PICK k \in Keys : k = req[r].arg
        BY <1>2, <1>4, <2>2 DEF OfChange
      <3> DEFINE new == [mem EXCEPT !.key = k]
      <3>2. Changed(r) = new
        BY <1>1, <1>4, <2>2, <3>1 DEF Changed
      <3>3. new \in Row /\ new.kind = mem.kind /\ new.state = mem.state
        BY <1>3, RowChanges
      <3> HIDE DEF new
      <3> QED BY <1>1, <1>4, <3>2, <3>3
    <2> QED BY <2>1, <2>2
  <1>5. CASE req[r].op = "change"
    <2>1. PICK x \in States(mem.kind) : x = req[r].arg
      BY <1>1, <1>2, <1>5 DEF OfChange
    <2> DEFINE new == [mem EXCEPT !.state = x]
    <2>2. Changed(r) = new
      BY <1>1, <1>5, <2>1 DEF Changed
    <2>3. new \in Row /\ new.kind = mem.kind /\ new.state = x
      <3>1. PICK k \in Keys : k = mem.key
        BY <1>3
      <3>2. [mem EXCEPT !.state = x] \in Row
        BY <3>1, RowChanges
      <3> QED BY <3>2, <1>3, RowForms
    <2>4. rows[i].kind \in {"account", "counterparty"} => x = "inactive"
      BY <1>2, <1>5, <2>1 DEF OfChange
    <2> HIDE DEF new
    <2> QED BY <1>1, <1>5, <2>2, <2>3, <2>4
  <1> QED BY <1>4, <1>5

\* The record of a request that has loaded the row again.
LEMMA Loaded ==
  ASSUME RegistersInv, ServingInv, NEW r \in Requests, LoadForSave(r)
  PROVE  /\ OnlyAt(r) /\ IsRequest(req'[r]) /\ req'[r].op = req[r].op
         /\ req'[r].pc = "write" /\ req'[r].row = req[r].row /\ req'[r].mem = req[r].mem
         /\ OfChange(req'[r])
  <1>1. /\ req[r].op \in {"update", "change"} /\ req[r].pc = "save"
        /\ OfChange(req[r])
    BY DEF LoadForSave, RegistersInv, OfRegisterRequest
  <1>2. PICK i \in RowIds : i = req[r].row
    BY <1>1 DEF OfChange
  <1>3. PICK p : p = req[r] /\ IsRequest(p)
    BY DEF ServingInv
  <1> DEFINE columns == {c \in {"key", "state"} : Changed(r)[c] # rows[i][c]}
             arg == [row |-> Changed(r), columns |-> columns]
             q == [p EXCEPT !.pc = "write", !.arg = arg]
  <1>4. req' = [req EXCEPT ![r] = q]
    BY <1>2, <1>3 DEF LoadForSave, ServingInv
  <1>5. arg \in [row : Row, columns : SUBSET {"key", "state"}] /\ arg.row = Changed(r)
    BY <1>1, <1>2, ChangedRow
  <1> HIDE DEF arg
  <1>6. /\ IsRequest(q) /\ q.op = p.op /\ q.pc = "write" /\ q.row = p.row
        /\ q.mem = p.mem /\ q.arg = arg
    BY <1>3 DEF IsRequest, Columns
  <1> HIDE DEF q
  <1>7. req'[r] = q /\ OnlyAt(r)
    BY <1>4, Becomes
  <1>8. OfWrite(q)
    BY <1>1, <1>2, <1>3, <1>5, <1>6, ChangedRow DEF OfWrite
  <1>9. OfChange(q)
    BY <1>1, <1>3, <1>6, <1>8 DEF OfChange
  <1> QED BY <1>3, <1>6, <1>7, <1>9

LEMMA InvLoadForSave ==
  ASSUME RegistersInv, ServingInv, NEW r \in Requests, LoadForSave(r)
  PROVE  RegistersInv' /\ ServingInv'
  <1>1. PICK q : q = req'[r]
    OBVIOUS
  <1>2. /\ OnlyAt(r) /\ IsRequest(q) /\ q.op = req[r].op /\ OfChange(q)
    BY <1>1, Loaded
  <1>3. rows' = rows /\ served' = served /\ q.op \in {"update", "change"}
    BY <1>2 DEF LoadForSave
  <1>4. OfRegisterRequest(q) /\ q.op \in RegisterOps
    BY <1>2, <1>3 DEF OfRegisterRequest, RegisterOps
  <1> QED BY <1>1, <1>2, <1>3, <1>4, GoesOn

\* What is written is of the row's kind, and leaves a row as it is that is settled.
LEMMA WrittenRow ==
  ASSUME RegistersInv, NEW r \in Requests, Write(r)
  PROVE  \E i \in RowIds, row \in Row :
           /\ i = req[r].row /\ rows[i] # Null /\ row.kind = rows[i].kind
           /\ rows' = IF KeyFree(i, row) THEN [rows EXCEPT ![i] = row] ELSE rows
           /\ Settled(i) => row.state = rows[i].state
  <1>1. /\ req[r].op \in {"update", "change"} /\ req[r].pc = "write"
        /\ OfChange(req[r]) /\ OfWrite(req[r])
    BY DEF Write, RegistersInv, OfRegisterRequest, OfChange
  <1>2. PICK i \in RowIds : i = req[r].row /\ rows[i] # Null /\ rows[i] \in Row
    BY <1>1 DEF OfChange, RegistersInv
  <1>3. PICK new \in Row, columns \in SUBSET {"key", "state"} :
          /\ new = req[r].arg.row /\ columns = req[r].arg.columns
          /\ new.kind = rows[i].kind
    BY <1>1, <1>2 DEF OfWrite
  <1>4. PICK mem \in Row : mem = req[r].mem /\ mem.kind = rows[i].kind
    BY <1>1, <1>2 DEF OfChange
  <1> DEFINE k == IF "key" \in columns THEN new.key ELSE rows[i].key
             x == IF "state" \in columns THEN new.state ELSE rows[i].state
             row == [rows[i] EXCEPT !.key = k, !.state = x]
  <1>5. k \in Keys /\ x \in States(rows[i].kind)
    BY <1>2, <1>3, RowForms
  <1>6. rows' = IF KeyFree(i, row) THEN [rows EXCEPT ![i] = row] ELSE rows
    BY <1>2, <1>3 DEF Write
  <1>7. Settled(i) => x = rows[i].state
    <2> SUFFICES ASSUME Settled(i) PROVE new.state = rows[i].state
      OBVIOUS
    <2>1. HasEnded(rows[i]) /\ HasEnded(mem)
      BY <1>2, <1>4, NullIsNoRow DEF Settled
    <2>2. /\ rows[i].kind \in {"account", "counterparty", "contract"}
          /\ rows[i].kind # "contract" => rows[i].state = "inactive"
          /\ rows[i].kind # "contract" => mem.state = "inactive"
      BY <1>2, <1>4, <2>1, Ended
    <2>3. rows[i].kind # "contract"
      BY <1>1, <1>2, <1>4, <2>1 DEF OfChange
    <2> QED BY <1>1, <1>2, <1>3, <1>4, <2>2, <2>3 DEF OfWrite
  <1> HIDE DEF k, x
  <1>8. PICK old \in Row, key \in Keys, state \in States(rows[i].kind) :
          old = rows[i] /\ key = k /\ state = x
    BY <1>2, <1>5
  <1>9. row = [old EXCEPT !.key = key, !.state = state] /\ state \in States(old.kind)
    BY <1>8
  <1> HIDE DEF row
  <1>10. row \in Row /\ row.kind = rows[i].kind /\ row.state = x
    <2>1. /\ old = [c \in {"kind", "key", "state"} |-> old[c]]
          /\ old.kind \in Kinds
      BY RowForms
    <2>2. /\ row = [c \in {"kind", "key", "state"} |-> row[c]]
          /\ row.kind = old.kind /\ row.key = key /\ row.state = state
      BY <1>9, <2>1
    <2>3. row \in Row
      BY <1>9, <2>1, <2>2, RowForms
    <2> QED BY <1>8, <2>2, <2>3
  <1> QED BY <1>2, <1>6, <1>7, <1>10

LEMMA InvWrite ==
  ASSUME RegistersInv, ServingInv, NEW r \in Requests, Write(r)
  PROVE  RegistersInv' /\ ServingInv'
  <1>1. PICK i \in RowIds, row \in Row :
          /\ rows[i] # Null /\ row.kind = rows[i].kind
          /\ rows' = IF KeyFree(i, row) THEN [rows EXCEPT ![i] = row] ELSE rows
    BY WrittenRow
  <1>2. Finish(r)
    BY DEF Write
  <1>3. CASE KeyFree(i, row)
    <2>1. served' \in 0..MaxServed
      BY <1>2, Finishes DEF ServingInv
    <2>2. RegistersInv'
      BY <1>1, <1>2, <1>3, RowWritten
    <2> QED BY <1>2, <2>1, <2>2, Finishes, IdleIsFine, ServingStays
  <1>4. CASE ~KeyFree(i, row)
    BY <1>1, <1>2, <1>4, InvEnds
  <1> QED BY <1>3, <1>4

LEMMA InvRegisterStep ==
  ASSUME RegistersInv, ServingInv, NEW r \in Requests, RegisterStep(r)
  PROVE  RegistersInv' /\ ServingInv'
  <1>1. CASE /\ \/ CreateAccount(r) \/ CreateDimension(r) \/ CreateCounterparty(r)
                \/ CreateContract(r) \/ SetRate(r)
             /\ UNCHANGED rows
    BY <1>1, InvCreates
  <1>2. CASE /\ \/ UpdateCounterparty(r) \/ DeactivateCounterparty(r)
                \/ DeactivateAccount(r) \/ ChangeContractStatus(r)
             /\ UNCHANGED rows
    BY <1>2, InvChanges
  <1>3. CASE Find(r)           BY <1>3, InvFind
  <1>4. CASE Insert(r)         BY <1>4, InvInsert
  <1>5. CASE ReadForChange(r)  BY <1>5, InvReadForChange
  <1>6. CASE ReadForUpdate(r)  BY <1>6, InvReadForUpdate
  <1>7. CASE CheckClash(r)     BY <1>7, InvCheckClash
  <1>8. CASE LoadForSave(r)    BY <1>8, InvLoadForSave
  <1>9. CASE Write(r)          BY <1>9, InvWrite
  <1>10. CASE Fail(r)          BY <1>10, InvEnds DEF Fail
  <1> QED
    BY <1>1, <1>2, <1>3, <1>4, <1>5, <1>6, <1>7, <1>8, <1>9, <1>10 DEF RegisterStep

-----------------------------------------------------------------------------
(* All together.                                                            *)

Inv == ServingInv /\ BudgetsInv /\ RegistersInv

\* What a step on budgets does to the record of its request.
BudgetMoves(r) ==
  \/ Finish(r)
  \/ \E pc, mem : req[r].op \in BudgetOps /\ Proceed(r, pc, mem)
  \/ \E op \in BudgetOps : \E pc, row, arg : Begin(r, op, pc, row, arg)

LEMMA BudgetStepMoves ==
  ASSUME NEW r \in Requests, BudgetStep(r) PROVE BudgetMoves(r)
  <1>0. /\ "create budget" \in BudgetOps /\ "update budget" \in BudgetOps
        /\ "move budget" \in BudgetOps /\ "read budget" \in BudgetOps
    BY DEF BudgetOps
  <1>1. CASE BeginCreateBudget(r)
    BY <1>0, <1>1 DEF BeginCreateBudget, BudgetMoves
  <1>2. CASE BeginBudgetRequest(r)
    BY <1>0, <1>2 DEF BeginBudgetRequest, BudgetMoves
  <1>3. CASE CommitNewBudget(r)
    BY <1>3 DEF CommitNewBudget, BudgetMoves
  <1>4. CASE LockForUpdate(r)
    BY <1>0, <1>4 DEF LockForUpdate, At, BudgetMoves
  <1>5. CASE CommitUpdate(r)
    BY <1>5 DEF CommitUpdate, BudgetMoves
  <1>6. CASE LockForMove(r)
    BY <1>0, <1>6 DEF LockForMove, At, BudgetMoves
  <1>7. CASE CommitMove(r)
    BY <1>7 DEF CommitMove, BudgetMoves
  <1>8. CASE ReadHeader(r)
    BY <1>0, <1>8 DEF ReadHeader, At, BudgetMoves
  <1>9. CASE ReadLines(r)
    BY <1>0, <1>9 DEF ReadLines, At, BudgetMoves
  <1>10. CASE AnswerBudget(r)
    BY <1>10 DEF AnswerBudget, BudgetMoves
  <1>11. CASE RollbackBudget(r)
    BY <1>11 DEF RollbackBudget, BudgetMoves
  <1> QED
    BY <1>1, <1>2, <1>3, <1>4, <1>5, <1>6, <1>7, <1>8, <1>9, <1>10, <1>11 DEF BudgetStep

LEMMA BudgetRecord ==
  ASSUME ServingInv, NEW r \in Requests, BudgetMoves(r), NEW q, q = req'[r]
  PROVE  /\ OnlyAt(r) /\ IsRequest(q) /\ served' \in 0..MaxServed
         /\ q = IdleRequest \/ q.op \in BudgetOps
  <1>0. served \in 0..MaxServed
    BY DEF ServingInv
  <1>1. CASE Finish(r)
    BY <1>0, <1>1, Finishes, IdleIsFine
  <1>2. CASE \E pc, mem : req[r].op \in BudgetOps /\ Proceed(r, pc, mem)
    BY <1>0, <1>2, Proceeds
  <1>3. CASE \E op \in BudgetOps : \E pc, row, arg : Begin(r, op, pc, row, arg)
    BY <1>3, Begins
  <1> QED BY <1>1, <1>2, <1>3 DEF BudgetMoves

\* A step on budgets keeps what has been approved.
LEMMA BudgetStepIsFine ==
  ASSUME BudgetsInv, ServingInv, NEW r \in Requests, BudgetStep(r)
  PROVE  BudgetsInv' /\ Frozen
  <1>1. ASSUME UNCHANGED budgetVars PROVE Frozen
    BY <1>1 DEF budgetVars, Frozen, ApprovedIsFrozen
  <1>2. CASE BeginCreateBudget(r) /\ UNCHANGED budgetVars
    BY <1>1, <1>2, InvBeginCreateBudget
  <1>3. CASE BeginBudgetRequest(r) /\ UNCHANGED budgetVars
    BY <1>1, <1>3, InvBeginBudgetRequest
  <1>4. CASE CommitNewBudget(r)  BY <1>4, InvCommitNewBudget
  <1>5. CASE CommitUpdate(r)     BY <1>5, InvCommitUpdate
  <1>6. CASE CommitMove(r)       BY <1>6, InvCommitMove
  <1>7. CASE LockForUpdate(r)    BY <1>1, <1>7, InvLockForUpdate DEF LockForUpdate
  <1>8. CASE LockForMove(r)      BY <1>1, <1>8, InvLockForMove DEF LockForMove
  <1>9. CASE ReadHeader(r)       BY <1>1, <1>9, InvReadHeader DEF ReadHeader
  <1>10. CASE ReadLines(r)       BY <1>1, <1>10, InvReadLines DEF ReadLines
  <1>11. CASE AnswerBudget(r)    BY <1>1, <1>11, BudgetRequestEnds DEF AnswerBudget
  <1>12. CASE RollbackBudget(r)  BY <1>1, <1>12, BudgetRequestEnds DEF RollbackBudget
  <1> QED
    BY <1>2, <1>3, <1>4, <1>5, <1>6, <1>7, <1>8, <1>9, <1>10, <1>11, <1>12 DEF BudgetStep

\* A step on budgets does not concern the registers.
LEMMA InvBudgetStep ==
  ASSUME Inv, NEW r \in Requests, BudgetStep(r), rows' = rows
  PROVE  Inv'
  <1>q. PICK q : q = req'[r]
    OBVIOUS
  <1>1. /\ OnlyAt(r) /\ IsRequest(q) /\ served' \in 0..MaxServed
        /\ q = IdleRequest \/ q.op \in BudgetOps
    BY <1>q, BudgetStepMoves, BudgetRecord DEF Inv
  <1>2. OfRegisterRequest(q)
    BY <1>1, IdleRegister DEF OfRegisterRequest, BudgetOps
  <1>3. ServingInv'
    BY <1>q, <1>1, ServingStays DEF Inv
  <1>4. RegistersInv'
    BY <1>q, <1>1, <1>2, RegistersStay DEF Inv
  <1> QED BY <1>3, <1>4, BudgetStepIsFine DEF Inv

-----------------------------------------------------------------------------
\* What a request has in memory is what it had, or the row as it is, or nothing.
FromBefore(p, q) ==
  \/ q.mem = Null
  \/ q.mem = rows[q.row]
  \/ q.mem = p.mem /\ q.row = p.row

RegisterRecord(p, q) ==
  /\ q = IdleRequest \/ q.op \in RegisterOps
  /\ FromBefore(p, q)

LEMMA RecordEnds ==
  ASSUME ServingInv, NEW r \in Requests, Finish(r)
  PROVE  OnlyAt(r) /\ RegisterRecord(req[r], req'[r])
  BY Finishes, IdleIsFine DEF RegisterRecord, FromBefore

LEMMA RecordBegins ==
  ASSUME ServingInv, NEW r \in Requests, NEW op \in RegisterOps, NEW pc, NEW row, NEW arg,
         Begin(r, op, pc, row, arg)
  PROVE  OnlyAt(r) /\ RegisterRecord(req[r], req'[r])
  BY Begins DEF RegisterRecord, FromBefore

LEMMA RecordProceeds ==
  ASSUME ServingInv, NEW r \in Requests, req[r].op \in RegisterOps, NEW pc, NEW mem,
         Proceed(r, pc, mem), mem \in {Null, rows[req[r].row], req[r].mem}
  PROVE  OnlyAt(r) /\ RegisterRecord(req[r], req'[r])
  <1>q. PICK q : q = req'[r]
    OBVIOUS
  <1>1. OnlyAt(r) /\ q.op = req[r].op /\ q.mem = mem /\ q.row = req[r].row
    BY <1>q, Proceeds
  <1> QED BY <1>q, <1>1 DEF RegisterRecord, FromBefore

LEMMA RegisterStepRecord ==
  ASSUME RegistersInv, ServingInv, NEW r \in Requests, RegisterStep(r)
  PROVE  OnlyAt(r) /\ RegisterRecord(req[r], req'[r])
  <1>0. "create" \in RegisterOps /\ "update" \in RegisterOps /\ "change" \in RegisterOps
    BY DEF RegisterOps
  <1>1. CASE \/ CreateAccount(r) \/ CreateDimension(r) \/ CreateCounterparty(r)
             \/ CreateContract(r) \/ SetRate(r)
    <2>1. PICK kind, state : BeginCreate(r, kind, state)
      BY <1>1 DEF CreateAccount, CreateDimension, CreateCounterparty, CreateContract, SetRate
    <2> QED BY <1>0, <2>1, RecordBegins DEF BeginCreate
  <1>2. CASE \/ UpdateCounterparty(r) \/ DeactivateCounterparty(r)
             \/ DeactivateAccount(r) \/ ChangeContractStatus(r)
    <2>1. PICK kind, op, arg : op \in RegisterOps /\ BeginChange(r, kind, op, arg)
      <3>1. CASE UpdateCounterparty(r)
        BY <1>0, <3>1 DEF UpdateCounterparty
      <3>2. CASE DeactivateCounterparty(r)
        BY <1>0, <3>2 DEF DeactivateCounterparty
      <3>3. CASE DeactivateAccount(r)
        BY <1>0, <3>3 DEF DeactivateAccount
      <3>4. CASE ChangeContractStatus(r)
        BY <1>0, <3>4 DEF ChangeContractStatus
      <3> QED BY <1>2, <3>1, <3>2, <3>3, <3>4
    <2> QED BY <2>1, RecordBegins DEF BeginChange
  <1>3. CASE Find(r)
    <2>1. req[r].op = "create"
      BY <1>3 DEF Find, At
    <2>2. CASE Proceed(r, "insert", Null)
      BY <1>0, <2>1, <2>2, RecordProceeds
    <2>3. CASE Finish(r)
      BY <2>3, RecordEnds
    <2>4. CASE \E i \in RowIds :
                 req' = [req EXCEPT ![r] = [op |-> "change", pc |-> "save", row |-> i,
                                            mem |-> rows[i], arg |-> req[r].arg.state]]
      <3>0. PICK x : x = req[r].arg.state
        OBVIOUS
      <3>1. PICK i \in RowIds :
              req' = [req EXCEPT ![r] = [op |-> "change", pc |-> "save", row |-> i,
                                         mem |-> rows[i], arg |-> x]]
        BY <2>4, <3>0
      <3> DEFINE q == [op |-> "change", pc |-> "save", row |-> i, mem |-> rows[i],
                       arg |-> x]
      <3>2. q.op = "change" /\ q.row = i /\ q.mem = rows[i] /\ req' = [req EXCEPT ![r] = q]
        BY <3>1
      <3> HIDE DEF q
      <3>3. req'[r] = q /\ OnlyAt(r)
        BY <3>2, Becomes
      <3> QED BY <1>0, <3>2, <3>3 DEF RegisterRecord, FromBefore
    <2> QED BY <1>3, <2>2, <2>3, <2>4 DEF Find, Registered
  <1>4. CASE Insert(r) \/ Write(r) \/ Fail(r)
    BY <1>4, RecordEnds DEF Insert, Write, Fail
  <1>5. CASE ReadForChange(r)
    <2>1. req[r].op = "change"
      BY <1>5 DEF ReadForChange, At
    <2>2. Finish(r) \/ Proceed(r, "save", rows[req[r].row])
      BY <1>5 DEF ReadForChange
    <2> QED BY <1>0, <2>1, <2>2, RecordEnds, RecordProceeds
  <1>6. CASE ReadForUpdate(r)
    <2>1. req[r].op = "update"
      BY <1>6 DEF ReadForUpdate, At
    <2>2. \E pc : Proceed(r, pc, rows[req[r].row])
      BY <1>6 DEF ReadForUpdate
    <2> QED BY <1>0, <2>1, <2>2, RecordProceeds
  <1>7. CASE CheckClash(r)
    <2>1. req[r].op = "update"
      BY <1>7 DEF CheckClash, At
    <2>2. Finish(r) \/ Proceed(r, "save", req[r].mem)
      BY <1>7 DEF CheckClash
    <2> QED BY <1>0, <2>1, <2>2, RecordEnds, RecordProceeds
  <1>8. CASE LoadForSave(r)
    <2>1. req[r].op \in {"update", "change"}
      BY <1>8 DEF LoadForSave
    <2>q. PICK q : q = req'[r]
      OBVIOUS
    <2>2. OnlyAt(r) /\ q.op = req[r].op /\ q.mem = req[r].mem /\ q.row = req[r].row
      BY <1>8, <2>q, Loaded
    <2> QED BY <1>0, <2>1, <2>q, <2>2 DEF RegisterRecord, FromBefore
  <1> QED
    BY <1>1, <1>2, <1>3, <1>4, <1>5, <1>6, <1>7, <1>8 DEF RegisterStep

LEMMA InvStepOfRegister ==
  ASSUME Inv, NEW r \in Requests, RegisterStep(r), UNCHANGED budgetVars
  PROVE  Inv'
  <1>1. RegistersInv' /\ ServingInv'
    BY InvRegisterStep DEF Inv
  <1>q. PICK q : q = req'[r]
    OBVIOUS
  <1>2. OnlyAt(r) /\ (q = IdleRequest \/ q.op \in RegisterOps)
    BY <1>q, RegisterStepRecord DEF Inv, RegisterRecord
  <1>3. q.op \notin BudgetOps
    BY <1>2, IdleIsFine, OpsDiffer
  <1>4. OfBudgetRequest(q) /\ q.op # "create budget" /\ ~Locks(q)
    BY <1>3 DEF OfBudgetRequest, BudgetOps, Locks
  <1>5. BudgetsInv'
    BY <1>q, <1>2, <1>4, NoRival, BudgetsStay DEF Inv, budgetVars
  <1> QED BY <1>1, <1>5 DEF Inv

-----------------------------------------------------------------------------
LEMMA InvInit == Init => Inv
  <1> SUFFICES ASSUME Init PROVE Inv
    OBVIOUS
  <1>1. \A r \in Requests : req[r] = IdleRequest
    BY DEF Init
  <1>2. ServingInv
    <2>1. req = [r \in Requests |-> req[r]]
      BY DEF Init
    <2>2. served \in 0..MaxServed
      BY BoundAssumption DEF Init
    <2> QED BY <1>1, <2>1, <2>2, IdleIsFine DEF ServingInv
  <1>3. BudgetsInv
    <2>1. /\ budgets \in [BudgetIds -> Budget \cup {Null}]
          /\ lines \in [BudgetIds -> LineSets \cup {Null}]
          /\ \A b \in BudgetIds : OfBudget(b)
      BY DEF Init, BudgetInit, OfBudget
    <2>2. \A r \in Requests : OfBudgetRequest(req[r])
      BY <1>1, IdleBudget
    <2>3. \A r, s \in Requests : ~Rivals(req[r], req[s])
      BY <1>1, IdleBudget
    <2> QED BY <2>1, <2>2, <2>3 DEF BudgetsInv
  <1>4. RegistersInv
    BY <1>1, IdleRegister DEF Init, RegisterInit, RegistersInv, OneForEachKey
  <1> QED BY <1>2, <1>3, <1>4 DEF Inv

LEMMA InvStays ==
  ASSUME Inv, UNCHANGED vars PROVE Inv'
  <1>1. /\ req' = req /\ served' = served /\ budgets' = budgets /\ lines' = lines
        /\ rows' = rows
    BY DEF vars
  <1>2. ServingInv'
    BY <1>1 DEF Inv, ServingInv, IsRequest
  <1>3. BudgetsInv'
    <2>1. \A b \in BudgetIds : OfBudget(b)'
      BY <1>1 DEF Inv, BudgetsInv, OfBudget
    <2>2. ASSUME NEW r \in Requests PROVE OfBudgetRequest(req[r])'
      <3>1. OfBudgetRequest(req'[r])
        BY <1>1 DEF Inv, BudgetsInv
      <3> QED BY <1>1, <3>1 DEF OfBudgetRequest, Known
    <2>3. ASSUME NEW r \in Requests, NEW s \in Requests, r # s
          PROVE  ~Rivals(req[r], req[s])'
      <3>1. ~Rivals(req'[r], req'[s])
        BY <1>1, <2>3 DEF Inv, BudgetsInv
      <3> QED BY <3>1 DEF Rivals, Locks
    <2> QED BY <1>1, <2>1, <2>2, <2>3 DEF Inv, BudgetsInv
  <1>4. RegistersInv'
    BY <1>1 DEF Inv, RegistersInv, OneForEachKey, OfRegisterRequest, OfChange, OfWrite
  <1> QED BY <1>2, <1>3, <1>4 DEF Inv

LEMMA InvNext == Inv /\ [Next]_vars => Inv'
  <1> SUFFICES ASSUME Inv, [Next]_vars PROVE Inv'
    OBVIOUS
  <1>1. ASSUME NEW r \in Requests, BudgetStep(r), UNCHANGED rows PROVE Inv'
    BY <1>1, InvBudgetStep
  <1>2. ASSUME NEW r \in Requests, RegisterStep(r), UNCHANGED budgetVars PROVE Inv'
    BY <1>2, InvStepOfRegister
  <1>3. CASE UNCHANGED vars
    BY <1>3, InvStays
  <1> QED BY <1>1, <1>2, <1>3 DEF Next

THEOREM Invariance == Spec => []Inv
  BY InvInit, InvNext, PTL DEF Spec

-----------------------------------------------------------------------------
LEMMA RegisterForms ==
  ASSUME ServingInv, RegistersInv, NEW r \in Requests, req[r].op \in RegisterOps
  PROVE  req[r] \in RegisterRequest
  <1>1. PICK q : q = req[r]
    OBVIOUS
  <1>2. IsRequest(q) /\ OfRegisterRequest(q) /\ q.op \in RegisterOps
    BY <1>1 DEF ServingInv, RegistersInv
  <1>3. CASE q.op = "create"
    <2>1. /\ q.pc \in {"find", "insert"} /\ q.row = Null /\ q.mem = Null /\ q.arg \in Row
      BY <1>2, <1>3 DEF OfRegisterRequest
    <2>2. q \in [op : {"create"}, pc : {"find", "insert"}, row : {Null}, mem : {Null},
                 arg : Row]
      BY <1>2, <1>3, <2>1 DEF IsRequest, Columns
    <2> QED BY <1>1, <2>2 DEF RegisterRequest
  <1>4. CASE q.op \in {"update", "change"} /\ q.pc = "write"
    <2>1. /\ q.row \in RowIds /\ q.mem \in Row
          /\ q.arg \in [row : Row, columns : SUBSET {"key", "state"}]
      BY <1>2, <1>4 DEF OfRegisterRequest, OfChange, OfWrite
    <2>2. q \in [op : {"update", "change"}, pc : {"write"}, row : RowIds, mem : Row,
                 arg : [row : Row, columns : SUBSET {"key", "state"}]]
      BY <1>2, <1>4, <2>1 DEF IsRequest, Columns
    <2> QED BY <1>1, <2>2 DEF RegisterRequest
  <1>5. CASE q.op \in {"update", "change"} /\ q.pc # "write"
    <2>1. OfChange(q) /\ q.pc \in {"read", "clash", "save"} /\ q.row \in RowIds
      BY <1>2, <1>5 DEF OfRegisterRequest, OfChange
    <2>2. rows[q.row].kind \in Kinds
      BY <2>1, RowForms DEF OfChange, RegistersInv
    <2> DEFINE args == Keys \cup {Null} \cup UNION {States(k) : k \in Kinds}
    <2>3. q.arg \in args
      BY <1>5, <2>1, <2>2 DEF OfChange
    <2>4. q.mem \in Row \cup {Null}
      BY <2>1 DEF OfChange
    <2> HIDE DEF args
    <2>5. q \in [op : {"update", "change"}, pc : {"read", "clash", "save"}, row : RowIds,
                 mem : Row \cup {Null}, arg : args]
      BY <1>2, <1>5, <2>1, <2>3, <2>4 DEF IsRequest, Columns
    <2> QED BY <1>1, <2>5 DEF RegisterRequest, args
  <1> QED BY <1>2, <1>3, <1>4, <1>5 DEF RegisterOps

LEMMA InvTypeOK == Inv => TypeOK
  <1> SUFFICES ASSUME Inv PROVE TypeOK
    OBVIOUS
  <1>1. /\ served \in 0..MaxServed /\ DOMAIN req = Requests
        /\ \A r \in Requests :
             req[r] = IdleRequest \/ req[r].op \in BudgetOps \cup RegisterOps
    BY DEF Inv, ServingInv
  <1>2. BudgetTypeOK
    <2>1. ASSUME NEW r \in Requests, req[r].op \in BudgetOps
          PROVE  req[r] \in BudgetRequest
      BY <2>1, BudgetForms DEF Inv, BudgetsInv, OfBudgetRequest
    <2> QED BY <2>1 DEF Inv, BudgetsInv, BudgetTypeOK, OfBudget
  <1>3. RegisterTypeOK
    BY RegisterForms DEF Inv, RegistersInv, OneForEachKey, RegisterTypeOK
  <1> QED BY <1>1, <1>2, <1>3 DEF TypeOK

\* The tables hold what their columns allow, one row for each key, a budget has
\* lines as soon as it is there, and requests are of their types
\* (budgets.service.ts:17-46, counterparties.service.ts:29-52).
THEOREM TypeCorrect == Spec => []TypeOK
  BY Invariance, InvTypeOK, PTL

\* The execution of an approved budget shows the lines that were approved
\* (budgets.service.ts:61-66, 114-142).
THEOREM ExecutionIsOfTheApproved == Spec => []AnswersWhatWasApproved
  <1>1. Inv => AnswersWhatWasApproved
    <2> SUFFICES ASSUME Inv, NEW r \in Requests, At(r, "read budget", "answer"),
                        req[r].mem.header.status # "DRAFT"
                 PROVE  LET b == req[r].row
                            header == req[r].mem.header IN
                        /\ req[r].mem.lines = lines[b]
                        /\ header.period = budgets[b].period
                        /\ header.approvedBy = budgets[b].approvedBy
                        /\ header.approvedBy # Null
      BY DEF AnswersWhatWasApproved
    <2>1. OfBudgetRequest(req[r]) /\ req[r].op \in BudgetOps
      BY DEF Inv, BudgetsInv, At, BudgetOps
    <2> QED BY <2>1 DEF OfBudgetRequest, Known, At
  <1> QED BY <1>1, Invariance, PTL

\* What was approved stays as it was approved (budgets.service.ts:68-110, 181-204).
THEOREM ApprovedStays == Spec => ApprovedBudgetsAreFrozen
  <1>1. Inv /\ [Next]_vars => [Frozen]_vars
    <2> SUFFICES ASSUME Inv, Next PROVE Frozen
      OBVIOUS
    <2>1. ASSUME NEW r \in Requests, BudgetStep(r) PROVE Frozen
      BY <2>1, BudgetStepIsFine DEF Inv
    <2>2. ASSUME UNCHANGED budgetVars PROVE Frozen
      BY <2>2 DEF budgetVars, Frozen, ApprovedIsFrozen
    <2> QED BY <2>1, <2>2 DEF Next
  <1> QED BY <1>1, Invariance, PTL DEF Spec, ApprovedBudgetsAreFrozen, Frozen

-----------------------------------------------------------------------------
\* A settled row keeps its state in every step on the registers.
LEMMA StateStays ==
  ASSUME RegistersInv, NEW r \in Requests, RegisterStep(r), NEW i \in RowIds, Settled(i)
  PROVE  rows'[i] # Null /\ rows'[i].state = rows[i].state
  <1>0. rows[i] # Null
    BY DEF Settled
  <1>1. CASE rows' = rows
    BY <1>0, <1>1
  <1>2. CASE Insert(r)
    <2>0. PICK new : new = req[r].arg
      OBVIOUS
    <2>1. PICK j \in RowIds :
            /\ rows[j] = Null
            /\ rows' = IF KeyFree(j, new) THEN [rows EXCEPT ![j] = new] ELSE rows
      BY <1>2, <2>0 DEF Insert
    <2> QED BY <1>0, <2>1 DEF RegistersInv
  <1>3. CASE Write(r)
    <2>1. PICK j \in RowIds, row \in Row :
            /\ rows' = IF KeyFree(j, row) THEN [rows EXCEPT ![j] = row] ELSE rows
            /\ Settled(j) => row.state = rows[j].state
      BY <1>3, WrittenRow
    <2>2. row # Null
      BY NullIsNoRow
    <2>3. rows' = [rows EXCEPT ![j] = row] \/ rows' = rows
      BY <2>1
    <2> QED BY <1>0, <2>1, <2>2, <2>3 DEF RegistersInv
  <1> QED
    BY <1>1, <1>2, <1>3 DEF RegisterStep, Find, ReadForChange, ReadForUpdate, CheckClash,
                            LoadForSave, Fail

\* A row stays settled as long as it keeps its state and nobody gets a copy from before.
LEMMA StaysSettled ==
  ASSUME NEW i \in RowIds, Settled(i), NEW r \in Requests, OnlyAt(r),
         rows'[i] # Null, rows'[i].state = rows[i].state,
         NEW q, q = req'[r], q.row = i /\ q.mem # Null => FromBefore(req[r], q)
  PROVE  SettledStays(i)
  <1>1. ASSUME NEW s \in Requests, req'[s].row = i, req'[s].mem # Null
        PROVE  HasEnded(req'[s].mem)
    <2>1. CASE s = r
      BY <1>1, <2>1 DEF FromBefore, Settled
    <2>2. CASE s # r
      BY <1>1, <2>2 DEF OnlyAt, Settled
    <2> QED BY <2>1, <2>2
  <1>2. HasEnded(rows'[i])
    BY DEF Settled, HasEnded
  <1>3. Settled(i)'
    BY <1>1, <1>2 DEF Settled, HasEnded
  <1> QED BY <1>3 DEF SettledStays

\* What has ended stays ended, once the requests that had read it before are through
\* (contracts.service.ts:53-62, counterparties.service.ts:88-108).
THEOREM SettledStay == Spec => SettledRowsStay
  <1> DEFINE A == \A i \in RowIds : SettledStays(i)
  <1>1. Inv /\ Inv' /\ [Next]_vars => [A]_vars
    <2> SUFFICES ASSUME Inv, Inv', Next, NEW i \in RowIds, Settled(i)
                 PROVE  SettledStays(i)
      BY DEF SettledStays
    <2>1. ASSUME NEW r \in Requests, RegisterStep(r) PROVE SettledStays(i)
      <3>q. PICK q : q = req'[r]
        OBVIOUS
      <3>1. OnlyAt(r) /\ FromBefore(req[r], q)
        BY <2>1, <3>q, RegisterStepRecord DEF Inv, RegisterRecord
      <3> QED BY <2>1, <3>q, <3>1, StateStays, StaysSettled DEF Inv
    <2>2. ASSUME NEW r \in Requests, BudgetStep(r), rows' = rows PROVE SettledStays(i)
      <3>q. PICK q : q = req'[r]
        OBVIOUS
      <3>1. OnlyAt(r) /\ (q = IdleRequest \/ q.op \in BudgetOps)
        BY <2>2, <3>q, BudgetStepMoves, BudgetRecord DEF Inv
      <3>2. q.op \in BudgetOps => q.row \in BudgetIds
        <4>1. (\A s \in Requests : OfBudgetRequest(req[s]))'
          BY DEF Inv, BudgetsInv
        <4>2. q.op \in BudgetOps => BudgetForm(q)'
          BY <3>q, <4>1 DEF OfBudgetRequest
        <4> QED BY <4>2 DEF BudgetForm
      <3>3. ~(q.row = i /\ q.mem # Null)
        BY <3>1, <3>2, IdleIsFine, IdsAssumption
      <3>4. rows'[i] # Null /\ rows'[i].state = rows[i].state
        BY <2>2 DEF Settled
      <3> QED BY <3>q, <3>1, <3>3, <3>4, StaysSettled
    <2> QED BY <2>1, <2>2 DEF Next
  <1> QED BY <1>1, Invariance, PTL DEF Spec, SettledRowsStay

=============================================================================
