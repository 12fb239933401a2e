------------------------------- MODULE Ledger -------------------------------
(***************************************************************************)
(* Posting to the ledger while periods are opened and closed and accounts  *)
(* deactivated: PostingService, PeriodsService and AccountsService, over   *)
(* a pool of database connections.                                         *)
(*                                                                         *)
(* A posting runs inside its caller's transaction, which holds one         *)
(* connection and the row lock of the posted document (the source), and    *)
(* checks the period and the accounts through the services' own            *)
(* repositories: each of these reads takes a second connection from the    *)
(* pool for a moment, and sees what is committed then.                     *)
(*                                                                         *)
(* periods, active and entries are the committed tables; an entry that is  *)
(* inserted and not committed is in its request's record. What a line says *)
(* and what is summed over the lines is in Books.                          *)
(***************************************************************************)
EXTENDS Books, FiniteSets, RowLocks

CONSTANTS
  Requests,     \* HTTP requests the server works on at the same time
  PoolSize,     \* connections of the pool
  Sources,      \* documents that are posted and reversed
  Months,       \* the unique (year, month) of a period
  Postings,     \* what documents and payments post: sequences of lines
  Users,
  Null,         \* no period, no user, no document, no month
  MaxEntries,   \* bound: journal entries
  MaxMoves      \* bound: status changes of one period

ASSUME PoolAssumption == PoolSize \in Nat \ {0}

\* DocumentLines and PaymentLines are all that is ever posted.
ASSUME PostingsAssumption ==
  Postings \subseteq Seq(Line) /\ \A lines \in Postings : InPairs(lines)

VARIABLES
  periods,  \* financial_periods: [Months -> Period or Null]
  trail,    \* the PERIOD_* rows of audit_logs for each period, oldest first
  active,   \* accounts whose isActive is true
  entries,  \* journal_entries, in the order of their commits
  req       \* what each request is doing

vars == <<periods, trail, active, entries, req>>

-----------------------------------------------------------------------------
PeriodStatus == {"OPEN", "CLOSING", "CLOSED"}

Allowed(s) ==
  CASE s = "OPEN"    -> {"CLOSING"}
    [] s = "CLOSING" -> {"OPEN", "CLOSED"}
    [] OTHER         -> {}

\* closedAt and closedByUserId are assigned together: one of them is enough.
Period == [status : PeriodStatus, closedBy : Users \cup {Null}]

ASSUME NullAssumption == Null \notin Users \cup Sources \cup Months \cup Period

\* A row of audit_logs about a period. The reopening of a CLOSED period is
\* told apart by its metadata.
Move == [to : PeriodStatus, reopened : BOOLEAN, by : Users]

\* reverses is the entry that an entry reverses, or 0: history that the code tells by
\* the document's postedJournalEntryId. The column reversalOfEntryId is never written.
Entry == [source : Sources, month : Months, lines : Seq(Row),
          status : {"POSTED", "REVERSED"}, reverses : Nat]

Ops == {"none", "post", "reverse", "transition", "reopen"}

PCs == {"idle", "begun",
        "original", "validate", "resolve", "open", "accounts", \* of a posting
        "insert", "inserted",                       \* writes of a posting
        "locked"}                                   \* a period's change

\* While at one of these a request needs a second connection.
Reads == {"original", "resolve", "open", "accounts"}

Request == [op : Ops, pc : PCs, source : Sources \cup {Null},
            month : Months \cup {Null},
            lines : Seq(Line), todo : Seq(Line), \* those left to check
            original : Nat,           \* the entry to reverse
            mem : Period \cup {Null}, \* the period in memory
            next : PeriodStatus, by : Users \cup {Null}]

IdleRequest == [op |-> "none", pc |-> "idle", source |-> Null, month |-> Null,
                lines |-> <<>>, todo |-> <<>>, original |-> 0,
                mem |-> Null, next |-> "OPEN", by |-> Null]

Init ==
  /\ periods = [m \in Months |-> Null]
  /\ trail = [m \in Months |-> <<>>]
  /\ active = Accounts
  /\ entries = <<>>
  /\ req = [r \in Requests |-> IdleRequest]

-----------------------------------------------------------------------------
(* Row locks and connections.                                               *)

PostingOps == {"post", "reverse"}

\* The caller's FOR UPDATE on the document.
LocksSource(r) ==
  req[r].op \in PostingOps /\ req[r].pc \in Reads \cup {"validate", "insert", "inserted"}

\* The lock with which transition() and reopenClosedPeriod() read the period.
PeriodLock == "UPDATE"

\* Without the foreign key, inserting an entry would not touch the period.
EntryKeyNone == "NONE"

\* The lock that the foreign key of a new entry takes on its period.
EntryKeyLock == "KEY SHARE"

PeriodModes(r, m) ==
  (IF req[r].month = m /\ req[r].pc = "locked" THEN {PeriodLock} ELSE {})
    \cup
  (IF req[r].month = m /\ req[r].pc = "inserted" THEN {EntryKeyLock} ELSE {})

MayLockPeriod(r, m, mode) ==
  \A s \in Requests \ {r} : PeriodModes(s, m) \cap WaitsFor(mode) = {}

\* Every request that has begun its transaction keeps one connection.
InUse == Cardinality({r \in Requests : req[r].pc # "idle"})

\* What an off-by-one in the pool's limit would be.
OneTooMany == InUse <= PoolSize

ConnectionFree == InUse < PoolSize

Step(r, pc) == req' = [req EXCEPT ![r].pc = pc]

Finish(r) == req' = [req EXCEPT ![r] = IdleRequest]

-----------------------------------------------------------------------------
(* One statement each: periods and accounts. Creation finds the row first,  *)
(* but it is the unique index that decides.                                 *)

CreatePeriod(m) ==
  /\ periods[m] = Null
  /\ periods' = [periods EXCEPT ![m] = [status |-> "OPEN", closedBy |-> Null]]
  /\ UNCHANGED <<trail, active, entries, req>>

\* There is no operation that activates an account again. The row's keys stay,
\* so that the entries being inserted do not hold this up.
Deactivate(a) ==
  /\ a \in active
  /\ active' = active \ {a}
  /\ UNCHANGED <<periods, trail, entries, req>>

-----------------------------------------------------------------------------
(* The transaction begins.                                                  *)

Begin(r, fields) ==
  /\ req[r].pc = "idle"
  /\ ConnectionFree
  /\ req' = [req EXCEPT ![r] = fields]
  /\ UNCHANGED <<periods, trail, active, entries>>

\* Bound: journal entries, those under way included.
RoomForEntry ==
  Len(entries) + Cardinality({r \in Requests : req[r].op \in PostingOps})
    < MaxEntries

BeginPost(r, d, m, lines) ==
  /\ RoomForEntry
  /\ Begin(r, [IdleRequest EXCEPT !.op = "post", !.pc = "begun", !.source = d,
                 !.month = m, !.lines = lines, !.todo = lines])

\* The reversal is dated today.
BeginReverse(r, d, m) ==
  /\ RoomForEntry
  /\ Begin(r, [IdleRequest EXCEPT !.op = "reverse", !.pc = "begun",
                 !.source = d, !.month = m])

\* Bound: status changes of a period, those under way included.
RoomForMove(m) ==
  Len(trail[m]) + Cardinality({r \in Requests : req[r].month = m
                                  /\ req[r].op \in {"transition", "reopen"}})
    < MaxMoves

BeginTransition(r, m, s, u) ==
  /\ RoomForMove(m)
  /\ Begin(r, [IdleRequest EXCEPT !.op = "transition", !.pc = "begun",
                 !.month = m, !.next = s, !.by = u])

BeginReopen(r, m, u) ==
  /\ RoomForMove(m)
  /\ Begin(r, [IdleRequest EXCEPT !.op = "reopen", !.pc = "begun",
                 !.month = m, !.next = "OPEN", !.by = u])

-----------------------------------------------------------------------------
(* post() and reverse().                                                    *)

LockSource(r) ==
  /\ req[r].pc = "begun" /\ req[r].op \in PostingOps
  /\ \A s \in Requests \ {r} : LocksSource(s) => req[s].source # req[r].source
  /\ Step(r, IF req[r].op = "reverse" THEN "original" ELSE "validate")
  /\ UNCHANGED <<periods, trail, active, entries>>

\* The entry to reverse, read on the second connection: the document's own.
ReadOriginal(r) ==
  /\ req[r].pc = "original" /\ ConnectionFree
  /\ \E i \in DOMAIN entries :
       /\ entries[i].source = req[r].source /\ entries[i].reverses = 0
       /\ entries[i].status = "POSTED"
       /\ LET lines == [k \in DOMAIN entries[i].lines |->
                          Swapped(entries[i].lines[k])] IN
          req' = [req EXCEPT ![r].pc = "validate", ![r].original = i,
                             ![r].lines = lines, ![r].todo = lines]
  /\ UNCHANGED <<periods, trail, active, entries>>

\* validateLines.
ValidateLines(r) ==
  /\ req[r].pc = "validate"
  /\ ValidLines(req[r].lines)
  /\ Step(r, "resolve")
  /\ UNCHANGED <<periods, trail, active, entries>>

\* resolveForDate: there is a period for the date.
ResolvePeriod(r) ==
  /\ req[r].pc = "resolve" /\ ConnectionFree
  /\ periods[req[r].month] # Null
  /\ Step(r, "open")
  /\ UNCHANGED <<periods, trail, active, entries>>

\* assertOpenForPosting: a second, unlocked read of the period.
CheckOpen(r) ==
  /\ req[r].pc = "open" /\ ConnectionFree
  /\ periods[req[r].month].status = "OPEN"
  /\ Step(r, "accounts")
  /\ UNCHANGED <<periods, trail, active, entries>>

\* assertActive for the account of the next line.
CheckAccount(r) ==
  LET todo == req[r].todo IN
  /\ req[r].pc = "accounts" /\ ConnectionFree
  /\ Head(todo).account \in active
  /\ req' = [req EXCEPT ![r].todo = Tail(todo),
                        ![r].pc = IF Len(todo) = 1 THEN "insert" ELSE @]
  /\ UNCHANGED <<periods, trail, active, entries>>

\* The entry and its lines, on the caller's connection.
Rows(r) == [k \in DOMAIN req[r].lines |-> Stored(req[r].lines[k])]

InsertEntry(r) ==
  /\ req[r].pc = "insert"
  /\ \A k \in DOMAIN req[r].lines : CheckDebitXorCredit(Rows(r)[k])
  /\ MayLockPeriod(r, req[r].month, EntryKeyLock)
  /\ Step(r, "inserted")
  /\ UNCHANGED <<periods, trail, active, entries>>

\* The original becomes REVERSED.
Marked(i) == IF i = 0 THEN entries ELSE [entries EXCEPT ![i].status = "REVERSED"]

\* The caller saves its document, and commits: the deferred trigger looks at the
\* rows now.
CommitEntry(r) ==
  LET i == req[r].original IN
  /\ req[r].pc = "inserted"
  /\ CheckEntryBalance(Rows(r))
  /\ entries' = Append(Marked(i), [source |-> req[r].source, month |-> req[r].month,
                                   lines |-> Rows(r),
                                   status |-> "POSTED", reverses |-> i])
  /\ Finish(r)
  /\ UNCHANGED <<periods, trail, active>>

\* One of the reads finds what it must not find.
RefusePosting(r) ==
  LET d == req[r].source
      m == req[r].month IN
  /\ req[r].pc \in Reads => ConnectionFree
  /\ \/ req[r].pc = "validate" /\ ~ValidLines(req[r].lines)
     \/ /\ req[r].pc = "original"
        /\ \A i \in DOMAIN entries :
             entries[i].source = d /\ entries[i].reverses = 0
               => entries[i].status # "POSTED"
     \/ req[r].pc = "resolve" /\ periods[m] = Null
     \/ req[r].pc = "open" /\ periods[m].status # "OPEN"
     \/ req[r].pc = "accounts" /\ Head(req[r].todo).account \notin active
  /\ Finish(r)
  /\ UNCHANGED <<periods, trail, active, entries>>

-----------------------------------------------------------------------------
(* transition() and reopenClosedPeriod().                                   *)

\* The status check made on the locked row.
Accepts(op, status, next) ==
  IF op = "reopen" THEN status = "CLOSED" ELSE next \in Allowed(status)

LockPeriod(r) ==
  LET m == req[r].month IN
  /\ req[r].pc = "begun" /\ req[r].op \in {"transition", "reopen"}
  /\ MayLockPeriod(r, m, PeriodLock)
  /\ IF periods[m] # Null
          /\ Accepts(req[r].op, periods[m].status, req[r].next)
       THEN req' = [req EXCEPT ![r].pc = "locked", ![r].mem = periods[m]]
       ELSE Finish(r)
  /\ UNCHANGED <<periods, trail, active, entries>>

\* What a reopening that forgets to clear closedAt and closedByUserId leaves.
ClosedByKept(row, op, next, u) == IF next = "CLOSED" THEN u ELSE row.closedBy

ClosedBy(row, op, next, u) ==
  IF next = "CLOSED" THEN u
  ELSE IF op = "reopen" THEN Null
  ELSE row.closedBy

\* save(), the audit row, and the commit.
CommitPeriod(r) ==
  LET m == req[r].month
      op == req[r].op
      s == req[r].next
      u == req[r].by IN
  /\ req[r].pc = "locked"
  /\ periods' = [periods EXCEPT ![m] =
                   [status |-> s, closedBy |-> ClosedBy(req[r].mem, op, s, u)]]
  /\ trail' = [trail EXCEPT ![m] =
                 Append(@, [to |-> s, reopened |-> op = "reopen", by |-> u])]
  /\ Finish(r)
  /\ UNCHANGED <<active, entries>>

-----------------------------------------------------------------------------
\* Any transaction may be lost at any statement: lock_timeout,
\* statement_timeout, a failed statement, a crash.
Rollback(r) ==
  /\ req[r].pc # "idle"
  /\ Finish(r)
  /\ UNCHANGED <<periods, trail, active, entries>>

\* What is left of the timeout when connectionTimeoutMillis is not set.
NeverTimesOut(r) == FALSE

\* A request waits for a connection that nobody gives back.
TimesOut(r) == req[r].pc \in Reads /\ ~ConnectionFree

\* connectionTimeoutMillis: the read fails, and its caller rolls back.
ConnectionTimeout(r) ==
  /\ TimesOut(r)
  /\ Finish(r)
  /\ UNCHANGED <<periods, trail, active, entries>>

\* The steps by which a request that has begun gets on.
Advance(r) ==
  \/ LockSource(r)
  \/ ReadOriginal(r)
  \/ ValidateLines(r)
  \/ ResolvePeriod(r)
  \/ CheckOpen(r)
  \/ CheckAccount(r)
  \/ InsertEntry(r)
  \/ CommitEntry(r)
  \/ RefusePosting(r)
  \/ LockPeriod(r)
  \/ CommitPeriod(r)

Next ==
  \/ \E m \in Months : CreatePeriod(m)
  \/ \E a \in Accounts : Deactivate(a)
  \/ \E r \in Requests :
       \/ \E d \in Sources, m \in Months, lines \in Postings :
            BeginPost(r, d, m, lines)
       \/ \E d \in Sources, m \in Months : BeginReverse(r, d, m)
       \/ \E m \in Months, s \in PeriodStatus, u \in Users :
            BeginTransition(r, m, s, u)
       \/ \E m \in Months, u \in Users : BeginReopen(r, m, u)
       \/ Advance(r)
       \/ ConnectionTimeout(r)
       \/ Rollback(r)

Spec == Init /\ [][Next]_vars

\* PostgreSQL queues the waiters of a row and the pool the waiters for a
\* connection, so that what is free often enough is given; a connection that
\* does not come free is given up. Row locks need no timeout of their own.
Fairness ==
  \A r \in Requests : SF_vars(Advance(r)) /\ WF_vars(ConnectionTimeout(r))

FairSpec == Spec /\ Fairness

-----------------------------------------------------------------------------
(* Properties.                                                              *)

TypeOK ==
  /\ periods \in [Months -> Period \cup {Null}]
  /\ trail \in [Months -> Seq(Move)]
  /\ active \subseteq Accounts
  /\ entries \in Seq(Entry)
  /\ req \in [Requests -> Request]
  /\ InUse <= PoolSize

\* The statuses a period has gone through, as its audit rows tell it.
Walk(m) == <<"OPEN">> \o [i \in DOMAIN trail[m] |-> trail[m][i].to]

\* The audit rows of a period are a walk along the transition table, with a
\* reopening only from CLOSED, that ends at the status the period has; while it
\* is CLOSED it is signed by the user of the last row, otherwise by nobody -
\* however many requests open, close and reopen it at once
\* (periods.service.ts:62-133).
AuditTellsStatus ==
  \A m \in Months :
    IF periods[m] = Null THEN trail[m] = <<>>
    ELSE /\ periods[m].status = Walk(m)[Len(trail[m]) + 1]
         /\ \A i \in DOMAIN trail[m] :
              IF trail[m][i].reopened
                THEN Walk(m)[i] = "CLOSED" /\ Walk(m)[i + 1] = "OPEN"
                ELSE Walk(m)[i + 1] \in Allowed(Walk(m)[i])
         /\ periods[m].closedBy = IF periods[m].status = "CLOSED"
                                    THEN trail[m][Len(trail[m])].by ELSE Null

\* An entry that has been inserted keeps its period as it is until the entry is
\* committed or rolled back: the checks of a posting can only be overtaken
\* before the INSERT (posting.service.ts:42-78).
EntryPinsPeriod ==
  [][\A r \in Requests : req[r].pc = "inserted" =>
        periods'[req[r].month] = periods[req[r].month]]_vars

\* The reports tell one story, over any months, although AnalyticsService and
\* BudgetsService each do their own sums over the rows of the journal
\* (analytics.service.ts:22-159, budgets.service.ts:144-179).
BooksAgree ==
  /\ \A months \in SUBSET Months :
       /\ TrialBalanceBalances(entries, months)
       /\ ProfitIsGain(entries, months)
       /\ CashFlowIsCash(entries, months)
       /\ CounterpartiesMakeAccount(entries, months)
  /\ \A m \in Months : ActualIsBalance(entries, m)

\* A reversal leaves nothing of the entry it reverses: on every account, for every
\* counterparty and cost center, the two entries cancel, and they cancel in the
\* base currency too, whatever the rate has become (posting.service.ts:102-156).
ReversalCancels ==
  \A j \in DOMAIN entries : entries[j].reverses # 0 =>
    LET original == entries[entries[j].reverses] IN
    original.status = "REVERSED" /\ Cancel(original, entries[j])

\* An entry balances in the base currency too, although each line is truncated
\* on its own and nothing checks the sums: its lines come in pairs of one amount
\* and one rate (decimal.util.ts:73-79, posting.service.ts:68-70).
BaseBalances ==
  \A i \in DOMAIN entries :
    SumOf("baseDebit", entries[i].lines) = SumOf("baseCredit", entries[i].lines)

TheJournal == INSTANCE Journal WITH
  Balanced <- {rows \in Seq(Row) : CheckEntryBalance(rows)}

\* Entries are added and never edited, and each is reversed once at most, although
\* reverse() reads the entry and its status on another connection and without a
\* lock, and marks it later: the lock of the document keeps a second reversal out
\* (posting.service.ts:102-156, documents.service.ts:278-295).
ImplementsJournal == TheJournal!Spec

\* Every request ends, although a posting waits for a second connection while
\* it keeps one, and row locks, that others wait for
\* (posting.service.ts:35-40, typeorm.config.ts:21-33).
EveryRequestEnds == \A r \in Requests : []<>(req[r].pc = "idle")

\* periods.service.ts:57: a period that is not OPEN does not accept new
\* postings. The code checks this before the entry is inserted, without a lock.
PostsOnlyWhenOpen ==
  [][\A i \in DOMAIN entries' \ DOMAIN entries :
        periods[entries'[i].month].status = "OPEN"]_vars

=============================================================================
