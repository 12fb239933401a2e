# Formal model of pro-auth

TLA+ modules, TLC configurations and TLAPS proofs about the finance and
accounting back end in this repository (NestJS services over TypeORM and
PostgreSQL). The modules model what the services do to the database when
several requests run at once, statement by statement: which row locks a method
takes, what it reads before and after it holds them, what it writes, and what a
failure at any point leaves behind.

## 1. Inventory

### How the system runs

One Node.js process serves HTTP requests; every `await` of a database call is a
point at which another request may run. All state that lasts is in PostgreSQL,
at its default isolation level READ COMMITTED: a statement sees what is
committed when it starts. Three mechanisms order concurrent requests:

- `dataSource.transaction(...)`, one connection of a pool of 20 from BEGIN to
  COMMIT; calls that do not pass its `manager` on use another connection;
- `lock: { mode: 'pessimistic_write' }`, `SELECT ... FOR UPDATE` of a row;
- unique indexes, and the `KEY SHARE` locks that foreign keys take on the row
  they refer to.

TypeORM's `save(entity)` of an existing row is three steps: load the row again,
compare it with the entity in memory, UPDATE the columns that differ. It does not
lock the row before the UPDATE and it does not check a version.

### Components

| Component | State | Operations | Depends on | Hard behaviour |
|---|---|---|---|---|
| Documents (`documents.service.ts`) | `financial_documents`, `financial_document_lines` | create, update, submit, approve, reject, cancel, post, reverse | PostingService, JournalService, ExchangeRatesService, AuditService | update() without a lock next to methods with one; post() and reverse() write the ledger in the same transaction and read it on another connection |
| Posting (`posting.service.ts`) | `journal_entries`, `journal_lines` | post, reverse | PeriodsService, AccountsService | checks on other connections, not repeated under a lock |
| Periods (`periods.service.ts`) | `financial_periods` | create, transition, reopenClosedPeriod, assertOpenForPosting | AuditService | closing races postings and reopening |
| Accounts, exchange rates | `accounts`, `exchange_rates` | create, deactivate, set, getRate | | deactivation races postings; check-then-insert |
| Payments (`payments.service.ts`) | `payments` | execute | ExpenseRequestsService, PostingService | idempotency key under retries; two payments of one request |
| Expense requests (`expense-requests.service.ts`) | `expense_requests`, `expense_request_approvals` | create, update, submit, approve, reject, cancel, markPaid, markAccounted | AuditService | update() without a lock next to a payment |
| Auth (`auth.service.ts`) | `users`, `refresh_tokens`, `email_verification_tokens`, `password_reset_tokens` | register, verifyEmail, resendVerification, login, refresh, logout, logoutAll, changePassword, forgotPassword, resetPassword | FilesService, PeopleService, MailService | rotation of tokens, lockout counter, sequences that are not one transaction |
| Users (`users.service.ts`) | `users`, `employees` | approve, reject, block, unblock, changeRole | PeopleService, MailService | changeRole saves a stale user |
| Reports (`reports.service.ts`, `report-job-queue.ts`) | `report_history`, an in-memory queue | requestReport, runJob | AnalyticsService, FilesService | a restart loses the queue; a failure after completion |
| Budgets (`budgets.service.ts`) | `budgets`, `budget_lines` | create, update, approve, close, getExecution | AccountsService, PeriodsService, `journal_lines` | the execution reads the budget and its lines in two statements |
| Contracts, counterparties | `contracts`, `counterparties` | create, update, changeStatus, deactivate | | find, check and save without a lock, under a unique index |
| People, organisation, files | `employees`, `person_profiles`, `departments`, ..., file blobs | create, update, store | | unique codes; blob before row |
| Analytics (`analytics.service.ts`), `decimal.util.ts` | none | trialBalance, profitAndLoss, cashFlow, counterpartyBalances; conversion | `journal_lines` | four sums written separately over the same lines; truncation |
| Audit | `audit_logs` | record | | rows in, or out of, the caller's transaction |
| Mail, generators, guards, configuration, health | none | | | none: output, reads, stateless checks |

What makes each of them correct, and at which line it could fail, is the list
`hazards` of PROJECT.json. The properties below are written against that list.

## 2. Modules

| Module | Models | State |
|---|---|---|
| `RowLocks` | PostgreSQL's row-lock modes and their conflicts (external) | none |
| `Documents` | `DocumentsService` | `docs`, `lines`, `journal`, `approvals`, `req` |
| `Books` | `decimal.util.ts`, the lines of documents and payments, the checks of an entry, the sums of `AnalyticsService` and `BudgetsService` | none: operators |
| `Journal` | what a journal of double entries promises (abstract) | `entries` |
| `Ledger` | `PostingService`, `PeriodsService`, `AccountsService.deactivate`, the connection pool; extends `Books`, implements `Journal` | `periods`, `trail`, `active`, `entries`, `req` |
| `AtMostOnce` | what an idempotent operation promises its callers (abstract) | `executions`, `answers` |
| `Payments` | `PaymentsService`, `ExpenseRequestsService`; implements `AtMostOnce` | `expenses`, `approvals`, `payments`, `answers`, `req` |
| `Sessions` | `AuthService` without registration, `UsersService.block` and `unblock` | `user`, `tokens`, `resets`, `clock`, `req` |
| `Users` | registration and verification in `AuthService`, the decisions of `UsersService`, `PeopleService.createEmployee` | `users`, `codes`, `fresh`, `profiles`, `employees`, `approvals`, `req` |
| `JobQueue` | what a queue with a limited number of workers promises (abstract) | `waiting`, `active`, `submitted` |
| `Reports` | `ReportsService`, `ReportJobQueue`, `FilesService.store`, restarts; implements `JobQueue` | `reports`, `files`, `blobs`, `trail`, `queue`, `running`, `job`, `restarts` |
| `Serving` | the requests of the back office: what each has in memory | `req`, `served` |
| `Budgets` | `BudgetsService`; extends `Serving` | `budgets`, `lines` |
| `Registers` | accounts, departments, cost centers, projects, counterparties, contracts, exchange rates: rows under a unique key; extends `Serving` | `rows` |
| `BackOffice` | `Budgets` and `Registers` served side by side | |
| `MCDocuments`, `MCLedger`, `MCPayments`, `MCSessions`, `MCUsers`, `MCBackOffice` | instances for TLC | |
| `BooksProofs` | theorems about the sums and lines of `Books`; `LedgerProofs` extends it | |
| `DocumentsProofs`, `LedgerProofs`, `PaymentsProofs`, `SessionsProofs`, `UsersProofs`, `ReportsProofs`, `BackOfficeProofs` | theorems about the modules they are named for | |

A few definitions of the modules exist only to be compared with the code's: they
stand beside the one they differ from, say in a comment what has gone wrong in
them, and are not reached from any specification (`mutants` of PROJECT.json).

### Conventions of the models

The table variables hold what is committed. What a transaction has written but
not committed is in the record `req[r]` of the request that runs it, together
with the entity it has in memory and a program counter. A commit is the action
that moves the record's content to the tables; a rollback is the loss of the
record. Which locks a request holds follows from its program counter
(`HeldModes`, `PeriodModes`), and a statement that needs a lock is enabled when
no other request holds a conflicting mode. An action is one statement, or several
that no other transaction can see or disturb: the INSERTs of a transaction and
its COMMIT are one action when nothing in between can block or be read.

Any transaction may be rolled back at any statement (`Rollback`): that stands for
`lock_timeout`, `statement_timeout`, a refused check of a service called, a lost
connection and a crash of the process.

### Documents

| Code | Actions |
|---|---|
| `create` | `Create` |
| `update` up to the edits in memory | `UpdateRead` |
| `replaceLines` | `DeleteStatement` (its snapshot), `DeleteRows` (after waiting), `InsertLines` |
| `save` in update, COMMIT | `SaveLoad` (load and compare), `SaveCommit` |
| `findOne` with the lock and the status check, in transition, post and reverse | `LockRow` |
| `submit`, `approve`, `reject`, `cancel` | `CommitTransition`, `Refuse` |
| `post` | `ReadLines`, `CommitPosting` |
| `reverse` | `ReadEntry`, `CommitReversal`, `Refuse` |

`LockRow` requires the status check to succeed; a request that finds the wrong
status under the lock ends at once and changes nothing. The columns that a
preparer edits (type, date, counterparty, contract, currency, total,
description) are one value of `Headers`; `approvedByUserId`, `approvedAt` and
`rejectionReason` are left out. A line is its row id, so that "the same lines"
means the same rows. `entry` is `postedJournalEntryId`, as a position in the
document's `journal`. The ledger's own checks may fail at any time, by
`Rollback`. DELETE is taken to lock all its rows at once.

### Ledger

| Code | Actions |
|---|---|
| `PeriodsService.create`, `AccountsService.deactivate` | `CreatePeriod`, `Deactivate` |
| BEGIN of a caller's transaction, its document lock | `BeginPost`, `BeginReverse`, `LockSource` |
| `findEntryById` | `ReadOriginal` |
| `validateLines` | `ValidateLines` |
| `resolveForDate`, `assertOpenForPosting`, `assertActive` | `ResolvePeriod`, `CheckOpen`, `CheckAccount`, `RefusePosting` |
| INSERT of the entry and its lines; the rest and COMMIT | `InsertEntry`, `CommitEntry` |
| `transition`, `reopenClosedPeriod` | `BeginTransition`, `BeginReopen`, `LockPeriod`, `CommitPeriod` |
| `connectionTimeoutMillis` | `ConnectionTimeout` |

Every request that has begun keeps one connection; a read of `Reads` needs
another one for a moment and is enabled while the pool has one. `Documents` and
`Ledger` meet at `PostingService`: what `Documents` does in `CommitPosting` and
`CommitReversal` is opened up here into its reads and its INSERT, and the document
is only a row lock (`Sources`).

What is posted are lines with amounts. `DocumentLines` and `PaymentLines` make them
as the two services do, `Stored` is the row that comes of a line (its amounts in
minor units, and converted by the rate with `convertWithRate`'s truncation),
`Swapped` the row of a reversal, `ValidLines`, `CheckDebitXorCredit` and
`CheckEntryBalance` what the code and the database refuse. `TrialBalance`,
`ProfitAndLoss`, `CashFlow`, `CounterpartyBalance` and `Execution` are the sums of
the reports, each over the rows and columns its own SQL names. What they have to do with
one another is the last part of `Books`, for any journal of balanced entries.

`Journal` is the ledger's contract: entries are added, balanced; an entry that is POSTED
and no reversal may be reversed, which marks it and adds an entry of the same source whose
rows mirror its rows. `Ledger` implements it with the identity as refinement mapping:
`CommitEntry` is `Post` or `Reverse`, every other action a stutter. Which entry an entry
reverses (`reverses`) is history: the table has a column for it, `reversalOfEntryId`, that
nothing writes or reads, and what `reverse()` follows is the document's
`postedJournalEntryId`.

### Payments

| Code | Actions |
|---|---|
| `ExpenseRequestsService.create` | `Create` |
| `update`: read and edits in memory; `save` loads and compares; UPDATE | `UpdateRead`, `UpdateLoad`, `UpdateCommit` |
| `transition` (submit, approve, reject, cancel): lock and check; the rest and COMMIT | `LockExpense`, `CommitTransition` |
| `execute`: the pre-check of the key, BEGIN | `Ask` |
| the read of the expense request | `ReadExpense` |
| INSERT of the payment, posting | `InsertPayment`, `InsertFails` |
| the catch clause | `FindWinner` |
| `markPaid`: lock and check | `LockPaid` |
| the saves of `markPaid` and `markAccounted`, audit, COMMIT | `CommitPayment` |
| the response | `Answer`, or its loss, `Rollback` |
| a failure; a deadlock that PostgreSQL finds | `Rollback`, `BreakDeadlock` |

A payment without an expense request goes from `InsertPayment` to `CommitPayment`.
The INSERT waits (`KeyFree`) for a transaction that has inserted the same key
and then succeeds or fails, as PostgreSQL's unique index makes it. It also takes
`KEY SHARE` of the expense request, by the foreign key of `payments`
(`1789672755146-AddIntegrityConstraints.ts:118`), and keeps it until the transaction ends:
it waits while a transition has the row FOR UPDATE, and a transition or another payment's
`markPaid` waits for it. Two payments of one expense request with different keys, both
inserted, wait for each other; PostgreSQL fails one of them, which may then be retried. A client may
send any key at any time, so that double clicks, retries after a lost answer and
retries after a failure are all there. The posting is part of `InsertPayment`: how
it interacts with periods and the pool is `Ledger`'s subject, and that it may fail
is `Rollback`. Who calls is left out, since a refused call changes nothing and one
user can play every part; so are amounts and `rejectionReason`. (Reading the code
for this: `reject()` writes the reason by `update()`, and the `save()` that follows
compares the entity read before it, in which the reason is null, and writes null
back. No document promises otherwise, so that it is a hazard without a property.)

`AtMostOnce` has two variables, the keys executed and the answers given. `Payments`
maps its own to them: `executions` is the sequence of the keys of `payments`, and
`answers` is a history variable of `Payments` that no action reads.

### Sessions

| Code | Actions |
|---|---|
| `login`: the user, the checks of lock, password and status | `LoginRead` |
| `registerFailedLogin` | `FailLogin` |
| `login`: UPDATE of the user; `issueTokenPair` | `WelcomeUser`, `IssueToken` |
| `LOGIN_LOCK_MS` goes by | `LockRunsOut` |
| `refresh`: the token; the user | `RefreshRead`, `RefreshAllow` |
| `refresh`: UPDATE of the old token; INSERT of the new one, COMMIT | `Rotate`, `CommitRotation` |
| reuse of a token in `refresh`; `logout`, `logoutAll` | `RefreshRead`, `LogOut`, `RevokeFound` |
| `changePassword`: its checks; the hash; its `logoutAll` | `ChangeRead`, `ChangePassword`, `ChangeLogsOut`, `RevokeFound` |
| `forgotPassword` | `ForgotPassword` |
| `resetPassword`: the reset token; the transaction | `ResetRead`, `ResetWrite`, `CommitReset` |
| `block`, `unblock` | `BlockLock`, `CommitBlock`, `Unblock` |

One user, because no statement of these methods touches two (the audit row of an
administrator's call refers to the administrator: see `Users`). An UPDATE of
several tokens is two actions: it finds the live tokens when it starts and revokes
them when none is locked any more; what is inserted in between it does not see.
That window is where a session survives a change of the password. Row locks are
those of `RowLocks`; the foreign keys of `refresh_tokens` and
`password_reset_tokens` make an INSERT ask for `KEY SHARE` of the user's row, which
only `block()` and `unblock()` refuse.

The status is ACTIVE or BLOCKED. A password is known by the number of changes it
took to get to it, a token's family by its first token; `since` is a history
variable, the password of the login a family began with. A call that is refused and
changes nothing is left out, expired tokens with it; the cooldown of
`forgotPassword` is over. Access tokens are not kept by the server.

### Users

| Code | Actions |
|---|---|
| `register`: the look for the email and the hash; the INSERT; the profile, the code, COMMIT | `RegisterRead`, `InsertUser`, `CommitRegistration` |
| `verifyEmail`: the user; the code and the comparison; the increment, or its failure; its transaction | `VerifyRead`, `CompareCode`, `NoCode`, `CountAttempt`, `CountFails`, `CommitVerification` |
| `resendVerification`: the user; the cooldown; the UPDATE of the old codes; the new one | `ResendRead`, `ResendCheck`, `ExpireCodes`, `IssueCode` |
| `EMAIL_RESEND_COOLDOWN_MS` goes by | `CooldownPasses` |
| `approve`, `reject`, `block`, `unblock`: the lock and the check; the rest and COMMIT | `LockTarget`, `CommitDecision` |
| `changeRole`: the read; `save` loads and compares; UPDATE | `RoleRead`, `RoleCompare`, `RoleCommit` |
| a refusal, a failure, a crash | `Rollback` |

A person is known by their email, and several people are needed here: the audit row
of a decision refers to the administrator who makes it, so that a decision asks for
`KEY SHARE` of that row while it has the row of its target. `changeRole` is there for
what it does to the other columns: `save()` writes every column in which the entity
differs from the row it loads, the status included. The counter `attempts` of a code
is added to in the row (`increment`, `auth.service.ts:227`), after a comparison that
looked at the value read before. Two history fields of a code tell them apart: `guesses`
are the wrong answers of requests that have ended, `uncounted` those of them whose
increment failed.

### Reports

| Code | Actions |
|---|---|
| `requestReport`: the INSERT; `enqueue` | `RequestReport`, `Enqueue` |
| `drain` | part of `Enqueue` and of every end of a job (`Drain`) |
| `runJob`: status PROCESSING; the payload | `BeginJob`, `BuildPayload` |
| `FilesService.store`: the blob; the row | `WriteBlob`, `InsertFile` |
| status COMPLETED; the audit row | `CompleteReport`, `AuditReport` |
| the catch clause of `runJob` | `FailReport` |
| `finally` of the queue, after a job that resolved or rejected | `JobEnds`, `JobFails` |
| the process starts again | `Restart` |

Every statement may fail before or after it has taken effect (the answer of a COMMIT
can be lost), and then the job goes to the catch clause; when the UPDATE of that
clause fails too, or the first one, which is outside the `try`, the job rejects.
`queue`, `running` and the places of the jobs are memory and go with a restart; the
tables and the blobs stay. `JobQueue` knows nothing of failures: whichever way a job
ends, its slot is free.

### Budgets and registers

| Code | Actions |
|---|---|
| `BudgetsService.create` | `BeginCreateBudget`, `CommitNewBudget` |
| `update`: lock and check; lines and COMMIT | `LockForUpdate`, `CommitUpdate` |
| `approve`, `close` | `LockForMove`, `CommitMove` |
| `findById`, `getExecution`: the budget; its lines; the answer | `ReadHeader`, `ReadLines`, `AnswerBudget` |
| the `create` methods of the registers: the look for the key; the INSERT | `CreateAccount`, `CreateDimension`, `CreateCounterparty`, `CreateContract`, `SetRate`, then `Find` and `Insert` |
| `update` of a counterparty, `deactivate`, `changeStatus`, `set` of a rate that exists: the read and the checks; `save` loads and compares; UPDATE | `UpdateCounterparty`, `DeactivateCounterparty`, `DeactivateAccount`, `ChangeContractStatus`, then `ReadForChange` or `ReadForUpdate`, `CheckClash`, `LoadForSave`, `Write` |
| a failure, a refusal, the unique index | `Fail`, `RollbackBudget` |

The registers are seven services of one form, which is why one set of actions serves
them: a row has a kind, a key and a state, and what differs (which states there are,
which changes are allowed, whether an update may change the key) is a definition each.

## 3. Runs

| Run | Question | Result |
|---|---|---|
| `documents_safety` | Do the locks and the transition table keep postings, reversals and lines consistent next to unlocked updates? | holds |
| `documents_liveness` | Can two requests wait for each other's row locks? | no: `EveryRequestEnds` holds without timeouts |
| `documents_posted_immutable` | Is a POSTED document immutable? | violated |
| `ledger` | Does a period's history stay legal, does an inserted entry hold its period, do the reports agree, and does the pool's limit stop anybody for ever? | holds, with the connection timeout |
| `ledger_late_entry` | Are entries only committed into OPEN periods? | violated |
| `payments` | Does `execute` keep the idempotency contract, is an approval paid once, and do waits for a key or a row end, next to retries, lost answers and unlocked updates? | holds, with PostgreSQL's deadlock detection |
| `payments_account` | Does a payment debit its expense request's account? | violated |
| `sessions` | What do rotation, revocation and the lock of login guarantee next to each other, and does every request end? | holds, with PostgreSQL's deadlock detection |
| `sessions_new_password` | Does a change of the password leave only sessions of the new one? | violated |
| `users` | Can an account become active, or be approved twice, or leave a rejection, or a spent code take another answer, through reads that are stale when they are used? | no |
| `reports` | Does the queue keep its limit and its order, and its reports their word, through failures and a restart? | holds |
| `backoffice` | Is what was approved frozen, and does what has ended stay so, next to saves of rows read earlier? | holds |

### Properties that hold

- `ApprovalConsumedOnce`: one posting per approval, however often a stale update
  takes the document back to DRAFT.
- `ReversedOnce`: an entry is REVERSED exactly when one mirrored entry exists.
- `LinesChangeOnlyInDraft`, `PostedLinesAreCurrent`: the lines that are posted are
  those the document has at the commit, and they have not changed since it was in
  DRAFT. The first holds for a reason that no line of code states: an update that
  replaces lines holds a KEY SHARE lock on the document (the foreign key of the
  new lines) from the INSERT on, and compares the status after that.
- `AuditTellsStatus`: the audit rows of a period are a legal history that ends at
  its status, and `closedByUserId` agrees with them.
- `EntryPinsPeriod`: the window of `ledger_late_entry` ends with the INSERT; from
  there to the COMMIT the foreign key's lock keeps the period.
- `BooksAgree`: the reports are written separately and tell one story: debits equal
  credits, the net profit is what the assets gained over liabilities and equity, the
  cash flow is debits less credits of the cash accounts, counterparties and cost centers
  add up to their accounts. It is not the balance of the cash accounts: `isCash` is a
  free choice for any type of account (`accounts.service.ts:17-27`), and the balance of
  an income account has the other sign.
- `ReversalCancels`, `BaseBalances`: an entry and its reversal cancel on every account
  and dimension, and every entry balances in the base currency although each line is
  truncated on its own. The second rests on where lines come from: they are pairs of
  one amount and one rate. `PostingService` itself checks the sums before conversion
  only.
- `ImplementsAtMostOnce` (`Promise!Spec`): a key is executed at most once and each
  answer is its execution, whether it comes from the pre-check, from the commit or
  from the catch clause. It spans several requests of one client.
- `ApprovalPaidOnce`: a stale update may take a paid expense request back to DRAFT and
  even erase its `paymentId`, but it is not paid again without another approval.
- `PaysTheApproved`: a payment and both transitions of its expense request are one
  step, and that step keeps what others have written to the row.
- `FamiliesGrowByRotation`: two refreshes may rotate one token at once, and then the
  family branches and has two live tokens; still everything that comes of a login
  has its family, so that revoking the family reaches every branch.
- `FamiliesEnd`: a family without a live token, nor a refresh that has found one
  live, stays without. The second half is needed: the INSERT of a rotation that is
  under way comes after any revocation.
- `LockOutlastsNewRequests`: the lock of `login()` is lifted by time or by a request
  that had read the user before the lock was set (a failure or a success: the code
  has that window), never by one that began later.
- `Sessions.DeadlockNeedsABlock`: `block()` and a refresh take the rows of the user
  and of a token in opposite orders and can deadlock; no other two requests can.
- `Users.DeadlockNeedsABlock`: two administrators who block or unblock each other can
  deadlock; approvals and rejections cannot, with each other or with a block.
- `ActiveIsApproved`: `verifyEmail` and `changeRole` write back a status they read
  earlier, and can undo an approval, a block or a rejection by that. They cannot
  make anybody ACTIVE who has not been approved, since nothing they can have read
  says so.
- `ApprovedOnce`: after such a lost approval the person may be approved again; the
  unique index of `employees` is what refuses it then.
- `RejectionIsFinal`: a rejection that no request under way has missed is final.
- `SpentCodesTakeNoAnswer`: no increment is lost to a concurrent one, so that a code for
  which as many wrong answers have been counted as are allowed is compared with no
  further one. Verifications that have compared before get past the limit.
- `SlotsAccounted`, `ImplementsJobQueue` (`TheQueue!Spec`): the counter of the queue is
  right after every failure, no job waits while a slot is free, and jobs begin in
  their order, each at most once.
- `CompletedIsThere`: whatever failed on the way, a COMPLETED report can be downloaded.
- `EndedJobsAreTold`: a job that has ended and has not lost its own error leaves
  COMPLETED with an audit row, or FAILED.
- `EveryReportIsSettled`: a report becomes COMPLETED or FAILED, unless a restart or a
  failed UPDATE of its status lost the job. (Then it stays PENDING or PROCESSING:
  nothing in the code looks for such reports when the process starts.)
- `ApprovedBudgetsAreFrozen`, `AnswersWhatWasApproved`: the lock of the budget's row
  and the check under it freeze what was approved; that is why an execution that
  reads the budget and its lines in two statements is right for an approved budget,
  and only for a draft may mix two versions.
- `SettledRowsStay`: a contract, a counterparty or an account that has ended stays so
  once no request has a copy from before.
- `EveryRequestEnds`, in `documents_liveness`, `ledger`, `payments` and `sessions`: see
  fairness. In `payments` and `sessions` it takes PostgreSQL's deadlock detection, for
  two payments of one expense request and for a block next to a refresh.

### Violations

The four violation runs each show one interleaving that contradicts a statement
of the repository; PROJECT.json `findings` quotes it. The first comes from the
documents' `update()`, which is the only writer of documents without a lock; the
second from `PostingService.post`, which checks the period on another connection;
the third from `PaymentsService.execute`, which reads the account to debit before
the expense request is locked and, once it is, checks the status only; the fourth
from `login()` and `refresh()`, which insert a token without looking again at what
they have checked, next to a `logoutAll` that revokes what it finds.

Where the code and its documents differ without a run of their own:

- `src/README.md:405` says of BASE_CURRENCY "the currency all ledger balances are
  reported in". `AnalyticsService` and the execution of a budget sum the columns
  `debit` and `credit`, which are in the currency of each posting; nothing reads
  `base_currency_debit` and `base_currency_credit` (`TrialBalance` of `Books` sums
  what the code sums). One posting in another currency shows it.
- `contract-status.enum.ts:8` says of CLOSED and TERMINATED "nothing leaves those
  two". Of two changes that have both read a contract as DRAFT, the later save
  activates the one that the earlier has terminated. `SettledRowsStay` exempts the saves
  under way and says what is left of the sentence: nothing leaves them once those are
  through.
- `src/README.md:195` says that verification codes "are capped at 5 wrong attempts before
  requiring a fresh code". `verifyEmail` compares the answer before it counts it, and
  counts it in a statement of its own: as many verifications as are under way compare at
  4 attempts, and an increment that fails counts nothing. The cap is 4 and one for each
  concurrent verification, and those whose increment failed (`GuessesAreBounded`);
  `SpentCodesTakeNoAnswer` says what is left of the sentence.
- `src/README.md:197` says "5 wrong passwords locks the account for 15 minutes". A request
  that read the user before the lock was set may write `lockedUntil` null over it, and then
  the account is not locked. `LockOutlastsNewRequests` says what is left of it.
- `src/README.md:194` says that "reusing an already-rotated (revoked) token revokes its
  *entire* rotation family". A refresh of the family that is under way inserts its token
  after the UPDATE has found what to revoke, and that token stays live. `FamiliesEnd` says
  what is left of it.
- `journal-entry.entity.ts:47` declares `reversalOfEntryId`, with a foreign key, and no
  code writes it: which entry a reversal reverses is told by an audit row and a text only.
- A document line or a payment of 0.00 passes the checks of its service and can never
  be posted: `validateLines` and the database's check of a line refuse it.

### Bounds

`documents_*`: two requests, one document created by a user and the ids its
CORRECTION documents need (two in the safety run, so that two reversals can race,
otherwise one), two users (so that the creator's checks can fail), one content
of the header, two approvals and two journal entries of a document (one approval
and one entry for liveness), three line ids (four for liveness, where a DELETE
that is under way keeps ids busy). All interactions in the code are between two
transactions and one row; the second approval and entry let the longest histories
happen (posted, dragged to DRAFT, approved and posted again; posted and reversed).
Requests, document ids and users are symmetric in the safety run.

`ledger*`: three requests and two connections (two postings exhaust the pool while
each waits for one more, and a third request waits to begin), one document, one
period with three changes (a full cycle with a reopening), two postings to choose from
on three accounts (an ASSET that is cash, an INCOME and an EXPENSE account): a document
in another currency, at a rate of 0.3 so that the conversion cuts digits off, with a
counterparty, and a payment of 0.00, which is refused; two journal entries (a posting
and its reversal), one user. One month is enough for the interleavings because a
request refers to one period only; for the sums it means that a range of months is all
or nothing.

`payments*`: two requests, one expense request (a payment locks one at most, and
two that are paid separately share nothing), two keys (so that two payments can
race without sharing one), two accounts that it may have, two payments and two
approvals: two payments wait for each other; paid, dragged to DRAFT, approved and paid again.

`sessions*`: two requests, three refresh tokens (a login and two rotations of its
token, or three logins), a limit of two failed logins for the five of the code
(one failure that counts and one that locks), one reset token, one change of the
password and one lock period. A wrong password is tried only while the lock period
is still to come. Every bound counts the requests under way that will use it, so that
nothing blocks half way.

`users`: two requests, one applicant and two administrators (so that they may block
each other), two codes (so that a second replaces a first), a limit of two attempts, one
increment of a code that fails.

`reports`: the two slots of the code, three reports (one has to wait), one restart.

`backoffice`: two requests at a time and five in all: a row or a budget and its changes,
with a race between the last two; one budget, two periods and two contents of its
lines, two rows, keys and rates.

`CHECK_DEADLOCK FALSE` where the bounds end every behaviour, and where a document, a
period or an expense request may reach a state from which no request changes it.
`Sessions` and `Users` never stop: a user can always be blocked and unblocked.

### Fairness

`Documents`: strong fairness of `Advance(r)`, the next step of a request that has
begun. A step may be disabled and enabled again as other transactions take and
release a lock; PostgreSQL queues the waiters of a row, so one that waits is
served in its turn. No request need ever be made and no rollback need happen:
the run shows that row locks alone never need a timeout. `Payments` assumes the
same of its `Advance(r)`, with the waiters of a key in place as well, and weak fairness of
`BreakDeadlock`: PostgreSQL looks for a circle whenever a statement has waited for
`deadlock_timeout` and fails one of its transactions. Without it (a mutant of that run)
two payments of one expense request wait for each other for ever. `Ledger` adds weak
fairness of `ConnectionTimeout`: a read that waits while no connection comes free
fails after `connectionTimeoutMillis` (5 s). There the timeout is needed: without
it (a mutant of that run) two postings wait for each other's connection for
ever. `Sessions` assumes what `Payments` does, and needs the detection as well. `Reports`:
weak fairness of `Advance(i)`, the next step of a report's job or of its request. A
job waits for no other once it has its slot: its statements take no lock that another
one keeps, and each of them returns or fails. Nothing is assumed of `Restart`.

## 4. Proofs

The theorems hold for every value of the constants that satisfies the assumptions of
the module: any number of requests, rows and users and any bounds. Each proof module
but `BooksProofs` has an inductive invariant, a lemma for every action, and one theorem that combines
them; the properties follow from the invariant, or from it and one step.

`DocumentsProofs` (assumptions: the bounds are numbers, the document ids are finite, the
null values are none of the rows and ids):

| Theorem | Property |
|---|---|
| `TypeCorrect` | `[]TypeOK` |
| `LockDiscipline` | `[]LockedRowIsCurrent` |
| `LinesFrozen` | `LinesChangeOnlyInDraft` |
| `StatusMoves` | `MovesAlongTable` |
| `OnePostingPerApproval` | `[]ApprovalConsumedOnce` |
| `PostingIsCurrent` | `PostedLinesAreCurrent` |
| `ReversalsMirrorOnce` | `[]ReversedOnce` |

`LockedRowIsCurrent` (what a method read FOR UPDATE is the committed row until it ends,
nobody else has that lock, and no update with inserted lines is under way) and
`MovesAlongTable` (no interleaving takes a document anywhere but along the transition
table or back to DRAFT) are proved only; no run repeats them. The inductive invariant
has two parts. `TypeInv` adds to `TypeOK` that a request at work has a document, an
entity and an operation that fit its program counter (`RequestShape`), and that the
entries rows refer to exist (`EntriesExist`). `LockInv` adds to `LockedRowIsCurrent`
what an update knows: its entity is in DRAFT (`UpdateShape`); a request past the check
has accepted the status in memory (`Decided`); once it has inserted lines and compared,
either the row is in DRAFT or `status` is among the columns it will write
(`DraftAfterLines`), because no locking method can run between; and the lines `post()`
has read are the document's lines (`LinesReadAreCurrent`), because no update with new
lines can commit while it holds the lock. `LockedRowIsCurrent` alone is not inductive: a
commit of an update without new lines is excluded by the lock its UPDATE needs, one
with new lines by the foreign key's lock, and both facts relate program counters to
modes. `ReversedOnce` needs three facts more (`MirrorInv`): the journal of a
document is paired (`Mirrored`), the entry that a document or an entity refers to is a
posting and never a reversal (`PostingAt`), and the entry that a reversal has read is
still POSTED with those lines (`Reversing`), because only reversals change entries and
the document's lock keeps the others out.

`PaymentsProofs` (assumptions: the bounds are numbers, the null value is none of the rows
and ids):

| Theorem | Property |
|---|---|
| `TypeCorrect` | `[]TypeOK` |
| `KeepsThePromise` | `ImplementsAtMostOnce` |
| `OnePaymentPerApproval` | `[]ApprovalPaidOnce` |
| `PaymentIsAtomic` | `PaysTheApproved` |
| `RetriesDoNotDeadlock` | `[]OnlyRivalsDeadlock` |

Its invariant adds to `TypeOK` one predicate of each request's record (`Good`):
what its program counter says of the record (`Shape`; an update's entity is in
DRAFT), of its key (`KeyGood`: a transaction that has inserted a key is alone with
it and no committed row has it; a loser's key has a row; an answer under way
names the payment of its key), and of the row it has locked (`LockGood`: the entity
in memory is the row, nobody else has it locked, and its status allows what comes
next). `ImplementsAtMostOnce` says nothing of uncommitted rows and is not inductive:
the key of a commit is new because of `KeyGood`. `KeepsThePromise` then maps
`CommitPayment` to `Execute`, `Answer` to `Answer` and every other step to a
stutter. `OnlyRivalsDeadlock` (proved only) says that a payment that waits at `markPaid`
for one that waits there too is waited for by it, so that a detector of pairs, as
`BreakDeadlock` is, misses no circle, however many requests there are; and that the two are
of one expense request, which the lock modes give, with different keys, which `KeyGood`
gives. `OnePaymentPerApproval` needs, of `Good`, that an approval is decided on
the current row and that an update never writes APPROVED.

`SessionsProofs` (assumptions: the limit of failed logins is a positive number, the bounds
are numbers):

| Theorem | Property |
|---|---|
| `TypeCorrect` | `[]TypeOK` |
| `OneLoginPerFamily` | `[]FamiliesGrowByRotation` |
| `EndedFamilies` | `FamiliesEnd` |
| `LockLasts` | `LockOutlastsNewRequests` |
| `OnlyBlocksDeadlock` | `[]DeadlockNeedsABlock` |

Its invariant adds to the first two what reads have established and no other request
can undo (`Shape`): a login at work found the user not locked, which stays true of
the row in memory because the clock only goes on; a refresh at work has a token that
exists. What a step may do to the tokens is one of three (`TokensStep`: some are
revoked, a family is opened, one token is rotated), and each of the three keeps the
shape of families (`FamiliesStep`). `EndedFamilies` combines these with what a step
may do to the refreshes under way (`RefreshesStep`: a refresh begins with a live
token only). `OnlyBlocksDeadlock` needs no invariant: two requests that wait for each
other have and want locks of the user in modes that only a block has.

`UsersProofs` (assumptions: the administrators are people, the requests are finite, the
limit of attempts is a positive number):

| Theorem | Property |
|---|---|
| `TypeCorrect` | `[]TypeOK` |
| `OnlyApprovedAreActive` | `[]ActiveIsApproved` |
| `NobodyIsApprovedTwice` | `[]ApprovedOnce` |
| `OnlyBlocksDeadlock` | `[]DeadlockNeedsABlock` |
| `SettledRejectionStays` | `RejectionIsFinal` |
| `SpentCodesAreClosed` | `SpentCodesTakeNoAnswer` |
| `GuessesAreBounded` | `[]GuessesBounded` |

`ActiveIsApproved` is not inductive: `changeRole` writes a status from memory, and the
invariant says of each request's copy what the property says of the row. It adds what
locks keep: the status a decision has checked, and that nobody has the email of an
account that is being inserted (`Exclusive`). The last two have an invariant of their own
(`Counted`): the guesses of a code are those its counter tells and the uncounted ones,
and the counter is below the limit but for requests that compared before it got there,
which are finitely many. `GuessesBounded` (proved only) is the bound that follows: the
limit less one, one for each request, and the uncounted.

`ReportsProofs` (assumptions: the limit is a positive number, the bounds are numbers):

| Theorem | Property |
|---|---|
| `TypeCorrect` | `[]TypeOK` |
| `NoSlotIsLost` | `[]SlotsAccounted` |
| `CompletedReportsAreThere` | `[]CompletedIsThere` |
| `EndedReportsAreTold` | `[]EndedJobsAreTold` |
| `IsAJobQueue` | `ImplementsJobQueue` |

The invariant adds that the queue has each job once and only jobs that are queued
(`QueueShape`), and what a job has left in the tables and on the disk where it is
(`Shape`). `drain()` is a loop; `SlotsAccounted` is what makes it begin one job at
most, so that a step of it is one step of `JobQueue`.

`BooksProofs` (assumptions: accounts and dimensions are finitely many, each account has a
type, 0 is a dimension, cash accounts are accounts) is about operators, not behaviours:

| Theorem | Says |
|---|---|
| `TrialBalanceOfBalanced`, `ProfitOfBalanced`, `CashFlowOfBalanced`, `CounterpartiesOfBalanced`, `ActualOfBalanced` | over a journal whose entries balance, the sums of the reports agree: the conjuncts of `BooksAgree` |
| `DocumentsPostPairs`, `PaymentsPostPairs` | `DocumentLines` and `PaymentLines` are pairs of lines of one amount and one rate |

The sums are folds over finite sets: a recursive function chosen by an equation, about
which the prover has no induction. The first part derives what is needed by least
counterexample instead: if a formula failed of some subset of a finite set, it would of a
least one (`LeastSet`, from the well-foundedness of strict inclusion). In that way there is
such a function (`SumExists`), two of them agree where both are defined (`SumsAgree`), and
a sum is what any element adds to the sum over the rest (`SumRemove`: of any, not only of
the one that the fold picks first). Everything else about sums comes of that: `SumSame`,
`SumMinus`, `SumMove` (renaming what is summed over) and `SumParts` (a sum over a set is
the sum of the sums over its parts). On them rest, in order, `TotalOfParts` (a total
over rows splits by any attribute of theirs), `TotalOfEntry` and `TotalsBalance` (what
balances in each entry balances in any months), and the reports. The second part is
about pairs: rows in pairs balance in the base currency (`PairsBalance`) because
partners swap a debit with an equal credit, converted by an equal rate, so that
truncation takes the same off both; and rows that mirror each other cancel wherever they
are summed together (`MirrorsCancel`).

`LedgerProofs` (the same assumptions, and: the pool has a connection, the null value is
none of the rows and ids, postings are sequences of lines in pairs; `PostingService.post`
is only called with the lines of a document, `documents.service.ts:228`, or of a payment,
`payments.service.ts:90`, and the two theorems above are the assumption for these):

| Theorem | Property |
|---|---|
| `TypeCorrect` | `[]TypeOK` |
| `TrailTellsStatus` | `[]AuditTellsStatus` |
| `InsertPinsPeriod` | `EntryPinsPeriod` |
| `BaseCurrencyBalances` | `[]BaseBalances` |
| `ReversalsCancel` | `[]ReversalCancels` |
| `ReportsAgree` | `[]BooksAgree` |
| `IsAJournal` | `ImplementsJournal` |

The invariant `Inv` of the first three says of a request that has locked its period that
it has the row in memory as it is and that its change is legal, and that two requests that
have locks of one period have only the shared one of inserted entries (`Apart`). With
that, `CommitPeriod` appends to the history a step that continues it.

`JournalInv` is what the next three rest on. None of them is inductive: that an entry
balances in the base currency says nothing of where its rows came from. `JournalInv` says
that each entry's rows are in pairs, converted by their own rate, and balance
(`PostedWell`); that a reversal mirrors an entry marked REVERSED (`ReversesWell`); and of
the requests that what they are about to post is in pairs, or the swapped rows of an entry
that still has those rows (`LinesInv`). The pairs of an entry survive a reversal
(`SwappedInPairs`), and storing swapped rows gives back the amounts of the original in
both currencies because `Stored` converts `FromMinorUnits` of what it converted before, by
the same rate (`StoredMirrors`).

`ImplementsJournal` (`TheJournal!Spec`) says that the journal is only added to, and that
an entry is reversed once at most, although `reverse()` reads its status on another
connection, without a lock, and marks it at the end of its transaction. It is proved only:
with the two connections of the run two postings are never both past their reads.
`IsAJournal` needs `LocksInv`: two postings past their lock have different documents, and
what a reversal has read (its entry is of its document, POSTED and no reversal) is still so
(`Reversible`). A commit marks an entry of its own document only, so it disturbs nobody
else's. In an instance with room for the race (`PoolSize = 3`, `MaxEntries = 3`) TLC agrees,
and finds two reversals of one entry as soon as the lock of the document is taken away.

`BackOfficeProofs` (assumptions: the bound is a number, the null value is none of the
rows, budgets and rows are told apart):

| Theorem | Property |
|---|---|
| `TypeCorrect` | `[]TypeOK` |
| `ExecutionIsOfTheApproved` | `[]AnswersWhatWasApproved` |
| `ApprovedStays` | `ApprovedBudgetsAreFrozen` |
| `SettledStay` | `SettledRowsStay` |

The invariant relates the copy each request has to the tables: a locked budget is the
one in memory; a header that was read as approved is still that of its budget
(`Known`), so that lines read later are its lines; a row in memory is of the kind of
the row it came from, so that what is written is a state of that kind.

Only model-checked is liveness, which is out of TLAPS's reach: `EveryRequestEnds` of the
four runs that have it and `EveryReportIsSettled`. Every invariant and every action
property of the passing runs, and every refinement, is stated by a theorem.

## 5. Not modelled

- Document and entry numbers, texts, lists and other reads that change nothing.
- The role that `changeRole` writes; the seed script's promotion of an administrator;
  expired codes and tokens, which are only refused; the files of a registration; mail,
  which is sent after the commit and whose errors are dropped.
- `deviationPercent`, negative amounts, the dimension project (no sum tells it from a
  cost center) and the refusal to set a rate of the base currency.
- Contacts and bank accounts of counterparties, employees' cards, `FilesService.delete`
  (which nothing calls): rows that no other operation reads before it writes.
- What a report shows: its payload and its layout only succeed or fail.
- Guards, validation, configuration, migrations, health: stateless, or schema, whose
  constraints are in the modules that rest on them.

## 6. What could follow

1. `ReversedOnce` and `EntryPinsPeriod` composed: a document's posting opened up into
   the ledger's statements in one module, which is the product of two state spaces.
2. The expiry of refresh tokens and codes, as a clock that both modules share.
