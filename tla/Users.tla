-------------------------------- MODULE Users --------------------------------
(***************************************************************************)
(* How accounts come and go: registration, verification codes (AuthService)*)
(* and the decisions of administrators (UsersService, PeopleService), run  *)
(* by several requests at a time against one database at READ COMMITTED.   *)
(*                                                                         *)
(* users, codes, employees, profiles and approvals are committed rows; what*)
(* a transaction has written and not committed is in its request's record. *)
(* A person is known by their email, a code by its position in codes.      *)
(*                                                                         *)
(* A call that is refused changes nothing and is left out, and so are      *)
(* expired codes, which are only refused, files, mail, passwords and the   *)
(* role that changeRole() writes: what matters here is what it does to the *)
(* other columns of the row.                                               *)
(***************************************************************************)
EXTENDS Naturals, Sequences, FiniteSets, RowLocks

CONSTANTS
  Requests,      \* HTTP requests the server works on at the same time
  People,        \* the emails there may be accounts for
  Admins,        \* those whose account the seed script has made
  Nobody,        \* the target of no request
  MaxAttempts,   \* MAX_VERIFY_ATTEMPTS (5)
  MaxCodes,      \* bound: rows of email_verification_tokens, those under way too
  MaxUncounted   \* bound: wrong answers to a code that fail to be counted

ASSUME PeopleAssumption ==
  Admins \subseteq People /\ Nobody \notin People /\ IsFiniteSet(Requests)

ASSUME NumbersAssumption ==
  MaxAttempts \in Nat \ {0} /\ MaxCodes \in Nat /\ MaxUncounted \in Nat

VARIABLES
  users,      \* the status of each person's row of users
  codes,      \* email_verification_tokens, in the order of createdAt
  fresh,      \* the codes that are younger than EMAIL_RESEND_COOLDOWN_MS
  profiles,   \* the people with rows in person_profiles and passport_documents
  employees,  \* how many rows of employees each person has: a unique index
  approvals,  \* how many USER_APPROVED rows of audit_logs each person has
  req         \* what each request is doing

tables == <<users, codes, fresh, profiles, employees, approvals>>
vars == <<tables, req>>

-----------------------------------------------------------------------------
\* "NONE": there is no row.
Statuses == {"NONE", "PENDING_EMAIL_VERIFICATION", "PENDING_ADMIN_APPROVAL",
             "ACTIVE", "BLOCKED", "REJECTED"}

\* Two history variables: guesses counts the wrong answers to a code whose requests
\* have ended, uncounted those among them whose increment of attempts has failed.
Code == [owner : People, consumed : BOOLEAN, attempts : Nat, guesses : Nat,
         uncounted : Nat]

NewCode(u) == [owner |-> u, consumed |-> FALSE, attempts |-> 0, guesses |-> 0,
               uncounted |-> 0]

Decisions == {"approve", "reject", "block", "unblock"}

From == [approve |-> "PENDING_ADMIN_APPROVAL", reject |-> "PENDING_ADMIN_APPROVAL",
         block |-> "ACTIVE", unblock |-> "BLOCKED"]

To == [approve |-> "ACTIVE", reject |-> "REJECTED",
       block |-> "BLOCKED", unblock |-> "ACTIVE"]

Ops == {"register", "verify", "resend", "role"} \cup Decisions

PCs == {"idle",
        "hashing", "storing",          \* register
        "verify", "wrong", "right",    \* verifyEmail
        "resend", "expire", "issue",   \* resendVerification
        "locked",                      \* a decision
        "role", "compared"}            \* changeRole

\* target is whose row it is about, actor who decides; mem is the status in memory,
\* found the one that save() has loaded to compare it with; code, attempts: the code
\* that has been read.
Request == [op : Ops, pc : PCs, target : People \cup {Nobody},
            actor : People \cup {Nobody}, mem : Statuses, found : Statuses,
            code : Nat, attempts : Nat]

IdleRequest == [op |-> "register", pc |-> "idle", target |-> Nobody,
                actor |-> Nobody, mem |-> "NONE", found |-> "NONE", code |-> 0,
                attempts |-> 0]

\* The seed script has run.
Init ==
  /\ users = [u \in People |-> IF u \in Admins THEN "ACTIVE" ELSE "NONE"]
  /\ codes = <<>> /\ fresh = {}
  /\ profiles = {}
  /\ employees = [u \in People |-> 0]
  /\ approvals = [u \in People |-> 0]
  /\ req = [r \in Requests |-> IdleRequest]

Start(r, op, pc, u) ==
  /\ req[r].pc = "idle"
  /\ req' = [req EXCEPT ![r] = [IdleRequest EXCEPT
       !.op = op, !.pc = pc, !.target = u, !.mem = users[u]]]

Step(r, pc) == req' = [req EXCEPT ![r].pc = pc]

Finish(r) == req' = [req EXCEPT ![r] = IdleRequest]

CodesOf(u) == {c \in DOMAIN codes : codes[c].owner = u}

Live(u) == {c \in CodesOf(u) : ~codes[c].consumed}

IsLatest(c, S) == c \in S /\ \A d \in S : d <= c

\* Bound: the requests that will insert a code.
Issuing == {r \in Requests :
  req[r].pc \in {"hashing", "storing", "resend", "expire", "issue"}}

MayIssue == Len(codes) + Cardinality(Issuing) < MaxCodes

-----------------------------------------------------------------------------
(* Row locks of users.                                                      *)

Modes(r, u) ==
  IF req[r].pc = "locked" /\ req[r].target = u THEN {"UPDATE"} ELSE {}

MayLock(r, u, mode) ==
  \A s \in Requests \ {r} : Modes(s, u) \cap WaitsFor(mode) = {}

\* The row that refers to the administrator, the audit row or the user's own, makes r
\* wait for s.
Awaits(r, s) ==
  /\ r # s /\ req[r].pc = "locked"
  /\ Modes(s, req[r].actor) \cap WaitsFor("KEY SHARE") # {}

-----------------------------------------------------------------------------
(* Registration. Bound: codes.                                              *)

\* register(): there is no such account; the password is hashed.
RegisterRead(r, u) ==
  /\ users[u] = "NONE" /\ MayIssue
  /\ Start(r, "register", "hashing", u)
  /\ UNCHANGED tables

\* Somebody else has inserted a row with the same email and not ended.
Claimed(r, u) ==
  \E s \in Requests \ {r} : req[s].pc = "storing" /\ req[s].target = u

\* The INSERT of the user: the unique index makes it wait, succeed or fail.
InsertUser(r) ==
  /\ req[r].pc = "hashing"
  /\ ~Claimed(r, req[r].target)
  /\ IF users[req[r].target] = "NONE" THEN Step(r, "storing") ELSE Finish(r)
  /\ UNCHANGED tables

\* The files, the profile and the passport, the code, the audit row, the commit.
CommitRegistration(r) ==
  LET u == req[r].target IN
  /\ req[r].pc = "storing"
  /\ users' = [users EXCEPT ![u] = "PENDING_EMAIL_VERIFICATION"]
  /\ profiles' = profiles \cup {u}
  /\ codes' = Append(codes, NewCode(u))
  /\ fresh' = fresh \cup {Len(codes) + 1}
  /\ Finish(r)
  /\ UNCHANGED <<employees, approvals>>

-----------------------------------------------------------------------------
(* Verification.                                                            *)

\* What a verifyEmail() that does not look at the status would do.
VerifyReadUnchecked(r, u) ==
  /\ users[u] # "NONE"
  /\ Start(r, "verify", "verify", u)
  /\ UNCHANGED tables

\* verifyEmail(): the user and the check of the status.
VerifyRead(r, u) ==
  /\ users[u] = "PENDING_EMAIL_VERIFICATION"
  /\ Start(r, "verify", "verify", u)
  /\ UNCHANGED tables

\* The latest code that is not consumed, its attempts, and the comparison.
CompareCode(r, c, right) ==
  /\ req[r].pc = "verify"
  /\ IsLatest(c, Live(req[r].target))
  /\ codes[c].attempts < MaxAttempts
  /\ req' = [req EXCEPT ![r].pc = IF right THEN "right" ELSE "wrong",
                        ![r].code = c, ![r].attempts = codes[c].attempts]
  /\ UNCHANGED tables

\* There is no such code, or it has been tried too often.
NoCode(r) ==
  /\ req[r].pc = "verify"
  /\ \A c \in CodesOf(req[r].target) :
       IsLatest(c, Live(req[r].target)) => codes[c].attempts >= MaxAttempts
  /\ Finish(r)
  /\ UNCHANGED tables

\* What a save() of the token that has been read would do.
CountAttemptBySave(r) ==
  /\ req[r].pc = "wrong"
  /\ codes' = [codes EXCEPT ![req[r].code].attempts = req[r].attempts + 1,
                            ![req[r].code].guesses = @ + 1]
  /\ Finish(r)
  /\ UNCHANGED <<users, fresh, profiles, employees, approvals>>

\* increment(): an UPDATE that adds to what is there.
CountAttempt(r) ==
  /\ req[r].pc = "wrong"
  /\ codes' = [codes EXCEPT ![req[r].code].attempts = @ + 1,
                            ![req[r].code].guesses = @ + 1]
  /\ Finish(r)
  /\ UNCHANGED <<users, fresh, profiles, employees, approvals>>

\* The increment is refused or times out, or the process stops before it: the answer
\* was a wrong one all the same. Bound: such answers.
CountFails(r) ==
  /\ req[r].pc = "wrong"
  /\ codes[req[r].code].uncounted < MaxUncounted
  /\ codes' = [codes EXCEPT ![req[r].code].guesses = @ + 1,
                            ![req[r].code].uncounted = @ + 1]
  /\ Finish(r)
  /\ UNCHANGED <<users, fresh, profiles, employees, approvals>>

\* The transaction: both UPDATEs, whatever has become of the rows. (Nobody sees or
\* waits for the one without the other.)
CommitVerification(r) ==
  LET u == req[r].target IN
  /\ req[r].pc = "right"
  /\ MayLock(r, u, "NO KEY UPDATE")
  /\ codes' = [codes EXCEPT ![req[r].code].consumed = TRUE]
  /\ users' = [users EXCEPT ![u] = "PENDING_ADMIN_APPROVAL"]
  /\ Finish(r)
  /\ UNCHANGED <<fresh, profiles, employees, approvals>>

\* resendVerification(): the user and the check of the status. Bound: codes.
ResendRead(r, u) ==
  /\ users[u] = "PENDING_EMAIL_VERIFICATION" /\ MayIssue
  /\ Start(r, "resend", "resend", u)
  /\ UNCHANGED tables

\* Its cooldown, by the last code there is.
ResendCheck(r) ==
  /\ req[r].pc = "resend"
  /\ IF \E c \in fresh : IsLatest(c, CodesOf(req[r].target))
       THEN Finish(r) ELSE Step(r, "expire")
  /\ UNCHANGED tables

\* createVerificationCode(): two statements, here without a transaction.
ExpireCodes(r) ==
  /\ req[r].pc = "expire"
  /\ codes' = [c \in DOMAIN codes |->
       [codes[c] EXCEPT !.consumed = @ \/ codes[c].owner = req[r].target]]
  /\ Step(r, "issue")
  /\ UNCHANGED <<users, fresh, profiles, employees, approvals>>

IssueCode(r) ==
  LET u == req[r].target IN
  /\ req[r].pc = "issue"
  /\ MayLock(r, u, "KEY SHARE")
  /\ codes' = Append(codes, NewCode(u))
  /\ fresh' = fresh \cup {Len(codes) + 1}
  /\ Finish(r)
  /\ UNCHANGED <<users, profiles, employees, approvals>>

\* EMAIL_RESEND_COOLDOWN_MS goes by.
CooldownPasses ==
  /\ fresh # {} /\ fresh' = {}
  /\ UNCHANGED <<users, codes, profiles, employees, approvals, req>>

-----------------------------------------------------------------------------
(* Decisions. An administrator's access token stays good for some minutes,  *)
(* whatever becomes of the account: any of them may act at any time.        *)

\* What a decision that does not look at the status would do.
LockTargetUnchecked(r, op, u, a) ==
  /\ users[u] # "NONE"
  /\ MayLock(r, u, "UPDATE")
  /\ req[r].pc = "idle"
  /\ req' = [req EXCEPT ![r] = [IdleRequest EXCEPT
       !.op = op, !.pc = "locked", !.target = u, !.actor = a, !.mem = users[u]]]
  /\ UNCHANGED tables

\* approve(), reject(), block(), unblock(): the row FOR UPDATE, the check of the status.
LockTarget(r, op, u, a) ==
  /\ users[u] = From[op]
  /\ MayLock(r, u, "UPDATE")
  /\ req[r].pc = "idle"
  /\ req' = [req EXCEPT ![r] = [IdleRequest EXCEPT
       !.op = op, !.pc = "locked", !.target = u, !.actor = a, !.mem = users[u]]]
  /\ UNCHANGED tables

\* What approve() would do that creates the employee after the commit.
CommitDecisionEmployeeLater(r) ==
  LET u == req[r].target IN
  /\ req[r].pc = "locked"
  /\ MayLock(r, req[r].actor, "KEY SHARE")
  /\ users' = [users EXCEPT ![u] = To[req[r].op]]
  /\ IF req[r].op = "approve"
       THEN /\ employees' \in {employees, [employees EXCEPT ![u] = 1]}
            /\ approvals' = [approvals EXCEPT ![u] = @ + 1]
       ELSE UNCHANGED <<employees, approvals>>
  /\ Finish(r)
  /\ UNCHANGED <<codes, fresh, profiles>>

\* What would be possible without the unique index on the employee's user.
CommitDecisionNotUnique(r) ==
  LET u == req[r].target IN
  /\ req[r].pc = "locked"
  /\ MayLock(r, req[r].actor, "KEY SHARE")
  /\ users' = [users EXCEPT ![u] = To[req[r].op]]
  /\ IF req[r].op = "approve"
       THEN /\ employees' = [employees EXCEPT ![u] = @ + 1]
            /\ approvals' = [approvals EXCEPT ![u] = @ + 1]
       ELSE UNCHANGED <<employees, approvals>>
  /\ Finish(r)
  /\ UNCHANGED <<codes, fresh, profiles>>

\* The save, the employee, the audit row (and the tokens revoked: see Sessions), the
\* commit.
CommitDecision(r) ==
  LET u == req[r].target IN
  /\ req[r].pc = "locked"
  /\ MayLock(r, req[r].actor, "KEY SHARE")
  /\ users' = [users EXCEPT ![u] = To[req[r].op]]
  /\ IF req[r].op = "approve"
       THEN /\ employees[u] = 0
            /\ employees' = [employees EXCEPT ![u] = 1]
            /\ approvals' = [approvals EXCEPT ![u] = @ + 1]
       ELSE UNCHANGED <<employees, approvals>>
  /\ Finish(r)
  /\ UNCHANGED <<codes, fresh, profiles>>

\* createEmployee() fails on the unique index of the user: nothing remains.
NotAgain(r) ==
  /\ req[r].pc = "locked" /\ req[r].op = "approve"
  /\ MayLock(r, req[r].actor, "KEY SHARE")
  /\ employees[req[r].target] # 0
  /\ Finish(r)
  /\ UNCHANGED tables

-----------------------------------------------------------------------------
(* changeRole(): save() writes back every column that is not what it was.   *)

\* findById().
RoleRead(r, u) ==
  /\ users[u] # "NONE"
  /\ Start(r, "role", "role", u)
  /\ UNCHANGED tables

\* save() loads the row again and compares.
RoleCompare(r) ==
  /\ req[r].pc = "role"
  /\ req' = [req EXCEPT ![r].pc = "compared", ![r].found = users[req[r].target]]
  /\ UNCHANGED tables

\* The UPDATE of what differs, if anything does.
RoleCommit(r) ==
  LET u == req[r].target IN
  /\ req[r].pc = "compared"
  /\ IF req[r].mem = req[r].found
       THEN UNCHANGED users
       ELSE /\ MayLock(r, u, "NO KEY UPDATE")
            /\ users' = [users EXCEPT ![u] = req[r].mem]
  /\ Finish(r)
  /\ UNCHANGED <<codes, fresh, profiles, employees, approvals>>

-----------------------------------------------------------------------------
\* A statement times out or is refused or is the victim of a deadlock, an answer is
\* lost, the process stops: what has been committed remains. (Of a wrong answer, see
\* CountFails.)
Rollback(r) ==
  /\ req[r].pc \notin {"idle", "wrong"}
  /\ Finish(r)
  /\ UNCHANGED tables

\* The steps by which a request that has started gets on.
Advance(r) ==
  \/ InsertUser(r)
  \/ CommitRegistration(r)
  \/ \E c \in DOMAIN codes, right \in BOOLEAN : CompareCode(r, c, right)
  \/ NoCode(r)
  \/ CountAttempt(r)
  \/ CommitVerification(r)
  \/ ResendCheck(r)
  \/ ExpireCodes(r)
  \/ IssueCode(r)
  \/ CommitDecision(r)
  \/ NotAgain(r)
  \/ RoleCompare(r)
  \/ RoleCommit(r)

Next ==
  \/ CooldownPasses
  \/ \E r \in Requests :
       \/ \E u \in People :
            \/ RegisterRead(r, u)
            \/ VerifyRead(r, u)
            \/ ResendRead(r, u)
            \/ RoleRead(r, u)
            \/ \E op \in Decisions, a \in Admins : LockTarget(r, op, u, a)
       \/ Advance(r)
       \/ CountFails(r)
       \/ Rollback(r)

Spec == Init /\ [][Next]_vars

-----------------------------------------------------------------------------
(* Properties.                                                              *)

TypeOK ==
  /\ users \in [People -> Statuses]
  /\ codes \in Seq(Code)
  /\ fresh \subseteq Nat
  /\ profiles \subseteq People
  /\ employees \in [People -> {0, 1}]
  /\ approvals \in [People -> Nat]
  /\ req \in [Requests -> Request]

\* Whoever may log in, or might again, has been approved once - by one USER_APPROVED
\* row - and is an employee with a profile; but for the administrators that the seed
\* script has made. Stale writes of verifyEmail() and changeRole() cannot get there.
ActiveIsApproved ==
  \A u \in People :
    users[u] \in {"ACTIVE", "BLOCKED"} =>
      u \in Admins \/ (employees[u] = 1 /\ approvals[u] = 1 /\ u \in profiles)

\* users.service.ts:43: nobody is approved twice, nor made an employee twice, even
\* after a verification that was under way has undone the approval: what fails the
\* second one is then the unique index of employees and no longer the status.
ApprovedOnce == \A u \in People : approvals[u] <= 1 /\ employees[u] = approvals[u]

\* As many wrong answers to a code as are allowed have been given by requests that
\* have ended, without those whose increment has failed.
Spent(c) == codes[c].guesses - codes[c].uncounted >= MaxAttempts

\* src/README.md:195, as far as the code keeps it: a code that is spent takes no more
\* answers, wrong or right, for no increment is lost to a concurrent one. What has
\* been compared with it before and is not counted yet gets past the limit.
SpentCodesTakeNoAnswer ==
  [][\A c \in DOMAIN codes, r \in Requests :
       /\ Spent(c)
       /\ req'[r].code = c /\ req'[r].pc \in {"wrong", "right"}
       => req'[r] = req[r]]_vars

\* A rejection is settled once no verification and no role change is under way that
\* has read the user before it.
Rejected(u) ==
  /\ users[u] = "REJECTED"
  /\ \A r \in Requests :
       req[r].target = u /\ req[r].pc \in {"verify", "right", "role", "compared"}
         => req[r].mem = "REJECTED" /\ req[r].op = "role"

\* A settled rejection is final: nothing that begins later gets the account out of it.
RejectionIsFinal == [][\A u \in People : Rejected(u) => Rejected(u)']_vars

\* Two requests wait for each other only where each of them blocks or unblocks the
\* administrator who runs the other: approving and rejecting never deadlock.
DeadlockNeedsABlock ==
  \A r, s \in Requests :
    Awaits(r, s) /\ Awaits(s, r) => {req[r].op, req[s].op} \subseteq {"block", "unblock"}

=============================================================================
