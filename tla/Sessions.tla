------------------------------ MODULE Sessions -------------------------------
(***************************************************************************)
(* The sessions of one user: login and its lockout, refresh tokens and     *)
(* their rotation, logout, password change and reset (AuthService), block  *)
(* and unblock (UsersService), run by several requests at a time against   *)
(* one database at READ COMMITTED.                                         *)
(*                                                                         *)
(* user, tokens and resets are the committed rows; what a transaction has  *)
(* written and not committed is in its request's record. A token is known  *)
(* by its position in tokens, a family by its first token, a password by   *)
(* how many changes it took to get to it.                                  *)
(*                                                                         *)
(* A call that is refused changes nothing and is left out; so are expired  *)
(* tokens, which are only refused, the audit rows and the access tokens,   *)
(* which the server does not keep.                                         *)
(***************************************************************************)
EXTENDS Naturals, Sequences, FiniteSets, RowLocks

CONSTANTS
  Requests,      \* HTTP requests the server works on at the same time
  MaxFailures,   \* MAX_FAILED_LOGIN_ATTEMPTS (5)
  MaxTokens,     \* bound: rows of refresh_tokens, those under way included
  MaxResets,     \* bound: rows of password_reset_tokens
  MaxPasswords,  \* bound: changes of the password, those under way included
  MaxClock       \* bound: lock periods that run out

ASSUME MaxFailuresAssumption == MaxFailures \in Nat \ {0}

ASSUME BoundsAssumption ==
  {MaxTokens, MaxResets, MaxPasswords, MaxClock} \subseteq Nat

VARIABLES
  user,    \* the row of users
  tokens,  \* refresh_tokens, in the order of their commits
  resets,  \* password_reset_tokens: whether each has been consumed
  clock,   \* how many lock periods have run out
  req      \* what each request is doing

vars == <<user, tokens, resets, clock, req>>

-----------------------------------------------------------------------------
\* lockedUntil is NULL (0) or a time; LOGIN_LOCK_MS is one tick of the clock.
User == [status : {"ACTIVE", "BLOCKED"}, password : Nat,
         failures : 0..(MaxFailures - 1), lockedUntil : Nat]

\* next is replacedByTokenHash (0 is NULL). since is a history variable: the
\* password that the login of the token's family was made with.
Token == [family : Nat, revoked : BOOLEAN, next : Nat, since : Nat]

Ops == {"login", "refresh", "logout", "change", "reset", "block"}

PCs == {"idle",
        "failing", "welcome", "issue",     \* login
        "checked", "allowed", "rotated",   \* refresh
        "change", "changed",               \* changePassword
        "reset",                           \* resetPassword
        "revoking"}                        \* an UPDATE of several tokens

Request == [op : Ops, pc : PCs,
            token : Nat,            \* the refresh or reset token it is about
            mem : User,             \* the user in memory
            found : SUBSET Nat]     \* the tokens an UPDATE has found

\* An approved user's row.
NewUser == [status |-> "ACTIVE", password |-> 0, failures |-> 0, lockedUntil |-> 0]

IdleRequest == [op |-> "login", pc |-> "idle", token |-> 0, mem |-> NewUser,
                found |-> {}]

Init ==
  /\ user = NewUser
  /\ tokens = <<>>
  /\ resets = <<>>
  /\ clock = 0
  /\ req = [r \in Requests |-> IdleRequest]

Start(r, fields) ==
  /\ req[r].pc = "idle"
  /\ req' = [req EXCEPT ![r] = fields]

Step(r, pc) == req' = [req EXCEPT ![r].pc = pc]

Finish(r) == req' = [req EXCEPT ![r] = IdleRequest]

Locked(u) == u.lockedUntil > clock

Live == {i \in DOMAIN tokens : ~tokens[i].revoked}

Family(f) == {i \in DOMAIN tokens : tokens[i].family = f}

Revoked(found) ==
  [i \in DOMAIN tokens |->
     IF i \in found THEN [tokens[i] EXCEPT !.revoked = TRUE] ELSE tokens[i]]

\* Bounds: the requests that will insert a token, and those that will change
\* the password.
Issuing == {r \in Requests :
  req[r].pc \in {"welcome", "issue", "checked", "allowed", "rotated"}}

Changing == {r \in Requests :
  \/ req[r].pc \in {"change", "reset"}
  \/ req[r].pc = "revoking" /\ req[r].op = "reset"}

MayIssue == Len(tokens) + Cardinality(Issuing) < MaxTokens

MayChange == user.password + Cardinality(Changing) < MaxPasswords

-----------------------------------------------------------------------------
(* Row locks. A row of refresh_tokens refers to its user by a foreign key,  *)
(* and so does one of password_reset_tokens.                                *)

\* What a reset that reads its user FOR UPDATE would hold.
UserLockForUpdate(op) == "UPDATE"

\* block() reads the user FOR UPDATE; resetPassword() updates the row.
UserLock(op) == IF op = "block" THEN "UPDATE" ELSE "NO KEY UPDATE"

UserModes(r) ==
  IF req[r].pc = "revoking" /\ req[r].op \in {"block", "reset"}
    THEN {UserLock(req[r].op)} ELSE {}

MayLockUser(r, mode) ==
  \A s \in Requests \ {r} : UserModes(s) \cap WaitsFor(mode) = {}

\* The tokens that r has updated in a transaction still open.
HeldTokens(r) == IF req[r].pc = "rotated" THEN {req[r].token} ELSE {}

MayUpdateTokens(r, found) ==
  \A s \in Requests \ {r} : HeldTokens(s) \cap found = {}

MayConsume(r, k) ==
  \A s \in Requests \ {r} :
    ~(req[s].pc = "revoking" /\ req[s].op = "reset" /\ req[s].token = k)

\* A statement of r's open transaction waits for a row that s has locked. (Other
\* statements that wait are their transaction's first and hold no row.)
Awaits(r, s) ==
  \/ /\ req[r].pc = "rotated"
     /\ UserModes(s) \cap WaitsFor("KEY SHARE") # {}
  \/ /\ req[r].pc = "revoking"
     /\ HeldTokens(s) \cap req[r].found # {}

\* What is left of it without the detector.
NeverDeadlocked(r) == FALSE

\* PostgreSQL finds out after deadlock_timeout, and fails one of the two.
Deadlocked(r) ==
  \E s \in Requests \ {r} : Awaits(r, s) /\ Awaits(s, r)

-----------------------------------------------------------------------------
(* Login. Bounds: tokens, and lock periods.                                 *)

\* What a login() that does not look at lockedUntil would do.
LoginReadUnchecked(r, right) ==
  /\ IF right THEN user.status = "ACTIVE" /\ MayIssue ELSE clock < MaxClock
  /\ Start(r, [IdleRequest EXCEPT !.pc = IF right THEN "welcome" ELSE "failing",
                                  !.mem = user])
  /\ UNCHANGED <<user, tokens, resets, clock>>

\* The user's row, the check of the lock, of the password, of the status.
LoginRead(r, right) ==
  /\ ~Locked(user)
  /\ IF right THEN user.status = "ACTIVE" /\ MayIssue ELSE clock < MaxClock
  /\ Start(r, [IdleRequest EXCEPT !.pc = IF right THEN "welcome" ELSE "failing",
                                  !.mem = user])
  /\ UNCHANGED <<user, tokens, resets, clock>>

\* What a registerFailedLogin() that forgets to reset the counter would do.
FailLoginNoReset(r) ==
  LET attempts == req[r].mem.failures + 1 IN
  /\ req[r].pc = "failing"
  /\ MayLockUser(r, "NO KEY UPDATE")
  /\ user' = [user EXCEPT
       !.failures = attempts,
       !.lockedUntil = IF attempts >= MaxFailures THEN clock + 1 ELSE 0]
  /\ Finish(r)
  /\ UNCHANGED <<tokens, resets, clock>>

\* registerFailedLogin(): the counter is the one that login() has read.
FailLogin(r) ==
  LET attempts == req[r].mem.failures + 1
      lock == attempts >= MaxFailures IN
  /\ req[r].pc = "failing"
  /\ MayLockUser(r, "NO KEY UPDATE")
  /\ user' = [user EXCEPT !.failures = IF lock THEN 0 ELSE attempts,
                          !.lockedUntil = IF lock THEN clock + 1 ELSE 0]
  /\ Finish(r)
  /\ UNCHANGED <<tokens, resets, clock>>

WelcomeUser(r) ==
  /\ req[r].pc = "welcome"
  /\ MayLockUser(r, "NO KEY UPDATE")
  /\ user' = [user EXCEPT !.failures = 0, !.lockedUntil = 0]
  /\ Step(r, "issue")
  /\ UNCHANGED <<tokens, resets, clock>>

\* issueTokenPair(): the INSERT of the first token of a family.
IssueToken(r) ==
  /\ req[r].pc = "issue"
  /\ MayLockUser(r, "KEY SHARE")
  /\ tokens' = Append(tokens, [family |-> Len(tokens) + 1, revoked |-> FALSE,
                               next |-> 0, since |-> req[r].mem.password])
  /\ Finish(r)
  /\ UNCHANGED <<user, resets, clock>>

\* LOGIN_LOCK_MS goes by.
LockRunsOut ==
  /\ Locked(user) /\ clock < MaxClock
  /\ clock' = clock + 1
  /\ UNCHANGED <<user, tokens, resets, req>>

-----------------------------------------------------------------------------
(* Refresh. Bound: tokens.                                                  *)

\* What a refresh() that does not look at revokedAt would do.
RefreshReadUnchecked(r, i) ==
  /\ MayIssue
  /\ Start(r, [IdleRequest EXCEPT !.op = "refresh", !.pc = "checked", !.token = i])
  /\ UNCHANGED <<user, tokens, resets, clock>>

\* The token: if it is revoked, the UPDATE of its family begins.
RefreshRead(r, i) ==
  /\ IF tokens[i].revoked
       THEN Start(r, [IdleRequest EXCEPT !.op = "logout", !.pc = "revoking",
                        !.found = Live \cap Family(tokens[i].family)])
       ELSE /\ MayIssue
            /\ Start(r, [IdleRequest EXCEPT !.op = "refresh", !.pc = "checked",
                                            !.token = i])
  /\ UNCHANGED <<user, tokens, resets, clock>>

\* The user: refused unless ACTIVE.
RefreshAllow(r) ==
  /\ req[r].pc = "checked"
  /\ IF user.status = "ACTIVE" THEN Step(r, "allowed") ELSE Finish(r)
  /\ UNCHANGED <<user, tokens, resets, clock>>

\* The transaction: an UPDATE of the old token, whatever has become of it.
Rotate(r) ==
  /\ req[r].pc = "allowed"
  /\ MayUpdateTokens(r, {req[r].token})
  /\ Step(r, "rotated")
  /\ UNCHANGED <<user, tokens, resets, clock>>

\* What a rotation would leave that loses the UPDATE of revokedAt.
CommitRotationNotRevoking(r) ==
  LET i == req[r].token IN
  /\ req[r].pc = "rotated"
  /\ MayLockUser(r, "KEY SHARE")
  /\ tokens' = Append([tokens EXCEPT ![i].next = Len(tokens) + 1],
                      [tokens[i] EXCEPT !.revoked = FALSE, !.next = 0])
  /\ Finish(r)
  /\ UNCHANGED <<user, resets, clock>>

\* The INSERT of the new token, the commit.
CommitRotation(r) ==
  LET i == req[r].token IN
  /\ req[r].pc = "rotated"
  /\ MayLockUser(r, "KEY SHARE")
  /\ tokens' = Append([tokens EXCEPT ![i].revoked = TRUE, ![i].next = Len(tokens) + 1],
                      [tokens[i] EXCEPT !.revoked = FALSE, !.next = 0])
  /\ Finish(r)
  /\ UNCHANGED <<user, resets, clock>>

-----------------------------------------------------------------------------
(* Logout, change and reset of the password. An UPDATE of several tokens    *)
(* finds those that are live when it starts, waits for the ones that are    *)
(* locked, and revokes what it has found: not what has been added since.    *)

\* logout() of one token, or logoutAll().
LogOut(r, found) ==
  /\ found # {}
  /\ Start(r, [IdleRequest EXCEPT !.op = "logout", !.pc = "revoking", !.found = found])
  /\ UNCHANGED <<user, tokens, resets, clock>>

\* The UPDATE of the tokens ends, and with it the request.
RevokeFound(r) ==
  /\ req[r].pc = "revoking" /\ req[r].op \in {"logout", "change"}
  /\ MayUpdateTokens(r, req[r].found)
  /\ tokens' = Revoked(req[r].found)
  /\ Finish(r)
  /\ UNCHANGED <<user, resets, clock>>

\* changePassword(): the current password was right. Bound: passwords.
ChangeRead(r) ==
  /\ MayChange
  /\ Start(r, [IdleRequest EXCEPT !.op = "change", !.pc = "change"])
  /\ UNCHANGED <<user, tokens, resets, clock>>

\* The new password, committed at once.
ChangePassword(r) ==
  /\ req[r].pc = "change"
  /\ MayLockUser(r, "NO KEY UPDATE")
  /\ user' = [user EXCEPT !.password = @ + 1]
  /\ Step(r, "changed")
  /\ UNCHANGED <<tokens, resets, clock>>

\* Its logoutAll(), a statement of its own.
ChangeLogsOut(r) ==
  /\ req[r].pc = "changed"
  /\ req' = [req EXCEPT ![r].pc = "revoking", ![r].found = Live]
  /\ UNCHANGED <<user, tokens, resets, clock>>

\* forgotPassword(), the cooldown being over. Bound: reset tokens.
ForgotPassword(r) ==
  /\ req[r].pc = "idle" /\ Len(resets) < MaxResets
  /\ MayLockUser(r, "KEY SHARE")
  /\ resets' = Append(resets, FALSE)
  /\ UNCHANGED <<user, tokens, clock, req>>

\* resetPassword(): the reset token is there and not consumed. Bound: passwords.
ResetRead(r, k) ==
  /\ ~resets[k] /\ MayChange
  /\ Start(r, [IdleRequest EXCEPT !.op = "reset", !.pc = "reset", !.token = k])
  /\ UNCHANGED <<user, tokens, resets, clock>>

\* The transaction: the UPDATE of the reset token, whatever has become of it, the
\* UPDATE of the user, and the UPDATE of the tokens begins. A commit between the
\* last two might as well have been before them.
ResetWrite(r) ==
  /\ req[r].pc = "reset"
  /\ MayConsume(r, req[r].token) /\ MayLockUser(r, "NO KEY UPDATE")
  /\ req' = [req EXCEPT ![r].pc = "revoking", ![r].found = Live]
  /\ UNCHANGED <<user, tokens, resets, clock>>

CommitReset(r) ==
  /\ req[r].pc = "revoking" /\ req[r].op = "reset"
  /\ MayUpdateTokens(r, req[r].found)
  /\ user' = [user EXCEPT !.password = @ + 1]
  /\ tokens' = Revoked(req[r].found)
  /\ resets' = [resets EXCEPT ![req[r].token] = TRUE]
  /\ Finish(r)
  /\ UNCHANGED clock

-----------------------------------------------------------------------------
(* UsersService.                                                            *)

\* block(): the row FOR UPDATE, its check and save(); the UPDATE of the tokens
\* begins. A commit in between might as well have been before them.
BlockLock(r) ==
  /\ user.status = "ACTIVE"
  /\ MayLockUser(r, "UPDATE")
  /\ Start(r, [IdleRequest EXCEPT !.op = "block", !.pc = "revoking", !.found = Live])
  /\ UNCHANGED <<user, tokens, resets, clock>>

CommitBlock(r) ==
  /\ req[r].pc = "revoking" /\ req[r].op = "block"
  /\ MayUpdateTokens(r, req[r].found)
  /\ user' = [user EXCEPT !.status = "BLOCKED"]
  /\ tokens' = Revoked(req[r].found)
  /\ Finish(r)
  /\ UNCHANGED <<resets, clock>>

\* unblock(): once it has the row, nothing can hold it up.
Unblock(r) ==
  /\ req[r].pc = "idle" /\ user.status = "BLOCKED"
  /\ MayLockUser(r, "UPDATE")
  /\ user' = [user EXCEPT !.status = "ACTIVE"]
  /\ UNCHANGED <<tokens, resets, clock, req>>

-----------------------------------------------------------------------------
\* A statement times out or is refused, an answer is lost, the process stops:
\* what has been committed remains.
Rollback(r) ==
  /\ req[r].pc # "idle"
  /\ Finish(r)
  /\ UNCHANGED <<user, tokens, resets, clock>>

BreakDeadlock(r) ==
  /\ Deadlocked(r)
  /\ Finish(r)
  /\ UNCHANGED <<user, tokens, resets, clock>>

\* The steps by which a request that has started gets on.
Advance(r) ==
  \/ FailLogin(r)
  \/ WelcomeUser(r)
  \/ IssueToken(r)
  \/ RefreshAllow(r)
  \/ Rotate(r)
  \/ CommitRotation(r)
  \/ RevokeFound(r)
  \/ ChangePassword(r)
  \/ ChangeLogsOut(r)
  \/ ResetWrite(r)
  \/ CommitReset(r)
  \/ CommitBlock(r)

Next ==
  \/ LockRunsOut
  \/ \E r \in Requests :
       \/ \E right \in BOOLEAN : LoginRead(r, right)
       \/ \E i \in DOMAIN tokens : RefreshRead(r, i)
       \/ \E found \in {{i} : i \in Live} \cup {Live} : LogOut(r, found)
       \/ ChangeRead(r)
       \/ ForgotPassword(r)
       \/ \E k \in DOMAIN resets : ResetRead(r, k)
       \/ BlockLock(r)
       \/ Unblock(r)
       \/ Advance(r)
       \/ Rollback(r)
       \/ BreakDeadlock(r)

Spec == Init /\ [][Next]_vars

\* PostgreSQL queues the waiters of a row, and looks for a deadlock whenever one
\* has waited for deadlock_timeout. Nothing else needs to be rolled back.
Fairness ==
  /\ \A r \in Requests : SF_vars(Advance(r))
  /\ WF_vars(\E r \in Requests : BreakDeadlock(r))

FairSpec == Spec /\ Fairness

-----------------------------------------------------------------------------
(* Properties.                                                              *)

TypeOK ==
  /\ user \in User
  /\ tokens \in Seq(Token)
  /\ resets \in Seq(BOOLEAN)
  /\ clock \in Nat
  /\ req \in [Requests -> Request]

\* A family is what has come of one login by rotation, however many refreshes
\* rotate the same token at once (refresh-token.entity.ts): what replaces a token
\* is a later token of its family, and the token is revoked; and a family that
\* has more than its first token has had that one revoked.
FamiliesGrowByRotation ==
  \A i \in DOMAIN tokens :
    LET t == tokens[i] IN
    /\ t.next # 0 => /\ t.revoked
                     /\ t.next \in DOMAIN tokens /\ t.next > i
                     /\ tokens[t.next].family = t.family
    /\ t.family \in 1..i
    /\ t.family # i => /\ tokens[t.family].revoked
                       /\ tokens[t.family].family = t.family
                       /\ tokens[t.family].since = t.since

\* A family is over when its last token is revoked - by logout(), logoutAll(), a
\* new password, block(), or the reuse of a token - and no refresh is under way
\* that has found one of them live.
Over(f) ==
  /\ Family(f) \cap Live = {}
  /\ \A r \in Requests :
       req[r].pc \in {"checked", "allowed", "rotated"} => req[r].token \notin Family(f)

\* A family that is over stays so: none of its tokens is ever good for another.
FamiliesEnd == [][\A f \in DOMAIN tokens : Over(f) => Over(f)']_vars

\* The lock of login() is lifted by time, or by a request that has read the user
\* before the lock was set.
LockOutlastsNewRequests ==
  [][Locked(user) /\ ~Locked(user)' =>
       \/ clock' > clock
       \/ \E r \in Requests : req'[r] # req[r] /\ ~Locked(req[r].mem)]_vars

\* Two requests wait for each other only where one of them blocks the user and the
\* other refreshes a token: block() locks the user's row and then its tokens,
\* refresh() a token and then, by the foreign key of the new one, the user's row.
DeadlockNeedsABlock ==
  \A r, s \in Requests :
    r # s /\ Awaits(r, s) /\ Awaits(s, r) => "block" \in {req[r].op, req[s].op}

\* Every request ends, with the help of the deadlock detector and no timeout.
EveryRequestEnds == \A r \in Requests : []<>(req[r].pc = "idle")

\* README.md:198: change-password and reset-password both revoke every refresh
\* token that exists, forcing re-login everywhere. When the one request to change
\* the password has done so, the live tokens are of logins with the new one.
NewPasswordNewLogin ==
  [][\A r \in Requests :
       (RevokeFound(r) /\ req[r].op = "change") \/ CommitReset(r)
         => \A i \in Live' : tokens'[i].since = user'.password]_vars

=============================================================================
