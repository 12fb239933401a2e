---------------------------- MODULE SessionsProofs ---------------------------
(***************************************************************************)
(* Theorems about Sessions, for any number of requests, any limit of       *)
(* failed logins and any bounds.                                           *)
(*                                                                         *)
(* The invariant says what families of tokens look like, and of every      *)
(* request's record what its reads have established and time cannot undo:  *)
(* a login has found the user not locked, a refresh has found its token.   *)
(***************************************************************************)
EXTENDS Sessions, SequenceTheorems, TLAPS

Shape(q) ==
  /\ q.pc \in {"failing", "welcome"} => ~Locked(q.mem)
  /\ q.pc \in {"checked", "allowed", "rotated"} => q.token \in 1..Len(tokens)

Inv == TypeOK /\ FamiliesGrowByRotation /\ \A r \in Requests : Shape(req[r])

-----------------------------------------------------------------------------
(* What a step may do to the tokens.                                        *)

\* Some tokens are revoked.
Revocation ==
  /\ Len(tokens') = Len(tokens)
  /\ \A i \in 1..Len(tokens) :
       /\ tokens'[i].family = tokens[i].family /\ tokens'[i].next = tokens[i].next
       /\ tokens'[i].since = tokens[i].since
       /\ tokens[i].revoked => tokens'[i].revoked

\* A login adds a token that is a family of its own.
Opening ==
  LET n == Len(tokens) + 1 IN
  /\ Len(tokens') = n
  /\ \A i \in 1..Len(tokens) : tokens'[i] = tokens[i]
  /\ tokens'[n].family = n /\ tokens'[n].next = 0

\* Token i is revoked, and replaced by a new one.
Rotation(i) ==
  LET n == Len(tokens) + 1 IN
  /\ i \in 1..Len(tokens)
  /\ Len(tokens') = n
  /\ \A j \in 1..Len(tokens) : j # i => tokens'[j] = tokens[j]
  /\ tokens'[i] = [tokens[i] EXCEPT !.revoked = TRUE, !.next = n]
  /\ tokens'[n] = [tokens[i] EXCEPT !.revoked = FALSE, !.next = 0]

TokensStep ==
  /\ tokens' \in Seq(Token)
  /\ \/ Revocation
     \/ Opening
     \/ \E r \in Requests : req[r].pc = "rotated" /\ Rotation(req[r].token)

LEMMA Revoking ==
  ASSUME TypeOK, NEW S, tokens' = Revoked(S)
  PROVE  TokensStep
  <1>1. /\ tokens \in Seq(Token) /\ Len(tokens) \in Nat
        /\ DOMAIN tokens = 1..Len(tokens)
        /\ \A i \in 1..Len(tokens) : tokens[i] \in Token
    BY DEF TypeOK
  <1>2. tokens' = [i \in 1..Len(tokens) |->
          IF i \in S THEN [tokens[i] EXCEPT !.revoked = TRUE] ELSE tokens[i]]
    BY <1>1 DEF Revoked
  <1>3. \A i \in 1..Len(tokens) :
          /\ tokens'[i] \in Token
          /\ tokens'[i].family = tokens[i].family /\ tokens'[i].next = tokens[i].next
          /\ tokens'[i].since = tokens[i].since
          /\ tokens[i].revoked => tokens'[i].revoked
    BY <1>1, <1>2 DEF Token
  <1>4. tokens' \in Seq(Token) /\ Len(tokens') = Len(tokens)
    BY <1>1, <1>2, <1>3
  <1> QED BY <1>3, <1>4 DEF TokensStep, Revocation

LEMMA Issuance ==
  ASSUME TypeOK, NEW t \in Token, t.family = Len(tokens) + 1, t.next = 0,
         tokens' = Append(tokens, t)
  PROVE  TokensStep
  <1>1. tokens \in Seq(Token)
    BY DEF TypeOK
  <1>2. /\ tokens' \in Seq(Token) /\ Len(tokens') = Len(tokens) + 1
        /\ \A i \in 1..Len(tokens) : tokens'[i] = tokens[i]
        /\ tokens'[Len(tokens) + 1] = t
    BY <1>1, AppendProperties
  <1> QED BY <1>2 DEF TokensStep, Opening

LEMMA Replacement ==
  ASSUME TypeOK, NEW r \in Requests, CommitRotation(r), Shape(req[r])
  PROVE  TokensStep
  <1> DEFINE i == req[r].token
             n == Len(tokens) + 1
             old == [tokens[i] EXCEPT !.revoked = TRUE, !.next = n]
             new == [tokens[i] EXCEPT !.revoked = FALSE, !.next = 0]
             mid == [tokens EXCEPT ![i] = old]
  <1>1. /\ tokens \in Seq(Token) /\ Len(tokens) \in Nat /\ DOMAIN tokens = 1..Len(tokens)
        /\ i \in 1..Len(tokens) /\ tokens[i] \in Token
    <2>1. i \in 1..Len(tokens)
      BY DEF Shape, CommitRotation
    <2>2. tokens \in Seq(Token)
      BY DEF TypeOK
    <2> QED BY <2>1, <2>2
  <1>2. old \in Token /\ new \in Token
    <2>1. n \in Nat /\ tokens[i] \in Token
      BY <1>1
    <2> HIDE DEF n, i
    <2> QED BY <2>1 DEF Token
  <1>3. /\ mid \in Seq(Token) /\ Len(mid) = Len(tokens) /\ mid[i] = old
        /\ \A j \in 1..Len(tokens) : j # i => mid[j] = tokens[j]
    <2>1. mid = [j \in 1..Len(tokens) |-> IF j = i THEN old ELSE tokens[j]]
      BY <1>1
    <2>2. \A j \in 1..Len(tokens) : tokens[j] \in Token
      BY <1>1
    <2> HIDE DEF old, mid, i
    <2> QED BY <1>1, <1>2, <2>1, <2>2
  <1>4. tokens' = Append(mid, new)
    <2>1. [tokens EXCEPT ![i].revoked = TRUE, ![i].next = n] = mid
      BY <1>1 DEF Token
    <2> QED BY <2>1 DEF CommitRotation
  <1>5. /\ tokens' \in Seq(Token) /\ Len(tokens') = n
        /\ \A j \in 1..Len(tokens) : tokens'[j] = mid[j]
        /\ tokens'[n] = new
    <2> HIDE DEF mid, new
    <2> QED BY <1>2, <1>3, <1>4, AppendProperties
  <1>6. Rotation(i)
    BY <1>1, <1>3, <1>5 DEF Rotation
  <1> QED BY <1>1, <1>5, <1>6 DEF TokensStep, CommitRotation

-----------------------------------------------------------------------------
(* Families.                                                                *)

\* Each of the three keeps the shape of families.
LEMMA FamiliesStep ==
  ASSUME TypeOK, FamiliesGrowByRotation, TokensStep
  PROVE  FamiliesGrowByRotation'
  <1>1. /\ tokens \in Seq(Token) /\ tokens' \in Seq(Token)
        /\ Len(tokens) \in Nat /\ Len(tokens') \in Nat
        /\ DOMAIN tokens = 1..Len(tokens) /\ DOMAIN tokens' = 1..Len(tokens')
        /\ \A i \in 1..Len(tokens) : tokens[i] \in Token
    BY DEF TypeOK, TokensStep
  <1>2. \A i \in 1..Len(tokens) :
          /\ tokens[i].next # 0 => /\ tokens[i].revoked
                                   /\ tokens[i].next \in 1..Len(tokens) /\ tokens[i].next > i
                                   /\ tokens[tokens[i].next].family = tokens[i].family
          /\ tokens[i].family \in 1..i
          /\ tokens[i].family # i => /\ tokens[tokens[i].family].revoked
                                     /\ tokens[tokens[i].family].family = tokens[i].family
                                     /\ tokens[tokens[i].family].since = tokens[i].since
    BY <1>1 DEF FamiliesGrowByRotation
  <1>3. \A i \in 1..Len(tokens) : tokens[i].family \in 1..Len(tokens)
    BY <1>1, <1>2
  <1> SUFFICES ASSUME NEW i \in 1..Len(tokens')
               PROVE  LET t == tokens'[i] IN
                      /\ t.next # 0 => /\ t.revoked
                                       /\ t.next \in 1..Len(tokens') /\ t.next > i
                                       /\ tokens'[t.next].family = t.family
                      /\ t.family \in 1..i
                      /\ t.family # i => /\ tokens'[t.family].revoked
                                         /\ tokens'[t.family].family = t.family
                                         /\ tokens'[t.family].since = t.since
    BY <1>1 DEF FamiliesGrowByRotation
  <1>4. CASE Revocation
    BY <1>1, <1>2, <1>3, <1>4 DEF Revocation
  <1>5. CASE Opening
    BY <1>1, <1>2, <1>3, <1>5 DEF Opening
  <1>6. ASSUME NEW k \in 1..Len(tokens), Rotation(k)
        PROVE  LET t == tokens'[i] IN
               /\ t.next # 0 => /\ t.revoked
                                /\ t.next \in 1..Len(tokens') /\ t.next > i
                                /\ tokens'[t.next].family = t.family
               /\ t.family \in 1..i
               /\ t.family # i => /\ tokens'[t.family].revoked
                                  /\ tokens'[t.family].family = t.family
                                  /\ tokens'[t.family].since = t.since
    <2> DEFINE n == Len(tokens) + 1
    <2>1. /\ tokens'[k].revoked /\ tokens'[k].next = n
          /\ tokens'[k].family = tokens[k].family /\ tokens'[k].since = tokens[k].since
          /\ ~tokens'[n].revoked /\ tokens'[n].next = 0
          /\ tokens'[n].family = tokens[k].family /\ tokens'[n].since = tokens[k].since
      BY <1>1, <1>6 DEF Rotation, Token
    <2>2. /\ Len(tokens') = n
          /\ \A j \in 1..Len(tokens) : j # k => tokens'[j] = tokens[j]
      BY <1>6 DEF Rotation
    <2>3. \A j \in 1..Len(tokens) : /\ tokens'[j].family = tokens[j].family
                                    /\ tokens'[j].since = tokens[j].since
                                    /\ tokens[j].revoked => tokens'[j].revoked
      BY <2>1, <2>2
    <2>4. CASE i = k
      BY <1>1, <1>2, <1>3, <2>1, <2>2, <2>3, <2>4
    <2>5. CASE i = n
      BY <1>1, <1>2, <1>3, <2>1, <2>2, <2>3, <2>5
    <2>6. CASE i # k /\ i # n
      <3>1. i \in 1..Len(tokens) /\ tokens'[i] = tokens[i]
        BY <1>1, <2>2, <2>6
      <3> QED BY <1>1, <1>2, <1>3, <2>2, <2>3, <3>1
    <2> QED BY <2>4, <2>5, <2>6
  <1>7. \A k : Rotation(k) => k \in 1..Len(tokens)
    BY DEF Rotation
  <1> QED BY <1>4, <1>5, <1>6, <1>7 DEF TokensStep

-----------------------------------------------------------------------------
(* The invariant.                                                           *)

LEMMA IdleRequestShape == IdleRequest \in Request /\ Shape(IdleRequest)
  BY MaxFailuresAssumption
     DEF IdleRequest, Request, Ops, PCs, NewUser, User, Shape

LEMMA InvInit == Init => Inv
  <1> SUFFICES ASSUME Init PROVE Inv
    OBVIOUS
  <1>1. TypeOK
    <2>1. NewUser \in User
      BY MaxFailuresAssumption DEF NewUser, User
    <2>2. tokens \in Seq(Token) /\ resets \in Seq(BOOLEAN)
      BY DEF Init
    <2>3. req \in [Requests -> Request]
      BY IdleRequestShape DEF Init
    <2> QED BY <2>1, <2>2, <2>3 DEF Init, TypeOK
  <1>2. FamiliesGrowByRotation
    BY DEF Init, FamiliesGrowByRotation
  <1>3. \A r \in Requests : Shape(req[r])
    BY IdleRequestShape DEF Init
  <1> QED BY <1>1, <1>2, <1>3 DEF Inv

\* A step that treats the tables as the lemmas above say, and gives at most one
\* request a record of the right shape.
LEMMA StepInv ==
  ASSUME Inv, user' \in User, TokensStep \/ tokens' = tokens,
         resets' \in Seq(BOOLEAN), clock' \in {clock, clock + 1},
         \/ req' = req
         \/ \E r \in Requests, q \in Request :
              Shape(q) /\ req' = [req EXCEPT ![r] = q]
  PROVE  Inv'
  <1>1. /\ TypeOK /\ req \in [Requests -> Request] /\ clock \in Nat
        /\ \A s \in Requests : req[s] \in Request /\ Shape(req[s])
    BY DEF Inv, TypeOK
  <1>2. /\ req' \in [Requests -> Request]
        /\ \A s \in Requests : req'[s] \in Request /\ Shape(req'[s])
    BY <1>1
  <1>3. tokens' \in Seq(Token) /\ Len(tokens) <= Len(tokens') /\ FamiliesGrowByRotation'
    <2>1. tokens \in Seq(Token) /\ Len(tokens) \in Nat
      BY <1>1 DEF TypeOK
    <2>2. CASE TokensStep
      <3>1. FamiliesGrowByRotation'
        BY <1>1, <2>2, FamiliesStep DEF Inv
      <3>2. Len(tokens') = Len(tokens) \/ Len(tokens') = Len(tokens) + 1
        BY <2>2, Zenon DEF TokensStep, Revocation, Opening, Rotation
      <3> QED BY <2>1, <2>2, <3>1, <3>2 DEF TokensStep
    <2>3. CASE tokens' = tokens
      BY <2>1, <2>3 DEF Inv, FamiliesGrowByRotation
    <2> QED BY <2>2, <2>3
  <1>4. TypeOK'
    BY <1>1, <1>2, <1>3 DEF TypeOK
  <1>5. ASSUME NEW s \in Requests PROVE Shape(req[s])'
    <2>1. req'[s].mem \in User /\ Shape(req'[s])
      BY <1>2 DEF Request
    <2>2. req'[s].mem.lockedUntil \in Nat
      BY <2>1 DEF User
    <2>3. tokens \in Seq(Token) /\ tokens' \in Seq(Token)
      BY <1>1, <1>3 DEF TypeOK
    <2> QED BY <1>1, <1>3, <2>1, <2>2, <2>3 DEF Shape, Locked
  <1> QED BY <1>3, <1>4, <1>5 DEF Inv

\* What the invariant says of the tables and of a request's record.
LEMMA Types ==
  ASSUME Inv, NEW r \in Requests
  PROVE  /\ TypeOK /\ user \in User /\ tokens \in Seq(Token) /\ resets \in Seq(BOOLEAN)
         /\ clock \in Nat /\ DOMAIN tokens = 1..Len(tokens)
         /\ req[r] \in Request /\ Shape(req[r]) /\ req[r].mem \in User
         /\ IdleRequest \in Request /\ Shape(IdleRequest)
  <1>1. TypeOK /\ Shape(req[r])
    BY DEF Inv
  <1>2. req[r] \in Request /\ tokens \in Seq(Token)
    BY <1>1 DEF TypeOK
  <1>3. req[r].mem \in User
    BY <1>2 DEF Request
  <1> QED BY <1>1, <1>2, <1>3, IdleRequestShape DEF TypeOK

\* Steps that begin a request, or take it further without writing a table.
LEMMA RequestSteps ==
  ASSUME Inv, NEW r \in Requests,
         \/ \E right \in BOOLEAN : LoginRead(r, right)
         \/ \E i \in DOMAIN tokens : RefreshRead(r, i)
         \/ \E found \in {{i} : i \in Live} \cup {Live} : LogOut(r, found)
         \/ ChangeRead(r) \/ (\E k \in DOMAIN resets : ResetRead(r, k)) \/ BlockLock(r)
         \/ RefreshAllow(r) \/ Rotate(r) \/ ChangeLogsOut(r) \/ ResetWrite(r)
         \/ Rollback(r) \/ BreakDeadlock(r)
  PROVE  Inv' /\ UNCHANGED <<user, tokens, resets, clock>>
  <1>1. Live \in SUBSET Nat /\ (\A i \in Live : {i} \in SUBSET Nat)
    BY Types DEF Live
  <1>2. ASSUME NEW q \in Request, Shape(q), req' = [req EXCEPT ![r] = q],
               UNCHANGED <<user, tokens, resets, clock>>
        PROVE  Inv'
    BY <1>2, Types, StepInv
  <1>3. ASSUME NEW right \in BOOLEAN, LoginRead(r, right) PROVE Inv'
    <2> DEFINE q == [IdleRequest EXCEPT !.pc = IF right THEN "welcome" ELSE "failing",
                                        !.mem = user]
    <2>1. /\ q \in Request /\ q.pc \in {"welcome", "failing"} /\ q.mem = user
          /\ req' = [req EXCEPT ![r] = q]
      BY <1>3, Types DEF LoginRead, Start, IdleRequest, Request, PCs
    <2>2. Shape(q)
      <3> HIDE DEF q
      <3> QED BY <1>3, <2>1 DEF Shape, LoginRead
    <2> QED BY <1>2, <1>3, <2>1, <2>2 DEF LoginRead
  <1>4. ASSUME NEW i \in DOMAIN tokens, RefreshRead(r, i) PROVE Inv'
    <2> DEFINE f == Live \cap Family(tokens[i].family)
               a == [IdleRequest EXCEPT !.op = "logout", !.pc = "revoking", !.found = f]
               b == [IdleRequest EXCEPT !.op = "refresh", !.pc = "checked", !.token = i]
    <2>1. i \in Nat /\ i \in 1..Len(tokens)
      BY <1>4, Types
    <2>2. f \in SUBSET Nat
      BY <1>1
    <2>3. a \in Request /\ b \in Request /\ a.pc = "revoking"
          /\ b.pc = "checked" /\ b.token = i
      <3> HIDE DEF f
      <3> QED BY <2>1, <2>2, Types DEF IdleRequest, Request, PCs, Ops
    <2>4. Shape(a) /\ Shape(b)
      <3> HIDE DEF a, b
      <3> QED BY <2>1, <2>3 DEF Shape
    <2>5. req' = [req EXCEPT ![r] = a] \/ req' = [req EXCEPT ![r] = b]
      BY <1>4 DEF RefreshRead, Start
    <2> QED BY <1>2, <1>4, <2>3, <2>4, <2>5 DEF RefreshRead
  <1>5. ASSUME NEW found \in {{i} : i \in Live} \cup {Live}, LogOut(r, found) PROVE Inv'
    <2> DEFINE q == [IdleRequest EXCEPT !.op = "logout", !.pc = "revoking", !.found = found]
    <2>1. found \in SUBSET Nat
      BY <1>1
    <2>2. q \in Request /\ q.pc = "revoking" /\ req' = [req EXCEPT ![r] = q]
      BY <1>5, <2>1, Types DEF LogOut, Start, IdleRequest, Request, PCs, Ops
    <2>3. Shape(q)
      <3> HIDE DEF q
      <3> QED BY <2>2 DEF Shape
    <2> QED BY <1>2, <1>5, <2>2, <2>3 DEF LogOut
  <1>6. CASE ChangeRead(r)
    <2> DEFINE q == [IdleRequest EXCEPT !.op = "change", !.pc = "change"]
    <2>1. q \in Request /\ q.pc = "change" /\ req' = [req EXCEPT ![r] = q]
      BY <1>6, Types DEF ChangeRead, Start, IdleRequest, Request, PCs, Ops
    <2>2. Shape(q)
      <3> HIDE DEF q
      <3> QED BY <2>1 DEF Shape
    <2> QED BY <1>2, <1>6, <2>1, <2>2 DEF ChangeRead
  <1>7. ASSUME NEW k \in DOMAIN resets, ResetRead(r, k) PROVE Inv'
    <2> DEFINE q == [IdleRequest EXCEPT !.op = "reset", !.pc = "reset", !.token = k]
    <2>1. k \in Nat
      BY Types
    <2>2. q \in Request /\ q.pc = "reset" /\ req' = [req EXCEPT ![r] = q]
      BY <1>7, <2>1, Types DEF ResetRead, Start, IdleRequest, Request, PCs, Ops
    <2>3. Shape(q)
      <3> HIDE DEF q
      <3> QED BY <2>2 DEF Shape
    <2> QED BY <1>2, <1>7, <2>2, <2>3 DEF ResetRead
  <1>8. CASE BlockLock(r)
    <2> DEFINE q == [IdleRequest EXCEPT !.op = "block", !.pc = "revoking", !.found = Live]
    <2>1. q \in Request /\ q.pc = "revoking" /\ req' = [req EXCEPT ![r] = q]
      BY <1>1, <1>8, Types DEF BlockLock, Start, IdleRequest, Request, PCs, Ops
    <2>2. Shape(q)
      <3> HIDE DEF q
      <3> QED BY <2>1 DEF Shape
    <2> QED BY <1>2, <1>8, <2>1, <2>2 DEF BlockLock
  <1>9. ASSUME Finish(r), UNCHANGED <<user, tokens, resets, clock>> PROVE Inv'
    BY <1>2, <1>9, Types DEF Finish
  <1>10. ASSUME NEW pc \in {"allowed", "rotated"}, Step(r, pc),
                req[r].pc \in {"checked", "allowed"},
                UNCHANGED <<user, tokens, resets, clock>>
         PROVE  Inv'
    <2> DEFINE q == [req[r] EXCEPT !.pc = pc]
    <2>1. /\ q \in Request /\ q.pc = pc /\ q.token = req[r].token
          /\ req' = [req EXCEPT ![r] = q]
      BY <1>10, Types DEF Step, Request, PCs
    <2>2. Shape(q)
      <3> HIDE DEF q
      <3> QED BY <1>10, <2>1, Types DEF Shape
    <2> QED BY <1>2, <1>10, <2>1, <2>2
  <1>11. CASE RefreshAllow(r)
    BY <1>9, <1>10, <1>11 DEF RefreshAllow
  <1>12. CASE Rotate(r)
    BY <1>10, <1>12 DEF Rotate
  <1>13. CASE ChangeLogsOut(r) \/ ResetWrite(r)
    <2> DEFINE q == [req[r] EXCEPT !.pc = "revoking", !.found = Live]
    <2>1. q \in Request /\ q.pc = "revoking" /\ req' = [req EXCEPT ![r] = q]
      BY <1>1, <1>13, Types DEF ChangeLogsOut, ResetWrite, Request, PCs
    <2>2. Shape(q)
      <3> HIDE DEF q
      <3> QED BY <2>1 DEF Shape
    <2> QED BY <1>2, <1>13, <2>1, <2>2 DEF ChangeLogsOut, ResetWrite
  <1>14. CASE Rollback(r) \/ BreakDeadlock(r)
    BY <1>9, <1>14 DEF Rollback, BreakDeadlock
  <1>15. Inv'
    BY <1>3, <1>4, <1>5, <1>6, <1>7, <1>8, <1>11, <1>12, <1>13, <1>14
  <1>16. UNCHANGED <<user, tokens, resets, clock>>
    BY DEF LoginRead, RefreshRead, LogOut, ChangeRead, ResetRead, BlockLock, RefreshAllow,
           Rotate, ChangeLogsOut, ResetWrite, Rollback, BreakDeadlock
  <1> QED BY <1>15, <1>16

\* Steps that write a table.
LEMMA UserSteps ==
  ASSUME Inv, NEW r \in Requests,
         FailLogin(r) \/ WelcomeUser(r) \/ ChangePassword(r) \/ Unblock(r)
  PROVE  Inv' /\ UNCHANGED tokens
  <1>1. /\ user.failures \in 0..(MaxFailures - 1) /\ user.lockedUntil \in Nat
        /\ user.password \in Nat /\ user.status \in {"ACTIVE", "BLOCKED"}
        /\ clock \in Nat
    BY Types DEF User
  <1>2. CASE FailLogin(r)
    <2> DEFINE n == req[r].mem.failures + 1
    <2>1. req[r].mem.failures \in 0..(MaxFailures - 1)
      BY Types DEF User
    <2>2. (IF n >= MaxFailures THEN 0 ELSE n) \in 0..(MaxFailures - 1)
      BY <2>1, MaxFailuresAssumption
    <2>3. (IF n >= MaxFailures THEN clock + 1 ELSE 0) \in Nat
      BY <1>1
    <2>4. user' = [user EXCEPT !.failures = IF n >= MaxFailures THEN 0 ELSE n,
                               !.lockedUntil = IF n >= MaxFailures THEN clock + 1 ELSE 0]
      BY <1>2 DEF FailLogin
    <2>5. user' \in User
      <3> HIDE DEF n
      <3> QED BY <2>2, <2>3, <2>4, Types DEF User
    <2> QED BY <1>2, <2>5, Types, StepInv DEF FailLogin, Finish
  <1>3. CASE WelcomeUser(r)
    <2> DEFINE q == [req[r] EXCEPT !.pc = "issue"]
    <2>1. user' \in User
      <3>1. user' = [user EXCEPT !.failures = 0, !.lockedUntil = 0]
        BY <1>3 DEF WelcomeUser
      <3>2. 0 \in 0..(MaxFailures - 1)
        BY MaxFailuresAssumption
      <3> QED BY <3>1, <3>2, Types DEF User
    <2>2. q \in Request /\ q.pc = "issue" /\ req' = [req EXCEPT ![r] = q]
      BY <1>3, Types DEF WelcomeUser, Step, Request, PCs
    <2>3. Shape(q)
      <3> HIDE DEF q
      <3> QED BY <2>2 DEF Shape
    <2> QED BY <1>3, <2>1, <2>2, <2>3, Types, StepInv DEF WelcomeUser
  <1>4. CASE ChangePassword(r)
    <2> DEFINE q == [req[r] EXCEPT !.pc = "changed"]
    <2>1. user' \in User
      <3>1. user' = [user EXCEPT !.password = user.password + 1]
        BY <1>4, Types DEF ChangePassword, User
      <3>2. user.password + 1 \in Nat
        BY Types DEF User
      <3> QED BY <3>1, <3>2, Types DEF User
    <2>2. q \in Request /\ q.pc = "changed" /\ req' = [req EXCEPT ![r] = q]
      BY <1>4, Types DEF ChangePassword, Step, Request, PCs
    <2>3. Shape(q)
      <3> HIDE DEF q
      <3> QED BY <2>2 DEF Shape
    <2> QED BY <1>4, <2>1, <2>2, <2>3, Types, StepInv DEF ChangePassword
  <1>5. CASE Unblock(r)
    <2>1. user' \in User
      BY <1>5, Types DEF Unblock, User
    <2> QED BY <1>5, <2>1, Types, StepInv DEF Unblock
  <1> QED BY <1>2, <1>3, <1>4, <1>5 DEF FailLogin, WelcomeUser, ChangePassword, Unblock

LEMMA LockRunsOutInv ==
  ASSUME Inv, LockRunsOut
  PROVE  Inv' /\ UNCHANGED tokens
  <1>1. TypeOK
    BY DEF Inv
  <1> QED BY <1>1, StepInv DEF LockRunsOut, TypeOK

LEMMA ForgotPasswordInv ==
  ASSUME Inv, NEW r \in Requests, ForgotPassword(r)
  PROVE  Inv' /\ UNCHANGED tokens
  <1>1. resets' \in Seq(BOOLEAN)
    BY Types, AppendProperties DEF ForgotPassword
  <1> QED BY <1>1, Types, StepInv DEF ForgotPassword

LEMMA TokenSteps ==
  ASSUME Inv, NEW r \in Requests,
         \/ IssueToken(r) \/ CommitRotation(r)
         \/ RevokeFound(r) \/ CommitReset(r) \/ CommitBlock(r)
  PROVE  Inv' /\ TokensStep
  <1>1. CASE IssueToken(r)
    <2> DEFINE t == [family |-> Len(tokens) + 1, revoked |-> FALSE, next |-> 0,
                     since |-> req[r].mem.password]
    <2>1. t \in Token /\ t.family = Len(tokens) + 1 /\ t.next = 0
      BY Types DEF Token, User
    <2>2. tokens' = Append(tokens, t)
      BY <1>1 DEF IssueToken
    <2>3. TokensStep
      <3> HIDE DEF t
      <3> QED BY <2>1, <2>2, Types, Issuance
    <2> QED BY <1>1, <2>3, Types, StepInv DEF IssueToken, Finish
  <1>2. CASE CommitRotation(r)
    <2>1. TokensStep
      BY <1>2, Types, Replacement
    <2> QED BY <1>2, <2>1, Types, StepInv DEF CommitRotation, Finish
  <1>3. CASE RevokeFound(r)
    <2>1. TokensStep
      BY <1>3, Types, Revoking DEF RevokeFound
    <2> QED BY <1>3, <2>1, Types, StepInv DEF RevokeFound, Finish
  <1>4. CASE CommitReset(r)
    <2>1. TokensStep
      BY <1>4, Types, Revoking DEF CommitReset
    <2>2. user' \in User
      <3>1. user' = [user EXCEPT !.password = user.password + 1]
        BY <1>4, Types DEF CommitReset, User
      <3>2. user.password + 1 \in Nat
        BY Types DEF User
      <3> QED BY <3>1, <3>2, Types DEF User
    <2>3. resets' \in Seq(BOOLEAN)
      <3> DEFINE k == req[r].token
      <3>1. resets' = [resets EXCEPT ![k] = TRUE]
        BY <1>4 DEF CommitReset
      <3>2. resets \in Seq(BOOLEAN)
        BY Types
      <3>3. resets \in [1..Len(resets) -> BOOLEAN] /\ Len(resets) \in Nat
        BY <3>2
      <3>4. \A f \in [1..Len(resets) -> BOOLEAN] :
              [f EXCEPT ![k] = TRUE] \in [1..Len(resets) -> BOOLEAN]
        BY Zenon
      <3> HIDE DEF k
      <3>5. resets' \in [1..Len(resets) -> BOOLEAN]
        BY <3>1, <3>3, <3>4, Zenon
      <3> QED BY <3>3, <3>5
    <2> QED BY <1>4, <2>1, <2>2, <2>3, Types, StepInv DEF CommitReset, Finish
  <1>5. CASE CommitBlock(r)
    <2>1. TokensStep
      BY <1>5, Types, Revoking DEF CommitBlock
    <2>2. user' \in User
      BY <1>5, Types DEF CommitBlock, User
    <2> QED BY <1>5, <2>1, <2>2, Types, StepInv DEF CommitBlock, Finish
  <1> QED BY <1>1, <1>2, <1>3, <1>4, <1>5

LEMMA InvNext == Inv /\ [Next]_vars => Inv'
  <1> SUFFICES ASSUME Inv, [Next]_vars PROVE Inv'
    OBVIOUS
  <1>1. ASSUME NEW r \in Requests, Advance(r) PROVE Inv'
    BY <1>1, RequestSteps, UserSteps, TokenSteps DEF Advance
  <1>2. ASSUME NEW r \in Requests,
               \/ \E right \in BOOLEAN : LoginRead(r, right)
               \/ \E i \in DOMAIN tokens : RefreshRead(r, i)
               \/ \E found \in {{i} : i \in Live} \cup {Live} : LogOut(r, found)
               \/ ChangeRead(r) \/ (\E k \in DOMAIN resets : ResetRead(r, k))
               \/ BlockLock(r) \/ Rollback(r) \/ BreakDeadlock(r)
        PROVE  Inv'
    BY <1>2, RequestSteps
  <1>3. ASSUME NEW r \in Requests, ForgotPassword(r) \/ Unblock(r) PROVE Inv'
    BY <1>3, ForgotPasswordInv, UserSteps
  <1>4. CASE LockRunsOut
    BY <1>4, LockRunsOutInv
  <1>5. CASE UNCHANGED vars
    BY <1>5 DEF vars, Inv, TypeOK, FamiliesGrowByRotation, Shape, Locked
  <1> QED BY <1>1, <1>2, <1>3, <1>4, <1>5 DEF Next

\* For any constants, every reachable state has the invariant.
THEOREM Invariance == Spec => []Inv
  BY InvInit, InvNext, PTL DEF Spec

\* Rows, tokens and what requests have read keep their types; in particular the
\* counter of failed logins stays below MAX_FAILED_LOGIN_ATTEMPTS, whichever of
\* several failures at once writes it last.
THEOREM TypeCorrect == Spec => []TypeOK
  BY Invariance, PTL DEF Inv

\* A family is one login's rotations, however many refreshes rotate one token.
THEOREM OneLoginPerFamily == Spec => []FamiliesGrowByRotation
  BY Invariance, PTL DEF Inv

-----------------------------------------------------------------------------
(* A family that is over.                                                   *)

Refreshing(q) == q.pc \in {"checked", "allowed", "rotated"}

\* A refresh that is under way after a step was so before it, with the same token,
\* or has just found its token live.
RefreshesStep ==
  \A s \in Requests :
    Refreshing(req'[s]) => \/ Refreshing(req[s]) /\ req'[s].token = req[s].token
                           \/ req'[s].token \in Live

LEMMA NextRefreshesStep == Inv /\ [Next]_vars => RefreshesStep
  <1> SUFFICES ASSUME Inv, [Next]_vars PROVE RefreshesStep
    OBVIOUS
  <1>1. req \in [Requests -> Request]
    BY DEF Inv, TypeOK
  <1>2. ASSUME NEW r \in Requests, NEW q, ~Refreshing(q), req' = [req EXCEPT ![r] = q]
        PROVE  RefreshesStep
    BY <1>1, <1>2 DEF RefreshesStep
  <1>3. CASE req' = req
    BY <1>3 DEF RefreshesStep
  <1>4. ~Refreshing(IdleRequest)
    BY DEF Refreshing, IdleRequest
  <1>5. ASSUME NEW r \in Requests, Finish(r) PROVE RefreshesStep
    BY <1>2, <1>4, <1>5 DEF Finish
  <1>6. ASSUME NEW r \in Requests, NEW pc \in PCs, Step(r, pc),
               Refreshing(req[r]) \/ pc \in {"issue", "changed"}
        PROVE  RefreshesStep
    <2>1. /\ \A s \in Requests \ {r} : req'[s] = req[s]
          /\ req'[r].pc = pc /\ req'[r].token = req[r].token
      BY <1>1, <1>6 DEF Step, Request
    <2> QED BY <1>6, <2>1 DEF RefreshesStep, Refreshing
  <1>7. ASSUME NEW r \in Requests, NEW i \in DOMAIN tokens, RefreshRead(r, i)
        PROVE  RefreshesStep
    <2>1. CASE tokens[i].revoked
      <3> DEFINE q == [IdleRequest EXCEPT !.op = "logout", !.pc = "revoking",
                         !.found = Live \cap Family(tokens[i].family)]
      <3>1. ~Refreshing(q) /\ req' = [req EXCEPT ![r] = q]
        BY <1>7, <2>1 DEF RefreshRead, Start, IdleRequest, Refreshing
      <3> QED BY <1>2, <3>1
    <2>2. CASE ~tokens[i].revoked
      <3>1. \A s \in Requests \ {r} : req'[s] = req[s]
        BY <1>1, <1>7, <2>2 DEF RefreshRead, Start
      <3>2. req'[r].token = i
        BY <1>1, <1>7, <2>2 DEF RefreshRead, Start, IdleRequest
      <3> QED BY <2>2, <3>1, <3>2 DEF RefreshesStep, Live
    <2> QED BY <2>1, <2>2
  <1>8. ASSUME NEW r \in Requests, NEW q, Start(r, q),
               q.pc \in {"welcome", "failing", "revoking", "change", "reset"}
        PROVE  RefreshesStep
    BY <1>2, <1>8 DEF Start, Refreshing
  <1>9. ASSUME NEW r \in Requests, NEW right \in BOOLEAN, LoginRead(r, right)
        PROVE  RefreshesStep
    BY <1>8, <1>9 DEF LoginRead, IdleRequest
  <1>10. ASSUME NEW r \in Requests, NEW found, LogOut(r, found) PROVE RefreshesStep
    BY <1>8, <1>10 DEF LogOut, IdleRequest
  <1>11. ASSUME NEW r \in Requests, ChangeRead(r) \/ BlockLock(r) PROVE RefreshesStep
    BY <1>8, <1>11 DEF ChangeRead, BlockLock, IdleRequest
  <1>12. ASSUME NEW r \in Requests, NEW k, ResetRead(r, k) PROVE RefreshesStep
    BY <1>8, <1>12 DEF ResetRead, IdleRequest
  <1>13. ASSUME NEW r \in Requests, ChangeLogsOut(r) \/ ResetWrite(r) PROVE RefreshesStep
    <2> DEFINE q == [req[r] EXCEPT !.pc = "revoking", !.found = Live]
    <2>1. ~Refreshing(q) /\ req' = [req EXCEPT ![r] = q]
      BY <1>1, <1>13 DEF ChangeLogsOut, ResetWrite, Refreshing, Request
    <2> QED BY <1>2, <2>1
  <1>14. ASSUME NEW r \in Requests, Advance(r) PROVE RefreshesStep
    <2>1. CASE WelcomeUser(r) \/ ChangePassword(r)
      BY <1>6, <2>1 DEF WelcomeUser, ChangePassword, PCs
    <2>2. CASE RefreshAllow(r) \/ Rotate(r)
      BY <1>5, <1>6, <2>2 DEF RefreshAllow, Rotate, PCs, Refreshing
    <2> QED BY <1>5, <1>13, <1>14, <2>1, <2>2
            DEF Advance, FailLogin, IssueToken, CommitRotation, RevokeFound, CommitReset,
                CommitBlock
  <1>15. ASSUME NEW r \in Requests, Rollback(r) \/ BreakDeadlock(r) PROVE RefreshesStep
    BY <1>5, <1>15 DEF Rollback, BreakDeadlock
  <1>16. CASE LockRunsOut \/ UNCHANGED vars \/ \E r \in Requests : ForgotPassword(r) \/ Unblock(r)
    BY <1>3, <1>16 DEF LockRunsOut, vars, ForgotPassword, Unblock
  <1> QED BY <1>7, <1>9, <1>10, <1>11, <1>12, <1>14, <1>15, <1>16 DEF Next

LEMMA NextTokensStep == Inv /\ [Next]_vars => TokensStep \/ tokens' = tokens
  <1> SUFFICES ASSUME Inv, [Next]_vars PROVE TokensStep \/ tokens' = tokens
    OBVIOUS
  <1>1. ASSUME NEW r \in Requests, Advance(r) PROVE TokensStep \/ tokens' = tokens
    BY <1>1, RequestSteps, UserSteps, TokenSteps DEF Advance
  <1>2. CASE ~\E r \in Requests : Advance(r)
    BY <1>2 DEF Next, vars, LockRunsOut, LoginRead, RefreshRead, LogOut, ChangeRead,
                ForgotPassword, ResetRead, BlockLock, Unblock, Rollback, BreakDeadlock
  <1> QED BY <1>1, <1>2

LEMMA OverStep ==
  ASSUME Inv, RefreshesStep, TokensStep \/ tokens' = tokens,
         NEW f \in DOMAIN tokens, Over(f)
  PROVE  Over(f)'
  <1>1. /\ tokens \in Seq(Token) /\ tokens' \in Seq(Token)
        /\ Len(tokens) \in Nat /\ Len(tokens') \in Nat /\ f \in 1..Len(tokens)
        /\ DOMAIN tokens = 1..Len(tokens) /\ DOMAIN tokens' = 1..Len(tokens')
        /\ \A i \in 1..Len(tokens) : tokens[i] \in Token
    BY DEF Inv, TypeOK, TokensStep
  <1>2. /\ \A i \in 1..Len(tokens) : tokens[i].family = f => tokens[i].revoked
        /\ \A s \in Requests : Refreshing(req[s]) /\ req[s].token \in 1..Len(tokens)
                                 => tokens[req[s].token].family # f
    BY <1>1 DEF Over, Family, Live, Refreshing
  <1>3. /\ \A i \in 1..Len(tokens) : /\ tokens'[i].family = tokens[i].family
                                     /\ tokens[i].revoked => tokens'[i].revoked
        /\ \A i \in 1..Len(tokens') : i \notin 1..Len(tokens) => tokens'[i].family # f
    <2>1. CASE tokens' = tokens
      BY <2>1
    <2>2. CASE Revocation
      BY <1>1, <2>2 DEF Revocation
    <2>3. CASE Opening
      BY <1>1, <2>3 DEF Opening
    <2>4. ASSUME NEW s \in Requests, req[s].pc = "rotated", Rotation(req[s].token)
          PROVE  <1>3!1 /\ <1>3!2
      <3> DEFINE k == req[s].token
                 n == Len(tokens) + 1
      <3>1. k \in 1..Len(tokens) /\ Len(tokens') = n
        BY <2>4 DEF Rotation
      <3>2. /\ tokens'[k].revoked /\ tokens'[k].family = tokens[k].family
            /\ tokens'[n].family = tokens[k].family
        BY <1>1, <2>4, <3>1 DEF Rotation, Token
      <3>3. \A j \in 1..Len(tokens) : j # k => tokens'[j] = tokens[j]
        BY <2>4 DEF Rotation
      <3>4. tokens[k].family # f
        BY <1>2, <2>4, <3>1 DEF Refreshing
      <3> HIDE DEF k
      <3> QED BY <1>1, <3>1, <3>2, <3>3, <3>4
    <2> QED BY <2>1, <2>2, <2>3, <2>4 DEF TokensStep
  <1>4. \A i \in 1..Len(tokens') : tokens'[i].family = f => tokens'[i].revoked
    BY <1>2, <1>3
  <1>5. ASSUME NEW s \in Requests, Refreshing(req'[s]), req'[s].token \in 1..Len(tokens')
        PROVE  tokens'[req'[s].token].family # f
    <2>1. CASE req'[s].token \in 1..Len(tokens)
      BY <1>1, <1>2, <1>3, <1>5, <2>1 DEF RefreshesStep, Live
    <2> QED BY <1>3, <1>5, <2>1
  <1> QED BY <1>1, <1>4, <1>5 DEF Over, Family, Live, Refreshing

\* A family none of whose tokens is live, nor in the hands of a refresh, is never
\* good for another token: reuse of a token, logout, a new password and block() end
\* it for good.
THEOREM EndedFamilies == Spec => FamiliesEnd
  <1>1. Inv /\ [Next]_vars => [\A f \in DOMAIN tokens : Over(f) => Over(f)']_vars
    BY NextRefreshesStep, NextTokensStep, OverStep
  <1> QED BY <1>1, Invariance, PTL DEF Spec, FamiliesEnd

-----------------------------------------------------------------------------
(* The lock of login().                                                     *)

\* No request that has read the user while it was locked lifts the lock.
THEOREM LockLasts == Spec => LockOutlastsNewRequests
  <1> DEFINE Lasts == Locked(user) /\ ~Locked(user)' =>
                        \/ clock' > clock
                        \/ \E r \in Requests : req'[r] # req[r] /\ ~Locked(req[r].mem)
  <1>1. ASSUME Inv, [Next]_vars PROVE Lasts
    <2>1. /\ clock \in Nat /\ user \in User /\ req \in [Requests -> Request]
          /\ \A r \in Requests : Shape(req[r])
      BY <1>1 DEF Inv, TypeOK
    <2>2. ASSUME NEW r \in Requests, FailLogin(r) \/ WelcomeUser(r) PROVE Lasts
      <3>1. ~Locked(req[r].mem)
        BY <2>1, <2>2 DEF Shape, FailLogin, WelcomeUser
      <3>2. req'[r].pc \in {"idle", "issue"} /\ req[r].pc \in {"failing", "welcome"}
        <4>1. CASE FailLogin(r)
          BY <2>1, <4>1 DEF FailLogin, Finish, IdleRequest
        <4>2. CASE WelcomeUser(r)
          BY <2>1, <4>2 DEF WelcomeUser, Step, Request
        <4> QED BY <2>2, <4>1, <4>2
      <3> QED BY <3>1, <3>2
    <2>3. CASE LockRunsOut
      BY <2>1, <2>3 DEF LockRunsOut
    <2>4. ASSUME user'.lockedUntil = user.lockedUntil, clock' = clock PROVE Lasts
      BY <2>4 DEF Locked
    <2>5. ASSUME NEW r \in Requests,
                 \/ ChangePassword(r) \/ CommitReset(r) \/ CommitBlock(r) \/ Unblock(r)
          PROVE  Lasts
      BY <2>1, <2>4, <2>5 DEF User, ChangePassword, CommitReset, CommitBlock, Unblock
    <2>6. CASE user' = user /\ clock' = clock
      BY <2>4, <2>6
    <2>7. CASE UNCHANGED vars
      BY <2>6, <2>7 DEF vars
    <2>8. ASSUME NEW r \in Requests, Advance(r) PROVE Lasts
      BY <2>2, <2>5, <2>6, <2>8 DEF Advance, IssueToken, RefreshAllow, Rotate,
         CommitRotation, RevokeFound, ChangeLogsOut, ResetWrite
    <2> HIDE DEF Lasts
    <2>9. CASE \E r \in Requests :
                 \/ \E right \in BOOLEAN : LoginRead(r, right)
                 \/ \E i \in DOMAIN tokens : RefreshRead(r, i)
                 \/ \E found \in {{i} : i \in Live} \cup {Live} : LogOut(r, found)
                 \/ ChangeRead(r) \/ ForgotPassword(r)
                 \/ (\E k \in DOMAIN resets : ResetRead(r, k))
                 \/ BlockLock(r) \/ Rollback(r) \/ BreakDeadlock(r)
      BY <2>6, <2>9 DEF LoginRead, RefreshRead, LogOut, ChangeRead, ForgotPassword,
         ResetRead, BlockLock, Rollback, BreakDeadlock
    <2> QED BY <1>1, <2>3, <2>5, <2>7, <2>8, <2>9 DEF Next
  <1>2. Inv /\ [Next]_vars => [Lasts]_vars
    BY <1>1
  <1> QED BY <1>2, Invariance, PTL DEF Spec, LockOutlastsNewRequests

-----------------------------------------------------------------------------
\* Two requests wait for each other only where one of them is a block(): nothing
\* but its FOR UPDATE refuses the KEY SHARE of a new token (users.service.ts:165,
\* auth.service.ts:355).
LEMMA WaitsForABlock ==
  ASSUME NEW r \in Requests, NEW s \in Requests, Awaits(r, s), Awaits(s, r)
  PROVE  "block" \in {req[r].op, req[s].op}
  <1>1. ASSUME NEW p \in Requests, UserModes(p) \cap WaitsFor("KEY SHARE") # {}
        PROVE  req[p].op = "block"
    <2>1. UserLock(req[p].op) \in WaitsFor("KEY SHARE")
      BY <1>1 DEF UserModes
    <2> QED BY <2>1 DEF UserLock, WaitsFor
  <1>2. CASE req[r].pc = "rotated"
    BY <1>1, <1>2 DEF Awaits
  <1>3. CASE req[r].pc # "rotated"
    <2>1. HeldTokens(r) = {}
      BY <1>3 DEF HeldTokens
    <2> QED BY <1>1, <2>1 DEF Awaits
  <1> QED BY <1>2, <1>3

THEOREM OnlyBlocksDeadlock == Spec => []DeadlockNeedsABlock
  <1>1. DeadlockNeedsABlock
    BY WaitsForABlock DEF DeadlockNeedsABlock
  <1> QED BY <1>1, PTL

=============================================================================
