----------------------------- MODULE UsersProofs -----------------------------
(***************************************************************************)
(* Theorems about Users, for any number of requests, people and            *)
(* administrators, any limit of attempts and any bound on the codes.       *)
(*                                                                         *)
(* The invariant says of each request what its reads have established and  *)
(* nothing can undo - whoever was active had been approved - and what its  *)
(* locks keep as it was: the status that a decision has checked, and that  *)
(* nobody has the email of an account that is being inserted.              *)
(***************************************************************************)
EXTENDS Users, SequenceTheorems, FiniteSetTheorems, TLAPS

Approved(u) ==
  u \in Admins \/ (employees[u] = 1 /\ approvals[u] = 1 /\ u \in profiles)

\* What holds of a person.
OfPerson(u) ==
  /\ users[u] \in {"ACTIVE", "BLOCKED"} => Approved(u)
  /\ users[u] # "NONE" => u \in Admins \cup profiles
  /\ u \in Admins => users[u] \in {"ACTIVE", "BLOCKED"}
  /\ approvals[u] <= 1 /\ employees[u] = approvals[u]

\* What operation is at which place.
Places(q) ==
  /\ q.pc \in {"hashing", "storing"} => q.op = "register"
  /\ q.pc \in {"verify", "wrong", "right"} => q.op = "verify"
  /\ q.pc \in {"resend", "expire", "issue"} => q.op = "resend"
  /\ q.pc \in {"role", "compared"} => q.op = "role"
  /\ q.pc = "locked" => q.op \in Decisions /\ q.mem = From[q.op]

\* What holds of a request's record q that is not idle.
OfRequest(q) ==
  q.pc # "idle" =>
    /\ q.target \in People
    /\ Places(q)
    /\ q.mem \in {"ACTIVE", "BLOCKED"} => Approved(q.target)
    /\ q.target \in Admins =>
         q.op \in {"role", "block", "unblock"} /\ q.mem \in {"ACTIVE", "BLOCKED"}
    /\ q.pc = "storing" => users[q.target] = "NONE"
    /\ q.pc \notin {"hashing", "storing"} => users[q.target] # "NONE" /\ q.mem # "NONE"
    /\ q.pc = "locked" => users[q.target] = q.mem /\ q.actor \in Admins

\* One decision at a time on a person, and one account for an email.
Exclusive ==
  \A r, s \in Requests : r # s /\ req[r].target = req[s].target =>
    /\ req[r].pc = "locked" => req[s].pc # "locked"
    /\ req[r].pc = "storing" => req[s].pc # "storing"

Inv ==
  /\ TypeOK
  /\ \A u \in People : OfPerson(u)
  /\ \A r \in Requests : OfRequest(req[r])
  /\ Exclusive

-----------------------------------------------------------------------------
(* Steps, by what they change.                                              *)

\* A request goes on, or ends; no table changes.
LEMMA OnlyRequest ==
  ASSUME Inv, NEW r \in Requests, NEW q \in Request,
         req' = [req EXCEPT ![r] = q], UNCHANGED tables, OfRequest(q),
         \A s \in Requests \ {r} : req[s].target = q.target =>
            /\ q.pc = "locked" => req[s].pc # "locked"
            /\ q.pc = "storing" => req[s].pc # "storing"
  PROVE  Inv'
  <1>1. /\ req \in [Requests -> Request] /\ TypeOK
        /\ users' = users /\ codes' = codes /\ fresh' = fresh /\ profiles' = profiles
        /\ employees' = employees /\ approvals' = approvals
    BY DEF Inv, TypeOK, tables
  <1>2. /\ req' \in [Requests -> Request] /\ req'[r] = q
        /\ \A s \in Requests \ {r} : req'[s] = req[s]
    BY <1>1
  <1>3. TypeOK'
    BY <1>1, <1>2 DEF TypeOK
  <1>4. \A u \in People : OfPerson(u)'
    BY <1>1 DEF Inv, OfPerson, Approved
  <1>5. ASSUME NEW s \in Requests PROVE OfRequest(req[s])'
    <2>1. OfRequest(req'[s])
      BY <1>2 DEF Inv
    <2> QED BY <1>1, <2>1 DEF OfRequest, Approved
  <1>6. Exclusive'
    <2> SUFFICES ASSUME NEW a \in Requests, NEW b \in Requests, a # b,
                        req'[a].target = req'[b].target
                 PROVE  /\ req'[a].pc = "locked" => req'[b].pc # "locked"
                        /\ req'[a].pc = "storing" => req'[b].pc # "storing"
      BY DEF Exclusive
    <2>1. CASE a = r
      BY <1>2, <2>1
    <2>2. CASE b = r
      BY <1>2, <2>2
    <2>3. CASE a # r /\ b # r
      BY <1>2, <2>3 DEF Inv, Exclusive
    <2> QED BY <2>1, <2>2, <2>3
  <1> QED BY <1>3, <1>4, <1>5, <1>6 DEF Inv

LEMMA IdleIsFine ==
  IdleRequest \in Request /\ IdleRequest.pc = "idle" /\ OfRequest(IdleRequest)
  BY DEF IdleRequest, Request, Ops, PCs, Statuses, OfRequest

\* A request ends without a trace.
LEMMA Ends ==
  ASSUME Inv, NEW r \in Requests, Finish(r), UNCHANGED tables
  PROVE  Inv'
  BY IdleIsFine, OnlyRequest DEF Finish

TablesTyped ==
  /\ users' \in [People -> Statuses]
  /\ codes' \in Seq(Code)
  /\ fresh' \subseteq Nat
  /\ profiles' \subseteq People
  /\ employees' \in [People -> {0, 1}]
  /\ approvals' \in [People -> Nat]

\* A request goes on at another place, or ends, having written about its target.
LEMMA Writes ==
  ASSUME Inv, NEW r \in Requests, NEW q \in Request, NEW t \in People,
         req[r].target = t, req[r].pc # "idle",
         req' = [req EXCEPT ![r] = q], TablesTyped,
         q.pc \notin {"locked", "storing"}, OfRequest(q)',
         profiles \subseteq profiles',
         \A u \in People \ {t} :
            /\ users'[u] = users[u]
            /\ employees'[u] = employees[u] /\ approvals'[u] = approvals[u],
         OfPerson(t)',
         Approved(t) => Approved(t)',
         users'[t] # users[t] =>
            /\ users'[t] # "NONE"
            /\ \A s \in Requests \ {r} : req[s].target = t =>
                 req[s].pc \notin {"locked", "storing"}
  PROVE  Inv'
  <1>1. /\ req \in [Requests -> Request] /\ t \in People
        /\ profiles \subseteq People
    BY DEF Inv, TypeOK, OfRequest
  <1>2. /\ req' \in [Requests -> Request] /\ req'[r] = q
        /\ \A s \in Requests \ {r} : req'[s] = req[s]
    BY <1>1
  <1>3. TypeOK'
    BY <1>2 DEF TablesTyped, TypeOK
  <1>4. \A u \in People : Approved(u) => Approved(u)'
    <2>1. \A u \in People \ {t} : Approved(u) => Approved(u)'
      BY DEF Approved
    <2> QED BY <1>1, <2>1
  <1>5. ASSUME NEW u \in People PROVE OfPerson(u)'
    <2>1. OfPerson(u)
      BY DEF Inv
    <2>2. CASE u = t
      BY <2>2
    <2>3. CASE u # t
      BY <1>4, <2>1, <2>3 DEF OfPerson
    <2> QED BY <2>2, <2>3
  <1>6. ASSUME NEW s \in Requests PROVE OfRequest(req[s])'
    <2>1. CASE s = r
      BY <1>2, <2>1
    <2>2. CASE s # r
      <3>1. PICK p \in Request : p = req[s]
        BY <1>1
      <3>2. req'[s] = p /\ OfRequest(p)
        BY <1>2, <2>2, <3>1 DEF Inv
      <3> SUFFICES ASSUME p.pc # "idle" PROVE OfRequest(p)'
        BY <3>2 DEF OfRequest
      <3>3. p.target \in People
        BY <3>2 DEF OfRequest
      <3>4. p.mem \in {"ACTIVE", "BLOCKED"} => Approved(p.target)'
        BY <1>4, <3>2, <3>3 DEF OfRequest
      <3>5. CASE p.target = t /\ users'[t] # users[t]
        <4>1. users'[t] # "NONE" /\ p.pc \notin {"locked", "storing"}
          BY <2>2, <3>1, <3>5
        <4> QED BY <3>2, <3>3, <3>4, <3>5, <4>1 DEF OfRequest
      <3>6. CASE users'[p.target] = users[p.target]
        BY <3>2, <3>3, <3>4, <3>6 DEF OfRequest
      <3>7. p.target # t => users'[p.target] = users[p.target]
        BY <3>3
      <3> QED BY <3>5, <3>6, <3>7
    <2> QED BY <2>1, <2>2
  <1>7. Exclusive'
    <2> SUFFICES ASSUME NEW a \in Requests, NEW b \in Requests, a # b,
                        req'[a].target = req'[b].target
                 PROVE  /\ req'[a].pc = "locked" => req'[b].pc # "locked"
                        /\ req'[a].pc = "storing" => req'[b].pc # "storing"
      BY DEF Exclusive
    <2>1. CASE a = r \/ b = r
      BY <1>2, <2>1
    <2>2. CASE a # r /\ b # r
      BY <1>2, <2>2 DEF Inv, Exclusive
    <2> QED BY <2>1, <2>2
  <1> QED BY <1>3, <1>5, <1>6, <1>7 DEF Inv

-----------------------------------------------------------------------------
(* What the records become.                                                 *)

LEMMA CodesTyped ==
  ASSUME TypeOK
  PROVE  /\ codes \in Seq(Code) /\ Len(codes) \in Nat /\ DOMAIN codes = 1..Len(codes)
         /\ \A c \in DOMAIN codes :
              /\ c \in Nat /\ codes[c] \in Code
              /\ codes[c].attempts \in Nat /\ codes[c].guesses \in Nat
              /\ codes[c].uncounted \in Nat
  <1>1. /\ codes \in Seq(Code) /\ Len(codes) \in Nat /\ DOMAIN codes = 1..Len(codes)
        /\ \A c \in DOMAIN codes : c \in Nat /\ codes[c] \in Code
    BY DEF TypeOK
  <1>2. \A d \in Code : d.attempts \in Nat /\ d.guesses \in Nat /\ d.uncounted \in Nat
    BY DEF Code
  <1> QED BY <1>1, <1>2

LEMMA ChangedCodes ==
  ASSUME TypeOK, NEW k, NEW d, k \in DOMAIN codes => d \in Code
  PROVE  [codes EXCEPT ![k] = d] \in Seq(Code)
  <1>1. CASE k \in DOMAIN codes
    <2>1. k \in 1..Len(codes) /\ d \in Code /\ codes \in Seq(Code)
      BY <1>1, CodesTyped
    <2> QED BY <2>1, ExceptSeq
  <1>2. CASE k \notin DOMAIN codes
    <2>1. codes \in Seq(Code) /\ codes = [c \in DOMAIN codes |-> codes[c]]
      BY CodesTyped
    <2>2. [codes EXCEPT ![k] = d] = [c \in DOMAIN codes |-> codes[c]]
      BY <1>2
    <2> QED BY <2>1, <2>2
  <1> QED BY <1>1, <1>2

LEMMA Consts ==
  /\ Decisions \subseteq Ops
  /\ \A op \in Decisions : From[op] \in Statuses \ {"NONE"} /\ To[op] \in Statuses \ {"NONE"}
  /\ From["approve"] = "PENDING_ADMIN_APPROVAL" /\ To["approve"] = "ACTIVE"
  /\ From["reject"] = "PENDING_ADMIN_APPROVAL" /\ To["reject"] = "REJECTED"
  /\ From["block"] = "ACTIVE" /\ To["block"] = "BLOCKED"
  /\ From["unblock"] = "BLOCKED" /\ To["unblock"] = "ACTIVE"
  BY DEF Ops, Decisions, From, To, Statuses

\* What can be said of the record of a request that is under way.
LEMMA UnderWay ==
  ASSUME Inv, NEW r \in Requests, NEW q, q = req[r]
  PROVE  /\ q \in Request /\ OfRequest(q)
         /\ q.pc # "idle" => q.target \in People
  BY DEF Inv, TypeOK, OfRequest

LEMMA Starts ==
  ASSUME Inv, NEW r \in Requests, NEW u \in People, NEW op, NEW pc,
         <<op, pc>> \in {<<"register", "hashing">>, <<"verify", "verify">>,
                         <<"resend", "resend">>, <<"role", "role">>},
         op # "register" => users[u] # "NONE", u \in Admins => op = "role",
         Start(r, op, pc, u), UNCHANGED tables
  PROVE  Inv'
  <1> DEFINE q == [IdleRequest EXCEPT !.op = op, !.pc = pc, !.target = u,
                                      !.mem = users[u]]
  <1>1. users[u] \in Statuses /\ OfPerson(u)
    BY DEF Inv, TypeOK
  <1>2. /\ q \in Request /\ q.op = op /\ q.pc = pc /\ q.target = u
        /\ q.mem = users[u]
    BY <1>1 DEF IdleRequest, Request, Ops, PCs, Statuses
  <1>3. req' = [req EXCEPT ![r] = q]
    BY DEF Start
  <1> HIDE DEF q
  <1>4. Places(q)
    BY <1>2 DEF Places
  <1>5. OfRequest(q)
    BY <1>1, <1>2, <1>4 DEF OfRequest, OfPerson
  <1> QED BY <1>2, <1>3, <1>5, OnlyRequest

\* A request goes on to a place where it has no lock.
LEMMA GoesOn ==
  ASSUME Inv, NEW r \in Requests, NEW q \in Request, NEW p, p = req[r],
         p.pc # "idle", q.target = p.target, q.op = p.op, q.mem = p.mem,
         q.pc \notin {"locked", "storing", "hashing"},
         p.pc \notin {"locked", "storing", "hashing"},
         Places(q)
  PROVE  OfRequest(q)
  BY UnderWay DEF OfRequest

-----------------------------------------------------------------------------
(* The actions.                                                             *)

LEMMA InvCooldownPasses ==
  ASSUME Inv, CooldownPasses PROVE Inv'
  <1>1. /\ users' = users /\ codes' = codes /\ profiles' = profiles /\ req' = req
        /\ employees' = employees /\ approvals' = approvals /\ fresh' \subseteq Nat
    BY DEF CooldownPasses
  <1>2. TypeOK'
    BY <1>1 DEF Inv, TypeOK
  <1>3. \A u \in People : OfPerson(u)'
    BY <1>1 DEF Inv, OfPerson, Approved
  <1>4. ASSUME NEW r \in Requests PROVE OfRequest(req[r])'
    <2>1. OfRequest(req'[r])
      BY <1>1 DEF Inv
    <2> QED BY <1>1, <2>1 DEF OfRequest, Approved
  <1>5. Exclusive'
    BY <1>1 DEF Inv, Exclusive
  <1> QED BY <1>2, <1>3, <1>4, <1>5 DEF Inv

LEMMA InvReads ==
  ASSUME Inv, NEW r \in Requests, NEW u \in People,
         \/ RegisterRead(r, u)
         \/ VerifyRead(r, u)
         \/ ResendRead(r, u)
         \/ RoleRead(r, u)
  PROVE  Inv'
  <1>1. OfPerson(u)
    BY DEF Inv
  <1>2. CASE RegisterRead(r, u)
    BY <1>1, <1>2, Starts DEF RegisterRead, OfPerson
  <1>3. CASE VerifyRead(r, u)
    BY <1>1, <1>3, Starts DEF VerifyRead, OfPerson
  <1>4. CASE ResendRead(r, u)
    BY <1>1, <1>4, Starts DEF ResendRead, OfPerson
  <1>5. CASE RoleRead(r, u)
    BY <1>1, <1>5, Starts DEF RoleRead
  <1> QED BY <1>2, <1>3, <1>4, <1>5

LEMMA InvLockTarget ==
  ASSUME Inv, NEW r \in Requests, NEW u \in People, NEW op \in Decisions,
         NEW a \in Admins, LockTarget(r, op, u, a)
  PROVE  Inv'
  <1> DEFINE q == [IdleRequest EXCEPT !.op = op, !.pc = "locked", !.target = u,
                                      !.actor = a, !.mem = users[u]]
  <1>1. users[u] \in Statuses /\ OfPerson(u) /\ a \in People
    BY PeopleAssumption DEF Inv, TypeOK
  <1>2. /\ q \in Request /\ q.op = op /\ q.pc = "locked" /\ q.target = u
        /\ q.mem = users[u] /\ q.actor = a
    BY <1>1, Consts DEF IdleRequest, Request, Ops, PCs, Statuses
  <1>3. /\ req' = [req EXCEPT ![r] = q] /\ UNCHANGED tables
        /\ users[u] = From[op] /\ MayLock(r, u, "UPDATE")
    BY DEF LockTarget
  <1> HIDE DEF q
  <1>4. Places(q)
    BY <1>2, <1>3 DEF Places
  <1>5. users[u] # "NONE"
    BY <1>3, Consts
  <1>6. u \in Admins => op \in {"block", "unblock"}
    BY <1>1, <1>3, Consts DEF OfPerson, Decisions
  <1>7. OfRequest(q)
    BY <1>1, <1>2, <1>4, <1>5, <1>6 DEF OfRequest, OfPerson
  <1>8. \A s \in Requests \ {r} : req[s].target = u => req[s].pc # "locked"
    BY <1>3 DEF MayLock, Modes, WaitsFor, Modes
  <1> QED BY <1>2, <1>3, <1>7, <1>8, OnlyRequest

LEMMA InvInsertUser ==
  ASSUME Inv, NEW r \in Requests, InsertUser(r) PROVE Inv'
  <1>1. PICK p \in Request : p = req[r]
    BY UnderWay
  <1>2. /\ OfRequest(p) /\ p.pc = "hashing" /\ p.target \in People
        /\ ~Claimed(r, p.target) /\ UNCHANGED tables
    BY <1>1, UnderWay DEF InsertUser
  <1>3. CASE users[p.target] = "NONE"
    <2> DEFINE q == [p EXCEPT !.pc = "storing"]
    <2>1. /\ q \in Request /\ q.pc = "storing" /\ q.target = p.target
          /\ q.op = p.op /\ q.mem = p.mem
      BY DEF Request, PCs
    <2>2. req' = [req EXCEPT ![r] = q]
      BY <1>1, <1>3 DEF InsertUser, Step
    <2> HIDE DEF q
    <2>3. OfRequest(q)
      BY <1>2, <1>3, <2>1 DEF OfRequest, Places
    <2>4. \A s \in Requests \ {r} : req[s].target = p.target => req[s].pc # "storing"
      BY <1>2 DEF Claimed
    <2>5. \A s \in Requests \ {r} : req[s].target = q.target =>
            /\ q.pc = "locked" => req[s].pc # "locked"
            /\ q.pc = "storing" => req[s].pc # "storing"
      BY <2>1, <2>4
    <2> QED BY <1>2, <2>1, <2>2, <2>3, <2>5, OnlyRequest
  <1>4. CASE users[p.target] # "NONE"
    BY <1>1, <1>2, <1>4, Ends DEF InsertUser
  <1> QED BY <1>3, <1>4

LEMMA InvCompareCode ==
  ASSUME Inv, NEW r \in Requests, NEW c \in DOMAIN codes, NEW right \in BOOLEAN,
         CompareCode(r, c, right)
  PROVE  Inv'
  <1>1. PICK p \in Request : p = req[r]
    BY UnderWay
  <1> DEFINE q == [p EXCEPT !.pc = IF right THEN "right" ELSE "wrong",
                            !.code = c, !.attempts = codes[c].attempts]
  <1>2. c \in Nat /\ codes[c].attempts \in Nat
    BY CodesTyped DEF Inv
  <1>3. /\ q \in Request /\ q.pc \in {"right", "wrong"} /\ q.target = p.target
        /\ q.op = p.op /\ q.mem = p.mem
    BY <1>2 DEF Request, PCs
  <1>4. req' = [req EXCEPT ![r] = q] /\ UNCHANGED tables /\ p.pc = "verify"
    BY <1>1 DEF CompareCode
  <1> HIDE DEF q
  <1>5. OfRequest(q)
    <2>1. Places(q)
      BY <1>1, <1>3, <1>4, UnderWay DEF OfRequest, Places
    <2> QED BY <1>1, <1>3, <1>4, <2>1, GoesOn
  <1> QED BY <1>3, <1>4, <1>5, OnlyRequest

LEMMA InvResendCheck ==
  ASSUME Inv, NEW r \in Requests, ResendCheck(r) PROVE Inv'
  <1>1. PICK p \in Request : p = req[r]
    BY UnderWay
  <1>2. p.pc = "resend" /\ UNCHANGED tables /\ (Finish(r) \/ Step(r, "expire"))
    BY <1>1 DEF ResendCheck
  <1>3. CASE Finish(r)
    BY <1>2, <1>3, Ends
  <1>4. CASE Step(r, "expire")
    <2> DEFINE q == [p EXCEPT !.pc = "expire"]
    <2>1. /\ q \in Request /\ q.pc = "expire" /\ q.target = p.target
          /\ q.op = p.op /\ q.mem = p.mem
      BY DEF Request, PCs
    <2>2. req' = [req EXCEPT ![r] = q]
      BY <1>1, <1>4 DEF Step
    <2> HIDE DEF q
    <2>3. Places(q)
      BY <1>1, <1>2, <2>1, UnderWay DEF OfRequest, Places
    <2>4. OfRequest(q)
      BY <1>1, <1>2, <2>1, <2>3, GoesOn
    <2> QED BY <1>2, <2>1, <2>2, <2>4, OnlyRequest
  <1> QED BY <1>2, <1>3, <1>4

LEMMA InvRoleCompare ==
  ASSUME Inv, NEW r \in Requests, RoleCompare(r) PROVE Inv'
  <1>1. PICK p \in Request : p = req[r]
    BY UnderWay
  <1> DEFINE q == [p EXCEPT !.pc = "compared", !.found = users[p.target]]
  <1>2. p.pc = "role" /\ p.target \in People /\ users[p.target] \in Statuses
    BY <1>1, UnderWay DEF RoleCompare, Inv, TypeOK
  <1>3. /\ q \in Request /\ q.pc = "compared" /\ q.target = p.target
        /\ q.op = p.op /\ q.mem = p.mem
    BY <1>2 DEF Request, PCs
  <1>4. req' = [req EXCEPT ![r] = q] /\ UNCHANGED tables
    BY <1>1 DEF RoleCompare
  <1> HIDE DEF q
  <1>5. Places(q)
    BY <1>1, <1>2, <1>3, UnderWay DEF OfRequest, Places
  <1>6. OfRequest(q)
    BY <1>1, <1>2, <1>3, <1>5, GoesOn
  <1> QED BY <1>3, <1>4, <1>6, OnlyRequest

-----------------------------------------------------------------------------
(* The actions that write.                                                  *)

LEMMA WritesCodes ==
  ASSUME Inv, NEW r \in Requests, NEW q \in Request, req[r].pc # "idle",
         req' = [req EXCEPT ![r] = q], codes' \in Seq(Code), fresh' \subseteq Nat,
         UNCHANGED <<users, profiles, employees, approvals>>,
         OfRequest(q), q.pc \notin {"locked", "storing"}
  PROVE  Inv'
  <1>1. PICK t \in People : t = req[r].target
    BY UnderWay
  <1>2. /\ users' = users /\ profiles' = profiles /\ employees' = employees
        /\ approvals' = approvals
    OBVIOUS
  <1>3. TablesTyped
    BY <1>2 DEF TablesTyped, Inv, TypeOK
  <1>4. OfRequest(q)'
    BY <1>2 DEF OfRequest, Approved
  <1>5. OfPerson(t)' /\ (Approved(t) => Approved(t)')
    BY <1>2 DEF Inv, OfPerson, Approved
  <1> QED BY <1>1, <1>2, <1>3, <1>4, <1>5, Writes

LEMMA IdleIsFineNext == OfRequest(IdleRequest)'
  BY IdleIsFine DEF OfRequest

LEMMA InvCount ==
  ASSUME Inv, NEW r \in Requests, CountAttempt(r) \/ CountFails(r) PROVE Inv'
  <1>1. TypeOK /\ fresh \subseteq Nat
    BY DEF Inv, TypeOK
  <1> DEFINE k == req[r].code
             counted == [codes[k] EXCEPT !.attempts = @ + 1, !.guesses = @ + 1]
             failed == [codes[k] EXCEPT !.guesses = @ + 1, !.uncounted = @ + 1]
  <1>2. codes' \in Seq(Code)
    <2>1. codes' = [codes EXCEPT ![k] = counted] \/ codes' = [codes EXCEPT ![k] = failed]
      BY DEF CountAttempt, CountFails
    <2>2. k \in DOMAIN codes => counted \in Code /\ failed \in Code
      <3>1. \A old \in Code :
              /\ [old EXCEPT !.attempts = @ + 1, !.guesses = @ + 1] \in Code
              /\ [old EXCEPT !.guesses = @ + 1, !.uncounted = @ + 1] \in Code
        <4>1. \A old \in Code, n, m \in Nat :
                /\ [old EXCEPT !.attempts = n, !.guesses = m] \in Code
                /\ [old EXCEPT !.guesses = n, !.uncounted = m] \in Code
          BY Zenon DEF Code
        <4>2. \A old \in Code :
                old.attempts + 1 \in Nat /\ old.guesses + 1 \in Nat /\ old.uncounted + 1 \in Nat
          BY DEF Code
        <4> QED BY <4>1, <4>2, Zenon
      <3> QED BY <1>1, <3>1, CodesTyped
    <2> HIDE DEF counted, failed, k
    <2> QED BY <1>1, <2>1, <2>2, ChangedCodes
  <1>3. /\ req[r].pc # "idle" /\ req' = [req EXCEPT ![r] = IdleRequest]
        /\ fresh' = fresh /\ UNCHANGED <<users, profiles, employees, approvals>>
    BY DEF CountAttempt, CountFails, Finish
  <1> QED BY <1>1, <1>2, <1>3, IdleIsFine, WritesCodes

LEMMA InvExpireCodes ==
  ASSUME Inv, NEW r \in Requests, ExpireCodes(r) PROVE Inv'
  <1>1. PICK p \in Request : p = req[r]
    BY UnderWay
  <1>2. codes \in Seq(Code) /\ fresh \subseteq Nat /\ DOMAIN codes = 1..Len(codes)
        /\ Len(codes) \in Nat
    BY DEF Inv, TypeOK
  <1> DEFINE expired(c) == [codes[c] EXCEPT !.consumed = @ \/ codes[c].owner = p.target]
             q == [p EXCEPT !.pc = "issue"]
  <1>3. codes' = [c \in 1..Len(codes) |-> expired(c)]
    BY <1>1, <1>2 DEF ExpireCodes
  <1>4. \A c \in 1..Len(codes) : expired(c) \in Code
    <2> SUFFICES ASSUME NEW c \in 1..Len(codes) PROVE expired(c) \in Code
      OBVIOUS
    <2>1. codes[c] \in Code
      BY <1>2
    <2>2. (codes[c].consumed \/ codes[c].owner = p.target) \in BOOLEAN
      OBVIOUS
    <2> QED BY <2>1, <2>2, Zenon DEF Code
  <1> HIDE DEF expired
  <1>5. codes' \in Seq(Code)
    BY <1>2, <1>3, <1>4
  <1>6. /\ q \in Request /\ q.pc = "issue" /\ q.target = p.target
        /\ q.op = p.op /\ q.mem = p.mem
    BY DEF Request, PCs
  <1>7. /\ req' = [req EXCEPT ![r] = q] /\ p.pc = "expire"
        /\ fresh' = fresh /\ UNCHANGED <<users, profiles, employees, approvals>>
    BY <1>1 DEF ExpireCodes, Step
  <1> HIDE DEF q
  <1>8. Places(q)
    BY <1>1, <1>6, <1>7, UnderWay DEF OfRequest, Places
  <1>9. OfRequest(q)
    BY <1>1, <1>6, <1>7, <1>8, GoesOn
  <1> QED BY <1>1, <1>2, <1>5, <1>6, <1>7, <1>9, WritesCodes

LEMMA AppendedCode ==
  ASSUME Inv, NEW u \in People
  PROVE  /\ Append(codes, NewCode(u)) \in Seq(Code)
         /\ fresh \cup {Len(codes) + 1} \subseteq Nat
  <1>1. NewCode(u) \in Code
    BY DEF NewCode, Code
  <1>2. TypeOK /\ fresh \subseteq Nat
    BY DEF Inv, TypeOK
  <1>3. codes \in Seq(Code) /\ Len(codes) + 1 \in Nat
    BY <1>2, CodesTyped
  <1>4. Append(codes, NewCode(u)) \in Seq(Code)
    BY <1>1, <1>3, AppendProperties
  <1> QED BY <1>2, <1>3, <1>4

LEMMA InvIssueCode ==
  ASSUME Inv, NEW r \in Requests, IssueCode(r) PROVE Inv'
  <1>1. PICK u \in People : u = req[r].target
    BY UnderWay DEF IssueCode
  <1>2. /\ req[r].pc # "idle" /\ req' = [req EXCEPT ![r] = IdleRequest]
        /\ codes' = Append(codes, NewCode(u)) /\ fresh' = fresh \cup {Len(codes) + 1}
        /\ UNCHANGED <<users, profiles, employees, approvals>>
    BY <1>1 DEF IssueCode, Finish
  <1> QED BY <1>2, AppendedCode, IdleIsFine, WritesCodes

\* A request ends, having written about its target.
LEMMA WritesAndEnds ==
  ASSUME Inv, NEW r \in Requests, NEW t \in People, req[r].target = t,
         req[r].pc # "idle", Finish(r), TablesTyped, profiles \subseteq profiles',
         \A u \in People \ {t} :
            /\ users'[u] = users[u]
            /\ employees'[u] = employees[u] /\ approvals'[u] = approvals[u],
         OfPerson(t)', Approved(t) => Approved(t)',
         users'[t] # users[t] =>
            /\ users'[t] # "NONE"
            /\ \A s \in Requests \ {r} : req[s].target = t =>
                 req[s].pc \notin {"locked", "storing"}
  PROVE  Inv'
  BY Writes, IdleIsFine, IdleIsFineNext DEF Finish

\* A person whose row is there is nobody's to insert.
LEMMA NotStoring ==
  ASSUME Inv, NEW s \in Requests, NEW t, req[s].target = t, users[t] # "NONE"
  PROVE  req[s].pc # "storing"
  BY DEF Inv, OfRequest

LEMMA InvCommitRegistration ==
  ASSUME Inv, NEW r \in Requests, CommitRegistration(r) PROVE Inv'
  <1>1. PICK t \in People : t = req[r].target
    BY UnderWay DEF CommitRegistration
  <1>2. /\ req[r].pc = "storing" /\ Finish(r)
        /\ users' = [users EXCEPT ![t] = "PENDING_EMAIL_VERIFICATION"]
        /\ profiles' = profiles \cup {t} /\ employees' = employees
        /\ approvals' = approvals /\ codes' = Append(codes, NewCode(t))
        /\ fresh' = fresh \cup {Len(codes) + 1}
    BY <1>1 DEF CommitRegistration
  <1>3. OfRequest(req[r]) /\ OfPerson(t) /\ TypeOK /\ Exclusive
    BY DEF Inv
  <1>4. users[t] = "NONE" /\ t \notin Admins
    BY <1>1, <1>2, <1>3 DEF OfRequest, OfPerson
  <1>5. TablesTyped
    BY <1>2, <1>3, AppendedCode DEF TablesTyped, TypeOK, Statuses
  <1>6. /\ users'[t] = "PENDING_EMAIL_VERIFICATION" /\ t \in profiles'
        /\ \A u \in People \ {t} : users'[u] = users[u]
    BY <1>2, <1>3 DEF TypeOK
  <1>7. OfPerson(t)'
    BY <1>2, <1>3, <1>4, <1>6 DEF OfPerson
  <1>8. Approved(t) => Approved(t)'
    BY <1>2 DEF Approved
  <1>9. \A s \in Requests \ {r} : req[s].target = t =>
          req[s].pc \notin {"locked", "storing"}
    <2> SUFFICES ASSUME NEW s \in Requests \ {r}, req[s].target = t
                 PROVE  req[s].pc # "locked" /\ req[s].pc # "storing"
      OBVIOUS
    <2>1. req[s].pc # "storing"
      BY <1>1, <1>2, <1>3 DEF Exclusive
    <2>2. req[s].pc # "locked"
      BY <1>4 DEF Inv, OfRequest
    <2> QED BY <2>1, <2>2
  <1> QED BY <1>1, <1>2, <1>5, <1>6, <1>7, <1>8, <1>9, WritesAndEnds

LEMMA InvCommitVerification ==
  ASSUME Inv, NEW r \in Requests, CommitVerification(r) PROVE Inv'
  <1>1. PICK t \in People : t = req[r].target
    BY UnderWay DEF CommitVerification
  <1>2. /\ req[r].pc = "right" /\ Finish(r) /\ MayLock(r, t, "NO KEY UPDATE")
        /\ users' = [users EXCEPT ![t] = "PENDING_ADMIN_APPROVAL"]
        /\ codes' = [codes EXCEPT ![req[r].code].consumed = TRUE]
        /\ profiles' = profiles /\ employees' = employees
        /\ approvals' = approvals /\ fresh' = fresh
    BY <1>1 DEF CommitVerification
  <1>3. OfRequest(req[r]) /\ OfPerson(t) /\ TypeOK
    BY DEF Inv
  <1>4. users[t] # "NONE" /\ t \notin Admins
    BY <1>1, <1>2, <1>3 DEF OfRequest, OfPerson, Places
  <1>5. codes' \in Seq(Code)
    <2> DEFINE k == req[r].code
               d == [codes[k] EXCEPT !.consumed = TRUE]
    <2>1. codes' = [codes EXCEPT ![k] = d]
      BY <1>2
    <2>2. \A old \in Code : [old EXCEPT !.consumed = TRUE] \in Code
      BY DEF Code
    <2>3. k \in DOMAIN codes => d \in Code
      BY <1>3, <2>2, CodesTyped
    <2> HIDE DEF d, k
    <2> QED BY <1>3, <2>1, <2>3, ChangedCodes
  <1>6. TablesTyped
    BY <1>2, <1>3, <1>5 DEF TablesTyped, TypeOK, Statuses
  <1>7. /\ users'[t] = "PENDING_ADMIN_APPROVAL"
        /\ \A u \in People \ {t} : users'[u] = users[u]
    BY <1>2, <1>3 DEF TypeOK
  <1>8. OfPerson(t)'
    BY <1>2, <1>3, <1>4, <1>7 DEF OfPerson
  <1>9. Approved(t) => Approved(t)'
    BY <1>2 DEF Approved
  <1>10. \A s \in Requests \ {r} : req[s].target = t =>
           req[s].pc \notin {"locked", "storing"}
    <2> SUFFICES ASSUME NEW s \in Requests \ {r}, req[s].target = t
                 PROVE  req[s].pc # "locked" /\ req[s].pc # "storing"
      OBVIOUS
    <2>1. req[s].pc # "storing"
      BY <1>4, NotStoring
    <2>2. req[s].pc # "locked"
      BY <1>2 DEF MayLock, Modes, WaitsFor
    <2> QED BY <2>1, <2>2
  <1> QED BY <1>1, <1>2, <1>6, <1>7, <1>8, <1>9, <1>10, WritesAndEnds

LEMMA InvCommitDecision ==
  ASSUME Inv, NEW r \in Requests, CommitDecision(r) PROVE Inv'
  <1>1. PICK t \in People : t = req[r].target
    BY UnderWay DEF CommitDecision
  <1>2. PICK op \in Decisions : op = req[r].op /\ users[t] = From[op] /\ OfRequest(req[r])
    <2>1. req[r].pc = "locked" /\ OfRequest(req[r])
      BY UnderWay DEF CommitDecision
    <2>2. Places(req[r]) /\ users[req[r].target] = req[r].mem
      BY <2>1 DEF OfRequest
    <2> QED BY <1>1, <2>1, <2>2 DEF Places
  <1>3. /\ req[r].pc = "locked" /\ Finish(r)
        /\ users' = [users EXCEPT ![t] = To[op]]
        /\ codes' = codes /\ fresh' = fresh /\ profiles' = profiles
        /\ op = "approve" =>
             /\ employees[t] = 0 /\ employees' = [employees EXCEPT ![t] = 1]
             /\ approvals' = [approvals EXCEPT ![t] = @ + 1]
        /\ op # "approve" => employees' = employees /\ approvals' = approvals
    BY <1>1, <1>2 DEF CommitDecision
  <1>4. OfPerson(t) /\ TypeOK /\ Exclusive
    BY DEF Inv
  <1>5. users[t] # "NONE" /\ To[op] \in Statuses \ {"NONE"}
    BY <1>2, Consts
  <1>6. TablesTyped
    <2>1. users' \in [People -> Statuses]
      BY <1>3, <1>4, <1>5 DEF TypeOK
    <2>2. employees' \in [People -> {0, 1}] /\ approvals' \in [People -> Nat]
      <3>1. employees \in [People -> {0, 1}] /\ approvals \in [People -> Nat]
        BY <1>4 DEF TypeOK
      <3>2. approvals[t] + 1 \in Nat
        BY <3>1
      <3>3. [approvals EXCEPT ![t] = @ + 1] \in [People -> Nat]
        BY <3>1, <3>2
      <3>4. [employees EXCEPT ![t] = 1] \in [People -> {0, 1}]
        BY <3>1
      <3> QED BY <1>3, <3>1, <3>3, <3>4
    <2> QED BY <1>3, <1>4, <2>1, <2>2 DEF TablesTyped, TypeOK
  <1>7. /\ users'[t] = To[op]
        /\ \A u \in People \ {t} :
             /\ users'[u] = users[u]
             /\ employees'[u] = employees[u] /\ approvals'[u] = approvals[u]
        /\ op = "approve" => employees'[t] = 1 /\ approvals'[t] = approvals[t] + 1
    BY <1>3, <1>4 DEF TypeOK
  <1>8. OfPerson(t)'
    <2>1. CASE op = "approve"
      <3>1. t \notin Admins
        BY <1>1, <1>2, <1>3, <2>1 DEF OfRequest
      <3>2. t \in profiles' /\ approvals[t] = 0
        BY <1>3, <1>4, <1>5, <2>1, <3>1 DEF OfPerson
      <3> QED BY <1>7, <2>1, <3>1, <3>2 DEF OfPerson, Approved
    <2>2. CASE op = "reject"
      <3>1. t \notin Admins
        BY <1>1, <1>2, <1>3, <2>2 DEF OfRequest
      <3> QED BY <1>3, <1>4, <1>5, <1>7, <2>2, <3>1, Consts DEF OfPerson
    <2>3. CASE op \in {"block", "unblock"}
      <3>1. users[t] \in {"ACTIVE", "BLOCKED"} /\ users'[t] \in {"ACTIVE", "BLOCKED"}
        BY <1>2, <1>7, <2>3, Consts
      <3> QED BY <1>3, <1>4, <2>3, <3>1 DEF OfPerson, Approved
    <2> QED BY <2>1, <2>2, <2>3 DEF Decisions
  <1>9. Approved(t) => Approved(t)'
    BY <1>3 DEF Approved
  <1>10. \A s \in Requests \ {r} : req[s].target = t =>
           req[s].pc \notin {"locked", "storing"}
    BY <1>1, <1>3, <1>4, <1>5, NotStoring DEF Exclusive
  <1> QED BY <1>1, <1>3, <1>5, <1>6, <1>7, <1>8, <1>9, <1>10, WritesAndEnds

LEMMA InvRoleCommit ==
  ASSUME Inv, NEW r \in Requests, RoleCommit(r) PROVE Inv'
  <1>1. PICK t \in People : t = req[r].target
    BY UnderWay DEF RoleCommit
  <1>2. /\ OfRequest(req[r]) /\ OfPerson(t) /\ TypeOK /\ req[r].mem \in Statuses
        /\ req[r].pc = "compared" /\ Finish(r)
        /\ codes' = codes /\ fresh' = fresh /\ profiles' = profiles
        /\ employees' = employees /\ approvals' = approvals
    <2>1. OfRequest(req[r]) /\ req[r] \in Request /\ TypeOK /\ OfPerson(t)
      BY UnderWay DEF Inv
    <2>2. req[r].mem \in Statuses
      BY <2>1 DEF Request
    <2> QED BY <2>1, <2>2 DEF RoleCommit
  <1>3. CASE users' = users
    BY <1>2, <1>3, Ends DEF tables
  <1>4. CASE /\ MayLock(r, t, "NO KEY UPDATE")
             /\ users' = [users EXCEPT ![t] = req[r].mem]
    <2>1. /\ users[t] # "NONE" /\ req[r].mem # "NONE"
          /\ req[r].mem \in {"ACTIVE", "BLOCKED"} => Approved(t)
          /\ t \in Admins => req[r].mem \in {"ACTIVE", "BLOCKED"}
      BY <1>1, <1>2 DEF OfRequest
    <2>2. TablesTyped
      BY <1>2, <1>4 DEF TablesTyped, TypeOK
    <2>3. users'[t] = req[r].mem /\ \A u \in People \ {t} : users'[u] = users[u]
      BY <1>2, <1>4 DEF TypeOK
    <2>4. Approved(t) => Approved(t)'
      BY <1>2 DEF Approved
    <2>5. OfPerson(t)'
      BY <1>2, <2>1, <2>3, <2>4 DEF OfPerson
    <2>6. \A s \in Requests \ {r} : req[s].target = t =>
            req[s].pc \notin {"locked", "storing"}
      <3> SUFFICES ASSUME NEW s \in Requests \ {r}, req[s].target = t
                   PROVE  req[s].pc # "locked" /\ req[s].pc # "storing"
        OBVIOUS
      <3>1. req[s].pc # "storing"
        BY <2>1, NotStoring
      <3>2. req[s].pc # "locked"
        BY <1>4 DEF MayLock, Modes, WaitsFor
      <3> QED BY <3>1, <3>2
    <2> QED BY <1>1, <1>2, <2>1, <2>2, <2>3, <2>4, <2>5, <2>6, WritesAndEnds
  <1> QED BY <1>1, <1>3, <1>4 DEF RoleCommit

-----------------------------------------------------------------------------
LEMMA InvInit == Init => Inv
  <1> SUFFICES ASSUME Init PROVE Inv
    OBVIOUS
  <1>1. /\ users = [u \in People |-> IF u \in Admins THEN "ACTIVE" ELSE "NONE"]
        /\ codes = <<>> /\ fresh = {} /\ profiles = {}
        /\ employees = [u \in People |-> 0] /\ approvals = [u \in People |-> 0]
        /\ req = [r \in Requests |-> IdleRequest]
    BY DEF Init
  <1>2. TypeOK
    BY <1>1, IdleIsFine DEF TypeOK, Statuses
  <1>3. \A u \in People : OfPerson(u)
    BY <1>1 DEF OfPerson, Approved
  <1>4. \A r \in Requests : OfRequest(req[r])
    BY <1>1, IdleIsFine
  <1>5. Exclusive
    BY <1>1, IdleIsFine DEF Exclusive
  <1> QED BY <1>2, <1>3, <1>4, <1>5 DEF Inv

LEMMA InvAdvance ==
  ASSUME Inv, NEW r \in Requests, Advance(r) PROVE Inv'
  <1>1. CASE InsertUser(r)           BY <1>1, InvInsertUser
  <1>2. CASE CommitRegistration(r)   BY <1>2, InvCommitRegistration
  <1>3. CASE \E c \in DOMAIN codes, right \in BOOLEAN : CompareCode(r, c, right)
    BY <1>3, InvCompareCode
  <1>4. CASE NoCode(r)               BY <1>4, Ends DEF NoCode
  <1>5. CASE CountAttempt(r)         BY <1>5, InvCount
  <1>6. CASE CommitVerification(r)   BY <1>6, InvCommitVerification
  <1>7. CASE ResendCheck(r)          BY <1>7, InvResendCheck
  <1>8. CASE ExpireCodes(r)          BY <1>8, InvExpireCodes
  <1>9. CASE IssueCode(r)            BY <1>9, InvIssueCode
  <1>10. CASE CommitDecision(r)      BY <1>10, InvCommitDecision
  <1>11. CASE NotAgain(r)            BY <1>11, Ends DEF NotAgain
  <1>12. CASE RoleCompare(r)         BY <1>12, InvRoleCompare
  <1>13. CASE RoleCommit(r)          BY <1>13, InvRoleCommit
  <1> QED
    BY <1>1, <1>2, <1>3, <1>4, <1>5, <1>6, <1>7, <1>8, <1>9, <1>10, <1>11, <1>12,
       <1>13 DEF Advance

LEMMA InvNext == Inv /\ [Next]_vars => Inv'
  <1> SUFFICES ASSUME Inv, [Next]_vars PROVE Inv'
    OBVIOUS
  <1>1. CASE UNCHANGED vars
    BY <1>1 DEF vars, tables, Inv, TypeOK, OfPerson, OfRequest, Exclusive, Approved
  <1>2. CASE CooldownPasses
    BY <1>2, InvCooldownPasses
  <1>3. CASE \E r \in Requests : Advance(r)
    BY <1>3, InvAdvance
  <1>4. CASE \E r \in Requests : Rollback(r)
    BY <1>4, Ends DEF Rollback
  <1>7. CASE \E r \in Requests : CountFails(r)
    BY <1>7, InvCount
  <1>5. CASE \E r \in Requests, u \in People :
               \/ RegisterRead(r, u)
               \/ VerifyRead(r, u)
               \/ ResendRead(r, u)
               \/ RoleRead(r, u)
    BY <1>5, InvReads
  <1>6. CASE \E r \in Requests, u \in People, op \in Decisions, a \in Admins :
               LockTarget(r, op, u, a)
    BY <1>6, InvLockTarget
  <1> QED BY <1>1, <1>2, <1>3, <1>4, <1>5, <1>6, <1>7 DEF Next

THEOREM Invariance == Spec => []Inv
  BY InvInit, InvNext, PTL DEF Spec

\* Every variable keeps its type.
THEOREM TypeCorrect == Spec => []TypeOK
  <1>1. Inv => TypeOK
    BY DEF Inv
  <1> QED BY <1>1, Invariance, PTL

\* approve() is the only way to an account that may log in, whatever verifyEmail() and
\* changeRole() write back: whoever is ACTIVE or BLOCKED has been approved once, is an
\* employee and has a profile.
THEOREM OnlyApprovedAreActive == Spec => []ActiveIsApproved
  <1>1. Inv => ActiveIsApproved
    BY DEF Inv, OfPerson, Approved, ActiveIsApproved
  <1> QED BY <1>1, Invariance, PTL

\* approve() succeeds once for a person, and makes one employee.
THEOREM NobodyIsApprovedTwice == Spec => []ApprovedOnce
  <1>1. Inv => ApprovedOnce
    BY DEF Inv, OfPerson, ApprovedOnce
  <1> QED BY <1>1, Invariance, PTL

\* Decisions that wait for each other both block or unblock.
THEOREM OnlyBlocksDeadlock == Spec => []DeadlockNeedsABlock
  <1>1. ASSUME Inv PROVE DeadlockNeedsABlock
    <2>1. ASSUME NEW r \in Requests, NEW s \in Requests, Awaits(r, s), Awaits(s, r)
          PROVE  req[s].op \in {"block", "unblock"}
      <3>1. req[r].pc = "locked" /\ req[s].pc = "locked" /\ req[s].target = req[r].actor
        BY <2>1 DEF Awaits, Modes
      <3>2. req[r].actor \in Admins
        BY <3>1, <1>1 DEF Inv, OfRequest
      <3> QED BY <3>1, <3>2, <1>1 DEF Inv, OfRequest, Places, Decisions
    <2> QED BY <2>1 DEF DeadlockNeedsABlock
  <1> QED BY <1>1, Invariance, PTL

-----------------------------------------------------------------------------
(* A settled rejection.                                                     *)

MayWriteBack(q) == q.pc \in {"verify", "right", "role", "compared"}

\* It stays, if the row does and the request that takes a step has read it.
LEMMA StaysRejected ==
  ASSUME Inv, NEW u \in People, Rejected(u), NEW r \in Requests, NEW q,
         req' = [req EXCEPT ![r] = q], users'[u] = "REJECTED",
         q.target = u /\ MayWriteBack(q) => q.mem = "REJECTED" /\ q.op = "role"
  PROVE  Rejected(u)'
  <1>1. req \in [Requests -> Request]
    BY DEF Inv, TypeOK
  <1>2. req'[r] = q /\ \A s \in Requests \ {r} : req'[s] = req[s]
    BY <1>1
  <1>3. ASSUME NEW s \in Requests, req'[s].target = u, MayWriteBack(req'[s])
        PROVE  req'[s].mem = "REJECTED" /\ req'[s].op = "role"
    <2>1. CASE s = r
      BY <1>2, <1>3, <2>1
    <2>2. CASE s # r
      BY <1>2, <1>3, <2>2 DEF Rejected, MayWriteBack
    <2> QED BY <2>1, <2>2
  <1> QED BY <1>3 DEF Rejected, MayWriteBack

LEMMA FinishStaysRejected ==
  ASSUME Inv, NEW u \in People, Rejected(u), NEW r \in Requests, Finish(r),
         users'[u] = "REJECTED"
  PROVE  Rejected(u)'
  <1>1. ~MayWriteBack(IdleRequest)
    BY DEF MayWriteBack, IdleRequest
  <1> QED BY <1>1, StaysRejected DEF Finish

LEMMA StartStaysRejected ==
  ASSUME Inv, NEW u \in People, Rejected(u), NEW r \in Requests, NEW t \in People,
         NEW op, NEW pc, Start(r, op, pc, t), UNCHANGED tables,
         t = u => op = "role" \/ pc \in {"hashing", "resend"}
  PROVE  Rejected(u)'
  <1> DEFINE q == [IdleRequest EXCEPT !.op = op, !.pc = pc, !.target = t,
                                      !.mem = users[t]]
  <1>1. q.op = op /\ q.pc = pc /\ q.target = t /\ q.mem = users[t]
    BY DEF IdleRequest
  <1>2. req' = [req EXCEPT ![r] = q] /\ users' = users /\ users[u] = "REJECTED"
    BY DEF Start, tables, Rejected
  <1> HIDE DEF q
  <1> QED BY <1>1, <1>2, StaysRejected DEF MayWriteBack

LEMMA RejectedNext == Inv /\ [Next]_vars => \A u \in People : Rejected(u) => Rejected(u)'
  <1> SUFFICES ASSUME Inv, [Next]_vars, NEW u \in People, Rejected(u)
               PROVE  Rejected(u)'
    OBVIOUS
  <1>0. /\ users[u] = "REJECTED" /\ users \in [People -> Statuses]
        /\ req \in [Requests -> Request]
    BY DEF Rejected, Inv, TypeOK
  <1>1. CASE UNCHANGED vars
    BY <1>1 DEF vars, tables, Rejected
  <1>2. CASE CooldownPasses
    BY <1>2 DEF CooldownPasses, Rejected
  <1>3. ASSUME NEW r \in Requests, Rollback(r) \/ CountFails(r) PROVE Rejected(u)'
    BY <1>0, <1>3, FinishStaysRejected DEF Rollback, CountFails, tables
  <1>4. ASSUME NEW r \in Requests, NEW t \in People,
               \/ RegisterRead(r, t)
               \/ VerifyRead(r, t)
               \/ ResendRead(r, t)
               \/ RoleRead(r, t)
        PROVE  Rejected(u)'
    <2>1. CASE RegisterRead(r, t)
      BY <1>0, <2>1, StartStaysRejected DEF RegisterRead
    <2>2. CASE VerifyRead(r, t)
      BY <1>0, <2>2, StartStaysRejected DEF VerifyRead
    <2>3. CASE ResendRead(r, t)
      BY <1>0, <2>3, StartStaysRejected DEF ResendRead
    <2>4. CASE RoleRead(r, t)
      BY <1>0, <2>4, StartStaysRejected DEF RoleRead
    <2> QED BY <1>4, <2>1, <2>2, <2>3, <2>4
  <1>5. ASSUME NEW r \in Requests, NEW t \in People, NEW op \in Decisions,
               NEW a \in Admins, LockTarget(r, op, t, a)
        PROVE  Rejected(u)'
    <2> DEFINE q == [IdleRequest EXCEPT !.op = op, !.pc = "locked", !.target = t,
                                        !.actor = a, !.mem = users[t]]
    <2>1. q.pc = "locked"
      BY DEF IdleRequest
    <2>2. req' = [req EXCEPT ![r] = q] /\ users' = users
      BY <1>5 DEF LockTarget, tables
    <2> HIDE DEF q
    <2>3. ~MayWriteBack(q)
      BY <2>1 DEF MayWriteBack
    <2> QED BY <1>0, <2>2, <2>3, StaysRejected
  <1>6. ASSUME NEW r \in Requests, Advance(r) PROVE Rejected(u)'
    <2>1. PICK p \in Request : p = req[r]
      BY UnderWay
    <2>2. /\ OfRequest(p)
          /\ p.target = u /\ MayWriteBack(p) => p.mem = "REJECTED" /\ p.op = "role"
      BY <2>1, UnderWay DEF Rejected, MayWriteBack
    <2>3. p.target = u => p.pc \notin {"verify", "right"}
      BY <2>2 DEF OfRequest, Places, MayWriteBack
    <2>4. CASE \/ InsertUser(r) \/ ResendCheck(r) \/ ExpireCodes(r)
      <3>1. users' = users
        BY <2>4 DEF InsertUser, ResendCheck, ExpireCodes, tables
      <3>2. \/ Finish(r)
            \/ \E pc \in {"storing", "expire", "issue"} :
                 req' = [req EXCEPT ![r] = [p EXCEPT !.pc = pc]]
        BY <2>1, <2>4 DEF InsertUser, ResendCheck, ExpireCodes, Step
      <3>3. \A pc \in {"storing", "expire", "issue"} : [p EXCEPT !.pc = pc].pc = pc
        BY DEF Request
      <3>4. CASE Finish(r)
        BY <1>0, <3>1, <3>4, FinishStaysRejected
      <3>5. ASSUME NEW pc \in {"storing", "expire", "issue"},
                   req' = [req EXCEPT ![r] = [p EXCEPT !.pc = pc]]
            PROVE  Rejected(u)'
        <4> DEFINE q == [p EXCEPT !.pc = pc]
        <4>1. q.pc = pc /\ req' = [req EXCEPT ![r] = q]
          BY <3>3, <3>5
        <4> HIDE DEF q
        <4>2. ~MayWriteBack(q)
          BY <4>1 DEF MayWriteBack
        <4> QED BY <1>0, <3>1, <4>1, <4>2, StaysRejected
      <3> QED BY <3>2, <3>4, <3>5
    <2>5. CASE NoCode(r) \/ CountAttempt(r) \/ IssueCode(r) \/ NotAgain(r)
      BY <1>0, <2>5, FinishStaysRejected
         DEF NoCode, CountAttempt, IssueCode, NotAgain, tables
    <2>6. CASE \E c \in DOMAIN codes, right \in BOOLEAN : CompareCode(r, c, right)
      <3>1. PICK c \in DOMAIN codes, right \in BOOLEAN : CompareCode(r, c, right)
        BY <2>6
      <3> DEFINE q == [p EXCEPT !.pc = IF right THEN "right" ELSE "wrong",
                                !.code = c, !.attempts = codes[c].attempts]
      <3>2. req' = [req EXCEPT ![r] = q] /\ users' = users /\ p.pc = "verify"
        BY <2>1, <3>1 DEF CompareCode, tables
      <3>3. q.target = p.target
        BY DEF Request
      <3> HIDE DEF q
      <3> QED BY <1>0, <2>3, <3>2, <3>3, StaysRejected
    <2>7. CASE RoleCompare(r)
      <3> DEFINE q == [p EXCEPT !.pc = "compared", !.found = users[p.target]]
      <3>1. req' = [req EXCEPT ![r] = q] /\ users' = users /\ p.pc = "role"
        BY <2>1, <2>7 DEF RoleCompare, tables
      <3>2. q.target = p.target /\ q.mem = p.mem /\ q.op = p.op
        BY DEF Request
      <3> HIDE DEF q
      <3> QED BY <1>0, <2>2, <3>1, <3>2, StaysRejected DEF MayWriteBack
    <2>8. CASE CommitRegistration(r)
      <3>1. p.target # u
        BY <1>0, <2>1, <2>2, <2>8 DEF CommitRegistration, OfRequest
      <3> QED BY <1>0, <2>1, <2>8, <3>1, FinishStaysRejected DEF CommitRegistration
    <2>9. CASE CommitVerification(r)
      <3>1. p.target # u
        BY <2>1, <2>3, <2>9 DEF CommitVerification
      <3> QED BY <1>0, <2>1, <2>9, <3>1, FinishStaysRejected DEF CommitVerification
    <2>10. CASE CommitDecision(r)
      <3>1. p.pc = "locked" /\ p.op \in Decisions /\ users[p.target] = From[p.op]
        BY <2>1, <2>2, <2>10 DEF CommitDecision, OfRequest, Places
      <3>2. p.target # u
        BY <1>0, <3>1, Consts DEF Decisions
      <3> QED BY <1>0, <2>1, <2>10, <3>2, FinishStaysRejected DEF CommitDecision
    <2>11. CASE RoleCommit(r)
      <3>1. p.target = u => p.mem = "REJECTED"
        BY <2>1, <2>2, <2>11 DEF RoleCommit, MayWriteBack
      <3>2. users'[u] = "REJECTED"
        BY <1>0, <2>1, <2>11, <3>1 DEF RoleCommit
      <3> QED BY <2>11, <3>2, FinishStaysRejected DEF RoleCommit
    <2> QED
      BY <1>6, <2>4, <2>5, <2>6, <2>7, <2>8, <2>9, <2>10, <2>11 DEF Advance
  <1> QED BY <1>1, <1>2, <1>3, <1>4, <1>5, <1>6 DEF Next

\* Once nothing is under way that had read the user before it, the rejection of a
\* registration is final.
THEOREM SettledRejectionStays == Spec => RejectionIsFinal
  BY Invariance, RejectedNext, PTL DEF Spec, RejectionIsFinal

-----------------------------------------------------------------------------
(* Guesses. The wrong answers whose increment has not failed are what the   *)
(* counter says, and the counter stays below the limit but for the requests *)
(* that compare at the same time.                                           *)

Wrong(c) == {r \in Requests : req[r].pc = "wrong" /\ req[r].code = c}

Counted ==
  \A c \in DOMAIN codes :
    /\ codes[c].guesses = codes[c].attempts + codes[c].uncounted
    /\ codes[c].attempts + Cardinality(Wrong(c))
         <= MaxAttempts - 1 + Cardinality(Requests)

\* Nobody has just compared a code.
NoneCompares == \A s \in Requests : req'[s].pc \in {"wrong", "right"} => req'[s] = req[s]

LEMMA Sizes ==
  /\ MaxAttempts \in Nat /\ MaxAttempts >= 1 /\ Cardinality(Requests) \in Nat
  /\ \A S, T \in SUBSET Requests :
       /\ IsFiniteSet(S) /\ Cardinality(S) \in Nat
       /\ Cardinality(S) <= Cardinality(Requests)
       /\ S \subseteq T => Cardinality(S) <= Cardinality(T)
  <1>1. IsFiniteSet(Requests) /\ MaxAttempts \in Nat /\ MaxAttempts >= 1
    BY PeopleAssumption, NumbersAssumption
  <1>2. ASSUME NEW S \in SUBSET Requests
        PROVE  IsFiniteSet(S) /\ Cardinality(S) \in Nat
               /\ Cardinality(S) <= Cardinality(Requests)
    BY <1>1, FS_Subset, FS_CardinalityType
  <1>3. ASSUME NEW S \in SUBSET Requests, NEW T \in SUBSET Requests, S \subseteq T
        PROVE  Cardinality(S) <= Cardinality(T)
    BY <1>2, <1>3, FS_Subset
  <1> QED BY <1>1, <1>2, <1>3, FS_CardinalityType

\* The counters of the codes stay, those of new ones are 0, and nobody else is wrong.
LEMMA CountedStays ==
  ASSUME TypeOK, TypeOK', Counted,
         \A c \in DOMAIN codes' :
           IF c \in DOMAIN codes
             THEN /\ codes'[c].attempts = codes[c].attempts
                  /\ codes'[c].guesses = codes[c].guesses
                  /\ codes'[c].uncounted = codes[c].uncounted
             ELSE codes'[c].attempts = 0 /\ codes'[c].guesses = 0 /\ codes'[c].uncounted = 0,
         NoneCompares
  PROVE  Counted'
  <1> SUFFICES ASSUME NEW c \in DOMAIN codes'
               PROVE  /\ codes'[c].guesses = codes'[c].attempts + codes'[c].uncounted
                      /\ codes'[c].attempts + Cardinality(Wrong(c)')
                           <= MaxAttempts - 1 + Cardinality(Requests)
    BY DEF Counted
  <1>1. /\ Wrong(c) \in SUBSET Requests /\ Wrong(c)' \in SUBSET Requests
        /\ Wrong(c)' \subseteq Wrong(c)
    BY DEF Wrong, NoneCompares
  <1>2. CASE c \in DOMAIN codes
    <2>1. codes[c].attempts \in Nat
      BY <1>2, CodesTyped
    <2> QED BY <1>1, <1>2, <2>1, Sizes DEF Counted
  <1>3. CASE c \notin DOMAIN codes
    BY <1>1, <1>3, Sizes
  <1> QED BY <1>2, <1>3

\* What a request's new record does to who compares.
LEMMA OthersStay ==
  ASSUME TypeOK, NEW r \in Requests, NEW q, req' = [req EXCEPT ![r] = q],
         q.pc \notin {"wrong", "right"}
  PROVE  NoneCompares
  BY DEF TypeOK, NoneCompares

LEMMA FinishOthersStay ==
  ASSUME TypeOK, NEW r \in Requests, Finish(r)
  PROVE  NoneCompares
  BY OthersStay, IdleIsFine DEF Finish

LEMMA StepOthersStay ==
  ASSUME TypeOK, NEW r \in Requests, NEW pc, Step(r, pc), pc \notin {"wrong", "right"}
  PROVE  NoneCompares
  <1>1. req[r] \in Request
    BY DEF TypeOK
  <1> DEFINE q == [req[r] EXCEPT !.pc = pc]
  <1>2. q.pc = pc
    BY <1>1 DEF Request
  <1>3. req' = [req EXCEPT ![r] = q]
    BY DEF Step
  <1> HIDE DEF q
  <1> QED BY <1>2, <1>3, OthersStay

LEMMA StartOthersStay ==
  ASSUME TypeOK, NEW r \in Requests, NEW op, NEW pc, NEW u, Start(r, op, pc, u),
         pc \notin {"wrong", "right"}
  PROVE  NoneCompares
  <1> DEFINE q == [IdleRequest EXCEPT !.op = op, !.pc = pc, !.target = u,
                                      !.mem = users[u]]
  <1>1. q.pc = pc
    BY DEF IdleRequest
  <1>2. req' = [req EXCEPT ![r] = q]
    BY DEF Start
  <1> HIDE DEF q
  <1> QED BY <1>1, <1>2, OthersStay

\* Only CompareCode compares.
LEMMA OnlyCompareCode ==
  ASSUME Inv, [Next]_vars,
         \A r \in Requests, c \in DOMAIN codes, right \in BOOLEAN : ~CompareCode(r, c, right)
  PROVE  NoneCompares
  <1>0. TypeOK
    BY DEF Inv, TypeOK
  <1>1. CASE UNCHANGED vars
    BY <1>1 DEF vars, NoneCompares
  <1>2. CASE CooldownPasses
    BY <1>2 DEF CooldownPasses, NoneCompares
  <1>3. ASSUME NEW r \in Requests, NEW u \in People,
               \/ RegisterRead(r, u)
               \/ VerifyRead(r, u)
               \/ ResendRead(r, u)
               \/ RoleRead(r, u)
        PROVE  NoneCompares
    BY <1>0, <1>3, StartOthersStay DEF RegisterRead, VerifyRead, ResendRead, RoleRead
  <1>4. ASSUME NEW r \in Requests, NEW t \in People, NEW op \in Decisions,
               NEW a \in Admins, LockTarget(r, op, t, a)
        PROVE  NoneCompares
    <2> DEFINE q == [IdleRequest EXCEPT !.op = op, !.pc = "locked", !.target = t,
                                        !.actor = a, !.mem = users[t]]
    <2>1. q.pc = "locked"
      BY DEF IdleRequest
    <2>2. req' = [req EXCEPT ![r] = q]
      BY <1>4 DEF LockTarget
    <2> HIDE DEF q
    <2> QED BY <1>0, <2>1, <2>2, OthersStay
  <1>5. ASSUME NEW r \in Requests, RoleCompare(r) PROVE NoneCompares
    <2>1. PICK p \in Request : p = req[r]
      BY <1>0 DEF TypeOK
    <2> DEFINE q == [p EXCEPT !.pc = "compared", !.found = users[p.target]]
    <2>2. q.pc = "compared"
      BY DEF Request
    <2>3. req' = [req EXCEPT ![r] = q]
      BY <1>5, <2>1 DEF RoleCompare
    <2> HIDE DEF q
    <2> QED BY <1>0, <2>2, <2>3, OthersStay
  <1>6. ASSUME NEW r \in Requests,
               \/ Finish(r)
               \/ \E pc \in {"storing", "expire", "issue"} : Step(r, pc)
        PROVE  NoneCompares
    BY <1>0, <1>6, FinishOthersStay, StepOthersStay
  <1>7. ASSUME NEW r \in Requests, Advance(r) \/ CountFails(r) \/ Rollback(r)
        PROVE  NoneCompares
    <2>1. \/ RoleCompare(r) \/ Finish(r)
          \/ \E pc \in {"storing", "expire", "issue"} : Step(r, pc)
      BY <1>7 DEF Advance, CountFails, Rollback, InsertUser, CommitRegistration, NoCode,
                  CountAttempt, CommitVerification, ResendCheck, ExpireCodes, IssueCode,
                  CommitDecision, NotAgain, RoleCommit
    <2> QED BY <1>5, <1>6, <2>1
  <1> QED BY <1>1, <1>2, <1>3, <1>4, <1>7 DEF Next

LEMMA CountedCompare ==
  ASSUME TypeOK, TypeOK', Counted, NEW r \in Requests, NEW d \in DOMAIN codes,
         NEW right \in BOOLEAN, CompareCode(r, d, right)
  PROVE  Counted'
  <1>1. PICK p \in Request : p = req[r]
    BY DEF TypeOK
  <1> DEFINE q == [p EXCEPT !.pc = IF right THEN "right" ELSE "wrong",
                            !.code = d, !.attempts = codes[d].attempts]
  <1>2. q.pc = (IF right THEN "right" ELSE "wrong") /\ q.code = d
    BY DEF Request
  <1>3. req' = [req EXCEPT ![r] = q] /\ codes' = codes /\ codes[d].attempts < MaxAttempts
    BY <1>1 DEF CompareCode, tables
  <1>4. /\ req'[r] = q /\ \A s \in Requests \ {r} : req'[s] = req[s]
    BY <1>3 DEF TypeOK
  <1> HIDE DEF q
  <1> SUFFICES ASSUME NEW c \in DOMAIN codes
               PROVE  /\ codes[c].guesses = codes[c].attempts + codes[c].uncounted
                      /\ codes[c].attempts + Cardinality(Wrong(c)')
                           <= MaxAttempts - 1 + Cardinality(Requests)
    BY <1>3 DEF Counted
  <1>5. codes[c].attempts \in Nat /\ Wrong(c)' \in SUBSET Requests
        /\ Wrong(c) \in SUBSET Requests
    BY CodesTyped DEF Wrong
  <1>6. CASE c = d
    BY <1>3, <1>5, <1>6, Sizes DEF Counted
  <1>7. CASE c # d
    <2>1. Wrong(c)' \subseteq Wrong(c)
      BY <1>2, <1>4, <1>7 DEF Wrong
    <2> QED BY <1>5, <2>1, Sizes DEF Counted
  <1> QED BY <1>6, <1>7

LEMMA CountedCount ==
  ASSUME TypeOK, TypeOK', Counted, NEW r \in Requests, CountAttempt(r) \/ CountFails(r)
  PROVE  Counted'
  <1>1. PICK d \in Nat : d = req[r].code
    BY DEF TypeOK, Request
  <1>2. /\ req[r].pc = "wrong" /\ req' = [req EXCEPT ![r] = IdleRequest]
        /\ \/ codes' = [codes EXCEPT ![d].attempts = @ + 1, ![d].guesses = @ + 1]
           \/ codes' = [codes EXCEPT ![d].guesses = @ + 1, ![d].uncounted = @ + 1]
    BY <1>1 DEF CountAttempt, CountFails, Finish
  <1>3. req'[r].pc = "idle" /\ \A s \in Requests \ {r} : req'[s] = req[s]
    BY <1>2, IdleIsFine DEF TypeOK
  <1>4. DOMAIN codes' = DOMAIN codes
    BY <1>2 DEF TypeOK
  <1> SUFFICES ASSUME NEW c \in DOMAIN codes
               PROVE  /\ codes'[c].guesses = codes'[c].attempts + codes'[c].uncounted
                      /\ codes'[c].attempts + Cardinality(Wrong(c)')
                           <= MaxAttempts - 1 + Cardinality(Requests)
    BY <1>4 DEF Counted
  <1>5. /\ codes[c] \in Code /\ codes[c].attempts \in Nat /\ codes[c].uncounted \in Nat
        /\ Wrong(c)' \in SUBSET Requests /\ Wrong(c) \in SUBSET Requests
    BY CodesTyped DEF Wrong
  <1>6. CASE c = d
    <2>1. /\ codes'[c].guesses = codes[c].guesses + 1
          /\ \/ /\ codes'[c].attempts = codes[c].attempts + 1
                /\ codes'[c].uncounted = codes[c].uncounted
             \/ /\ codes'[c].attempts = codes[c].attempts
                /\ codes'[c].uncounted = codes[c].uncounted + 1
      <3>1. PICK old \in Code : old = codes[c]
        BY <1>5
      <3>2. \/ codes'[c] = [old EXCEPT !.attempts = @ + 1, !.guesses = @ + 1]
            \/ codes'[c] = [old EXCEPT !.guesses = @ + 1, !.uncounted = @ + 1]
        BY <1>2, <1>6, <3>1
      <3>3. /\ [old EXCEPT !.attempts = @ + 1, !.guesses = @ + 1].attempts = old.attempts + 1
            /\ [old EXCEPT !.attempts = @ + 1, !.guesses = @ + 1].guesses = old.guesses + 1
            /\ [old EXCEPT !.attempts = @ + 1, !.guesses = @ + 1].uncounted = old.uncounted
            /\ [old EXCEPT !.guesses = @ + 1, !.uncounted = @ + 1].attempts = old.attempts
            /\ [old EXCEPT !.guesses = @ + 1, !.uncounted = @ + 1].guesses = old.guesses + 1
            /\ [old EXCEPT !.guesses = @ + 1, !.uncounted = @ + 1].uncounted
                 = old.uncounted + 1
        BY DEF Code
      <3> QED BY <3>1, <3>2, <3>3, Zenon
    <2>2. r \in Wrong(c) /\ Wrong(c)' = Wrong(c) \ {r}
      BY <1>1, <1>2, <1>3, <1>6 DEF Wrong
    <2>3. Cardinality(Wrong(c)') = Cardinality(Wrong(c)) - 1
      BY <1>5, <2>2, Sizes, FS_RemoveElement
    <2> QED BY <1>5, <2>1, <2>3, Sizes DEF Counted
  <1>7. CASE c # d
    <2>1. codes'[c] = codes[c]
      BY <1>2, <1>7 DEF TypeOK
    <2>2. Wrong(c)' \subseteq Wrong(c)
      BY <1>3 DEF Wrong
    <2> QED BY <1>5, <2>1, <2>2, Sizes DEF Counted
  <1> QED BY <1>6, <1>7

LEMMA CountedAppend ==
  ASSUME TypeOK, TypeOK', Counted, NEW u \in People,
         codes' = Append(codes, NewCode(u)), NoneCompares
  PROVE  Counted'
  <1>1. /\ NewCode(u).attempts = 0 /\ NewCode(u).guesses = 0 /\ NewCode(u).uncounted = 0
        /\ NewCode(u) \in Code /\ codes \in Seq(Code)
    BY DEF NewCode, Code, TypeOK
  <1>2. /\ Len(codes) \in Nat /\ DOMAIN codes = 1..Len(codes)
        /\ DOMAIN codes' = 1..(Len(codes) + 1)
        /\ codes'[Len(codes) + 1] = NewCode(u)
        /\ \A c \in 1..Len(codes) : codes'[c] = codes[c]
    BY <1>1
  <1> QED BY <1>1, <1>2, CountedStays

LEMMA CountedNext ==
  ASSUME Inv, Inv', Counted, [Next]_vars PROVE Counted'
  <1>0. TypeOK /\ TypeOK'
    BY DEF Inv, TypeOK
  <1>1. CASE \E r \in Requests, c \in DOMAIN codes, right \in BOOLEAN :
               CompareCode(r, c, right)
    BY <1>0, <1>1, CountedCompare
  <1>2. CASE \E r \in Requests : CountAttempt(r) \/ CountFails(r)
    BY <1>0, <1>2, CountedCount
  <1> SUFFICES ASSUME NoneCompares,
                      \A r \in Requests :
                        /\ ~CountAttempt(r) /\ ~CountFails(r)
                        /\ \A c \in DOMAIN codes, right \in BOOLEAN : ~CompareCode(r, c, right)
               PROVE  Counted'
    BY <1>1, <1>2, OnlyCompareCode
  <1>3. CASE codes' = codes
    BY <1>0, <1>3, CountedStays
  <1>4. ASSUME NEW r \in Requests, ExpireCodes(r) PROVE Counted'
    <2>1. \A c \in DOMAIN codes : codes[c] \in Code
      BY <1>0 DEF TypeOK
    <2>2. codes' = [c \in DOMAIN codes |->
             [codes[c] EXCEPT !.consumed = @ \/ codes[c].owner = req[r].target]]
      BY <1>4 DEF ExpireCodes
    <2>3. \A c \in DOMAIN codes' :
            /\ c \in DOMAIN codes
            /\ codes'[c].attempts = codes[c].attempts
            /\ codes'[c].guesses = codes[c].guesses
            /\ codes'[c].uncounted = codes[c].uncounted
      BY <2>1, <2>2 DEF Code
    <2> QED BY <1>0, <2>3, CountedStays
  <1>5. ASSUME NEW r \in Requests, IssueCode(r) \/ CommitRegistration(r)
        PROVE  Counted'
    <2>1. PICK u \in People : u = req[r].target
      BY <1>5, UnderWay DEF IssueCode, CommitRegistration
    <2>2. codes' = Append(codes, NewCode(u))
      BY <1>5, <2>1 DEF IssueCode, CommitRegistration
    <2> QED BY <1>0, <2>2, CountedAppend
  <1>6. ASSUME NEW r \in Requests, CommitVerification(r) PROVE Counted'
    <2>1. codes' = [codes EXCEPT ![req[r].code].consumed = TRUE]
      BY <1>6 DEF CommitVerification
    <2>2. \A d \in Code :
            /\ [d EXCEPT !.consumed = TRUE].attempts = d.attempts
            /\ [d EXCEPT !.consumed = TRUE].guesses = d.guesses
            /\ [d EXCEPT !.consumed = TRUE].uncounted = d.uncounted
      BY DEF Code
    <2>3. \A c \in DOMAIN codes' :
            /\ c \in DOMAIN codes
            /\ codes'[c].attempts = codes[c].attempts
            /\ codes'[c].guesses = codes[c].guesses
            /\ codes'[c].uncounted = codes[c].uncounted
      BY <1>0, <2>1, <2>2, CodesTyped
    <2> QED BY <1>0, <2>3, CountedStays
  <1>7. \/ codes' = codes
        \/ \E r \in Requests :
             \/ ExpireCodes(r) \/ IssueCode(r)
             \/ CommitRegistration(r) \/ CommitVerification(r)
    BY DEF Next, Advance, vars, tables, CooldownPasses, RegisterRead, VerifyRead,
           ResendRead, RoleRead, LockTarget, Rollback, InsertUser, NoCode, ResendCheck,
           CommitDecision, NotAgain, RoleCompare, RoleCommit
  <1> QED BY <1>3, <1>4, <1>5, <1>6, <1>7

LEMMA CountedAlways == Spec => []Counted
  <1>1. Init => Counted
    BY DEF Init, Counted
  <1>2. Counted /\ Inv /\ Inv' /\ [Next]_vars => Counted'
    BY CountedNext
  <1> QED BY <1>1, <1>2, Invariance, PTL DEF Spec

\* Once as many wrong answers to a code as are allowed have ended, without those whose
\* increment failed, nobody gets to compare it any more: no increment is ever lost.
THEOREM SpentCodesAreClosed == Spec => SpentCodesTakeNoAnswer
  <1> DEFINE closed == \A c \in DOMAIN codes, r \in Requests :
               /\ Spent(c)
               /\ req'[r].code = c /\ req'[r].pc \in {"wrong", "right"}
               => req'[r] = req[r]
  <1>1. ASSUME Inv, Counted, [Next]_vars PROVE closed
    <2>1. CASE NoneCompares
      BY <2>1 DEF NoneCompares
    <2>2. ASSUME NEW r \in Requests, NEW d \in DOMAIN codes, NEW right \in BOOLEAN,
                 CompareCode(r, d, right)
          PROVE  closed
      <3>1. PICK p \in Request : p = req[r]
        BY <1>1 DEF Inv, TypeOK
      <3> DEFINE q == [p EXCEPT !.pc = IF right THEN "right" ELSE "wrong",
                                !.code = d, !.attempts = codes[d].attempts]
      <3>2. q.code = d
        BY DEF Request
      <3>3. req' = [req EXCEPT ![r] = q] /\ codes[d].attempts < MaxAttempts
        BY <2>2, <3>1 DEF CompareCode
      <3> HIDE DEF q
      <3>4. req'[r].code = d /\ \A s \in Requests \ {r} : req'[s] = req[s]
        BY <1>1, <3>2, <3>3 DEF Inv, TypeOK
      <3>5. /\ codes[d].attempts \in Nat /\ codes[d].uncounted \in Nat
            /\ codes[d].guesses = codes[d].attempts + codes[d].uncounted
            /\ MaxAttempts \in Nat
        BY <1>1, CodesTyped, NumbersAssumption DEF Inv, Counted
      <3>6. ~Spent(d)
        BY <3>3, <3>5 DEF Spent
      <3> QED BY <3>4, <3>6
    <2> QED BY <1>1, <2>1, <2>2, OnlyCompareCode
  <1>2. Inv /\ Counted /\ [Next]_vars => [closed]_vars
    BY <1>1
  <1> QED BY <1>2, Invariance, CountedAlways, PTL DEF Spec, SpentCodesTakeNoAnswer

\* How far past the limit the answers to a code can get: by one for each other request
\* that verifies at the same time, and by those whose increment has failed.
GuessesBounded ==
  \A c \in DOMAIN codes :
    codes[c].guesses <= MaxAttempts - 1 + Cardinality(Requests) + codes[c].uncounted

\* A code never takes more wrong answers than GuessesBounded says.
THEOREM GuessesAreBounded == Spec => []GuessesBounded
  <1>1. Inv /\ Counted => GuessesBounded
    <2> SUFFICES ASSUME Inv, Counted, NEW c \in DOMAIN codes
                 PROVE  codes[c].guesses
                          <= MaxAttempts - 1 + Cardinality(Requests) + codes[c].uncounted
      BY DEF GuessesBounded
    <2>1. /\ codes[c].attempts \in Nat /\ codes[c].uncounted \in Nat
          /\ Wrong(c) \in SUBSET Requests
      BY CodesTyped DEF Inv, Wrong
    <2> QED BY <2>1, Sizes DEF Counted
  <1> QED BY <1>1, Invariance, CountedAlways, PTL

=============================================================================
