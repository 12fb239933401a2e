---------------------------- MODULE LedgerProofs ----------------------------
(***************************************************************************)
(* Theorems about Ledger, for any accounts, postings, periods and users,   *)
(* any number of requests, any pool and any bounds.                        *)
(*                                                                         *)
(* The invariant says what a request knows of its period: one that has     *)
(* locked it has it in memory as it is, and nobody else has it locked or   *)
(* an entry inserted into it.                                              *)
(***************************************************************************)
EXTENDS Ledger, BooksProofs, SequenceTheorems

PeriodOps == {"transition", "reopen"}

PostingPCs == Reads \cup {"validate", "insert", "inserted"}

\* What a request on a document or on a period is.
OfRequest(q) ==
  /\ q \in Request
  /\ q.pc # "idle" => q.month \in Months
  /\ q.op \in PostingOps => q.source \in Sources
  /\ q.op \in PeriodOps => q.by \in Users
  /\ q.op = "reopen" => q.next = "OPEN"
  /\ q.pc \in PostingPCs => q.op \in PostingOps
  /\ q.pc = "begun" /\ q.op = "post" => q.todo = q.lines
  /\ q.pc = "validate" => q.todo = q.lines
  /\ q.pc \in {"resolve", "open", "accounts"} => q.todo # <<>>
  /\ q.pc \in {"open", "accounts", "insert", "inserted"} => periods[q.month] # Null
  /\ q.pc = "locked" =>
       /\ q.op \in PeriodOps
       /\ q.mem = periods[q.month] /\ q.mem # Null
       /\ Accepts(q.op, q.mem.status, q.next)

\* Requests that have locks on the same period only share them.
Holds(q) == q.pc \in {"locked", "inserted"}

Apart(p, q) ==
  p.month = q.month /\ Holds(p) /\ Holds(q) => p.pc = "inserted" /\ q.pc = "inserted"

Busy == {r \in Requests : req[r].pc # "idle"}

TablesInv ==
  /\ periods \in [Months -> Period \cup {Null}]
  /\ trail \in [Months -> Seq(Move)]
  /\ active \subseteq Accounts
  /\ entries \in Seq(Entry)

RequestsInv ==
  /\ req = [r \in Requests |-> req[r]]
  /\ \A r \in Requests : OfRequest(req[r])
  /\ \A r, s \in Requests : r # s => Apart(req[r], req[s])

PoolInv == IsFiniteSet(Busy) /\ Cardinality(Busy) <= PoolSize

Inv == TablesInv /\ RequestsInv /\ PoolInv /\ AuditTellsStatus

-----------------------------------------------------------------------------
(* Lines.                                                                   *)

\* validateLines lets nothing through that has no lines.
LEMMA ValidHasLines ==
  ASSUME NEW lines \in Seq(Line), ValidLines(lines) PROVE lines # <<>>
  <1>1. Len(lines) >= 2
    BY DEF ValidLines
  <1> QED BY <1>1

-----------------------------------------------------------------------------
(* Steps of one request.                                                    *)

\* Only the record of r changes.
OnlyAt(r) ==
  /\ \A s \in Requests \ {r} : req'[s] = req[s]
  /\ req' = [s \in Requests |-> req'[s]]

LEMMA IdleIsFine == IdleRequest \in Request /\ OfRequest(IdleRequest)
  <1>1. IdleRequest \in Request
    BY DEF IdleRequest, Request, Ops, PCs, Period, PeriodStatus
  <1>2. IdleRequest.op = "none" /\ IdleRequest.pc = "idle"
    BY DEF IdleRequest
  <1> QED BY <1>1, <1>2 DEF OfRequest, PostingOps, PeriodOps, PostingPCs, Reads

\* A request's record becomes q.
LEMMA Becomes ==
  ASSUME RequestsInv, NEW r \in Requests, NEW q, req' = [req EXCEPT ![r] = q]
  PROVE  req'[r] = q /\ OnlyAt(r)
  BY DEF RequestsInv, OnlyAt

LEMMA Steps ==
  ASSUME RequestsInv, NEW r \in Requests, NEW pc \in PCs, Step(r, pc), NEW q, q = req'[r]
  PROVE  /\ OnlyAt(r) /\ q \in Request /\ q.pc = pc /\ q.op = req[r].op
         /\ q.source = req[r].source /\ q.month = req[r].month /\ q.lines = req[r].lines
         /\ q.todo = req[r].todo /\ q.mem = req[r].mem /\ q.next = req[r].next
         /\ q.by = req[r].by /\ q.original = req[r].original
  <1>1. PICK p \in Request : p = req[r]
    BY DEF RequestsInv, OfRequest
  <1> DEFINE p2 == [p EXCEPT !.pc = pc]
  <1>2. req' = [req EXCEPT ![r] = p2]
    BY <1>1 DEF Step, RequestsInv
  <1>3. /\ p2 \in Request /\ p2.pc = pc /\ p2.op = p.op
        /\ p2.source = p.source /\ p2.month = p.month /\ p2.lines = p.lines
        /\ p2.todo = p.todo /\ p2.mem = p.mem /\ p2.next = p.next /\ p2.by = p.by
        /\ p2.original = p.original
    BY <1>1 DEF Request
  <1> HIDE DEF p2
  <1>4. p2 = q /\ OnlyAt(r)
    BY <1>2, Becomes
  <1> QED BY <1>1, <1>3, <1>4

LEMMA Finishes ==
  ASSUME RequestsInv, NEW r \in Requests, Finish(r)
  PROVE  OnlyAt(r) /\ req'[r] = IdleRequest
  BY Becomes DEF Finish

-----------------------------------------------------------------------------
(* What a step has to keep.                                                 *)

\* A request that is under way goes on or ends.
LEMMA BusyShrinks ==
  ASSUME PoolInv, NEW r \in Requests, OnlyAt(r),
         req[r].pc # "idle"
  PROVE  PoolInv'
  <1>1. Busy' \subseteq Busy
    BY DEF Busy, OnlyAt
  <1>2. IsFiniteSet(Busy') /\ Cardinality(Busy') <= Cardinality(Busy)
    BY <1>1, FS_Subset DEF PoolInv
  <1>3. Cardinality(Busy') \in Nat /\ Cardinality(Busy) \in Nat
    BY <1>2, FS_CardinalityType DEF PoolInv
  <1> QED BY <1>2, <1>3, PoolAssumption DEF PoolInv

\* A request begins, with the connection that was free.
LEMMA BusyGrows ==
  ASSUME PoolInv, NEW r \in Requests, OnlyAt(r), ConnectionFree
  PROVE  PoolInv'
  <1>1. Busy' \subseteq Busy \cup {r}
    BY DEF Busy, OnlyAt
  <1>2. IsFiniteSet(Busy \cup {r}) /\ Cardinality(Busy \cup {r}) <= Cardinality(Busy) + 1
    <2>1. /\ IsFiniteSet(Busy \cup {r})
          /\ Cardinality(Busy \cup {r}) = IF r \in Busy THEN Cardinality(Busy)
                                                       ELSE Cardinality(Busy) + 1
      BY FS_AddElement DEF PoolInv
    <2>2. Cardinality(Busy) \in Nat
      BY FS_CardinalityType DEF PoolInv
    <2> QED BY <2>1, <2>2
  <1>3. IsFiniteSet(Busy') /\ Cardinality(Busy') <= Cardinality(Busy \cup {r})
    BY <1>1, <1>2, FS_Subset
  <1>4. Cardinality(Busy) < PoolSize
    BY DEF ConnectionFree, InUse, Busy
  <1>5. /\ Cardinality(Busy') \in Nat /\ Cardinality(Busy) \in Nat
        /\ Cardinality(Busy \cup {r}) \in Nat
    BY <1>2, <1>3, FS_CardinalityType DEF PoolInv
  <1> QED BY <1>2, <1>3, <1>4, <1>5, PoolAssumption DEF PoolInv

\* The record of one request changes, no period does.
LEMMA RequestsStay ==
  ASSUME RequestsInv, NEW r \in Requests, OnlyAt(r), NEW q, q = req'[r],
         periods' = periods, OfRequest(q), \A s \in Requests \ {r} : Apart(q, req[s])
  PROVE  RequestsInv'
  <1>0. /\ req'[r] = q /\ req' = [s \in Requests |-> req'[s]]
        /\ \A s \in Requests \ {r} : req'[s] = req[s]
    BY DEF OnlyAt
  <1>1. ASSUME NEW s \in Requests PROVE OfRequest(req[s])'
    <2>1. OfRequest(req'[s])
      BY <1>0 DEF RequestsInv
    <2> QED BY <2>1 DEF OfRequest
  <1>2. ASSUME NEW a \in Requests, NEW b \in Requests, a # b
        PROVE  Apart(req[a], req[b])'
    <2>1. Apart(req'[a], req'[b])
      <3>1. CASE a = r
        BY <1>0, <1>2, <3>1
      <3>2. CASE b = r
        BY <1>0, <1>2, <3>2 DEF Apart
      <3>3. CASE a # r /\ b # r
        BY <1>0, <1>2, <3>3 DEF RequestsInv
      <3> QED BY <3>1, <3>2, <3>3
    <2> QED BY <2>1 DEF Apart, Holds
  <1> QED BY <1>0, <1>1, <1>2 DEF RequestsInv

LEMMA NoHoldNoClash == \A p, q : ~Holds(p) => Apart(p, q)
  BY DEF Apart

\* The trail and the periods stay.
LEMMA AuditStays ==
  ASSUME AuditTellsStatus, periods' = periods, trail' = trail PROVE AuditTellsStatus'
  BY DEF AuditTellsStatus, Walk

\* A step that leaves the periods alone.
LEMMA GoesOn ==
  ASSUME Inv, NEW r \in Requests, OnlyAt(r), NEW q, q = req'[r], OfRequest(q),
         \A s \in Requests \ {r} : Apart(q, req[s]), PoolInv',
         UNCHANGED <<periods, trail, active>>, entries' \in Seq(Entry)
  PROVE  Inv'
  <1>1. TablesInv'
    BY DEF Inv, TablesInv
  <1>2. RequestsInv'
    BY RequestsStay DEF Inv
  <1>3. AuditTellsStatus'
    BY AuditStays DEF Inv
  <1> QED BY <1>1, <1>2, <1>3 DEF Inv

LEMMA InvFinish ==
  ASSUME Inv, NEW r \in Requests, req[r].pc # "idle", Finish(r),
         UNCHANGED <<periods, trail, active>>, entries' \in Seq(Entry)
  PROVE  Inv'
  <1>1. OnlyAt(r) /\ req'[r] = IdleRequest
    BY Finishes DEF Inv
  <1>2. ~Holds(IdleRequest)
    BY DEF IdleRequest, Holds
  <1>3. PoolInv'
    BY <1>1, BusyShrinks DEF Inv
  <1> QED BY <1>1, <1>2, <1>3, IdleIsFine, NoHoldNoClash, GoesOn

-----------------------------------------------------------------------------
(* Requests begin.                                                          *)

LEMMA InvBegin ==
  ASSUME Inv, NEW r \in Requests, NEW q, Begin(r, q), OfRequest(q), q.pc = "begun"
  PROVE  Inv'
  <1>1. /\ req' = [req EXCEPT ![r] = q] /\ ConnectionFree
        /\ UNCHANGED <<periods, trail, active, entries>>
    BY DEF Begin
  <1>2. req'[r] = q /\ OnlyAt(r)
    BY <1>1, Becomes DEF Inv
  <1>3. ~Holds(q)
    BY DEF Holds
  <1>4. PoolInv'
    BY <1>1, <1>2, BusyGrows DEF Inv
  <1>5. entries' \in Seq(Entry)
    BY <1>1 DEF Inv, TablesInv
  <1> QED BY <1>1, <1>2, <1>3, <1>4, <1>5, NoHoldNoClash, GoesOn

\* A request that has only begun.
LEMMA Begun ==
  ASSUME NEW q \in Request, q.pc = "begun", q.month \in Months,
         q.op \in PostingOps => q.source \in Sources,
         q.op \in PeriodOps => q.by \in Users,
         q.op = "reopen" => q.next = "OPEN",
         q.op = "post" => q.todo = q.lines
  PROVE  OfRequest(q)
  BY DEF OfRequest, PostingPCs, Reads

LEMMA InvBegins ==
  ASSUME Inv, NEW r \in Requests, NEW m \in Months,
         \/ \E d \in Sources, lines \in Postings : BeginPost(r, d, m, lines)
         \/ \E d \in Sources : BeginReverse(r, d, m)
         \/ \E s \in PeriodStatus, u \in Users : BeginTransition(r, m, s, u)
         \/ \E u \in Users : BeginReopen(r, m, u)
  PROVE  Inv'
  <1>0. "begun" \in PCs /\ {"post", "reverse", "transition", "reopen"} \subseteq Ops
    BY DEF PCs, Ops
  <1>i. IdleRequest \in Request /\ IdleRequest.next = "OPEN"
    BY IdleIsFine DEF IdleRequest
  <1>1. ASSUME NEW d \in Sources, NEW lines \in Postings, BeginPost(r, d, m, lines)
        PROVE  Inv'
    <2> DEFINE q == [IdleRequest EXCEPT !.op = "post", !.pc = "begun", !.source = d,
                       !.month = m, !.lines = lines, !.todo = lines]
    <2>1. lines \in Seq(Line)
      BY PostingsAssumption
    <2>2. /\ q \in Request /\ q.pc = "begun" /\ q.month = m /\ q.op = "post"
          /\ q.source = d /\ q.todo = q.lines
      BY <1>0, <1>i, <2>1 DEF Request
    <2>3. Begin(r, q)
      BY <1>1 DEF BeginPost
    <2> HIDE DEF q
    <2> QED BY <2>2, <2>3, Begun, InvBegin DEF PeriodOps
  <1>2. ASSUME NEW d \in Sources, BeginReverse(r, d, m) PROVE Inv'
    <2> DEFINE q == [IdleRequest EXCEPT !.op = "reverse", !.pc = "begun",
                       !.source = d, !.month = m]
    <2>2. q \in Request /\ q.pc = "begun" /\ q.month = m /\ q.op = "reverse" /\ q.source = d
      BY <1>0, <1>i DEF Request
    <2>3. Begin(r, q)
      BY <1>2 DEF BeginReverse
    <2> HIDE DEF q
    <2> QED BY <2>2, <2>3, Begun, InvBegin DEF PeriodOps
  <1>3. ASSUME NEW s \in PeriodStatus, NEW u \in Users, BeginTransition(r, m, s, u)
        PROVE  Inv'
    <2> DEFINE q == [IdleRequest EXCEPT !.op = "transition", !.pc = "begun",
                       !.month = m, !.next = s, !.by = u]
    <2>2. q \in Request /\ q.pc = "begun" /\ q.month = m /\ q.op = "transition" /\ q.by = u
      BY <1>0, <1>i DEF Request
    <2>3. Begin(r, q)
      BY <1>3 DEF BeginTransition
    <2> HIDE DEF q
    <2> QED BY <2>2, <2>3, Begun, InvBegin DEF PostingOps
  <1>4. ASSUME NEW u \in Users, BeginReopen(r, m, u) PROVE Inv'
    <2> DEFINE q == [IdleRequest EXCEPT !.op = "reopen", !.pc = "begun",
                       !.month = m, !.next = "OPEN", !.by = u]
    <2>2. /\ q \in Request /\ q.pc = "begun" /\ q.month = m /\ q.op = "reopen" /\ q.by = u
          /\ q.next = "OPEN"
      BY <1>0, <1>i DEF Request, PeriodStatus
    <2>3. Begin(r, q)
      BY <1>4 DEF BeginReopen
    <2> HIDE DEF q
    <2> QED BY <2>2, <2>3, Begun, InvBegin DEF PostingOps
  <1> QED BY <1>1, <1>2, <1>3, <1>4

-----------------------------------------------------------------------------
(* A posting goes on.                                                       *)

\* A posting that gets to its next check.
LEMMA InvStep ==
  ASSUME Inv, NEW r \in Requests, req[r].pc # "idle", req[r].op \in PostingOps,
         NEW pc \in {"original", "validate", "resolve", "open", "accounts", "insert"},
         Step(r, pc), UNCHANGED <<periods, trail, active, entries>>,
         pc = "validate" => req[r].todo = req[r].lines,
         pc \in {"resolve", "open", "accounts"} => req[r].todo # <<>>,
         pc \in {"open", "accounts", "insert"} => periods[req[r].month] # Null
  PROVE  Inv'
  <1>0. pc \in PCs
    BY DEF PCs
  <1>q. PICK q : q = req'[r]
    OBVIOUS
  <1>1. /\ OnlyAt(r) /\ q \in Request /\ q.pc = pc /\ q.op = req[r].op
        /\ q.source = req[r].source /\ q.month = req[r].month /\ q.lines = req[r].lines
        /\ q.todo = req[r].todo
    BY <1>0, <1>q, Steps DEF Inv
  <1>2. OfRequest(req[r])
    BY DEF Inv, RequestsInv
  <1>3. OfRequest(q)
    BY <1>1, <1>2 DEF OfRequest, PostingOps, PeriodOps
  <1>4. ~Holds(q)
    BY <1>1 DEF Holds
  <1>5. PoolInv'
    BY <1>1, BusyShrinks DEF Inv
  <1>6. entries' \in Seq(Entry)
    BY DEF Inv, TablesInv
  <1> QED BY <1>q, <1>1, <1>3, <1>4, <1>5, <1>6, NoHoldNoClash, GoesOn

\* Where a posting may be.
LEMMA Posting ==
  ASSUME Inv, NEW r \in Requests, req[r].pc \in PostingPCs
  PROVE  /\ req[r].op \in PostingOps /\ req[r].pc # "idle"
         /\ req[r].source \in Sources /\ req[r].month \in Months
         /\ OfRequest(req[r])
  <1>1. OfRequest(req[r]) /\ req[r].pc # "idle"
    BY DEF Inv, RequestsInv, PostingPCs, Reads
  <1> QED BY <1>1 DEF OfRequest

LEMMA InvValidateLines ==
  ASSUME Inv, NEW r \in Requests, ValidateLines(r) PROVE Inv'
  <1>1. /\ req[r].pc = "validate" /\ ValidLines(req[r].lines) /\ Step(r, "resolve")
        /\ UNCHANGED <<periods, trail, active, entries>>
    BY DEF ValidateLines
  <1>2. OfRequest(req[r]) /\ req[r].op \in PostingOps
    BY <1>1, Posting DEF PostingPCs
  <1>3. req[r].lines \in Seq(Line) /\ req[r].todo = req[r].lines
    BY <1>1, <1>2 DEF OfRequest, Request
  <1>4. req[r].todo # <<>>
    BY <1>1, <1>3, ValidHasLines
  <1> QED BY <1>1, <1>2, <1>4, InvStep

LEMMA InvResolvePeriod ==
  ASSUME Inv, NEW r \in Requests, ResolvePeriod(r) PROVE Inv'
  <1>1. /\ req[r].pc = "resolve" /\ Step(r, "open") /\ periods[req[r].month] # Null
        /\ UNCHANGED <<periods, trail, active, entries>>
    BY DEF ResolvePeriod
  <1>2. OfRequest(req[r]) /\ req[r].op \in PostingOps
    BY <1>1, Posting DEF PostingPCs, Reads
  <1>3. req[r].todo # <<>>
    BY <1>1, <1>2 DEF OfRequest
  <1> QED BY <1>1, <1>2, <1>3, InvStep

LEMMA InvCheckOpen ==
  ASSUME Inv, NEW r \in Requests, CheckOpen(r) PROVE Inv'
  <1>1. /\ req[r].pc = "open" /\ Step(r, "accounts")
        /\ UNCHANGED <<periods, trail, active, entries>>
    BY DEF CheckOpen
  <1>2. OfRequest(req[r]) /\ req[r].op \in PostingOps
    BY <1>1, Posting DEF PostingPCs, Reads
  <1>3. req[r].todo # <<>> /\ periods[req[r].month] # Null
    BY <1>1, <1>2 DEF OfRequest
  <1> QED BY <1>1, <1>2, <1>3, InvStep

\* The document is locked: what is posted is still to be checked.
LEMMA InvLockSource ==
  ASSUME Inv, NEW r \in Requests, LockSource(r) PROVE Inv'
  <1>1. /\ req[r].pc = "begun" /\ req[r].op \in PostingOps
        /\ Step(r, IF req[r].op = "reverse" THEN "original" ELSE "validate")
        /\ UNCHANGED <<periods, trail, active, entries>>
    BY DEF LockSource
  <1>2. CASE req[r].op = "reverse"
    BY <1>1, <1>2, InvStep
  <1>3. CASE req[r].op = "post"
    <2>1. req[r].todo = req[r].lines
      BY <1>1, <1>3 DEF Inv, RequestsInv, OfRequest
    <2> QED BY <1>1, <1>3, <2>1, InvStep
  <1> QED BY <1>1, <1>2, <1>3 DEF PostingOps

LEMMA InvReadOriginal ==
  ASSUME Inv, NEW r \in Requests, ReadOriginal(r) PROVE Inv'
  <1>0. req[r].pc = "original" /\ UNCHANGED <<periods, trail, active, entries>>
    BY DEF ReadOriginal
  <1>1. OfRequest(req[r]) /\ req[r].op \in PostingOps
    BY <1>0, Posting DEF PostingPCs, Reads
  <1>2. PICK i \in DOMAIN entries :
          LET lines == [k \in DOMAIN entries[i].lines |-> Swapped(entries[i].lines[k])] IN
          req' = [req EXCEPT ![r].pc = "validate", ![r].original = i,
                             ![r].lines = lines, ![r].todo = lines]
    BY DEF ReadOriginal
  <1>3. PICK entry \in Entry : entry = entries[i] /\ i \in Nat
    BY DEF Inv, TablesInv
  <1> DEFINE lines == [k \in DOMAIN entry.lines |-> Swapped(entry.lines[k])]
  <1>4. lines \in Seq(Line)
    <2>1. entry.lines \in Seq(Row)
      BY <1>3 DEF Entry
    <2>2. \A k \in 1..Len(entry.lines) : Swapped(entry.lines[k]) \in Line
      BY <2>1, SwappedIsLine
    <2> QED BY <2>1, <2>2
  <1>5. PICK p \in Request : p = req[r]
    BY <1>1 DEF OfRequest
  <1> DEFINE q == [p EXCEPT !.pc = "validate", !.original = i, !.lines = lines, !.todo = lines]
  <1>6. req' = [req EXCEPT ![r] = q]
    BY <1>2, <1>3, <1>5 DEF Inv, RequestsInv
  <1> HIDE DEF lines
  <1>7. /\ q \in Request /\ q.pc = "validate" /\ q.op = p.op /\ q.source = p.source
        /\ q.month = p.month /\ q.todo = q.lines /\ q.by = p.by /\ q.next = p.next
    <2>1. "validate" \in PCs
      BY DEF PCs
    <2> QED BY <1>3, <1>4, <1>5, <2>1 DEF Request
  <1> HIDE DEF q
  <1>8. req'[r] = q /\ OnlyAt(r)
    BY <1>6, Becomes DEF Inv
  <1>9. OfRequest(q)
    BY <1>0, <1>1, <1>5, <1>7 DEF OfRequest, PostingOps, PeriodOps
  <1>10. ~Holds(q) /\ req[r].pc # "idle"
    BY <1>0, <1>7 DEF Holds
  <1>11. PoolInv'
    BY <1>8, <1>10, BusyShrinks DEF Inv
  <1>12. entries' \in Seq(Entry)
    BY <1>0 DEF Inv, TablesInv
  <1> QED BY <1>0, <1>8, <1>9, <1>10, <1>11, <1>12, NoHoldNoClash, GoesOn

LEMMA InvCheckAccount ==
  ASSUME Inv, NEW r \in Requests, CheckAccount(r) PROVE Inv'
  <1>0. req[r].pc = "accounts" /\ UNCHANGED <<periods, trail, active, entries>>
    BY DEF CheckAccount
  <1>1. OfRequest(req[r]) /\ req[r].op \in PostingOps
    BY <1>0, Posting DEF PostingPCs, Reads
  <1>2. PICK p \in Request : p = req[r]
    BY <1>1 DEF OfRequest
  <1>3. p.todo \in Seq(Line) /\ p.todo # <<>> /\ p.pc = "accounts"
    BY <1>0, <1>1, <1>2 DEF OfRequest, Request
  <1>4. PICK tail \in Seq(Line) : tail = Tail(p.todo) /\ Len(tail) = Len(p.todo) - 1
    BY <1>3, HeadTailProperties
  <1> DEFINE pc == IF Len(p.todo) = 1 THEN "insert" ELSE "accounts"
  <1>5. pc \in {"insert", "accounts"} /\ (pc = "accounts" => tail # <<>>)
    <2>1. Len(p.todo) \in Nat \ {0}
      BY <1>3, EmptySeq
    <2>2. pc = "accounts" => Len(tail) # 0
      BY <1>4, <2>1
    <2> QED BY <2>2, EmptySeq
  <1> DEFINE q == [p EXCEPT !.todo = tail, !.pc = pc]
  <1>6. req' = [req EXCEPT ![r] = q]
    BY <1>2, <1>3, <1>4 DEF CheckAccount, Inv, RequestsInv
  <1> HIDE DEF pc
  <1>7. /\ q \in Request /\ q.pc = pc /\ q.op = p.op /\ q.source = p.source
        /\ q.month = p.month /\ q.todo = tail /\ q.by = p.by /\ q.next = p.next
    <2>1. pc \in PCs
      BY <1>5 DEF PCs
    <2> QED BY <1>2, <1>4, <2>1 DEF Request
  <1> HIDE DEF q
  <1>8. req'[r] = q /\ OnlyAt(r)
    BY <1>6, Becomes DEF Inv
  <1>9. OfRequest(q)
    BY <1>0, <1>1, <1>2, <1>5, <1>7 DEF OfRequest, PostingOps, PeriodOps
  <1>10. ~Holds(q) /\ req[r].pc # "idle"
    BY <1>0, <1>5, <1>7 DEF Holds
  <1>11. PoolInv'
    BY <1>8, <1>10, BusyShrinks DEF Inv
  <1>12. entries' \in Seq(Entry)
    BY <1>0 DEF Inv, TablesInv
  <1> QED BY <1>0, <1>8, <1>9, <1>10, <1>11, <1>12, NoHoldNoClash, GoesOn

\* The foreign key waits for whoever has the period locked to change it.
LEMMA InvInsertEntry ==
  ASSUME Inv, NEW r \in Requests, InsertEntry(r) PROVE Inv'
  <1>1. /\ req[r].pc = "insert" /\ MayLockPeriod(r, req[r].month, "KEY SHARE")
        /\ Step(r, "inserted") /\ UNCHANGED <<periods, trail, active, entries>>
    BY DEF InsertEntry, EntryKeyLock
  <1>2. OfRequest(req[r]) /\ req[r].op \in PostingOps
    BY <1>1, Posting DEF PostingPCs
  <1>0. "inserted" \in PCs
    BY DEF PCs
  <1>q. PICK q : q = req'[r]
    OBVIOUS
  <1>3. /\ OnlyAt(r) /\ q \in Request /\ q.pc = "inserted" /\ q.op = req[r].op
        /\ q.source = req[r].source /\ q.month = req[r].month
    <2>1. PICK pc \in PCs : pc = "inserted" /\ Step(r, pc)
      BY <1>0, <1>1
    <2>2. RequestsInv
      BY DEF Inv
    <2> QED BY <1>q, <2>1, <2>2, Steps
  <1>4. OfRequest(q)
    BY <1>1, <1>2, <1>3 DEF OfRequest, PostingOps, PeriodOps
  <1>5. ASSUME NEW s \in Requests \ {r} PROVE Apart(q, req[s])
    <2>1. "UPDATE" \notin PeriodModes(s, q.month)
      BY <1>1, <1>3 DEF MayLockPeriod, WaitsFor
    <2>2. ~(req[s].month = q.month /\ req[s].pc = "locked")
      BY <2>1 DEF PeriodModes, PeriodLock
    <2> QED BY <1>3, <2>2 DEF Apart, Holds
  <1>6. PoolInv'
    BY <1>1, <1>3, BusyShrinks DEF Inv
  <1>7. entries' \in Seq(Entry)
    BY <1>1 DEF Inv, TablesInv
  <1> QED BY <1>q, <1>1, <1>3, <1>4, <1>5, <1>6, <1>7, GoesOn

LEMMA InvCommitEntry ==
  ASSUME Inv, NEW r \in Requests, CommitEntry(r) PROVE Inv'
  <1>1. /\ req[r].pc = "inserted" /\ Finish(r) /\ UNCHANGED <<periods, trail, active>>
    BY DEF CommitEntry
  <1>2. /\ OfRequest(req[r]) /\ req[r].source \in Sources /\ req[r].month \in Months
    BY <1>1, Posting DEF PostingPCs
  <1>3. PICK d \in Sources, m \in Months, i \in Nat, lines \in Seq(Line) :
          /\ d = req[r].source /\ m = req[r].month /\ i = req[r].original
          /\ lines = req[r].lines
    BY <1>2 DEF OfRequest, Request
  <1>4. Rows(r) \in Seq(Row)
    <2>1. \A k \in 1..Len(lines) : Stored(lines[k]) \in Row
      BY StoredIsRow
    <2> QED BY <1>3, <2>1 DEF Rows
  <1>5. PICK rows \in Seq(Row) : rows = Rows(r)
    BY <1>4
  <1> DEFINE marked == IF i = 0 THEN entries ELSE [entries EXCEPT ![i].status = "REVERSED"]
             new == [source |-> d, month |-> m, lines |-> rows, status |-> "POSTED",
                     reverses |-> i]
  <1>6. new \in Entry
    BY DEF Entry
  <1>7. marked \in Seq(Entry)
    <2>0. entries \in Seq(Entry)
      BY DEF Inv, TablesInv
    <2>1. \A e \in Entry : [e EXCEPT !.status = "REVERSED"] \in Entry
      BY DEF Entry
    <2>2. PICK n \in Nat : entries \in [1..n -> Entry]
      BY <2>0, SeqDef
    <2>3. marked \in [1..n -> Entry]
      BY <2>1, <2>2
    <2> HIDE DEF marked
    <2> QED BY <2>3, SeqDef
  <1>8. entries' = Append(marked, new)
    BY <1>3, <1>5 DEF CommitEntry, Marked
  <1> HIDE DEF marked, new
  <1>9. entries' \in Seq(Entry)
    BY <1>6, <1>7, <1>8
  <1>10. req[r].pc # "idle"
    BY <1>1
  <1> QED BY <1>1, <1>9, <1>10, InvFinish

\* A request gives up, or is refused.
LEMMA InvGivesUp ==
  ASSUME Inv, NEW r \in Requests,
         RefusePosting(r) \/ Rollback(r) \/ ConnectionTimeout(r)
  PROVE  Inv'
  <1>1. Finish(r) /\ UNCHANGED <<periods, trail, active, entries>>
    BY DEF RefusePosting, Rollback, ConnectionTimeout
  <1>2. req[r].pc # "idle"
    BY DEF RefusePosting, Rollback, ConnectionTimeout, TimesOut, Reads
  <1>3. entries' \in Seq(Entry)
    BY <1>1 DEF Inv, TablesInv
  <1> QED BY <1>1, <1>2, <1>3, InvFinish

-----------------------------------------------------------------------------
(* Requests on periods.                                                     *)

LEMMA InvLockPeriod ==
  ASSUME Inv, NEW r \in Requests, LockPeriod(r) PROVE Inv'
  <1>1. /\ req[r].pc = "begun" /\ req[r].op \in PeriodOps
        /\ MayLockPeriod(r, req[r].month, "UPDATE")
        /\ UNCHANGED <<periods, trail, active, entries>>
    BY DEF LockPeriod, PeriodOps, PeriodLock
  <1>2. OfRequest(req[r]) /\ req[r].pc # "idle"
    BY <1>1 DEF Inv, RequestsInv
  <1>3. PICK m \in Months : m = req[r].month
    BY <1>2 DEF OfRequest
  <1>4. entries' \in Seq(Entry)
    BY <1>1 DEF Inv, TablesInv
  <1>5. CASE Finish(r)
    BY <1>1, <1>2, <1>4, <1>5, InvFinish
  <1>6. CASE /\ periods[m] # Null /\ Accepts(req[r].op, periods[m].status, req[r].next)
             /\ req' = [req EXCEPT ![r].pc = "locked", ![r].mem = periods[m]]
    <2>1. PICK p \in Request : p = req[r]
      BY <1>2 DEF OfRequest
    <2>2. PICK mem \in Period : mem = periods[m] /\ mem # Null
      BY <1>6 DEF Inv, TablesInv
    <2> DEFINE q == [p EXCEPT !.pc = "locked", !.mem = mem]
    <2>3. req' = [req EXCEPT ![r] = q]
      BY <1>6, <2>1, <2>2 DEF Inv, RequestsInv
    <2>4. /\ q \in Request /\ q.pc = "locked" /\ q.op = p.op /\ q.source = p.source
          /\ q.month = m /\ q.mem = mem /\ q.by = p.by /\ q.next = p.next
      <3>1. "locked" \in PCs
        BY DEF PCs
      <3> QED BY <1>3, <2>1, <2>2, <3>1 DEF Request
    <2> HIDE DEF q
    <2>5. req'[r] = q /\ OnlyAt(r)
      BY <2>3, Becomes DEF Inv
    <2>6. OfRequest(q)
      BY <1>1, <1>2, <1>6, <2>1, <2>2, <2>4 DEF OfRequest, PeriodOps, PostingOps, PostingPCs, Reads
    <2>7. ASSUME NEW s \in Requests \ {r} PROVE Apart(q, req[s])
      <3>1. PeriodModes(s, m) \cap {"KEY SHARE", "NO KEY UPDATE", "UPDATE"} = {}
        BY <1>1, <1>3 DEF MayLockPeriod, WaitsFor
      <3>2. ~(req[s].month = m /\ Holds(req[s]))
        BY <3>1 DEF PeriodModes, PeriodLock, EntryKeyLock, Holds
      <3> QED BY <2>4, <3>2 DEF Apart
    <2>8. PoolInv'
      BY <1>2, <2>5, BusyShrinks DEF Inv
    <2> QED BY <1>1, <1>4, <2>5, <2>6, <2>7, <2>8, GoesOn
  <1> QED BY <1>3, <1>5, <1>6 DEF LockPeriod

\* The status after the first i audit rows of T.
StatusAfter(T, i) == IF i = 0 THEN "OPEN" ELSE T[i].to

AuditOf(p, T) ==
  /\ p.status = StatusAfter(T, Len(T))
  /\ \A i \in 1..Len(T) :
       IF T[i].reopened
         THEN StatusAfter(T, i - 1) = "CLOSED" /\ T[i].to = "OPEN"
         ELSE T[i].to \in Allowed(StatusAfter(T, i - 1))
  /\ p.closedBy = IF p.status = "CLOSED" THEN T[Len(T)].by ELSE Null

LEMMA WalkIsStatus ==
  ASSUME NEW T \in Seq(Move), NEW i \in 0..Len(T)
  PROVE  (<<"OPEN">> \o [k \in DOMAIN T |-> T[k].to])[i + 1] = StatusAfter(T, i)
  <1> DEFINE w == [k \in DOMAIN T |-> T[k].to]
  <1>1. w \in Seq(PeriodStatus) /\ Len(w) = Len(T) /\ \A k \in 1..Len(T) : w[k] = T[k].to
    <2>1. DOMAIN T = 1..Len(T) /\ Len(T) \in Nat
      BY LenProperties
    <2>2. w = [k \in 1..Len(T) |-> T[k].to]
      BY <2>1
    <2>3. \A k \in 1..Len(T) : T[k].to \in PeriodStatus
      <3>1. \A e \in Move : e.to \in PeriodStatus
        BY DEF Move
      <3> QED BY <3>1, ElementOfSeq
    <2>4. w \in [1..Len(T) -> PeriodStatus]
      BY <2>2, <2>3
    <2>5. w \in Seq(PeriodStatus)
      BY <2>1, <2>4, SeqDef
    <2>6. Len(w) = Len(T)
      BY <2>1, <2>2
    <2> QED BY <2>2, <2>5, <2>6
  <1>2. <<"OPEN">> \in Seq(PeriodStatus) /\ Len(<<"OPEN">>) = 1 /\ <<"OPEN">>[1] = "OPEN"
    BY DEF PeriodStatus
  <1> HIDE DEF w
  <1>3. (<<"OPEN">> \o w)[i + 1] = IF i + 1 <= 1 THEN <<"OPEN">>[i + 1] ELSE w[i + 1 - 1]
    BY <1>1, <1>2, ConcatProperties
  <1>4. CASE i = 0
    BY <1>2, <1>3, <1>4 DEF StatusAfter, w
  <1>5. CASE i # 0
    <2>1. i \in 1..Len(T) /\ i + 1 - 1 = i /\ ~(i + 1 <= 1)
      BY <1>5
    <2> QED BY <1>1, <1>3, <1>5, <2>1 DEF StatusAfter, w
  <1> QED BY <1>4, <1>5

\* AuditTellsStatus, period by period.
LEMMA AuditIs ==
  ASSUME trail \in [Months -> Seq(Move)]
  PROVE  AuditTellsStatus <=>
           \A m \in Months : IF periods[m] = Null THEN trail[m] = <<>>
                                                   ELSE AuditOf(periods[m], trail[m])
  <1>1. ASSUME NEW m \in Months
        PROVE  /\ \A i \in 0..Len(trail[m]) : Walk(m)[i + 1] = StatusAfter(trail[m], i)
               /\ DOMAIN trail[m] = 1..Len(trail[m])
               /\ Len(trail[m]) \in Nat
    <2>1. trail[m] \in Seq(Move)
      OBVIOUS
    <2>2. \A i \in 0..Len(trail[m]) : Walk(m)[i + 1] = StatusAfter(trail[m], i)
      BY <2>1, WalkIsStatus DEF Walk
    <2> QED BY <2>1, <2>2, LenProperties
  <1>2. ASSUME NEW m \in Months
        PROVE  /\ Walk(m)[Len(trail[m]) + 1] = StatusAfter(trail[m], Len(trail[m]))
               /\ \A i \in 1..Len(trail[m]) :
                    /\ Walk(m)[i] = StatusAfter(trail[m], i - 1)
                    /\ Walk(m)[i + 1] = trail[m][i].to
    <2>1. Walk(m)[Len(trail[m]) + 1] = StatusAfter(trail[m], Len(trail[m]))
      BY <1>1
    <2>2. ASSUME NEW i \in 1..Len(trail[m])
          PROVE  /\ Walk(m)[i] = StatusAfter(trail[m], i - 1)
                 /\ Walk(m)[i + 1] = trail[m][i].to
      <3>1. i \in 0..Len(trail[m]) /\ i - 1 \in 0..Len(trail[m]) /\ (i - 1) + 1 = i /\ i # 0
        BY <1>1
      <3>2. Walk(m)[i + 1] = StatusAfter(trail[m], i)
        BY <1>1, <3>1
      <3>3. Walk(m)[(i - 1) + 1] = StatusAfter(trail[m], i - 1)
        BY <1>1, <3>1
      <3> QED BY <3>1, <3>2, <3>3 DEF StatusAfter
    <2> QED BY <2>1, <2>2
  <1> DEFINE T(m) == trail[m]
             Steps1(m) == \A i \in DOMAIN T(m) :
                            IF T(m)[i].reopened
                              THEN Walk(m)[i] = "CLOSED" /\ Walk(m)[i + 1] = "OPEN"
                              ELSE Walk(m)[i + 1] \in Allowed(Walk(m)[i])
             Steps2(m) == \A i \in 1..Len(T(m)) :
                            IF T(m)[i].reopened
                              THEN StatusAfter(T(m), i - 1) = "CLOSED" /\ T(m)[i].to = "OPEN"
                              ELSE T(m)[i].to \in Allowed(StatusAfter(T(m), i - 1))
  <1>3. ASSUME NEW m \in Months PROVE Steps1(m) <=> Steps2(m)
    <2> DEFINE Here(i) == IF T(m)[i].reopened
                           THEN Walk(m)[i] = "CLOSED" /\ Walk(m)[i + 1] = "OPEN"
                           ELSE Walk(m)[i + 1] \in Allowed(Walk(m)[i])
               There(i) == IF T(m)[i].reopened
                           THEN StatusAfter(T(m), i - 1) = "CLOSED" /\ T(m)[i].to = "OPEN"
                           ELSE T(m)[i].to \in Allowed(StatusAfter(T(m), i - 1))
    <2>1. ASSUME NEW i \in 1..Len(T(m)) PROVE Here(i) <=> There(i)
      <3>1. Walk(m)[i] = StatusAfter(T(m), i - 1) /\ Walk(m)[i + 1] = T(m)[i].to
        BY <1>2
      <3> QED BY <3>1, Zenon
    <2>2. DOMAIN T(m) = 1..Len(T(m))
      BY <1>1
    <2>3. Steps1(m) <=> \A i \in DOMAIN T(m) : Here(i)
      OBVIOUS
    <2>4. Steps2(m) <=> \A i \in 1..Len(T(m)) : There(i)
      OBVIOUS
    <2> HIDE DEF T, Here, There, Steps1, Steps2
    <2> QED BY <2>1, <2>2, <2>3, <2>4
  <1>4. \A m \in Months : AuditOf(periods[m], T(m)) <=>
          /\ periods[m].status = StatusAfter(T(m), Len(T(m)))
          /\ Steps2(m)
          /\ periods[m].closedBy = IF periods[m].status = "CLOSED"
                                     THEN T(m)[Len(T(m))].by ELSE Null
    BY DEF AuditOf
  <1>5. AuditTellsStatus <=>
          \A m \in Months :
            IF periods[m] = Null THEN T(m) = <<>>
            ELSE /\ periods[m].status = Walk(m)[Len(T(m)) + 1]
                 /\ Steps1(m)
                 /\ periods[m].closedBy = IF periods[m].status = "CLOSED"
                                            THEN T(m)[Len(T(m))].by ELSE Null
    BY DEF AuditTellsStatus
  <1> HIDE DEF Steps1, Steps2
  <1> QED BY <1>2, <1>3, <1>4, <1>5

\* Another audit row, and the period as it then is.
LEMMA AuditGrows ==
  ASSUME NEW T \in Seq(Move), NEW p \in Period, AuditOf(p, T), NEW op \in PeriodOps,
         NEW next \in PeriodStatus, NEW by \in Users, Accepts(op, p.status, next),
         op = "reopen" => next = "OPEN"
  PROVE  AuditOf([status |-> next, closedBy |-> ClosedBy(p, op, next, by)],
                 Append(T, [to |-> next, reopened |-> op = "reopen", by |-> by]))
  <1> DEFINE e == [to |-> next, reopened |-> op = "reopen", by |-> by]
             new == [status |-> next, closedBy |-> ClosedBy(p, op, next, by)]
  <1>1. e \in Move /\ e.to = next /\ e.by = by /\ (e.reopened <=> op = "reopen")
    <2>1. (op = "reopen") \in BOOLEAN
      OBVIOUS
    <2> QED BY <2>1 DEF Move
  <1>2. new.status = next /\ new.closedBy = ClosedBy(p, op, next, by)
    OBVIOUS
  <1>3. PICK n \in Nat : n = Len(T)
    OBVIOUS
  <1> HIDE DEF e, new
  <1>4. PICK U \in Seq(Move) :
          /\ U = Append(T, e) /\ Len(U) = n + 1 /\ U[n + 1] = e
          /\ \A i \in 1..n : U[i] = T[i]
    <2>1. e \in Move
      BY <1>1
    <2>2. /\ Append(T, e) \in Seq(Move) /\ Len(Append(T, e)) = n + 1
          /\ Append(T, e)[n + 1] = e /\ \A i \in 1..n : Append(T, e)[i] = T[i]
      BY <1>3, <2>1, AppendProperties
    <2> QED BY <2>2
  <1>5. \A i \in 0..n : StatusAfter(U, i) = StatusAfter(T, i)
    BY <1>4 DEF StatusAfter
  <1>6. p.status = StatusAfter(U, n)
    BY <1>3, <1>5 DEF AuditOf
  <1>7. new.status = StatusAfter(U, Len(U))
    BY <1>1, <1>2, <1>4 DEF StatusAfter
  <1>8. ASSUME NEW i \in 1..Len(U)
        PROVE  IF U[i].reopened
                 THEN StatusAfter(U, i - 1) = "CLOSED" /\ U[i].to = "OPEN"
                 ELSE U[i].to \in Allowed(StatusAfter(U, i - 1))
    <2>1. CASE i \in 1..n
      <3>1. i - 1 \in 0..n /\ U[i] = T[i]
        BY <1>4, <2>1
      <3>2. StatusAfter(U, i - 1) = StatusAfter(T, i - 1)
        BY <1>5, <3>1
      <3> QED BY <1>3, <2>1, <3>1, <3>2 DEF AuditOf
    <2>2. CASE i = n + 1
      <3>1. U[i] = e /\ i - 1 = n
        BY <1>4, <2>2
      <3> QED BY <1>1, <1>6, <3>1 DEF Accepts
    <2> QED BY <1>4, <2>1, <2>2
  <1>9. new.closedBy = IF new.status = "CLOSED" THEN U[Len(U)].by ELSE Null
    <2>1. CASE next = "CLOSED"
      BY <1>1, <1>2, <1>4, <2>1 DEF ClosedBy
    <2>2. CASE next # "CLOSED" /\ op = "reopen"
      BY <1>2, <2>2 DEF ClosedBy
    <2>3. CASE next # "CLOSED" /\ op # "reopen"
      <3>1. p.status # "CLOSED"
        BY <2>3 DEF Accepts, Allowed
      <3>2. p.closedBy = Null
        BY <3>1 DEF AuditOf
      <3> QED BY <1>2, <2>3, <3>2 DEF ClosedBy
    <2> QED BY <2>1, <2>2, <2>3
  <1>10. AuditOf(new, U)
    BY <1>7, <1>8, <1>9 DEF AuditOf
  <1> QED BY <1>4, <1>10 DEF new, e

-----------------------------------------------------------------------------
(* The periods change.                                                      *)

\* One period is written; the other requests have no lock on it but r.
LEMMA OthersStay ==
  ASSUME Inv, NEW t \in Months, NEW new \in Period, NEW q, OfRequest(q),
         periods' = [periods EXCEPT ![t] = new],
         ~(q.pc = "locked" /\ q.month = t)
  PROVE  OfRequest(q)'
  <1>1. new # Null
    BY NullAssumption
  <1>2. periods'[t] = new /\ \A m \in Months \ {t} : periods'[m] = periods[m]
    BY DEF Inv, TablesInv
  <1>3. q.pc # "idle" => q.month \in Months
    BY DEF OfRequest
  <1>4. q.pc \in {"open", "accounts", "insert", "inserted"} => periods'[q.month] # Null
    BY <1>1, <1>2, <1>3 DEF OfRequest
  <1>5. q.pc = "locked" => q.mem = periods'[q.month] /\ q.mem # Null
    BY <1>2, <1>3 DEF OfRequest
  <1> QED BY <1>4, <1>5 DEF OfRequest

LEMMA InvCommitPeriod ==
  ASSUME Inv, NEW r \in Requests, CommitPeriod(r) PROVE Inv'
  <1>1. req[r].pc = "locked" /\ Finish(r) /\ UNCHANGED <<active, entries>>
    BY DEF CommitPeriod
  <1>2. OfRequest(req[r])
    BY DEF Inv, RequestsInv
  <1>3. PICK t \in Months, op \in PeriodOps, next \in PeriodStatus, by \in Users, old \in Period :
          /\ t = req[r].month /\ op = req[r].op /\ next = req[r].next /\ by = req[r].by
          /\ old = req[r].mem /\ old = periods[t] /\ old # Null
          /\ Accepts(op, old.status, next) /\ (op = "reopen" => next = "OPEN")
    BY <1>1, <1>2 DEF OfRequest, Request
  <1> DEFINE new == [status |-> next, closedBy |-> ClosedBy(old, op, next, by)]
             e == [to |-> next, reopened |-> op = "reopen", by |-> by]
  <1>4. periods' = [periods EXCEPT ![t] = new]
    BY <1>3 DEF CommitPeriod
  <1>5. trail' = [trail EXCEPT ![t] = Append(trail[t], e)]
    BY <1>3 DEF CommitPeriod, Inv, TablesInv
  <1>6. new \in Period
    BY <1>3 DEF Period, ClosedBy
  <1>7. e \in Move
    <2>1. (op = "reopen") \in BOOLEAN
      OBVIOUS
    <2> QED BY <2>1 DEF Move
  <1>8. PICK T \in Seq(Move) : T = trail[t]
    BY DEF Inv, TablesInv
  <1>9. Append(T, e) \in Seq(Move)
    BY <1>7, <1>8, AppendProperties
  <1>10. AuditOf(old, T)
    BY <1>3, <1>8, AuditIs DEF Inv, TablesInv
  <1>11. AuditOf(new, Append(T, e))
    BY <1>3, <1>10, AuditGrows
  <1> HIDE DEF new, e
  <1>12. TablesInv'
    BY <1>1, <1>4, <1>5, <1>6, <1>8, <1>9 DEF Inv, TablesInv
  <1>13. AuditTellsStatus'
    <2>1. /\ periods'[t] = new /\ trail'[t] = Append(T, e)
          /\ \A m \in Months \ {t} : periods'[m] = periods[m] /\ trail'[m] = trail[m]
      BY <1>4, <1>5, <1>8 DEF Inv, TablesInv
    <2>2. \A m \in Months : IF periods[m] = Null THEN trail[m] = <<>>
                                                ELSE AuditOf(periods[m], trail[m])
      BY AuditIs DEF Inv, TablesInv
    <2>3. new # Null
      BY <1>6, NullAssumption
    <2>4. \A m \in Months : IF periods'[m] = Null THEN trail'[m] = <<>>
                                                 ELSE AuditOf(periods'[m], trail'[m])
      BY <1>11, <2>1, <2>2, <2>3
    <2>5. (trail \in [Months -> Seq(Move)])'
      BY <1>12 DEF TablesInv
    <2>6. (AuditTellsStatus <=>
             \A m \in Months : IF periods[m] = Null THEN trail[m] = <<>>
                                                   ELSE AuditOf(periods[m], trail[m]))'
      BY <2>5, AuditIs, PTL
    <2> QED BY <2>4, <2>6 DEF AuditOf, StatusAfter
  <1>14. OnlyAt(r) /\ req'[r] = IdleRequest
    BY <1>1, Finishes DEF Inv
  <1>15. RequestsInv'
    <2>1. ASSUME NEW s \in Requests PROVE OfRequest(req[s])'
      <3>1. PICK q : q = req'[s]
        OBVIOUS
      <3>2. OfRequest(q) /\ ~(q.pc = "locked" /\ q.month = t)
        <4>1. CASE s = r
          BY <1>14, <3>1, <4>1, IdleIsFine DEF IdleRequest
        <4>2. CASE s # r
          <5>1. q = req[s] /\ Apart(req[r], q) /\ OfRequest(q)
            BY <1>14, <3>1, <4>2 DEF OnlyAt, Inv, RequestsInv
          <5> QED BY <1>1, <1>3, <5>1 DEF Apart, Holds
        <4> QED BY <4>1, <4>2
      <3>3. OfRequest(q)'
        BY <1>4, <1>6, <3>2, OthersStay
      <3> QED BY <3>1, <3>3 DEF OfRequest
    <2>2. ASSUME NEW a \in Requests, NEW b \in Requests, a # b
          PROVE  Apart(req[a], req[b])'
      <3>1. Apart(req'[a], req'[b])
        <4>1. ~Holds(IdleRequest)
          BY DEF Holds, IdleRequest
        <4>2. CASE a = r \/ b = r
          BY <1>14, <4>1, <4>2 DEF Apart
        <4>3. CASE a # r /\ b # r
          BY <1>14, <2>2, <4>3 DEF OnlyAt, Inv, RequestsInv
        <4> QED BY <4>2, <4>3
      <3> QED BY <3>1 DEF Apart, Holds
    <2> QED BY <1>14, <2>1, <2>2 DEF RequestsInv, OnlyAt
  <1>16. PoolInv'
    BY <1>1, <1>14, BusyShrinks DEF Inv
  <1> QED BY <1>12, <1>13, <1>15, <1>16 DEF Inv

LEMMA InvCreatePeriod ==
  ASSUME Inv, NEW t \in Months, CreatePeriod(t) PROVE Inv'
  <1> DEFINE new == [status |-> "OPEN", closedBy |-> Null]
  <1>1. /\ periods[t] = Null /\ periods' = [periods EXCEPT ![t] = new]
        /\ UNCHANGED <<trail, active, entries, req>>
    BY DEF CreatePeriod
  <1>2. new \in Period /\ new.status = "OPEN" /\ new.closedBy = Null
    BY DEF Period, PeriodStatus
  <1> HIDE DEF new
  <1>3. /\ periods'[t] = new /\ new # Null
        /\ \A m \in Months \ {t} : periods'[m] = periods[m]
    BY <1>1, <1>2, NullAssumption DEF Inv, TablesInv
  <1>4. TablesInv'
    BY <1>1, <1>2 DEF Inv, TablesInv
  <1>5. AuditTellsStatus'
    <2>1. \A m \in Months : IF periods[m] = Null THEN trail[m] = <<>>
                                                ELSE AuditOf(periods[m], trail[m])
      BY AuditIs DEF Inv, TablesInv
    <2>2. AuditOf(new, <<>>)
      BY <1>2 DEF AuditOf, StatusAfter
    <2>3. \A m \in Months : IF periods'[m] = Null THEN trail'[m] = <<>>
                                                 ELSE AuditOf(periods'[m], trail'[m])
      BY <1>1, <1>3, <2>1, <2>2
    <2>4. (trail \in [Months -> Seq(Move)])'
      BY <1>4 DEF TablesInv
    <2>5. (AuditTellsStatus <=>
             \A m \in Months : IF periods[m] = Null THEN trail[m] = <<>>
                                                   ELSE AuditOf(periods[m], trail[m]))'
      BY <2>4, AuditIs, PTL
    <2> QED BY <2>3, <2>5 DEF AuditOf, StatusAfter
  <1>6. RequestsInv'
    <2>1. ASSUME NEW s \in Requests PROVE OfRequest(req[s])'
      <3>1. PICK q : q = req[s] /\ q = req'[s]
        BY <1>1
      <3>2. OfRequest(q)
        BY <3>1 DEF Inv, RequestsInv
      <3>3. ~(q.pc = "locked" /\ q.month = t)
        BY <1>1, <3>2 DEF OfRequest
      <3>4. OfRequest(q)'
        BY <1>1, <1>2, <3>2, <3>3, OthersStay
      <3> QED BY <3>1, <3>4 DEF OfRequest
    <2>2. ASSUME NEW a \in Requests, NEW b \in Requests, a # b
          PROVE  Apart(req[a], req[b])'
      <3>1. Apart(req'[a], req'[b])
        BY <1>1, <2>2 DEF Inv, RequestsInv
      <3> QED BY <3>1 DEF Apart, Holds
    <2>3. (req = [s \in Requests |-> req[s]])'
      BY <1>1 DEF Inv, RequestsInv
    <2> QED BY <2>1, <2>2, <2>3 DEF RequestsInv
  <1>7. PoolInv'
    BY <1>1 DEF Inv, PoolInv, Busy
  <1> QED BY <1>4, <1>5, <1>6, <1>7 DEF Inv

\* Accounts are only read by the checks of a posting.
LEMMA InvSame ==
  ASSUME Inv, UNCHANGED <<periods, trail, entries, req>>, active' \subseteq Accounts
  PROVE  Inv'
  <1>1. TablesInv'
    BY DEF Inv, TablesInv
  <1>2. RequestsInv'
    <2>1. ASSUME NEW s \in Requests PROVE OfRequest(req[s])'
      <3>1. OfRequest(req'[s])
        BY DEF Inv, RequestsInv
      <3> QED BY <3>1 DEF OfRequest
    <2>2. ASSUME NEW a \in Requests, NEW b \in Requests, a # b
          PROVE  Apart(req[a], req[b])'
      <3>1. Apart(req'[a], req'[b])
        BY <2>2 DEF Inv, RequestsInv
      <3> QED BY <3>1 DEF Apart, Holds
    <2>3. (req = [s \in Requests |-> req[s]])'
      BY DEF Inv, RequestsInv
    <2> QED BY <2>1, <2>2, <2>3 DEF RequestsInv
  <1>3. PoolInv'
    BY DEF Inv, PoolInv, Busy
  <1>4. AuditTellsStatus'
    BY AuditStays DEF Inv
  <1> QED BY <1>1, <1>2, <1>3, <1>4 DEF Inv

-----------------------------------------------------------------------------
LEMMA InvInit == Init => Inv
  <1> SUFFICES ASSUME Init PROVE Inv
    OBVIOUS
  <1>1. \A r \in Requests : req[r] = IdleRequest
    BY DEF Init
  <1>2. TablesInv
    BY DEF Init, TablesInv
  <1>3. RequestsInv
    <2>1. req = [r \in Requests |-> req[r]]
      BY DEF Init
    <2>2. ~Holds(IdleRequest)
      BY DEF Holds, IdleRequest
    <2> QED BY <1>1, <2>1, <2>2, IdleIsFine, NoHoldNoClash DEF RequestsInv
  <1>4. PoolInv
    <2>1. Busy = {}
      BY <1>1 DEF Busy, IdleRequest
    <2> QED BY <2>1, FS_EmptySet, PoolAssumption DEF PoolInv
  <1>5. AuditTellsStatus
    BY <1>2, AuditIs DEF Init, TablesInv
  <1> QED BY <1>2, <1>3, <1>4, <1>5 DEF Inv

LEMMA InvAdvance ==
  ASSUME Inv, NEW r \in Requests, Advance(r) PROVE Inv'
  <1>1. CASE LockSource(r)     BY <1>1, InvLockSource
  <1>2. CASE ReadOriginal(r)   BY <1>2, InvReadOriginal
  <1>3. CASE ValidateLines(r)  BY <1>3, InvValidateLines
  <1>4. CASE ResolvePeriod(r)  BY <1>4, InvResolvePeriod
  <1>5. CASE CheckOpen(r)      BY <1>5, InvCheckOpen
  <1>6. CASE CheckAccount(r)   BY <1>6, InvCheckAccount
  <1>7. CASE InsertEntry(r)    BY <1>7, InvInsertEntry
  <1>8. CASE CommitEntry(r)    BY <1>8, InvCommitEntry
  <1>9. CASE RefusePosting(r)  BY <1>9, InvGivesUp
  <1>10. CASE LockPeriod(r)    BY <1>10, InvLockPeriod
  <1>11. CASE CommitPeriod(r)  BY <1>11, InvCommitPeriod
  <1> QED
    BY <1>1, <1>2, <1>3, <1>4, <1>5, <1>6, <1>7, <1>8, <1>9, <1>10, <1>11 DEF Advance

LEMMA InvNext == Inv /\ [Next]_vars => Inv'
  <1> SUFFICES ASSUME Inv, [Next]_vars PROVE Inv'
    OBVIOUS
  <1>1. ASSUME NEW m \in Months, CreatePeriod(m) PROVE Inv'
    BY <1>1, InvCreatePeriod
  <1>2. ASSUME NEW a \in Accounts, Deactivate(a) PROVE Inv'
    <2>1. active' \subseteq Accounts
      BY <1>2 DEF Deactivate, Inv, TablesInv
    <2> QED BY <1>2, <2>1, InvSame DEF Deactivate
  <1>3. ASSUME NEW r \in Requests, NEW m \in Months,
               \/ \E d \in Sources, lines \in Postings : BeginPost(r, d, m, lines)
               \/ \E d \in Sources : BeginReverse(r, d, m)
               \/ \E s \in PeriodStatus, u \in Users : BeginTransition(r, m, s, u)
               \/ \E u \in Users : BeginReopen(r, m, u)
        PROVE  Inv'
    BY <1>3, InvBegins
  <1>4. ASSUME NEW r \in Requests, Advance(r) PROVE Inv'
    BY <1>4, InvAdvance
  <1>5. ASSUME NEW r \in Requests, ConnectionTimeout(r) \/ Rollback(r) PROVE Inv'
    BY <1>5, InvGivesUp
  <1>6. CASE UNCHANGED vars
    <2>1. active' \subseteq Accounts
      BY <1>6 DEF vars, Inv, TablesInv
    <2> QED BY <1>6, <2>1, InvSame DEF vars
  <1> QED BY <1>1, <1>2, <1>3, <1>4, <1>5, <1>6 DEF Next

THEOREM Invariance == Spec => []Inv
  BY InvInit, InvNext, PTL DEF Spec

\* The tables hold what their columns allow, requests are of their types, and the
\* pool never gives out more connections than it has (typeorm.config.ts:21-33).
THEOREM TypeCorrect == Spec => []TypeOK
  <1>1. Inv => TypeOK
    <2> SUFFICES ASSUME Inv PROVE TypeOK
      OBVIOUS
    <2>1. req \in [Requests -> Request]
      BY DEF Inv, RequestsInv, OfRequest
    <2> QED BY <2>1 DEF Inv, TablesInv, PoolInv, Busy, InUse, TypeOK
  <1> QED BY <1>1, Invariance, PTL

\* The audit rows of a period tell how it came to its status, and who closed it
\* (periods.service.ts:62-133).
THEOREM TrailTellsStatus == Spec => []AuditTellsStatus
  <1>1. Inv => AuditTellsStatus
    BY DEF Inv
  <1> QED BY <1>1, Invariance, PTL

\* Nobody changes the period of an entry that has been inserted and not yet
\* committed (posting.service.ts:42-78).
THEOREM InsertPinsPeriod == Spec => EntryPinsPeriod
  <1> DEFINE A == \A r \in Requests : req[r].pc = "inserted" =>
                    periods'[req[r].month] = periods[req[r].month]
  <1>1. Inv /\ [Next]_vars => [A]_vars
    <2> SUFFICES ASSUME Inv, Next, NEW r \in Requests, req[r].pc = "inserted"
                 PROVE  periods'[req[r].month] = periods[req[r].month]
      OBVIOUS
    <2>1. OfRequest(req[r])
      BY DEF Inv, RequestsInv
    <2>2. PICK m \in Months : m = req[r].month /\ periods[m] # Null
      BY <2>1 DEF OfRequest
    <2>3. CASE periods' = periods
      BY <2>3
    <2>4. ASSUME NEW t \in Months, CreatePeriod(t)
          PROVE  periods'[m] = periods[m]
      BY <2>2, <2>4 DEF CreatePeriod, Inv, TablesInv
    <2>5. ASSUME NEW s \in Requests, CommitPeriod(s)
          PROVE  periods'[m] = periods[m]
      <3>1. s # r /\ Apart(req[s], req[r]) /\ req[s].pc = "locked"
        BY <2>5 DEF CommitPeriod, Inv, RequestsInv
      <3>2. req[s].month # m
        BY <2>2, <3>1 DEF Apart, Holds
      <3>3. PICK t, new : t = req[s].month /\ periods' = [periods EXCEPT ![t] = new]
        BY <2>5 DEF CommitPeriod
      <3> QED BY <2>2, <3>2, <3>3 DEF Inv, TablesInv
    <2>6. \/ periods' = periods
          \/ \E t \in Months : CreatePeriod(t)
          \/ \E s \in Requests : CommitPeriod(s)
      <3>1. ASSUME NEW s \in Requests, Advance(s), ~CommitPeriod(s) PROVE periods' = periods
        BY <3>1 DEF Advance, LockSource, ReadOriginal, ValidateLines, ResolvePeriod, CheckOpen,
                    CheckAccount, InsertEntry, CommitEntry, RefusePosting, LockPeriod
      <3>2. ASSUME NEW s \in Requests, NEW n \in Months,
                   \/ \E d \in Sources, lines \in Postings : BeginPost(s, d, n, lines)
                   \/ \E d \in Sources : BeginReverse(s, d, n)
                   \/ \E x \in PeriodStatus, u \in Users : BeginTransition(s, n, x, u)
                   \/ \E u \in Users : BeginReopen(s, n, u)
            PROVE  periods' = periods
        BY <3>2 DEF BeginPost, BeginReverse, BeginTransition, BeginReopen, Begin
      <3>3. ASSUME NEW s \in Requests, ConnectionTimeout(s) \/ Rollback(s)
            PROVE  periods' = periods
        BY <3>3 DEF ConnectionTimeout, Rollback
      <3>4. ASSUME NEW a \in Accounts, Deactivate(a) PROVE periods' = periods
        BY <3>4 DEF Deactivate
      <3> QED BY <3>1, <3>2, <3>3, <3>4 DEF Next
    <2> QED BY <2>2, <2>3, <2>4, <2>5, <2>6
  <1> QED BY <1>1, Invariance, PTL DEF Spec, EntryPinsPeriod

-----------------------------------------------------------------------------
(* What is in the journal: rows in pairs, converted at their rate, that     *)
(* balance; and reversals that mirror an entry marked as reversed.          *)

PostedWell(entry) ==
  InPairs(entry.lines) /\ Converted(entry.lines) /\ CheckEntryBalance(entry.lines)

ReversesWell(entry) ==
  entry.reverses # 0 =>
    /\ entry.reverses \in DOMAIN entries
    /\ entries[entry.reverses].status = "REVERSED"
    /\ Mirrors(entry.lines, entries[entry.reverses].lines)

\* What a request is to post.
LinesInv(q) ==
  /\ q.op = "post" => q.original = 0 /\ InPairs(q.lines)
  /\ q.pc = "original" => q.op = "reverse"
  /\ q.op = "reverse" /\ q.pc \notin {"begun", "original"} =>
       /\ q.original \in DOMAIN entries
       /\ q.lines = [k \in DOMAIN entries[q.original].lines |->
                       Swapped(entries[q.original].lines[k])]

JournalInv ==
  /\ \A i \in DOMAIN entries : PostedWell(entries[i]) /\ ReversesWell(entries[i])
  /\ \A r \in Requests : LinesInv(req[r])

LEMMA EntryHasRows ==
  ASSUME TablesInv, NEW i \in DOMAIN entries PROVE entries[i].lines \in Seq(Row)
  <1>1. entries \in Seq(Entry)
    BY DEF TablesInv
  <1>2. entries[i] \in Entry
    BY <1>1, SeqIsFinite
  <1> QED BY <1>2 DEF Entry

\* The journal stays, and one request goes on.
LEMMA JournalStays ==
  ASSUME JournalInv, entries' = entries, NEW r \in Requests, OnlyAt(r),
         LinesInv(req'[r])
  PROVE  JournalInv'
  <1>1. ASSUME NEW s \in Requests PROVE LinesInv(req[s])'
    <2>1. LinesInv(req'[s])
      BY DEF JournalInv, OnlyAt
    <2> QED BY <2>1 DEF LinesInv
  <1>2. ASSUME NEW i \in DOMAIN entries'
        PROVE  (PostedWell(entries[i]) /\ ReversesWell(entries[i]))'
    <2>1. PostedWell(entries'[i]) /\ ReversesWell(entries'[i])
      BY DEF JournalInv
    <2> QED BY <2>1 DEF ReversesWell, PostedWell
  <1> QED BY <1>1, <1>2 DEF JournalInv

LEMMA IdleHasNoLines == LinesInv(IdleRequest)
  BY DEF LinesInv, IdleRequest

LEMMA JournalFinish ==
  ASSUME Inv, JournalInv, NEW r \in Requests, Finish(r), entries' = entries
  PROVE  JournalInv'
  <1>1. OnlyAt(r) /\ req'[r] = IdleRequest
    BY Finishes DEF Inv
  <1> QED BY <1>1, IdleHasNoLines, JournalStays

\* A request that gets on with the lines it has.
LEMMA JournalStep ==
  ASSUME Inv, JournalInv, NEW r \in Requests, NEW pc \in PCs, Step(r, pc),
         entries' = entries, pc # "original", req[r].pc # "original",
         req[r].op = "reverse" => req[r].pc # "begun"
  PROVE  JournalInv'
  <1>1. PICK q : q = req'[r]
    OBVIOUS
  <1>2. OnlyAt(r) /\ q.pc = pc /\ q.op = req[r].op /\ q.lines = req[r].lines
        /\ q.original = req[r].original
    BY <1>1, Steps DEF Inv
  <1>3. LinesInv(req[r])
    BY DEF JournalInv
  <1>4. LinesInv(q)
    BY <1>2, <1>3 DEF LinesInv
  <1> QED BY <1>1, <1>2, <1>4, JournalStays

LEMMA JournalBegins ==
  ASSUME Inv, JournalInv, NEW r \in Requests, NEW m \in Months,
         \/ \E d \in Sources, lines \in Postings : BeginPost(r, d, m, lines)
         \/ \E d \in Sources : BeginReverse(r, d, m)
         \/ \E s \in PeriodStatus, u \in Users : BeginTransition(r, m, s, u)
         \/ \E u \in Users : BeginReopen(r, m, u)
  PROVE  JournalInv'
  <1>0. ASSUME NEW q, Begin(r, q), LinesInv(q) PROVE JournalInv'
    <2>1. req' = [req EXCEPT ![r] = q] /\ entries' = entries
      BY <1>0 DEF Begin
    <2>2. req'[r] = q /\ OnlyAt(r)
      BY <2>1, Becomes DEF Inv
    <2> QED BY <1>0, <2>1, <2>2, JournalStays
  <1>i. IdleRequest \in Request /\ IdleRequest.original = 0
    BY IdleIsFine DEF IdleRequest
  <1>1. ASSUME NEW d \in Sources, NEW lines \in Postings, BeginPost(r, d, m, lines)
        PROVE  JournalInv'
    <2> DEFINE q == [IdleRequest EXCEPT !.op = "post", !.pc = "begun", !.source = d,
                       !.month = m, !.lines = lines, !.todo = lines]
    <2>1. InPairs(lines)
      BY PostingsAssumption
    <2>2. q.op = "post" /\ q.pc = "begun" /\ q.original = 0 /\ q.lines = lines
      BY <1>i DEF Request
    <2>3. Begin(r, q)
      BY <1>1 DEF BeginPost
    <2> HIDE DEF q
    <2>4. LinesInv(q)
      BY <2>1, <2>2 DEF LinesInv
    <2> QED BY <1>0, <2>3, <2>4
  <1>2. ASSUME NEW d \in Sources, BeginReverse(r, d, m) PROVE JournalInv'
    <2> DEFINE q == [IdleRequest EXCEPT !.op = "reverse", !.pc = "begun",
                       !.source = d, !.month = m]
    <2>1. q.op = "reverse" /\ q.pc = "begun"
      BY <1>i DEF Request
    <2>2. Begin(r, q)
      BY <1>2 DEF BeginReverse
    <2> HIDE DEF q
    <2> QED BY <1>0, <2>1, <2>2 DEF LinesInv
  <1>3. ASSUME NEW s \in PeriodStatus, NEW u \in Users, BeginTransition(r, m, s, u)
        PROVE  JournalInv'
    <2> DEFINE q == [IdleRequest EXCEPT !.op = "transition", !.pc = "begun",
                       !.month = m, !.next = s, !.by = u]
    <2>1. q.op = "transition" /\ q.pc = "begun"
      BY <1>i DEF Request
    <2>2. Begin(r, q)
      BY <1>3 DEF BeginTransition
    <2> HIDE DEF q
    <2> QED BY <1>0, <2>1, <2>2 DEF LinesInv
  <1>4. ASSUME NEW u \in Users, BeginReopen(r, m, u) PROVE JournalInv'
    <2> DEFINE q == [IdleRequest EXCEPT !.op = "reopen", !.pc = "begun",
                       !.month = m, !.next = "OPEN", !.by = u]
    <2>1. q.op = "reopen" /\ q.pc = "begun"
      BY <1>i DEF Request
    <2>2. Begin(r, q)
      BY <1>4 DEF BeginReopen
    <2> HIDE DEF q
    <2> QED BY <1>0, <2>1, <2>2 DEF LinesInv
  <1> QED BY <1>1, <1>2, <1>3, <1>4

\* The document is locked: a reversal has nothing to post yet.
LEMMA JournalLockSource ==
  ASSUME Inv, JournalInv, NEW r \in Requests, LockSource(r) PROVE JournalInv'
  <1>1. /\ req[r].pc = "begun" /\ req[r].op \in PostingOps /\ entries' = entries
        /\ Step(r, IF req[r].op = "reverse" THEN "original" ELSE "validate")
    BY DEF LockSource
  <1>2. PICK pc \in PCs : /\ pc = IF req[r].op = "reverse" THEN "original" ELSE "validate"
                          /\ Step(r, pc)
    BY <1>1 DEF PCs
  <1>3. PICK q : q = req'[r]
    OBVIOUS
  <1>4. OnlyAt(r) /\ q.pc = pc /\ q.op = req[r].op /\ q.lines = req[r].lines
        /\ q.original = req[r].original
    BY <1>2, <1>3, Steps DEF Inv
  <1>5. LinesInv(req[r])
    BY DEF JournalInv
  <1>6. LinesInv(q)
    BY <1>1, <1>2, <1>4, <1>5 DEF LinesInv, PostingOps
  <1> QED BY <1>1, <1>3, <1>4, <1>6, JournalStays

LEMMA JournalReadOriginal ==
  ASSUME Inv, JournalInv, NEW r \in Requests, ReadOriginal(r) PROVE JournalInv'
  <1>0. req[r].pc = "original" /\ entries' = entries
    BY DEF ReadOriginal
  <1>1. PICK i \in DOMAIN entries :
          LET lines == [k \in DOMAIN entries[i].lines |-> Swapped(entries[i].lines[k])] IN
          req' = [req EXCEPT ![r].pc = "validate", ![r].original = i,
                             ![r].lines = lines, ![r].todo = lines]
    BY DEF ReadOriginal
  <1> DEFINE lines == [k \in DOMAIN entries[i].lines |-> Swapped(entries[i].lines[k])]
  <1>2. PICK p \in Request : p = req[r]
    BY DEF Inv, RequestsInv, OfRequest
  <1> DEFINE q == [p EXCEPT !.pc = "validate", !.original = i, !.lines = lines, !.todo = lines]
  <1>3. req' = [req EXCEPT ![r] = q]
    BY <1>1, <1>2 DEF Inv, RequestsInv
  <1>4. p.op = "reverse"
    BY <1>0, <1>2 DEF JournalInv, LinesInv
  <1>5. /\ q.pc = "validate" /\ q.op = p.op /\ q.original = i /\ q.lines = lines
    BY <1>2 DEF Request
  <1>6. LinesInv(q)
    BY <1>4, <1>5 DEF LinesInv
  <1> HIDE DEF q, lines
  <1>7. req'[r] = q /\ OnlyAt(r)
    BY <1>3, Becomes DEF Inv
  <1> QED BY <1>0, <1>6, <1>7, JournalStays

LEMMA JournalCheckAccount ==
  ASSUME Inv, JournalInv, NEW r \in Requests, CheckAccount(r) PROVE JournalInv'
  <1>0. req[r].pc = "accounts" /\ entries' = entries
    BY DEF CheckAccount
  <1>2. PICK p \in Request : p = req[r]
    BY DEF Inv, RequestsInv, OfRequest
  <1> DEFINE pc == IF Len(p.todo) = 1 THEN "insert" ELSE "accounts"
             q == [p EXCEPT !.todo = Tail(p.todo), !.pc = pc]
  <1>3. req' = [req EXCEPT ![r] = q]
    BY <1>0, <1>2 DEF CheckAccount, Inv, RequestsInv
  <1>4. /\ q.pc = pc /\ q.op = p.op /\ q.original = p.original /\ q.lines = p.lines
    BY <1>2 DEF Request
  <1>5. pc \notin {"begun", "original"}
    OBVIOUS
  <1>6. LinesInv(p) /\ p.pc = "accounts"
    BY <1>0, <1>2 DEF JournalInv
  <1> HIDE DEF q, pc
  <1>7. LinesInv(q)
    BY <1>4, <1>5, <1>6 DEF LinesInv
  <1>8. req'[r] = q /\ OnlyAt(r)
    BY <1>3, Becomes DEF Inv
  <1> QED BY <1>0, <1>7, <1>8, JournalStays

LEMMA JournalLockPeriod ==
  ASSUME Inv, JournalInv, NEW r \in Requests, LockPeriod(r) PROVE JournalInv'
  <1>0. req[r].op \in {"transition", "reopen"} /\ entries' = entries
    BY DEF LockPeriod
  <1>1. CASE Finish(r)
    BY <1>0, <1>1, JournalFinish
  <1>2. ASSUME NEW mem, req' = [req EXCEPT ![r].pc = "locked", ![r].mem = mem]
        PROVE  JournalInv'
    <2>1. PICK p \in Request : p = req[r]
      BY DEF Inv, RequestsInv, OfRequest
    <2> DEFINE q == [p EXCEPT !.pc = "locked", !.mem = mem]
    <2>2. req' = [req EXCEPT ![r] = q]
      BY <1>2, <2>1 DEF Inv, RequestsInv
    <2>3. q.pc = "locked" /\ q.op = p.op
      BY <2>1 DEF Request
    <2> HIDE DEF q
    <2>4. LinesInv(q)
      BY <1>0, <2>1, <2>3 DEF LinesInv
    <2>5. req'[r] = q /\ OnlyAt(r)
      BY <2>2, Becomes DEF Inv
    <2> QED BY <1>0, <2>4, <2>5, JournalStays
  <1> QED BY <1>1, <1>2 DEF LockPeriod

\* What a commit adds: the lines are in pairs, and those of a reversal are those of
\* an entry that stays as it is.
LEMMA JournalCommitEntry ==
  ASSUME Inv, Inv', JournalInv, NEW r \in Requests, CommitEntry(r) PROVE JournalInv'
  <1>1. req[r].pc = "inserted" /\ Finish(r) /\ CheckEntryBalance(Rows(r))
    BY DEF CommitEntry
  <1>2. /\ OfRequest(req[r]) /\ req[r].op \in PostingOps /\ LinesInv(req[r])
    BY <1>1, Posting DEF PostingPCs, JournalInv
  <1>3. PICK i \in Nat, lines \in Seq(Line) : i = req[r].original /\ lines = req[r].lines
    BY <1>2 DEF OfRequest, Request
  <1>4. PICK rows : rows = Rows(r) /\ rows = [k \in DOMAIN lines |-> Stored(lines[k])]
    BY <1>3 DEF Rows
  <1>5. PICK new : new = [source |-> req[r].source, month |-> req[r].month, lines |-> rows,
                          status |-> "POSTED", reverses |-> i]
    OBVIOUS
  <1> DEFINE marked == IF i = 0 THEN entries ELSE [entries EXCEPT ![i].status = "REVERSED"]
  <1>6. entries' = Append(marked, new)
    BY <1>3, <1>4, <1>5 DEF CommitEntry, Marked
  <1>7. PICK n \in Nat : DOMAIN entries = 1..n /\ Len(entries) = n
                         /\ \A j \in 1..n : entries[j] \in Entry
    BY DEF Inv, TablesInv
  <1>8. /\ DOMAIN entries' = 1..(n + 1) /\ entries'[n + 1] = new
        /\ \A j \in 1..n : /\ entries'[j].lines = entries[j].lines
                           /\ entries'[j].reverses = entries[j].reverses
                           /\ entries[j].status = "REVERSED" => entries'[j].status = "REVERSED"
        /\ i \in 1..n => entries'[i].status = "REVERSED"
    <2>0. entries \in Seq(Entry)
      BY DEF Inv, TablesInv
    <2>1. Len(marked) = n /\ DOMAIN marked = 1..n
      BY <1>7, <2>0
    <2>2. \A j \in 1..n : /\ marked[j].lines = entries[j].lines
                          /\ marked[j].reverses = entries[j].reverses
                          /\ entries[j].status = "REVERSED" => marked[j].status = "REVERSED"
      BY <1>7, <2>0 DEF Entry
    <2>3. i \in 1..n => marked[i].status = "REVERSED"
      BY <1>7, <2>0 DEF Entry
    <2> HIDE DEF marked
    <2>4. /\ DOMAIN entries' = 1..(n + 1) /\ entries'[n + 1] = new
          /\ \A j \in 1..n : entries'[j] = marked[j]
      BY <1>6, <2>1
    <2> QED BY <2>2, <2>3, <2>4
  <1>9. InPairs(lines) /\ (i # 0 => i \in 1..n /\ Mirrors(rows, entries[i].lines))
    <2>1. CASE req[r].op = "post"
      BY <1>2, <1>3, <2>1 DEF LinesInv
    <2>2. CASE req[r].op = "reverse"
      <3>1. /\ i \in 1..n
            /\ lines = [k \in DOMAIN entries[i].lines |-> Swapped(entries[i].lines[k])]
        BY <1>1, <1>2, <1>3, <1>7, <2>2 DEF LinesInv
      <3>2. PICK original \in Seq(Row) : original = entries[i].lines
        BY <1>7, <3>1 DEF Entry
      <3>3. InPairs(original) /\ Converted(original)
        BY <1>7, <3>1, <3>2 DEF JournalInv, PostedWell
      <3>4. DOMAIN original \subseteq Int
        OBVIOUS
      <3>5. InPairs(lines)
        BY <3>1, <3>2, <3>3, <3>4, SwappedInPairs
      <3>6. Mirrors(rows, original)
        <4>1. lines = [k \in DOMAIN original |-> Swapped(original[k])]
          BY <3>1, <3>2
        <4>2. rows = [k \in DOMAIN lines |-> Stored(lines[k])]
          BY <1>4
        <4> QED BY <3>3, <4>1, <4>2, StoredMirrors
      <3> QED BY <3>1, <3>2, <3>5, <3>6
    <2> QED BY <1>2, <2>1, <2>2 DEF PostingOps
  <1>10. PostedWell(new)
    <2>1. InPairs(rows) /\ Converted(rows)
      BY <1>4, <1>9, StoredInPairs
    <2> QED BY <1>1, <1>4, <1>5, <2>1 DEF PostedWell
  <1>11. new.lines = rows /\ new.reverses = i
    BY <1>5
  <1> HIDE DEF marked
  <1>12. ASSUME NEW j \in DOMAIN entries'
         PROVE  (PostedWell(entries[j]) /\ ReversesWell(entries[j]))'
    <2>1. CASE j = n + 1
      <3>1. i # 0 => /\ i \in DOMAIN entries' /\ entries'[i].status = "REVERSED"
                     /\ Mirrors(rows, entries'[i].lines)
        BY <1>7, <1>8, <1>9
      <3> QED BY <1>8, <1>10, <1>11, <2>1, <3>1 DEF PostedWell, ReversesWell
    <2>2. CASE j \in 1..n
      <3>1. PICK e : e = entries[j] /\ PostedWell(e) /\ ReversesWell(e)
        BY <1>7, <2>2 DEF JournalInv
      <3>2. PICK f : f = entries'[j] /\ f.lines = e.lines /\ f.reverses = e.reverses
        BY <1>8, <2>2, <3>1
      <3>3. PostedWell(f)
        BY <3>1, <3>2 DEF PostedWell
      <3>4. f.reverses # 0 => /\ f.reverses \in DOMAIN entries'
                              /\ entries'[f.reverses].status = "REVERSED"
                              /\ Mirrors(f.lines, entries'[f.reverses].lines)
        BY <1>7, <1>8, <3>1, <3>2 DEF ReversesWell
      <3> QED BY <3>2, <3>3, <3>4 DEF PostedWell, ReversesWell
    <2> QED BY <1>8, <2>1, <2>2
  <1>13. ASSUME NEW s \in Requests PROVE LinesInv(req[s])'
    <2>1. OnlyAt(r) /\ req'[r] = IdleRequest
      BY <1>1, Finishes DEF Inv
    <2>2. PICK q : q = req'[s] /\ LinesInv(q)
      BY <2>1, IdleHasNoLines DEF OnlyAt, JournalInv
    <2>3. q.op = "reverse" /\ q.pc \notin {"begun", "original"} =>
            /\ q.original \in DOMAIN entries'
            /\ q.lines = [k \in DOMAIN entries'[q.original].lines |->
                            Swapped(entries'[q.original].lines[k])]
      BY <1>7, <1>8, <2>2 DEF LinesInv
    <2> QED BY <2>2, <2>3 DEF LinesInv
  <1> QED BY <1>12, <1>13 DEF JournalInv

LEMMA JournalAdvance ==
  ASSUME Inv, Inv', JournalInv, NEW r \in Requests, Advance(r) PROVE JournalInv'
  <1>0. {"resolve", "open", "accounts", "inserted"} \subseteq PCs
    BY DEF PCs
  <1>1. CASE LockSource(r)     BY <1>1, JournalLockSource
  <1>2. CASE ReadOriginal(r)   BY <1>2, JournalReadOriginal
  <1>3. CASE ValidateLines(r)  BY <1>0, <1>3, JournalStep DEF ValidateLines
  <1>4. CASE ResolvePeriod(r)  BY <1>0, <1>4, JournalStep DEF ResolvePeriod
  <1>5. CASE CheckOpen(r)      BY <1>0, <1>5, JournalStep DEF CheckOpen
  <1>6. CASE CheckAccount(r)   BY <1>6, JournalCheckAccount
  <1>7. CASE InsertEntry(r)    BY <1>0, <1>7, JournalStep DEF InsertEntry
  <1>8. CASE CommitEntry(r)    BY <1>8, JournalCommitEntry
  <1>9. CASE RefusePosting(r)  BY <1>9, JournalFinish DEF RefusePosting
  <1>10. CASE LockPeriod(r)    BY <1>10, JournalLockPeriod
  <1>11. CASE CommitPeriod(r)  BY <1>11, JournalFinish DEF CommitPeriod
  <1> QED
    BY <1>1, <1>2, <1>3, <1>4, <1>5, <1>6, <1>7, <1>8, <1>9, <1>10, <1>11 DEF Advance

LEMMA JournalSame ==
  ASSUME JournalInv, UNCHANGED <<entries, req>> PROVE JournalInv'
  <1>1. ASSUME NEW i \in DOMAIN entries'
        PROVE  (PostedWell(entries[i]) /\ ReversesWell(entries[i]))'
    <2>1. PostedWell(entries'[i]) /\ ReversesWell(entries'[i])
      BY DEF JournalInv
    <2> QED BY <2>1 DEF ReversesWell, PostedWell
  <1>2. ASSUME NEW s \in Requests PROVE LinesInv(req[s])'
    <2>1. LinesInv(req'[s])
      BY DEF JournalInv
    <2> QED BY <2>1 DEF LinesInv
  <1> QED BY <1>1, <1>2 DEF JournalInv

LEMMA JournalNext == Inv /\ Inv' /\ JournalInv /\ [Next]_vars => JournalInv'
  <1> SUFFICES ASSUME Inv, Inv', JournalInv, [Next]_vars PROVE JournalInv'
    OBVIOUS
  <1>1. ASSUME NEW m \in Months, CreatePeriod(m) PROVE JournalInv'
    BY <1>1, JournalSame DEF CreatePeriod
  <1>2. ASSUME NEW a \in Accounts, Deactivate(a) PROVE JournalInv'
    BY <1>2, JournalSame DEF Deactivate
  <1>3. ASSUME NEW r \in Requests, NEW m \in Months,
               \/ \E d \in Sources, lines \in Postings : BeginPost(r, d, m, lines)
               \/ \E d \in Sources : BeginReverse(r, d, m)
               \/ \E s \in PeriodStatus, u \in Users : BeginTransition(r, m, s, u)
               \/ \E u \in Users : BeginReopen(r, m, u)
        PROVE  JournalInv'
    BY <1>3, JournalBegins
  <1>4. ASSUME NEW r \in Requests, Advance(r) PROVE JournalInv'
    BY <1>4, JournalAdvance
  <1>5. ASSUME NEW r \in Requests, ConnectionTimeout(r) \/ Rollback(r) PROVE JournalInv'
    BY <1>5, JournalFinish DEF ConnectionTimeout, Rollback
  <1>6. CASE UNCHANGED vars
    BY <1>6, JournalSame DEF vars
  <1> QED BY <1>1, <1>2, <1>3, <1>4, <1>5, <1>6 DEF Next

LEMMA JournalInit == Init => JournalInv
  <1> SUFFICES ASSUME Init PROVE JournalInv
    OBVIOUS
  <1>1. DOMAIN entries = {} /\ \A r \in Requests : req[r] = IdleRequest
    BY DEF Init
  <1> QED BY <1>1, IdleHasNoLines DEF JournalInv

THEOREM JournalInvariance == Spec => [](Inv /\ JournalInv)
  <1>1. Init => Inv /\ JournalInv
    BY InvInit, JournalInit
  <1>2. (Inv /\ JournalInv) /\ [Next]_vars => (Inv /\ JournalInv)'
    <2>1. Inv /\ [Next]_vars => Inv'
      BY InvNext
    <2> QED BY <2>1, JournalNext
  <1> QED BY <1>1, <1>2, PTL DEF Spec

\* Every entry balances in the base currency, whatever the truncation took off its
\* lines (decimal.util.ts:73-79, posting.service.ts:68-70).
THEOREM BaseCurrencyBalances == Spec => []BaseBalances
  <1>1. Inv /\ JournalInv => BaseBalances
    <2> SUFFICES ASSUME Inv, JournalInv, NEW i \in DOMAIN entries
                 PROVE  SumOf("baseDebit", entries[i].lines)
                          = SumOf("baseCredit", entries[i].lines)
      BY DEF BaseBalances
    <2>1. PICK rows \in Seq(Row) : rows = entries[i].lines
      BY EntryHasRows DEF Inv
    <2>2. InPairs(rows) /\ Converted(rows)
      BY <2>1 DEF JournalInv, PostedWell
    <2> QED BY <2>1, <2>2, PairsBalance
  <1> QED BY <1>1, JournalInvariance, PTL

\* A reversal leaves nothing of the entry it reverses, which is marked as reversed
\* (posting.service.ts:102-156).
THEOREM ReversalsCancel == Spec => []ReversalCancels
  <1>1. Inv /\ JournalInv => ReversalCancels
    <2> SUFFICES ASSUME Inv, JournalInv, NEW j \in DOMAIN entries, entries[j].reverses # 0
                 PROVE  /\ entries[entries[j].reverses].status = "REVERSED"
                        /\ Cancel(entries[entries[j].reverses], entries[j])
      BY DEF ReversalCancels
    <2>1. PICK i \in DOMAIN entries : /\ i = entries[j].reverses
                                      /\ entries[i].status = "REVERSED"
                                      /\ Mirrors(entries[j].lines, entries[i].lines)
      BY DEF JournalInv, ReversesWell
    <2>2. entries[i].lines \in Seq(Row) /\ entries[j].lines \in Seq(Row)
      BY EntryHasRows DEF Inv
    <2> QED BY <2>1, <2>2, MirrorsCancel
  <1> QED BY <1>1, JournalInvariance, PTL

\* The reports tell one story, over any months, after any postings and reversals
\* (analytics.service.ts:22-159, budgets.service.ts:144-179).
THEOREM ReportsAgree == Spec => []BooksAgree
  <1>1. Inv /\ JournalInv => IsBalanced(entries)
    <2> SUFFICES ASSUME Inv, JournalInv PROVE IsBalanced(entries)
      OBVIOUS
    <2>1. \A e \in Entry : IsFiniteSet(DOMAIN e.lines) /\ \A k \in DOMAIN e.lines : e.lines[k] \in Row
      <3> SUFFICES ASSUME NEW e \in Entry
                   PROVE  IsFiniteSet(DOMAIN e.lines) /\ \A k \in DOMAIN e.lines : e.lines[k] \in Row
        OBVIOUS
      <3>1. e.lines \in Seq(Row)
        BY DEF Entry
      <3> QED BY <3>1, SeqIsFinite
    <2>2. entries \in Seq(Entry)
      BY DEF Inv, TablesInv
    <2>3. IsFiniteSet(DOMAIN entries) /\ \A i \in DOMAIN entries : entries[i] \in Entry
      BY <2>2, SeqIsFinite
    <2> QED BY <2>1, <2>3 DEF IsBalanced, JournalInv, PostedWell
  <1>2. ASSUME IsBalanced(entries) PROVE BooksAgree
    BY <1>2, TrialBalanceOfBalanced, ProfitOfBalanced, CashFlowOfBalanced,
       CounterpartiesOfBalanced, ActualOfBalanced DEF BooksAgree
  <1> QED BY <1>1, <1>2, JournalInvariance, PTL

-----------------------------------------------------------------------------
(* The journal is only added to. The status that a reversal has read lasts  *)
(* until it commits: whoever changes it has the lock of the same document.  *)

LocksIts(q) == q.op \in PostingOps /\ q.pc \in PostingPCs

\* What a reversal has read is still so.
Reversible(q) ==
  q.op = "reverse" /\ q.pc \in PostingPCs \ {"original"} =>
    /\ q.original \in DOMAIN entries
    /\ entries[q.original].source = q.source
    /\ entries[q.original].status = "POSTED" /\ entries[q.original].reverses = 0

LocksInv ==
  /\ \A r, s \in Requests : r # s /\ LocksIts(req[r]) /\ LocksIts(req[s])
                              => req[r].source # req[s].source
  /\ \A r \in Requests : Reversible(req[r])

LEMMA LocksStay ==
  ASSUME LocksInv, entries' = entries, NEW r \in Requests, OnlyAt(r), NEW q, q = req'[r],
         Reversible(q),
         \A s \in Requests \ {r} : LocksIts(q) /\ LocksIts(req[s]) => q.source # req[s].source
  PROVE  LocksInv'
  <1>1. ASSUME NEW a \in Requests, NEW b \in Requests, a # b,
               LocksIts(req'[a]), LocksIts(req'[b])
        PROVE  req'[a].source # req'[b].source
    <2>1. CASE a # r /\ b # r
      BY <1>1, <2>1 DEF LocksInv, OnlyAt
    <2>2. CASE a = r
      BY <1>1, <2>2 DEF OnlyAt
    <2>3. CASE b = r
      BY <1>1, <2>3 DEF OnlyAt
    <2> QED BY <2>1, <2>2, <2>3
  <1>2. ASSUME NEW s \in Requests PROVE Reversible(req[s])'
    <2>1. Reversible(req'[s])
      BY DEF LocksInv, OnlyAt
    <2> QED BY <2>1 DEF Reversible
  <1>3. ASSUME NEW a \in Requests, NEW b \in Requests, a # b,
               LocksIts(req[a])', LocksIts(req[b])'
        PROVE  req'[a].source # req'[b].source
    BY <1>1, <1>3 DEF LocksIts
  <1> QED BY <1>2, <1>3 DEF LocksInv

\* A request that is not posting, or not yet or no longer.
LEMMA LocksNone ==
  ASSUME LocksInv, entries' = entries, NEW r \in Requests, OnlyAt(r),
         req'[r].pc \notin PostingPCs
  PROVE  LocksInv'
  <1>1. ~LocksIts(req'[r]) /\ Reversible(req'[r])
    BY DEF LocksIts, Reversible
  <1> QED BY <1>1, LocksStay

LEMMA LocksFinish ==
  ASSUME Inv, LocksInv, NEW r \in Requests, Finish(r), entries' = entries PROVE LocksInv'
  <1>1. OnlyAt(r) /\ req'[r] = IdleRequest
    BY Finishes DEF Inv
  <1>2. IdleRequest.pc \notin PostingPCs
    BY DEF IdleRequest, PostingPCs, Reads
  <1> QED BY <1>1, <1>2, LocksNone

\* A posting that has its lock, and its original, goes on.
LEMMA LocksStep ==
  ASSUME Inv, LocksInv, NEW r \in Requests, req[r].pc \in PostingPCs \ {"original"},
         OnlyAt(r), entries' = entries, NEW q, q = req'[r],
         q.op = req[r].op, q.source = req[r].source, q.original = req[r].original
  PROVE  LocksInv'
  <1>1. req[r].op \in PostingOps
    BY Posting
  <1>2. LocksIts(req[r]) /\ Reversible(req[r])
    BY <1>1 DEF LocksIts, LocksInv
  <1>3. Reversible(q)
    BY <1>2 DEF Reversible
  <1>4. \A s \in Requests \ {r} : LocksIts(req[s]) => q.source # req[s].source
    BY <1>2 DEF LocksInv
  <1> QED BY <1>3, <1>4, LocksStay

LEMMA LocksBegins ==
  ASSUME Inv, LocksInv, NEW r \in Requests, NEW m \in Months,
         \/ \E d \in Sources, lines \in Postings : BeginPost(r, d, m, lines)
         \/ \E d \in Sources : BeginReverse(r, d, m)
         \/ \E s \in PeriodStatus, u \in Users : BeginTransition(r, m, s, u)
         \/ \E u \in Users : BeginReopen(r, m, u)
  PROVE  LocksInv'
  <1>0. ASSUME NEW q, Begin(r, q), q.pc = "begun" PROVE LocksInv'
    <2>1. req' = [req EXCEPT ![r] = q] /\ entries' = entries
      BY <1>0 DEF Begin
    <2>2. req'[r] = q /\ OnlyAt(r)
      BY <2>1, Becomes DEF Inv
    <2> QED BY <1>0, <2>1, <2>2, LocksNone DEF PostingPCs, Reads
  <1>i. IdleRequest \in Request
    BY IdleIsFine
  <1>1. ASSUME NEW d \in Sources, NEW lines \in Postings, BeginPost(r, d, m, lines)
        PROVE  LocksInv'
    <2> DEFINE q == [IdleRequest EXCEPT !.op = "post", !.pc = "begun", !.source = d,
                       !.month = m, !.lines = lines, !.todo = lines]
    <2>1. Begin(r, q) /\ q.pc = "begun"
      BY <1>i, <1>1 DEF BeginPost, Request
    <2> HIDE DEF q
    <2> QED BY <1>0, <2>1
  <1>2. ASSUME NEW d \in Sources, BeginReverse(r, d, m) PROVE LocksInv'
    <2> DEFINE q == [IdleRequest EXCEPT !.op = "reverse", !.pc = "begun",
                       !.source = d, !.month = m]
    <2>1. Begin(r, q) /\ q.pc = "begun"
      BY <1>i, <1>2 DEF BeginReverse, Request
    <2> HIDE DEF q
    <2> QED BY <1>0, <2>1
  <1>3. ASSUME NEW s \in PeriodStatus, NEW u \in Users, BeginTransition(r, m, s, u)
        PROVE  LocksInv'
    <2> DEFINE q == [IdleRequest EXCEPT !.op = "transition", !.pc = "begun",
                       !.month = m, !.next = s, !.by = u]
    <2>1. Begin(r, q) /\ q.pc = "begun"
      BY <1>i, <1>3 DEF BeginTransition, Request
    <2> HIDE DEF q
    <2> QED BY <1>0, <2>1
  <1>4. ASSUME NEW u \in Users, BeginReopen(r, m, u) PROVE LocksInv'
    <2> DEFINE q == [IdleRequest EXCEPT !.op = "reopen", !.pc = "begun",
                       !.month = m, !.next = "OPEN", !.by = u]
    <2>1. Begin(r, q) /\ q.pc = "begun"
      BY <1>i, <1>4 DEF BeginReopen, Request
    <2> HIDE DEF q
    <2> QED BY <1>0, <2>1
  <1> QED BY <1>1, <1>2, <1>3, <1>4

\* The document is locked: nobody else has it.
LEMMA LocksLockSource ==
  ASSUME Inv, LocksInv, NEW r \in Requests, LockSource(r) PROVE LocksInv'
  <1>1. /\ req[r].op \in PostingOps /\ entries' = entries
        /\ \A s \in Requests \ {r} : LocksSource(s) => req[s].source # req[r].source
        /\ Step(r, IF req[r].op = "reverse" THEN "original" ELSE "validate")
    BY DEF LockSource
  <1>2. PICK pc \in PCs : /\ pc = IF req[r].op = "reverse" THEN "original" ELSE "validate"
                          /\ Step(r, pc)
    BY <1>1 DEF PCs
  <1>3. PICK q : q = req'[r]
    OBVIOUS
  <1>4. OnlyAt(r) /\ q.pc = pc /\ q.op = req[r].op /\ q.source = req[r].source
    BY <1>2, <1>3, Steps DEF Inv
  <1>5. Reversible(q)
    BY <1>2, <1>4 DEF Reversible
  <1>6. \A s \in Requests \ {r} : LocksIts(req[s]) => q.source # req[s].source
    BY <1>1, <1>4 DEF LocksIts, LocksSource, PostingPCs
  <1> QED BY <1>1, <1>3, <1>4, <1>5, <1>6, LocksStay

LEMMA LocksReadOriginal ==
  ASSUME Inv, LocksInv, NEW r \in Requests, ReadOriginal(r) PROVE LocksInv'
  <1>0. req[r].pc = "original" /\ entries' = entries
    BY DEF ReadOriginal
  <1>1. PICK i \in DOMAIN entries :
          /\ entries[i].source = req[r].source /\ entries[i].reverses = 0
          /\ entries[i].status = "POSTED"
          /\ LET lines == [k \in DOMAIN entries[i].lines |-> Swapped(entries[i].lines[k])] IN
             req' = [req EXCEPT ![r].pc = "validate", ![r].original = i,
                                ![r].lines = lines, ![r].todo = lines]
    BY DEF ReadOriginal
  <1> DEFINE lines == [k \in DOMAIN entries[i].lines |-> Swapped(entries[i].lines[k])]
  <1>2. PICK p \in Request : p = req[r]
    BY DEF Inv, RequestsInv, OfRequest
  <1> DEFINE q == [p EXCEPT !.pc = "validate", !.original = i, !.lines = lines, !.todo = lines]
  <1>3. req' = [req EXCEPT ![r] = q]
    BY <1>1, <1>2 DEF Inv, RequestsInv
  <1>4. q.op = p.op /\ q.source = p.source /\ q.original = i
    BY <1>2 DEF Request
  <1> HIDE DEF q, lines
  <1>5. req'[r] = q /\ OnlyAt(r)
    BY <1>3, Becomes DEF Inv
  <1>6. LocksIts(req[r])
    BY <1>0, Posting DEF LocksIts, PostingPCs, Reads
  <1>7. Reversible(q)
    BY <1>1, <1>2, <1>4 DEF Reversible
  <1>8. \A s \in Requests \ {r} : LocksIts(req[s]) => q.source # req[s].source
    BY <1>2, <1>4, <1>6 DEF LocksInv
  <1> QED BY <1>0, <1>5, <1>7, <1>8, LocksStay

LEMMA LocksCheckAccount ==
  ASSUME Inv, LocksInv, NEW r \in Requests, CheckAccount(r) PROVE LocksInv'
  <1>0. req[r].pc = "accounts" /\ entries' = entries
    BY DEF CheckAccount
  <1>1. PICK p \in Request : p = req[r]
    BY DEF Inv, RequestsInv, OfRequest
  <1> DEFINE pc == IF Len(p.todo) = 1 THEN "insert" ELSE "accounts"
             q == [p EXCEPT !.todo = Tail(p.todo), !.pc = pc]
  <1>2. req' = [req EXCEPT ![r] = q]
    BY <1>0, <1>1 DEF CheckAccount, Inv, RequestsInv
  <1>3. q.op = p.op /\ q.source = p.source /\ q.original = p.original
    BY <1>1 DEF Request
  <1> HIDE DEF q, pc
  <1>4. req'[r] = q /\ OnlyAt(r)
    BY <1>2, Becomes DEF Inv
  <1> QED BY <1>0, <1>1, <1>3, <1>4, LocksStep DEF PostingPCs, Reads

LEMMA LocksLockPeriod ==
  ASSUME Inv, LocksInv, NEW r \in Requests, LockPeriod(r) PROVE LocksInv'
  <1>0. entries' = entries
    BY DEF LockPeriod
  <1>1. CASE Finish(r)
    BY <1>0, <1>1, LocksFinish
  <1>2. ASSUME NEW mem, req' = [req EXCEPT ![r].pc = "locked", ![r].mem = mem]
        PROVE  LocksInv'
    <2>1. PICK p \in Request : p = req[r]
      BY DEF Inv, RequestsInv, OfRequest
    <2> DEFINE q == [p EXCEPT !.pc = "locked", !.mem = mem]
    <2>2. req' = [req EXCEPT ![r] = q]
      BY <1>2, <2>1 DEF Inv, RequestsInv
    <2>3. q.pc = "locked"
      BY <2>1 DEF Request
    <2> HIDE DEF q
    <2>4. req'[r] = q /\ OnlyAt(r)
      BY <2>2, Becomes DEF Inv
    <2> QED BY <1>0, <2>3, <2>4, LocksNone DEF PostingPCs, Reads
  <1> QED BY <1>1, <1>2 DEF LockPeriod

\* The one step that changes the journal. It marks an entry of its own document, so
\* that what other reversals have read is still so.
LEMMA LocksCommitEntry ==
  ASSUME Inv, Inv', JournalInv, JournalInv', LocksInv, NEW r \in Requests, CommitEntry(r)
  PROVE  LocksInv' /\ TheJournal!Next
  <1>1. req[r].pc = "inserted" /\ Finish(r) /\ CheckEntryBalance(Rows(r))
    BY DEF CommitEntry
  <1>2. /\ OfRequest(req[r]) /\ req[r].op \in PostingOps /\ LinesInv(req[r])
        /\ LocksIts(req[r]) /\ Reversible(req[r])
    BY <1>1, Posting DEF PostingPCs, JournalInv, LocksIts, LocksInv
  <1>3. PICK i \in Nat : i = req[r].original
    BY <1>2 DEF OfRequest, Request
  <1>4. PICK rows : rows = Rows(r)
    OBVIOUS
  <1>5. PICK new : new = [source |-> req[r].source, month |-> req[r].month, lines |-> rows,
                          status |-> "POSTED", reverses |-> i]
    OBVIOUS
  <1>6. PICK old : /\ old = IF i = 0 THEN entries ELSE [entries EXCEPT ![i].status = "REVERSED"]
                   /\ entries' = Append(old, new)
    BY <1>3, <1>4, <1>5 DEF CommitEntry, Marked
  <1>7. PICK n \in Nat : entries \in [1..n -> Entry] /\ DOMAIN entries = 1..n /\ Len(entries) = n
    <2>1. entries \in Seq(Entry)
      BY DEF Inv, TablesInv
    <2> QED BY <2>1, SeqDef
  <1>8. /\ Len(entries') = n + 1 /\ DOMAIN entries' = 1..(n + 1) /\ entries'[n + 1] = new
        /\ \A j \in 1..n : /\ entries'[j].lines = entries[j].lines
                           /\ j # i => entries'[j] = entries[j]
    <2>1. /\ old \in Seq(Entry) /\ Len(old) = n
          /\ \A j \in 1..n : /\ old[j].lines = entries[j].lines
                             /\ j # i => old[j] = entries[j]
      <3>1. \A e \in Entry : /\ [e EXCEPT !.status = "REVERSED"] \in Entry
                             /\ [e EXCEPT !.status = "REVERSED"].lines = e.lines
        BY DEF Entry
      <3>2. /\ old \in [1..n -> Entry]
            /\ \A j \in 1..n : /\ old[j].lines = entries[j].lines
                               /\ j # i => old[j] = entries[j]
        BY <1>6, <1>7, <3>1
      <3> QED BY <3>2, SeqDef
    <2> QED BY <1>6, <2>1
  <1>9. req[r].op = "reverse" <=> i # 0
    BY <1>1, <1>2, <1>3, <1>7 DEF LinesInv, PostingOps, Reversible, PostingPCs
  <1>10. i # 0 => /\ i \in 1..n /\ entries[i].source = req[r].source
                  /\ entries[i].status = "POSTED" /\ entries[i].reverses = 0
    BY <1>1, <1>2, <1>3, <1>7, <1>9 DEF Reversible, PostingPCs
  <1>11. OnlyAt(r) /\ req'[r] = IdleRequest
    BY <1>1, Finishes DEF Inv
  <1>12. ~LocksIts(IdleRequest) /\ IdleRequest.pc \notin PostingPCs
    BY DEF IdleRequest, LocksIts, PostingPCs, Reads
  <1>13. LocksInv'
    <2>1. ASSUME NEW s \in Requests PROVE Reversible(req[s])'
      <3>1. CASE s = r
        BY <1>11, <1>12, <3>1 DEF Reversible
      <3>2. CASE s # r
        <4>1. PICK q : q = req[s] /\ q = req'[s] /\ Reversible(q)
          BY <1>11, <3>2 DEF OnlyAt, LocksInv
        <4>2. ASSUME q.op = "reverse", q.pc \in PostingPCs \ {"original"}
              PROVE  /\ q.original \in DOMAIN entries'
                     /\ entries'[q.original] = entries[q.original]
          <5>1. LocksIts(req[s])
            BY <4>1, <4>2 DEF LocksIts, PostingOps
          <5>2. q.source # req[r].source
            BY <1>2, <3>2, <4>1, <5>1 DEF LocksInv
          <5>3. q.original \in 1..n /\ entries[q.original].source = q.source
            BY <1>7, <4>1, <4>2 DEF Reversible
          <5>4. q.original # i
            BY <1>10, <5>2, <5>3
          <5> QED BY <1>8, <5>3, <5>4
        <4> QED BY <4>1, <4>2 DEF Reversible
      <3> QED BY <3>1, <3>2
    <2>2. ASSUME NEW a \in Requests, NEW b \in Requests, a # b,
                 LocksIts(req'[a]), LocksIts(req'[b])
          PROVE  req'[a].source # req'[b].source
      BY <1>11, <1>12, <2>2 DEF OnlyAt, LocksInv
    <2>3. ASSUME NEW a \in Requests, NEW b \in Requests, a # b,
                 LocksIts(req[a])', LocksIts(req[b])'
          PROVE  req'[a].source # req'[b].source
      BY <2>2, <2>3 DEF LocksIts
    <2> QED BY <2>1, <2>3 DEF LocksInv
  <1>14. rows \in {x \in Seq(Row) : CheckEntryBalance(x)}
    <2>1. entries' \in Seq(Entry)
      BY DEF Inv, TablesInv
    <2>2. new \in Entry
      BY <1>8, <2>1
    <2> QED BY <1>1, <1>4, <1>5, <2>2 DEF Entry
  <1>15. TheJournal!Adds(old, i)
    <2>1. entries'[Len(entries')] = new
      BY <1>8
    <2>2. new.lines = rows /\ new.status = "POSTED" /\ new.reverses = i
      BY <1>5
    <2> QED BY <1>6, <1>7, <1>8, <1>14, <2>1, <2>2 DEF TheJournal!Adds
  <1>16. CASE i = 0
    BY <1>6, <1>13, <1>15, <1>16 DEF TheJournal!Next, TheJournal!Post
  <1>17. CASE i # 0
    <2>1. Mirrors(new.lines, entries[i].lines)
      <3>1. (n + 1) \in DOMAIN entries' /\ entries'[n + 1] = new /\ new.reverses = i
        BY <1>5, <1>8
      <3>2. Mirrors(new.lines, entries'[i].lines)
        BY <1>17, <3>1 DEF JournalInv, ReversesWell
      <3> QED BY <1>8, <1>10, <1>17, <3>2
    <2>2. TheJournal!Mirrors(new.lines, entries[i].lines)
      BY <2>1 DEF Mirrors, MirrorsRow, TheJournal!Mirrors, TheJournal!MirrorsRow
    <2>3. TheJournal!Reverse(i)
      <3>1. entries'[Len(entries')] = new /\ new.source = entries[i].source
        BY <1>5, <1>8, <1>10, <1>17
      <3>2. TheJournal!Adds([entries EXCEPT ![i].status = "REVERSED"], i)
        BY <1>6, <1>15, <1>17
      <3> QED BY <1>10, <1>17, <2>2, <3>1, <3>2 DEF TheJournal!Reverse
    <2> QED BY <1>7, <1>10, <1>13, <1>17, <2>3 DEF TheJournal!Next
  <1> QED BY <1>16, <1>17

LEMMA LocksAdvance ==
  ASSUME Inv, Inv', JournalInv, JournalInv', LocksInv, NEW r \in Requests, Advance(r)
  PROVE  LocksInv' /\ (TheJournal!Next \/ entries' = entries)
  <1>0. /\ {"resolve", "open", "accounts", "inserted"} \subseteq PCs
        /\ {"validate", "resolve", "open", "insert"} \subseteq PostingPCs \ {"original"}
    BY DEF PCs, PostingPCs, Reads
  <1>i. ASSUME NEW pc \in PCs, Step(r, pc), entries' = entries,
               req[r].pc \in PostingPCs \ {"original"}
        PROVE  LocksInv'
    <2>1. PICK q : q = req'[r]
      OBVIOUS
    <2>2. OnlyAt(r) /\ q.op = req[r].op /\ q.source = req[r].source
          /\ q.original = req[r].original
      BY <1>i, <2>1, Steps DEF Inv
    <2> QED BY <1>i, <2>1, <2>2, LocksStep
  <1>1. CASE LockSource(r)     BY <1>1, LocksLockSource DEF LockSource
  <1>2. CASE ReadOriginal(r)   BY <1>2, LocksReadOriginal DEF ReadOriginal
  <1>3. CASE ValidateLines(r)  BY <1>0, <1>i, <1>3 DEF ValidateLines
  <1>4. CASE ResolvePeriod(r)  BY <1>0, <1>i, <1>4 DEF ResolvePeriod
  <1>5. CASE CheckOpen(r)      BY <1>0, <1>i, <1>5 DEF CheckOpen
  <1>6. CASE CheckAccount(r)   BY <1>6, LocksCheckAccount DEF CheckAccount
  <1>7. CASE InsertEntry(r)    BY <1>0, <1>i, <1>7 DEF InsertEntry
  <1>8. CASE CommitEntry(r)    BY <1>8, LocksCommitEntry
  <1>9. CASE RefusePosting(r)  BY <1>9, LocksFinish DEF RefusePosting
  <1>10. CASE LockPeriod(r)    BY <1>10, LocksLockPeriod DEF LockPeriod
  <1>11. CASE CommitPeriod(r)  BY <1>11, LocksFinish DEF CommitPeriod
  <1> QED
    BY <1>1, <1>2, <1>3, <1>4, <1>5, <1>6, <1>7, <1>8, <1>9, <1>10, <1>11 DEF Advance

LEMMA LocksSame ==
  ASSUME LocksInv, UNCHANGED <<entries, req>> PROVE LocksInv'
  <1>1. ASSUME NEW s \in Requests PROVE Reversible(req[s])'
    <2>1. Reversible(req'[s])
      BY DEF LocksInv
    <2> QED BY <2>1 DEF Reversible
  <1>2. ASSUME NEW a \in Requests, NEW b \in Requests, a # b,
               LocksIts(req[a])', LocksIts(req[b])'
        PROVE  req'[a].source # req'[b].source
    BY <1>2 DEF LocksInv, LocksIts
  <1> QED BY <1>1, <1>2 DEF LocksInv

LEMMA LocksNext ==
  Inv /\ Inv' /\ JournalInv /\ JournalInv' /\ LocksInv /\ [Next]_vars
    => LocksInv' /\ [TheJournal!Next]_entries
  <1> SUFFICES ASSUME Inv, Inv', JournalInv, JournalInv', LocksInv, [Next]_vars
               PROVE  LocksInv' /\ (TheJournal!Next \/ entries' = entries)
    OBVIOUS
  <1>1. ASSUME NEW m \in Months, CreatePeriod(m) PROVE LocksInv' /\ entries' = entries
    BY <1>1, LocksSame DEF CreatePeriod
  <1>2. ASSUME NEW a \in Accounts, Deactivate(a) PROVE LocksInv' /\ entries' = entries
    BY <1>2, LocksSame DEF Deactivate
  <1>3. ASSUME NEW r \in Requests, NEW m \in Months,
               \/ \E d \in Sources, lines \in Postings : BeginPost(r, d, m, lines)
               \/ \E d \in Sources : BeginReverse(r, d, m)
               \/ \E s \in PeriodStatus, u \in Users : BeginTransition(r, m, s, u)
               \/ \E u \in Users : BeginReopen(r, m, u)
        PROVE  LocksInv' /\ entries' = entries
    <2>1. entries' = entries
      BY <1>3 DEF BeginPost, BeginReverse, BeginTransition, BeginReopen, Begin
    <2> QED BY <1>3, <2>1, LocksBegins
  <1>4. ASSUME NEW r \in Requests, Advance(r)
        PROVE  LocksInv' /\ (TheJournal!Next \/ entries' = entries)
    BY <1>4, LocksAdvance
  <1>5. ASSUME NEW r \in Requests, ConnectionTimeout(r) \/ Rollback(r)
        PROVE  LocksInv' /\ entries' = entries
    BY <1>5, LocksFinish DEF ConnectionTimeout, Rollback
  <1>6. CASE UNCHANGED vars
    BY <1>6, LocksSame DEF vars
  <1> QED BY <1>1, <1>2, <1>3, <1>4, <1>5, <1>6 DEF Next

LEMMA LocksInit == Init => LocksInv /\ TheJournal!Init
  <1> SUFFICES ASSUME Init PROVE LocksInv /\ TheJournal!Init
    OBVIOUS
  <1>1. \A r \in Requests : req[r] = IdleRequest
    BY DEF Init
  <1>2. ~LocksIts(IdleRequest) /\ Reversible(IdleRequest)
    BY DEF IdleRequest, LocksIts, Reversible, PostingPCs, Reads
  <1> QED BY <1>1, <1>2 DEF LocksInv, Init, TheJournal!Init

\* Whatever requests there are at once, what they do to the journal is what one
\* would specify: entries are added and never edited, and each is reversed once at
\* most, by a mirror of its rows (posting.service.ts:102-156,
\* documents.service.ts:278-295).
THEOREM IsAJournal == Spec => ImplementsJournal
  <1>1. Init => LocksInv /\ TheJournal!Init
    BY LocksInit
  <1>2. LocksInv /\ (Inv /\ JournalInv) /\ (Inv /\ JournalInv)' /\ [Next]_vars
          => LocksInv' /\ [TheJournal!Next]_entries
    BY LocksNext
  <1> QED
    BY <1>1, <1>2, JournalInvariance, PTL DEF Spec, ImplementsJournal, TheJournal!Spec

=============================================================================
