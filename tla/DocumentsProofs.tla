-------------------------- MODULE DocumentsProofs ---------------------------
(***************************************************************************)
(* Theorems about Documents, for any number of requests, documents and     *)
(* users and any bounds.                                                   *)
(***************************************************************************)
EXTENDS Documents, FiniteSetTheorems, TLAPS

-----------------------------------------------------------------------------
(* The invariants the proofs need beyond the type invariant.                *)

\* A request that has started has a document, which exists, and a copy of its
\* row whose entry, like the row's own, is in the journal.
GoodRequest(q) ==
  q.pc # "idle" =>
    /\ q.doc \in DocIds
    /\ docs[q.doc] # NoRow
    /\ q.mem \in Row
    /\ q.mem.entry <= Len(journal[q.doc])
    /\ IF q.pc \in {"locked", "staged"} THEN q.op \in LockingOps
                                       ELSE q.op = "update"
    /\ q.op = "reverse" => q.actor \in Users /\ q.mem.entry # 0

RequestShape == \A r \in Requests : GoodRequest(req[r])

EntriesExist ==
  \A d \in DocIds : docs[d] # NoRow => docs[d].entry <= Len(journal[d])

TypeInv == TypeOK /\ RequestShape /\ EntriesExist

-----------------------------------------------------------------------------
(* The steps of a request, one name each, for the case analyses below.      *)

LEMMA EntryAppend ==
  ASSUME NEW s \in Seq(Entry), NEW e \in Entry
  PROVE  /\ Append(s, e) \in Seq(Entry)
         /\ Len(Append(s, e)) = Len(s) + 1
         /\ \A i \in 1..Len(s) : Append(s, e)[i] = s[i]
         /\ Append(s, e)[Len(s) + 1] = e
  OBVIOUS

\* A position that an append adds holds what was appended.
LEMMA AppendedEntry ==
  ASSUME NEW s \in Seq(Entry), NEW e \in Entry,
         NEW i \in DOMAIN Append(s, e) \ DOMAIN s
  PROVE  Append(s, e)[i] = e
  <1>1. i = Len(s) + 1
    OBVIOUS
  <1> QED BY <1>1

\* Marking one entry REVERSED leaves a journal of the same length.
LEMMA EntryReverse ==
  ASSUME NEW s \in Seq(Entry), NEW n \in 1..Len(s)
  PROVE  /\ [s EXCEPT ![n].status = "REVERSED"] \in Seq(Entry)
         /\ Len([s EXCEPT ![n].status = "REVERSED"]) = Len(s)
         /\ \A i \in 1..Len(s) : i # n => [s EXCEPT ![n].status = "REVERSED"][i] = s[i]
         /\ [s EXCEPT ![n].status = "REVERSED"][n] = [s[n] EXCEPT !.status = "REVERSED"]
  <1>1. s[n] \in Entry
    OBVIOUS
  <1>2. [s[n] EXCEPT !.status = "REVERSED"] \in Entry
    BY <1>1 DEF Entry
  <1> QED BY <1>1, <1>2

LEMMA IdleRequestType == IdleRequest \in Request
  BY DEF IdleRequest, Request, LockingOps, PCs

LEMMA TypeInvInit == Init => TypeInv
  <1> SUFFICES ASSUME Init PROVE TypeInv
    OBVIOUS
  <1>1. TypeOK
    BY IdleRequestType DEF Init, TypeOK
  <1>2. RequestShape /\ EntriesExist
    BY DEF Init, RequestShape, GoodRequest, EntriesExist, IdleRequest
  <1> QED BY <1>1, <1>2 DEF TypeInv

\* A step that only changes the record of one request.
LEMMA TypeInvRequestStep ==
  ASSUME TypeInv, NEW r \in Requests, NEW q \in Request, GoodRequest(q),
         req' = [req EXCEPT ![r] = q],
         UNCHANGED <<docs, lines, journal, approvals>>
  PROVE  TypeInv'
  BY DEF TypeInv, TypeOK, RequestShape, GoodRequest, EntriesExist

\* What the type invariant says of a request under way and its document.
LEMMA ActiveRequest ==
  ASSUME TypeInv, NEW r \in Requests, req[r].pc # "idle"
  PROVE  /\ req[r] \in Request
         /\ GoodRequest(req[r])
         /\ req[r].doc \in DocIds
         /\ docs[req[r].doc] \in Row
         /\ req[r].mem \in Row
         /\ req[r].mem.entry \in Nat
         /\ lines[req[r].doc] \in SUBSET LineIds
         /\ journal[req[r].doc] \in Seq(Entry)
         /\ req[r].mem.entry <= Len(journal[req[r].doc])
         /\ req[r].op = "reverse" => /\ req[r].actor \in Users
                                     /\ req[r].mem.entry \in 1..Len(journal[req[r].doc])
         /\ req[r].diff \in SUBSET Columns
         /\ req[r].seen \in SUBSET LineIds
         /\ req[r].new \in SUBSET LineIds
  <1>1. req[r] \in Request /\ GoodRequest(req[r])
    BY DEF TypeInv, TypeOK, RequestShape
  <1>2. /\ req[r].doc \in DocIds
        /\ docs[req[r].doc] # NoRow
        /\ req[r].mem \in Row
        /\ req[r].mem.entry <= Len(journal[req[r].doc])
        /\ req[r].op = "reverse" => req[r].actor \in Users /\ req[r].mem.entry # 0
    BY <1>1 DEF GoodRequest
  <1>3. /\ docs[req[r].doc] \in Row
        /\ lines[req[r].doc] \in SUBSET LineIds
        /\ journal[req[r].doc] \in Seq(Entry)
    BY <1>2 DEF TypeInv, TypeOK
  <1>4. req[r].mem.entry \in Nat
    BY <1>2 DEF Row
  <1>5. /\ req[r].diff \in SUBSET Columns
        /\ req[r].seen \in SUBSET LineIds
        /\ req[r].new \in SUBSET LineIds
    BY <1>1 DEF Request
  <1>6. Len(journal[req[r].doc]) \in Nat
    BY <1>3
  <1> QED BY <1>1, <1>2, <1>3, <1>4, <1>5, <1>6

GoesOn(r, pc, diff, seen, new) ==
  /\ pc # "idle"
  /\ pc \in {"locked", "staged"} <=> req[r].pc \in {"locked", "staged"}
  /\ req' = [req EXCEPT ![r] = [req[r] EXCEPT
               !.pc = pc, !.diff = diff, !.seen = seen, !.new = new]]

\* A request goes on to another statement of the same method.
LEMMA TypeInvGoesOn ==
  ASSUME TypeInv, NEW r \in Requests, req[r].pc # "idle",
         NEW pc \in PCs, NEW diff \in SUBSET Columns,
         NEW seen \in SUBSET LineIds, NEW new \in SUBSET LineIds,
         GoesOn(r, pc, diff, seen, new),
         UNCHANGED <<docs, lines, journal, approvals>>
  PROVE  TypeInv'
  <1> DEFINE q == [req[r] EXCEPT
                     !.pc = pc, !.diff = diff, !.seen = seen, !.new = new]
  <1>1. req[r] \in Request /\ GoodRequest(req[r])
    BY ActiveRequest
  <1>2. /\ q \in Request
        /\ q.pc = pc /\ q.doc = req[r].doc /\ q.mem = req[r].mem
        /\ q.op = req[r].op /\ q.actor = req[r].actor
    BY <1>1 DEF Request
  <1>3. GoodRequest(q)
    BY <1>1, <1>2 DEF GoodRequest, GoesOn
  <1>4. req' = [req EXCEPT ![r] = q]
    BY DEF GoesOn
  <1> QED BY <1>2, <1>3, <1>4, TypeInvRequestStep

LEMMA AdvanceGoesOn ==
  ASSUME TypeInv, NEW r \in Requests,
         \/ DeleteStatement(r) \/ DeleteRows(r) \/ InsertLines(r)
         \/ SaveLoad(r) \/ ReadLines(r) \/ ReadEntry(r)
  PROVE  /\ req[r].pc # "idle"
         /\ UNCHANGED <<docs, lines, journal, approvals>>
         /\ \E pc \in PCs, diff \in SUBSET Columns,
               seen \in SUBSET LineIds, new \in SUBSET LineIds :
              GoesOn(r, pc, diff, seen, new)
  <1> USE DEF DeleteStatement, DeleteRows, InsertLines, SaveLoad, ReadLines, ReadEntry
  <1>1. req[r].pc # "idle" /\ UNCHANGED <<docs, lines, journal, approvals>>
    OBVIOUS
  <1>2. /\ req \in [Requests -> Request]
        /\ req[r].diff \in SUBSET Columns
        /\ req[r].seen \in SUBSET LineIds
        /\ req[r].new \in SUBSET LineIds
        /\ lines[req[r].doc] \in SUBSET LineIds
    BY <1>1, ActiveRequest DEF TypeInv, TypeOK
  <1> SUFFICES \E pc \in PCs, diff \in SUBSET Columns,
                 seen \in SUBSET LineIds, new \in SUBSET LineIds :
                GoesOn(r, pc, diff, seen, new)
    BY <1>1
  <1>3. CASE DeleteStatement(r)
    <2>1. /\ "deleting" \in PCs /\ req[r].diff \in SUBSET Columns
          /\ lines[req[r].doc] \in SUBSET LineIds
          /\ req[r].new \in SUBSET LineIds
      BY <1>2 DEF PCs, Entry
    <2>2. GoesOn(r, "deleting", req[r].diff,
                 lines[req[r].doc], req[r].new)
      BY <1>2, <1>3 DEF GoesOn, Request
    <2> QED BY <2>1, <2>2
  <1>4. CASE DeleteRows(r)
    <2>1. /\ "insert" \in PCs /\ req[r].diff \in SUBSET Columns
          /\ (req[r].seen \cap lines[req[r].doc]) \in SUBSET LineIds
          /\ req[r].new \in SUBSET LineIds
      BY <1>2 DEF PCs, Entry
    <2>2. GoesOn(r, "insert", req[r].diff,
                 (req[r].seen \cap lines[req[r].doc]), req[r].new)
      BY <1>2, <1>4 DEF GoesOn, Request
    <2> QED BY <2>1, <2>2
  <1>5. CASE SaveLoad(r)
    <2>1. /\ "write" \in PCs /\ {c \in Columns : req[r].mem[c] # docs[req[r].doc][c]} \in SUBSET Columns
          /\ req[r].seen \in SUBSET LineIds
          /\ req[r].new \in SUBSET LineIds
      BY <1>2 DEF PCs, Entry
    <2>2. GoesOn(r, "write", {c \in Columns : req[r].mem[c] # docs[req[r].doc][c]},
                 req[r].seen, req[r].new)
      BY <1>2, <1>5 DEF GoesOn, Request
    <2> QED BY <2>1, <2>2
  <1>6. CASE ReadLines(r)
    <2>1. /\ "staged" \in PCs /\ req[r].diff \in SUBSET Columns
          /\ lines[req[r].doc] \in SUBSET LineIds
          /\ req[r].new \in SUBSET LineIds
      BY <1>2 DEF PCs, Entry
    <2>2. GoesOn(r, "staged", req[r].diff,
                 lines[req[r].doc], req[r].new)
      BY <1>2, <1>6 DEF GoesOn, Request
    <2> QED BY <2>1, <2>2
  <1>7. CASE ReadEntry(r)
    <2>0. journal[req[r].doc][req[r].mem.entry] \in Entry
      BY <1>1, <1>7, ActiveRequest
    <2>1. /\ "staged" \in PCs /\ req[r].diff \in SUBSET Columns
          /\ journal[req[r].doc][req[r].mem.entry].lines \in SUBSET LineIds
          /\ req[r].new \in SUBSET LineIds
      BY <1>2, <2>0 DEF PCs, Entry
    <2>2. GoesOn(r, "staged", req[r].diff,
                 journal[req[r].doc][req[r].mem.entry].lines, req[r].new)
      BY <1>2, <1>7, <2>0 DEF GoesOn, Request
    <2> QED BY <2>1, <2>2
  <1>8. CASE InsertLines(r)
    <2>0. PICK n \in LineIds :
            req' = [req EXCEPT ![r].pc = "load", ![r].new = {n}]
      BY <1>8 DEF Fresh
    <2>1. /\ "load" \in PCs /\ req[r].diff \in SUBSET Columns
          /\ req[r].seen \in SUBSET LineIds
          /\ {n} \in SUBSET LineIds
      BY <1>2, <2>0 DEF PCs, Entry
    <2>2. req' = [req EXCEPT ![r] = [req[r] EXCEPT !.pc = "load", !.diff = req[r].diff,
                                       !.seen = req[r].seen, !.new = {n}]]
      BY <1>2, <2>0 DEF Request
    <2>3. GoesOn(r, "load", req[r].diff, req[r].seen, {n})
      BY <1>8, <2>2 DEF GoesOn
    <2> QED BY <2>1, <2>3
  <1> QED BY <1>3, <1>4, <1>5, <1>6, <1>7, <1>8

LEMMA TypeInvAdvance ==
  ASSUME TypeInv, NEW r \in Requests,
         \/ DeleteStatement(r) \/ DeleteRows(r) \/ InsertLines(r)
         \/ SaveLoad(r) \/ ReadLines(r) \/ ReadEntry(r)
  PROVE  TypeInv'
  BY AdvanceGoesOn, TypeInvGoesOn

\* A request starts: it has read the row of an existing document.
LEMMA TypeInvStart ==
  ASSUME TypeInv, NEW r \in Requests,
         \/ \E d \in DocIds, h \in Headers, w \in BOOLEAN : UpdateRead(r, d, h, w)
         \/ \E op \in LockingOps, d \in DocIds, u \in Users : LockRow(r, op, d, u)
  PROVE  TypeInv'
  <1>1. CASE \E d \in DocIds, h \in Headers, w \in BOOLEAN : UpdateRead(r, d, h, w)
    <2>1. PICK d \in DocIds, h \in Headers, w \in BOOLEAN : UpdateRead(r, d, h, w)
      BY <1>1
    <2> DEFINE pc == IF w THEN "delete" ELSE "load"
               mem == [docs[d] EXCEPT !.status = "DRAFT", !.header = h]
               q == [IdleRequest EXCEPT !.op = "update", !.pc = pc, !.doc = d,
                                        !.actor = docs[d].createdBy, !.mem = mem]
    <2>2. docs[d] # NoRow /\ docs[d] \in Row /\ docs[d].entry <= Len(journal[d])
      BY <2>1 DEF UpdateRead, TypeInv, TypeOK, EntriesExist
    <2>3. mem \in Row /\ mem.entry = docs[d].entry /\ docs[d].createdBy \in Users
      BY <2>2 DEF Row, Status
    <2>4. q \in Request
      BY <2>3 DEF IdleRequest, Request, PCs
    <2>5. /\ q.pc \in {"delete", "load"} /\ q.op = "update"
          /\ q.doc = d /\ q.mem = mem
      BY DEF IdleRequest
    <2>6. GoodRequest(q)
      BY <2>2, <2>3, <2>5 DEF GoodRequest
    <2>7. req' = [req EXCEPT ![r] = q] /\ UNCHANGED <<docs, lines, journal, approvals>>
      BY <2>1 DEF UpdateRead, Start
    <2> QED BY <2>4, <2>6, <2>7, TypeInvRequestStep
  <1>2. CASE \E op \in LockingOps, d \in DocIds, u \in Users : LockRow(r, op, d, u)
    <2>1. PICK op \in LockingOps, d \in DocIds, u \in Users : LockRow(r, op, d, u)
      BY <1>2
    <2> DEFINE a == IF op \in {"submit", "reverse"} THEN u ELSE NoDoc
               q == [IdleRequest EXCEPT !.op = op, !.pc = "locked", !.doc = d,
                                        !.actor = a, !.mem = docs[d]]
    <2>2. /\ docs[d] # NoRow /\ docs[d] \in Row /\ docs[d].entry <= Len(journal[d])
          /\ op = "reverse" => docs[d].entry # 0
      BY <2>1 DEF LockRow, Accepts, TypeInv, TypeOK, EntriesExist
    <2>3. q \in Request
      BY <2>2 DEF IdleRequest, Request, PCs
    <2>4. /\ q.pc = "locked" /\ q.op = op /\ q.doc = d /\ q.mem = docs[d]
          /\ q.actor = a
      BY DEF IdleRequest
    <2>5. GoodRequest(q)
      BY <2>2, <2>4 DEF GoodRequest
    <2>6. req' = [req EXCEPT ![r] = q] /\ UNCHANGED <<docs, lines, journal, approvals>>
      BY <2>1 DEF LockRow, Start
    <2> QED BY <2>3, <2>5, <2>6, TypeInvRequestStep
  <1> QED BY <1>1, <1>2

\* The end of a request, with or without writes: rows and entries stay.
LEMMA TypeInvCommit ==
  ASSUME TypeInv, NEW r \in Requests, Finish(r),
         docs' \in [DocIds -> Row \cup {NoRow}],
         lines' \in [DocIds -> SUBSET LineIds],
         journal' \in [DocIds -> Seq(Entry)],
         approvals' \in [DocIds -> Nat],
         \A d \in DocIds : docs[d] # NoRow => docs'[d] # NoRow,
         \A d \in DocIds : Len(journal'[d]) >= Len(journal[d]),
         EntriesExist'
  PROVE  TypeInv'
  <1>1. /\ req' \in [Requests -> Request]
        /\ \A s \in Requests : req'[s] = req[s] \/ req'[s].pc = "idle"
    BY IdleRequestType DEF TypeInv, TypeOK, Finish, IdleRequest
  <1>2. TypeOK'
    BY <1>1 DEF TypeOK
  <1>3. RequestShape'
    <2> SUFFICES ASSUME NEW s \in Requests, req'[s].pc # "idle"
                 PROVE  GoodRequest(req[s])'
      BY DEF RequestShape, GoodRequest
    <2>1. req'[s] = req[s] /\ req[s].pc # "idle"
      BY <1>1
    <2>2. GoodRequest(req[s]) /\ req[s].mem.entry \in Nat /\ req[s].doc \in DocIds
      BY <2>1, ActiveRequest
    <2>3. /\ Len(journal'[req[s].doc]) \in Nat /\ Len(journal[req[s].doc]) \in Nat
          /\ Len(journal'[req[s].doc]) >= Len(journal[req[s].doc])
      BY <2>2 DEF TypeInv, TypeOK
    <2> QED BY <2>1, <2>2, <2>3 DEF GoodRequest
  <1> QED BY <1>2, <1>3 DEF TypeInv

LEMMA TypeInvEnd ==
  ASSUME TypeInv, NEW r \in Requests, Refuse(r) \/ Rollback(r)
  PROVE  TypeInv'
  <1>1. Finish(r) /\ UNCHANGED <<docs, lines, journal, approvals>>
    BY DEF Refuse, Rollback
  <1>2. \A d \in DocIds : Len(journal[d]) \in Nat
    BY DEF TypeInv, TypeOK
  <1> QED BY <1>1, <1>2, TypeInvCommit DEF TypeInv, TypeOK, EntriesExist

LEMMA TypeInvCreate ==
  ASSUME TypeInv, NEW d \in DocIds, NEW u \in Users, NEW h \in Headers,
         Create(d, u, h)
  PROVE  TypeInv'
  <1> DEFINE row == [status |-> "DRAFT", header |-> h, entry |-> 0,
                     createdBy |-> u, correctionOf |-> NoDoc]
  <1>1. row \in Row /\ row # NoRow /\ row.entry = 0
    BY NoRowAssumption DEF Row, Status
  <1>2. PICK n \in LineIds : lines' = [lines EXCEPT ![d] = {n}]
    BY DEF Create, Fresh
  <1>3. docs' = [docs EXCEPT ![d] = row] /\ UNCHANGED <<journal, approvals, req>>
    BY DEF Create
  <1>4. TypeOK'
    BY <1>1, <1>2, <1>3 DEF TypeInv, TypeOK
  <1>5. \A c \in DocIds : docs[c] # NoRow => docs'[c] # NoRow
    BY <1>1, <1>3 DEF TypeInv, TypeOK
  <1>6. RequestShape'
    BY <1>3, <1>5 DEF TypeInv, RequestShape, GoodRequest
  <1>7. EntriesExist'
    BY <1>1, <1>3 DEF TypeInv, TypeOK, EntriesExist
  <1> QED BY <1>4, <1>6, <1>7 DEF TypeInv

\* What save() leaves is a row whose entry is one of the two it started from.
LEMMA SavedRow ==
  ASSUME NEW mem \in Row, NEW row \in Row, NEW diff \in SUBSET Columns
  PROVE  /\ Saved(mem, diff, row) \in Row
         /\ Saved(mem, diff, row).entry \in {mem.entry, row.entry}
         /\ Saved(mem, diff, row).status =
              IF "status" \in diff THEN mem.status ELSE row.status
         /\ diff = {} => Saved(mem, diff, row) = row
  BY DEF Saved, Row

LEMMA TypeInvSaveCommit ==
  ASSUME TypeInv, NEW r \in Requests, SaveCommit(r)
  PROVE  TypeInv'
  <1> DEFINE d == req[r].doc
             row == Saved(req[r].mem, req[r].diff, docs[d])
  <1>1. /\ req[r].pc # "idle" /\ Finish(r)
        /\ docs' = [docs EXCEPT ![d] = row]
        /\ lines' = [lines EXCEPT ![d] = (@ \ req[r].seen) \cup req[r].new]
        /\ UNCHANGED <<journal, approvals>>
    BY DEF SaveCommit
  <1>2. /\ d \in DocIds /\ docs[d] \in Row /\ req[r].mem \in Row
        /\ req[r].diff \in SUBSET Columns /\ req[r].new \in SUBSET LineIds
        /\ req[r].mem.entry <= Len(journal[d])
    BY <1>1, ActiveRequest
  <1>3. row \in Row /\ row.entry \in {req[r].mem.entry, docs[d].entry} /\ row # NoRow
    BY <1>2, SavedRow, NoRowAssumption
  <1>4. docs[d].entry <= Len(journal[d])
    BY <1>2, NoRowAssumption DEF TypeInv, EntriesExist
  <1>5. EntriesExist'
    BY <1>1, <1>2, <1>3, <1>4 DEF TypeInv, TypeOK, EntriesExist
  <1>6. /\ docs' \in [DocIds -> Row \cup {NoRow}]
        /\ lines' \in [DocIds -> SUBSET LineIds]
        /\ journal' \in [DocIds -> Seq(Entry)]
        /\ approvals' \in [DocIds -> Nat]
        /\ \A c \in DocIds : docs[c] # NoRow => docs'[c] # NoRow
        /\ \A c \in DocIds : Len(journal'[c]) >= Len(journal[c])
    BY <1>1, <1>2, <1>3 DEF TypeInv, TypeOK
  <1> QED BY <1>1, <1>5, <1>6, TypeInvCommit

LEMMA TypeInvCommitTransition ==
  ASSUME TypeInv, NEW r \in Requests, CommitTransition(r)
  PROVE  TypeInv'
  <1> DEFINE d == req[r].doc
             row == [req[r].mem EXCEPT !.status = Target(req[r].op)]
  <1>1. /\ req[r].pc # "idle" /\ Finish(r)
        /\ docs' = [docs EXCEPT ![d] = row]
        /\ approvals' = [approvals EXCEPT ![d] =
                           IF req[r].op = "approve" THEN @ + 1 ELSE @]
        /\ UNCHANGED <<journal, lines>>
    BY DEF CommitTransition
  <1>2. /\ d \in DocIds /\ docs[d] \in Row /\ req[r].mem \in Row
        /\ req[r].mem.entry <= Len(journal[d])
    BY <1>1, ActiveRequest
  <1>3. Target(req[r].op) \in Status
    BY DEF Target, Status
  <1>4. row \in Row /\ row.entry = req[r].mem.entry /\ row # NoRow
    BY <1>2, <1>3, NoRowAssumption DEF Row
  <1>5. EntriesExist'
    BY <1>1, <1>2, <1>4 DEF TypeInv, TypeOK, EntriesExist
  <1>6. /\ docs' \in [DocIds -> Row \cup {NoRow}]
        /\ lines' \in [DocIds -> SUBSET LineIds]
        /\ journal' \in [DocIds -> Seq(Entry)]
        /\ approvals' \in [DocIds -> Nat]
        /\ \A c \in DocIds : docs[c] # NoRow => docs'[c] # NoRow
        /\ \A c \in DocIds : Len(journal'[c]) >= Len(journal[c])
    BY <1>1, <1>2, <1>4 DEF TypeInv, TypeOK
  <1> QED BY <1>1, <1>5, <1>6, TypeInvCommit

LEMMA TypeInvCommitPosting ==
  ASSUME TypeInv, NEW r \in Requests, CommitPosting(r)
  PROVE  TypeInv'
  <1> DEFINE d == req[r].doc
             n == Len(journal[d]) + 1
             row == [req[r].mem EXCEPT !.status = "POSTED", !.entry = n]
             e == [kind |-> "posting", status |-> "POSTED",
                   lines |-> req[r].seen, reverses |-> 0]
  <1>1. /\ req[r].pc # "idle" /\ Finish(r)
        /\ docs' = [docs EXCEPT ![d] = row]
        /\ journal' = [journal EXCEPT ![d] = Append(@, e)]
        /\ UNCHANGED <<approvals, lines>>
    BY DEF CommitPosting
  <1>2. /\ d \in DocIds /\ docs[d] \in Row /\ req[r].mem \in Row
        /\ journal[d] \in Seq(Entry) /\ req[r].seen \in SUBSET LineIds
    BY <1>1, ActiveRequest
  <1>0. n \in Nat
    BY <1>2
  <1>3. row \in Row /\ row # NoRow /\ row.entry = n
    <2> HIDE DEF n
    <2>1. row \in Row /\ row.entry = n
      BY <1>0, <1>2 DEF Row, Status
    <2> QED BY <2>1, NoRowAssumption
  <1>4. e \in Entry
    BY <1>2 DEF Entry
  <1>5. Append(journal[d], e) \in Seq(Entry) /\ Len(Append(journal[d], e)) = Len(journal[d]) + 1
    BY <1>2, <1>4
  <1> HIDE DEF row, e
  <1>6. EntriesExist'
    <2> SUFFICES ASSUME NEW x \in DocIds, docs'[x] # NoRow
                 PROVE  docs'[x].entry <= Len(journal'[x])
      BY DEF EntriesExist
    <2>1. CASE x = d
      <3>1. docs'[x] = row /\ journal'[x] = Append(journal[d], e)
        BY <1>1, <2>1 DEF TypeInv, TypeOK
      <3> QED BY <1>0, <1>3, <1>5, <3>1
    <2>2. CASE x # d
      <3>1. docs'[x] = docs[x] /\ journal'[x] = journal[x]
        BY <1>1, <2>2 DEF TypeInv, TypeOK
      <3> QED BY <3>1 DEF TypeInv, EntriesExist
    <2> QED BY <2>1, <2>2
  <1>7. /\ docs' \in [DocIds -> Row \cup {NoRow}]
        /\ lines' \in [DocIds -> SUBSET LineIds]
        /\ journal' \in [DocIds -> Seq(Entry)]
        /\ approvals' \in [DocIds -> Nat]
        /\ \A c \in DocIds : docs[c] # NoRow => docs'[c] # NoRow
    BY <1>1, <1>2, <1>3, <1>5 DEF TypeInv, TypeOK
  <1>8. \A c \in DocIds : Len(journal'[c]) >= Len(journal[c])
    BY <1>1, <1>2, <1>5 DEF TypeInv, TypeOK
  <1> QED BY <1>1, <1>6, <1>7, <1>8, TypeInvCommit

LEMMA TypeInvCommitReversal ==
  ASSUME TypeInv, NEW r \in Requests, NEW c \in DocIds, CommitReversal(r, c)
  PROVE  TypeInv'
  <1> DEFINE d == req[r].doc
             mem == req[r].mem
             n == mem.entry
             row == [mem EXCEPT !.status = "REVERSED"]
             correction == [status |-> "POSTED", header |-> mem.header,
                            entry |-> 0, createdBy |-> req[r].actor,
                            correctionOf |-> d]
             marked == [journal[d] EXCEPT ![n].status = "REVERSED"]
             e == [kind |-> "reversal", status |-> "POSTED",
                   lines |-> req[r].seen, reverses |-> n]
  <1>1. /\ req[r].pc # "idle" /\ req[r].op = "reverse" /\ Finish(r)
        /\ docs[c] = NoRow
        /\ docs' = [docs EXCEPT ![d] = row, ![c] = correction]
        /\ journal' = [journal EXCEPT ![d] = Append(marked, e)]
        /\ UNCHANGED <<approvals, lines>>
    BY DEF CommitReversal
  <1>2. /\ d \in DocIds /\ docs[d] \in Row /\ mem \in Row
        /\ journal[d] \in Seq(Entry) /\ req[r].seen \in SUBSET LineIds
        /\ req[r].actor \in Users /\ n \in 1..Len(journal[d])
    BY <1>1, ActiveRequest
  <1>3. /\ row \in Row /\ row # NoRow /\ row.entry = n
        /\ correction \in Row /\ correction # NoRow /\ correction.entry = 0
        /\ e \in Entry
    BY <1>2, NoRowAssumption DEF Row, Status, Entry
  <1>4. marked \in Seq(Entry) /\ Len(marked) = Len(journal[d])
    BY <1>2, EntryReverse
  <1>5. Append(marked, e) \in Seq(Entry) /\ Len(Append(marked, e)) = Len(journal[d]) + 1
    BY <1>3, <1>4
  <1>6. journal' \in [DocIds -> Seq(Entry)]
    BY <1>1, <1>2, <1>5 DEF TypeInv, TypeOK
  <1>7. \A x \in DocIds : Len(journal'[x]) >= Len(journal[x])
    BY <1>1, <1>2, <1>5 DEF TypeInv, TypeOK
  <1>8. /\ docs' \in [DocIds -> Row \cup {NoRow}]
        /\ lines' \in [DocIds -> SUBSET LineIds]
        /\ approvals' \in [DocIds -> Nat]
        /\ \A x \in DocIds : docs[x] # NoRow => docs'[x] # NoRow
    BY <1>1, <1>2, <1>3 DEF TypeInv, TypeOK
  <1>9. EntriesExist'
    <2> SUFFICES ASSUME NEW x \in DocIds, docs'[x] # NoRow
                 PROVE  docs'[x].entry <= Len(journal'[x])
      BY DEF EntriesExist
    <2>1. Len(journal[x]) \in Nat /\ Len(journal'[x]) \in Nat
      BY <1>6 DEF TypeInv, TypeOK
    <2>2. CASE x = c
      BY <1>1, <1>2, <1>3, <2>1, <2>2 DEF TypeInv, TypeOK
    <2>3. CASE x # c /\ x = d
      <3>1. docs'[x] = row
        BY <1>1, <1>2, <2>3 DEF TypeInv, TypeOK
      <3>2. n <= Len(journal[x]) /\ n \in Nat
        BY <1>2, <2>3
      <3> QED BY <1>3, <1>7, <2>1, <3>1, <3>2
    <2>4. CASE x # c /\ x # d
      BY <1>1, <1>7, <2>1, <2>4 DEF TypeInv, TypeOK, EntriesExist, Row
    <2> QED BY <2>2, <2>3, <2>4
  <1> QED BY <1>1, <1>6, <1>7, <1>8, <1>9, TypeInvCommit

LEMMA TypeInvNext == TypeInv /\ [Next]_vars => TypeInv'
  <1> SUFFICES ASSUME TypeInv, [Next]_vars PROVE TypeInv'
    OBVIOUS
  <1>1. CASE UNCHANGED vars
    BY <1>1 DEF vars, TypeInv, TypeOK, RequestShape, GoodRequest, EntriesExist
  <1>2. CASE \E d \in DocIds, u \in Users, h \in Headers : Create(d, u, h)
    BY <1>2, TypeInvCreate
  <1>3. ASSUME NEW r \in Requests,
               \/ \E d \in DocIds, h \in Headers, w \in BOOLEAN : UpdateRead(r, d, h, w)
               \/ \E op \in LockingOps, d \in DocIds, u \in Users : LockRow(r, op, d, u)
               \/ Advance(r)
               \/ Rollback(r)
        PROVE  TypeInv'
    <2>1. CASE \/ DeleteStatement(r) \/ DeleteRows(r) \/ InsertLines(r)
               \/ SaveLoad(r) \/ ReadLines(r) \/ ReadEntry(r)
      BY <2>1, TypeInvAdvance
    <2>2. CASE SaveCommit(r)
      BY <2>2, TypeInvSaveCommit
    <2>3. CASE CommitTransition(r)
      BY <2>3, TypeInvCommitTransition
    <2>4. CASE CommitPosting(r)
      BY <2>4, TypeInvCommitPosting
    <2>5. CASE \E c \in DocIds : CommitReversal(r, c)
      BY <2>5, TypeInvCommitReversal
    <2>6. CASE Refuse(r) \/ Rollback(r)
      BY <2>6, TypeInvEnd
    <2> QED BY <1>3, <2>1, <2>2, <2>3, <2>4, <2>5, <2>6, TypeInvStart DEF Advance
  <1> QED BY <1>1, <1>2, <1>3 DEF Next

\* The tables and the requests of DocumentsService keep their types, and every
\* request under way works on an existing document.
THEOREM TypeCorrect == Spec => []TypeOK
  <1>1. Spec => []TypeInv
    BY TypeInvInit, TypeInvNext, PTL DEF Spec
  <1>2. TypeInv => TypeOK
    BY DEF TypeInv
  <1> QED BY <1>1, <1>2, PTL

-----------------------------------------------------------------------------
(* Who holds which lock, and what that says about the rows.                 *)

\* r has inserted lines and so holds KEY SHARE on its document.
SharesKey(r) == req[r].pc \in {"load", "write"} /\ req[r].new # {}

\* The status check was made on the row that is still current.
Decided ==
  \A r \in Requests : Holds(r) => Target(req[r].op) \in Allowed(req[r].mem.status)

\* An update writes DRAFT or no status; without new lines it deletes none.
UpdateShape ==
  \A r \in Requests : req[r].pc # "idle" /\ ~Holds(r) =>
    /\ req[r].mem.status = "DRAFT"
    /\ req[r].pc \in {"load", "write"} /\ req[r].new = {} => req[r].seen = {}

\* When an update that replaces lines commits, its document will be in DRAFT.
DraftAfterLines ==
  \A r \in Requests : req[r].pc = "write" /\ req[r].new # {} =>
    "status" \in req[r].diff \/ docs[req[r].doc].status = "DRAFT"

\* The lines read for a posting stay the document's lines.
LinesReadAreCurrent ==
  \A r \in Requests : req[r].pc = "staged" /\ req[r].op = "post" =>
    req[r].seen = lines[req[r].doc]

LockInv ==
  LockedRowIsCurrent /\ Decided /\ UpdateShape /\ DraftAfterLines
    /\ LinesReadAreCurrent

\* What a free lock says about the other requests.
LEMMA FreeLock ==
  ASSUME NEW r \in Requests, NEW s \in Requests \ {r}, NEW d, req[s].doc = d
  PROVE  /\ MayLock(r, d, "UPDATE") => ~Holds(s) /\ ~SharesKey(s)
         /\ MayLock(r, d, "NO KEY UPDATE") => ~Holds(s)
         /\ MayLock(r, d, "KEY SHARE") => ~Holds(s)
  BY DEF MayLock, HeldModes, RowLock, ForeignKeyLock, WaitsFor, Holds, SharesKey

LEMMA LockInvInit == Init => LockInv
  BY DEF Init, LockInv, LockedRowIsCurrent, Decided, UpdateShape,
         DraftAfterLines, LinesReadAreCurrent, Holds, IdleRequest

\* LockInv, read off for one request and its rivals on the same document.
LockInvOf(r) ==
  /\ Holds(r) => /\ req[r].mem = docs[req[r].doc]
                 /\ Target(req[r].op) \in Allowed(req[r].mem.status)
  /\ req[r].pc # "idle" /\ ~Holds(r) =>
       /\ req[r].mem.status = "DRAFT"
       /\ req[r].pc \in {"load", "write"} /\ req[r].new = {} => req[r].seen = {}
  /\ req[r].pc = "write" /\ req[r].new # {} =>
       "status" \in req[r].diff \/ docs[req[r].doc].status = "DRAFT"
  /\ req[r].pc = "staged" /\ req[r].op = "post" => req[r].seen = lines[req[r].doc]

Rivals(r, s) ==
  Holds(r) /\ req[s].doc = req[r].doc => ~Holds(s) /\ ~SharesKey(s)

LEMMA LockInvByRequest ==
  LockInv <=> /\ \A r \in Requests : LockInvOf(r)
              /\ \A r, s \in Requests : r # s => Rivals(r, s)
  BY DEF LockInv, LockInvOf, Rivals, LockedRowIsCurrent, Decided, UpdateShape,
         DraftAfterLines, LinesReadAreCurrent, SharesKey

\* The end of a request keeps LockInv when, for each other request, it leaves
\* the row and the lines alone, or the request holds no lock that protects them.
LEMMA LockInvCommit ==
  ASSUME TypeInv, LockInv, NEW r \in Requests, Finish(r),
         \A s \in Requests \ {r} : req[s].pc # "idle" =>
           \/ /\ docs'[req[s].doc] = docs[req[s].doc]
              /\ lines'[req[s].doc] = lines[req[s].doc]
           \/ /\ ~Holds(s)
              /\ SharesKey(s) /\ docs[req[s].doc].status = "DRAFT" =>
                   docs'[req[s].doc].status = "DRAFT"
  PROVE  LockInv'
  <1>1. /\ req'[r].pc = "idle"
        /\ \A s \in Requests \ {r} : req'[s] = req[s]
    BY DEF TypeInv, TypeOK, Finish, IdleRequest
  <1>2. \A s \in Requests : LockInvOf(s)'
    <2> TAKE s \in Requests
    <2>1. CASE s = r
      BY <1>1, <2>1 DEF LockInvOf, Holds
    <2>2. CASE s # r /\ req[s].pc # "idle"
      BY <1>1, <2>2, LockInvByRequest DEF LockInvOf, Holds, SharesKey
    <2>3. CASE s # r /\ req[s].pc = "idle"
      BY <1>1, <2>3 DEF LockInvOf, Holds
    <2> QED BY <2>1, <2>2, <2>3
  <1>3. \A s, t \in Requests : s # t => Rivals(s, t)'
    BY <1>1, LockInvByRequest DEF Rivals, Holds, SharesKey
  <1>4. LockInv' <=> /\ \A s \in Requests : LockInvOf(s)'
                     /\ \A s, t \in Requests : s # t => Rivals(s, t)'
    BY DEF LockInv, LockInvOf, Rivals, LockedRowIsCurrent, Decided, UpdateShape,
           DraftAfterLines, LinesReadAreCurrent, SharesKey, Holds
  <1> QED BY <1>2, <1>3, <1>4

LEMMA LockInvSaveCommit ==
  ASSUME TypeInv, LockInv, NEW r \in Requests, SaveCommit(r)
  PROVE  LockInv'
  <1> DEFINE d == req[r].doc
             row == Saved(req[r].mem, req[r].diff, docs[d])
  <1>1. /\ req[r].pc = "write" /\ Finish(r)
        /\ req[r].diff # {} => MayLock(r, d, "NO KEY UPDATE")
        /\ docs' = [docs EXCEPT ![d] = row]
        /\ lines' = [lines EXCEPT ![d] = (@ \ req[r].seen) \cup req[r].new]
    BY DEF SaveCommit, MayWrite
  <1>2. /\ d \in DocIds /\ docs[d] \in Row /\ req[r].mem \in Row
        /\ req[r].diff \in SUBSET Columns /\ lines[d] \in SUBSET LineIds
    BY <1>1, ActiveRequest
  <1>3. /\ row.status = IF "status" \in req[r].diff THEN "DRAFT" ELSE docs[d].status
        /\ req[r].diff = {} => row = docs[d]
    <2>1. req[r].mem.status = "DRAFT"
      BY <1>1, LockInvByRequest DEF LockInvOf, Holds
    <2> QED BY <1>2, <2>1, SavedRow
  <1>4. req[r].new = {} => req[r].seen = {}
    BY <1>1, LockInvByRequest DEF LockInvOf, Holds
  <1>5. ASSUME NEW s \in Requests \ {r}, req[s].pc # "idle", req[s].doc = d
        PROVE  \/ docs'[d] = docs[d] /\ lines'[d] = lines[d]
               \/ /\ ~Holds(s)
                  /\ docs[d].status = "DRAFT" => docs'[d].status = "DRAFT"
    <2>1. CASE req[r].diff = {} /\ req[r].new = {}
      BY <1>1, <1>2, <1>3, <1>4, <2>1 DEF TypeInv, TypeOK
    <2>2. CASE req[r].diff # {} \/ req[r].new # {}
      <3>1. ~Holds(s)
        BY <1>1, <1>5, <2>2, FreeLock, LockInvByRequest DEF Rivals, SharesKey
      <3>2. docs[d].status = "DRAFT" => docs'[d].status = "DRAFT"
        BY <1>1, <1>2, <1>3 DEF TypeInv, TypeOK
      <3> QED BY <3>1, <3>2
    <2> QED BY <2>1, <2>2
  <1>6. ASSUME NEW s \in Requests \ {r}, req[s].pc # "idle", req[s].doc # d
        PROVE  /\ docs'[req[s].doc] = docs[req[s].doc]
               /\ lines'[req[s].doc] = lines[req[s].doc]
    BY <1>1, <1>6, ActiveRequest DEF TypeInv, TypeOK
  <1> QED BY <1>1, <1>5, <1>6, LockInvCommit

\* A request that holds the row lock may write its document and insert another.
LEMMA LockInvLockedCommit ==
  ASSUME TypeInv, LockInv, NEW r \in Requests, Holds(r), Finish(r),
         UNCHANGED lines,
         \A x \in DocIds : x # req[r].doc /\ docs[x] # NoRow => docs'[x] = docs[x]
  PROVE  LockInv'
  <1>1. ASSUME NEW s \in Requests \ {r}, req[s].pc # "idle"
        PROVE  \/ /\ docs'[req[s].doc] = docs[req[s].doc]
                  /\ lines'[req[s].doc] = lines[req[s].doc]
               \/ ~Holds(s) /\ ~SharesKey(s)
    <2>1. CASE req[s].doc = req[r].doc
      BY <2>1, LockInvByRequest DEF Rivals
    <2>2. CASE req[s].doc # req[r].doc
      BY <1>1, <2>2, ActiveRequest, NoRowAssumption
    <2> QED BY <2>1, <2>2
  <1> QED BY <1>1, LockInvCommit

LEMMA LockInvCommits ==
  ASSUME TypeInv, LockInv, NEW r \in Requests,
         \/ CommitTransition(r) \/ CommitPosting(r)
         \/ \E c \in DocIds : CommitReversal(r, c)
  PROVE  LockInv'
  <1>1. CASE CommitTransition(r) \/ CommitPosting(r)
    <2>1. Holds(r) /\ Finish(r) /\ UNCHANGED lines
      BY <1>1 DEF CommitTransition, CommitPosting, Holds
    <2>2. \A x \in DocIds : x # req[r].doc => docs'[x] = docs[x]
      BY <1>1 DEF CommitTransition, CommitPosting, TypeInv, TypeOK
    <2> QED BY <2>1, <2>2, LockInvLockedCommit
  <1>2. CASE \E c \in DocIds : CommitReversal(r, c)
    <2>1. PICK c \in DocIds : CommitReversal(r, c)
      BY <1>2
    <2>2. Holds(r) /\ Finish(r) /\ UNCHANGED lines /\ docs[c] = NoRow
      BY <2>1 DEF CommitReversal, Holds
    <2>3. \A x \in DocIds : x # req[r].doc /\ x # c => docs'[x] = docs[x]
      BY <2>1 DEF CommitReversal, TypeInv, TypeOK
    <2> QED BY <2>2, <2>3, LockInvLockedCommit
  <1> QED BY <1>1, <1>2

LEMMA LockInvEnd ==
  ASSUME TypeInv, LockInv, NEW r \in Requests, Refuse(r) \/ Rollback(r)
  PROVE  LockInv'
  BY LockInvCommit DEF Refuse, Rollback

LEMMA LockInvCreate ==
  ASSUME TypeInv, LockInv, NEW d \in DocIds, NEW u \in Users, NEW h \in Headers,
         Create(d, u, h)
  PROVE  LockInv'
  <1>1. UNCHANGED req /\ docs[d] = NoRow
    BY DEF Create
  <1>2. \A x \in DocIds : x # d => docs'[x] = docs[x] /\ lines'[x] = lines[x]
    BY DEF Create, TypeInv, TypeOK
  <1>3. ASSUME NEW s \in Requests, req[s].pc # "idle"
        PROVE  /\ docs'[req[s].doc] = docs[req[s].doc]
               /\ lines'[req[s].doc] = lines[req[s].doc]
    BY <1>1, <1>2, <1>3, ActiveRequest, NoRowAssumption
  <1> QED BY <1>1, <1>3 DEF LockInv, LockedRowIsCurrent, Decided, UpdateShape,
             DraftAfterLines, LinesReadAreCurrent, Holds

\* A step of one request that writes nothing.
LEMMA LockInvStep ==
  ASSUME TypeInv, LockInv, NEW r \in Requests, UNCHANGED <<docs, lines>>,
         \A s \in Requests \ {r} : req'[s] = req[s],
         LockInvOf(r)',
         \A s \in Requests \ {r} : Rivals(r, s)' /\ Rivals(s, r)'
  PROVE  LockInv'
  <1>1. \A s \in Requests : LockInvOf(s)'
    BY LockInvByRequest DEF LockInvOf, Holds
  <1>2. \A s, t \in Requests : s # t => Rivals(s, t)'
    BY LockInvByRequest DEF Rivals, Holds, SharesKey
  <1>3. LockInv' <=> /\ \A s \in Requests : LockInvOf(s)'
                     /\ \A s, t \in Requests : s # t => Rivals(s, t)'
    BY DEF LockInv, LockInvOf, Rivals, LockedRowIsCurrent, Decided, UpdateShape,
           DraftAfterLines, LinesReadAreCurrent, SharesKey, Holds
  <1> QED BY <1>1, <1>2, <1>3

LEMMA LockInvStart ==
  ASSUME TypeInv, LockInv, NEW r \in Requests,
         \/ \E d \in DocIds, h \in Headers, w \in BOOLEAN : UpdateRead(r, d, h, w)
         \/ \E op \in LockingOps, d \in DocIds, u \in Users : LockRow(r, op, d, u)
  PROVE  LockInv'
  <1>1. CASE \E d \in DocIds, h \in Headers, w \in BOOLEAN : UpdateRead(r, d, h, w)
    <2>1. PICK d \in DocIds, h \in Headers, w \in BOOLEAN : UpdateRead(r, d, h, w)
      BY <1>1
    <2>2. /\ UNCHANGED <<docs, lines>>
          /\ \A s \in Requests \ {r} : req'[s] = req[s]
          /\ req'[r].pc \in {"delete", "load"}
          /\ req'[r].mem = [docs[d] EXCEPT !.status = "DRAFT", !.header = h]
          /\ req'[r].seen = {} /\ req'[r].new = {}
      BY <2>1 DEF UpdateRead, Start, IdleRequest, TypeInv, TypeOK
    <2>3. docs[d] \in Row
      BY <2>1 DEF UpdateRead, TypeInv, TypeOK
    <2>4. req'[r].mem.status = "DRAFT"
      BY <2>2, <2>3 DEF Row
    <2>5. LockInvOf(r)'
      BY <2>2, <2>4 DEF LockInvOf, Holds
    <2>6. \A s \in Requests \ {r} : Rivals(r, s)' /\ Rivals(s, r)'
      BY <2>2 DEF Rivals, Holds, SharesKey
    <2> QED BY <2>2, <2>5, <2>6, LockInvStep
  <1>2. CASE \E op \in LockingOps, d \in DocIds, u \in Users : LockRow(r, op, d, u)
    <2>1. PICK op \in LockingOps, d \in DocIds, u \in Users : LockRow(r, op, d, u)
      BY <1>2
    <2>2. /\ UNCHANGED <<docs, lines>>
          /\ \A s \in Requests \ {r} : req'[s] = req[s]
          /\ req'[r].pc = "locked" /\ req'[r].op = op /\ req'[r].doc = d
          /\ req'[r].mem = docs[d]
          /\ MayLock(r, d, "UPDATE")
          /\ Target(op) \in Allowed(docs[d].status)
      BY <2>1 DEF LockRow, Accepts, RowLock, Start, IdleRequest, TypeInv, TypeOK
    <2>3. LockInvOf(r)'
      BY <2>2 DEF LockInvOf, Holds
    <2>4. \A s \in Requests \ {r} : req[s].doc = d => ~Holds(s) /\ ~SharesKey(s)
      BY <2>2, FreeLock
    <2>5. \A s \in Requests \ {r} : Rivals(r, s)' /\ Rivals(s, r)'
      BY <2>2, <2>4 DEF Rivals, Holds, SharesKey
    <2> QED BY <2>2, <2>3, <2>5, LockInvStep
  <1> QED BY <1>1, <1>2

LEMMA LockInvAdvance ==
  ASSUME TypeInv, LockInv, NEW r \in Requests,
         \/ DeleteStatement(r) \/ DeleteRows(r) \/ InsertLines(r)
         \/ SaveLoad(r) \/ ReadLines(r) \/ ReadEntry(r)
  PROVE  LockInv'
  <1> DEFINE d == req[r].doc
             Same == /\ UNCHANGED <<docs, lines>>
                     /\ \A s \in Requests \ {r} : req'[s] = req[s]
                     /\ req'[r].doc = d /\ req'[r].mem = req[r].mem
                     /\ req'[r].op = req[r].op
  <1>1. req[r].pc # "idle" /\ req \in [Requests -> Request] /\ req[r] \in Request
    BY AdvanceGoesOn DEF TypeInv, TypeOK
  <1>2. LockInvOf(r) /\ \A s \in Requests \ {r} : Rivals(r, s) /\ Rivals(s, r)
    BY LockInvByRequest
  <1>3. CASE DeleteStatement(r) \/ DeleteRows(r)
    <2>1. Same /\ req'[r].pc \in {"deleting", "insert"} /\ ~Holds(r)
      BY <1>1, <1>3 DEF DeleteStatement, DeleteRows, Request, Holds
    <2>2. LockInvOf(r)'
      BY <1>1, <1>2, <2>1 DEF LockInvOf, Holds
    <2>3. \A s \in Requests \ {r} : Rivals(r, s)' /\ Rivals(s, r)'
      BY <1>2, <2>1 DEF Rivals, Holds, SharesKey
    <2> QED BY <2>1, <2>2, <2>3, LockInvStep
  <1>4. CASE InsertLines(r)
    <2>0. PICK n : req' = [req EXCEPT ![r].pc = "load", ![r].new = {n}]
      BY <1>4 DEF InsertLines
    <2>1. Same /\ req'[r].pc = "load" /\ req'[r].new # {} /\ ~Holds(r)
      BY <1>1, <1>4, <2>0 DEF InsertLines, Request, Holds
    <2>2. MayLock(r, d, "KEY SHARE")
      BY <1>4 DEF InsertLines, ForeignKeyLock
    <2>3. LockInvOf(r)'
      BY <1>1, <1>2, <2>1 DEF LockInvOf, Holds
    <2>4. \A s \in Requests \ {r} : Rivals(r, s)' /\ Rivals(s, r)'
      BY <2>1, <2>2, FreeLock DEF Rivals, Holds, SharesKey
    <2> QED BY <2>1, <2>3, <2>4, LockInvStep
  <1>5. CASE SaveLoad(r)
    <2>1. /\ Same /\ req[r].pc = "load" /\ req'[r].pc = "write"
          /\ req'[r].new = req[r].new /\ req'[r].seen = req[r].seen
          /\ req'[r].diff = {c \in Columns : req[r].mem[c] # docs[d][c]}
          /\ ~Holds(r)
      BY <1>1, <1>5 DEF SaveLoad, Request, Holds
    <2>2. req[r].mem.status = "DRAFT"
      BY <1>1, <1>2, <2>1 DEF LockInvOf, Holds
    <2>3. "status" \in req'[r].diff \/ docs[d].status = "DRAFT"
      BY <2>1, <2>2 DEF Columns
    <2>4. LockInvOf(r)'
      BY <1>1, <1>2, <2>1, <2>2, <2>3 DEF LockInvOf, Holds
    <2>5. \A s \in Requests \ {r} : Rivals(r, s)' /\ Rivals(s, r)'
      BY <1>2, <2>1 DEF Rivals, Holds, SharesKey
    <2> QED BY <2>1, <2>4, <2>5, LockInvStep
  <1>6. CASE ReadLines(r) \/ ReadEntry(r)
    <2>1. /\ Same /\ req'[r].pc = "staged" /\ Holds(r)
          /\ req[r].op = "post" => req'[r].seen = lines[d]
      BY <1>1, <1>6 DEF ReadLines, ReadEntry, Request, Holds
    <2>2. LockInvOf(r)'
      BY <1>1, <1>2, <2>1 DEF LockInvOf, Holds
    <2>3. \A s \in Requests \ {r} : Rivals(r, s)' /\ Rivals(s, r)'
      BY <1>2, <2>1 DEF Rivals, Holds, SharesKey
    <2> QED BY <2>1, <2>2, <2>3, LockInvStep
  <1> QED BY <1>3, <1>4, <1>5, <1>6

LEMMA LockInvNext == TypeInv /\ LockInv /\ [Next]_vars => LockInv'
  <1> SUFFICES ASSUME TypeInv, LockInv, [Next]_vars PROVE LockInv'
    OBVIOUS
  <1>1. CASE UNCHANGED vars
    BY <1>1 DEF vars, LockInv, LockedRowIsCurrent, Decided, UpdateShape,
                DraftAfterLines, LinesReadAreCurrent, Holds
  <1>2. CASE \E d \in DocIds, u \in Users, h \in Headers : Create(d, u, h)
    BY <1>2, LockInvCreate
  <1>3. ASSUME NEW r \in Requests,
               \/ \E d \in DocIds, h \in Headers, w \in BOOLEAN : UpdateRead(r, d, h, w)
               \/ \E op \in LockingOps, d \in DocIds, u \in Users : LockRow(r, op, d, u)
               \/ Advance(r)
               \/ Rollback(r)
        PROVE  LockInv'
    BY <1>3, LockInvStart, LockInvAdvance, LockInvSaveCommit, LockInvCommits,
       LockInvEnd DEF Advance
  <1> QED BY <1>1, <1>2, <1>3 DEF Next

\* The lock discipline of DocumentsService: a method that has read a document
\* FOR UPDATE works on the committed row until it finishes.
THEOREM LockDiscipline == Spec => []LockedRowIsCurrent
  <1>1. Init => TypeInv /\ LockInv
    BY TypeInvInit, LockInvInit
  <1>2. TypeInv /\ LockInv /\ [Next]_vars => (TypeInv /\ LockInv)'
    BY TypeInvNext, LockInvNext
  <1>3. LockInv => LockedRowIsCurrent
    BY DEF LockInv
  <1> QED BY <1>1, <1>2, <1>3, PTL DEF Spec

-----------------------------------------------------------------------------
(* What follows from the lock discipline for each step.                     *)

Inv == TypeInv /\ LockInv

LEMMA InvInit == Init => Inv
  BY TypeInvInit, LockInvInit DEF Inv

LEMMA InvNext == Inv /\ [Next]_vars => Inv'
  BY TypeInvNext, LockInvNext DEF Inv

\* The row that the commit of an update leaves, and when the lines change.
LEMMA UpdateOutcome ==
  ASSUME Inv, NEW r \in Requests, SaveCommit(r)
  PROVE  LET d == req[r].doc IN
         /\ d \in DocIds /\ docs[d] # NoRow /\ docs'[d] # NoRow
         /\ docs'[d].status \in {"DRAFT", docs[d].status}
         /\ req[r].new # {} => docs'[d].status = "DRAFT"
         /\ req[r].new = {} => lines'[d] = lines[d]
         /\ \A x \in DocIds \ {d} : docs'[x] = docs[x] /\ lines'[x] = lines[x]
         /\ UNCHANGED <<journal, approvals>>
  <1> DEFINE d == req[r].doc
             row == Saved(req[r].mem, req[r].diff, docs[d])
  <1>1. /\ req[r].pc = "write"
        /\ docs' = [docs EXCEPT ![d] = row]
        /\ lines' = [lines EXCEPT ![d] = (@ \ req[r].seen) \cup req[r].new]
        /\ UNCHANGED <<journal, approvals>>
    BY DEF SaveCommit
  <1>2. /\ d \in DocIds /\ docs[d] \in Row /\ req[r].mem \in Row
        /\ req[r].diff \in SUBSET Columns /\ lines[d] \in SUBSET LineIds
    BY <1>1, ActiveRequest DEF Inv
  <1>3. /\ req[r].mem.status = "DRAFT"
        /\ req[r].new = {} => req[r].seen = {}
        /\ req[r].new # {} => "status" \in req[r].diff \/ docs[d].status = "DRAFT"
    BY <1>1, LockInvByRequest DEF Inv, LockInvOf, Holds
  <1>4. /\ row \in Row /\ row # NoRow /\ docs[d] # NoRow
        /\ row.status = IF "status" \in req[r].diff THEN "DRAFT" ELSE docs[d].status
    BY <1>2, <1>3, SavedRow, NoRowAssumption
  <1>5. /\ docs \in [DocIds -> Row \cup {NoRow}]
        /\ lines \in [DocIds -> SUBSET LineIds]
    BY DEF Inv, TypeInv, TypeOK
  <1>6. docs'[d] = row /\ lines'[d] = (lines[d] \ req[r].seen) \cup req[r].new
    BY <1>1, <1>2, <1>5
  <1>7. \A x \in DocIds \ {d} : docs'[x] = docs[x] /\ lines'[x] = lines[x]
    BY <1>1, <1>5
  <1> QED BY <1>1, <1>2, <1>3, <1>4, <1>6, <1>7

\* What a method that holds the lock starts from when it commits.
LEMMA LockedOutcome ==
  ASSUME Inv, NEW r \in Requests,
         \/ CommitTransition(r) \/ CommitPosting(r)
         \/ \E c \in DocIds : CommitReversal(r, c)
  PROVE  LET d == req[r].doc IN
         /\ d \in DocIds /\ docs[d] \in Row
         /\ req[r].mem = docs[d] /\ docs'[d].status = Target(req[r].op)
         /\ Target(req[r].op) \in Allowed(docs[d].status)
         /\ \A x \in DocIds \ {d} : docs[x] # NoRow => docs'[x] = docs[x]
         /\ \A x \in DocIds : docs'[x] # docs[x] /\ x # d =>
              docs'[x] # NoRow /\ docs'[x].status = "POSTED"
         /\ UNCHANGED lines
  <1> DEFINE d == req[r].doc
  <1>1. Holds(r) /\ req[r].pc # "idle" /\ UNCHANGED lines
    BY DEF CommitTransition, CommitPosting, CommitReversal, Holds
  <1>2. /\ d \in DocIds /\ docs[d] \in Row /\ req[r].mem = docs[d]
        /\ Target(req[r].op) \in Allowed(docs[d].status)
    BY <1>1, ActiveRequest, LockInvByRequest DEF Inv, LockInvOf
  <1>3. docs \in [DocIds -> Row \cup {NoRow}]
    BY DEF Inv, TypeInv, TypeOK
  <1>4. CASE CommitTransition(r)
    BY <1>1, <1>2, <1>3, <1>4 DEF CommitTransition, Row
  <1>5. CASE CommitPosting(r)
    BY <1>1, <1>2, <1>3, <1>5 DEF CommitPosting, Row, Target
  <1>6. CASE \E c \in DocIds : CommitReversal(r, c)
    <2>1. PICK c \in DocIds : CommitReversal(r, c)
      BY <1>6
    <2> DEFINE correction == [status |-> "POSTED", header |-> req[r].mem.header,
                              entry |-> 0, createdBy |-> req[r].actor,
                              correctionOf |-> d]
    <2>2. /\ docs[c] = NoRow /\ req[r].op = "reverse"
          /\ docs' = [docs EXCEPT ![d] = [req[r].mem EXCEPT !.status = "REVERSED"],
                                  ![c] = correction]
      BY <2>1 DEF CommitReversal
    <2>3. /\ correction \in Row /\ correction.status = "POSTED"
          /\ correction # NoRow /\ c # d
      BY <1>1, <1>2, <2>2, ActiveRequest, NoRowAssumption DEF Inv, Row, Status
    <2>4. /\ docs'[d] = [req[r].mem EXCEPT !.status = "REVERSED"]
          /\ docs'[c] = correction
          /\ \A x \in DocIds \ {c, d} : docs'[x] = docs[x]
      BY <1>2, <1>3, <2>2, <2>3
    <2>5. docs'[d].status = Target(req[r].op)
      BY <1>2, <2>2, <2>4 DEF Row, Target
    <2> QED BY <1>1, <1>2, <2>2, <2>3, <2>4, <2>5
  <1> QED BY <1>4, <1>5, <1>6

\* The only steps that write a table.
LEMMA WritingSteps ==
  ASSUME [Next]_vars
  PROVE  \/ UNCHANGED <<docs, lines, journal, approvals>>
         \/ \E d \in DocIds, u \in Users, h \in Headers : Create(d, u, h)
         \/ \E r \in Requests : SaveCommit(r)
         \/ \E r \in Requests : \/ CommitTransition(r) \/ CommitPosting(r)
                                \/ \E c \in DocIds : CommitReversal(r, c)
  <1> DEFINE Quiet == UNCHANGED <<docs, lines, journal, approvals>>
             Writing(r) == \/ SaveCommit(r) \/ CommitTransition(r) \/ CommitPosting(r)
                           \/ \E c \in DocIds : CommitReversal(r, c)
  <1>1. ASSUME NEW r \in Requests, Advance(r) PROVE Writing(r) \/ Quiet
    <2>1. CASE \/ DeleteStatement(r) \/ DeleteRows(r) \/ InsertLines(r) \/ SaveLoad(r)
      BY <2>1 DEF DeleteStatement, DeleteRows, InsertLines, SaveLoad
    <2>2. CASE ReadLines(r) \/ ReadEntry(r) \/ Refuse(r)
      BY <2>2 DEF ReadLines, ReadEntry, Refuse
    <2>3. CASE Writing(r)
      BY <2>3
    <2> QED BY <1>1, <2>1, <2>2, <2>3 DEF Advance
  <1>2. ASSUME NEW r \in Requests,
               \/ \E d \in DocIds, h \in Headers, w \in BOOLEAN : UpdateRead(r, d, h, w)
               \/ \E op \in LockingOps, d \in DocIds, u \in Users : LockRow(r, op, d, u)
               \/ Rollback(r)
        PROVE  Quiet
    BY <1>2 DEF UpdateRead, LockRow, Rollback
  <1>3. CASE UNCHANGED vars
    BY <1>3 DEF vars
  <1>4. CASE Next
    <2>1. CASE \E d \in DocIds, u \in Users, h \in Headers : Create(d, u, h)
      BY <2>1
    <2>2. ASSUME NEW r \in Requests,
                 \/ \E d \in DocIds, h \in Headers, w \in BOOLEAN : UpdateRead(r, d, h, w)
                 \/ \E op \in LockingOps, d \in DocIds, u \in Users : LockRow(r, op, d, u)
                 \/ Advance(r)
                 \/ Rollback(r)
          PROVE  Writing(r) \/ Quiet
      <3> HIDE DEF Writing, Quiet
      <3> QED BY <2>2, <1>1, <1>2
    <2> QED BY <1>4, <2>1, <2>2 DEF Next
  <1> QED BY <1>3, <1>4

\* The document that create() inserts.
LEMMA CreateOutcome ==
  ASSUME Inv, NEW d \in DocIds, NEW u \in Users, NEW h \in Headers, Create(d, u, h)
  PROVE  /\ docs[d] = NoRow /\ docs'[d] # NoRow /\ docs'[d].status = "DRAFT"
         /\ \A x \in DocIds \ {d} : docs'[x] = docs[x] /\ lines'[x] = lines[x]
         /\ UNCHANGED <<journal, approvals>>
  <1> DEFINE row == [status |-> "DRAFT", header |-> h, entry |-> 0,
                     createdBy |-> u, correctionOf |-> NoDoc]
  <1>1. row \in Row /\ row # NoRow /\ row.status = "DRAFT"
    BY NoRowAssumption DEF Row, Status
  <1>2. docs' = [docs EXCEPT ![d] = row] /\ docs[d] = NoRow
    BY DEF Create
  <1> QED BY <1>1, <1>2 DEF Create, Inv, TypeInv, TypeOK

LEMMA LinesStep ==
  ASSUME Inv, [Next]_vars, NEW x \in DocIds, lines'[x] # lines[x]
  PROVE  docs'[x] # NoRow /\ docs'[x].status = "DRAFT"
  <1>1. ASSUME NEW d \in DocIds, NEW u \in Users, NEW h \in Headers, Create(d, u, h)
        PROVE  docs'[x] # NoRow /\ docs'[x].status = "DRAFT"
    BY <1>1, CreateOutcome
  <1>2. ASSUME NEW r \in Requests, SaveCommit(r)
        PROVE  docs'[x] # NoRow /\ docs'[x].status = "DRAFT"
    BY <1>2, UpdateOutcome
  <1>3. ASSUME NEW r \in Requests,
               \/ CommitTransition(r) \/ CommitPosting(r)
               \/ \E c \in DocIds : CommitReversal(r, c)
        PROVE  FALSE
    BY <1>3, LockedOutcome
  <1> QED BY <1>1, <1>2, <1>3, WritingSteps

\* What is approved and posted is what was submitted: the lines of a document
\* change only in a step that leaves it in DRAFT.
THEOREM LinesFrozen == Spec => LinesChangeOnlyInDraft
  <1> DEFINE A == \A d \in DocIds : lines'[d] # lines[d] =>
                    docs'[d] # NoRow /\ docs'[d].status = "DRAFT"
  <1>1. Inv /\ [Next]_vars => [A]_vars
    BY LinesStep
  <1>2. Spec => [][A]_vars
    BY <1>1, InvInit, InvNext, PTL DEF Spec
  <1> QED BY <1>2 DEF LinesChangeOnlyInDraft

LEMMA StatusStep ==
  ASSUME Inv, [Next]_vars, NEW x \in DocIds,
         docs[x] # NoRow, docs'[x].status # docs[x].status
  PROVE  docs'[x].status \in Allowed(docs[x].status) \cup {"DRAFT"}
  <1>1. ASSUME NEW d \in DocIds, NEW u \in Users, NEW h \in Headers, Create(d, u, h)
        PROVE  docs'[x].status \in Allowed(docs[x].status) \cup {"DRAFT"}
    BY <1>1, CreateOutcome
  <1>2. ASSUME NEW r \in Requests, SaveCommit(r)
        PROVE  docs'[x].status \in Allowed(docs[x].status) \cup {"DRAFT"}
    BY <1>2, UpdateOutcome
  <1>3. ASSUME NEW r \in Requests,
               \/ CommitTransition(r) \/ CommitPosting(r)
               \/ \E c \in DocIds : CommitReversal(r, c)
        PROVE  docs'[x].status \in Allowed(docs[x].status) \cup {"DRAFT"}
    BY <1>3, LockedOutcome
  <1> QED BY <1>1, <1>2, <1>3, WritingSteps

\* Whatever requests race, a document's status follows the transition table or
\* falls back to DRAFT.
THEOREM StatusMoves == Spec => MovesAlongTable
  <1> DEFINE A == \A d \in DocIds :
                    docs[d] # NoRow /\ docs'[d].status # docs[d].status =>
                      docs'[d].status \in Allowed(docs[d].status) \cup {"DRAFT"}
  <1>1. Inv /\ [Next]_vars => [A]_vars
    BY StatusStep
  <1>2. Spec => [][A]_vars
    BY <1>1, InvInit, InvNext, PTL DEF Spec
  <1> QED BY <1>2 DEF MovesAlongTable

-----------------------------------------------------------------------------
(* Approvals and postings.                                                  *)

Kinds(s, kind) == {i \in DOMAIN s : s[i].kind = kind}

LEMMA KindsFinite ==
  ASSUME NEW s \in Seq(Entry), NEW kind
  PROVE  /\ IsFiniteSet(Kinds(s, kind))
         /\ Cardinality(Kinds(s, kind)) \in Nat
         /\ Len(s) + 1 \notin Kinds(s, kind)
  <1>1. Len(s) \in Nat /\ DOMAIN s = 1..Len(s)
    OBVIOUS
  <1>2. Kinds(s, kind) \in SUBSET (1..Len(s))
    BY <1>1 DEF Kinds
  <1>3. IsFiniteSet(1..Len(s))
    BY <1>1, FS_Interval
  <1> QED BY <1>1, <1>2, <1>3, FS_Subset, FS_CardinalityType

LEMMA KindsAppend ==
  ASSUME NEW s \in Seq(Entry), NEW e \in Entry, NEW kind
  PROVE  Kinds(Append(s, e), kind) =
           IF e.kind = kind THEN Kinds(s, kind) \cup {Len(s) + 1} ELSE Kinds(s, kind)
  <1>1. /\ Len(s) \in Nat /\ DOMAIN s = 1..Len(s)
        /\ DOMAIN Append(s, e) = 1..(Len(s) + 1)
        /\ \A i \in 1..Len(s) : Append(s, e)[i] = s[i]
        /\ Append(s, e)[Len(s) + 1] = e
    OBVIOUS
  <1> QED BY <1>1 DEF Kinds

LEMMA KindsReverse ==
  ASSUME NEW s \in Seq(Entry), NEW n \in 1..Len(s), NEW kind
  PROVE  Kinds([s EXCEPT ![n].status = "REVERSED"], kind) = Kinds(s, kind)
  <1> DEFINE m == [s EXCEPT ![n].status = "REVERSED"]
  <1>1. DOMAIN m = DOMAIN s
    OBVIOUS
  <1>2. \A i \in DOMAIN s : m[i].kind = s[i].kind
    <2> TAKE i \in DOMAIN s
    <2>1. s[i] \in Entry
      OBVIOUS
    <2> QED BY <2>1, EntryReverse DEF Entry
  <1> QED BY <1>1, <1>2 DEF Kinds

Approved(d) == IF docs[d] # NoRow /\ docs[d].status = "APPROVED" THEN 1 ELSE 0

LEMMA ApprovalByKinds ==
  ApprovalConsumedOnce <=>
    \A d \in DocIds :
      Cardinality(Kinds(journal[d], "posting")) + Approved(d) <= approvals[d]
  BY DEF ApprovalConsumedOnce, Kinds, Positions, Approved

LEMMA ApprovalStep ==
  ASSUME Inv, ApprovalConsumedOnce, [Next]_vars, NEW x \in DocIds
  PROVE  Cardinality(Kinds(journal'[x], "posting")) + Approved(x)' <= approvals'[x]
  <1> DEFINE n == Cardinality(Kinds(journal[x], "posting"))
  <1>1. /\ journal[x] \in Seq(Entry) /\ approvals[x] \in Nat /\ n \in Nat
        /\ n + Approved(x) <= approvals[x]
    BY KindsFinite, ApprovalByKinds DEF Inv, TypeInv, TypeOK
  <1> HIDE DEF n
  <1>2. ASSUME UNCHANGED <<journal, approvals>>, Approved(x)' <= Approved(x)
        PROVE  n + Approved(x)' <= approvals'[x]
    BY <1>1, <1>2 DEF Approved
  <1>3. ASSUME NEW d \in DocIds, NEW u \in Users, NEW h \in Headers, Create(d, u, h)
        PROVE  UNCHANGED <<journal, approvals>> /\ Approved(x)' <= Approved(x)
    BY <1>3, CreateOutcome DEF Approved
  <1>4. ASSUME NEW r \in Requests, SaveCommit(r)
        PROVE  UNCHANGED <<journal, approvals>> /\ Approved(x)' <= Approved(x)
    BY <1>4, UpdateOutcome DEF Approved
  <1>5. ASSUME NEW r \in Requests, CommitTransition(r)
        PROVE  n + Approved(x)' <= approvals'[x] /\ UNCHANGED journal
    <2>1. /\ UNCHANGED journal
          /\ approvals' = [approvals EXCEPT ![req[r].doc] =
                             IF req[r].op = "approve" THEN @ + 1 ELSE @]
          /\ req[r].op \in Transitions
      BY <1>5 DEF CommitTransition
    <2>2. CASE x # req[r].doc
      <3>1. Approved(x)' <= Approved(x)
        BY <1>5, <2>2, LockedOutcome DEF Approved
      <3>2. approvals'[x] = approvals[x]
        BY <2>1, <2>2 DEF Inv, TypeInv, TypeOK
      <3> QED BY <1>1, <2>1, <3>1, <3>2 DEF Approved
    <2>3. CASE x = req[r].doc
      <3>1. /\ docs'[x].status = Target(req[r].op)
            /\ Target(req[r].op) \in Allowed(docs[x].status)
        BY <1>5, <2>3, LockedOutcome
      <3>2. CASE req[r].op = "approve"
        <4>1. approvals'[x] = approvals[x] + 1
          BY <2>1, <2>3, <3>2 DEF Inv, TypeInv, TypeOK
        <4>2. Approved(x) = 0
          BY <3>1, <3>2 DEF Approved, Target, Allowed
        <4> QED BY <1>1, <2>1, <4>1, <4>2 DEF Approved
      <3>3. CASE req[r].op # "approve"
        <4>1. approvals'[x] = approvals[x]
          BY <2>1, <2>3, <3>3 DEF Inv, TypeInv, TypeOK
        <4>2. Approved(x)' = 0
          BY <2>1, <3>1, <3>3 DEF Approved, Target, Transitions
        <4> QED BY <1>1, <2>1, <4>1, <4>2 DEF Approved
      <3> QED BY <3>2, <3>3
    <2> QED BY <2>1, <2>2, <2>3
  <1>6. ASSUME NEW r \in Requests, CommitPosting(r)
        PROVE  Cardinality(Kinds(journal'[x], "posting")) + Approved(x)' <= approvals'[x]
    <2> DEFINE e == [kind |-> "posting", status |-> "POSTED",
                     lines |-> req[r].seen, reverses |-> 0]
    <2>1. /\ journal' = [journal EXCEPT ![req[r].doc] = Append(@, e)]
          /\ UNCHANGED approvals /\ req[r].op = "post" /\ req[r].pc # "idle"
      BY <1>6 DEF CommitPosting
    <2>2. CASE x # req[r].doc
      <3>1. journal'[x] = journal[x] /\ Approved(x)' <= Approved(x)
        BY <1>6, <2>1, <2>2, LockedOutcome DEF Approved, Inv, TypeInv, TypeOK
      <3> QED BY <1>1, <2>1, <3>1 DEF Approved, n
    <2>3. CASE x = req[r].doc
      <3>1. e \in Entry /\ e.kind = "posting"
        BY <2>1, ActiveRequest DEF Inv, Entry
      <3>2. journal'[x] = Append(journal[x], e)
        BY <2>1, <2>3 DEF Inv, TypeInv, TypeOK
      <3>3. Kinds(journal'[x], "posting") =
              Kinds(journal[x], "posting") \cup {Len(journal[x]) + 1}
        BY <1>1, <3>1, <3>2, KindsAppend
      <3>4. Cardinality(Kinds(journal'[x], "posting")) = n + 1
        <4>1. /\ IsFiniteSet(Kinds(journal[x], "posting"))
              /\ Len(journal[x]) + 1 \notin Kinds(journal[x], "posting")
          BY <1>1, KindsFinite
        <4>2. Cardinality(Kinds(journal[x], "posting") \cup {Len(journal[x]) + 1})
                = Cardinality(Kinds(journal[x], "posting")) + 1
          BY <4>1, FS_AddElement
        <4> QED BY <3>3, <4>2 DEF n
      <3>5. Approved(x) = 1 /\ Approved(x)' = 0
        <4>1. /\ docs[x] # NoRow /\ docs'[x].status = "POSTED"
              /\ "POSTED" \in Allowed(docs[x].status)
          BY <1>6, <2>1, <2>3, LockedOutcome, NoRowAssumption DEF Target
        <4>2. docs[x].status = "APPROVED"
          BY <4>1 DEF Allowed
        <4> QED BY <4>1, <4>2 DEF Approved
      <3> QED BY <1>1, <2>1, <3>4, <3>5
    <2> QED BY <2>2, <2>3
  <1>7. ASSUME NEW r \in Requests, NEW c \in DocIds, CommitReversal(r, c)
        PROVE  Cardinality(Kinds(journal'[x], "posting")) + Approved(x)' <= approvals'[x]
    <2> DEFINE d == req[r].doc
               marked == [journal[d] EXCEPT ![req[r].mem.entry].status = "REVERSED"]
               e == [kind |-> "reversal", status |-> "POSTED",
                     lines |-> req[r].seen, reverses |-> req[r].mem.entry]
    <2>1. /\ journal' = [journal EXCEPT ![d] = Append(marked, e)]
          /\ UNCHANGED approvals /\ req[r].op = "reverse" /\ req[r].pc # "idle"
      BY <1>7 DEF CommitReversal
    <2>2. /\ req[r].mem.entry \in 1..Len(journal[d]) /\ journal[d] \in Seq(Entry)
          /\ d \in DocIds /\ e \in Entry /\ e.kind = "reversal"
      BY <2>1, ActiveRequest DEF Inv, Entry
    <2>3. marked \in Seq(Entry)
      BY <2>2, EntryReverse
    <2>7. Kinds(marked, "posting") = Kinds(journal[d], "posting")
      BY <2>2, KindsReverse
    <2>4. Kinds(Append(marked, e), "posting") = Kinds(journal[d], "posting")
      BY <2>2, <2>3, <2>7, KindsAppend
    <2>5. Kinds(journal'[x], "posting") = Kinds(journal[x], "posting")
      BY <2>1, <2>2, <2>4 DEF Inv, TypeInv, TypeOK
    <2>6. Approved(x)' <= Approved(x)
      BY <1>7, <2>1, LockedOutcome DEF Approved, Target
    <2> HIDE DEF marked, e, d
    <2> QED BY <1>1, <2>1, <2>5, <2>6 DEF Approved, n
  <1>8. CASE UNCHANGED <<docs, lines, journal, approvals>>
    BY <1>1, <1>8 DEF Approved, n
  <1> QED BY <1>2, <1>3, <1>4, <1>5, <1>6, <1>7, <1>8, WritingSteps DEF n

\* No approval is used for two postings, whatever requests race.
THEOREM OnePostingPerApproval == Spec => []ApprovalConsumedOnce
  <1>1. Init => ApprovalConsumedOnce
    <2> SUFFICES ASSUME Init, NEW d \in DocIds
                 PROVE  Cardinality(Kinds(journal[d], "posting")) + Approved(d)
                          <= approvals[d]
      BY ApprovalByKinds
    <2>1. Kinds(journal[d], "posting") = {}
      BY DEF Init, Kinds
    <2>2. Cardinality(Kinds(journal[d], "posting")) = 0
      BY <2>1, FS_EmptySet
    <2>3. Approved(d) = 0 /\ approvals[d] = 0
      BY DEF Init, Approved
    <2> QED BY <2>2, <2>3
  <1>2. Inv /\ ApprovalConsumedOnce /\ [Next]_vars => ApprovalConsumedOnce'
    <2>1. ApprovalConsumedOnce' <=>
            \A d \in DocIds :
              Cardinality(Kinds(journal'[d], "posting")) + Approved(d)' <= approvals'[d]
      BY DEF ApprovalConsumedOnce, Kinds, Positions, Approved
    <2> QED BY <2>1, ApprovalStep
  <1> QED BY <1>1, <1>2, InvInit, InvNext, PTL DEF Spec

LEMMA PostedStep ==
  ASSUME Inv, [Next]_vars, NEW x \in DocIds,
         NEW i \in DOMAIN journal'[x] \ DOMAIN journal[x],
         journal'[x][i].kind = "posting"
  PROVE  journal'[x][i].lines = lines[x] /\ lines'[x] = lines[x]
  <1>1. journal[x] \in Seq(Entry) /\ journal \in [DocIds -> Seq(Entry)]
    BY DEF Inv, TypeInv, TypeOK
  <1>2. journal'[x] # journal[x]
    OBVIOUS
  <1>3. ASSUME NEW d \in DocIds, NEW u \in Users, NEW h \in Headers, Create(d, u, h)
        PROVE  FALSE
    BY <1>2, <1>3, CreateOutcome
  <1>4. ASSUME NEW r \in Requests, SaveCommit(r) \/ CommitTransition(r)
        PROVE  FALSE
    BY <1>2, <1>4, UpdateOutcome DEF CommitTransition
  <1>5. ASSUME NEW r \in Requests, CommitPosting(r)
        PROVE  journal'[x][i].lines = lines[x] /\ lines'[x] = lines[x]
    <2> DEFINE e == [kind |-> "posting", status |-> "POSTED",
                     lines |-> req[r].seen, reverses |-> 0]
    <2>1. /\ journal' = [journal EXCEPT ![req[r].doc] = Append(@, e)]
          /\ req[r].pc = "staged" /\ req[r].op = "post" /\ UNCHANGED lines
      BY <1>5 DEF CommitPosting
    <2>2. x = req[r].doc
      BY <1>1, <1>2, <2>1
    <2>3. req[r].seen = lines[x]
      BY <2>1, <2>2 DEF Inv, LockInv, LinesReadAreCurrent
    <2>4. e \in Entry /\ e.lines = req[r].seen
      BY <2>1, ActiveRequest DEF Inv, Entry
    <2>5. journal'[x] = Append(journal[x], e)
      BY <1>1, <2>1, <2>2
    <2>6. i \in DOMAIN Append(journal[x], e) \ DOMAIN journal[x]
      BY <2>5
    <2>7. journal'[x][i] = e
      BY <1>1, <2>4, <2>5, <2>6, AppendedEntry
    <2> QED BY <2>1, <2>3, <2>4, <2>7
  <1>6. ASSUME NEW r \in Requests, NEW c \in DocIds, CommitReversal(r, c)
        PROVE  FALSE
    <2> DEFINE d == req[r].doc
               n == req[r].mem.entry
               marked == [journal[d] EXCEPT ![n].status = "REVERSED"]
               e == [kind |-> "reversal", status |-> "POSTED",
                     lines |-> req[r].seen, reverses |-> n]
    <2>1. /\ journal' = [journal EXCEPT ![d] = Append(marked, e)]
          /\ req[r].op = "reverse" /\ req[r].pc # "idle"
      BY <1>6 DEF CommitReversal
    <2>2. x = d
      BY <1>1, <1>2, <2>1
    <2>3. n \in 1..Len(journal[x]) /\ e \in Entry /\ e.kind = "reversal"
      BY <2>1, <2>2, ActiveRequest DEF Inv, Entry
    <2>4. marked \in Seq(Entry) /\ Len(marked) = Len(journal[x])
      BY <1>1, <2>2, <2>3, EntryReverse
    <2>5. journal'[x] = Append(marked, e)
      BY <1>1, <2>1, <2>2
    <2> HIDE DEF marked, e
    <2>6. i \in DOMAIN Append(marked, e) \ DOMAIN marked
      BY <1>1, <2>4, <2>5
    <2>7. journal'[x][i] = e
      BY <2>3, <2>4, <2>5, <2>6, AppendedEntry
    <2> QED BY <2>3, <2>7
  <1> QED BY <1>2, <1>3, <1>4, <1>5, <1>6, WritingSteps

\* The journal entry of a document carries the lines the document has when the
\* posting commits: no update can slip between reading and posting them.
THEOREM PostingIsCurrent == Spec => PostedLinesAreCurrent
  <1> DEFINE A == \A d \in DocIds : \A i \in DOMAIN journal'[d] \ DOMAIN journal[d] :
                    journal'[d][i].kind = "posting" =>
                      journal'[d][i].lines = lines[d] /\ lines'[d] = lines[d]
  <1>1. Inv /\ [Next]_vars => [A]_vars
    BY PostedStep
  <1>2. Spec => [][A]_vars
    BY <1>1, InvInit, InvNext, PTL DEF Spec
  <1> QED BY <1>2 DEF PostedLinesAreCurrent

-----------------------------------------------------------------------------
(* Postings and the entries that mirror them.                               *)

\* What a journal looks like: a reversal names an earlier posting, marked
\* REVERSED, with its lines; who is marked is named, and by one reversal only.
Mirrored(s) ==
  /\ \A j \in DOMAIN s : s[j].kind = "reversal" =>
       /\ s[j].reverses \in DOMAIN s /\ s[j].reverses < j
       /\ s[s[j].reverses].kind = "posting"
       /\ s[s[j].reverses].status = "REVERSED"
       /\ s[j].lines = s[s[j].reverses].lines
  /\ \A i \in DOMAIN s : s[i].status = "REVERSED" =>
       \E j \in DOMAIN s : s[j].kind = "reversal" /\ s[j].reverses = i
  /\ \A j, k \in DOMAIN s :
       /\ s[j].kind = "reversal" /\ s[k].kind = "reversal"
       /\ s[j].reverses = s[k].reverses
       => j = k

PostingAt(s, n) == n # 0 => s[n].kind = "posting"

\* What reverse() has read of the entry is still so.
Reversing(q, s) ==
  q.pc = "staged" /\ q.op = "reverse" =>
    s[q.mem.entry].status = "POSTED" /\ q.seen = s[q.mem.entry].lines

GoodReader(q) ==
  q.pc # "idle" =>
    PostingAt(journal[q.doc], q.mem.entry) /\ Reversing(q, journal[q.doc])

MirrorInv ==
  /\ \A d \in DocIds : Mirrored(journal[d])
  /\ \A d \in DocIds : docs[d] # NoRow => PostingAt(journal[d], docs[d].entry)
  /\ \A r \in Requests : GoodReader(req[r])

LEMMA MirrorsAreOne == MirrorInv => ReversedOnce
  <1> SUFFICES ASSUME MirrorInv, NEW d \in DocIds, NEW i \in DOMAIN journal[d]
               PROVE  LET mirrors == {j \in Positions(d, "reversal") : journal[d][j].reverses = i}
                      IN /\ journal[d][i].status = "REVERSED" <=> mirrors # {}
                         /\ \A j, k \in mirrors : j = k
                         /\ \A j \in mirrors : /\ j > i
                                               /\ journal[d][j].lines = journal[d][i].lines
                                               /\ i \in Positions(d, "posting")
    BY DEF ReversedOnce
  <1> DEFINE s == journal[d]
             mirrors == {j \in Positions(d, "reversal") : journal[d][j].reverses = i}
  <1>1. Mirrored(s)
    BY DEF MirrorInv
  <1>2. mirrors = {j \in DOMAIN s : s[j].kind = "reversal" /\ s[j].reverses = i}
    BY DEF Positions
  <1>3. i \in Positions(d, "posting") <=> s[i].kind = "posting"
    BY DEF Positions
  <1> HIDE DEF s, mirrors
  <1>4. s[i].status = "REVERSED" <=> mirrors # {}
    BY <1>1, <1>2 DEF Mirrored, s
  <1>5. \A j, k \in mirrors : j = k
    BY <1>1, <1>2 DEF Mirrored
  <1>6. \A j \in mirrors : i < j /\ s[j].lines = s[i].lines /\ s[i].kind = "posting"
    BY <1>1, <1>2 DEF Mirrored
  <1>7. \A j \in mirrors : i < j => j > i
    OBVIOUS
  <1> QED BY <1>3, <1>4, <1>5, <1>6, <1>7 DEF s, mirrors

LEMMA PostingMirrored ==
  ASSUME NEW s \in Seq(Entry), Mirrored(s), NEW e \in Entry,
         e.kind = "posting", e.status = "POSTED"
  PROVE  Mirrored(Append(s, e))
  <1> DEFINE t == Append(s, e)
  <1>1. /\ Len(s) \in Nat /\ DOMAIN s = 1..Len(s) /\ DOMAIN t = 1..(Len(s) + 1)
        /\ \A i \in 1..Len(s) : t[i] = s[i]
        /\ t[Len(s) + 1] = e
    OBVIOUS
  <1>2. \A i \in DOMAIN t : i \in DOMAIN s \/ t[i] = e
    BY <1>1
  <1>3. \A i \in DOMAIN s : i \in DOMAIN t /\ t[i] = s[i]
    BY <1>1
  <1> HIDE DEF t
  <1>4. Mirrored(t)
    BY <1>2, <1>3 DEF Mirrored
  <1> QED BY <1>4 DEF t

LEMMA ReversalMirrored ==
  ASSUME NEW s \in Seq(Entry), Mirrored(s), NEW n \in 1..Len(s), NEW e \in Entry,
         s[n].kind = "posting", s[n].status = "POSTED",
         e.kind = "reversal", e.status = "POSTED", e.reverses = n, e.lines = s[n].lines
  PROVE  /\ Mirrored(Append([s EXCEPT ![n].status = "REVERSED"], e))
         /\ \A i \in 1..Len(s) :
              Append([s EXCEPT ![n].status = "REVERSED"], e)[i].kind = s[i].kind
  <1> DEFINE m == [s EXCEPT ![n].status = "REVERSED"]
             t == Append(m, e)
             l == Len(s) + 1
  <1>1. m \in Seq(Entry) /\ Len(m) = Len(s)
    BY EntryReverse
  <1>2. \A i \in 1..Len(s) : i # n => m[i] = s[i]
    BY EntryReverse
  <1>3. m[n] = [s[n] EXCEPT !.status = "REVERSED"] /\ s[n] \in Entry
    BY EntryReverse
  <1>4. /\ m[n].kind = "posting" /\ m[n].status = "REVERSED" /\ m[n].lines = s[n].lines
        /\ m[n].reverses = s[n].reverses
    BY <1>3 DEF Entry
  <1> HIDE DEF m
  <1>5. /\ Len(s) \in Nat /\ DOMAIN s = 1..Len(s) /\ DOMAIN t = 1..l
        /\ \A i \in 1..Len(s) : t[i] = m[i]
        /\ t[l] = e
    BY <1>1
  <1>6. /\ \A i \in DOMAIN t : i \in DOMAIN s \/ i = l
        /\ l \in DOMAIN t /\ l \notin DOMAIN s /\ n \in DOMAIN s /\ n \in DOMAIN t
        /\ n < l
        /\ \A i \in DOMAIN s : i \in DOMAIN t
    BY <1>5
  <1>7. \A i \in DOMAIN s : i # n => t[i] = s[i]
    BY <1>2, <1>5
  <1>8. /\ t[n].kind = "posting" /\ t[n].status = "REVERSED"
        /\ t[n].lines = s[n].lines
    BY <1>4, <1>5
  <1>9. t[l] = e
    BY <1>5
  <1> HIDE DEF t, l
  <1>10. ASSUME NEW j \in DOMAIN t, t[j].kind = "reversal"
         PROVE  /\ t[j].reverses \in DOMAIN t /\ t[j].reverses < j
                /\ t[t[j].reverses].kind = "posting"
                /\ t[t[j].reverses].status = "REVERSED"
                /\ t[j].lines = t[t[j].reverses].lines
    <2>1. CASE j = l
      BY <1>6, <1>8, <1>9, <2>1
    <2>2. CASE j # l
      <3>1. j \in DOMAIN s /\ j # n /\ t[j] = s[j]
        BY <1>6, <1>7, <1>8, <1>10, <2>2
      <3>2. /\ s[j].reverses \in DOMAIN s /\ s[j].reverses < j
            /\ s[s[j].reverses].kind = "posting"
            /\ s[s[j].reverses].status = "REVERSED"
            /\ s[j].lines = s[s[j].reverses].lines
        BY <1>10, <3>1 DEF Mirrored
      <3>3. s[j].reverses # n
        BY <3>2
      <3> QED BY <1>6, <1>7, <3>1, <3>2, <3>3
    <2> QED BY <2>1, <2>2
  <1>11. ASSUME NEW i \in DOMAIN t, t[i].status = "REVERSED"
         PROVE  \E j \in DOMAIN t : t[j].kind = "reversal" /\ t[j].reverses = i
    <2>1. CASE i = n
      BY <1>6, <1>9, <2>1
    <2>2. CASE i # n
      <3>1. i \in DOMAIN s /\ s[i].status = "REVERSED"
        BY <1>6, <1>7, <1>9, <1>11, <2>2
      <3>2. PICK j \in DOMAIN s : s[j].kind = "reversal" /\ s[j].reverses = i
        BY <3>1 DEF Mirrored
      <3>3. j # n
        BY <3>2
      <3> QED BY <1>6, <1>7, <3>2, <3>3
    <2> QED BY <2>1, <2>2
  <1>12. ASSUME NEW j \in DOMAIN t, NEW k \in DOMAIN t,
                t[j].kind = "reversal", t[k].kind = "reversal",
                t[j].reverses = t[k].reverses
         PROVE  j = k
    <2>1. ASSUME NEW i \in DOMAIN t, t[i].kind = "reversal", i # l
          PROVE  /\ i \in DOMAIN s /\ t[i] = s[i]
                 /\ t[i].reverses # n
      <3>1. i \in DOMAIN s /\ i # n /\ t[i] = s[i]
        BY <1>6, <1>7, <1>8, <2>1
      <3>2. s[s[i].reverses].status = "REVERSED"
        BY <2>1, <3>1 DEF Mirrored
      <3> QED BY <3>1, <3>2
    <2>2. CASE j # l /\ k # l
      BY <1>12, <2>1, <2>2 DEF Mirrored
    <2>3. CASE j = l \/ k = l
      BY <1>9, <1>12, <2>1, <2>3
    <2> QED BY <2>2, <2>3
  <1>13. Mirrored(t)
    BY <1>10, <1>11, <1>12 DEF Mirrored
  <1>14. \A i \in 1..Len(s) : t[i].kind = s[i].kind
    BY <1>5, <1>7, <1>8
  <1> QED BY <1>13, <1>14 DEF t, m

\* The end of a request keeps MirrorInv when the journals stay mirrored, keep the
\* kinds of their entries, and no other request that holds a lock loses its journal.
LEMMA MirrorInvEnd ==
  ASSUME Inv, MirrorInv, NEW r \in Requests, Finish(r),
         \A d \in DocIds : Mirrored(journal'[d]),
         \A d \in DocIds : \A n \in 1..Len(journal[d]) :
           journal'[d][n].kind = journal[d][n].kind,
         \A d \in DocIds : docs'[d] # NoRow => PostingAt(journal'[d], docs'[d].entry),
         \A s \in Requests \ {r} : Holds(s) => journal'[req[s].doc] = journal[req[s].doc]
  PROVE  MirrorInv'
  <1>1. req'[r] = IdleRequest /\ \A s \in Requests \ {r} : req'[s] = req[s]
    BY DEF Finish, Inv, TypeInv, TypeOK
  <1>2. ASSUME NEW s \in Requests PROVE GoodReader(req[s])'
    <2>1. CASE s = r
      BY <1>1, <2>1 DEF GoodReader, IdleRequest
    <2>2. CASE s # r /\ req[s].pc # "idle"
      <3> DEFINE d == req[s].doc
                 n == req[s].mem.entry
      <3>1. d \in DocIds /\ n \in Nat /\ n <= Len(journal[d]) /\ journal[d] \in Seq(Entry)
        BY <2>2, ActiveRequest DEF Inv
      <3>2. PostingAt(journal[d], n) /\ Reversing(req[s], journal[d])
        BY <2>2 DEF MirrorInv, GoodReader
      <3>3. n # 0 => n \in 1..Len(journal[d])
        BY <3>1
      <3>4. PostingAt(journal'[d], n)
        BY <3>1, <3>2, <3>3 DEF PostingAt
      <3>5. Reversing(req[s], journal'[d])
        <4>1. CASE Holds(s)
          BY <2>2, <3>2, <4>1
        <4>2. CASE ~Holds(s)
          BY <4>2 DEF Holds, Reversing
        <4> QED BY <4>1, <4>2
      <3> QED BY <1>1, <2>2, <3>4, <3>5 DEF GoodReader, PostingAt, Reversing
    <2>3. CASE s # r /\ req[s].pc = "idle"
      BY <1>1, <2>3 DEF GoodReader
    <2> QED BY <2>1, <2>2, <2>3
  <1>3. \A d \in DocIds : docs'[d] # NoRow => PostingAt(journal[d], docs[d].entry)'
    BY DEF PostingAt
  <1> QED BY <1>2, <1>3 DEF MirrorInv, Mirrored

\* A commit that leaves the journals as they are.
LEMMA MirrorInvSame ==
  ASSUME Inv, MirrorInv, NEW r \in Requests, Finish(r), UNCHANGED journal,
         \A d \in DocIds : docs'[d] # NoRow => PostingAt(journal[d], docs'[d].entry)
  PROVE  MirrorInv'
  BY MirrorInvEnd DEF MirrorInv

LEMMA MirrorInvSave ==
  ASSUME Inv, MirrorInv, NEW r \in Requests, SaveCommit(r)
  PROVE  MirrorInv'
  <1> DEFINE d == req[r].doc
  <1>1. /\ req[r].pc = "write" /\ Finish(r) /\ UNCHANGED journal
        /\ docs' = [docs EXCEPT ![d] = Saved(req[r].mem, req[r].diff, @)]
    BY DEF SaveCommit
  <1>2. /\ d \in DocIds /\ docs[d] \in Row /\ req[r].mem \in Row
        /\ req[r].diff \in SUBSET Columns
    BY <1>1, ActiveRequest DEF Inv
  <1>3. Saved(req[r].mem, req[r].diff, docs[d]).entry \in {req[r].mem.entry, docs[d].entry}
    BY <1>2, SavedRow
  <1>4. PostingAt(journal[d], req[r].mem.entry) /\ PostingAt(journal[d], docs[d].entry)
    BY <1>1, <1>2, NoRowAssumption DEF MirrorInv, GoodReader
  <1>5. \A x \in DocIds : docs'[x] # NoRow => PostingAt(journal[x], docs'[x].entry)
    <2>1. docs'[d] = Saved(req[r].mem, req[r].diff, docs[d])
          /\ \A x \in DocIds \ {d} : docs'[x] = docs[x]
      BY <1>1, <1>2 DEF Inv, TypeInv, TypeOK
    <2>2. PostingAt(journal[d], docs'[d].entry)
      BY <1>3, <1>4, <2>1
    <2> QED BY <2>1, <2>2 DEF MirrorInv
  <1> QED BY <1>1, <1>5, MirrorInvSame

LEMMA MirrorInvTransition ==
  ASSUME Inv, MirrorInv, NEW r \in Requests, CommitTransition(r)
  PROVE  MirrorInv'
  <1> DEFINE d == req[r].doc
             row == [req[r].mem EXCEPT !.status = Target(req[r].op)]
  <1>1. /\ req[r].pc # "idle" /\ Finish(r) /\ UNCHANGED journal
        /\ docs' = [docs EXCEPT ![d] = row]
    BY DEF CommitTransition
  <1>2. d \in DocIds /\ req[r].mem \in Row
    BY <1>1, ActiveRequest DEF Inv
  <1>3. row.entry = req[r].mem.entry /\ PostingAt(journal[d], req[r].mem.entry)
    BY <1>1, <1>2 DEF Row, MirrorInv, GoodReader
  <1>4. docs'[d] = row /\ \A x \in DocIds \ {d} : docs'[x] = docs[x]
    BY <1>1, <1>2 DEF Inv, TypeInv, TypeOK
  <1>5. \A x \in DocIds : docs'[x] # NoRow => PostingAt(journal[x], docs'[x].entry)
    BY <1>3, <1>4 DEF MirrorInv
  <1> QED BY <1>1, <1>5, MirrorInvSame

\* Whoever holds the lock of a document is alone to write its journal.
LEMMA OwnJournal ==
  ASSUME Inv, NEW r \in Requests, Holds(r), NEW t,
         journal' = [journal EXCEPT ![req[r].doc] = t], NEW s \in Requests \ {r}, Holds(s)
  PROVE  journal'[req[s].doc] = journal[req[s].doc]
  <1>1. req[s].doc # req[r].doc
    BY DEF Inv, LockInv, LockedRowIsCurrent
  <1> QED BY <1>1 DEF Inv, TypeInv, TypeOK

LEMMA MirrorInvPosting ==
  ASSUME Inv, MirrorInv, NEW r \in Requests, CommitPosting(r)
  PROVE  MirrorInv'
  <1> DEFINE d == req[r].doc
             s == journal[d]
             n == Len(s) + 1
             row == [req[r].mem EXCEPT !.status = "POSTED", !.entry = n]
             e == [kind |-> "posting", status |-> "POSTED",
                   lines |-> req[r].seen, reverses |-> 0]
             t == Append(s, e)
  <1>1. /\ req[r].pc # "idle" /\ Holds(r) /\ Finish(r)
        /\ docs' = [docs EXCEPT ![d] = row]
        /\ journal' = [journal EXCEPT ![d] = t]
    BY DEF CommitPosting, Holds
  <1>2. /\ d \in DocIds /\ req[r].mem \in Row /\ s \in Seq(Entry)
        /\ req[r].seen \in SUBSET LineIds
    BY <1>1, ActiveRequest DEF Inv
  <1>3. e \in Entry /\ e.kind = "posting" /\ e.status = "POSTED" /\ Mirrored(s)
    BY <1>2 DEF Entry, MirrorInv
  <1>4. row.entry = n
    BY <1>2 DEF Row
  <1> HIDE DEF e, row
  <1>5. /\ \A i \in 1..Len(s) : t[i] = s[i]
        /\ t[n] = e
    BY <1>2, <1>3, EntryAppend
  <1>6. Mirrored(t)
    BY <1>2, <1>3, PostingMirrored
  <1>7. PostingAt(t, n)
    BY <1>3, <1>5 DEF PostingAt
  <1> HIDE DEF t, n
  <1>8. /\ journal'[d] = t /\ docs'[d] = row
        /\ \A x \in DocIds \ {d} : journal'[x] = journal[x] /\ docs'[x] = docs[x]
    BY <1>1, <1>2 DEF Inv, TypeInv, TypeOK
  <1>9. \A x \in DocIds : Mirrored(journal'[x])
    BY <1>6, <1>8 DEF MirrorInv
  <1>10. \A x \in DocIds : \A i \in 1..Len(journal[x]) :
           journal'[x][i].kind = journal[x][i].kind
    BY <1>5, <1>8
  <1>11. \A x \in DocIds : docs'[x] # NoRow => PostingAt(journal'[x], docs'[x].entry)
    BY <1>4, <1>7, <1>8 DEF MirrorInv
  <1>12. \A q \in Requests \ {r} : Holds(q) => journal'[req[q].doc] = journal[req[q].doc]
    BY <1>1, OwnJournal
  <1> QED BY <1>1, <1>9, <1>10, <1>11, <1>12, MirrorInvEnd

LEMMA MirrorInvReversal ==
  ASSUME Inv, MirrorInv, NEW r \in Requests, NEW c \in DocIds, CommitReversal(r, c)
  PROVE  MirrorInv'
  <1> DEFINE d == req[r].doc
             s == journal[d]
             n == req[r].mem.entry
             row == [req[r].mem EXCEPT !.status = "REVERSED"]
             correction == [status |-> "POSTED", header |-> req[r].mem.header,
                            entry |-> 0, createdBy |-> req[r].actor,
                            correctionOf |-> d]
             e == [kind |-> "reversal", status |-> "POSTED",
                   lines |-> req[r].seen, reverses |-> n]
             t == Append([s EXCEPT ![n].status = "REVERSED"], e)
  <1>1. /\ req[r].pc = "staged" /\ req[r].op = "reverse" /\ Holds(r) /\ Finish(r)
        /\ docs[c] = NoRow
        /\ docs' = [docs EXCEPT ![d] = row, ![c] = correction]
        /\ journal' = [journal EXCEPT ![d] = t]
    BY DEF CommitReversal, Holds
  <1>2. /\ d \in DocIds /\ req[r].mem \in Row /\ s \in Seq(Entry)
        /\ req[r].seen \in SUBSET LineIds /\ n \in 1..Len(s)
        /\ docs[d] \in Row
    BY <1>1, ActiveRequest DEF Inv
  <1>3. /\ PostingAt(s, n) /\ n # 0
        /\ s[n].status = "POSTED" /\ req[r].seen = s[n].lines
    BY <1>1, <1>2 DEF MirrorInv, GoodReader, Reversing
  <1>4. s[n].kind = "posting"
    BY <1>3 DEF PostingAt
  <1>5. /\ e \in Entry /\ e.kind = "reversal" /\ e.status = "POSTED"
        /\ e.reverses = n /\ e.lines = s[n].lines
    BY <1>2, <1>3 DEF Entry
  <1>6. Mirrored(s)
    BY <1>2 DEF MirrorInv
  <1>7. row.entry = n /\ correction.entry = 0
    BY <1>2 DEF Row
  <1> HIDE DEF e, row, correction
  <1>8. Mirrored(t) /\ \A i \in 1..Len(s) : t[i].kind = s[i].kind
    BY <1>2, <1>3, <1>4, <1>5, <1>6, ReversalMirrored
  <1> HIDE DEF t
  <1>9. PostingAt(t, n) /\ PostingAt(t, 0)
    BY <1>2, <1>4, <1>8 DEF PostingAt
  <1>10. d # c
    BY <1>1, <1>2, NoRowAssumption
  <1>11. /\ journal'[d] = t /\ docs'[d] = row /\ docs'[c] = correction
         /\ \A x \in DocIds \ {d} : journal'[x] = journal[x]
         /\ \A x \in DocIds \ {d, c} : docs'[x] = docs[x]
    BY <1>1, <1>2, <1>10 DEF Inv, TypeInv, TypeOK
  <1>12. \A x \in DocIds : Mirrored(journal'[x])
    BY <1>8, <1>11 DEF MirrorInv
  <1>13. \A x \in DocIds : \A i \in 1..Len(journal[x]) :
           journal'[x][i].kind = journal[x][i].kind
    BY <1>8, <1>11
  <1>14. \A x \in DocIds : docs'[x] # NoRow => PostingAt(journal'[x], docs'[x].entry)
    <2>1. PostingAt(journal'[c], docs'[c].entry)
      BY <1>7, <1>11 DEF PostingAt
    <2> QED BY <1>7, <1>9, <1>11, <2>1 DEF MirrorInv
  <1>15. \A q \in Requests \ {r} : Holds(q) => journal'[req[q].doc] = journal[req[q].doc]
    BY <1>1, OwnJournal
  <1> QED BY <1>1, <1>12, <1>13, <1>14, <1>15, MirrorInvEnd

\* A step of one request that writes no table.
LEMMA MirrorInvRequest ==
  ASSUME Inv, MirrorInv, NEW r \in Requests, NEW q, req' = [req EXCEPT ![r] = q],
         GoodReader(q), UNCHANGED <<docs, journal>>
  PROVE  MirrorInv'
  <1>1. req'[r] = q /\ \A s \in Requests \ {r} : req'[s] = req[s]
    BY DEF Inv, TypeInv, TypeOK
  <1>2. ASSUME NEW s \in Requests PROVE GoodReader(req[s])'
    <2>1. PICK p : p = req'[s]
      OBVIOUS
    <2>2. GoodReader(p)
      BY <1>1, <2>1 DEF MirrorInv
    <2> QED BY <2>1, <2>2 DEF GoodReader, PostingAt, Reversing
  <1> QED BY <1>2 DEF MirrorInv, Mirrored, PostingAt

LEMMA MirrorInvStarted ==
  ASSUME Inv, MirrorInv, NEW r \in Requests, NEW op, NEW d \in DocIds, NEW u, NEW pc,
         NEW mem, Start(r, op, d, u, pc, mem), docs[d] # NoRow, pc # "staged",
         mem.entry = docs[d].entry, UNCHANGED <<docs, journal>>
  PROVE  MirrorInv'
  <1> DEFINE q == [IdleRequest EXCEPT !.op = op, !.pc = pc, !.doc = d, !.actor = u, !.mem = mem]
  <1>1. req' = [req EXCEPT ![r] = q]
    BY DEF Start
  <1>2. q.pc = pc /\ q.doc = d /\ q.mem = mem
    BY DEF IdleRequest
  <1> HIDE DEF q
  <1>3. GoodReader(q)
    BY <1>2 DEF GoodReader, Reversing, MirrorInv
  <1> QED BY <1>1, <1>3, MirrorInvRequest

LEMMA MirrorInvStart ==
  ASSUME Inv, MirrorInv, NEW r \in Requests,
         \/ \E d \in DocIds, h \in Headers, w \in BOOLEAN : UpdateRead(r, d, h, w)
         \/ \E op \in LockingOps, d \in DocIds, u \in Users : LockRow(r, op, d, u)
  PROVE  MirrorInv'
  <1>1. ASSUME NEW d \in DocIds, NEW h \in Headers, NEW w \in BOOLEAN, UpdateRead(r, d, h, w)
        PROVE  MirrorInv'
    <2> DEFINE mem == [docs[d] EXCEPT !.status = "DRAFT", !.header = h]
               pc == IF w THEN "delete" ELSE "load"
    <2>1. docs[d] \in Row /\ docs[d] # NoRow
      BY <1>1 DEF UpdateRead, Inv, TypeInv, TypeOK
    <2>2. mem.entry = docs[d].entry /\ pc # "staged"
      BY <2>1 DEF Row
    <2>3. Start(r, "update", d, docs[d].createdBy, pc, mem) /\ UNCHANGED <<docs, journal>>
      BY <1>1 DEF UpdateRead
    <2> HIDE DEF mem, pc
    <2> QED BY <2>1, <2>2, <2>3, MirrorInvStarted
  <1>2. ASSUME NEW op \in LockingOps, NEW d \in DocIds, NEW u \in Users, LockRow(r, op, d, u)
        PROVE  MirrorInv'
    <2> DEFINE actor == IF op \in {"submit", "reverse"} THEN u ELSE NoDoc
    <2>1. /\ Start(r, op, d, actor, "locked", docs[d])
          /\ docs[d] # NoRow /\ UNCHANGED <<docs, journal>>
      BY <1>2 DEF LockRow
    <2> HIDE DEF actor
    <2> QED BY <2>1, MirrorInvStarted
  <1> QED BY <1>1, <1>2

\* A request goes on; only ReadEntry stages a reversal, of an entry still POSTED.
LEMMA MirrorInvGoesOn ==
  ASSUME Inv, MirrorInv, NEW r \in Requests,
         \/ DeleteStatement(r) \/ DeleteRows(r) \/ InsertLines(r)
         \/ SaveLoad(r) \/ ReadLines(r) \/ ReadEntry(r)
  PROVE  MirrorInv'
  <1>1. /\ req[r].pc # "idle" /\ UNCHANGED <<docs, journal>>
        /\ \E pc \in PCs, diff \in SUBSET Columns,
              seen \in SUBSET LineIds, new \in SUBSET LineIds :
             GoesOn(r, pc, diff, seen, new)
    BY AdvanceGoesOn DEF Inv
  <1>2. PICK pc \in PCs, diff \in SUBSET Columns,
             seen \in SUBSET LineIds, new \in SUBSET LineIds :
          GoesOn(r, pc, diff, seen, new)
    BY <1>1
  <1> DEFINE q == [req[r] EXCEPT
                     !.pc = pc, !.diff = diff, !.seen = seen, !.new = new]
  <1>3. req[r] \in Request /\ req \in [Requests -> Request]
    BY DEF Inv, TypeInv, TypeOK
  <1>4. /\ req' = [req EXCEPT ![r] = q]
        /\ q.doc = req[r].doc /\ q.mem = req[r].mem /\ q.op = req[r].op
        /\ q.pc = pc /\ q.seen = seen
    BY <1>2, <1>3 DEF GoesOn, Request
  <1>5. req'[r] = q
    BY <1>3, <1>4
  <1> HIDE DEF q
  <1>6. PostingAt(journal[q.doc], q.mem.entry)
    BY <1>1, <1>4 DEF MirrorInv, GoodReader
  <1>7. Reversing(q, journal[q.doc])
    <2>1. CASE ReadEntry(r)
      <3>1. req'[r].seen = journal[req[r].doc][req[r].mem.entry].lines
        BY <1>3, <2>1 DEF ReadEntry, Request
      <3>2. journal[req[r].doc][req[r].mem.entry].status = "POSTED"
        BY <2>1 DEF ReadEntry, MayReverse
      <3> QED BY <1>4, <1>5, <3>1, <3>2 DEF Reversing
    <2>2. CASE ReadLines(r)
      BY <1>4, <2>2 DEF ReadLines, Reversing
    <2>3. CASE DeleteStatement(r) \/ DeleteRows(r) \/ InsertLines(r) \/ SaveLoad(r)
      <3>1. req'[r].pc # "staged"
        BY <1>3, <2>3 DEF DeleteStatement, DeleteRows, InsertLines, SaveLoad, Request
      <3> QED BY <1>5, <3>1 DEF Reversing
    <2> QED BY <2>1, <2>2, <2>3
  <1> QED BY <1>1, <1>4, <1>6, <1>7, MirrorInvRequest DEF GoodReader

LEMMA MirrorInvCreate ==
  ASSUME Inv, MirrorInv, NEW d \in DocIds, NEW u \in Users, NEW h \in Headers,
         Create(d, u, h)
  PROVE  MirrorInv'
  <1> DEFINE row == [status |-> "DRAFT", header |-> h, entry |-> 0,
                     createdBy |-> u, correctionOf |-> NoDoc]
  <1>1. docs' = [docs EXCEPT ![d] = row] /\ UNCHANGED <<journal, req>>
    BY DEF Create
  <1>2. row.entry = 0
    OBVIOUS
  <1> HIDE DEF row
  <1>3. docs'[d] = row /\ \A x \in DocIds \ {d} : docs'[x] = docs[x]
    BY <1>1 DEF Inv, TypeInv, TypeOK
  <1>4. \A x \in DocIds : docs'[x] # NoRow => PostingAt(journal[x], docs'[x].entry)
    BY <1>2, <1>3 DEF MirrorInv, PostingAt
  <1> QED BY <1>1, <1>4 DEF MirrorInv, GoodReader, Mirrored, PostingAt, Reversing

LEMMA MirrorInvNext == Inv /\ MirrorInv /\ [Next]_vars => MirrorInv'
  <1> SUFFICES ASSUME Inv, MirrorInv, [Next]_vars PROVE MirrorInv'
    OBVIOUS
  <1>1. CASE \E d \in DocIds, u \in Users, h \in Headers : Create(d, u, h)
    BY <1>1, MirrorInvCreate
  <1>2. ASSUME NEW r \in Requests, Refuse(r) \/ Rollback(r)
        PROVE  MirrorInv'
    <2>1. Finish(r) /\ UNCHANGED <<docs, journal>>
      BY <1>2 DEF Refuse, Rollback
    <2>2. \A d \in DocIds : docs'[d] # NoRow => PostingAt(journal[d], docs'[d].entry)
      BY <2>1 DEF MirrorInv
    <2> QED BY <2>1, <2>2, MirrorInvSame
  <1>3. ASSUME NEW r \in Requests, Advance(r) PROVE MirrorInv'
    BY <1>2, <1>3, MirrorInvSave, MirrorInvTransition, MirrorInvPosting,
       MirrorInvReversal, MirrorInvGoesOn DEF Advance
  <1>4. CASE UNCHANGED vars
    BY <1>4 DEF vars, MirrorInv, GoodReader, Mirrored, PostingAt, Reversing
  <1> QED BY <1>1, <1>2, <1>3, <1>4, MirrorInvStart DEF Next

\* An entry is reversed once, by an entry that mirrors it (posting.service.ts:127,
\* documents.service.ts:317): no two reversals, and no stale update that takes the
\* document back to DRAFT in between, make a second one or leave it half done.
THEOREM ReversalsMirrorOnce == Spec => []ReversedOnce
  <1>1. Init => MirrorInv
    BY DEF Init, MirrorInv, Mirrored, PostingAt, GoodReader, IdleRequest
  <1> QED BY <1>1, MirrorInvNext, InvInit, InvNext, MirrorsAreOne, PTL DEF Spec

=============================================================================
