----------------------------- MODULE Documents ------------------------------
(***************************************************************************)
(* The life cycle of financial documents: DocumentsService, with the row   *)
(* locks it takes and the statements it issues, run by several requests at *)
(* a time against one database at READ COMMITTED.                          *)
(*                                                                         *)
(* docs, lines, journal and approvals are the committed tables;            *)
(* what a transaction has written and not committed is in its request's    *)
(* record, so that a rollback at any statement is the loss of that record. *)
(* Each action is one statement (or a run of statements that no other      *)
(* transaction can see or disturb) of a service method.                    *)
(*                                                                         *)
(* Headers stands for the columns a preparer edits (type, date,            *)
(* counterparty, contract, currency, amountTotal, description). A line is  *)
(* its row id. The ledger's own checks (period, accounts, rate, balance)   *)
(* may fail here at any time, by Rollback; module Ledger models them.      *)
(***************************************************************************)
EXTENDS Naturals, Sequences, FiniteSets, RowLocks

CONSTANTS
  Requests,      \* HTTP requests the server works on at the same time
  DocIds,        \* ids of rows of financial_documents
  Users,
  Headers,       \* contents of a document's editable columns
  NoRow,         \* the content of a document id not inserted yet
  NoDoc,         \* NULL in correctionOfDocumentId, or no document at all
  MaxOriginals,  \* bound: documents created by users
  MaxApprovals,  \* bound: approvals of one document
  MaxEntries,    \* bound: journal entries of one document
  LineIds        \* bound: ids of rows of financial_document_lines

ASSUME BoundsAssumption ==
  /\ MaxOriginals \in Nat
  /\ MaxApprovals \in Nat
  /\ MaxEntries \in Nat
  /\ LineIds \subseteq Nat

ASSUME DocIdsFinite == IsFiniteSet(DocIds)
ASSUME NullAssumption == NoDoc \notin DocIds

VARIABLES
  docs,       \* financial_documents: [DocIds -> Row or NoRow]
  lines,      \* financial_document_lines: the line ids of each document
  journal,    \* journal_entries with sourceId = the document, oldest first
  approvals,  \* how many DOCUMENT_APPROVED rows audit_logs has for it
  req         \* what each request is doing

vars == <<docs, lines, journal, approvals, req>>

-----------------------------------------------------------------------------
Status == {"DRAFT", "SUBMITTED", "APPROVED", "REJECTED", "POSTED",
           "CANCELLED", "REVERSED"}

EditableStatuses == {"DRAFT", "REJECTED"}

Allowed(s) ==
  CASE s = "DRAFT"     -> {"SUBMITTED", "CANCELLED"}
    [] s = "SUBMITTED" -> {"APPROVED", "REJECTED"}
    [] s = "APPROVED"  -> {"POSTED", "CANCELLED"}
    [] s = "REJECTED"  -> {"DRAFT"}
    [] s = "POSTED"    -> {"REVERSED"}
    [] OTHER           -> {}

\* A row of financial_documents; entry = 0 is NULL, otherwise the position of
\* the entry in the document's journal.
Row == [status : Status, header : Headers, entry : Nat, createdBy : Users,
        correctionOf : DocIds \cup {NoDoc}]

ASSUME NoRowAssumption == NoRow \notin Row

\* The columns in which a row and an entity read from it may come to differ:
\* the others are never assigned after the INSERT.
Columns == {"status", "header", "entry"}

Entry == [kind : {"posting", "reversal"}, status : {"POSTED", "REVERSED"},
          lines : SUBSET LineIds, reverses : Nat]

LockingOps == {"submit", "approve", "reject", "cancel", "post", "reverse"}

\* transition() is called by these four with the status to reach.
Transitions == {"submit", "approve", "reject", "cancel"}

Target(op) ==
  CASE op = "submit"  -> "SUBMITTED"
    [] op = "approve" -> "APPROVED"
    [] op = "reject"  -> "REJECTED"
    [] op = "cancel"  -> "CANCELLED"
    [] op = "post"    -> "POSTED"
    [] op = "reverse" -> "REVERSED"
    [] OTHER          -> "DRAFT"

PCs == {"idle", "locked", "staged",                          \* locking ops
        "delete", "deleting", "insert", "load", "write"}     \* update

Request == [op : LockingOps \cup {"none", "update"}, pc : PCs,
            doc : DocIds \cup {NoDoc},
            actor : Users \cup {NoDoc},  \* where it matters
            mem : Row \cup {NoRow},     \* the entity in memory
            diff : SUBSET Columns,      \* the columns save() will write
            seen : SUBSET LineIds,      \* line rows read or deleted
            new : SUBSET LineIds]       \* line rows inserted

IdleRequest == [op |-> "none", pc |-> "idle", doc |-> NoDoc, actor |-> NoDoc,
                mem |-> NoRow, diff |-> {}, seen |-> {}, new |-> {}]

TypeOK ==
  /\ docs \in [DocIds -> Row \cup {NoRow}]
  /\ lines \in [DocIds -> SUBSET LineIds]
  /\ journal \in [DocIds -> Seq(Entry)]
  /\ approvals \in [DocIds -> Nat]
  /\ req \in [Requests -> Request]

Init ==
  /\ docs = [d \in DocIds |-> NoRow]
  /\ lines = [d \in DocIds |-> {}]
  /\ journal = [d \in DocIds |-> <<>>]
  /\ approvals = [d \in DocIds |-> 0]
  /\ req = [r \in Requests |-> IdleRequest]

-----------------------------------------------------------------------------
(* Locks: which modes a request holds on a document row, derived from how   *)
(* far its transaction is.                                                  *)

\* What a bug that forgets the pessimistic lock of one method would leave.
RowLockNoneInPost(op) == IF op = "post" THEN "NONE" ELSE "UPDATE"
RowLockNoneInReverse(op) == IF op = "reverse" THEN "NONE" ELSE "UPDATE"
RowLockNoneInTransition(op) == IF op \in Transitions THEN "NONE" ELSE "UPDATE"

\* The lock with which a method reads the document it is about to change.
RowLock(op) == "UPDATE"

\* Without the foreign key, inserting lines would not touch the document.
NoForeignKeyLock == "NONE"

\* The lock that the foreign key of a new line takes on its document.
ForeignKeyLock == "KEY SHARE"

HeldModes(r, d) ==
  (IF req[r].doc = d /\ req[r].pc \in {"locked", "staged"}
     THEN {RowLock(req[r].op)} ELSE {})
    \cup
  (IF req[r].doc = d /\ req[r].pc \in {"load", "write"} /\ req[r].new # {}
     THEN {ForeignKeyLock} ELSE {})

MayLock(r, d, mode) ==
  \A s \in Requests \ {r} : HeldModes(s, d) \cap WaitsFor(mode) = {}

\* What the write would need if it went through a second connection, which
\* the database does not know to be the same operation.
MayWriteOtherConnection(r, d) ==
  \A s \in Requests : HeldModes(s, d) \cap WaitsFor("NO KEY UPDATE") = {}

\* A method writes the row it has locked through the manager of its own
\* transaction, so its own lock is not in the way.
MayWrite(r, d) == MayLock(r, d, "NO KEY UPDATE")

\* The line rows of d that r has deleted and not committed.
DeletedBy(r, d) ==
  IF req[r].doc = d /\ req[r].pc \in {"insert", "load", "write"}
    THEN req[r].seen ELSE {}

\* The id of a new line row: one that neither the document nor a transaction
\* knows (the least of them, as ids only need to be told apart).
Fresh(d) ==
  LET used == lines[d] \cup UNION {req[r].seen \cup req[r].new : r \in Requests}
      free == LineIds \ used
  IN {n \in free : \A m \in free : n <= m}

Start(r, op, d, u, pc, mem) ==
  /\ req[r].pc = "idle"
  /\ req' = [req EXCEPT ![r] = [IdleRequest EXCEPT
               !.op = op, !.pc = pc, !.doc = d, !.actor = u, !.mem = mem]]

Finish(r) == req' = [req EXCEPT ![r] = IdleRequest]


-----------------------------------------------------------------------------
(* create: one transaction whose row nobody else can see before it commits. *)

Originals == {d \in DocIds : docs[d] # NoRow /\ docs[d].correctionOf = NoDoc}

\* Bound: a document id is kept free for each reversal under way.
SpareDocId ==
  Cardinality({d \in DocIds : docs[d] = NoRow})
    > Cardinality({r \in Requests : req[r].op = "reverse"})

Create(d, u, h) ==
  /\ docs[d] = NoRow
  /\ SpareDocId /\ Cardinality(Originals) < MaxOriginals
  /\ docs' = [docs EXCEPT ![d] =
                [status |-> "DRAFT", header |-> h, entry |-> 0,
                 createdBy |-> u, correctionOf |-> NoDoc]]
  /\ \E n \in Fresh(d) : lines' = [lines EXCEPT ![d] = {n}]
  /\ UNCHANGED <<journal, approvals, req>>

-----------------------------------------------------------------------------
(* update: reads the row without a lock, then deletes and inserts lines,    *)
(* then save(): another read, and an UPDATE of the columns that differ.     *)

\* findOne, the checks, and the edits of the entity in memory.
UpdateRead(r, d, h, withLines) ==
  /\ docs[d] # NoRow
  /\ docs[d].status \in EditableStatuses
  /\ Start(r, "update", d, docs[d].createdBy,
           IF withLines THEN "delete" ELSE "load",
           [docs[d] EXCEPT !.status = "DRAFT", !.header = h])
  /\ UNCHANGED <<docs, lines, journal, approvals>>

\* The DELETE statement starts: it sees the rows committed by now.
DeleteStatement(r) ==
  /\ req[r].pc = "delete"
  /\ req' = [req EXCEPT ![r].pc = "deleting",
                        ![r].seen = lines[req[r].doc]]
  /\ UNCHANGED <<docs, lines, journal, approvals>>

\* It waits for a transaction that has deleted one of them; the rows that are
\* gone by then are skipped, and those inserted meanwhile are not seen.
DeleteRows(r) ==
  LET d == req[r].doc IN
  /\ req[r].pc = "deleting"
  /\ \A s \in Requests \ {r} : DeletedBy(s, d) \cap req[r].seen = {}
  /\ req' = [req EXCEPT ![r].pc = "insert",
                        ![r].seen = @ \cap lines[d]]
  /\ UNCHANGED <<docs, lines, journal, approvals>>

InsertLines(r) ==
  LET d == req[r].doc IN
  /\ req[r].pc = "insert"
  /\ MayLock(r, d, ForeignKeyLock)
  /\ \E n \in Fresh(d) : req' = [req EXCEPT ![r].pc = "load", ![r].new = {n}]
  /\ UNCHANGED <<docs, lines, journal, approvals>>

\* save() loads the row again and compares: it will write the columns in which
\* the entity in memory differs from the row.
SaveLoad(r) ==
  LET row == docs[req[r].doc] IN
  /\ req[r].pc = "load"
  /\ req' = [req EXCEPT ![r].pc = "write",
                        ![r].diff = {c \in Columns : req[r].mem[c] # row[c]}]
  /\ UNCHANGED <<docs, lines, journal, approvals>>

\* What a save() of the edited columns alone, leaving the status, would leave.
SavedHeaderOnly(mem, diff, row) == [row EXCEPT !.header = mem.header]

\* What a save() that replaced the row by the changed columns would leave.
SavedPartial(mem, diff, row) == IF diff = {} THEN row ELSE [c \in diff |-> mem[c]]

\* The row that UPDATE leaves.
Saved(mem, diff, row) ==
  [row EXCEPT !.status = IF "status" \in diff THEN mem.status ELSE @,
              !.header = IF "header" \in diff THEN mem.header ELSE @,
              !.entry  = IF "entry"  \in diff THEN mem.entry  ELSE @]

\* save() writes and the transaction commits.
SaveCommit(r) ==
  LET d == req[r].doc
      diff == req[r].diff IN
  /\ req[r].pc = "write"
  /\ diff # {} => MayWrite(r, d)
  /\ docs' = [docs EXCEPT ![d] = Saved(req[r].mem, diff, @)]
  /\ lines' = [lines EXCEPT ![d] = (@ \ req[r].seen) \cup req[r].new]
  /\ Finish(r)
  /\ UNCHANGED <<journal, approvals>>

-----------------------------------------------------------------------------
(* The methods that read the document FOR UPDATE.                           *)

\* Bounds on approvals, journal entries and corrections, checked by the
\* request that will add one.
WithinBounds(op, d) ==
  /\ op = "approve" => approvals[d] < MaxApprovals
  /\ op \in {"post", "reverse"} => Len(journal[d]) < MaxEntries
  /\ op = "reverse" => SpareDocId

\* The status check made on the locked row; reverse() also needs the entry.
Accepts(op, row) ==
  /\ Target(op) \in Allowed(row.status)
  /\ op = "reverse" => row.entry # 0

\* findOne with the lock, and the status check. The caller matters to submit
\* (a check) and to reverse (createdByUserId of the CORRECTION document).
LockRow(r, op, d, u) ==
  /\ docs[d] # NoRow
  /\ Accepts(op, docs[d])
  /\ WithinBounds(op, d)
  /\ MayLock(r, d, RowLock(op))
  /\ Start(r, op, d, IF op \in {"submit", "reverse"} THEN u ELSE NoDoc,
           "locked", docs[d])
  /\ UNCHANGED <<docs, lines, journal, approvals>>

\* submit() is for the creator only, checked after the status is saved.
MayTransition(op, row, u) == op = "submit" => u = row.createdBy

\* reverse() finds the document's entry on another connection; the ledger
\* reverses it only while it is POSTED.
MayReverse(row, d) == journal[d][row.entry].status = "POSTED"

\* save(), the side effect (audit row) and the commit of transition().
CommitTransition(r) ==
  LET d == req[r].doc
      op == req[r].op IN
  /\ req[r].pc = "locked" /\ op \in Transitions
  /\ MayTransition(op, req[r].mem, req[r].actor)
  /\ MayWrite(r, d)
  /\ docs' = [docs EXCEPT ![d] = [req[r].mem EXCEPT !.status = Target(op)]]
  /\ approvals' = [approvals EXCEPT ![d] = IF op = "approve" THEN @ + 1 ELSE @]
  /\ Finish(r)
  /\ UNCHANGED <<lines, journal>>

\* post() reads the lines it will post.
ReadLines(r) ==
  LET d == req[r].doc IN
  /\ req[r].pc = "locked" /\ req[r].op = "post"
  /\ req' = [req EXCEPT ![r].pc = "staged", ![r].seen = lines[d]]
  /\ UNCHANGED <<docs, lines, journal, approvals>>

\* reverse() reads the document's entry, on another connection.
ReadEntry(r) ==
  LET d == req[r].doc
      mem == req[r].mem IN
  /\ req[r].pc = "locked" /\ req[r].op = "reverse"
  /\ MayReverse(mem, d)
  /\ req' = [req EXCEPT ![r].pc = "staged",
                        ![r].seen = journal[d][mem.entry].lines]
  /\ UNCHANGED <<docs, lines, journal, approvals>>

\* The entry is inserted, the document saved, the transaction commits.
CommitPosting(r) ==
  LET d == req[r].doc IN
  /\ req[r].pc = "staged" /\ req[r].op = "post"
  /\ MayWrite(r, d)
  /\ journal' = [journal EXCEPT ![d] = Append(@,
                   [kind |-> "posting", status |-> "POSTED",
                    lines |-> req[r].seen, reverses |-> 0])]
  /\ docs' = [docs EXCEPT ![d] = [req[r].mem EXCEPT
                !.status = "POSTED", !.entry = Len(journal[d]) + 1]]
  /\ Finish(r)
  /\ UNCHANGED <<lines, approvals>>

\* The mirrored entry, the original entry's and the document's new status and
\* the CORRECTION document, which is POSTED and has neither lines nor an entry.
CommitReversal(r, c) ==
  LET d == req[r].doc
      mem == req[r].mem IN
  /\ req[r].pc = "staged" /\ req[r].op = "reverse"
  /\ MayWrite(r, d)
  /\ docs[c] = NoRow
  /\ journal' = [journal EXCEPT ![d] = Append(
                   [@ EXCEPT ![mem.entry].status = "REVERSED"],
                   [kind |-> "reversal", status |-> "POSTED",
                    lines |-> req[r].seen, reverses |-> mem.entry])]
  /\ docs' = [docs EXCEPT ![d] = [mem EXCEPT !.status = "REVERSED"],
                          ![c] = [status |-> "POSTED", header |-> mem.header,
                                  entry |-> 0, createdBy |-> req[r].actor,
                                  correctionOf |-> d]]
  /\ Finish(r)
  /\ UNCHANGED <<lines, approvals>>

\* A check made after the lock is taken fails: the transaction rolls back.
Refuse(r) ==
  LET op == req[r].op IN
  /\ req[r].pc = "locked"
  /\ ~(/\ op \in Transitions => MayTransition(op, req[r].mem, req[r].actor)
       /\ op = "reverse" => MayReverse(req[r].mem, req[r].doc))
  /\ Finish(r)
  /\ UNCHANGED <<docs, lines, journal, approvals>>

\* Any transaction may be lost at any statement: lock_timeout,
\* statement_timeout, a failed check of the ledger, a crash.
Rollback(r) ==
  /\ req[r].pc # "idle"
  /\ Finish(r)
  /\ UNCHANGED <<docs, lines, journal, approvals>>

-----------------------------------------------------------------------------
\* The steps by which a request that has started gets on.
Advance(r) ==
  \/ DeleteStatement(r)
  \/ DeleteRows(r)
  \/ InsertLines(r)
  \/ SaveLoad(r)
  \/ SaveCommit(r)
  \/ CommitTransition(r)
  \/ ReadLines(r)
  \/ ReadEntry(r)
  \/ CommitPosting(r)
  \/ \E c \in DocIds : CommitReversal(r, c)
  \/ Refuse(r)

Next ==
  \/ \E d \in DocIds, u \in Users, h \in Headers : Create(d, u, h)
  \/ \E r \in Requests :
       \/ \E d \in DocIds, h \in Headers, w \in BOOLEAN : UpdateRead(r, d, h, w)
       \/ \E op \in LockingOps, d \in DocIds, u \in Users : LockRow(r, op, d, u)
       \/ Advance(r)
       \/ Rollback(r)

Spec == Init /\ [][Next]_vars

\* A statement that waits for a row lock is served when the lock is free often
\* enough: PostgreSQL queues the waiters of a row. Requests need not be made,
\* and nothing needs to be rolled back.
Fairness == \A r \in Requests : SF_vars(Advance(r))

FairSpec == Spec /\ Fairness

-----------------------------------------------------------------------------
(* Properties.                                                              *)

Holds(r) == req[r].pc \in {"locked", "staged"}

Positions(d, kind) == {i \in DOMAIN journal[d] : journal[d][i].kind = kind}

\* Whoever has read a document FOR UPDATE decides on, and saves, the row as it
\* is committed: until it finishes nobody changes the row, and no transaction
\* that has inserted lines into the document is under way
\* (documents.service.ts:211, 281, 342).
LockedRowIsCurrent ==
  \A r \in Requests : Holds(r) =>
    /\ req[r].mem = docs[req[r].doc]
    /\ \A s \in Requests \ {r} :
         req[s].doc = req[r].doc =>
           ~Holds(s) /\ ~(req[s].pc \in {"load", "write"} /\ req[s].new # {})

\* Each approval is good for one posting: a document has no more journal
\* entries posted for it, counting the one it is approved for now, than it has
\* DOCUMENT_APPROVED audit rows - whatever stale updates do to its status.
ApprovalConsumedOnce ==
  \A d \in DocIds :
    Cardinality(Positions(d, "posting"))
      + (IF docs[d] # NoRow /\ docs[d].status = "APPROVED" THEN 1 ELSE 0)
      <= approvals[d]

\* An entry is REVERSED exactly when one, and only one, mirrored entry with the
\* same lines exists for it; a reversal is itself never reversed.
ReversedOnce ==
  \A d \in DocIds : \A i \in DOMAIN journal[d] :
    LET mirrors == {j \in Positions(d, "reversal") : journal[d][j].reverses = i}
    IN /\ journal[d][i].status = "REVERSED" <=> mirrors # {}
       /\ \A j, k \in mirrors : j = k
       /\ \A j \in mirrors : /\ j > i
                             /\ journal[d][j].lines = journal[d][i].lines
                             /\ i \in Positions(d, "posting")

\* The committed lines of a document only change in a step that leaves the
\* document in DRAFT: what is approved and posted is what was submitted, line
\* by line, even when an update that began before the submission ends after it.
LinesChangeOnlyInDraft ==
  [][\A d \in DocIds : lines'[d] # lines[d] =>
        docs'[d] # NoRow /\ docs'[d].status = "DRAFT"]_vars

\* An entry is posted with the lines its document has when the posting commits,
\* not with those that post() happened to read.
PostedLinesAreCurrent ==
  [][\A d \in DocIds : \A i \in DOMAIN journal'[d] \ DOMAIN journal[d] :
        journal'[d][i].kind = "posting" =>
          journal'[d][i].lines = lines[d] /\ lines'[d] = lines[d]]_vars

\* Concurrent requests move a document along the transition table or, by an
\* update, back to DRAFT - never anywhere else.
MovesAlongTable ==
  [][\A d \in DocIds : docs[d] # NoRow /\ docs'[d].status # docs[d].status =>
        docs'[d].status \in Allowed(docs[d].status) \cup {"DRAFT"}]_vars

\* Every transaction ends (its request is idle again and again) without the help
\* of a timeout: no set of requests waits for each other's locks.
EveryRequestEnds == \A r \in Requests : []<>(req[r].pc = "idle")

\* README.md, "Financial Domain": a POSTED document is immutable; correcting it
\* creates a reversal and a CORRECTION document. The code does not keep this.
PostedIsImmutable ==
  [][\A d \in DocIds : docs[d] # NoRow /\ docs[d].status = "POSTED" =>
        docs'[d] \in {docs[d], [docs[d] EXCEPT !.status = "REVERSED"]}]_vars

=============================================================================
