------------------------------ MODULE Registers ------------------------------
(***************************************************************************)
(* What is registered under a unique key: accounts by code, departments,   *)
(* cost centers and projects by code, counterparties by tax id, contracts  *)
(* by number, exchange rates by currency and day. Their services look      *)
(* before they write and take no lock: a unique index has the last word on *)
(* the key, and nothing has on the rest of the row.                        *)
(*                                                                         *)
(* state is what else of a row the properties tell apart: whether an       *)
(* account or a counterparty is active, the status of a contract, the      *)
(* value of a rate.                                                        *)
(***************************************************************************)
EXTENDS Serving

CONSTANTS
  RowIds,
  Keys,
  Rates       \* values of exchange rates

VARIABLE rows  \* [RowIds -> Row or Null]

-----------------------------------------------------------------------------
Kinds == {"account", "dimension", "counterparty", "contract", "rate"}

ContractStatus == {"DRAFT", "ACTIVE", "CLOSED", "TERMINATED"}

\* What a table without the end states would be.
AllowedContractAgain(s) ==
  CASE s = "DRAFT"  -> {"ACTIVE", "TERMINATED"}
    [] s = "CLOSED" -> {"ACTIVE"}
    [] s = "ACTIVE" -> {"CLOSED", "TERMINATED"}
    [] OTHER        -> {}

AllowedContract(s) ==
  CASE s = "DRAFT"  -> {"ACTIVE", "TERMINATED"}
    [] s = "ACTIVE" -> {"CLOSED", "TERMINATED"}
    [] OTHER        -> {}

States(kind) ==
  CASE kind = "contract"  -> ContractStatus
    [] kind = "rate"      -> Rates
    [] kind = "dimension" -> {"active"}
    [] OTHER              -> {"active", "inactive"}

Row == UNION {[kind : {k}, key : Keys, state : States(k)] : k \in Kinds}

ASSUME NullIsNoRow ==
  Null \notin Row /\ \A kind \in Kinds : Null \notin States(kind)

ASSUME RatesAssumption == Rates \cap {"inactive", "CLOSED", "TERMINATED"} = {}

RegisterOps == {"create", "update", "change"}

RegisterRequest ==
  [op : {"create"}, pc : {"find", "insert"}, row : {Null}, mem : {Null}, arg : Row]
    \cup
  [op : {"update", "change"}, pc : {"read", "clash", "save"}, row : RowIds,
   mem : Row \cup {Null},
   arg : Keys \cup {Null} \cup UNION {States(k) : k \in Kinds}]
    \cup
  [op : {"update", "change"}, pc : {"write"}, row : RowIds, mem : Row,
   arg : [row : Row, columns : SUBSET {"key", "state"}]]

RegisterInit == rows = [i \in RowIds |-> Null]

Registered(kind, key) ==
  {i \in RowIds : rows[i] # Null /\ rows[i].kind = kind /\ rows[i].key = key}

\* Without the unique index.
AnyKey(i, row) == TRUE

\* The unique index of the row's table lets the row be written.
KeyFree(i, row) == Registered(row.kind, row.key) \subseteq {i}

-----------------------------------------------------------------------------
(* Creation: find, then insert.                                             *)

BeginCreate(r, kind, state) ==
  \E key \in Keys :
    Begin(r, "create", "find", Null, [kind |-> kind, key |-> key, state |-> state])

CreateAccount(r) == BeginCreate(r, "account", "active")

\* createDepartment, createCostCenter, createProject.
CreateDimension(r) == BeginCreate(r, "dimension", "active")

\* With its contacts and bank accounts, which are left out.
CreateCounterparty(r) == BeginCreate(r, "counterparty", "active")

CreateContract(r) == BeginCreate(r, "contract", "DRAFT")

SetRate(r) == \E rate \in Rates : BeginCreate(r, "rate", rate)

\* A rate that is found is set instead; anything else that is found is a conflict.
Find(r) ==
  LET new == req[r].arg
      found == Registered(new.kind, new.key) IN
  /\ At(r, "create", "find")
  /\ \/ found = {} /\ Proceed(r, "insert", Null)
     \/ /\ found # {} /\ new.kind # "rate"
        /\ Finish(r)
     \/ \E i \in found :
          /\ new.kind = "rate"
          /\ req' = [req EXCEPT ![r] = [op |-> "change", pc |-> "save", row |-> i,
                                        mem |-> rows[i], arg |-> new.state]]
          /\ UNCHANGED served
  /\ UNCHANGED rows

\* The insert fails if somebody else's came first.
Insert(r) ==
  LET new == req[r].arg IN
  /\ At(r, "create", "insert")
  /\ \E i \in RowIds :
       /\ rows[i] = Null
       /\ rows' = IF KeyFree(i, new) THEN [rows EXCEPT ![i] = new] ELSE rows
  /\ Finish(r)

-----------------------------------------------------------------------------
(* Changes of a row: read, check, and save what is in memory. save() reads  *)
(* the row again and writes the columns in which the memory differs.        *)

BeginChange(r, kind, op, arg) ==
  \E i \in RowIds :
    /\ rows[i] # Null /\ rows[i].kind = kind
    /\ Begin(r, op, "read", i, arg)

\* With a tax id or without one.
UpdateCounterparty(r) ==
  \E key \in Keys \cup {Null} : BeginChange(r, "counterparty", "update", key)

DeactivateCounterparty(r) == BeginChange(r, "counterparty", "change", "inactive")

DeactivateAccount(r) == BeginChange(r, "account", "change", "inactive")

ChangeContractStatus(r) ==
  \E next \in ContractStatus : BeginChange(r, "contract", "change", next)

ReadForChange(r) ==
  LET row == rows[req[r].row] IN
  /\ At(r, "change", "read")
  /\ IF row.kind = "contract" /\ req[r].arg \notin AllowedContract(row.state)
       THEN Finish(r)
       ELSE Proceed(r, "save", row)
  /\ UNCHANGED rows

ReadForUpdate(r) ==
  LET row == rows[req[r].row] IN
  /\ At(r, "update", "read")
  /\ Proceed(r, IF req[r].arg \in {row.key, Null} THEN "save" ELSE "clash", row)
  /\ UNCHANGED rows

CheckClash(r) ==
  /\ At(r, "update", "clash")
  /\ IF Registered("counterparty", req[r].arg) = {}
       THEN Proceed(r, "save", req[r].mem)
       ELSE Finish(r)
  /\ UNCHANGED rows

\* What is saved: the row in memory with the one column the request changes.
Changed(r) ==
  CASE req[r].op = "change" -> [req[r].mem EXCEPT !.state = req[r].arg]
    [] req[r].op = "update" /\ req[r].arg # Null ->
         [req[r].mem EXCEPT !.key = req[r].arg]
    [] OTHER -> req[r].mem

\* save() loads the row again, to find the columns that it has to write.
LoadForSave(r) ==
  LET row == rows[req[r].row]
      new == Changed(r) IN
  /\ req[r].op \in {"update", "change"} /\ req[r].pc = "save"
  /\ req' = [req EXCEPT ![r].pc = "write",
                        ![r].arg = [row |-> new,
                                    columns |-> {c \in {"key", "state"} : new[c] # row[c]}]]
  /\ UNCHANGED <<served, rows>>

Write(r) ==
  LET i == req[r].row
      columns == req[r].arg.columns
      new == req[r].arg.row
      row == [rows[i] EXCEPT !.key = IF "key" \in columns THEN new.key ELSE @,
                             !.state = IF "state" \in columns THEN new.state ELSE @] IN
  /\ req[r].op \in {"update", "change"} /\ req[r].pc = "write"
  /\ rows' = IF KeyFree(i, row) THEN [rows EXCEPT ![i] = row] ELSE rows
  /\ Finish(r)

\* A statement fails, or times out.
Fail(r) ==
  /\ req[r].op \in RegisterOps
  /\ Finish(r)
  /\ UNCHANGED rows

RegisterStep(r) ==
  \/ /\ \/ CreateAccount(r) \/ CreateDimension(r) \/ CreateCounterparty(r)
        \/ CreateContract(r) \/ SetRate(r)
        \/ UpdateCounterparty(r) \/ DeactivateCounterparty(r)
        \/ DeactivateAccount(r) \/ ChangeContractStatus(r)
     /\ UNCHANGED rows
  \/ Find(r)
  \/ Insert(r)
  \/ ReadForChange(r)
  \/ ReadForUpdate(r)
  \/ CheckClash(r)
  \/ LoadForSave(r)
  \/ Write(r)
  \/ Fail(r)

-----------------------------------------------------------------------------
(* Properties.                                                              *)

\* One row for each key, and the requests are of their types.
RegisterTypeOK ==
  /\ rows \in [RowIds -> Row \cup {Null}]
  /\ \A i, j \in RowIds :
       rows[i] # Null /\ rows[j] # Null /\ rows[i].kind = rows[j].kind
           /\ rows[i].key = rows[j].key => i = j
  /\ \A r \in Requests : req[r].op \in RegisterOps => req[r] \in RegisterRequest

HasEnded(row) == row.state \in {"inactive", "CLOSED", "TERMINATED"}

\* The row has ended, and no request has a copy of it from before.
Settled(i) ==
  /\ rows[i] # Null /\ HasEnded(rows[i])
  /\ \A r \in Requests :
       req[r].row = i /\ req[r].mem # Null => HasEnded(req[r].mem)

\* A contract that is closed or terminated, an account and a counterparty that are
\* inactive stay so, but for the requests that had read them before: once these
\* are through, nothing changes the state any more. Without that condition it is
\* not so, whatever contract-status.enum.ts:8 says: of two changes that read an
\* active contract, the later save wins (contracts.service.ts:53-62,
\* counterparties.service.ts:88-108, accounts.service.ts:57-61).
SettledStays(i) ==
  Settled(i) => rows'[i].state = rows[i].state /\ Settled(i)'

=============================================================================
