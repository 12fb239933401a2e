------------------------------ MODULE RowLocks ------------------------------
(***************************************************************************)
(* The row-level lock modes of PostgreSQL, as far as the services use them.*)
(* The database is not part of the repository: this module states what the *)
(* code relies on.                                                         *)
(*                                                                         *)
(*   "UPDATE"         SELECT ... FOR UPDATE, issued by TypeORM for         *)
(*                    lock: { mode: 'pessimistic_write' }                  *)
(*   "NO KEY UPDATE"  an UPDATE that leaves the row's keys alone           *)
(*   "KEY SHARE"      taken on the referenced row by an INSERT or UPDATE   *)
(*                    of a row with a foreign key                          *)
(*   "NONE"           a plain SELECT: it neither blocks nor is blocked     *)
(*                                                                         *)
(* A lock is held until its transaction commits or rolls back.             *)
(***************************************************************************)

LockModes == {"NONE", "KEY SHARE", "NO KEY UPDATE", "UPDATE"}

\* The modes that a transaction asking for mode m has to wait for.
WaitsFor(m) ==
  CASE m = "UPDATE"        -> {"KEY SHARE", "NO KEY UPDATE", "UPDATE"}
    [] m = "NO KEY UPDATE" -> {"NO KEY UPDATE", "UPDATE"}
    [] m = "KEY SHARE"     -> {"UPDATE"}
    [] OTHER               -> {}

=============================================================================
