------------------------------- MODULE Serving -------------------------------
(***************************************************************************)
(* The requests that the services of the back office work on at the same   *)
(* time: what each is doing, on which row, and what it has in memory.      *)
(***************************************************************************)
EXTENDS Naturals

CONSTANTS
  Requests,   \* HTTP requests the server works on at the same time
  Null,
  MaxServed   \* bound: requests that are ever begun

ASSUME BoundAssumption == MaxServed \in Nat

VARIABLES req, served

IdleRequest ==
  [op |-> "none", pc |-> "idle", row |-> Null, mem |-> Null, arg |-> Null]

Begin(r, op, pc, row, arg) ==
  /\ req[r].pc = "idle"
  /\ served < MaxServed
  /\ served' = served + 1
  /\ req' = [req EXCEPT ![r] = [op |-> op, pc |-> pc, row |-> row, mem |-> Null,
                                arg |-> arg]]

At(r, op, pc) == req[r].op = op /\ req[r].pc = pc

\* What was read stays in memory.
Proceed(r, pc, mem) ==
  /\ req' = [req EXCEPT ![r].pc = pc, ![r].mem = mem]
  /\ UNCHANGED served

Finish(r) ==
  /\ req' = [req EXCEPT ![r] = IdleRequest]
  /\ UNCHANGED served

=============================================================================
