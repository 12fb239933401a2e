------------------------------ MODULE JobQueue -------------------------------
(***************************************************************************)
(* What a queue with a limited number of workers promises: jobs begin in   *)
(* the order in which they were submitted, each at most once, never more   *)
(* than Limit at a time, and none waits while a worker is free. A crash    *)
(* loses the jobs that wait and those under way.                           *)
(***************************************************************************)
EXTENDS Naturals, Sequences, FiniteSets

CONSTANTS
  Jobs,   \* the jobs there may be
  Limit   \* how many may be under way at a time

VARIABLES
  waiting,   \* the jobs that wait, in order
  active,    \* the jobs under way
  submitted  \* the jobs there have been

vars == <<waiting, active, submitted>>

Init ==
  /\ waiting = <<>>
  /\ active = {}
  /\ submitted = {}

Submit(j) ==
  /\ j \notin submitted
  /\ submitted' = submitted \cup {j}
  /\ IF Cardinality(active) < Limit
       THEN active' = active \cup {j} /\ UNCHANGED waiting
       ELSE waiting' = Append(waiting, j) /\ UNCHANGED active

Finish(j) ==
  /\ j \in active
  /\ IF waiting = <<>>
       THEN active' = active \ {j} /\ UNCHANGED waiting
       ELSE /\ active' = (active \ {j}) \cup {Head(waiting)}
            /\ waiting' = Tail(waiting)
  /\ UNCHANGED submitted

Crash ==
  /\ waiting' = <<>>
  /\ active' = {}
  /\ UNCHANGED submitted

Next == Crash \/ \E j \in Jobs : Submit(j) \/ Finish(j)

Spec == Init /\ [][Next]_vars

=============================================================================
