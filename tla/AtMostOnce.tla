----------------------------- MODULE AtMostOnce ------------------------------
(***************************************************************************)
(* What an idempotent operation promises to its callers: whatever is asked *)
(* for under one key is executed at most once, and every call that is      *)
(* answered is answered with the one execution of its key. A call may also *)
(* fail, or its answer get lost; neither shows here.                       *)
(***************************************************************************)
EXTENDS Naturals, Sequences

CONSTANT Keys  \* what callers name an operation by

VARIABLES
  executions,  \* the keys of the executions, in their order
  answers      \* pairs of a key and the execution a call was answered with

Init ==
  /\ executions = <<>>
  /\ answers = {}

Execute(k) ==
  /\ \A i \in DOMAIN executions : executions[i] # k
  /\ executions' = Append(executions, k)
  /\ UNCHANGED answers

Answer(k) ==
  \E i \in DOMAIN executions :
    /\ executions[i] = k
    /\ answers' = answers \cup {<<k, i>>}
    /\ UNCHANGED executions

Next == \E k \in Keys : Execute(k) \/ Answer(k)

Spec == Init /\ [][Next]_<<executions, answers>>

=============================================================================
