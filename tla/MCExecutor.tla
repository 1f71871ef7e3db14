----------------------------- MODULE MCExecutor -----------------------------
(* Instances of Executor: who asks whom. *)
EXTENDS Executor

CONSTANTS A, B

(* One thread asks, the other serves. *)
OneWay ==
  {[requester |-> [e \in Events |-> A], target |-> [e \in Events |-> B], sync |-> {}, polls |-> {}]}

(* Odd events go from A to B, even ones from B to A. *)
BothWays ==
  {[requester |-> [e \in Events |-> IF e % 2 = 1 THEN A ELSE B],
    target |-> [e \in Events |-> IF e % 2 = 1 THEN B ELSE A], sync |-> {}, polls |-> {}]}
=============================================================================
