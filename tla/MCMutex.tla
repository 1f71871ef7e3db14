------------------------------ MODULE MCMutex ------------------------------
(* Mutex on a small instance. *)
EXTENDS Mutex, TLC

(* One condition waits for 0, the other throws when it reads 1. *)
UntilZero == [v \in Values |-> IF v = 0 THEN "true" ELSE "false"]
ThrowsAtOne == [v \in Values |-> IF v = 1 THEN "throw" ELSE "false"]
MCPredicates == {UntilZero, ThrowsAtOne}

Symmetry == Permutations(Threads)
=============================================================================
