---------------------------- MODULE MCEventLoop ----------------------------
(* EventLoop on a small instance, with all ways of arming, and beside it a
   Mutex with a budget of calls: what both promise to happen in the end rests
   on nothing but threads that keep running.  One of the two moves in each
   behaviour and the other rests in its initial state, where nothing is armed
   and nobody waits. *)
EXTENDS EventLoop

CONSTANTS
  Threads,        \* the threads that share the mutex
  MaxCalls        \* bound: calls of lock, wait and mutate, over all threads

VARIABLES
  active,         \* the component that moves
  budget,         \* calls on the mutex that are still allowed
  futex, waiters, value, threadPc, seen, deadline, rest, inWait, waiter

AllKinds == {"depthFirst", "breadthFirst", "last", "wouldSleep"}
UntilOne == {[v \in {0, 1} |-> IF v = 1 THEN "true" ELSE "false"]}

M == INSTANCE Mutex WITH pc <- threadPc, Values <- {0, 1}, Predicates <- UntilOne
mutexVars == <<futex, waiters, value, threadPc, seen, deadline, rest, inWait, waiter>>

MCInit ==
  /\ active \in {"loop", "mutex"}
  /\ Init /\ (active = "mutex" => wakeable)
  /\ M!Init /\ (active = "loop" => value = 0)
  /\ budget = MaxCalls

(* With a budget of calls, every behaviour of the mutex in which the threads
   keep running comes to rest: nobody can be overtaken for ever. *)
MutexNext ==
  \E t \in Threads :
    \/ budget > 0 /\ budget' = budget - 1 /\ M!Calls(t)
    \/ UNCHANGED budget /\ (M!Runs(t) \/ M!Disturbed(t))

Spent == budget = 0 /\ UNCHANGED <<budget, mutexVars>>

Only(name) == active = name /\ UNCHANGED active
MCNext ==
  \/ Only("loop") /\ Next /\ UNCHANGED <<budget, mutexVars>>
  \/ Only("mutex") /\ (MutexNext \/ Spent) /\ UNCHANGED vars

(* The fairness of the loop, and threads that keep running inside lock() and
   unlock(); the kernel owes nobody a timeout or a spurious wakeup. *)
MCSpec ==
  /\ MCInit /\ [][MCNext]_<<active, budget, vars, mutexVars>>
  /\ Fairness
  /\ \A t \in Threads : WF_mutexVars(active = "mutex" /\ M!Runs(t))

=============================================================================
