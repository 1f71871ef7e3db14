----------------------------- MODULE MCThreads -----------------------------
(* The synchronisation primitives between threads, side by side: a Lazy, an
   executor and a cross-thread fulfiller on small instances.  They do not
   interact, so one of them moves in each behaviour and the others rest in
   their initial states.  The modules are extended, so that the run checks the
   properties their theorems state. *)
EXTENDS Naturals, FiniteSets, Once, XThreadPaf, Executor

CONSTANTS A, B    \* the threads with an event loop

VARIABLE active   \* the primitive that moves

Odd(e) == e % 2 = 1

(* A asks and B serves, which may poll between turns; or odd events go from A
   to B and even ones from B to A. *)
ServeAndMutual ==
  [requester : {[e \in Events |-> A]}, target : {[e \in Events |-> B]}, sync : {{3}},
   polls : {{}, {B}}]
  \cup
  {[requester |-> [e \in Events |-> IF Odd(e) THEN A ELSE B],
    target |-> [e \in Events |-> IF Odd(e) THEN B ELSE A], sync |-> {}, polls |-> {}]}

(* While another primitive moves, what the executors would do is not chosen. *)
Init ==
  /\ active \in {"executor", "lazy", "paf"}
  /\ ExecutorInit /\ OnceInit /\ PafInit
  /\ active # "executor" => Serving(B) /\ Pollers = {}

Only(name) == active = name /\ UNCHANGED active
Next ==
  \/ Only("executor") /\ ExecutorNext /\ UNCHANGED <<onceVars, pafVars>>
  \/ Only("lazy") /\ OnceNext /\ UNCHANGED <<executorVars, pafVars>>
  \/ Only("paf") /\ PafNext /\ UNCHANGED <<executorVars, onceVars>>

vars == <<active, executorVars, onceVars, pafVars>>

(* The fairness of each component, as its module states it. *)
Spec ==
  /\ Init /\ [][Next]_vars
  /\ \A t \in Loops : WF_executorVars(active = "executor" /\ LoopRuns(t))
  /\ \A t \in Threads : WF_onceVars(active = "lazy" /\ OnceRuns(t))
  /\ SF_onceVars(active = "lazy" /\ \E t \in Threads : Succeeds(t))
  /\ \A f \in Fulfillers : WF_pafVars(active = "paf" /\ PafRuns(f))
  /\ SF_pafVars(active = "paf" /\ \E f \in Fulfillers : DropFulfiller(f))
  /\ WF_pafVars(active = "paf" /\ Dispatch)
  /\ WF_pafVars(active = "paf" /\ destroyFulfilled)

----------------------------------------------------------------------------
(* Properties of the components, stated in their modules; BuiltOnce and
   GetReturns are those of Once, ObjectIsValid is that of XThreadPaf,
   EventsAreReleased and DeliveredInOrder are those of Executor. *)

(* What was queued is answered and a cancellation comes back, also between
   threads that serve each other and when a loop exits; async.cc, Executor. *)
RequestsAreAnswered ==
  active = "executor" => QueuedIsAnswered /\ SyncIsAnswered /\ CancelReturns

(* Whoever listens to a cross-thread promise is answered, and an abandoned
   object is deleted in the end; async-inl.h, XThreadFulfiller. *)
ListenerIsAnswered ==
  active = "paf" => ListenerHears /\ NothingLeaks
=============================================================================
