----------------------------- MODULE XThreadPaf -----------------------------
(***************************************************************************)
(* newPromiseAndCrossThreadFulfiller(): a promise of one thread that any   *)
(* thread may fulfil (libraries/zc/async/async.cc, async-inl.h).           *)
(*                                                                         *)
(* The waiting thread and the fulfiller share an XThreadPaf object that    *)
(* neither owns alone: whoever comes second, by compare-exchange on its    *)
(* state, deletes it.  Several threads may call the fulfiller at once.     *)
(* Steps are atomic instructions, or what is done under the lock of the    *)
(* waiting thread's Executor.                                              *)
(***************************************************************************)
EXTENDS Naturals, FiniteSets

CONSTANTS
  Fulfillers,   \* threads that share the fulfiller
  Asks          \* fulfillers that also call isWaiting()

VARIABLES
  target,       \* XThreadFulfiller::target is not null
  dropped,      \* the fulfiller was destroyed
  state,        \* XThreadPaf::state
  fulfilled,    \* the object is on the executor's list `fulfilled`
  answers,      \* results written into the object
  ready,        \* onReadyEvent was armed
  deleted,      \* how often the object was deleted
  alive,        \* the waiting thread has its event loop
  waiting,      \* where the waiting thread is
  at            \* where each fulfilling thread is

pafVars == <<target, dropped, state, fulfilled, answers, ready, deleted, alive, waiting, at>>
object == <<state, fulfilled, answers, ready, deleted>>

PafStates == {"WAITING", "FULFILLING", "FULFILLED", "DISPATCHED", "CANCELED"}

PafInit ==
  /\ target = TRUE /\ dropped = FALSE
  /\ state = "WAITING"
  /\ fulfilled = FALSE /\ answers = 0 /\ ready = FALSE /\ deleted = 0
  /\ alive = TRUE
  /\ waiting = "listening"
  /\ at = [f \in Fulfillers |-> "idle"]

MoveTo(f, place) == at' = [at EXCEPT ![f] = place]

----------------------------------------------------------------------------
(* FulfillScope, in fulfill() and reject() *)

(* Atomic exchange of the pointer with null: only one thread gets it.  The
   destructor of the fulfiller rejects what was never fulfilled; by then no
   other call is in progress. *)
Fulfill(f) ==
  /\ at[f] = "idle" /\ ~dropped
  /\ target' = FALSE
  /\ MoveTo(f, IF target THEN "claim" ELSE "idle")
  /\ UNCHANGED <<dropped, object, alive, waiting>>

(* Mutant of DropFulfiller: the destructor rejects nothing. *)
DropSilently(f) ==
  /\ \A g \in Fulfillers : at[g] = "idle"
  /\ ~dropped
  /\ dropped' = TRUE
  /\ target' = FALSE
  /\ UNCHANGED <<object, alive, waiting, at>>

DropFulfiller(f) ==
  /\ \A g \in Fulfillers : at[g] = "idle"
  /\ ~dropped
  /\ dropped' = TRUE
  /\ target' = FALSE
  /\ MoveTo(f, IF target THEN "claim" ELSE "idle")
  /\ UNCHANGED <<object, alive, waiting>>

(* Compare-exchange of WAITING with FULFILLING; if the other side has
   cancelled, the object is ours to delete. *)
Claim(f) ==
  /\ at[f] = "claim"
  /\ IF state = "WAITING"
       THEN state' = "FULFILLING" /\ MoveTo(f, "fill") /\ UNCHANGED deleted
       ELSE deleted' = deleted + 1 /\ MoveTo(f, "idle") /\ UNCHANGED state
  /\ UNCHANGED <<target, dropped, fulfilled, answers, ready, alive, waiting>>

Fill(f) ==
  /\ at[f] = "fill"
  /\ answers' = answers + 1
  /\ MoveTo(f, "publish")
  /\ UNCHANGED <<target, dropped, state, fulfilled, ready, deleted, alive, waiting>>

(* ~FulfillScope(): under the lock of the executor. *)
EndScope(f) ==
  /\ at[f] = "publish"
  /\ fulfilled' = TRUE
  /\ state' = "FULFILLED"
  /\ MoveTo(f, "idle")
  /\ UNCHANGED <<target, dropped, answers, ready, deleted, alive, waiting>>

(* isWaiting(): read the pointer, then the state of the object behind it. *)
isWaiting(f) ==
  /\ f \in Asks /\ at[f] = "idle" /\ ~dropped
  /\ MoveTo(f, IF target THEN "ask" ELSE "idle")
  /\ UNCHANGED <<target, dropped, object, alive, waiting>>

LoadState(f) ==
  /\ at[f] = "ask"
  /\ MoveTo(f, "idle")
  /\ UNCHANGED <<target, dropped, object, alive, waiting>>

----------------------------------------------------------------------------
(* The waiting thread *)

(* Its executor dispatches the list. *)
Dispatch ==
  /\ waiting = "listening" /\ fulfilled
  /\ fulfilled' = FALSE
  /\ state' = "DISPATCHED"
  /\ ready' = TRUE
  /\ UNCHANGED <<target, dropped, answers, deleted, alive, waiting, at>>

(* Mutant of destroy: whoever is not being fulfilled is deleted at once. *)
destroyWaiting ==
  /\ waiting = "listening" /\ state \in {"WAITING", "DISPATCHED"}
  /\ deleted' = deleted + 1
  /\ waiting' = "gone"
  /\ UNCHANGED <<target, dropped, state, fulfilled, answers, ready, alive, at>>

(* destroy(): a load, then a compare-exchange of WAITING with CANCELED. *)
destroy ==
  /\ waiting = "listening"
  /\ \/ /\ state = "DISPATCHED"
        /\ deleted' = deleted + 1
        /\ waiting' = "gone"
        /\ UNCHANGED state
     \/ /\ state = "WAITING"
        /\ state' = "CANCELED"
        /\ waiting' = "gone"
        /\ UNCHANGED deleted
     \/ /\ state \in {"FULFILLING", "FULFILLED"}
        /\ waiting' = "blocked"
        /\ UNCHANGED <<state, deleted>>
  /\ UNCHANGED <<target, dropped, fulfilled, answers, ready, alive, at>>

(* Too late to cancel: wait for the fulfiller to be finished. *)
destroyFulfilled ==
  /\ waiting = "blocked"
  /\ state \in {"FULFILLED", "DISPATCHED"}
  /\ fulfilled' = FALSE
  /\ deleted' = deleted + 1
  /\ waiting' = "gone"
  /\ UNCHANGED <<target, dropped, state, answers, ready, alive, at>>

(* ~EventLoop(), once the promise is gone. *)
Exit ==
  /\ waiting = "gone" /\ alive
  /\ alive' = FALSE
  /\ UNCHANGED <<target, dropped, object, waiting, at>>

PafRuns(f) == Claim(f) \/ Fill(f) \/ EndScope(f) \/ LoadState(f)
PafNext ==
  \/ \E f \in Fulfillers : Fulfill(f) \/ DropFulfiller(f) \/ isWaiting(f) \/ PafRuns(f)
  \/ Dispatch \/ destroy \/ destroyFulfilled \/ Exit

PafSpec == PafInit /\ [][PafNext]_pafVars

(* Threads finish what they have begun, the waiting thread runs its loop, and
   the fulfiller is destroyed once nobody is in a call of it. *)
PafFairSpec ==
  /\ PafSpec
  /\ \A f \in Fulfillers : WF_pafVars(PafRuns(f))
  /\ SF_pafVars(\E f \in Fulfillers : DropFulfiller(f))
  /\ WF_pafVars(Dispatch) /\ WF_pafVars(destroyFulfilled)

----------------------------------------------------------------------------
(* Properties *)

(* The variables have their types. *)
PafTypeOK ==
  /\ target \in BOOLEAN /\ dropped \in BOOLEAN /\ fulfilled \in BOOLEAN
  /\ ready \in BOOLEAN /\ alive \in BOOLEAN
  /\ state \in PafStates
  /\ answers \in 0..1 /\ deleted \in 0..1
  /\ waiting \in {"listening", "blocked", "gone"}
  /\ at \in [Fulfillers -> {"idle", "claim", "fill", "publish", "ask"}]

(* The users of the object: who fulfils it, the list of the executor, the
   waiting thread, and a thread that asks isWaiting(), as long as the pointer
   it has read is still there.  When another thread takes the pointer while one
   is asking, nothing keeps the object for the one that asks: see
   AskedObjectIsValid. *)
Fulfilling == \E f \in Fulfillers : at[f] \in {"claim", "fill", "publish"}
Asking == target /\ \E f \in Fulfillers : at[f] = "ask"

(* The object, and the executor, are still there for them. *)
LastUserDeletes ==
  /\ Fulfilling \/ Asking \/ fulfilled \/ waiting # "gone" => deleted = 0
  /\ (\E f \in Fulfillers : at[f] \in {"fill", "publish"}) \/ fulfilled => alive

(* What is delivered has been written, and by one thread only. *)
OneAnswer == ready \/ fulfilled => answers = 1

(* A fulfiller that finds the object not waiting finds it cancelled. *)
ClaimFindsCanceled ==
  \A f \in Fulfillers : at[f] = "claim" => state \in {"WAITING", "CANCELED"}

(* The shared object of a cross-thread promise is freed once, and not before
   it was fulfilled or given up by both sides; also isWaiting() reads it in
   time unless another thread calls fulfill() or reject() during the call
   (async-inl.h:2090).  It is filled by one thread only; async.cc, XThreadPaf. *)
ObjectIsValid == PafTypeOK /\ LastUserDeletes /\ OneAnswer /\ ClaimFindsCanceled

(* The callers of the fulfiller do not keep it alive by asking for ever. *)
NotAskedForEver == <>[][\A f \in Fulfillers : ~isWaiting(f)]_pafVars

(* A promise that is listened to is answered, at the latest by the destructor
   of its fulfiller (async-inl.h, ~XThreadFulfiller). *)
ListenerHears ==
  NotAskedForEver => (waiting = "listening" ~> ready \/ waiting # "listening")

(* An object that the waiting thread has abandoned is deleted by somebody
   (async.cc, XThreadPaf::destroy and FulfillScope). *)
NothingLeaks == NotAskedForEver => (waiting = "gone" ~> deleted = 1)

(* async.h:793: the methods of the fulfiller "can safely be called from
   another thread", isWaiting() included.  The code does not keep this: between
   the two loads of isWaiting() another thread may fulfil the promise, and the
   waiting thread delete the object. *)
AskedObjectIsValid == \A f \in Fulfillers : at[f] = "ask" => deleted = 0
=============================================================================
