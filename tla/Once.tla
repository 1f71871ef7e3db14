-------------------------------- MODULE Once --------------------------------
(***************************************************************************)
(* zc::_::Once, futex build, and Lazy<T>::get() on top of it               *)
(* (libraries/zc/core/mutex.cc, mutex.h).                                  *)
(*                                                                         *)
(* Every atomic instruction and every futex system call is a step of its   *)
(* own.  Initializers may throw, after which initialisation is retried.    *)
(* Atomics are sequentially consistent.                                    *)
(***************************************************************************)
EXTENDS Naturals, FiniteSets

CONSTANT Threads

VARIABLES
  futex,      \* Once::futex
  value,      \* Lazy::value: "none", or "built" by an initializer
  builds,     \* initializers that have succeeded since the last reset()
  pc,         \* where each thread is
  seen        \* the local `state` of runOnce()

onceVars == <<futex, value, builds, pc, seen>>

OnceStates == {"UNINITIALIZED", "INITIALIZING", "INITIALIZING_WITH_WAITERS", "INITIALIZED"}
Objects == {"none", "built"}
Initializing == {"init", "failed", "succeeded"}
Waking == {"wakeAndThrow", "wakeAndReturn"}
Following == {"examine", "mark", "sleep", "asleep", "reload"}
Places == {"idle", "start", "read"} \cup Initializing \cup Waking \cup Following

OnceInit ==
  /\ futex = "UNINITIALIZED"
  /\ value = "none"
  /\ builds = 0
  /\ pc = [t \in Threads |-> "idle"]
  /\ seen = [t \in Threads |-> "UNINITIALIZED"]

Goto(t, place) == pc' = [pc EXCEPT ![t] = place]
Load(t, s) == seen' = [seen EXCEPT ![t] = s]

(* get() looks first whether there is anything to do: an acquire load. *)
Get(t) ==
  /\ pc[t] = "idle"
  /\ Goto(t, IF futex = "INITIALIZED" THEN "read" ELSE "start")
  /\ UNCHANGED <<futex, value, builds, seen>>

(* Compare-exchange of UNINITIALIZED with INITIALIZING; relaxed. *)
Start(t) ==
  /\ pc[t] = "start"
  /\ IF futex = "UNINITIALIZED"
       THEN /\ futex' = "INITIALIZING"
            /\ Goto(t, "init")
            /\ UNCHANGED seen
       ELSE /\ Load(t, futex)
            /\ Goto(t, "examine")
            /\ UNCHANGED futex
  /\ UNCHANGED <<value, builds>>

(* init.run(): builds the value or throws. *)
RunInitializer(t) ==
  /\ pc[t] = "init"
  /\ \/ /\ value' = "built"
        /\ builds' = builds + 1
        /\ Goto(t, "succeeded")
     \/ /\ Goto(t, "failed")
        /\ UNCHANGED <<value, builds>>
  /\ UNCHANGED <<futex, seen>>

(* Mutant of Publish: nobody is woken. *)
PublishSilently(t) ==
  /\ pc[t] = "succeeded"
  /\ futex' = "INITIALIZED"
  /\ Goto(t, "read")
  /\ UNCHANGED <<value, builds, seen>>

(* The exchange that ends initialisation, either way. *)
Publish(t) ==
  /\ pc[t] = "succeeded"
  /\ futex' = "INITIALIZED"
  /\ Goto(t, IF futex = "INITIALIZING_WITH_WAITERS" THEN "wakeAndReturn" ELSE "read")
  /\ UNCHANGED <<value, builds, seen>>

Revert(t) ==
  /\ pc[t] = "failed"
  /\ futex' = "UNINITIALIZED"
  /\ Goto(t, IF futex = "INITIALIZING_WITH_WAITERS" THEN "wakeAndThrow" ELSE "idle")
  /\ UNCHANGED <<value, builds, seen>>

(* FUTEX_WAKE of everybody; an initializer's exception goes to the caller. *)
WakeAll(t) ==
  /\ pc[t] \in Waking
  /\ pc' = [u \in Threads |->
              IF u = t THEN (IF pc[t] = "wakeAndReturn" THEN "read" ELSE "idle")
              ELSE IF pc[u] = "asleep" THEN "reload" ELSE pc[u]]
  /\ UNCHANGED <<futex, value, builds, seen>>

(* The loop of a thread that is not the initializer.  With assertions off,
   any state other than the first two goes to sleep. *)
Examine(t) ==
  /\ pc[t] = "examine"
  /\ Goto(t, CASE seen[t] = "INITIALIZED" -> "read"
               [] seen[t] = "INITIALIZING" -> "mark"
               [] OTHER -> "sleep")
  /\ UNCHANGED <<futex, value, builds, seen>>

(* Mutant of Mark: a store instead of a compare-exchange. *)
MarkByStore(t) ==
  /\ pc[t] = "mark"
  /\ futex' = "INITIALIZING_WITH_WAITERS"
  /\ Goto(t, "sleep")
  /\ UNCHANGED <<value, builds, seen>>

(* Weak compare-exchange, acquire: it may fail although nothing changed. *)
Mark(t) ==
  /\ pc[t] = "mark"
  /\ \/ /\ futex = "INITIALIZING"
        /\ futex' = "INITIALIZING_WITH_WAITERS"
        /\ Goto(t, "sleep")
        /\ UNCHANGED seen
     \/ /\ Load(t, futex)
        /\ Goto(t, "examine")
        /\ UNCHANGED futex
  /\ UNCHANGED <<value, builds>>

Sleep(t) ==
  /\ pc[t] = "sleep"
  /\ Goto(t, IF futex = "INITIALIZING_WITH_WAITERS" THEN "asleep" ELSE "reload")
  /\ UNCHANGED <<futex, value, builds, seen>>

SpuriousWake(t) ==
  /\ pc[t] = "asleep"
  /\ Goto(t, "reload")
  /\ UNCHANGED <<futex, value, builds, seen>>

(* Acquire load; if the initializer gave up, start over. *)
Reload(t) ==
  /\ pc[t] = "reload"
  /\ Load(t, futex)
  /\ Goto(t, IF futex = "UNINITIALIZED" THEN "start" ELSE "examine")
  /\ UNCHANGED <<futex, value, builds>>

(* return *value *)
ReadValue(t) ==
  /\ pc[t] = "read"
  /\ Goto(t, "idle")
  /\ UNCHANGED <<futex, value, builds, seen>>

(* reset(): only legal while nobody else is using the object. *)
Reset ==
  /\ \A t \in Threads : pc[t] = "idle"
  /\ futex = "INITIALIZED"
  /\ futex' = "UNINITIALIZED"
  /\ builds' = 0
  /\ UNCHANGED <<value, pc, seen>>

OnceRuns(t) ==
  \/ Start(t) \/ RunInitializer(t) \/ Publish(t) \/ Revert(t) \/ WakeAll(t)
  \/ Examine(t) \/ Mark(t) \/ Sleep(t) \/ Reload(t) \/ ReadValue(t)

OnceNext == Reset \/ \E t \in Threads : Get(t) \/ OnceRuns(t) \/ SpuriousWake(t)

OnceSpec == OnceInit /\ [][OnceNext]_onceVars

----------------------------------------------------------------------------
(* Properties *)

(* The variables have their types. *)
OnceTypeOK ==
  /\ futex \in OnceStates
  /\ value \in Objects
  /\ builds \in 0..1
  /\ pc \in [Threads -> Places]
  /\ seen \in [Threads -> OnceStates]

(* One thread initialises at a time, and none once that has succeeded. *)
OneInitializer ==
  /\ \A t, u \in Threads : pc[t] \in Initializing /\ pc[u] \in Initializing => t = u
  /\ builds = IF futex = "INITIALIZED" \/ \E t \in Threads : pc[t] = "succeeded"
                THEN 1 ELSE 0
  /\ (\E t \in Threads : pc[t] \in Initializing)
       <=> futex \in {"INITIALIZING", "INITIALIZING_WITH_WAITERS"}

(* Nobody gets to dereference the value before it exists. *)
ReadersFollowBuild ==
  \A t \in Threads : pc[t] = "read" => futex = "INITIALIZED" /\ value = "built"

(* No lost wakeup: a sleeper is announced to the initializer, or about to be
   woken, whether the initializer succeeds or throws. *)
SleepersAreAnnounced ==
  (\E t \in Threads : pc[t] = "asleep") =>
    \/ futex = "INITIALIZING_WITH_WAITERS"
    \/ \E u \in Threads : pc[u] \in Waking

(* The value of a Lazy is built once, however many threads race for it and
   however often an initializer throws, nobody reads it earlier, and no sleeper
   is forgotten; mutex.cc, Once::runOnce. *)
BuiltOnce == OnceTypeOK /\ OneInitializer /\ ReadersFollowBuild /\ SleepersAreAnnounced

(* mutex.cc:543, assertion: a follower that finds the object neither done nor
   being initialised finds it being initialised with waiters. *)
FollowerStateIsAsserted ==
  \A t \in Threads :
    pc[t] = "examine" =>
      seen[t] \in {"INITIALIZED", "INITIALIZING", "INITIALIZING_WITH_WAITERS"}

(* Running threads keep running; an initializer that keeps throwing may fail
   for ever, so success is assumed to come if it is tried again and again. *)
Succeeds(t) == RunInitializer(t) /\ pc'[t] = "succeeded"
OnceFairSpec ==
  /\ OnceSpec
  /\ \A t \in Threads : WF_onceVars(OnceRuns(t))
  /\ SF_onceVars(\E t \in Threads : Succeeds(t))

(* Every get() comes back, with the value or with an exception. *)
GetReturns == \A t \in Threads : pc[t] # "idle" ~> pc[t] = "idle"
=============================================================================
