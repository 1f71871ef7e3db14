---------------------------- MODULE GuardedValue ----------------------------
(***************************************************************************)
(* What MutexGuarded<T> promises (libraries/zc/core/mutex.h): an object    *)
(* that one thread may write or several may read, and on which a writer    *)
(* may wait until a condition holds.  No words, no queues, no wakeups.     *)
(***************************************************************************)
CONSTANTS Threads, Values, Predicates

VARIABLES
  role,         \* "out", "reader", "writer" or "waiter"
  value,        \* the guarded object
  condition     \* what a waiter waits for, and whether it may give up

vars == <<role, value, condition>>

Roles == {"out", "reader", "writer", "waiter"}
Conditions == [predicate : Predicates, hasTimeout : BOOLEAN]
NoCondition == [predicate |-> CHOOSE p \in Predicates : TRUE, hasTimeout |-> FALSE]

Init ==
  /\ role = [t \in Threads |-> "out"]
  /\ value \in Values
  /\ condition = [t \in Threads |-> NoCondition]

NoWriter == \A t \in Threads : role[t] # "writer"
NoReader == \A t \in Threads : role[t] # "reader"

Become(t, r) == role' = [role EXCEPT ![t] = r]

(* lockExclusive(), lockShared(): either may also give up, which is nothing. *)
Write(t) ==
  /\ role[t] = "out" /\ NoWriter /\ NoReader
  /\ Become(t, "writer")
  /\ UNCHANGED <<value, condition>>

Read(t) ==
  /\ role[t] = "out" /\ NoWriter
  /\ Become(t, "reader")
  /\ UNCHANGED <<value, condition>>

(* ~Locked(): the end of a read or a write. *)
Leave(t) ==
  /\ role[t] \in {"reader", "writer"}
  /\ Become(t, "out")
  /\ UNCHANGED <<value, condition>>

Mutate(t, v) ==
  /\ role[t] = "writer"
  /\ value' = v
  /\ UNCHANGED <<role, condition>>

(* Locked::wait(): a writer states its condition, and lets go ... *)
StartWait(t, c) ==
  /\ role[t] = "writer"
  /\ condition' = [condition EXCEPT ![t] = c]
  /\ UNCHANGED <<role, value>>

Park(t) ==
  /\ role[t] = "writer"
  /\ Become(t, "waiter")
  /\ UNCHANGED <<value, condition>>

(* ... and writes again when another writer leaves, or parks, and the
   condition is met (or throws) ... *)
Met(t) == condition[t].predicate[value] # "false"

HandOver(t, u) ==
  /\ t # u /\ role[t] = "writer" /\ role[u] = "waiter" /\ Met(u)
  /\ \E r \in {"out", "waiter"} : role' = [role EXCEPT ![t] = r, ![u] = "writer"]
  /\ UNCHANGED <<value, condition>>

(* ... or when it has waited for too long. *)
GiveUp(t) ==
  /\ role[t] = "waiter" /\ condition[t].hasTimeout /\ NoWriter /\ NoReader
  /\ Become(t, "writer")
  /\ condition' = [condition EXCEPT ![t] = NoCondition]
  /\ UNCHANGED value

EndWait(t) ==
  /\ role[t] = "writer"
  /\ condition' = [condition EXCEPT ![t] = NoCondition]
  /\ UNCHANGED <<role, value>>

Next ==
  \E t \in Threads :
    \/ Write(t) \/ Read(t) \/ Leave(t) \/ Park(t) \/ GiveUp(t) \/ EndWait(t)
    \/ \E v \in Values : Mutate(t, v)
    \/ \E c \in Conditions : StartWait(t, c)
    \/ \E u \in Threads : HandOver(t, u)

Spec == Init /\ [][Next]_vars
=============================================================================
