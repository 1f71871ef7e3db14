------------------------------- MODULE Mutex -------------------------------
(***************************************************************************)
(* zc::_::Mutex, futex build (libraries/zc/core/mutex.cc, mutex.h).        *)
(*                                                                         *)
(* One word, `futex`, is at once a readers/writer lock and the rendezvous  *)
(* of the threads blocked on it; a list of stack-allocated Waiter records  *)
(* hangs off the mutex for wait(), and an exclusive unlock() hands the     *)
(* still-held lock straight to the first waiter whose predicate is true.   *)
(*                                                                         *)
(* Every atomic instruction and every futex system call is a step of its   *)
(* own.  The three bit fields of the word are a record.  A local variable  *)
(* is put back to its initial value where its scope ends.                  *)
(***************************************************************************)
EXTENDS Naturals, Sequences, FiniteSets

CONSTANTS
  Threads,      \* the threads that share the mutex
  Values,       \* values of the guarded object
  Predicates    \* conditions wait() may be called with

(* A condition is a pure function of the guarded value that may throw. *)
Verdicts == {"true", "false", "throw"}

ASSUME ThreadsAssumption == IsFiniteSet(Threads)
ASSUME PredicatesAssumption ==
  Predicates # {} /\ Predicates \subseteq [Values -> Verdicts]

VARIABLES
  futex,        \* Mutex::futex: exclusive held, exclusive requested, count
  waiters,      \* waitersHead..waitersTail: the threads inside wait()
  value,        \* the object that the mutex guards
  pc,           \* where each thread is
  seen,         \* the local `state` of lock(): the word last observed
  deadline,     \* lock() was given a timeout
  rest,         \* unlock(): the waiters still to be looked at
  inWait,       \* the thread is inside wait()
  waiter        \* its Waiter record there

locals == <<seen, deadline>>
waitVars == <<waiters, inWait, waiter>>
vars == <<futex, waiters, value, pc, seen, deadline, rest, inWait, waiter>>

Words == [held : BOOLEAN, requested : BOOLEAN, count : Nat]
Word(h, r, n) == [held |-> h, requested |-> r, count |-> n]
Free == Word(FALSE, FALSE, 0)
Held == Word(TRUE, FALSE, 0)
OnlyRequested == Word(FALSE, TRUE, 0)

Waiters == [predicate : Predicates, hasTimeout : BOOLEAN,
            futex : {0, 1}, exception : BOOLEAN]
Waiter(p, timeout) ==
  [predicate |-> p, hasTimeout |-> timeout, futex |-> 0, exception |-> FALSE]
Signalled(w, threw) ==
  [predicate |-> w.predicate, hasTimeout |-> w.hasTimeout,
   futex |-> 1, exception |-> w.exception \/ threw]
NoWaiter == Waiter(CHOOSE p \in Predicates : TRUE, FALSE)

ExclusiveLocking == {"xTry", "xRequest", "xWait", "xAsleep"}
SharedLocking == {"sLoad", "sWait", "sAsleep", "sTimedOut"}
Unlocking == {"scan", "release"}
Waking == {"wakeAll", "wakeWaiter", "sCas"}
Waiting == {"cSleep", "cAsleep", "cTimedOut", "cCheck"}
Places == {"idle", "read", "write"} \cup ExclusiveLocking \cup SharedLocking
            \cup Unlocking \cup Waking \cup Waiting

Init ==
  /\ futex = Free
  /\ waiters = <<>>
  /\ value \in Values
  /\ pc = [t \in Threads |-> "idle"]
  /\ seen = [t \in Threads |-> Free]
  /\ deadline = [t \in Threads |-> FALSE]
  /\ rest = [t \in Threads |-> <<>>]
  /\ inWait = [t \in Threads |-> FALSE]
  /\ waiter = [t \in Threads |-> NoWaiter]

Goto(t, place) == pc' = [pc EXCEPT ![t] = place]
Observe(t, word) == seen' = [seen EXCEPT ![t] = word]
Forget(t) == Observe(t, Free)
SetDeadline(t, timeout) == deadline' = [deadline EXCEPT ![t] = timeout]

(* addWaiter() and removeWaiter(): link at the tail, unlink from anywhere.
   The list is only touched under the lock. *)
addWaiter(t, w) ==
  /\ waiters' = Append(waiters, t)
  /\ inWait' = [inWait EXCEPT ![t] = TRUE]
  /\ waiter' = [waiter EXCEPT ![t] = w]

(* Mutant of removeWaiter: unlinks whoever is first. *)
removeFirstWaiter(t) ==
  /\ waiters' = Tail(waiters)
  /\ inWait' = [inWait EXCEPT ![t] = FALSE]
  /\ waiter' = [waiter EXCEPT ![t] = NoWaiter]

removeWaiter(t) ==
  /\ \E i \in 1..Len(waiters) :
       /\ waiters[i] = t
       /\ waiters' = [j \in 1..(Len(waiters) - 1) |->
                        waiters[IF j < i THEN j ELSE j + 1]]
  /\ inWait' = [inWait EXCEPT ![t] = FALSE]
  /\ waiter' = [waiter EXCEPT ![t] = NoWaiter]

----------------------------------------------------------------------------
(* lock(EXCLUSIVE, timeout) *)

LockExclusive(t, timeout) ==
  /\ pc[t] = "idle"
  /\ SetDeadline(t, timeout)
  /\ Goto(t, "xTry")
  /\ UNCHANGED <<futex, seen, value, rest, waitVars>>

(* Compare-exchange of 0 with EXCLUSIVE_HELD.  A thread that re-locks at the
   end of a timed-out wait() leaves wait() here, its record unlinked. *)
Acquire(t) ==
  /\ pc[t] = "xTry"
  /\ futex = Free
  /\ futex' = Held
  /\ SetDeadline(t, FALSE)
  /\ Goto(t, "write")
  /\ IF inWait[t] THEN removeWaiter(t) ELSE UNCHANGED waitVars
  /\ UNCHANGED <<seen, value, rest>>

Contend(t) ==
  /\ pc[t] = "xTry"
  /\ futex # Free
  /\ Observe(t, futex)
  /\ Goto(t, IF futex.requested THEN "xWait" ELSE "xRequest")
  /\ UNCHANGED <<futex, value, deadline, rest, waitVars>>

(* Compare-exchange that adds EXCLUSIVE_REQUESTED, if nothing has changed. *)
RequestExclusive(t) ==
  /\ pc[t] = "xRequest"
  /\ IF futex = seen[t]
       THEN /\ futex' = Word(futex.held, TRUE, futex.count)
            /\ Observe(t, futex')
            /\ Goto(t, "xWait")
       ELSE /\ Forget(t)
            /\ Goto(t, "xTry")
            /\ UNCHANGED futex
  /\ UNCHANGED <<value, deadline, rest, waitVars>>

(* FUTEX_WAIT: the kernel compares and goes to sleep in one step. *)
FutexWait(t) ==
  /\ \/ /\ pc[t] = "xWait"
        /\ Goto(t, IF futex = seen[t] THEN "xAsleep" ELSE "xTry")
     \/ /\ pc[t] = "sWait"
        /\ Goto(t, IF futex = seen[t] THEN "sAsleep" ELSE "sLoad")
  /\ Forget(t)
  /\ UNCHANGED <<futex, value, deadline, rest, waitVars>>

(* A sleeper may return for no reason (a signal); lock() loops. *)
SpuriousWake(t) ==
  /\ \/ pc[t] = "xAsleep" /\ Goto(t, "xTry")
     \/ pc[t] = "sAsleep" /\ Goto(t, "sLoad")
  /\ UNCHANGED <<futex, locals, value, rest, waitVars>>

(* ETIMEDOUT: an exclusive locker just gives up, its request bit stays. *)
LockTimesOut(t) ==
  /\ deadline[t]
  /\ SetDeadline(t, FALSE)
  /\ \/ pc[t] = "xAsleep" /\ Goto(t, "idle")
     \/ pc[t] = "sAsleep" /\ Goto(t, "sTimedOut")
  /\ UNCHANGED <<futex, seen, value, rest, waitVars>>

----------------------------------------------------------------------------
(* lock(SHARED, timeout) and unlock(SHARED) *)

(* The reader counts itself first and only then looks whether it may enter. *)
LockShared(t, timeout) ==
  /\ pc[t] = "idle"
  /\ futex' = Word(futex.held, futex.requested, futex.count + 1)
  /\ IF futex.held
       THEN Observe(t, futex') /\ SetDeadline(t, timeout) /\ Goto(t, "sWait")
       ELSE UNCHANGED locals /\ Goto(t, "read")
  /\ UNCHANGED <<value, rest, waitVars>>

ReloadShared(t) ==
  /\ pc[t] = "sLoad"
  /\ IF futex.held
       THEN Observe(t, futex) /\ UNCHANGED deadline /\ Goto(t, "sWait")
       ELSE UNCHANGED seen /\ SetDeadline(t, FALSE) /\ Goto(t, "read")
  /\ UNCHANGED <<futex, value, rest, waitVars>>


(* unlock(SHARED), and a timed-out lock(SHARED) that takes its count back:
   the last one out must answer a pending exclusive request. *)
UnlockShared(t) ==
  /\ pc[t] \in {"read", "sTimedOut"}
  /\ futex' = Word(futex.held, futex.requested, futex.count - 1)
  /\ Goto(t, IF futex' = OnlyRequested THEN "sCas" ELSE "idle")
  /\ UNCHANGED <<value, locals, rest, waitVars>>

ClearRequest(t) ==
  /\ pc[t] = "sCas"
  /\ IF futex = OnlyRequested
       THEN futex' = Free /\ Goto(t, "wakeAll")
       ELSE UNCHANGED futex /\ Goto(t, "idle")
  /\ UNCHANGED <<value, locals, rest, waitVars>>

----------------------------------------------------------------------------
(* The holder of the exclusive lock, and unlock(EXCLUSIVE, waiterToSkip) *)

Mutate(t, v) ==
  /\ pc[t] = "write"
  /\ value' = v
  /\ UNCHANGED <<futex, pc, locals, rest, waitVars>>

(* Mutant of UnlockExclusive: looks at no waiter. *)
UnlockWithoutScan(t) ==
  /\ pc[t] = "write"
  /\ Goto(t, "release")
  /\ UNCHANGED <<futex, locals, value, rest, waitVars>>

UnlockExclusive(t) ==
  /\ pc[t] = "write"
  /\ rest' = [rest EXCEPT ![t] = waiters]
  /\ Goto(t, "scan")
  /\ UNCHANGED <<futex, locals, value, waitVars>>

(* checkPredicate(): an exception counts as true and is kept for the waiter,
   after which the condition is not run again. *)
Verdict(u) == waiter[u].predicate[value]
(* Mutant of checkPredicate: wakes waiters as notify_all() would. *)
checkNothing(u) == TRUE

checkPredicate(u) == waiter[u].exception \/ Verdict(u) # "false"
Throws(u) == ~waiter[u].exception /\ Verdict(u) = "throw"

(* waiterToSkip is the record of an unlocker that is itself in wait(). *)
SkipWaiter(t) ==
  /\ pc[t] = "scan"
  /\ rest[t] # <<>>
  /\ LET u == Head(rest[t]) IN u = t \/ ~checkPredicate(u)
  /\ rest' = [rest EXCEPT ![t] = Tail(@)]
  /\ UNCHANGED <<futex, pc, locals, value, waitVars>>

(* Hand the lock to a waiter whose condition is met, unless it has timed out
   and set its own futex already; without a timeout nobody else sets it. *)
GrantWaiter(t) ==
  /\ pc[t] = "scan"
  /\ rest[t] # <<>>
  /\ LET u == Head(rest[t])
     IN /\ u # t /\ checkPredicate(u)
        /\ waiter' = [waiter EXCEPT ![u] = Signalled(@, Throws(u))]
        /\ IF ~waiter[u].hasTimeout \/ waiter[u].futex = 0
             THEN rest' = [rest EXCEPT ![t] = <<u>>] /\ Goto(t, "wakeWaiter")
             ELSE rest' = [rest EXCEPT ![t] = Tail(@)] /\ UNCHANGED pc
  /\ UNCHANGED <<futex, locals, value, waiters, inWait>>

ScanDone(t) ==
  /\ pc[t] = "scan"
  /\ rest[t] = <<>>
  /\ Goto(t, "release")
  /\ UNCHANGED <<futex, locals, value, rest, waitVars>>

(* Where unlock() returns to: its caller, or the body of wait(). *)
AfterUnlock(t) == IF inWait[t] THEN "cSleep" ELSE "idle"

(* Mutant of ReleaseExclusive: readers that wait are forgotten. *)
ReleaseToWriters(t) ==
  /\ pc[t] = "release"
  /\ futex' = Word(FALSE, FALSE, futex.count)
  /\ Goto(t, IF futex.requested THEN "wakeAll" ELSE AfterUnlock(t))
  /\ UNCHANGED <<locals, value, rest, waitVars>>

(* Fetch-and: both exclusive bits go, whoever counted itself holds the lock. *)
ReleaseExclusive(t) ==
  /\ pc[t] = "release"
  /\ futex' = Word(FALSE, FALSE, futex.count)
  /\ Goto(t, IF futex.requested \/ futex.count > 0
               THEN "wakeAll" ELSE AfterUnlock(t))
  /\ UNCHANGED <<locals, value, rest, waitVars>>

(* FUTEX_WAKE of everybody asleep on the mutex word. *)
WakeAll(t) ==
  /\ pc[t] = "wakeAll"
  /\ pc' = [u \in Threads |->
              IF u = t THEN AfterUnlock(t)
              ELSE IF pc[u] = "xAsleep" THEN "xTry"
              ELSE IF pc[u] = "sAsleep" THEN "sLoad"
              ELSE pc[u]]
  /\ UNCHANGED <<futex, locals, value, rest, waitVars>>

(* Mutant of WakeWaiter: falls through to the release. *)
WakeWaiterAndRelease(t) ==
  /\ pc[t] = "wakeWaiter"
  /\ LET u == Head(rest[t])
     IN pc' = [pc EXCEPT ![t] = "release",
                         ![u] = IF @ = "cAsleep" THEN "cCheck" ELSE @]
  /\ rest' = [rest EXCEPT ![t] = <<>>]
  /\ UNCHANGED <<futex, locals, value, waitVars>>

(* FUTEX_WAKE on the word of the waiter that was given the lock. *)
WakeWaiter(t) ==
  /\ pc[t] = "wakeWaiter"
  /\ pc' = [u \in Threads |->
              IF u = t THEN AfterUnlock(t)
              ELSE IF u = Head(rest[t]) /\ pc[u] = "cAsleep" THEN "cCheck"
              ELSE pc[u]]
  /\ rest' = [rest EXCEPT ![t] = <<>>]
  /\ UNCHANGED <<futex, locals, value, waitVars>>

----------------------------------------------------------------------------
(* wait(predicate, timeout), called by the holder of the exclusive lock *)

(* A condition that is true, or throws, at once leaves everything as it was. *)
Wait(t, p, timeout) ==
  /\ pc[t] = "write"
  /\ p[value] = "false"
  /\ addWaiter(t, Waiter(p, timeout))
  /\ rest' = [rest EXCEPT ![t] = waiters']
  /\ Goto(t, "scan")
  /\ UNCHANGED <<futex, locals, value>>

(* FUTEX_WAIT on the waiter's own word, expected to be 0. *)
SleepInWait(t) ==
  /\ pc[t] = "cSleep"
  /\ Goto(t, IF waiter[t].futex = 0 THEN "cAsleep" ELSE "cCheck")
  /\ UNCHANGED <<futex, locals, value, rest, waitVars>>

(* induceSpuriousWakeupForTest(), or a signal. *)
SpuriousWakeInWait(t) ==
  /\ pc[t] = "cAsleep"
  /\ Goto(t, "cCheck")
  /\ UNCHANGED <<futex, locals, value, rest, waitVars>>

WaitTimesOut(t) ==
  /\ pc[t] = "cAsleep"
  /\ waiter[t].hasTimeout
  /\ Goto(t, "cTimedOut")
  /\ UNCHANGED <<futex, locals, value, rest, waitVars>>

(* Mutant of ClaimOwnWakeup: a store instead of a compare-exchange. *)
StoreOwnWakeup(t) ==
  /\ pc[t] = "cTimedOut"
  /\ waiter' = [waiter EXCEPT ![t] = Signalled(@, FALSE)]
  /\ Goto(t, "xTry")
  /\ UNCHANGED <<futex, locals, value, rest, waiters, inWait>>

(* Compare-exchange on the waiter's own word decides who re-acquires: the
   waiter by lock(EXCLUSIVE, none), or the unlocker that came first. *)
ClaimOwnWakeup(t) ==
  /\ pc[t] = "cTimedOut"
  /\ waiter' = [waiter EXCEPT ![t] = Signalled(@, FALSE)]
  /\ Goto(t, IF waiter[t].futex = 0 THEN "xTry" ELSE "cCheck")
  /\ UNCHANGED <<futex, locals, value, rest, waiters, inWait>>

(* Woken: the lock is ours if our word is set; otherwise sleep again. *)
CheckWakeup(t) ==
  /\ pc[t] = "cCheck"
  /\ IF waiter[t].futex = 1
       THEN Goto(t, "write") /\ removeWaiter(t)
       ELSE Goto(t, "cSleep") /\ UNCHANGED waitVars
  /\ UNCHANGED <<futex, locals, value, rest>>

----------------------------------------------------------------------------
(* What a thread does of its own accord ... *)
Calls(t) ==
  \/ \E timeout \in BOOLEAN : LockExclusive(t, timeout) \/ LockShared(t, timeout)
  \/ \E p \in Predicates, timeout \in BOOLEAN : Wait(t, p, timeout)
  \/ \E v \in Values : Mutate(t, v)

(* ... what it must go on doing once inside a call or holding the lock ... *)
Runs(t) ==
  \/ Acquire(t) \/ Contend(t) \/ RequestExclusive(t) \/ FutexWait(t)
  \/ ReloadShared(t) \/ UnlockShared(t) \/ ClearRequest(t)
  \/ UnlockExclusive(t) \/ SkipWaiter(t) \/ GrantWaiter(t) \/ ScanDone(t)
  \/ ReleaseExclusive(t) \/ WakeAll(t) \/ WakeWaiter(t)
  \/ SleepInWait(t) \/ ClaimOwnWakeup(t) \/ CheckWakeup(t)

(* ... and what the kernel may do to it while it sleeps. *)
Disturbed(t) ==
  SpuriousWake(t) \/ LockTimesOut(t) \/ SpuriousWakeInWait(t) \/ WaitTimesOut(t)

Next == \E t \in Threads : Calls(t) \/ Runs(t) \/ Disturbed(t)

Spec == Init /\ [][Next]_vars

----------------------------------------------------------------------------
(* Properties *)

(* The variables, the word and the Waiter records have their types. *)
TypeOK ==
  /\ futex \in Words
  /\ waiters \in Seq(Threads)
  /\ value \in Values
  /\ pc \in [Threads -> Places]
  /\ seen \in [Threads -> Words]
  /\ deadline \in [Threads -> BOOLEAN]
  /\ rest \in [Threads -> Seq(Threads)]
  /\ inWait \in [Threads -> BOOLEAN]
  /\ waiter \in [Threads -> Waiters]

(* The lock is in t's hands: t runs under it, or is in wait(), has let go of
   it (perhaps still waking others) and been given it by an unlocker. *)
Parked(t) == inWait[t] /\ pc[t] \in Waiting \cup {"wakeAll", "wakeWaiter"}
Granted(t) == Parked(t) /\ waiter[t].futex = 1
Owns(t) == pc[t] \in {"write", "scan", "release"} \/ Granted(t)
Reads(t) == pc[t] = "read"
Counted(t) == pc[t] \in {"read", "sLoad", "sWait", "sAsleep", "sTimedOut"}

(* Readers/writer exclusion, across timeouts, hand-offs and re-locking: no
   two threads own the lock, and none reads while another owns it. *)
MutualExclusion ==
  \A t, u \in Threads : t # u => ~(Owns(t) /\ (Owns(u) \/ Reads(u)))

(* mutex.h, comment on `futex`: the held bit says that somebody owns the
   lock; the count is the number of threads that read or wait to read. *)
WordIsAccurate ==
  /\ futex.held <=> \E t \in Threads : Owns(t)
  /\ futex.count = Cardinality({t \in Threads : Counted(t)})

(* No lost wakeup: whoever sleeps on the word is either still announced in
   the word to the thread that will unlock it, or about to be woken. *)
SleepersAreAnnounced ==
  \A t \in Threads :
    \/ \E u \in Threads : pc[u] = "wakeAll"
    \/ /\ pc[t] = "xAsleep" => /\ futex.requested
                               /\ \/ futex.held \/ futex.count > 0
                                  \/ \E u \in Threads : pc[u] = "sCas"
       /\ pc[t] = "sAsleep" => futex.held

(* wait() does not sleep through its condition: while nobody owns the lock,
   the condition of every waiter that is still to be woken is false. *)
WaitersAreNotReady ==
  ~futex.held =>
    \A t \in Threads : inWait[t] /\ waiter[t].futex = 0 => ~checkPredicate(t)

(* The list holds the records of exactly the threads inside wait(), once
   each: a record on the stack of a thread that has left would dangle. *)
WaiterListIsExact ==
  /\ \A t \in Threads : inWait[t] <=> \E i \in 1..Len(waiters) : waiters[i] = t
  /\ \A i, j \in 1..Len(waiters) : waiters[i] = waiters[j] => i = j

(* Threads and Waiter records seen as users of a guarded value. *)
Role(t) == IF Owns(t) THEN "writer"
           ELSE IF Reads(t) THEN "reader"
           ELSE IF inWait[t] THEN "waiter" ELSE "out"
Condition(t) == [predicate |-> waiter[t].predicate,
                 hasTimeout |-> waiter[t].hasTimeout]
roles == [t \in Threads |-> Role(t)]
conditions == [t \in Threads |-> Condition(t)]

Guarded == INSTANCE GuardedValue WITH role <- roles, condition <- conditions

(* The futex word, the list and the hand-off implement MutexGuarded: seen
   from outside there is one writer or some readers, and a wait() ends only
   with its condition met or its timeout passed. *)
ImplementsGuardedValue == Guarded!Spec

(* Nobody is stuck in lock() for ever (for finitely many calls: lock() has
   no queue, so newcomers may overtake), and a thread that was given the lock
   in wait() gets to run with it (mutex.cc:163-264, 392-485). *)
Locking(t) == pc[t] \in ExclusiveLocking \cup SharedLocking
=============================================================================
