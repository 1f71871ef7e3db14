---------------------------- MODULE MutexProofs ----------------------------
(***************************************************************************)
(* Proofs about Mutex, for any finite set of threads, any values and any   *)
(* conditions.                                                             *)
(***************************************************************************)
EXTENDS Mutex, FiniteSetTheorems, TLAPS

(* Where a thread inside wait() can be, and what its Waiter record says. *)
WaitPlace(t) ==
  /\ pc[t] \in Waiting => inWait[t]
  /\ inWait[t] => pc[t] \in Waiting \cup Unlocking \cup ExclusiveLocking
                              \cup {"wakeAll", "wakeWaiter"}
  /\ deadline[t] => /\ ~inWait[t]
                   /\ pc[t] \in ExclusiveLocking \cup {"sLoad", "sWait", "sAsleep"}
  /\ inWait[t] /\ pc[t] \in ExclusiveLocking =>
       waiter[t].futex = 1 /\ waiter[t].hasTimeout
  /\ inWait[t] /\ pc[t] \in Unlocking => waiter[t].futex = 0
  /\ pc[t] = "cTimedOut" => waiter[t].hasTimeout
  /\ pc[t] = "wakeWaiter" => rest[t] # <<>>
WaitPlaces == \A t \in Threads : WaitPlace(t)

OneOwner == \A t, u \in Threads : Owns(t) /\ Owns(u) => t = u
HeldBit == futex.held <=> \E t \in Threads : Owns(t)
ReadersExclude == \A t \in Threads : Reads(t) => ~futex.held

CountedSet == {t \in Threads : Counted(t)}
CountIsAccurate == futex.count = Cardinality(CountedSet)

(* What an unlocker still has to look at is in the list. *)
ScanInList ==
  \A t \in Threads : pc[t] = "scan" =>
    \A i \in 1..Len(rest[t]) : inWait[rest[t][i]]

LockInv ==
  /\ TypeOK
  /\ WaitPlaces
  /\ OneOwner
  /\ HeldBit
  /\ ReadersExclude
  /\ CountIsAccurate
  /\ WaiterListIsExact
  /\ ScanInList

----------------------------------------------------------------------------
(* Facts about the constants of the model *)

(* The groups of places, spelled out for the provers. *)
LEMMA PlaceSets ==
  /\ ExclusiveLocking = {"xTry", "xRequest", "xWait", "xAsleep"}
  /\ SharedLocking = {"sLoad", "sWait", "sAsleep", "sTimedOut"}
  /\ Unlocking = {"scan", "release"}
  /\ Waking = {"wakeAll", "wakeWaiter", "sCas"}
  /\ Waiting = {"cSleep", "cAsleep", "cTimedOut", "cCheck"}
  BY DEF ExclusiveLocking, SharedLocking, Unlocking, Waking, Waiting

(* The named values of the futex word are words ... *)
LEMMA WordTypes == Free \in Words /\ Held \in Words /\ OnlyRequested \in Words
  BY DEF Free, Held, OnlyRequested, Word, Words

(* ... as is any combination of its fields ... *)
LEMMA WordType ==
  ASSUME NEW h \in BOOLEAN, NEW r \in BOOLEAN, NEW n \in Nat
  PROVE  Word(h, r, n) \in Words
  BY DEF Word, Words

(* ... and the fields of a word have their types. *)
LEMMA WordFields ==
  ASSUME NEW w \in Words
  PROVE  w.held \in BOOLEAN /\ w.requested \in BOOLEAN /\ w.count \in Nat
  BY DEF Words

(* Setting the futex of a Waiter record leaves it a Waiter record. *)
LEMMA SignalledType ==
  ASSUME NEW w \in Waiters, NEW threw \in BOOLEAN
  PROVE  Signalled(w, threw) \in Waiters
<1>1. w.exception \in BOOLEAN /\ w.hasTimeout \in BOOLEAN /\ w.predicate \in Predicates
  BY DEF Waiters
<1>2. (w.exception \/ threw) \in BOOLEAN
  OBVIOUS
<1> QED BY <1>1, <1>2 DEF Signalled, Waiters

(* A fresh Waiter record has the type of one. *)
LEMMA WaiterType ==
  ASSUME NEW p \in Predicates, NEW timeout \in BOOLEAN
  PROVE  Waiter(p, timeout) \in Waiters
  BY DEF Waiter, Waiters

(* So has the record of a thread outside wait(). *)
LEMMA NoWaiterType == NoWaiter \in Waiters
<1>1. (CHOOSE p \in Predicates : TRUE) \in Predicates
  BY PredicatesAssumption
<1> QED BY <1>1, WaiterType DEF NoWaiter

----------------------------------------------------------------------------
(* Type correctness *)

(* The initial state is typed. *)
LEMMA InitType == Init => TypeOK
<1> SUFFICES ASSUME Init PROVE TypeOK OBVIOUS
<1>1. Free \in Words /\ NoWaiter \in Waiters
  BY WordTypes, NoWaiterType
<1> QED BY <1>1 DEF Init, TypeOK, Places

(* Unlinking a record leaves a list of threads. *)
LEMMA RemoveWaiterType ==
  ASSUME TypeOK, NEW t \in Threads, removeWaiter(t)
  PROVE  /\ waiters' \in Seq(Threads)
         /\ inWait' \in [Threads -> BOOLEAN]
         /\ waiter' \in [Threads -> Waiters]
<1>1. PICK i \in 1..Len(waiters) :
        /\ waiters[i] = t
        /\ waiters' = [j \in 1..(Len(waiters) - 1) |->
                         waiters[IF j < i THEN j ELSE j + 1]]
  BY DEF removeWaiter
<1>2. \A j \in 1..(Len(waiters) - 1) : waiters[IF j < i THEN j ELSE j + 1] \in Threads
  BY DEF TypeOK
<1>3. Len(waiters) - 1 \in Nat
  BY DEF TypeOK
<1>4. waiters' \in Seq(Threads)
  BY <1>1, <1>2, <1>3
<1> QED BY <1>4, NoWaiterType DEF removeWaiter, TypeOK

(* Whoever is about to take a count back is counted. *)
LEMMA CountIsPositive ==
  ASSUME TypeOK, CountIsAccurate, NEW t \in Threads, Counted(t)
  PROVE  futex.count \in Nat /\ futex.count > 0
<1>1. IsFiniteSet(CountedSet)
  BY ThreadsAssumption, FS_Subset DEF CountedSet
<1>2. Cardinality(CountedSet) \in Nat
  BY <1>1, FS_CardinalityType
<1>3. CountedSet # {}
  BY DEF CountedSet
<1>4. Cardinality(CountedSet) # 0
  BY <1>1, <1>3, FS_EmptySet
<1> QED BY <1>2, <1>4 DEF CountIsAccurate

(* A step keeps the types; the count needs CountIsAccurate not to go below
   zero in unlock(SHARED). *)
LEMMA NextType == TypeOK /\ CountIsAccurate /\ [Next]_vars => TypeOK'
<1> SUFFICES ASSUME TypeOK, CountIsAccurate, [Next]_vars PROVE TypeOK'
  OBVIOUS
<1> USE WordTypes DEF Goto, Observe, Forget, SetDeadline, locals, waitVars
<1>a. futex.held \in BOOLEAN /\ futex.requested \in BOOLEAN /\ futex.count \in Nat
  BY WordFields DEF TypeOK
<1>1. CASE UNCHANGED vars
  BY <1>1 DEF vars, TypeOK
<1>2. ASSUME NEW t \in Threads, Calls(t) PROVE TypeOK'
  <2>1. ASSUME NEW timeout \in BOOLEAN, LockExclusive(t, timeout) PROVE TypeOK'
    BY <2>1 DEF LockExclusive, TypeOK, Places, ExclusiveLocking
  <2>2. ASSUME NEW timeout \in BOOLEAN, LockShared(t, timeout) PROVE TypeOK'
    <3>1. Word(futex.held, futex.requested, futex.count + 1) \in Words
      BY <1>a, WordType
    <3> QED BY <2>2, <3>1 DEF LockShared, TypeOK, Places, SharedLocking
  <2>3. ASSUME NEW p \in Predicates, NEW timeout \in BOOLEAN, Wait(t, p, timeout)
        PROVE  TypeOK'
    BY <2>3, WaiterType DEF Wait, addWaiter, TypeOK, Places, Unlocking
  <2>4. ASSUME NEW v \in Values, Mutate(t, v) PROVE TypeOK'
    BY <2>4 DEF Mutate, TypeOK
  <2> QED BY <1>2, <2>1, <2>2, <2>3, <2>4 DEF Calls
<1>3. ASSUME NEW t \in Threads, Runs(t) PROVE TypeOK'
  <2>1. CASE Acquire(t)
    BY <2>1, RemoveWaiterType DEF Acquire, TypeOK, Places
  <2>2. CASE Contend(t)
    BY <2>2 DEF Contend, TypeOK, Places, ExclusiveLocking
  <2>3. CASE RequestExclusive(t)
    <3>1. Word(futex.held, TRUE, futex.count) \in Words
      BY <1>a, WordType
    <3> QED BY <2>3, <3>1 DEF RequestExclusive, TypeOK, Places, ExclusiveLocking
  <2>4. CASE FutexWait(t)
    BY <2>4 DEF FutexWait, TypeOK, Places, ExclusiveLocking, SharedLocking
  <2>5. CASE ReloadShared(t)
    BY <2>5 DEF ReloadShared, TypeOK, Places, SharedLocking
  <2>6. CASE ClearRequest(t)
    BY <2>6 DEF ClearRequest, TypeOK, Places, Waking
  <2>7. CASE UnlockExclusive(t)
    BY <2>7 DEF UnlockExclusive, TypeOK, Places, Unlocking
  <2>8. CASE SkipWaiter(t)
    BY <2>8 DEF SkipWaiter, TypeOK
  <2>9. CASE GrantWaiter(t)
    <3>1. Head(rest[t]) \in Threads /\ Tail(rest[t]) \in Seq(Threads)
      BY <2>9 DEF GrantWaiter, TypeOK
    <3>2. Throws(Head(rest[t])) \in BOOLEAN
      BY DEF Throws
    <3>3. Signalled(waiter[Head(rest[t])], Throws(Head(rest[t]))) \in Waiters
      BY <3>1, <3>2, SignalledType DEF TypeOK
    <3>4. waiter' \in [Threads -> Waiters]
      BY <2>9, <3>1, <3>3 DEF GrantWaiter, TypeOK
    <3>5. <<Head(rest[t])>> \in Seq(Threads)
      BY <3>1
    <3>6. rest' \in [Threads -> Seq(Threads)]
      BY <2>9, <3>1, <3>5 DEF GrantWaiter, TypeOK
    <3>7. pc' \in [Threads -> Places]
      BY <2>9 DEF GrantWaiter, TypeOK, Places, Waking
    <3> QED BY <2>9, <3>4, <3>6, <3>7 DEF GrantWaiter, TypeOK
  <2>10. CASE ScanDone(t)
    BY <2>10 DEF ScanDone, TypeOK, Places, Unlocking
  <2>11. CASE ReleaseExclusive(t)
    <3>1. Word(FALSE, FALSE, futex.count) \in Words
      BY <1>a, WordType
    <3> QED BY <2>11, <3>1
        DEF ReleaseExclusive, AfterUnlock, TypeOK, Places, Waking, Waiting
  <2>12. CASE WakeAll(t)
    BY <2>12 DEF WakeAll, AfterUnlock, TypeOK, Places, Waking, Waiting,
         ExclusiveLocking, SharedLocking
  <2>13. CASE WakeWaiter(t)
    BY <2>13 DEF WakeWaiter, AfterUnlock, TypeOK, Places, Waiting
  <2>14. CASE SleepInWait(t)
    BY <2>14 DEF SleepInWait, TypeOK, Places, Waiting
  <2>15. CASE ClaimOwnWakeup(t)
    <3>1. Signalled(waiter[t], FALSE) \in Waiters
      BY SignalledType DEF TypeOK
    <3> QED BY <2>15, <3>1 DEF ClaimOwnWakeup, TypeOK, Places, Waiting, ExclusiveLocking
  <2>16. CASE CheckWakeup(t)
    BY <2>16, RemoveWaiterType DEF CheckWakeup, TypeOK, Places, Waiting
  <2>17. CASE UnlockShared(t)
    <3>1. futex.count - 1 \in Nat
      BY <2>17, CountIsPositive DEF UnlockShared, Counted
    <3>2. Word(futex.held, futex.requested, futex.count - 1) \in Words
      BY <1>a, <3>1, WordType
    <3> QED BY <2>17, <3>2 DEF UnlockShared, TypeOK, Places, Waking
  <2> QED BY <1>3, <2>1, <2>2, <2>3, <2>4, <2>5, <2>6, <2>7, <2>8, <2>9, <2>10,
             <2>11, <2>12, <2>13, <2>14, <2>15, <2>16, <2>17 DEF Runs
<1>4. ASSUME NEW t \in Threads, Disturbed(t) PROVE TypeOK'
  BY <1>4 DEF Disturbed, SpuriousWake, LockTimesOut, SpuriousWakeInWait, WaitTimesOut,
       TypeOK, Places, ExclusiveLocking, SharedLocking, Waiting
<1> QED BY <1>1, <1>2, <1>3, <1>4 DEF Next

----------------------------------------------------------------------------
(* The lock: who owns it, what the word says, what the list holds *)

(* A step of thread t, its actions grouped by what they touch. *)
EnterWait(t) == \E p \in Predicates, timeout \in BOOLEAN : Wait(t, p, timeout)
StepInLock(t) ==
  \/ \E timeout \in BOOLEAN : LockExclusive(t, timeout)
  \/ Contend(t) \/ RequestExclusive(t) \/ FutexWait(t) \/ SpuriousWake(t)
  \/ LockTimesOut(t)
StepUnlocking(t) ==
  \/ \E v \in Values : Mutate(t, v)
  \/ UnlockExclusive(t) \/ SkipWaiter(t) \/ ScanDone(t)
StepShared(t) ==
  \/ \E timeout \in BOOLEAN : LockShared(t, timeout)
  \/ ReloadShared(t) \/ UnlockShared(t) \/ ClearRequest(t)
StepWaking(t) == WakeAll(t) \/ WakeWaiter(t)
StepInWait(t) == SleepInWait(t) \/ SpuriousWakeInWait(t) \/ WaitTimesOut(t)

(* Every step belongs to one of the groups. *)
LEMMA StepCases ==
  ASSUME NEW t \in Threads, Calls(t) \/ Runs(t) \/ Disturbed(t)
  PROVE  \/ EnterWait(t) \/ StepInLock(t) \/ StepUnlocking(t) \/ StepShared(t)
         \/ StepWaking(t) \/ StepInWait(t) \/ Acquire(t) \/ GrantWaiter(t)
         \/ ReleaseExclusive(t) \/ ClaimOwnWakeup(t) \/ CheckWakeup(t)
  BY DEF Calls, Runs, Disturbed, EnterWait, StepInLock, StepUnlocking, StepShared,
       StepWaking, StepInWait

(* The waiter an unlocker looks at is in wait() and does not own the lock. *)
LEMMA HeadOfScan ==
  ASSUME LockInv, NEW t \in Threads, pc[t] = "scan", rest[t] # <<>>
  PROVE  /\ Head(rest[t]) \in Threads
         /\ inWait[Head(rest[t])]
         /\ Head(rest[t]) # t => ~Owns(Head(rest[t]))
<1>1. Head(rest[t]) \in Threads /\ Head(rest[t]) = rest[t][1] /\ 1 \in 1..Len(rest[t])
  BY DEF LockInv, TypeOK
<1>2. inWait[Head(rest[t])]
  BY <1>1 DEF LockInv, ScanInList
<1>3. Owns(t)
  BY DEF Owns
<1> QED BY <1>1, <1>2, <1>3 DEF LockInv, OneOwner

(* A step of t keeps every thread in its place with respect to wait(). *)
LEMMA WaitPlacesStep ==
  ASSUME LockInv, NEW t \in Threads, Calls(t) \/ Runs(t) \/ Disturbed(t)
  PROVE  WaitPlaces'
<1> SUFFICES ASSUME NEW u \in Threads PROVE WaitPlace(u)'
  BY DEF WaitPlaces
<1>a. TypeOK /\ WaitPlace(u) /\ WaitPlace(t)
  BY DEF LockInv, WaitPlaces
<1> USE <1>a, PlaceSets DEF TypeOK, WaitPlace, Goto, Observe, Forget,
        SetDeadline, locals, waitVars
<1>1. CASE EnterWait(t)
  BY <1>1 DEF EnterWait, Wait, addWaiter, Waiter
<1>2. CASE StepInLock(t)
  <2>1. CASE u = t
   <3>1. ASSUME NEW timeout \in BOOLEAN, LockExclusive(t, timeout) PROVE WaitPlace(u)'
    BY <2>1, <3>1 DEF LockExclusive
   <3>2. CASE Contend(t) BY <2>1, <3>2 DEF Contend
   <3>3. CASE RequestExclusive(t) BY <2>1, <3>3 DEF RequestExclusive
   <3>4. CASE FutexWait(t) BY <2>1, <3>4 DEF FutexWait
   <3>5. CASE SpuriousWake(t) BY <2>1, <3>5 DEF SpuriousWake
   <3>6. CASE LockTimesOut(t) BY <2>1, <3>6 DEF LockTimesOut
   <3> QED BY <1>2, <3>1, <3>2, <3>3, <3>4, <3>5, <3>6 DEF StepInLock
  <2>2. CASE u # t
    BY <1>2, <2>2 DEF StepInLock, LockExclusive, Contend, RequestExclusive, FutexWait, SpuriousWake, LockTimesOut
  <2> QED BY <2>1, <2>2
<1>3. CASE StepUnlocking(t)
  <2>1. CASE u = t
   <3>1. ASSUME NEW v \in Values, Mutate(t, v) PROVE WaitPlace(u)'
    BY <2>1, <3>1 DEF Mutate
   <3>2. CASE UnlockExclusive(t) BY <2>1, <3>2 DEF UnlockExclusive
   <3>3. CASE SkipWaiter(t) BY <2>1, <3>3 DEF SkipWaiter
   <3>4. CASE ScanDone(t) BY <2>1, <3>4 DEF ScanDone
   <3> QED BY <1>3, <3>1, <3>2, <3>3, <3>4 DEF StepUnlocking
  <2>2. CASE u # t
    BY <1>3, <2>2 DEF StepUnlocking, Mutate, UnlockExclusive, SkipWaiter, ScanDone
  <2> QED BY <2>1, <2>2
<1>4. CASE StepShared(t)
  BY <1>4 DEF StepShared, LockShared, ReloadShared, UnlockShared, ClearRequest
<1>5. CASE StepWaking(t)
  <2>1. CASE WakeAll(t)
    BY <2>1 DEF WakeAll, AfterUnlock
  <2>2. CASE WakeWaiter(t)
    BY <2>2 DEF WakeWaiter, AfterUnlock
  <2> QED BY <1>5, <2>1, <2>2 DEF StepWaking
<1>6. CASE StepInWait(t)
  BY <1>6 DEF StepInWait, SleepInWait, SpuriousWakeInWait, WaitTimesOut
<1>7. CASE Acquire(t)
  BY <1>7 DEF Acquire, removeWaiter
<1>8. CASE GrantWaiter(t)
  <2>1. CASE u = Head(rest[t])
    BY <1>8, <2>1, HeadOfScan DEF GrantWaiter, Signalled, Owns
  <2>2. CASE u # Head(rest[t]) /\ u # t
    BY <1>8, <2>2, HeadOfScan DEF GrantWaiter
  <2>3. CASE u = t
    <3>1. Head(rest[t]) \in Threads /\ Head(rest[t]) # t /\ rest[t] # <<>>
      BY <1>8, HeadOfScan DEF GrantWaiter
    <3>2. waiter'[t] = waiter[t]
      BY <1>8, <3>1 DEF GrantWaiter
    <3>3. <<Head(rest[t])>> # <<>>
      OBVIOUS
    <3>4. \/ pc'[t] = "scan"
          \/ pc'[t] = "wakeWaiter" /\ rest'[t] = <<Head(rest[t])>>
      BY <1>8 DEF GrantWaiter
    <3> QED BY <1>8, <2>3, <3>2, <3>3, <3>4 DEF GrantWaiter
  <2> QED BY <2>1, <2>2, <2>3
<1>9. CASE ReleaseExclusive(t)
  BY <1>9 DEF ReleaseExclusive, AfterUnlock
<1>10. CASE ClaimOwnWakeup(t)
  BY <1>10 DEF ClaimOwnWakeup, Signalled
<1>11. CASE CheckWakeup(t)
  BY <1>11 DEF CheckWakeup, removeWaiter
<1> QED BY StepCases, <1>1, <1>2, <1>3, <1>4, <1>5, <1>6, <1>7, <1>8, <1>9, <1>10, <1>11

(* Only lock(SHARED), unlock(SHARED) and a reader that gives up change who is
   counted; each adds or removes itself. *)
LEMMA CountUnchanged ==
  ASSUME CountIsAccurate, futex'.count = futex.count,
         \A u \in Threads : Counted(u)' <=> Counted(u)
  PROVE  CountIsAccurate'
<1>1. CountedSet' = CountedSet
  BY DEF CountedSet
<1> QED BY <1>1 DEF CountIsAccurate

(* A step keeps the shared count of the word accurate. *)
LEMMA CountStep ==
  ASSUME LockInv, NEW t \in Threads, Calls(t) \/ Runs(t) \/ Disturbed(t)
  PROVE  CountIsAccurate'
<1>a. TypeOK /\ CountIsAccurate /\ futex.count \in Nat
  BY WordFields DEF LockInv, TypeOK
<1>b. IsFiniteSet(CountedSet)
  BY ThreadsAssumption, FS_Subset DEF CountedSet
<1> USE <1>a, PlaceSets DEF TypeOK, Goto, locals, waitVars
<1>1. CASE EnterWait(t)
  <2>1. \A u \in Threads : Counted(u)' <=> Counted(u)
    BY <1>1 DEF Counted, EnterWait, Wait
  <2> QED BY <1>1, <2>1, CountUnchanged DEF EnterWait, Wait
<1>2. CASE StepInLock(t)
  <2>1. \A u \in Threads : Counted(u)' <=> Counted(u)
    BY <1>2 DEF Counted, StepInLock, LockExclusive, Contend, RequestExclusive,
         FutexWait, SpuriousWake, LockTimesOut
  <2>2. futex'.count = futex.count
    <3>1. futex' = futex \/ futex' = Word(futex.held, TRUE, futex.count)
      BY <1>2 DEF StepInLock, LockExclusive, Contend, RequestExclusive,
           FutexWait, SpuriousWake, LockTimesOut
    <3> QED BY <3>1 DEF Word
  <2> QED BY <2>1, <2>2, CountUnchanged
<1>3. CASE StepUnlocking(t)
  <2>1. \A u \in Threads : Counted(u)' <=> Counted(u)
    BY <1>3 DEF Counted, StepUnlocking, Mutate, UnlockExclusive, SkipWaiter, ScanDone
  <2>2. futex'.count = futex.count
    BY <1>3 DEF StepUnlocking, Mutate, UnlockExclusive, SkipWaiter, ScanDone
  <2> QED BY <2>1, <2>2, CountUnchanged
<1>4. CASE StepWaking(t) \/ StepInWait(t)
  <2>1. \A u \in Threads : Counted(u)' <=> Counted(u)
    BY <1>4 DEF Counted, StepWaking, WakeAll, WakeWaiter, AfterUnlock,
         StepInWait, SleepInWait, SpuriousWakeInWait, WaitTimesOut
  <2>2. futex'.count = futex.count
    BY <1>4 DEF StepWaking, WakeAll, WakeWaiter,
         StepInWait, SleepInWait, SpuriousWakeInWait, WaitTimesOut
  <2> QED BY <2>1, <2>2, CountUnchanged
<1>5. CASE Acquire(t) \/ GrantWaiter(t) \/ ReleaseExclusive(t)
  <2>1. \A u \in Threads : Counted(u)' <=> Counted(u)
    BY <1>5 DEF Counted, Acquire, GrantWaiter, ReleaseExclusive, AfterUnlock
  <2>2. futex'.count = futex.count
    <3>1. \/ futex' = futex \/ futex' = Word(FALSE, FALSE, futex.count)
          \/ futex = Free /\ futex' = Held
      BY <1>5 DEF Acquire, GrantWaiter, ReleaseExclusive
    <3> QED BY <3>1 DEF Word, Free, Held
  <2> QED BY <2>1, <2>2, CountUnchanged
<1>6. CASE ClaimOwnWakeup(t) \/ CheckWakeup(t)
  <2>1. \A u \in Threads : Counted(u)' <=> Counted(u)
    BY <1>6 DEF Counted, ClaimOwnWakeup, CheckWakeup
  <2>2. futex'.count = futex.count
    BY <1>6 DEF ClaimOwnWakeup, CheckWakeup
  <2> QED BY <2>1, <2>2, CountUnchanged
<1>7. CASE StepShared(t)
  <2>1. ASSUME NEW timeout \in BOOLEAN, LockShared(t, timeout) PROVE CountIsAccurate'
    <3>1. CountedSet' = CountedSet \cup {t} /\ t \notin CountedSet
      BY <2>1 DEF CountedSet, Counted, LockShared
    <3>2. Cardinality(CountedSet') = Cardinality(CountedSet) + 1
      BY <1>b, <3>1, FS_AddElement
    <3>3. futex'.count = futex.count + 1
      BY <2>1 DEF LockShared, Word
    <3> QED BY <3>2, <3>3 DEF CountIsAccurate
  <2>2. CASE UnlockShared(t)
    <3>1. CountedSet' = CountedSet \ {t} /\ t \in CountedSet
      BY <2>2 DEF CountedSet, Counted, UnlockShared
    <3>2. Cardinality(CountedSet') = Cardinality(CountedSet) - 1
      BY <1>b, <3>1, FS_RemoveElement
    <3>3. futex'.count = futex.count - 1
      BY <2>2 DEF UnlockShared, Word
    <3> QED BY <3>2, <3>3 DEF CountIsAccurate
  <2>3. CASE ReloadShared(t)
    <3>1. \A u \in Threads : Counted(u)' <=> Counted(u)
      BY <2>3 DEF Counted, ReloadShared
    <3> QED BY <2>3, <3>1, CountUnchanged DEF ReloadShared
  <2>4. CASE ClearRequest(t)
    <3>1. \A u \in Threads : Counted(u)' <=> Counted(u)
      BY <2>4 DEF Counted, ClearRequest
    <3>2. futex'.count = futex.count
      BY <2>4 DEF ClearRequest, OnlyRequested, Free, Word
    <3> QED BY <3>1, <3>2, CountUnchanged
  <2> QED BY <1>7, <2>1, <2>2, <2>3, <2>4 DEF StepShared
<1> QED BY StepCases, <1>1, <1>2, <1>3, <1>4, <1>5, <1>6, <1>7

(* Owners change when the word is acquired or released and when an unlocker
   hands the lock to a waiter. *)
LEMMA OwnersUnchanged ==
  ASSUME OneOwner, HeldBit, ReadersExclude, futex'.held = futex.held,
         \A u \in Threads : (Owns(u)' <=> Owns(u)) /\ (Reads(u)' => Reads(u) \/ ~futex.held)
  PROVE  OneOwner' /\ HeldBit' /\ ReadersExclude'
  BY DEF OneOwner, HeldBit, ReadersExclude

(* A step keeps the owner unique, known to the held bit, and alone. *)
LEMMA OwnerStep ==
  ASSUME LockInv, NEW t \in Threads, Calls(t) \/ Runs(t) \/ Disturbed(t)
  PROVE  OneOwner' /\ HeldBit' /\ ReadersExclude'
<1>a. /\ TypeOK /\ OneOwner /\ HeldBit /\ ReadersExclude
      /\ futex.held \in BOOLEAN /\ futex.count \in Nat
  BY WordFields DEF LockInv, TypeOK
<1>b. \A u \in Threads : WaitPlace(u)
  BY DEF LockInv, WaitPlaces
<1> USE <1>a, PlaceSets DEF TypeOK, Goto, locals, waitVars
<1> DEFINE Same == \A u \in Threads :
                     (Owns(u)' <=> Owns(u)) /\ (Reads(u)' => Reads(u) \/ ~futex.held)
<1>1. CASE EnterWait(t)
  <2>1. Same
    BY <1>1, <1>b DEF Owns, Granted, Parked, Reads, WaitPlace, EnterWait, Wait, addWaiter
  <2> QED BY <1>1, <2>1, OwnersUnchanged DEF EnterWait, Wait
<1>2. CASE StepInLock(t)
  <2>1. ASSUME NEW u \in Threads PROVE (Owns(u)' <=> Owns(u)) /\ (Reads(u)' => Reads(u))
    <3>1. WaitPlace(u) /\ WaitPlace(t)
      BY <1>b
    <3>2. /\ waiter' = waiter /\ inWait' = inWait
          /\ pc[t] \in {"idle", "sWait", "sAsleep"} \cup ExclusiveLocking
          /\ \E place \in {"idle", "sAsleep", "sLoad", "sTimedOut"} \cup ExclusiveLocking :
               Goto(t, place)
      BY <1>2 DEF StepInLock, LockExclusive, Contend, RequestExclusive, FutexWait,
           SpuriousWake, LockTimesOut
    <3> QED BY <3>1, <3>2 DEF Owns, Granted, Parked, Reads, WaitPlace
  <2>2. futex'.held = futex.held
    <3>1. futex' = futex \/ futex' = Word(futex.held, TRUE, futex.count)
      BY <1>2 DEF StepInLock, LockExclusive, Contend, RequestExclusive,
           FutexWait, SpuriousWake, LockTimesOut
    <3> QED BY <3>1 DEF Word
  <2> QED BY <2>1, <2>2, OwnersUnchanged
<1>3. CASE StepUnlocking(t)
  <2>1. Same
    BY <1>3 DEF Owns, Granted, Parked, Reads, StepUnlocking, Mutate, UnlockExclusive,
         SkipWaiter, ScanDone
  <2> QED BY <1>3, <2>1, OwnersUnchanged
      DEF StepUnlocking, Mutate, UnlockExclusive, SkipWaiter, ScanDone
<1>4. CASE StepWaking(t) \/ StepInWait(t)
  <2>1. ASSUME NEW u \in Threads PROVE (Owns(u)' <=> Owns(u)) /\ (Reads(u)' => Reads(u))
    <3>1. WaitPlace(u) /\ WaitPlace(t)
      BY <1>b
    <3> USE <3>1 DEF Owns, Granted, Parked, Reads, WaitPlace
    <3>2. CASE WakeAll(t)
      BY <3>2 DEF WakeAll, AfterUnlock
    <3>3. CASE WakeWaiter(t)
      BY <3>3 DEF WakeWaiter, AfterUnlock
    <3>4. CASE StepInWait(t)
      BY <3>4 DEF StepInWait, SleepInWait, SpuriousWakeInWait, WaitTimesOut
    <3> QED BY <1>4, <3>2, <3>3, <3>4 DEF StepWaking
  <2> QED BY <1>4, <2>1, OwnersUnchanged DEF StepWaking, WakeAll, WakeWaiter,
         StepInWait, SleepInWait, SpuriousWakeInWait, WaitTimesOut
<1>5. CASE ClaimOwnWakeup(t) \/ CheckWakeup(t)
  <2>1. Same
    BY <1>5, <1>b DEF Owns, Granted, Parked, Reads, WaitPlace, ClaimOwnWakeup, CheckWakeup,
         removeWaiter, Signalled, Waiters
  <2> QED BY <1>5, <2>1, OwnersUnchanged DEF ClaimOwnWakeup, CheckWakeup
<1>6. CASE StepShared(t)
  <2> USE <1>b DEF Owns, Granted, Parked, Reads, WaitPlace
  <2>1. ASSUME NEW timeout \in BOOLEAN, LockShared(t, timeout)
        PROVE  Same /\ futex'.held = futex.held
    <3>1. futex'.held = futex.held
      BY <2>1 DEF LockShared, Word
    <3> QED BY <2>1, <3>1 DEF LockShared
  <2>2. CASE ReloadShared(t)
    BY <2>2, OwnersUnchanged DEF ReloadShared
  <2>3. CASE UnlockShared(t)
    <3>1. futex'.held = futex.held
      BY <2>3 DEF UnlockShared, Word
    <3> QED BY <2>3, <3>1, OwnersUnchanged DEF UnlockShared
  <2>4. CASE ClearRequest(t)
    <3>1. futex'.held = futex.held
      <4>1. futex' = futex \/ (futex = OnlyRequested /\ futex' = Free)
        BY <2>4 DEF ClearRequest
      <4>2. OnlyRequested.held = Free.held
        BY DEF OnlyRequested, Free, Word
      <4> QED BY <4>1, <4>2
    <3> QED BY <2>4, <3>1, OwnersUnchanged DEF ClearRequest
  <2> QED BY <1>6, <2>1, <2>2, <2>3, <2>4, OwnersUnchanged DEF StepShared
<1>7. CASE Acquire(t)
  <2>1. ~futex.held /\ futex.count = 0 /\ futex'.held
    BY <1>7 DEF Acquire, Free, Held, Word
  <2>2. \A u \in Threads : ~Owns(u)
    BY <2>1 DEF HeldBit
  <2>3. \A u \in Threads : ~Reads(u)
    BY <2>1, CountIsPositive DEF LockInv, Reads, Counted
  <2>4. Owns(t)' /\ \A u \in Threads \ {t} : ~Owns(u)'
    BY <1>7, <2>2 DEF Acquire, Owns, Granted, Parked, removeWaiter
  <2>5. \A u \in Threads : ~Reads(u)'
    BY <1>7, <2>3 DEF Acquire, Reads
  <2> QED BY <2>1, <2>4, <2>5 DEF OneOwner, HeldBit, ReadersExclude
<1>8. CASE GrantWaiter(t)
  <2>a. PICK h \in Threads : h = Head(rest[t])
    BY <1>8, HeadOfScan DEF GrantWaiter
  <2>1. inWait[h] /\ h # t /\ ~Owns(h)
    BY <1>8, <2>a, HeadOfScan DEF GrantWaiter
  <2>2. waiter'[h].futex = 1 /\ inWait' = inWait /\ futex' = futex /\ pc'[h] = pc[h]
    BY <1>8, <2>a, <2>1 DEF GrantWaiter, Signalled
  <2>3. \A u \in Threads \ {t, h} : pc'[u] = pc[u] /\ waiter'[u] = waiter[u]
    BY <1>8, <2>a DEF GrantWaiter
  <2>4. \A u \in Threads \ {t, h} : Owns(u)' <=> Owns(u)
    BY <2>2, <2>3 DEF Owns, Granted, Parked
  <2>5. \A u \in Threads : Reads(u)' => Reads(u)
    BY <1>8 DEF GrantWaiter, Reads
  <2>6. Owns(t) /\ \A u \in Threads \ {t} : ~Owns(u)
    BY <1>8 DEF GrantWaiter, Owns, OneOwner
  <2>7. CASE ~waiter[h].hasTimeout \/ waiter[h].futex = 0
    <3>1. pc'[t] = "wakeWaiter" /\ waiter'[t] = waiter[t] /\ pc[t] = "scan"
      BY <1>8, <2>a, <2>1, <2>7 DEF GrantWaiter
    <3>2. ~Owns(t)'
      BY <1>b, <2>2, <3>1 DEF Owns, Granted, Parked, WaitPlace
    <3>3. Owns(h)'
      <4>1. WaitPlace(h) /\ waiter[h] \in Waiters
        BY <1>b, <2>1
      <4>2. pc[h] \in Waiting \cup {"wakeAll", "wakeWaiter"}
        BY <2>1, <2>7, <4>1 DEF WaitPlace, Owns, Waiters
      <4> QED BY <2>1, <2>2, <4>2 DEF Owns, Granted, Parked
    <3>4. futex.held
      BY <2>6 DEF HeldBit
    <3>5. OneOwner'
      BY <2>1, <2>4, <2>6, <3>2, <3>3 DEF OneOwner
    <3>6. HeldBit'
      BY <2>1, <2>2, <3>3, <3>4 DEF HeldBit
    <3>7. ReadersExclude'
      BY <2>2, <2>5 DEF ReadersExclude
    <3> QED BY <3>5, <3>6, <3>7
  <2>8. CASE waiter[h].hasTimeout /\ waiter[h].futex # 0
    <3>1. pc' = pc /\ waiter'[t] = waiter[t]
      BY <1>8, <2>a, <2>1, <2>8 DEF GrantWaiter
    <3>2. waiter[h].futex = 1
      BY <2>1, <2>8 DEF Waiters
    <3>3. \A u \in Threads : Owns(u)' <=> Owns(u)
      BY <2>2, <2>4, <3>1, <3>2 DEF Owns, Granted, Parked
    <3> QED BY <2>2, <2>5, <3>3, OwnersUnchanged
  <2> QED BY <2>7, <2>8
<1>9. CASE ReleaseExclusive(t)
  <2>1. ~futex'.held
    BY <1>9 DEF ReleaseExclusive, Word
  <2>2. \A u \in Threads \ {t} : ~Owns(u)'
    BY <1>9 DEF ReleaseExclusive, Owns, Granted, Parked, OneOwner
  <2>3. ~Owns(t)'
    BY <1>9, <1>b DEF ReleaseExclusive, AfterUnlock, Owns, Granted, Parked, WaitPlace
  <2> QED BY <2>1, <2>2, <2>3 DEF OneOwner, HeldBit, ReadersExclude
<1> QED BY StepCases, <1>1, <1>2, <1>3, <1>4, <1>5, <1>6, <1>7, <1>8, <1>9

(* The list changes under the lock only, so nobody else is scanning it. *)
LEMMA RemoveWaiterExact ==
  ASSUME LockInv, NEW t \in Threads, inWait[t], removeWaiter(t)
  PROVE  WaiterListIsExact'
<1>1. PICK i \in 1..Len(waiters) :
        /\ waiters[i] = t
        /\ waiters' = [j \in 1..(Len(waiters) - 1) |->
                         waiters[IF j < i THEN j ELSE j + 1]]
  BY DEF removeWaiter
<1>2. waiters \in Seq(Threads) /\ Len(waiters) \in Nat /\ waiters' \in Seq(Threads)
  BY RemoveWaiterType DEF LockInv, TypeOK
<1>3. Len(waiters') = Len(waiters) - 1
  BY <1>1, <1>2
<1>4. \A j, k \in 1..Len(waiters) : waiters[j] = waiters[k] => j = k
  BY DEF LockInv, WaiterListIsExact
<1>5. \A j \in 1..Len(waiters') : waiters'[j] = waiters[IF j < i THEN j ELSE j + 1]
  BY <1>1, <1>3
<1>6. \A j, k \in 1..Len(waiters') : waiters'[j] = waiters'[k] => j = k
  BY <1>2, <1>3, <1>4, <1>5
<1>7. \A j \in 1..Len(waiters') : waiters'[j] # t
  BY <1>1, <1>2, <1>3, <1>4, <1>5
<1>8. ASSUME NEW u \in Threads, u # t
      PROVE  (\E j \in 1..Len(waiters) : waiters[j] = u)
               <=> \E j \in 1..Len(waiters') : waiters'[j] = u
  <2>1. ASSUME NEW j \in 1..Len(waiters), waiters[j] = u
        PROVE  \E k \in 1..Len(waiters') : waiters'[k] = u
    <3>1. j # i
      BY <1>1, <1>8, <2>1
    <3>2. CASE j < i
      BY <1>2, <1>3, <1>5, <2>1, <3>2
    <3>3. CASE j > i
      <4>1. j - 1 \in 1..Len(waiters') /\ waiters'[j - 1] = u
        BY <1>2, <1>3, <1>5, <2>1, <3>3
      <4> QED BY <4>1
    <3> QED BY <3>1, <3>2, <3>3
  <2>2. ASSUME NEW j \in 1..Len(waiters'), waiters'[j] = u
        PROVE  \E k \in 1..Len(waiters) : waiters[k] = u
    BY <1>2, <1>3, <1>5, <2>2
  <2> QED BY <2>1, <2>2
<1>9. \A u \in Threads : inWait'[u] <=> (u # t /\ inWait[u])
  BY DEF removeWaiter, LockInv, TypeOK
<1>10. \A u \in Threads : inWait[u] <=> \E j \in 1..Len(waiters) : waiters[j] = u
  BY DEF LockInv, WaiterListIsExact
<1>11. \A u \in Threads : inWait'[u] <=> \E j \in 1..Len(waiters') : waiters'[j] = u
  BY <1>7, <1>8, <1>9, <1>10
<1> QED BY <1>6, <1>11 DEF WaiterListIsExact

(* addWaiter() at the entry of wait() keeps the list exact. *)
LEMMA AddWaiterExact ==
  ASSUME LockInv, NEW t \in Threads, ~inWait[t], NEW w, addWaiter(t, w)
  PROVE  WaiterListIsExact' /\ \A i \in 1..Len(waiters') : inWait'[waiters'[i]]
<1>1. /\ waiters \in Seq(Threads) /\ Len(waiters) \in Nat
      /\ waiters' = Append(waiters, t) /\ Len(waiters') = Len(waiters) + 1
  BY DEF LockInv, TypeOK, addWaiter
<1>2. \A i \in 1..Len(waiters) : waiters'[i] = waiters[i]
  BY <1>1
<1>3. waiters'[Len(waiters) + 1] = t
  BY <1>1
<1>4. \A i \in 1..Len(waiters) : waiters[i] \in Threads /\ inWait[waiters[i]]
  BY <1>1 DEF LockInv, WaiterListIsExact
<1>5. \A u \in Threads : inWait'[u] <=> (u = t \/ inWait[u])
  BY DEF addWaiter, LockInv, TypeOK
<1>6. \A i, j \in 1..Len(waiters') : waiters'[i] = waiters'[j] => i = j
  BY <1>1, <1>2, <1>3, <1>4 DEF LockInv, WaiterListIsExact
<1>7. \A i \in 1..Len(waiters') : waiters'[i] \in Threads /\ inWait'[waiters'[i]]
  BY <1>1, <1>2, <1>3, <1>4, <1>5
<1>8. ASSUME NEW u \in Threads, inWait'[u]
      PROVE  \E i \in 1..Len(waiters') : waiters'[i] = u
  <2>1. CASE u = t
    BY <1>1, <1>3, <2>1
  <2>2. CASE inWait[u]
    <3>1. PICK i \in 1..Len(waiters) : waiters[i] = u
      BY <2>2 DEF LockInv, WaiterListIsExact
    <3> QED BY <1>1, <1>2, <3>1
  <2> QED BY <1>5, <1>8, <2>1, <2>2
<1> QED BY <1>6, <1>7, <1>8 DEF WaiterListIsExact

(* A step keeps the list, and what is left of a scan, exact. *)
LEMMA ListStep ==
  ASSUME LockInv, NEW t \in Threads, Calls(t) \/ Runs(t) \/ Disturbed(t)
  PROVE  WaiterListIsExact' /\ ScanInList'
<1>a. TypeOK /\ WaiterListIsExact /\ ScanInList /\ OneOwner /\ WaitPlace(t)
  BY DEF LockInv, WaitPlaces
<1> USE <1>a, PlaceSets DEF TypeOK, Goto, locals, waitVars
<1>1. CASE EnterWait(t)
  <2>1. PICK p \in Predicates, timeout \in BOOLEAN : Wait(t, p, timeout)
    BY <1>1 DEF EnterWait
  <2>2. ~inWait[t]
    BY <2>1 DEF Wait, WaitPlace
  <2>3. WaiterListIsExact' /\ \A i \in 1..Len(waiters') : inWait'[waiters'[i]]
    BY <2>1, <2>2, AddWaiterExact DEF Wait
  <2>4. \A u \in Threads \ {t} : pc[u] # "scan"
    BY <2>1 DEF Wait, OneOwner, Owns
  <2>5. \A u \in Threads \ {t} : pc'[u] # "scan"
    BY <2>1, <2>4 DEF Wait
  <2>6. rest'[t] = waiters'
    BY <2>1 DEF Wait
  <2> QED BY <2>3, <2>5, <2>6 DEF ScanInList
<1>2. CASE (Acquire(t) \/ CheckWakeup(t)) /\ removeWaiter(t)
  <2>1. inWait[t]
    BY <1>2 DEF removeWaiter, WaiterListIsExact
  <2>2. \A u \in Threads : pc[u] # "scan"
    <3>1. CASE Acquire(t)
      <4>1. ~futex.held
        BY <3>1 DEF Acquire, Free, Word
      <4> QED BY <4>1 DEF LockInv, HeldBit, Owns
    <3>2. CASE CheckWakeup(t)
      <4>1. waiter[t].futex = 1
        BY <1>2, <2>1, <3>2 DEF CheckWakeup, removeWaiter
      <4>2. Owns(t) /\ pc[t] # "scan"
        BY <2>1, <3>2, <4>1 DEF CheckWakeup, Owns, Granted, Parked
      <4> QED BY <4>2 DEF OneOwner, Owns
    <3> QED BY <1>2, <3>1, <3>2
  <2>3. \A u \in Threads : pc'[u] # "scan"
    BY <1>2, <2>2 DEF Acquire, CheckWakeup
  <2> QED BY <1>2, <2>1, <2>3, RemoveWaiterExact DEF ScanInList
<1> DEFINE Quiet == /\ UNCHANGED <<waiters, inWait, rest>>
                    /\ \A u \in Threads : pc'[u] = "scan" => pc[u] = "scan"
           Scans == UnlockExclusive(t) \/ SkipWaiter(t) \/ GrantWaiter(t) \/ WakeWaiter(t)
<1>3. CASE Quiet \/ (Scans /\ UNCHANGED <<waiters, inWait>>)
  <2>1. WaiterListIsExact'
    BY <1>3 DEF WaiterListIsExact
  <2>2. ASSUME NEW u \in Threads, pc'[u] = "scan", NEW i \in 1..Len(rest'[u])
        PROVE  inWait'[rest'[u][i]]
    <3>1. CASE UnlockExclusive(t)
      BY <1>3, <2>2, <3>1 DEF UnlockExclusive, ScanInList, WaiterListIsExact
    <3>2. CASE SkipWaiter(t) \/ GrantWaiter(t)
      <4>1. CASE u # t
        <5>1. pc'[u] = pc[u] /\ rest'[u] = rest[u]
          BY <3>2, <4>1 DEF SkipWaiter, GrantWaiter
        <5> QED BY <1>3, <2>2, <5>1 DEF ScanInList
      <4>2. CASE u = t
        <5>1. pc[t] = "scan" /\ rest[t] # <<>> /\ rest'[t] = Tail(rest[t])
          BY <2>2, <3>2, <4>2 DEF SkipWaiter, GrantWaiter
        <5>2. i + 1 \in 1..Len(rest[t]) /\ rest'[t][i] = rest[t][i + 1]
          BY <2>2, <4>2, <5>1
        <5> QED BY <1>3, <4>2, <5>1, <5>2 DEF ScanInList
      <4> QED BY <4>1, <4>2
    <3>3. CASE WakeWaiter(t)
      BY <1>3, <2>2, <3>3 DEF WakeWaiter, AfterUnlock, ScanInList
    <3>4. CASE Quiet
      BY <1>3, <2>2, <3>4 DEF ScanInList
    <3> QED BY <1>3, <3>1, <3>2, <3>3, <3>4
  <2> QED BY <2>1, <2>2 DEF ScanInList
<1>4. CASE StepInLock(t) \/ StepInWait(t) \/ ClaimOwnWakeup(t)
  <2>1. Quiet
    BY <1>4 DEF StepInLock, LockExclusive, Contend, RequestExclusive, FutexWait, SpuriousWake,
         LockTimesOut, StepInWait, SleepInWait, SpuriousWakeInWait, WaitTimesOut, ClaimOwnWakeup
  <2> QED BY <1>3, <2>1
<1>5. CASE StepShared(t) \/ ReleaseExclusive(t) \/ WakeAll(t)
  <2>1. Quiet
    BY <1>5 DEF StepShared, LockShared, ReloadShared, UnlockShared, ClearRequest,
         ReleaseExclusive, AfterUnlock, WakeAll
  <2> QED BY <1>3, <2>1
<1>6. CASE StepUnlocking(t) \/ GrantWaiter(t) \/ WakeWaiter(t)
  <2>1. CASE UnlockExclusive(t) \/ SkipWaiter(t) \/ GrantWaiter(t) \/ WakeWaiter(t)
    BY <1>3, <2>1 DEF UnlockExclusive, SkipWaiter, GrantWaiter, WakeWaiter
  <2>2. CASE ScanDone(t) \/ \E v \in Values : Mutate(t, v)
    <3>1. Quiet
      BY <2>2 DEF ScanDone, Mutate
    <3> QED BY <1>3, <3>1
  <2> QED BY <1>6, <2>1, <2>2 DEF StepUnlocking
<1>7. CASE (Acquire(t) \/ CheckWakeup(t)) /\ ~removeWaiter(t)
  <2>1. Quiet
    BY <1>7 DEF Acquire, CheckWakeup
  <2> QED BY <1>3, <2>1
<1> QED BY StepCases, <1>1, <1>2, <1>4, <1>5, <1>6, <1>7 DEF StepWaking

(* The initial state satisfies the invariant. *)
LEMMA InitLock == Init => LockInv
<1> SUFFICES ASSUME Init PROVE LockInv OBVIOUS
<1>1. \A t \in Threads : pc[t] = "idle" /\ ~inWait[t] /\ ~deadline[t]
  BY DEF Init
<1>2. WaitPlaces
  BY <1>1, PlaceSets DEF WaitPlaces, WaitPlace
<1>3. \A t \in Threads : ~Owns(t) /\ ~Reads(t) /\ ~Counted(t)
  BY <1>1 DEF Owns, Granted, Parked, Reads, Counted
<1>4. ~futex.held /\ futex.count = 0
  BY DEF Init, Free, Word
<1>5. CountedSet = {}
  BY <1>3 DEF CountedSet
<1>6. CountIsAccurate
  BY <1>4, <1>5, FS_EmptySet DEF CountIsAccurate
<1>7. WaiterListIsExact /\ ScanInList
  BY <1>1 DEF Init, WaiterListIsExact, ScanInList
<1> QED BY <1>2, <1>3, <1>4, <1>6, <1>7, InitType
    DEF LockInv, OneOwner, HeldBit, ReadersExclude

(* LockInv is inductive: a step of any thread keeps every part of it. *)
LEMMA NextLock == LockInv /\ [Next]_vars => LockInv'
<1> SUFFICES ASSUME LockInv, [Next]_vars PROVE LockInv'
  OBVIOUS
<1>1. TypeOK'
  BY NextType DEF LockInv
<1>2. CASE UNCHANGED vars
  BY <1>2 DEF vars, LockInv, TypeOK, WaitPlaces, WaitPlace, OneOwner, HeldBit, ReadersExclude,
       CountIsAccurate, CountedSet, WaiterListIsExact, ScanInList, Owns, Granted, Parked,
       Reads, Counted
<1>3. CASE Next
  <2>1. PICK t \in Threads : Calls(t) \/ Runs(t) \/ Disturbed(t)
    BY <1>3 DEF Next
  <2>2. WaitPlaces'
    BY <2>1, WaitPlacesStep
  <2>3. OneOwner' /\ HeldBit' /\ ReadersExclude'
    BY <2>1, OwnerStep
  <2>4. CountIsAccurate'
    BY <2>1, CountStep
  <2>5. WaiterListIsExact' /\ ScanInList'
    BY <2>1, ListStep
  <2> QED BY <1>1, <2>2, <2>3, <2>4, <2>5 DEF LockInv
<1> QED BY <1>2, <1>3

(* The inductive invariant behind the theorems below: ownership of the lock,
   word, list and the places of the threads in lock(), unlock() and wait()
   agree at all times. *)
THEOREM LockInvariant == Spec => []LockInv
  BY InitLock, NextLock, PTL DEF Spec

(* The word, the queue of waiters and all local variables keep their types;
   in particular the count of readers never goes below zero. *)
THEOREM TypeCorrect == Spec => []TypeOK
<1>1. LockInv => TypeOK
  BY DEF LockInv
<1> QED BY <1>1, LockInvariant, PTL

(* Readers/writer exclusion, for any number of threads. *)
THEOREM Exclusion == Spec => []MutualExclusion
<1>1. LockInv => MutualExclusion
  BY DEF LockInv, OneOwner, HeldBit, ReadersExclude, MutualExclusion
<1> QED BY <1>1, LockInvariant, PTL

(* The futex word tells the truth: the held bit and the count of readers. *)
THEOREM WordCorrect == Spec => []WordIsAccurate
<1>1. LockInv => WordIsAccurate
  BY DEF LockInv, HeldBit, CountIsAccurate, CountedSet, WordIsAccurate
<1> QED BY <1>1, LockInvariant, PTL

(* The list of Waiter records is exactly the threads inside wait(). *)
THEOREM ListCorrect == Spec => []WaiterListIsExact
<1>1. LockInv => WaiterListIsExact
  BY DEF LockInv
<1> QED BY <1>1, LockInvariant, PTL

----------------------------------------------------------------------------
(* Nobody sleeps through a wakeup, in lock() or in wait() *)

(* What a thread in lock() has seen of the word before it asks the kernel to
   put it to sleep on that word. *)
SeenWords ==
  \A t \in Threads :
    /\ pc[t] = "xRequest" => seen[t] # Free /\ ~seen[t].requested
    /\ pc[t] = "xWait" => seen[t].requested
    /\ pc[t] = "sWait" => seen[t].held

(* There is somebody who will see the request bit: the holder, a reader, or a
   reader on its way out. *)
RequestIsHeard ==
  futex.requested => \/ futex.held \/ futex.count > 0
                     \/ \E u \in Threads : pc[u] = "sCas"

(* A waiter whose condition holds during unlock() is still to be looked at. *)
ScannedAreNotReady ==
  \A u, v \in Threads :
    /\ pc[u] \in Unlocking
    /\ inWait[v] /\ waiter[v].futex = 0
    /\ checkPredicate(v)
    => pc[u] = "scan" /\ v # u /\ \E i \in 1..Len(rest[u]) : rest[u][i] = v

WakeInv ==
  /\ LockInv
  /\ SeenWords /\ RequestIsHeard /\ SleepersAreAnnounced
  /\ ScannedAreNotReady /\ WaitersAreNotReady

(* The fields of the words an action may store. *)
LEMMA WordFacts ==
  ASSUME NEW h, NEW r, NEW n
  PROVE  Word(h, r, n).held = h /\ Word(h, r, n).requested = r /\ Word(h, r, n).count = n
  BY DEF Word

(* The named words. *)
LEMMA NamedWords ==
  /\ Free.held = FALSE /\ Free.requested = FALSE /\ Free.count = 0
  /\ Held.held = TRUE /\ Held.requested = FALSE /\ Held.count = 0
  /\ OnlyRequested.held = FALSE /\ OnlyRequested.requested = TRUE /\ OnlyRequested.count = 0
  BY DEF Free, Held, OnlyRequested, Word

(* A word is determined by its fields. *)
LEMMA WordIs ==
  ASSUME NEW w \in Words
  PROVE  /\ ~w.held /\ ~w.requested /\ w.count = 0 => w = Free
         /\ ~w.held /\ w.requested /\ w.count = 0 => w = OnlyRequested
  BY DEF Words, Free, OnlyRequested, Word

(* What a locker has seen stays what it was seen to be. *)
LEMMA SeenStep ==
  ASSUME WakeInv, NEW t \in Threads, Calls(t) \/ Runs(t) \/ Disturbed(t)
  PROVE  SeenWords'
<1>a. TypeOK /\ SeenWords /\ futex \in Words
  BY DEF WakeInv, LockInv, TypeOK
<1>b. futex.held \in BOOLEAN /\ futex.requested \in BOOLEAN /\ futex.count \in Nat
  BY <1>a, WordFields
<1> SUFFICES ASSUME NEW u \in Threads
             PROVE  /\ pc'[u] = "xRequest" => seen'[u] # Free /\ ~seen'[u].requested
                    /\ pc'[u] = "xWait" => seen'[u].requested
                    /\ pc'[u] = "sWait" => seen'[u].held
  BY DEF SeenWords
<1> USE <1>a, PlaceSets DEF SeenWords, TypeOK, Goto, Observe, Forget, SetDeadline, locals
<1>1. CASE EnterWait(t)
  BY <1>1 DEF EnterWait, Wait
<1>2. CASE StepInLock(t)
  <2>1. ASSUME NEW timeout \in BOOLEAN, LockExclusive(t, timeout)
        PROVE  seen' = seen /\ pc'[t] = "xTry" /\ \A v \in Threads \ {t} : pc'[v] = pc[v]
    BY <2>1 DEF LockExclusive
  <2>2. CASE Contend(t)
    BY <2>2 DEF Contend
  <2>3. CASE RequestExclusive(t)
    <3>1. Word(futex.held, TRUE, futex.count).requested
      BY DEF Word
    <3>2. \/ pc'[t] = "xTry"
          \/ pc'[t] = "xWait" /\ seen'[t] = Word(futex.held, TRUE, futex.count)
      BY <2>3 DEF RequestExclusive
    <3>3. \A v \in Threads \ {t} : pc'[v] = pc[v] /\ seen'[v] = seen[v]
      BY <2>3 DEF RequestExclusive
    <3> QED BY <3>1, <3>2, <3>3
  <2>4. CASE FutexWait(t) \/ SpuriousWake(t) \/ LockTimesOut(t)
    BY <2>4 DEF FutexWait, SpuriousWake, LockTimesOut
  <2> QED BY <1>2, <2>1, <2>2, <2>3, <2>4 DEF StepInLock
<1>3. CASE StepUnlocking(t)
  BY <1>3 DEF StepUnlocking, Mutate, UnlockExclusive, SkipWaiter, ScanDone
<1>4. CASE StepShared(t)
  <2>1. ASSUME NEW timeout \in BOOLEAN, LockShared(t, timeout)
        PROVE  /\ pc'[t] \in {"sWait", "read"}
               /\ pc'[t] = "sWait" => seen'[t].held
               /\ \A v \in Threads \ {t} : pc'[v] = pc[v] /\ seen'[v] = seen[v]
    <3>1. Word(futex.held, futex.requested, futex.count + 1).held = futex.held
      BY WordFacts
    <3> QED BY <2>1, <3>1 DEF LockShared
  <2>2. CASE ReloadShared(t)
    BY <2>2 DEF ReloadShared
  <2>3. CASE UnlockShared(t) \/ ClearRequest(t)
    BY <2>3 DEF UnlockShared, ClearRequest
  <2> QED BY <1>4, <2>1, <2>2, <2>3 DEF StepShared
<1>5. CASE StepWaking(t) \/ StepInWait(t)
  <2>1. CASE WakeAll(t)
    BY <2>1 DEF WakeAll, AfterUnlock
  <2>2. CASE WakeWaiter(t)
    BY <2>2 DEF WakeWaiter, AfterUnlock
  <2>3. CASE StepInWait(t)
    BY <2>3 DEF StepInWait, SleepInWait, SpuriousWakeInWait, WaitTimesOut
  <2> QED BY <1>5, <2>1, <2>2, <2>3 DEF StepWaking
<1>6. CASE Acquire(t) \/ GrantWaiter(t) \/ ReleaseExclusive(t)
  BY <1>6 DEF Acquire, GrantWaiter, ReleaseExclusive, AfterUnlock
<1>7. CASE ClaimOwnWakeup(t) \/ CheckWakeup(t)
  BY <1>7 DEF ClaimOwnWakeup, CheckWakeup
<1> QED BY StepCases, <1>1, <1>2, <1>3, <1>4, <1>5, <1>6, <1>7

(* Most steps put nobody to sleep on the word and leave the word alone. *)
LEMMA AnnouncedUnchanged ==
  ASSUME RequestIsHeard, SleepersAreAnnounced, futex' = futex,
         \A u \in Threads : /\ pc'[u] \in {"xAsleep", "sAsleep"} => pc'[u] = pc[u]
                            /\ pc[u] \in {"wakeAll", "sCas"} => pc'[u] = pc[u]
  PROVE  RequestIsHeard' /\ SleepersAreAnnounced'
<1>1. RequestIsHeard'
  BY DEF RequestIsHeard
<1>2. SleepersAreAnnounced'
  BY DEF SleepersAreAnnounced
<1> QED BY <1>1, <1>2

(* Whoever sleeps in lock() is announced in the word after a step, too. *)
LEMMA AnnouncedStep ==
  ASSUME WakeInv, NEW t \in Threads, Calls(t) \/ Runs(t) \/ Disturbed(t)
  PROVE  RequestIsHeard' /\ SleepersAreAnnounced'
<1>a. /\ TypeOK /\ SeenWords /\ RequestIsHeard /\ SleepersAreAnnounced
      /\ futex \in Words
  BY DEF WakeInv, LockInv, TypeOK
<1>b. futex.held \in BOOLEAN /\ futex.requested \in BOOLEAN /\ futex.count \in Nat
  BY <1>a, WordFields
<1>c. /\ ~futex.held /\ ~futex.requested /\ futex.count = 0 => futex = Free
      /\ ~futex.held /\ futex.requested /\ futex.count = 0 => futex = OnlyRequested
  BY <1>a, WordIs
<1> USE <1>a, PlaceSets DEF TypeOK, Goto, Observe, Forget, SetDeadline, locals
<1> DEFINE Quiet ==
      /\ futex' = futex
      /\ \A u \in Threads : /\ pc'[u] \in {"xAsleep", "sAsleep"} => pc'[u] = pc[u]
                            /\ pc[u] \in {"wakeAll", "sCas"} => pc'[u] = pc[u]
<1>1. CASE Quiet
  BY <1>1, AnnouncedUnchanged
<1>2. CASE EnterWait(t)
  <2>1. Quiet
    BY <1>2 DEF EnterWait, Wait
  <2> QED BY <1>1, <2>1
<1>3. CASE StepInLock(t)
  <2>1. CASE (\E timeout \in BOOLEAN : LockExclusive(t, timeout)) \/ Contend(t)
               \/ SpuriousWake(t) \/ LockTimesOut(t)
    <3>1. Quiet
      BY <2>1 DEF LockExclusive, Contend, SpuriousWake, LockTimesOut
    <3> QED BY <1>1, <3>1
  <2>2. CASE RequestExclusive(t)
    <3>1. CASE futex = seen[t]
      <4>1. /\ futex' = Word(futex.held, TRUE, futex.count)
            /\ pc[t] = "xRequest" /\ pc' = [pc EXCEPT ![t] = "xWait"]
        BY <2>2, <3>1 DEF RequestExclusive
      <4>2. futex'.held = futex.held /\ futex'.requested /\ futex'.count = futex.count
        BY <4>1 DEF Word
      <4>3. futex # Free /\ ~futex.requested
        BY <3>1, <4>1 DEF SeenWords
      <4>4. futex.held \/ futex.count > 0
        BY <1>b, <1>c, <4>3
      <4> QED BY <4>1, <4>2, <4>4 DEF RequestIsHeard, SleepersAreAnnounced
    <3>2. CASE futex # seen[t]
      <4>1. Quiet
        BY <2>2, <3>2 DEF RequestExclusive
      <4> QED BY <1>1, <4>1
    <3> QED BY <3>1, <3>2
  <2>3. CASE FutexWait(t)
    <3>1. futex' = futex
      BY <2>3 DEF FutexWait
    <3>2. \A u \in Threads : pc[u] \in {"wakeAll", "sCas"} => pc'[u] = pc[u]
      BY <2>3 DEF FutexWait
    <3>3. RequestIsHeard'
      BY <3>1, <3>2 DEF RequestIsHeard
    <3>4. \A u \in Threads \ {t} : pc'[u] = pc[u]
      BY <2>3 DEF FutexWait
    <3>5. /\ pc'[t] = "xAsleep" => futex.requested
          /\ pc'[t] = "sAsleep" => futex.held
      BY <2>3 DEF FutexWait, SeenWords
    <3> QED BY <3>1, <3>2, <3>3, <3>4, <3>5 DEF SleepersAreAnnounced, RequestIsHeard
  <2> QED BY <1>3, <2>1, <2>2, <2>3 DEF StepInLock
<1>4. CASE StepUnlocking(t)
  <2>1. Quiet
    BY <1>4 DEF StepUnlocking, Mutate, UnlockExclusive, SkipWaiter, ScanDone
  <2> QED BY <1>1, <2>1
<1>5. CASE StepShared(t)
  <2>1. ASSUME NEW timeout \in BOOLEAN, LockShared(t, timeout)
        PROVE  RequestIsHeard' /\ SleepersAreAnnounced'
    <3>1. /\ futex' = Word(futex.held, futex.requested, futex.count + 1)
          /\ \A u \in Threads \ {t} : pc'[u] = pc[u]
          /\ pc[t] = "idle" /\ pc'[t] \in {"sWait", "read"}
      BY <2>1 DEF LockShared
    <3>2. /\ futex'.held = futex.held /\ futex'.requested = futex.requested
          /\ futex'.count = futex.count + 1
      BY <3>1, WordFacts
    <3>3. futex'.count > 0
      BY <1>b, <3>2
    <3> QED BY <3>1, <3>2, <3>3 DEF RequestIsHeard, SleepersAreAnnounced
  <2>2. CASE ReloadShared(t)
    <3>1. Quiet
      BY <2>2 DEF ReloadShared
    <3> QED BY <1>1, <3>1
  <2>3. CASE UnlockShared(t)
    <3>1. /\ futex' = Word(futex.held, futex.requested, futex.count - 1)
          /\ \A u \in Threads \ {t} : pc'[u] = pc[u]
          /\ pc[t] \in {"read", "sTimedOut"}
          /\ pc'[t] = IF futex' = OnlyRequested THEN "sCas" ELSE "idle"
      BY <2>3 DEF UnlockShared
    <3>2. /\ futex'.held = futex.held /\ futex'.requested = futex.requested
          /\ futex'.count = futex.count - 1
      BY <3>1, WordFacts
    <3>3. futex' \in Words /\ futex'.count \in Nat
      BY NextLock, WordFields DEF WakeInv, LockInv, Next
    <3>4. futex'.requested /\ ~futex'.held /\ ~(futex'.count > 0) => pc'[t] = "sCas"
      BY <3>1, <3>3, WordIs
    <3>5. RequestIsHeard'
      BY <3>4 DEF RequestIsHeard
    <3> QED BY <3>1, <3>2, <3>5 DEF SleepersAreAnnounced, RequestIsHeard
  <2>4. CASE ClearRequest(t)
    <3>1. CASE futex = OnlyRequested
      <4>1. ~futex'.requested /\ pc'[t] = "wakeAll"
        BY <2>4, <3>1, NamedWords DEF ClearRequest
      <4> QED BY <4>1 DEF RequestIsHeard, SleepersAreAnnounced
    <3>2. CASE futex # OnlyRequested
      <4>1. /\ futex' = futex /\ pc[t] = "sCas" /\ pc'[t] = "idle"
            /\ \A u \in Threads \ {t} : pc'[u] = pc[u]
        BY <2>4, <3>2 DEF ClearRequest
      <4>2. futex.requested => futex.held \/ futex.count > 0
        BY <1>b, <1>c, <3>2
      <4> QED BY <4>1, <4>2 DEF RequestIsHeard, SleepersAreAnnounced
    <3> QED BY <3>1, <3>2
  <2> QED BY <1>5, <2>1, <2>2, <2>3, <2>4 DEF StepShared
<1>6. CASE WakeAll(t)
  <2>1. futex' = futex /\ \A u \in Threads : pc[u] = "sCas" => pc'[u] = "sCas"
    BY <1>6 DEF WakeAll
  <2>2. \A u \in Threads : pc'[u] \notin {"xAsleep", "sAsleep"}
    BY <1>6 DEF WakeAll, AfterUnlock
  <2> QED BY <2>1, <2>2 DEF RequestIsHeard, SleepersAreAnnounced
<1>7. CASE WakeWaiter(t)
  <2>1. Quiet
    BY <1>7 DEF WakeWaiter, AfterUnlock
  <2> QED BY <1>1, <2>1
<1>8. CASE StepInWait(t) \/ ClaimOwnWakeup(t) \/ CheckWakeup(t) \/ GrantWaiter(t)
  <2>1. Quiet
    BY <1>8 DEF StepInWait, SleepInWait, SpuriousWakeInWait, WaitTimesOut, ClaimOwnWakeup,
         CheckWakeup, GrantWaiter
  <2> QED BY <1>1, <2>1
<1>9. CASE Acquire(t)
  <2>1. /\ futex = Free /\ futex' = Held /\ pc[t] = "xTry" /\ pc'[t] = "write"
        /\ \A u \in Threads \ {t} : pc'[u] = pc[u]
    BY <1>9 DEF Acquire
  <2>2. futex'.held /\ ~futex.requested /\ ~futex.held
    BY <2>1, NamedWords
  <2> QED BY <2>1, <2>2 DEF RequestIsHeard, SleepersAreAnnounced
<1>10. CASE ReleaseExclusive(t)
  <2>1. /\ ~futex'.requested
        /\ pc[t] = "release" /\ \A u \in Threads \ {t} : pc'[u] = pc[u]
        /\ pc'[t] = IF futex.requested \/ futex.count > 0 THEN "wakeAll" ELSE AfterUnlock(t)
    BY <1>10 DEF ReleaseExclusive, Word
  <2>2. CASE pc'[t] = "wakeAll"
    BY <2>1, <2>2 DEF RequestIsHeard, SleepersAreAnnounced
  <2>3. CASE pc'[t] # "wakeAll"
    <3>1. ~futex.requested /\ ~(futex.count > 0)
      BY <2>1, <2>3
    <3>2. \A u \in Threads : pc[u] # "sAsleep"
      BY <3>1, CountIsPositive DEF Counted, WakeInv, LockInv
    <3> QED BY <2>1, <3>1, <3>2 DEF RequestIsHeard, SleepersAreAnnounced, AfterUnlock
  <2> QED BY <2>2, <2>3
<1> QED BY StepCases, <1>2, <1>3, <1>4, <1>5, <1>6, <1>7, <1>8, <1>9, <1>10 DEF StepWaking

(* What is left of a sequence of threads without its head. *)
LEMMA InTail ==
  ASSUME NEW s \in Seq(Threads), s # <<>>, NEW v \in Threads, v # Head(s),
         \E i \in 1..Len(s) : s[i] = v
  PROVE  \E i \in 1..Len(Tail(s)) : Tail(s)[i] = v
<1>1. PICK i \in 1..Len(s) : s[i] = v
  OBVIOUS
<1>2. i # 1
  BY <1>1
<1>3. i - 1 \in 1..Len(Tail(s)) /\ Tail(s)[i - 1] = v
  BY <1>1, <1>2
<1> QED BY <1>3

(* Only the holder changes the value, adds a record or starts a scan. *)
LEMMA ReadyUnchanged ==
  ASSUME ScannedAreNotReady, WaitersAreNotReady,
         value' = value, futex'.held = futex.held \/ futex'.held = TRUE,
         \A v \in Threads : inWait'[v] /\ waiter'[v].futex = 0 =>
                              inWait[v] /\ waiter'[v] = waiter[v],
         \A u \in Threads : pc'[u] \in Unlocking => pc'[u] = pc[u] /\ rest'[u] = rest[u]
  PROVE  ScannedAreNotReady' /\ WaitersAreNotReady'
<1>1. \A v \in Threads : inWait'[v] /\ waiter'[v].futex = 0 =>
        /\ inWait[v] /\ waiter[v].futex = 0
        /\ checkPredicate(v)' <=> checkPredicate(v)
  BY DEF checkPredicate, Verdict
<1>2. ScannedAreNotReady'
  BY <1>1 DEF ScannedAreNotReady
<1>3. WaitersAreNotReady'
  BY <1>1 DEF WaitersAreNotReady
<1> QED BY <1>2, <1>3

(* At most one thread, the holder, goes through the list. *)
LEMMA ScannedByOne ==
  ASSUME NEW t \in Threads,
         \A u \in Threads \ {t} : pc'[u] \notin Unlocking,
         \A v \in Threads :
           inWait'[v] /\ waiter'[v].futex = 0 /\ checkPredicate(v)' =>
             pc'[t] = "scan" /\ v # t /\ \E i \in 1..Len(rest'[t]) : rest'[t][i] = v
  PROVE  ScannedAreNotReady'
  BY DEF ScannedAreNotReady

(* unlock() passes over no waiter whose condition holds, whatever happens
   between the steps of its scan. *)
LEMMA ReadyStep ==
  ASSUME WakeInv, NEW t \in Threads, Calls(t) \/ Runs(t) \/ Disturbed(t)
  PROVE  ScannedAreNotReady' /\ WaitersAreNotReady'
<1>a. /\ TypeOK /\ LockInv /\ ScannedAreNotReady /\ WaitersAreNotReady /\ OneOwner /\ HeldBit
      /\ WaitPlace(t) /\ futex \in Words
  BY DEF WakeInv, LockInv, TypeOK, WaitPlaces
<1>b. LockInv' /\ TypeOK' /\ HeldBit'
  BY NextLock DEF WakeInv, LockInv, Next
<1> USE <1>a, PlaceSets DEF TypeOK, Goto, Observe, Forget, SetDeadline, locals, waitVars
<1> DEFINE Quiet ==
      /\ value' = value
      /\ futex'.held = futex.held \/ futex'.held = TRUE
      /\ \A v \in Threads : inWait'[v] /\ waiter'[v].futex = 0 =>
                              inWait[v] /\ waiter'[v] = waiter[v]
      /\ \A u \in Threads : pc'[u] \in Unlocking => pc'[u] = pc[u] /\ rest'[u] = rest[u]
<1>1. CASE Quiet
  BY <1>1, ReadyUnchanged
<1>2. CASE EnterWait(t)
  <2>1. PICK p \in Predicates, timeout \in BOOLEAN : Wait(t, p, timeout)
    BY <1>2 DEF EnterWait
  <2>2. ~inWait[t]
    BY <2>1 DEF Wait, WaitPlace
  <2>3. WaiterListIsExact'
    BY <2>1, <2>2, AddWaiterExact DEF Wait
  <2>4. Owns(t) /\ \A u \in Threads \ {t} : pc[u] \notin Unlocking
    BY <2>1 DEF Wait, OneOwner, Owns
  <2>5. \A u \in Threads \ {t} : pc'[u] \notin Unlocking
    BY <2>1, <2>4 DEF Wait
  <2>6. pc'[t] = "scan" /\ rest'[t] = waiters'
    BY <2>1 DEF Wait
  <2>7. ~checkPredicate(t)'
    BY <2>1 DEF Wait, addWaiter, Waiter, checkPredicate, Verdict
  <2>8. ScannedAreNotReady'
    <3>1. \A v \in Threads :
            inWait'[v] /\ waiter'[v].futex = 0 /\ checkPredicate(v)' =>
              pc'[t] = "scan" /\ v # t /\ \E i \in 1..Len(rest'[t]) : rest'[t][i] = v
      BY <2>3, <2>6, <2>7 DEF WaiterListIsExact
    <3> QED BY <2>5, <3>1, ScannedByOne
  <2>9. futex.held /\ futex' = futex
    BY <2>1, <2>4 DEF HeldBit, Wait
  <2> QED BY <2>8, <2>9 DEF WaitersAreNotReady
<1>3. CASE StepInLock(t)
  <2>1. futex' = futex \/ futex' = Word(futex.held, TRUE, futex.count)
    BY <1>3 DEF StepInLock, LockExclusive, Contend, RequestExclusive, FutexWait,
         SpuriousWake, LockTimesOut
  <2>2. futex'.held = futex.held
    BY <2>1 DEF Word
  <2>3. /\ value' = value /\ inWait' = inWait /\ waiter' = waiter /\ rest' = rest
        /\ \A u \in Threads : pc'[u] \in Unlocking => pc'[u] = pc[u]
    BY <1>3 DEF StepInLock, LockExclusive, Contend, RequestExclusive, FutexWait,
         SpuriousWake, LockTimesOut
  <2> QED BY <1>1, <2>2, <2>3
<1>4. CASE StepShared(t)
  <2>1. \/ futex' = futex \/ futex' = Word(futex.held, futex.requested, futex.count + 1)
        \/ futex' = Word(futex.held, futex.requested, futex.count - 1)
        \/ futex = OnlyRequested /\ futex' = Free
    BY <1>4 DEF StepShared, LockShared, ReloadShared, UnlockShared, ClearRequest
  <2>2. futex'.held = futex.held
    <3>1. OnlyRequested.held = Free.held
      BY NamedWords
    <3>2. \A n : Word(futex.held, futex.requested, n).held = futex.held
      BY WordFacts
    <3> QED BY <2>1, <3>1, <3>2
  <2>3. /\ value' = value /\ inWait' = inWait /\ waiter' = waiter /\ rest' = rest
        /\ \A u \in Threads : pc'[u] \in Unlocking => pc'[u] = pc[u]
    BY <1>4 DEF StepShared, LockShared, ReloadShared, UnlockShared, ClearRequest
  <2> QED BY <1>1, <2>2, <2>3
<1>5. CASE StepWaking(t) \/ StepInWait(t)
  <2>1. /\ futex' = futex /\ value' = value /\ inWait' = inWait /\ waiter' = waiter
        /\ \A u \in Threads : pc'[u] \in Unlocking => pc'[u] = pc[u] /\ rest'[u] = rest[u]
    <3>1. CASE WakeAll(t)
      BY <3>1 DEF WakeAll, AfterUnlock
    <3>2. CASE WakeWaiter(t)
      BY <3>2 DEF WakeWaiter, AfterUnlock
    <3>3. CASE StepInWait(t)
      BY <3>3 DEF StepInWait, SleepInWait, SpuriousWakeInWait, WaitTimesOut
    <3> QED BY <1>5, <3>1, <3>2, <3>3 DEF StepWaking
  <2> QED BY <1>1, <2>1
<1>6. CASE Acquire(t)
  <2>1. futex'.held = TRUE
    BY <1>6, NamedWords DEF Acquire
  <2>2. \A v \in Threads : inWait'[v] => inWait[v] /\ waiter'[v] = waiter[v]
    BY <1>6 DEF Acquire, removeWaiter
  <2>3. /\ value' = value /\ rest' = rest
        /\ \A u \in Threads : pc'[u] \in Unlocking => pc'[u] = pc[u]
    BY <1>6 DEF Acquire
  <2> QED BY <1>1, <2>1, <2>2, <2>3
<1>7. CASE ClaimOwnWakeup(t)
  <2>1. /\ futex' = futex /\ value' = value /\ inWait' = inWait /\ rest' = rest
        /\ \A u \in Threads : pc'[u] \in Unlocking => pc'[u] = pc[u]
        /\ \A v \in Threads \ {t} : waiter'[v] = waiter[v]
    BY <1>7 DEF ClaimOwnWakeup
  <2>2. waiter'[t].futex = 1
    BY <1>7 DEF ClaimOwnWakeup, Signalled
  <2> QED BY <1>1, <2>1, <2>2
<1>8. CASE CheckWakeup(t)
  <2>1. /\ futex' = futex /\ value' = value /\ rest' = rest
        /\ \A u \in Threads : pc'[u] \in Unlocking => pc'[u] = pc[u]
        /\ \A v \in Threads : inWait'[v] => inWait[v] /\ waiter'[v] = waiter[v]
    BY <1>8 DEF CheckWakeup, removeWaiter
  <2> QED BY <1>1, <2>1
<1>9. ASSUME NEW v \in Values, Mutate(t, v)
      PROVE  ScannedAreNotReady' /\ WaitersAreNotReady'
  <2>1. Owns(t) /\ \A u \in Threads \ {t} : pc[u] \notin Unlocking
    BY <1>9 DEF Mutate, OneOwner, Owns
  <2>2. \A u \in Threads : pc'[u] \notin Unlocking
    BY <1>9, <2>1 DEF Mutate
  <2>3. futex.held /\ futex' = futex
    BY <1>9, <2>1 DEF HeldBit, Mutate
  <2> QED BY <2>2, <2>3 DEF ScannedAreNotReady, WaitersAreNotReady
<1>10. CASE UnlockExclusive(t)
  <2>1. Owns(t) /\ \A u \in Threads \ {t} : pc'[u] \notin Unlocking
    BY <1>10 DEF UnlockExclusive, OneOwner, Owns
  <2>2. ~inWait[t] /\ inWait' = inWait
    BY <1>10 DEF UnlockExclusive, WaitPlace
  <2>3. WaiterListIsExact /\ rest'[t] = waiters /\ pc'[t] = "scan"
    BY <1>10 DEF UnlockExclusive, LockInv
  <2>4. ScannedAreNotReady'
    <3>1. \A v \in Threads :
            inWait'[v] /\ waiter'[v].futex = 0 /\ checkPredicate(v)' =>
              pc'[t] = "scan" /\ v # t /\ \E i \in 1..Len(rest'[t]) : rest'[t][i] = v
      BY <2>2, <2>3 DEF WaiterListIsExact
    <3> QED BY <2>1, <3>1, ScannedByOne
  <2>5. futex.held /\ futex' = futex
    BY <1>10, <2>1 DEF HeldBit, UnlockExclusive
  <2> QED BY <2>4, <2>5 DEF WaitersAreNotReady
<1>11. CASE SkipWaiter(t) \/ GrantWaiter(t)
  <2>a. PICK h \in Threads : h = Head(rest[t])
    BY <1>11, HeadOfScan DEF SkipWaiter, GrantWaiter
  <2>1. /\ pc[t] = "scan" /\ rest[t] # <<>> /\ value' = value /\ inWait' = inWait
        /\ futex' = futex
        /\ \A v \in Threads \ {h} : waiter'[v] = waiter[v]
        /\ \A u \in Threads \ {t} : pc'[u] = pc[u] /\ rest'[u] = rest[u]
    BY <1>11, <2>a DEF SkipWaiter, GrantWaiter
  <2>2. Owns(t) /\ \A u \in Threads \ {t} : pc'[u] \notin Unlocking
    BY <2>1 DEF OneOwner, Owns
  <2>3. futex.held
    BY <2>2 DEF HeldBit
  <2>4. WaitersAreNotReady'
    BY <2>1, <2>3 DEF WaitersAreNotReady
  <2>5. CASE pc'[t] \in Unlocking
    <3>1. pc'[t] = "scan" /\ rest'[t] = Tail(rest[t])
      BY <1>11, <2>1, <2>5 DEF SkipWaiter, GrantWaiter
    <3>2. \A v \in Threads \ {h} : checkPredicate(v)' <=> checkPredicate(v)
      BY <2>1 DEF checkPredicate, Verdict
    <3>3. \/ h = t /\ waiter' = waiter
          \/ ~checkPredicate(h)'
          \/ waiter'[h].futex = 1
      <4>1. CASE SkipWaiter(t)
        BY <2>a, <4>1 DEF SkipWaiter, checkPredicate, Verdict
      <4>2. CASE GrantWaiter(t)
        BY <2>a, <4>2 DEF GrantWaiter, Signalled
      <4> QED BY <1>11, <4>1, <4>2
    <3>4. ASSUME NEW v \in Threads, inWait'[v], waiter'[v].futex = 0, checkPredicate(v)'
          PROVE  v # t /\ \E i \in 1..Len(rest'[t]) : rest'[t][i] = v
      <4>1. CASE v = h
        <5>1. h = t /\ waiter' = waiter
          BY <3>3, <3>4, <4>1
        <5>2. checkPredicate(t)
          BY <2>1, <3>4, <4>1, <5>1 DEF checkPredicate, Verdict
        <5> QED BY <2>1, <3>4, <4>1, <5>1, <5>2 DEF ScannedAreNotReady
      <4>2. CASE v # h
        <5>1. inWait[v] /\ waiter[v].futex = 0 /\ checkPredicate(v)
          BY <2>1, <3>2, <3>4, <4>2
        <5>2. v # t /\ \E i \in 1..Len(rest[t]) : rest[t][i] = v
          BY <2>1, <5>1 DEF ScannedAreNotReady
        <5>3. rest[t] \in Seq(Threads) /\ rest[t] # <<>> /\ v # Head(rest[t])
          BY <2>a, <2>1, <4>2
        <5>4. \E i \in 1..Len(Tail(rest[t])) : Tail(rest[t])[i] = v
          BY <5>2, <5>3, InTail
        <5> QED BY <3>1, <5>2, <5>4
      <4> QED BY <4>1, <4>2
    <3>5. ScannedAreNotReady'
      <4>1. \A v \in Threads :
              inWait'[v] /\ waiter'[v].futex = 0 /\ checkPredicate(v)' =>
                pc'[t] = "scan" /\ v # t /\ \E i \in 1..Len(rest'[t]) : rest'[t][i] = v
        BY <3>1, <3>4
      <4> QED BY <2>2, <4>1, ScannedByOne
    <3> QED BY <2>4, <3>5
  <2>6. CASE pc'[t] \notin Unlocking
    BY <2>2, <2>4, <2>6 DEF ScannedAreNotReady
  <2> QED BY <2>5, <2>6
<1>12. CASE ScanDone(t)
  <2>1. /\ pc[t] = "scan" /\ rest[t] = <<>> /\ pc'[t] = "release"
        /\ futex' = futex /\ value' = value /\ inWait' = inWait /\ waiter' = waiter
        /\ \A u \in Threads \ {t} : pc'[u] = pc[u] /\ rest'[u] = rest[u]
    BY <1>12 DEF ScanDone
  <2>2. \A v \in Threads : checkPredicate(v)' <=> checkPredicate(v)
    BY <2>1 DEF checkPredicate, Verdict
  <2>3. \A v \in Threads : inWait[v] /\ waiter[v].futex = 0 => ~checkPredicate(v)
    BY <2>1 DEF ScannedAreNotReady
  <2> QED BY <2>1, <2>2, <2>3 DEF ScannedAreNotReady, WaitersAreNotReady
<1>13. CASE ReleaseExclusive(t)
  <2>1. /\ pc[t] = "release" /\ value' = value /\ inWait' = inWait /\ waiter' = waiter
        /\ rest' = rest /\ \A u \in Threads \ {t} : pc'[u] = pc[u]
    BY <1>13 DEF ReleaseExclusive
  <2>2. \A v \in Threads : checkPredicate(v)' <=> checkPredicate(v)
    BY <2>1 DEF checkPredicate, Verdict
  <2>3. \A v \in Threads : inWait[v] /\ waiter[v].futex = 0 => ~checkPredicate(v)
    BY <2>1 DEF ScannedAreNotReady
  <2> QED BY <2>1, <2>2, <2>3 DEF ScannedAreNotReady, WaitersAreNotReady
<1> QED BY StepCases, <1>2, <1>3, <1>4, <1>5, <1>6, <1>7, <1>8, <1>9, <1>10, <1>11, <1>12,
           <1>13 DEF StepUnlocking

(* The initial state satisfies the invariant. *)
LEMMA InitWake == Init => WakeInv
<1> SUFFICES ASSUME Init PROVE WakeInv OBVIOUS
<1>1. \A t \in Threads : pc[t] = "idle" /\ ~inWait[t]
  BY DEF Init
<1>2. ~futex.requested
  BY NamedWords DEF Init
<1>3. SeenWords /\ RequestIsHeard /\ SleepersAreAnnounced
  BY <1>1, <1>2 DEF SeenWords, RequestIsHeard, SleepersAreAnnounced
<1>4. ScannedAreNotReady /\ WaitersAreNotReady
  BY <1>1, PlaceSets DEF ScannedAreNotReady, WaitersAreNotReady
<1> QED BY <1>3, <1>4, InitLock DEF WakeInv

(* WakeInv is inductive. *)
LEMMA NextWake == WakeInv /\ [Next]_vars => WakeInv'
<1> SUFFICES ASSUME WakeInv, [Next]_vars PROVE WakeInv'
  OBVIOUS
<1>1. LockInv'
  BY NextLock DEF WakeInv
<1>2. CASE UNCHANGED vars
  <2>1. SeenWords' /\ RequestIsHeard' /\ SleepersAreAnnounced'
    BY <1>2 DEF vars, WakeInv, SeenWords, RequestIsHeard, SleepersAreAnnounced
  <2>2. ScannedAreNotReady' /\ WaitersAreNotReady'
    BY <1>2 DEF vars, WakeInv, ScannedAreNotReady, WaitersAreNotReady, checkPredicate, Verdict
  <2> QED BY <1>1, <2>1, <2>2 DEF WakeInv
<1>3. CASE Next
  <2>1. PICK t \in Threads : Calls(t) \/ Runs(t) \/ Disturbed(t)
    BY <1>3 DEF Next
  <2> QED BY <1>1, <2>1, SeenStep, AnnouncedStep, ReadyStep DEF WakeInv
<1> QED BY <1>2, <1>3

(* Who sleeps is announced and who is ready is found: the inductive invariant
   behind the next two theorems. *)
THEOREM WakeInvariant == Spec => []WakeInv
  BY InitWake, NextWake, PTL DEF Spec

(* No lost wakeup in lock(): whoever sleeps on the futex word is announced in
   it to a thread that will unlock, or about to be woken (mutex.cc,
   Mutex::lock and Mutex::unlock). *)
THEOREM NoLostWakeup == Spec => []SleepersAreAnnounced
<1>1. WakeInv => SleepersAreAnnounced
  BY DEF WakeInv
<1> QED BY <1>1, WakeInvariant, PTL

(* unlock() never leaves the lock free while the condition of a waiter holds
   (mutex.cc, Mutex::unlock, the walk over the waiters). *)
THEOREM NobodyOverlooked == Spec => []WaitersAreNotReady
<1>1. WakeInv => WaitersAreNotReady
  BY DEF WakeInv
<1> QED BY <1>1, WakeInvariant, PTL

----------------------------------------------------------------------------
(* The futex mutex implements GuardedValue *)

(* An exception of a condition is kept for the waiter together with the lock. *)
ExceptionIsGranted == \A t \in Threads : waiter[t].exception => waiter[t].futex = 1

GuardInv == LockInv /\ ExceptionIsGranted

(* NoWaiter, and any record when it is linked, has no exception. *)
LEMMA FreshWaiter ==
  ASSUME NEW p \in Predicates, NEW timeout \in BOOLEAN
  PROVE  ~Waiter(p, timeout).exception
  BY DEF Waiter

(* A step keeps exceptions with the waiters that are given the lock. *)
LEMMA ExceptionStep ==
  ASSUME LockInv, ExceptionIsGranted, NEW t \in Threads, Calls(t) \/ Runs(t) \/ Disturbed(t)
  PROVE  ExceptionIsGranted'
<1>a. TypeOK
  BY DEF LockInv
<1>b. ~NoWaiter.exception
  BY FreshWaiter, PredicatesAssumption DEF NoWaiter
<1> USE <1>a DEF TypeOK, ExceptionIsGranted
<1>1. CASE waiter' = waiter
  BY <1>1
<1>2. CASE EnterWait(t)
  BY <1>2, FreshWaiter DEF EnterWait, Wait, addWaiter
<1>3. CASE StepInLock(t) \/ StepUnlocking(t) \/ StepShared(t)
  BY <1>1, <1>3 DEF StepInLock, LockExclusive, Contend, RequestExclusive, FutexWait, SpuriousWake,
       LockTimesOut, StepUnlocking, Mutate, UnlockExclusive, SkipWaiter, ScanDone, StepShared,
       LockShared, ReloadShared, UnlockShared, ClearRequest, waitVars
<1>4. CASE StepWaking(t) \/ StepInWait(t) \/ ReleaseExclusive(t)
  BY <1>1, <1>4 DEF StepWaking, WakeAll, WakeWaiter, StepInWait, SleepInWait,
       SpuriousWakeInWait, WaitTimesOut, ReleaseExclusive, waitVars
<1>5. CASE Acquire(t) \/ CheckWakeup(t)
  BY <1>b, <1>5 DEF Acquire, CheckWakeup, removeWaiter, waitVars
<1>6. CASE GrantWaiter(t)
  <2>1. PICK h \in Threads : h = Head(rest[t])
    BY <1>6, HeadOfScan DEF GrantWaiter
  <2>2. waiter'[h].futex = 1 /\ \A u \in Threads \ {h} : waiter'[u] = waiter[u]
    BY <1>6, <2>1 DEF GrantWaiter, Signalled
  <2> QED BY <2>2
<1>7. CASE ClaimOwnWakeup(t)
  <2>1. waiter'[t].futex = 1 /\ \A u \in Threads \ {t} : waiter'[u] = waiter[u]
    BY <1>7 DEF ClaimOwnWakeup, Signalled
  <2> QED BY <2>1
<1> QED BY StepCases, <1>2, <1>3, <1>4, <1>5, <1>6, <1>7

(* Roles, read off the places of the threads. *)
LEMMA RoleOf ==
  ASSUME NEW t \in Threads
  PROVE  /\ roles[t] = Role(t)
         /\ Owns(t) => roles[t] = "writer"
         /\ ~Owns(t) /\ Reads(t) => roles[t] = "reader"
         /\ ~Owns(t) /\ ~Reads(t) /\ inWait[t] => roles[t] = "waiter"
         /\ ~Owns(t) /\ ~Reads(t) /\ ~inWait[t] => roles[t] = "out"
         /\ roles[t] = "writer" => Owns(t)
         /\ roles[t] = "reader" => Reads(t)
  BY DEF roles, Role

(* While nobody owns the lock there is no writer ... *)
LEMMA NobodyWrites ==
  ASSUME LockInv, ~futex.held
  PROVE  Guarded!NoWriter
  BY RoleOf DEF LockInv, HeldBit, Guarded!NoWriter

(* ... and while nobody is counted there is no reader. *)
LEMMA NobodyReads ==
  ASSUME LockInv, futex.count = 0
  PROVE  Guarded!NoReader
<1>1. \A u \in Threads : ~Reads(u)
  BY CountIsPositive DEF LockInv, Reads, Counted
<1> QED BY <1>1, RoleOf DEF Guarded!NoReader

(* A step that changes the role of nobody but t, and to r. *)
LEMMA RoleChanges ==
  ASSUME NEW t \in Threads, NEW r, Role(t)' = r,
         \A u \in Threads \ {t} : Role(u)' = Role(u)
  PROVE  roles' = [roles EXCEPT ![t] = r]
<1>1. roles' = [u \in Threads |-> Role(u)']
  BY DEF roles
<1> QED BY <1>1 DEF roles

(* A step that changes nobody's role or condition. *)
LEMMA Stutters ==
  ASSUME value' = value, waiter' = waiter, \A u \in Threads : Role(u)' = Role(u)
  PROVE  UNCHANGED <<roles, value, conditions>>
<1>1. roles' = roles
  BY DEF roles
<1>2. conditions' = conditions
  BY DEF conditions, Condition
<1> QED BY <1>1, <1>2

(* Roles depend on ownership, reading and being in wait() only. *)
LEMMA SameRole ==
  ASSUME NEW u \in Threads, Owns(u)' <=> Owns(u), Reads(u)' <=> Reads(u),
         inWait'[u] <=> inWait[u]
  PROVE  Role(u)' = Role(u)
  BY DEF Role

(* Unlinking a record ends the condition of its thread. *)
LEMMA ConditionEnds ==
  ASSUME TypeOK, NEW t \in Threads, waiter' = [waiter EXCEPT ![t] = NoWaiter]
  PROVE  conditions' = [conditions EXCEPT ![t] = Guarded!NoCondition]
<1>1. Condition(t)' = Guarded!NoCondition
  BY DEF TypeOK, Condition, NoWaiter, Waiter, Guarded!NoCondition
<1>2. \A u \in Threads \ {t} : Condition(u)' = Condition(u)
  BY DEF TypeOK, Condition
<1>3. conditions' = [u \in Threads |-> Condition(u)']
  BY DEF conditions
<1> QED BY <1>1, <1>2, <1>3 DEF conditions

(* Signalling a waiter leaves what it waits for as it was. *)
LEMMA SignalledCondition ==
  ASSUME TypeOK, NEW h \in Threads, NEW threw,
         waiter' = [waiter EXCEPT ![h] = Signalled(@, threw)]
  PROVE  conditions' = conditions
<1>1. \A u \in Threads : Condition(u)' = Condition(u)
  BY DEF TypeOK, Condition, Signalled
<1> QED BY <1>1 DEF conditions

(* A step that leaves the places of all threads in lock() and unlock(), as the
   users of the value see them, as they were. *)
LEMMA QuietStep ==
  ASSUME value' = value, waiter' = waiter,
         \A u \in Threads : /\ Owns(u)' <=> Owns(u)
                            /\ Reads(u)' <=> Reads(u)
                            /\ inWait'[u] <=> inWait[u]
  PROVE  UNCHANGED Guarded!vars
<1>1. \A u \in Threads : Role(u)' = Role(u)
  BY SameRole
<1> QED BY <1>1, Stutters DEF Guarded!vars

(* Every step of the futex mutex is a step of the guarded value, or none. *)
LEMMA GuardedStep ==
  ASSUME GuardInv, NEW t \in Threads, Calls(t) \/ Runs(t) \/ Disturbed(t)
  PROVE  Guarded!Next \/ UNCHANGED Guarded!vars
<1>a. /\ TypeOK /\ LockInv /\ WaitPlaces /\ ExceptionIsGranted /\ OneOwner /\ HeldBit
      /\ ReadersExclude
  BY DEF GuardInv, LockInv
<1>b. \A u \in Threads : WaitPlace(u)
  BY <1>a DEF WaitPlaces
<1>c. futex \in Words /\ futex.held \in BOOLEAN /\ futex.requested \in BOOLEAN
  BY <1>a, WordFields DEF TypeOK
<1> USE <1>a, PlaceSets DEF TypeOK, Goto, Observe, Forget, SetDeadline, locals, waitVars
<1> DEFINE Others == \A u \in Threads \ {t} : Role(u)' = Role(u)
<1>1. CASE EnterWait(t)
  <2>1. PICK p \in Predicates, timeout \in BOOLEAN : Wait(t, p, timeout)
    BY <1>1 DEF EnterWait
  <2>2. /\ value' = value /\ pc[t] = "write" /\ pc'[t] = "scan"
        /\ waiter' = [waiter EXCEPT ![t] = Waiter(p, timeout)]
        /\ inWait' = [inWait EXCEPT ![t] = TRUE]
        /\ \A u \in Threads \ {t} : pc'[u] = pc[u]
    BY <2>1 DEF Wait, addWaiter
  <2>3. Owns(t) /\ Owns(t)'
    BY <2>2 DEF Owns
  <2>4. \A u \in Threads \ {t} : (Owns(u)' <=> Owns(u)) /\ (Reads(u)' <=> Reads(u))
    BY <2>2 DEF Owns, Granted, Parked, Reads
  <2>5. \A u \in Threads : Role(u)' = Role(u)
    BY <2>2, <2>3, <2>4 DEF Role
  <2>6. roles' = roles
    BY <2>5 DEF roles
  <2> DEFINE c == [predicate |-> p, hasTimeout |-> timeout]
  <2>7. conditions' = [conditions EXCEPT ![t] = c]
    <3>1. \A u \in Threads \ {t} : Condition(u)' = Condition(u)
      BY <2>2 DEF Condition
    <3>2. Condition(t)' = c
      BY <2>2 DEF Condition, Waiter
    <3>3. conditions' = [u \in Threads |-> Condition(u)']
      BY DEF conditions
    <3> HIDE DEF c
    <3> QED BY <3>1, <3>2, <3>3 DEF conditions
  <2>8. c \in Guarded!Conditions
    BY DEF Guarded!Conditions
  <2>9. roles[t] = "writer"
    BY <2>3, RoleOf
  <2> HIDE DEF c
  <2>10. Guarded!StartWait(t, c)
    BY <2>2, <2>6, <2>7, <2>9 DEF Guarded!StartWait
  <2> QED BY <2>8, <2>10 DEF Guarded!Next
<1>2. CASE StepInLock(t)
  <2>1. ASSUME NEW u \in Threads PROVE (Owns(u)' <=> Owns(u)) /\ (Reads(u)' <=> Reads(u))
    <3>1. WaitPlace(u) /\ WaitPlace(t)
      BY <1>b
    <3>2. /\ waiter' = waiter /\ inWait' = inWait
          /\ pc[t] \in {"idle", "sWait", "sAsleep"} \cup ExclusiveLocking
          /\ \E place \in {"idle", "sAsleep", "sLoad", "sTimedOut"} \cup ExclusiveLocking :
               Goto(t, place)
      BY <1>2 DEF StepInLock, LockExclusive, Contend, RequestExclusive, FutexWait,
           SpuriousWake, LockTimesOut
    <3> QED BY <3>1, <3>2 DEF Owns, Granted, Parked, Reads, WaitPlace
  <2>2. value' = value /\ waiter' = waiter /\ inWait' = inWait
    BY <1>2 DEF StepInLock, LockExclusive, Contend, RequestExclusive,
         FutexWait, SpuriousWake, LockTimesOut
  <2> QED BY <2>1, <2>2, QuietStep
<1>3. CASE UnlockExclusive(t) \/ SkipWaiter(t) \/ ScanDone(t)
  <2>1. \A u \in Threads : (Owns(u)' <=> Owns(u)) /\ (Reads(u)' <=> Reads(u))
    BY <1>3 DEF Owns, Granted, Parked, Reads, UnlockExclusive, SkipWaiter, ScanDone
  <2>2. value' = value /\ waiter' = waiter /\ inWait' = inWait
    BY <1>3 DEF UnlockExclusive, SkipWaiter, ScanDone
  <2> QED BY <2>1, <2>2, QuietStep
<1>4. ASSUME NEW v \in Values, Mutate(t, v) PROVE Guarded!Next
  <2>1. pc[t] = "write" /\ pc' = pc /\ inWait' = inWait /\ waiter' = waiter /\ value' = v
    BY <1>4 DEF Mutate
  <2>2. roles' = roles /\ conditions' = conditions
    BY <2>1 DEF roles, Role, Owns, Granted, Parked, Reads, conditions, Condition
  <2>3. roles[t] = "writer"
    BY <2>1, RoleOf DEF Owns
  <2>4. Guarded!Mutate(t, v)
    BY <2>1, <2>2, <2>3 DEF Guarded!Mutate
  <2> QED BY <2>4 DEF Guarded!Next
<1>5. CASE StepWaking(t) \/ StepInWait(t)
  <2>1. ASSUME NEW u \in Threads PROVE (Owns(u)' <=> Owns(u)) /\ (Reads(u)' <=> Reads(u))
    <3>1. WaitPlace(u) /\ WaitPlace(t)
      BY <1>b
    <3> USE <3>1 DEF Owns, Granted, Parked, Reads, WaitPlace
    <3>2. CASE WakeAll(t)
      BY <3>2 DEF WakeAll, AfterUnlock
    <3>3. CASE WakeWaiter(t)
      BY <3>3 DEF WakeWaiter, AfterUnlock
    <3>4. CASE StepInWait(t)
      BY <3>4 DEF StepInWait, SleepInWait, SpuriousWakeInWait, WaitTimesOut
    <3> QED BY <1>5, <3>2, <3>3, <3>4 DEF StepWaking
  <2>2. value' = value /\ waiter' = waiter /\ inWait' = inWait
    BY <1>5 DEF StepWaking, WakeAll, WakeWaiter, StepInWait, SleepInWait,
         SpuriousWakeInWait, WaitTimesOut
  <2> QED BY <2>1, <2>2, QuietStep
<1>6. CASE StepShared(t) /\ pc[t] # "read" /\ pc'[t] # "read"
  <2>1. /\ value' = value /\ waiter' = waiter /\ inWait' = inWait
        /\ \A u \in Threads \ {t} : pc'[u] = pc[u]
        /\ pc[t] \in {"idle", "sLoad", "sTimedOut", "sCas"}
        /\ pc'[t] \in {"sWait", "sCas", "idle", "wakeAll"}
    BY <1>6 DEF StepShared, LockShared, ReloadShared, UnlockShared, ClearRequest
  <2>2. ~inWait[t]
    BY <1>b, <2>1 DEF WaitPlace
  <2>3. \A u \in Threads : (Owns(u)' <=> Owns(u)) /\ (Reads(u)' <=> Reads(u))
    BY <1>6, <2>1, <2>2 DEF Owns, Granted, Parked, Reads
  <2> QED BY <2>1, <2>3, QuietStep
<1>7. CASE StepShared(t) /\ pc'[t] = "read"
  <2>1. /\ value' = value /\ waiter' = waiter /\ inWait' = inWait /\ ~futex.held
        /\ \A u \in Threads \ {t} : pc'[u] = pc[u]
        /\ pc[t] \in {"idle", "sLoad"}
    BY <1>7 DEF StepShared, LockShared, ReloadShared, UnlockShared, ClearRequest
  <2>2. ~inWait[t]
    BY <1>b, <2>1 DEF WaitPlace
  <2>3. \A u \in Threads \ {t} : (Owns(u)' <=> Owns(u)) /\ (Reads(u)' <=> Reads(u))
    BY <2>1 DEF Owns, Granted, Parked, Reads
  <2>4. ~Owns(t) /\ ~Reads(t) /\ ~Owns(t)' /\ Reads(t)'
    BY <1>7, <2>1, <2>2 DEF Owns, Granted, Parked, Reads
  <2>5. Role(t)' = "reader" /\ Others
    BY <2>1, <2>3, <2>4 DEF Role
  <2>6. roles' = [roles EXCEPT ![t] = "reader"]
    BY <2>5, RoleChanges
  <2>7. conditions' = conditions
    BY <2>1 DEF conditions, Condition
  <2>8. Guarded!NoWriter /\ roles[t] = "out"
    BY <2>1, <2>2, <2>4, NobodyWrites, RoleOf
  <2>9. Guarded!Read(t)
    BY <2>1, <2>6, <2>7, <2>8 DEF Guarded!Read, Guarded!Become
  <2> QED BY <2>9 DEF Guarded!Next
<1>8. CASE StepShared(t) /\ pc[t] = "read"
  <2>1. /\ value' = value /\ waiter' = waiter /\ inWait' = inWait
        /\ \A u \in Threads \ {t} : pc'[u] = pc[u]
        /\ pc'[t] \in {"idle", "sCas"}
    BY <1>8 DEF StepShared, LockShared, ReloadShared, UnlockShared, ClearRequest
  <2>2. ~inWait[t]
    BY <1>b, <1>8 DEF WaitPlace
  <2>3. \A u \in Threads \ {t} : (Owns(u)' <=> Owns(u)) /\ (Reads(u)' <=> Reads(u))
    BY <2>1 DEF Owns, Granted, Parked, Reads
  <2>4. ~Owns(t) /\ Reads(t) /\ ~Owns(t)' /\ ~Reads(t)' /\ ~inWait'[t]
    BY <1>8, <2>1, <2>2 DEF Owns, Granted, Parked, Reads
  <2>5. Role(t)' = "out" /\ Others
    BY <2>1, <2>3, <2>4 DEF Role
  <2>6. roles' = [roles EXCEPT ![t] = "out"]
    BY <2>5, RoleChanges
  <2>7. conditions' = conditions
    BY <2>1 DEF conditions, Condition
  <2>8. Guarded!Leave(t)
    BY <2>1, <2>4, <2>6, <2>7, RoleOf DEF Guarded!Leave, Guarded!Become
  <2> QED BY <2>8 DEF Guarded!Next
<1>9. CASE Acquire(t)
  <2>1. ~futex.held /\ futex.count = 0
    BY <1>9, NamedWords DEF Acquire
  <2>2. Guarded!NoWriter /\ Guarded!NoReader
    BY <2>1, NobodyWrites, NobodyReads
  <2>3. /\ value' = value /\ pc[t] = "xTry" /\ pc'[t] = "write"
        /\ \A u \in Threads \ {t} : /\ pc'[u] = pc[u] /\ inWait'[u] = inWait[u]
                                    /\ waiter'[u] = waiter[u]
    BY <1>9 DEF Acquire, removeWaiter
  <2>4. \A u \in Threads \ {t} : (Owns(u)' <=> Owns(u)) /\ (Reads(u)' <=> Reads(u))
    BY <2>3 DEF Owns, Granted, Parked, Reads
  <2>5. ~Owns(t) /\ ~Reads(t) /\ Owns(t)'
    BY <2>3 DEF Owns, Granted, Parked, Reads
  <2>6. Role(t)' = "writer" /\ Others
    BY <2>3, <2>4, <2>5 DEF Role
  <2>7. roles' = [roles EXCEPT ![t] = "writer"]
    BY <2>6, RoleChanges
  <2>8. CASE ~inWait[t]
    <3>1. waiter' = waiter
      BY <1>9, <2>8 DEF Acquire
    <3>2. conditions' = conditions
      BY <3>1 DEF conditions, Condition
    <3>3. roles[t] = "out"
      BY <2>5, <2>8, RoleOf
    <3>4. Guarded!Write(t)
      BY <2>2, <2>3, <2>7, <3>2, <3>3 DEF Guarded!Write, Guarded!Become
    <3> QED BY <3>4 DEF Guarded!Next
  <2>9. CASE inWait[t]
    <3>1. waiter' = [waiter EXCEPT ![t] = NoWaiter]
      BY <1>9, <2>9 DEF Acquire, removeWaiter
    <3>2. conditions' = [conditions EXCEPT ![t] = Guarded!NoCondition]
      BY <3>1, ConditionEnds
    <3>3. roles[t] = "waiter"
      BY <2>5, <2>9, RoleOf
    <3>4. conditions[t].hasTimeout
      BY <1>b, <2>3, <2>9 DEF conditions, Condition, WaitPlace
    <3>5. Guarded!GiveUp(t)
      BY <2>2, <2>3, <2>7, <3>2, <3>3, <3>4 DEF Guarded!GiveUp, Guarded!Become
    <3> QED BY <3>5 DEF Guarded!Next
  <2> QED BY <2>8, <2>9
<1>10. CASE GrantWaiter(t)
  <2>a. PICK h \in Threads : h = Head(rest[t])
    BY <1>10, HeadOfScan DEF GrantWaiter
  <2>1. inWait[h] /\ h # t /\ ~Owns(h) /\ checkPredicate(h) /\ Owns(t) /\ pc[t] = "scan"
    BY <1>10, <2>a, HeadOfScan DEF GrantWaiter, Owns
  <2>2. /\ waiter' = [waiter EXCEPT ![h] = Signalled(@, Throws(h))] /\ inWait' = inWait
        /\ value' = value /\ \A u \in Threads \ {t} : pc'[u] = pc[u]
    BY <1>10, <2>a, <2>1 DEF GrantWaiter
  <2>3. conditions' = conditions
    BY <2>2, SignalledCondition
  <2>4. \A u \in Threads \ {t, h} : (Owns(u)' <=> Owns(u)) /\ (Reads(u)' <=> Reads(u))
    BY <2>2 DEF Owns, Granted, Parked, Reads
  <2>5. waiter'[h].futex = 1 /\ waiter'[t] = waiter[t]
    BY <2>1, <2>2 DEF Signalled
  <2>6. ~Reads(t) /\ ~Reads(h) /\ ~Reads(h)'
    BY <1>b, <2>1, <2>2 DEF Reads, WaitPlace
  <2>7. CASE ~waiter[h].hasTimeout \/ waiter[h].futex = 0
    <3>1. pc'[t] = "wakeWaiter"
      BY <1>10, <2>a, <2>7 DEF GrantWaiter
    <3>2. waiter[h].futex = 0 /\ pc[h] \in Waiting \cup {"wakeAll", "wakeWaiter"}
      BY <1>b, <2>1, <2>7 DEF WaitPlace, Owns, Granted, Parked, Waiters
    <3>3. ~Owns(t)' /\ ~Reads(t)'
      BY <1>b, <2>1, <2>2, <2>5, <3>1 DEF Owns, Granted, Parked, WaitPlace, Reads
    <3>4. Owns(h)'
      BY <2>1, <2>2, <2>5, <3>2 DEF Owns, Granted, Parked
    <3>5. ~waiter[h].exception
      BY <3>2 DEF ExceptionIsGranted
    <3>6. conditions[h].predicate[value] # "false"
      BY <2>1, <3>5 DEF checkPredicate, Verdict, conditions, Condition
    <3>7. roles[t] = "writer" /\ roles[h] = "waiter"
      BY <2>1, <2>6, RoleOf
    <3>8. \A u \in Threads \ {t, h} : Role(u)' = Role(u)
      BY <2>2, <2>4 DEF Role
    <3>9. Role(h)' = "writer" /\ Role(t)' \in {"out", "waiter"}
      BY <3>3, <3>4 DEF Role
    <3>10. roles' = [roles EXCEPT ![t] = Role(t)', ![h] = "writer"]
      <4>1. roles' = [u \in Threads |-> Role(u)']
        BY DEF roles
      <4> QED BY <2>1, <3>8, <3>9, <4>1 DEF roles
    <3>11. Guarded!HandOver(t, h)
      BY <2>1, <2>2, <2>3, <3>6, <3>7, <3>9, <3>10 DEF Guarded!HandOver, Guarded!Met
    <3> QED BY <3>11 DEF Guarded!Next
  <2>8. CASE waiter[h].hasTimeout /\ waiter[h].futex # 0
    <3>1. pc' = pc
      BY <1>10, <2>a, <2>8 DEF GrantWaiter
    <3>2. waiter[h].futex = 1
      BY <2>8 DEF Waiters
    <3>3. \A u \in Threads : (Owns(u)' <=> Owns(u)) /\ (Reads(u)' <=> Reads(u))
      BY <2>2, <2>4, <2>5, <3>1, <3>2 DEF Owns, Granted, Parked, Reads
    <3>4. \A u \in Threads : Role(u)' = Role(u)
      BY <2>2, <3>3, SameRole
    <3>5. roles' = roles
      BY <3>4 DEF roles
    <3> QED BY <2>2, <2>3, <3>5 DEF Guarded!vars
  <2> QED BY <2>7, <2>8
<1>11. CASE ReleaseExclusive(t)
  <2>1. /\ pc[t] = "release" /\ value' = value /\ inWait' = inWait /\ waiter' = waiter
        /\ \A u \in Threads \ {t} : pc'[u] = pc[u]
        /\ pc'[t] \in {"wakeAll", "cSleep", "idle"}
    BY <1>11 DEF ReleaseExclusive, AfterUnlock
  <2>2. \A u \in Threads \ {t} : (Owns(u)' <=> Owns(u)) /\ (Reads(u)' <=> Reads(u))
    BY <2>1 DEF Owns, Granted, Parked, Reads
  <2>3. Owns(t) /\ ~Owns(t)' /\ ~Reads(t)'
    BY <1>b, <2>1 DEF Owns, Granted, Parked, Reads, WaitPlace
  <2>4. Others
    BY <2>1, <2>2 DEF Role
  <2>5. conditions' = conditions
    BY <2>1 DEF conditions, Condition
  <2>6. roles[t] = "writer"
    BY <2>3, RoleOf
  <2>7. CASE inWait[t]
    <3>1. Role(t)' = "waiter"
      BY <2>1, <2>3, <2>7 DEF Role
    <3>2. roles' = [roles EXCEPT ![t] = "waiter"]
      BY <2>4, <3>1, RoleChanges
    <3>3. Guarded!Park(t)
      BY <2>1, <2>5, <2>6, <3>2 DEF Guarded!Park, Guarded!Become
    <3> QED BY <3>3 DEF Guarded!Next
  <2>8. CASE ~inWait[t]
    <3>1. Role(t)' = "out"
      BY <2>1, <2>3, <2>8 DEF Role
    <3>2. roles' = [roles EXCEPT ![t] = "out"]
      BY <2>4, <3>1, RoleChanges
    <3>3. Guarded!Leave(t)
      BY <2>1, <2>5, <2>6, <3>2 DEF Guarded!Leave, Guarded!Become
    <3> QED BY <3>3 DEF Guarded!Next
  <2> QED BY <2>7, <2>8
<1>12. CASE ClaimOwnWakeup(t)
  <2>1. /\ pc[t] = "cTimedOut" /\ value' = value /\ inWait' = inWait /\ inWait[t]
        /\ waiter' = [waiter EXCEPT ![t] = Signalled(@, FALSE)]
        /\ \A u \in Threads \ {t} : pc'[u] = pc[u]
        /\ pc'[t] = IF waiter[t].futex = 0 THEN "xTry" ELSE "cCheck"
    BY <1>b, <1>12 DEF ClaimOwnWakeup, WaitPlace
  <2>2. \A u \in Threads \ {t} : (Owns(u)' <=> Owns(u)) /\ (Reads(u)' <=> Reads(u))
    BY <2>1 DEF Owns, Granted, Parked, Reads
  <2>3. waiter[t].futex \in {0, 1} /\ waiter'[t].futex = 1
    BY <2>1 DEF Signalled, Waiters
  <2>4. (Owns(t)' <=> Owns(t)) /\ (Reads(t)' <=> Reads(t))
    <3>1. CASE waiter[t].futex = 0
      <4>1. ~Owns(t) /\ ~Owns(t)' /\ ~Reads(t) /\ ~Reads(t)'
        BY <2>1, <3>1 DEF Owns, Granted, Parked, Reads
      <4> QED BY <4>1
    <3>2. CASE waiter[t].futex = 1
      <4>a. pc[t] = "cTimedOut" /\ pc'[t] = "cCheck" /\ inWait[t] /\ inWait'[t]
        BY <2>1, <3>2
      <4>1. Owns(t) /\ Owns(t)' /\ ~Reads(t) /\ ~Reads(t)'
        BY <2>3, <3>2, <4>a DEF Owns, Granted, Parked, Reads
      <4> QED BY <4>1
    <3> QED BY <2>3, <3>1, <3>2
  <2>5. \A u \in Threads : Role(u)' = Role(u)
    BY <2>1, <2>2, <2>4, SameRole
  <2>6. roles' = roles
    BY <2>5 DEF roles
  <2>7. conditions' = conditions
    BY <2>1, SignalledCondition
  <2> QED BY <2>1, <2>6, <2>7 DEF Guarded!vars
<1>13. CASE CheckWakeup(t)
  <2>1. CASE waiter[t].futex = 1
    <3>1. /\ pc[t] = "cCheck" /\ pc'[t] = "write" /\ value' = value
          /\ waiter' = [waiter EXCEPT ![t] = NoWaiter]
          /\ \A u \in Threads \ {t} : /\ pc'[u] = pc[u] /\ inWait'[u] = inWait[u]
                                      /\ waiter'[u] = waiter[u]
      BY <1>13, <2>1 DEF CheckWakeup, removeWaiter
    <3>2. Owns(t) /\ Owns(t)'
      BY <1>b, <2>1, <3>1 DEF Owns, Granted, Parked, WaitPlace
    <3>3. \A u \in Threads \ {t} : (Owns(u)' <=> Owns(u)) /\ (Reads(u)' <=> Reads(u))
      BY <3>1 DEF Owns, Granted, Parked, Reads
    <3>4. \A u \in Threads : Role(u)' = Role(u)
      BY <3>1, <3>2, <3>3 DEF Role
    <3>5. roles' = roles
      BY <3>4 DEF roles
    <3>6. conditions' = [conditions EXCEPT ![t] = Guarded!NoCondition]
      BY <3>1, ConditionEnds
    <3>7. Guarded!EndWait(t)
      BY <3>1, <3>2, <3>5, <3>6, RoleOf DEF Guarded!EndWait
    <3> QED BY <3>7 DEF Guarded!Next
  <2>2. CASE waiter[t].futex # 1
    <3>1. /\ pc[t] = "cCheck" /\ pc'[t] = "cSleep" /\ value' = value
          /\ waiter' = waiter /\ inWait' = inWait
          /\ \A u \in Threads \ {t} : pc'[u] = pc[u]
      BY <1>13, <2>2 DEF CheckWakeup
    <3>2. \A u \in Threads : (Owns(u)' <=> Owns(u)) /\ (Reads(u)' <=> Reads(u))
      BY <3>1 DEF Owns, Granted, Parked, Reads
    <3> QED BY <3>1, <3>2, QuietStep
  <2> QED BY <2>1, <2>2
<1> QED BY StepCases, <1>1, <1>2, <1>3, <1>4, <1>5, <1>6, <1>7, <1>8, <1>9, <1>10, <1>11,
           <1>12, <1>13 DEF StepUnlocking

(* Initially everybody is out. *)
LEMMA GuardedInit == Init => Guarded!Init
<1> SUFFICES ASSUME Init PROVE Guarded!Init OBVIOUS
<1>1. \A t \in Threads : pc[t] = "idle" /\ ~inWait[t] /\ waiter[t] = NoWaiter
  BY DEF Init
<1>2. \A t \in Threads : Role(t) = "out"
  BY <1>1 DEF Role, Owns, Granted, Parked, Reads
<1>3. ASSUME NEW t \in Threads PROVE Condition(t) = Guarded!NoCondition
  <2>1. waiter[t] = NoWaiter
    BY <1>1
  <2> QED BY <2>1 DEF Condition, NoWaiter, Waiter, Guarded!NoCondition
<1>4. value \in Values
  BY DEF Init
<1> QED BY <1>2, <1>3, <1>4 DEF Guarded!Init, roles, conditions

(* The inductive invariant of the refinement. *)
LEMMA GuardInvariant == Spec => []GuardInv
<1>1. Init => GuardInv
  <2>1. Init => ExceptionIsGranted
    BY FreshWaiter, PredicatesAssumption DEF Init, ExceptionIsGranted, NoWaiter
  <2> QED BY <2>1, InitLock DEF GuardInv
<1>2. GuardInv /\ [Next]_vars => GuardInv'
  <2> SUFFICES ASSUME GuardInv, [Next]_vars PROVE GuardInv'
    OBVIOUS
  <2>1. LockInv'
    BY NextLock DEF GuardInv
  <2>2. CASE UNCHANGED vars
    BY <2>1, <2>2 DEF vars, GuardInv, ExceptionIsGranted
  <2>3. CASE Next
    BY <2>1, <2>3, ExceptionStep DEF GuardInv, Next
  <2> QED BY <2>2, <2>3
<1> QED BY <1>1, <1>2, PTL DEF Spec

(* The futex word, the list of Waiter records and the hand-off implement
   MutexGuarded: seen from outside there is one writer or there are readers,
   and a wait() ends only with its condition met or its timeout passed. *)
THEOREM Implements == Spec => ImplementsGuardedValue
<1>1. GuardInv /\ [Next]_vars => [Guarded!Next]_(Guarded!vars)
  <2> SUFFICES ASSUME GuardInv, [Next]_vars PROVE [Guarded!Next]_(Guarded!vars)
    OBVIOUS
  <2>1. CASE UNCHANGED vars
    <3>1. UNCHANGED Guarded!vars
      BY <2>1 DEF vars, Guarded!vars, roles, Role, Owns, Granted, Parked, Reads,
           conditions, Condition
    <3> QED BY <3>1
  <2>2. CASE Next
    BY <2>2, GuardedStep DEF Next
  <2> QED BY <2>1, <2>2
<1> QED BY <1>1, GuardedInit, GuardInvariant, PTL DEF Spec, ImplementsGuardedValue, Guarded!Spec
=============================================================================
