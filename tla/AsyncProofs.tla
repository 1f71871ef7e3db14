----------------------------- MODULE AsyncProofs -----------------------------
(***************************************************************************)
(* Proofs about components of a thread's asynchronous code: the task set,  *)
(* the producer-consumer queue with the socket port built on it, the       *)
(* readiness adapters, the event port with its timers, and the tee.  They  *)
(* hold for any number of tasks, arrivals, callers, timers and branches,   *)
(* and for buffers and delays of any size.                                 *)
(*                                                                         *)
(* Task set.  OnEmptyIsExact says that no failure is reported twice, and   *)
(* for that the list must be known: a task is in it once, under a number   *)
(* that was given out, and a task that was reported is not in it any more, *)
(* although the callback that runs between its two lives may have added    *)
(* others.                                                                 *)
(*                                                                         *)
(* Queue.  ArrivalsAreMatched speaks of the answers alone.  It is          *)
(* inductive only together with what still waits: the items handed out     *)
(* followed by those kept are all that came, in order, and the callers     *)
(* answered followed by those that wait are all that called and did not    *)
(* leave, in order.  The same statement holds of the values of the queue   *)
(* and of the connections of the socket port, so it is an operator, and    *)
(* what one arrival, one call and one departure do to it is proved once.   *)
(*                                                                         *)
(* Readiness adapters.  ReadinessKeepsBytes speaks of bytes that have left *)
(* the ring; the invariant adds what is in it: from start on, around the   *)
(* end, the bytes that come next, the first of them given to the pump.     *)
(* New bytes never touch a cell that a pump was given.                     *)
(*                                                                         *)
(* Event port.  The properties speak of a loop that sleeps or of a wait    *)
(* that ends; the invariant adds what must hold before: the hooks and the  *)
(* timerfd, or else the eventfd, are ready for whatever may happen during  *)
(* the sleep, and the timeout that was computed reaches a timer.           *)
(*                                                                         *)
(* Tee.  BranchesSeeTheInput speaks of every branch in the list; the       *)
(* invariant adds that a pump has bytes under way only while the loop      *)
(* waits for it, so that the next round overwrites nothing, that what the  *)
(* loop asks of the input still fits every buffer when the answer comes,   *)
(* and that a place in the list that is used for the first time is blank.  *)
(***************************************************************************)
EXTENDS TaskSet, AsyncQueue, ReadyStreams, UnixPort, AsyncTee,
        SequenceTheorems, FiniteSetTheorems, WellFoundedInduction, TLAPS

(***************************************************************************)
(* The task set                                                            *)
(***************************************************************************)

Results == {"pending", "ok", "fail"}
Waiters == {"none", "pending", "ready", "broken", "dropped"}
Phases == {"idle", "handler", "clearing", "destroying", "gone"}

\* The variables hold what their declarations say.
TaskTypeOK ==
  /\ tasks \in Seq(1 .. added)
  /\ result \in [1 .. MaxTasks -> Results]
  /\ reported \in [1 .. MaxTasks -> Nat]
  /\ fulfiller \in BOOLEAN
  /\ waiter \in Waiters
  /\ added \in 0 .. MaxTasks
  /\ phase \in Phases

\* A task is linked once.
LinkedOnce == \A i, j \in 1 .. Len(tasks) : tasks[i] = tasks[j] => i = j

\* What was reported has left the list, and was added before.
ReportedHasLeft ==
  /\ \A i \in 1 .. Len(tasks) : reported[tasks[i]] = 0
  /\ \A t \in 1 .. MaxTasks : t > added => reported[t] = 0

\* The inductive invariant.
TaskInv == TaskTypeOK /\ LinkedOnce /\ ReportedHasLeft /\ OnEmptyIsExact

-----------------------------------------------------------------------------
\* The types of the task set's state.
LEMMA TypeFacts ==
  ASSUME TaskTypeOK
  PROVE  /\ Len(tasks) \in Nat /\ added \in Nat /\ reported \in [1 .. MaxTasks -> Nat]
         /\ tasks \in Seq(1 .. added)
         /\ \A i \in 1 .. Len(tasks) : tasks[i] \in 1 .. added
BY DEF TaskTypeOK

\* add() and a callback that adds: the list is longer by the task in front.
LEMMA PushedList ==
  ASSUME TaskTypeOK, MaxTasks \in Nat, NEW list \in Seq(1 .. added), NEW k \in Spare
  PROVE  /\ k \in {0, 1} /\ added + k \in 0 .. MaxTasks
         /\ Pushed(list, k) \in Seq(1 .. added + k)
         /\ Len(Pushed(list, k)) = Len(list) + k
         /\ \A i \in 1 .. Len(list) : Pushed(list, k)[i + k] = list[i]
         /\ k = 1 => Pushed(list, k)[1] = added + 1
<1>1. k \in {0, 1} /\ added + k \in 0 .. MaxTasks /\ added \in Nat
  BY DEF TaskTypeOK, Spare
<1>2. CASE k = 0
  BY <1>1, <1>2 DEF Pushed
<1>3. CASE k = 1
  <2>1. /\ Pushed(list, k) = <<added + 1>> \o list
        /\ list \in Seq(1 .. added + 1) /\ <<added + 1>> \in Seq(1 .. added + 1)
    BY <1>1, <1>3 DEF Pushed
  <2>2. /\ Len(Pushed(list, k)) = Len(list) + 1
        /\ Pushed(list, k) \in Seq(1 .. added + 1)
    BY <2>1
  <2>3. /\ Pushed(list, k)[1] = added + 1
        /\ \A i \in 1 .. Len(list) : Pushed(list, k)[i + 1] = list[i]
    BY <2>1
  <2> QED BY <1>1, <1>3, <2>2, <2>3
<1> QED BY <1>1, <1>2, <1>3

\* pop(): the list is shorter by its i-th task.
LEMMA PoppedList ==
  ASSUME NEW S, NEW list \in Seq(S), NEW i \in 1 .. Len(list)
  PROVE  /\ Popped(list, i) \in Seq(S)
         /\ Len(Popped(list, i)) = Len(list) - 1
         /\ \A j \in 1 .. Len(list) - 1 :
              Popped(list, i)[j] = list[IF j < i THEN j ELSE j + 1]
<1>1. Len(list) \in Nat /\ Len(list) - 1 \in Nat
  OBVIOUS
<1>2. \A j \in 1 .. Len(list) - 1 : list[IF j < i THEN j ELSE j + 1] \in S
  OBVIOUS
<1>3. Popped(list, i) \in [1 .. Len(list) - 1 -> S]
  BY <1>2 DEF Popped
<1> QED BY <1>1, <1>3 DEF Popped

-----------------------------------------------------------------------------
\* An empty task set satisfies the invariant.
LEMMA InitHolds == ASSUME MaxTasks \in Nat, TaskInit PROVE TaskInv
<1> USE DEF TaskInit
<1>1. TaskTypeOK
  <2>1. tasks \in Seq(1 .. added) /\ added \in 0 .. MaxTasks
    OBVIOUS
  <2> QED BY <2>1 DEF TaskTypeOK, Results, Waiters, Phases
<1>2. LinkedOnce /\ ReportedHasLeft
  BY DEF LinkedOnce, ReportedHasLeft
<1>3. OnEmptyIsExact
  BY DEF OnEmptyIsExact
<1> QED BY <1>1, <1>2, <1>3 DEF TaskInv

\* A step that pushes k tasks on a part of the list, without a report.
LEMMA PushKeeps ==
  ASSUME MaxTasks \in Nat, TaskInv, NEW k \in Spare, NEW d \in {0, 1}, d <= Len(tasks),
         NEW list \in Seq(1 .. added), Len(list) = Len(tasks) - d,
         \A i \in 1 .. Len(list) : list[i] = tasks[i + d],
         tasks' = Pushed(list, k), added' = added + k, UNCHANGED reported
  PROVE  /\ tasks' \in Seq(1 .. added') /\ added' \in 0 .. MaxTasks
         /\ LinkedOnce' /\ ReportedHasLeft'
<1> USE DEF TaskInv
<1>1. /\ k \in {0, 1} /\ added + k \in 0 .. MaxTasks
      /\ tasks' \in Seq(1 .. added + k)
      /\ Len(tasks') = Len(list) + k
      /\ \A i \in 1 .. Len(list) : tasks'[i + k] = list[i]
      /\ k = 1 => tasks'[1] = added + 1
  BY PushedList
<1>2. /\ Len(tasks) \in Nat /\ added \in Nat /\ reported \in [1 .. MaxTasks -> Nat]
      /\ \A i \in 1 .. Len(tasks) : tasks[i] \in 1 .. added
  BY TypeFacts
<1>0. k \in Nat /\ d \in Nat /\ Len(list) \in Nat /\ Len(tasks') \in Nat
  BY <1>1
<1>3. \A i \in 1 .. Len(tasks') :
        \/ k = 1 /\ i = 1 /\ tasks'[i] = added + 1
        \/ /\ i - k + d \in 1 .. Len(tasks) /\ tasks'[i] = tasks[i - k + d]
           /\ tasks'[i] # added + 1
  <2> SUFFICES ASSUME NEW i \in 1 .. Len(tasks'), i > k
               PROVE  /\ i - k + d \in 1 .. Len(tasks) /\ tasks'[i] = tasks[i - k + d]
                      /\ tasks'[i] # added + 1
    <3>1. ASSUME NEW i \in 1 .. Len(tasks'), ~(i > k)
          PROVE  k = 1 /\ i = 1
      BY <3>1, <1>0, <1>1
    <3> QED BY <3>1, <1>1
  <2>1. i - k \in 1 .. Len(list)
    BY <1>0, <1>1
  <2>2. tasks'[(i - k) + k] = list[i - k] /\ list[i - k] = tasks[(i - k) + d]
    BY <2>1, <1>1
  <2>3. (i - k) + k = i /\ i - k + d \in 1 .. Len(tasks)
    BY <1>0, <1>2, <2>1
  <2>4. tasks[i - k + d] # added + 1
    BY <1>2, <2>3
  <2> QED BY <2>2, <2>3, <2>4
<1>4. LinkedOnce'
  <2> SUFFICES ASSUME NEW i \in 1 .. Len(tasks'), NEW j \in 1 .. Len(tasks'),
                      tasks'[i] = tasks'[j]
               PROVE  i = j
    BY DEF LinkedOnce
  <2>1. CASE k = 1 /\ i = 1 /\ tasks'[i] = added + 1
    BY <2>1, <1>3
  <2>2. CASE k = 1 /\ j = 1 /\ tasks'[j] = added + 1
    BY <2>2, <1>3
  <2>3. CASE /\ i - k + d \in 1 .. Len(tasks) /\ tasks'[i] = tasks[i - k + d]
             /\ j - k + d \in 1 .. Len(tasks) /\ tasks'[j] = tasks[j - k + d]
    <3>1. i - k + d = j - k + d
      BY <2>3 DEF LinkedOnce
    <3> QED BY <3>1, <1>0
  <2> QED BY <1>3, <2>1, <2>2, <2>3
<1>5. ReportedHasLeft'
  <2>1. \A i \in 1 .. Len(tasks') : reported'[tasks'[i]] = 0
    <3> TAKE i \in 1 .. Len(tasks')
    <3>1. CASE k = 1 /\ i = 1 /\ tasks'[i] = added + 1
      <4>1. added + 1 \in 1 .. MaxTasks /\ added + 1 > added
        BY <3>1, <1>1, <1>2
      <4> QED BY <3>1, <4>1 DEF ReportedHasLeft
    <3>2. CASE i - k + d \in 1 .. Len(tasks) /\ tasks'[i] = tasks[i - k + d]
      BY <3>2 DEF ReportedHasLeft
    <3> QED BY <3>1, <3>2, <1>3
  <2>2. \A t \in 1 .. MaxTasks : t > added' => reported'[t] = 0
    BY <1>1, <1>2 DEF ReportedHasLeft
  <2> QED BY <2>1, <2>2 DEF ReportedHasLeft
<1> QED BY <1>1, <1>4, <1>5

\* add() puts one more task at the front of the list.
LEMMA AddKeeps == ASSUME MaxTasks \in Nat, TaskInv, TaskAdd PROVE TaskInv'
<1> USE DEF TaskInv
<1>1. 1 \in Spare /\ tasks \in Seq(1 .. added) /\ Len(tasks) \in Nat
  BY DEF TaskAdd, Spare, TaskTypeOK
<1>2. /\ tasks' = Pushed(tasks, 1) /\ added' = added + 1 /\ UNCHANGED reported
      /\ UNCHANGED <<result, fulfiller, waiter, phase>> /\ phase \in {"idle", "handler"}
  BY DEF TaskAdd
<1>3. /\ tasks' \in Seq(1 .. added') /\ added' \in 0 .. MaxTasks
      /\ LinkedOnce' /\ ReportedHasLeft'
  <2>1. 0 \in {0, 1} /\ 0 <= Len(tasks) /\ Len(tasks) = Len(tasks) - 0
    BY <1>1
  <2>2. \A i \in 1 .. Len(tasks) : tasks[i] = tasks[i + 0]
    OBVIOUS
  <2> QED BY <1>1, <1>2, <2>1, <2>2, PushKeeps
<1>4. TaskTypeOK'
  <2>1. /\ result' \in [1 .. MaxTasks -> Results] /\ reported' \in [1 .. MaxTasks -> Nat]
        /\ waiter' \in Waiters /\ phase' \in Phases /\ fulfiller' \in BOOLEAN
    BY <1>2 DEF TaskTypeOK
  <2> QED BY <1>3, <2>1 DEF TaskTypeOK
<1>5. Len(tasks') > 0
  BY <1>1, <1>2, PushedList
<1>6. OnEmptyIsExact'
  BY <1>2, <1>5 DEF OnEmptyIsExact
<1> QED BY <1>3, <1>4, <1>6

\* The destructor, and clear(), drop the tasks from the front of the list.
LEMMA DestroyKeeps == ASSUME MaxTasks \in Nat, TaskInv, DestroyOne PROVE TaskInv'
<1> USE DEF TaskInv
<1>1. PICK k \in Spare : tasks' = Pushed(Tail(tasks), k) /\ added' = added + k
  BY DEF DestroyOne
<1>2. /\ tasks # << >> /\ phase \in {"clearing", "destroying"}
      /\ UNCHANGED <<result, reported, fulfiller, waiter, phase>>
  BY DEF DestroyOne
<1>3. tasks \in Seq(1 .. added) /\ Len(tasks) \in Nat \ {0}
  BY <1>2 DEF TaskTypeOK
<1>4. /\ Tail(tasks) \in Seq(1 .. added) /\ Len(Tail(tasks)) = Len(tasks) - 1
      /\ \A i \in 1 .. Len(Tail(tasks)) : Tail(tasks)[i] = tasks[i + 1]
  BY <1>2, <1>3
<1>5. /\ tasks' \in Seq(1 .. added') /\ added' \in 0 .. MaxTasks
      /\ LinkedOnce' /\ ReportedHasLeft'
  <2>1. 1 \in {0, 1} /\ 1 <= Len(tasks)
    BY <1>3
  <2> QED BY <1>1, <1>2, <1>4, <2>1, PushKeeps
<1>6. TaskTypeOK'
  <2>1. /\ result' \in [1 .. MaxTasks -> Results] /\ reported' \in [1 .. MaxTasks -> Nat]
        /\ waiter' \in Waiters /\ phase' \in Phases /\ fulfiller' \in BOOLEAN
    BY <1>2 DEF TaskTypeOK
  <2> QED BY <1>5, <2>1 DEF TaskTypeOK
<1>7. OnEmptyIsExact'
  BY <1>2 DEF OnEmptyIsExact
<1> QED BY <1>5, <1>6, <1>7

\* The task that fires is unlinked, whatever its destructor adds, before it is
\* reported.
LEMMA FireKeeps ==
  ASSUME MaxTasks \in Nat, TaskInv, NEW t \in 1 .. MaxTasks, TaskFire(t)
  PROVE  TaskInv'
<1> USE DEF TaskInv
<1>1. PICK i \in 1 .. Len(tasks), k \in Spare :
        LET left  == Popped(Pushed(tasks, k), i + k)
            empty == fulfiller /\ left = << >>
        IN  /\ tasks[i] = t
            /\ tasks' = left
            /\ added' = added + k
            /\ fulfiller' = (fulfiller /\ ~empty)
            /\ waiter' = IF empty /\ waiter = "pending" THEN "ready" ELSE waiter
  BY DEF TaskFire
<1> DEFINE list == Pushed(tasks, k)
<1>2. /\ phase = "idle" /\ UNCHANGED result
      /\ IF result[t] = "fail"
         THEN phase' = "handler" /\ reported' = [reported EXCEPT ![t] = @ + 1]
         ELSE UNCHANGED <<phase, reported>>
  BY DEF TaskFire
<1>3. /\ tasks \in Seq(1 .. added) /\ Len(tasks) \in Nat /\ added \in Nat
      /\ reported \in [1 .. MaxTasks -> Nat]
      /\ \A j \in 1 .. Len(tasks) : tasks[j] \in 1 .. added
  BY DEF TaskTypeOK
<1>4. /\ k \in {0, 1} /\ added + k \in 0 .. MaxTasks
      /\ list \in Seq(1 .. added + k) /\ Len(list) = Len(tasks) + k
      /\ \A j \in 1 .. Len(tasks) : list[j + k] = tasks[j]
      /\ k = 1 => list[1] = added + 1
  BY <1>3, PushedList
<1>5. i + k \in 1 .. Len(list)
  BY <1>3, <1>4
<1>6. /\ tasks' \in Seq(1 .. added + k) /\ Len(tasks') = Len(list) - 1
      /\ \A j \in 1 .. Len(list) - 1 : tasks'[j] = list[IF j < i + k THEN j ELSE j + 1]
  <2> HIDE DEF list
  <2>1. tasks' = Popped(list, i + k)
    BY <1>1 DEF list
  <2> QED BY <1>4, <1>5, <2>1, PoppedList
<1> HIDE DEF list
<1>0. /\ k \in {0, 1} /\ Len(tasks) \in Nat /\ Len(list) = Len(tasks) + k
      /\ i \in 1 .. Len(tasks) /\ Len(tasks') = Len(list) - 1
  BY <1>3, <1>4, <1>6
<1>7. \A m \in 1 .. Len(list) :
        \/ k = 1 /\ m = 1 /\ list[m] = added + 1
        \/ /\ m - k \in 1 .. Len(tasks) /\ list[m] = tasks[m - k]
           /\ list[m] # added + 1
  <2> SUFFICES ASSUME NEW m \in 1 .. Len(list), m > k
               PROVE  /\ m - k \in 1 .. Len(tasks) /\ list[m] = tasks[m - k]
                      /\ list[m] # added + 1
    <3>1. ASSUME NEW m \in 1 .. Len(list), ~(m > k)
          PROVE  k = 1 /\ m = 1
      BY <3>1, <1>0
    <3> QED BY <3>1, <1>4
  <2>1. m - k \in 1 .. Len(tasks) /\ (m - k) + k = m
    BY <1>0
  <2>2. tasks[m - k] # added + 1
    <3>1. tasks[m - k] \in 1 .. added
      BY <1>3, <2>1, Zenon
    <3> QED BY <1>3, <3>1
  <2> QED BY <1>4, <2>1, <2>2
<1>8. \A m, n \in 1 .. Len(list) : list[m] = list[n] => m = n
  <2> SUFFICES ASSUME NEW m \in 1 .. Len(list), NEW n \in 1 .. Len(list), list[m] = list[n]
               PROVE  m = n
    OBVIOUS
  <2>1. CASE k = 1 /\ m = 1 /\ list[m] = added + 1
    BY <2>1, <1>7
  <2>2. CASE k = 1 /\ n = 1 /\ list[n] = added + 1
    BY <2>2, <1>7
  <2>3. CASE /\ m - k \in 1 .. Len(tasks) /\ list[m] = tasks[m - k]
             /\ n - k \in 1 .. Len(tasks) /\ list[n] = tasks[n - k]
    <3>1. m - k = n - k
      BY <2>3 DEF LinkedOnce
    <3> QED BY <3>1, <1>0
  <2> QED BY <1>7, <2>1, <2>2, <2>3
<1>9. list[i + k] = t
  BY <1>1, <1>4
<1>10. \A m \in 1 .. Len(list) : reported[list[m]] = 0
  <2> TAKE m \in 1 .. Len(list)
  <2>1. CASE k = 1 /\ m = 1 /\ list[m] = added + 1
    BY <2>1, <1>3, <1>4 DEF ReportedHasLeft
  <2>2. CASE m - k \in 1 .. Len(tasks) /\ list[m] = tasks[m - k]
    BY <2>2 DEF ReportedHasLeft
  <2> QED BY <2>1, <2>2, <1>7
<1>11. \A j \in 1 .. Len(tasks') : \E m \in 1 .. Len(list) :
         /\ tasks'[j] = list[m] /\ m # i + k /\ m = (IF j < i + k THEN j ELSE j + 1)
  <2> TAKE j \in 1 .. Len(tasks')
  <2> DEFINE m == IF j < i + k THEN j ELSE j + 1
  <2>1. m \in 1 .. Len(list) /\ m # i + k /\ j \in 1 .. Len(list) - 1
    BY <1>0
  <2>2. tasks'[j] = list[m]
    BY <1>6, <2>1
  <2> HIDE DEF m
  <2>3. m = (IF j < i + k THEN j ELSE j + 1)
    BY DEF m
  <2> QED BY <2>1, <2>2, <2>3
<1>12. LinkedOnce'
  <2> SUFFICES ASSUME NEW x \in 1 .. Len(tasks'), NEW y \in 1 .. Len(tasks'),
                      tasks'[x] = tasks'[y]
               PROVE  x = y
    BY DEF LinkedOnce
  <2>1. PICK m \in 1 .. Len(list) :
          tasks'[x] = list[m] /\ m = (IF x < i + k THEN x ELSE x + 1)
    BY <1>11
  <2>2. PICK n \in 1 .. Len(list) :
          tasks'[y] = list[n] /\ n = (IF y < i + k THEN y ELSE y + 1)
    BY <1>11
  <2>3. m = n
    BY <2>1, <2>2, <1>8
  <2> QED BY <1>0, <2>1, <2>2, <2>3
<1>13. \A j \in 1 .. Len(tasks') : tasks'[j] # t /\ reported[tasks'[j]] = 0
  BY <1>5, <1>8, <1>9, <1>10, <1>11
<1>14. t \in 1 .. added /\ reported[t] = 0
  BY <1>1, <1>3 DEF ReportedHasLeft
<1>15. /\ reported' \in [1 .. MaxTasks -> Nat]
       /\ \A u \in 1 .. MaxTasks : u # t => reported'[u] = reported[u]
       /\ reported'[t] \in {0, 1}
  <2>1. CASE reported' = [reported EXCEPT ![t] = @ + 1]
    BY <2>1, <1>3, <1>14
  <2>2. CASE reported' = reported
    BY <2>2, <1>3, <1>14
  <2> QED BY <1>2, <2>1, <2>2
<1>16. ReportedHasLeft'
  <2>1. \A j \in 1 .. Len(tasks') : tasks'[j] \in 1 .. MaxTasks
    <3>1. 1 .. added + k \subseteq 1 .. MaxTasks
      BY <1>3, <1>4
    <3>2. ASSUME NEW j \in 1 .. Len(tasks') PROVE tasks'[j] \in 1 .. added + k
      <4> DEFINE S == 1 .. added + k
      <4>1. tasks' \in Seq(S)
        BY <1>6
      <4> HIDE DEF S
      <4>2. tasks'[j] \in S
        BY <4>1
      <4> QED BY <4>2 DEF S
    <3> QED BY <3>1, <3>2
  <2>2. \A j \in 1 .. Len(tasks') : reported'[tasks'[j]] = 0
    BY <2>1, <1>13, <1>15
  <2>3. \A u \in 1 .. MaxTasks : u > added' => reported'[u] = 0
    <3> TAKE u \in 1 .. MaxTasks
    <3> HAVE u > added'
    <3>1. added' = added + k /\ added \in Nat /\ k \in {0, 1} /\ t \in 1 .. added
      BY <1>1, <1>3, <1>4, <1>14
    <3>2. u > added /\ u # t
      BY <3>1
    <3>3. reported[u] = 0
      BY <3>2 DEF ReportedHasLeft
    <3> QED BY <1>15, <3>2, <3>3
  <2> QED BY <2>2, <2>3 DEF ReportedHasLeft
<1>17. TaskTypeOK'
  <2>1. /\ result' \in [1 .. MaxTasks -> Results]
        /\ waiter' \in Waiters /\ phase' \in Phases /\ fulfiller' \in BOOLEAN
    BY <1>1, <1>2 DEF TaskTypeOK, Waiters, Phases
  <2>2. tasks' \in Seq(1 .. added') /\ added' \in 0 .. MaxTasks
    BY <1>1, <1>4, <1>6
  <2> QED BY <2>1, <2>2, <1>15 DEF TaskTypeOK
<1>18. OnEmptyIsExact'
  <2>1. waiter' = "pending" => fulfiller' /\ tasks' # << >>
    BY <1>1, <1>2 DEF OnEmptyIsExact
  <2>2. waiter' # "broken" /\ phase' # "gone"
    BY <1>1, <1>2 DEF OnEmptyIsExact
  <2>3. \A u \in 1 .. MaxTasks : reported'[u] <= 1
    BY <1>15 DEF OnEmptyIsExact
  <2> QED BY <2>1, <2>2, <2>3 DEF OnEmptyIsExact
<1> QED BY <1>12, <1>16, <1>17, <1>18

\* The steps that leave the list alone.
LEMMA QuietKeeps ==
  ASSUME MaxTasks \in Nat, TaskInv, UNCHANGED <<tasks, reported, added>>,
         \/ \E t \in 1 .. MaxTasks, how \in {"ok", "fail"} : TaskSettles(t, how)
         \/ HandlerReturns \/ OnEmpty \/ DropWaiter
         \/ \E how \in {"clearing", "destroying"} : Clear(how)
         \/ ClearEnds \/ DestroyEnds \/ UNCHANGED taskVars
  PROVE  TaskInv'
<1> USE DEF TaskInv
<1>1. LinkedOnce' /\ ReportedHasLeft'
  BY DEF LinkedOnce, ReportedHasLeft
<1>2. TaskTypeOK'
  <2>1. waiter' \in Waiters /\ phase' \in Phases
    BY DEF TaskTypeOK, Waiters, Phases, TaskSettles, HandlerReturns, OnEmpty, DropWaiter,
           Clear, ClearEnds, DestroyEnds, taskVars
  <2>2. result' \in [1 .. MaxTasks -> Results]
    BY DEF TaskTypeOK, Results, TaskSettles, HandlerReturns, OnEmpty, DropWaiter,
           Clear, ClearEnds, DestroyEnds, taskVars
  <2>3. fulfiller' \in BOOLEAN
    BY DEF TaskTypeOK, TaskSettles, HandlerReturns, OnEmpty, DropWaiter,
           Clear, ClearEnds, DestroyEnds, taskVars
  <2> QED BY <2>1, <2>2, <2>3 DEF TaskTypeOK
<1>3. OnEmptyIsExact'
  <2>1. /\ waiter' = "pending" =>
             fulfiller' /\ (tasks' # << >> \/ phase' \in {"clearing", "destroying"})
        /\ waiter' = "broken" => phase' = "gone"
        /\ phase' = "gone" => tasks' = << >>
    BY DEF OnEmptyIsExact, TaskTypeOK, Phases, TaskSettles, HandlerReturns, OnEmpty,
           DropWaiter, Clear, ClearEnds, DestroyEnds, taskVars
  <2>2. \A t \in 1 .. MaxTasks : reported'[t] <= 1
    BY DEF OnEmptyIsExact
  <2> QED BY <2>1, <2>2, Zenon DEF OnEmptyIsExact
<1> QED BY <1>1, <1>2, <1>3

-----------------------------------------------------------------------------
\* The invariant of the task set: add(), fire(), onEmpty(), clear() and
\* ~TaskSet() keep it, whatever the callbacks add and whenever they are called
\* (async.cc:284-406).
THEOREM TaskInvariant == TaskSpec => []TaskInv
<1>1. TaskInit => TaskInv
  BY InitHolds, TaskAssumption
<1>2. TaskInv /\ [TaskNext]_taskVars => TaskInv'
  <2> SUFFICES ASSUME TaskInv, [TaskNext]_taskVars PROVE TaskInv'
    OBVIOUS
  <2> USE TaskAssumption
  <2>1. CASE \E t \in 1 .. MaxTasks : TaskFire(t)
    BY <2>1, FireKeeps
  <2>2. CASE \E t \in 1 .. MaxTasks, how \in {"ok", "fail"} : TaskSettles(t, how)
    BY <2>2, QuietKeeps DEF TaskSettles
  <2>3. CASE TaskAdd
    BY <2>3, AddKeeps
  <2>4. CASE HandlerReturns
    BY <2>4, QuietKeeps DEF HandlerReturns
  <2>5. CASE OnEmpty
    BY <2>5, QuietKeeps DEF OnEmpty
  <2>6. CASE DropWaiter
    BY <2>6, QuietKeeps DEF DropWaiter
  <2>7. CASE \E how \in {"clearing", "destroying"} : Clear(how)
    BY <2>7, QuietKeeps DEF Clear
  <2>8. CASE DestroyOne
    BY <2>8, DestroyKeeps
  <2>9. CASE ClearEnds
    BY <2>9, QuietKeeps DEF ClearEnds
  <2>10. CASE DestroyEnds
    BY <2>10, QuietKeeps DEF DestroyEnds
  <2>11. CASE UNCHANGED taskVars
    BY <2>11, QuietKeeps DEF taskVars
  <2> QED BY <2>1, <2>2, <2>3, <2>4, <2>5, <2>6, <2>7, <2>8, <2>9, <2>10, <2>11 DEF TaskNext
<1> QED BY <1>1, <1>2, PTL DEF TaskSpec

\* onEmpty() is exact for any number of tasks: a promise it returned waits only
\* while there is a task to wait for, is broken only by the end of the set, no
\* failure is reported twice and no task outlives the set (async.cc:307-406).
THEOREM OnEmptyExact == TaskSpec => []OnEmptyIsExact
<1>1. TaskInv => OnEmptyIsExact
  BY DEF TaskInv
<1> QED BY <1>1, TaskInvariant, PTL

(***************************************************************************)
(* The queue                                                               *)
(***************************************************************************)

\* The callers that q lists, in order, are those of 1..n who have not left.
AreSorted(q, n, left) ==
  /\ q \in Seq(Nat) /\ n \in Nat /\ left \subseteq 1..n
  /\ \A i, j \in 1..Len(q) : i < j => q[i] < q[j]
  /\ ToSet(q) = (1..n) \ left

\* The numbers from 1 to n in order.
Numbers(n) == [i \in 1..n |-> i]

\* What each answered caller was answered with.
Answers == [callers : Seq(Nat), items : Seq(Nat)]

\* Of the numbers that came, those in ans were handed out and those in kept not
\* yet; of those who called, the ones in ans were answered, those in wait are
\* waiting and those in left gave up or were rejected.
Matching(came, called, ans, kept, wait, left) ==
  /\ came \in Nat /\ ans \in Answers /\ kept \in Seq(Nat) /\ wait \in Seq(Nat)
  /\ ans.items \o kept = Numbers(came)
  /\ AreSorted(ans.callers \o wait, called, left)
  /\ Len(ans.callers) = Len(ans.items)
  /\ kept = <<>> \/ wait = <<>>

\* The variables hold what their declarations say.
QueueTypeOK ==
  /\ answer \in [pop : Answers, accept : Answers]
  /\ gone \in [pop : SUBSET Nat, accept : SUBSET Nat]
  /\ acceptTask \in [Receivers -> {"none", "accepting", "accepted"}]

\* The values pushed and the calls of pop().
PopsMatch == Matching(pushed, popped, answer.pop, values, waiters, gone.pop)

\* The connections and the calls of accept().
AcceptsMatch == Matching(accepted, asked, answer.accept, backlog, acceptWaiters, gone.accept)

\* While somebody waits for a connection, every receiver has one task that
\* accepts, or has accepted and is about to hand over.
ChildrenAccept == acceptWaiters # <<>> => \A i \in Receivers : acceptTask[i] # "none"

\* The inductive invariant.
QueueInv == QueueTypeOK /\ PopsMatch /\ AcceptsMatch /\ ChildrenAccept

\* Two sequences are the same if their elements are.
LEMMA SameElements ==
  ASSUME NEW p \in Seq(Nat), NEW q \in Seq(Nat), Len(p) = Len(q),
         \A i \in 1..Len(p) : p[i] = q[i]
  PROVE  p = q
OBVIOUS

LEMMA SetOfSeq == ASSUME NEW q \in Seq(Nat) PROVE ToSet(q) = {q[i] : i \in 1..Len(q)}
BY DEF ToSet

\* The head of one list moves to the end of the other.
LEMMA HeadMoves ==
  ASSUME NEW c \in Seq(Nat), NEW w \in Seq(Nat), w # <<>>
  PROVE  Append(c, Head(w)) \o Tail(w) = c \o w
<1> DEFINE a == Append(c, Head(w))
           b == Tail(w)
<1>1. Len(w) \in Nat \ {0} /\ Head(w) = w[1] /\ w[1] \in Nat
  OBVIOUS
<1>2. /\ a \in Seq(Nat) /\ Len(a) = Len(c) + 1 /\ a[Len(c) + 1] = w[1]
      /\ \A i \in 1..Len(c) : a[i] = c[i]
  BY <1>1
<1>3. b \in Seq(Nat) /\ Len(b) = Len(w) - 1 /\ \A i \in 1..Len(b) : b[i] = w[i + 1]
  BY <1>1
<1> HIDE DEF a, b
<1>4. /\ a \o b \in Seq(Nat) /\ Len(a \o b) = Len(a) + Len(b)
      /\ \A i \in 1..(Len(a) + Len(b)) :
           (a \o b)[i] = IF i <= Len(a) THEN a[i] ELSE b[i - Len(a)]
  <2>1. a \in Seq(Nat) /\ b \in Seq(Nat)
    BY <1>2, <1>3
  <2> QED BY <2>1, ConcatProperties
<1>5. /\ c \o w \in Seq(Nat) /\ Len(c \o w) = Len(c) + Len(w)
      /\ \A i \in 1..(Len(c) + Len(w)) :
           (c \o w)[i] = IF i <= Len(c) THEN c[i] ELSE w[i - Len(c)]
  BY ConcatProperties
<1>6. Len(a \o b) = Len(c \o w) /\ Len(c) \in Nat
  BY <1>1, <1>2, <1>3, <1>4, <1>5
<1>7. ASSUME NEW i \in 1..Len(a \o b) PROVE (a \o b)[i] = (c \o w)[i]
  <2>0. i \in 1..(Len(a) + Len(b)) /\ i \in 1..(Len(c) + Len(w))
    BY <1>4, <1>5, <1>6
  <2>1. CASE i <= Len(c)
    BY <1>2, <1>4, <1>5, <1>6, <2>0, <2>1
  <2>2. CASE i = Len(c) + 1
    BY <1>2, <1>4, <1>5, <1>6, <2>0, <2>2
  <2>3. CASE i > Len(c) + 1
    <3>0. Len(a) = Len(c) + 1 /\ ~(i <= Len(a))
      BY <1>2, <1>6, <2>3
    <3>1. (a \o b)[i] = b[i - Len(a)]
      BY <1>4, <2>0, <3>0
    <3>2. i - (Len(c) + 1) \in 1..Len(b) /\ i - (Len(c) + 1) + 1 = i - Len(c)
      BY <1>2, <1>3, <1>6, <2>0, <2>3
    <3>3. (c \o w)[i] = w[i - Len(c)]
      BY <1>5, <1>6, <2>0, <2>3
    <3>4. b[i - (Len(c) + 1)] = w[i - Len(c)]
      BY <1>3, <3>2
    <3> QED BY <3>0, <3>1, <3>3, <3>4
  <2>4. i \in Nat /\ Len(c) \in Nat
    BY <1>6, <2>0
  <2>5. i <= Len(c) \/ i = Len(c) + 1 \/ i > Len(c) + 1
    BY <2>4
  <2> QED BY <2>1, <2>2, <2>3, <2>5
<1>8. a \o b = c \o w
  BY <1>4, <1>5, <1>6, <1>7, SameElements
<1> QED BY <1>8 DEF a, b

\* Appending to either list appends to both together.
LEMMA AppendMoves ==
  ASSUME NEW c \in Seq(Nat), NEW w \in Seq(Nat), NEW x \in Nat
  PROVE  /\ c \o Append(w, x) = Append(c \o w, x)
         /\ Append(c, x) \o <<>> = Append(c \o <<>>, x)
         /\ c \o <<>> = c
<1>1. c \o <<>> = c
  OBVIOUS
<1>2. Append(c, x) \in Seq(Nat)
  OBVIOUS
<1>3. Append(c, x) \o <<>> = Append(c, x)
  BY <1>2
<1>4. c \o Append(w, x) = Append(c \o w, x)
  OBVIOUS
<1> QED BY <1>1, <1>3, <1>4

\* The next number.
LEMMA NumbersGrow ==
  ASSUME NEW n \in Nat
  PROVE  Numbers(n) \in Seq(Nat) /\ Append(Numbers(n), n + 1) = Numbers(n + 1)
<1>1. Numbers(n) \in Seq(Nat) /\ Len(Numbers(n)) = n
  BY DEF Numbers
<1>2. Numbers(n + 1) \in Seq(Nat) /\ Len(Numbers(n + 1)) = n + 1
  BY DEF Numbers
<1>3. Append(Numbers(n), n + 1) \in Seq(Nat) /\ Len(Append(Numbers(n), n + 1)) = n + 1
  BY <1>1
<1>4. ASSUME NEW i \in 1..(n + 1) PROVE Append(Numbers(n), n + 1)[i] = Numbers(n + 1)[i]
  BY <1>1 DEF Numbers
<1> QED BY <1>1, <1>2, <1>3, <1>4, SameElements

\* A new caller is the last.
LEMMA SortedGrows ==
  ASSUME NEW q, NEW n, NEW left, AreSorted(q, n, left)
  PROVE  AreSorted(Append(q, n + 1), n + 1, left)
<1> DEFINE p == Append(q, n + 1)
<1>1. q \in Seq(Nat) /\ n \in Nat /\ left \subseteq 1..n /\ ToSet(q) = (1..n) \ left
  BY DEF AreSorted
<1>2. /\ p \in Seq(Nat) /\ Len(p) = Len(q) + 1 /\ Len(q) \in Nat
      /\ \A i \in 1..Len(q) : p[i] = q[i]
      /\ p[Len(q) + 1] = n + 1
  BY <1>1
<1> HIDE DEF p
<1>3. \A i \in 1..Len(q) : q[i] \in 1..n
  BY <1>1, SetOfSeq
<1>4. ASSUME NEW i \in 1..Len(p), NEW j \in 1..Len(p), i < j PROVE p[i] < p[j]
  <2>1. i \in 1..Len(q)
    BY <1>2, <1>4
  <2>2. CASE j \in 1..Len(q)
    BY <1>2, <1>4, <2>1, <2>2 DEF AreSorted
  <2>3. CASE j = Len(q) + 1
    <3>1. p[j] = n + 1 /\ p[i] = q[i] /\ q[i] \in 1..n
      BY <1>2, <1>3, <2>1, <2>3
    <3> QED BY <1>1, <3>1
  <2> QED BY <1>2, <2>2, <2>3
<1>5. ToSet(p) = ToSet(q) \cup {n + 1}
  <2>1. ToSet(p) = {p[i] : i \in 1..Len(p)} /\ ToSet(q) = {q[i] : i \in 1..Len(q)}
    BY <1>1, <1>2, SetOfSeq
  <2>2. 1..Len(p) = (1..Len(q)) \cup {Len(q) + 1}
    BY <1>2
  <2>3. ASSUME NEW i \in 1..Len(p) PROVE p[i] \in ToSet(q) \cup {n + 1}
    <3>1. CASE i \in 1..Len(q)
      BY <1>2, <2>1, <3>1, Zenon
    <3>2. CASE i = Len(q) + 1
      BY <1>2, <3>2, Zenon
    <3> QED BY <2>2, <3>1, <3>2, Zenon
  <2>4. ASSUME NEW i \in 1..Len(q) PROVE q[i] \in ToSet(p)
    BY <1>2, <2>1, <2>2, Zenon
  <2>5. n + 1 \in ToSet(p)
    BY <1>2, <2>1, <2>2, Zenon
  <2> QED BY <2>1, <2>3, <2>4, <2>5
<1>6. ToSet(p) = (1..(n + 1)) \ left
  <2>1. 1..(n + 1) = (1..n) \cup {n + 1} /\ n + 1 \notin left
    BY <1>1
  <2> QED BY <1>1, <1>5, <2>1
<1>7. left \subseteq 1..(n + 1)
  BY <1>1
<1>8. AreSorted(p, n + 1, left)
  BY <1>1, <1>2, <1>4, <1>6, <1>7 DEF AreSorted
<1> QED BY <1>8 DEF p

\* p is q without its k-th element.
Skip(i, k) == IF i < k THEN i ELSE i + 1
IsWithout(p, q, k) == Len(p) = Len(q) - 1 /\ \A i \in 1..Len(p) : p[i] = q[Skip(i, k)]

LEMMA SkipFacts ==
  ASSUME NEW n \in Nat, NEW k \in 1..n
  PROVE  /\ \A i \in 1..(n - 1) : Skip(i, k) \in 1..n /\ Skip(i, k) # k
         /\ \A i, j \in 1..(n - 1) : i < j => Skip(i, k) < Skip(j, k)
         /\ \A j \in 1..n : j # k => \E i \in 1..(n - 1) : Skip(i, k) = j
<1>1. ASSUME NEW j \in 1..n, j # k PROVE \E i \in 1..(n - 1) : Skip(i, k) = j
  <2>1. CASE j < k
    BY <2>1 DEF Skip
  <2>2. CASE j > k
    <3>1. j - 1 \in 1..(n - 1) /\ Skip(j - 1, k) = j
      BY <2>2 DEF Skip
    <3> QED BY <3>1
  <2> QED BY <1>1, <2>1, <2>2
<1> QED BY <1>1 DEF Skip

\* The k-th caller leaves.
LEMMA SortedShrinks ==
  ASSUME NEW q, NEW n, NEW left, AreSorted(q, n, left),
         NEW k \in 1..Len(q), NEW p \in Seq(Nat), IsWithout(p, q, k)
  PROVE  AreSorted(p, n, left \cup {q[k]})
<1>1. /\ q \in Seq(Nat) /\ n \in Nat /\ left \subseteq 1..n /\ ToSet(q) = (1..n) \ left
      /\ Len(q) \in Nat /\ Len(p) = Len(q) - 1
  BY DEF AreSorted, IsWithout
<1>2. \A i, j \in 1..Len(q) : i < j => q[i] < q[j]
  BY DEF AreSorted
<1>3. \A i \in 1..Len(q) : q[i] \in 1..n
  BY <1>1, SetOfSeq
<1>4. /\ \A i \in 1..Len(p) : Skip(i, k) \in 1..Len(q) /\ Skip(i, k) # k
      /\ \A i, j \in 1..Len(p) : i < j => Skip(i, k) < Skip(j, k)
      /\ \A j \in 1..Len(q) : j # k => \E i \in 1..Len(p) : Skip(i, k) = j
  <2> DEFINE m == Len(q)
  <2>1. m \in Nat /\ k \in 1..m /\ Len(p) = m - 1
    BY <1>1
  <2> HIDE DEF m
  <2>2. /\ \A i \in 1..(m - 1) : Skip(i, k) \in 1..m /\ Skip(i, k) # k
        /\ \A i, j \in 1..(m - 1) : i < j => Skip(i, k) < Skip(j, k)
        /\ \A j \in 1..m : j # k => \E i \in 1..(m - 1) : Skip(i, k) = j
    BY <2>1, SkipFacts
  <2> QED BY <2>1, <2>2 DEF m
<1>5. \A i \in 1..Len(p) : p[i] = q[Skip(i, k)]
  BY DEF IsWithout
<1>6. ASSUME NEW j \in 1..Len(q), j # k PROVE q[j] # q[k]
  <2>1. q[j] \in Nat /\ q[k] \in Nat /\ j \in Nat /\ k \in Nat
    <3>1. q[j] \in 1..n /\ q[k] \in 1..n
      BY <1>3
    <3>2. j \in Nat /\ k \in Nat
      OBVIOUS
    <3> QED BY <1>1, <3>1, <3>2
  <2>2. (j < k => q[j] < q[k]) /\ (k < j => q[k] < q[j])
    BY <1>2
  <2> QED BY <1>6, <2>1, <2>2
<1>7. ToSet(p) = ToSet(q) \ {q[k]}
  <2>1. ToSet(p) = {p[i] : i \in 1..Len(p)} /\ ToSet(q) = {q[i] : i \in 1..Len(q)}
    BY <1>1, SetOfSeq
  <2>2. ASSUME NEW x \in ToSet(p) PROVE x \in ToSet(q) /\ x # q[k]
    <3>1. PICK i \in 1..Len(p) : x = p[i]
      BY <2>1, Zenon
    <3> QED BY <1>4, <1>5, <1>6, <2>1, <3>1, Zenon
  <2>3. ASSUME NEW x \in ToSet(q), x # q[k] PROVE x \in ToSet(p)
    <3>1. PICK j \in 1..Len(q) : x = q[j]
      BY <2>1, Zenon
    <3>2. PICK i \in 1..Len(p) : Skip(i, k) = j
      BY <1>4, <2>3, <3>1, Zenon
    <3> QED BY <1>5, <2>1, <3>1, <3>2, Zenon
  <2> QED BY <2>2, <2>3
<1>8. ASSUME NEW i \in 1..Len(p), NEW j \in 1..Len(p), i < j PROVE p[i] < p[j]
  BY <1>2, <1>4, <1>5, <1>8, Zenon
<1>9. left \cup {q[k]} \subseteq 1..n
  BY <1>1, <1>3
<1>10. ToSet(p) = (1..n) \ (left \cup {q[k]})
  BY <1>1, <1>7
<1> QED BY <1>1, <1>8, <1>9, <1>10 DEF AreSorted

\* A concatenation, element by element.
LEMMA ConcatElements ==
  ASSUME NEW c \in Seq(Nat), NEW w \in Seq(Nat)
  PROVE  /\ c \o w \in Seq(Nat) /\ Len(c \o w) = Len(c) + Len(w)
         /\ Len(c) \in Nat /\ Len(w) \in Nat
         /\ \A i \in 1..Len(c) : i \in 1..Len(c \o w) /\ (c \o w)[i] = c[i]
         /\ \A i \in 1..Len(w) : Len(c) + i \in 1..Len(c \o w) /\ (c \o w)[Len(c) + i] = w[i]
         /\ ToSet(c \o w) = ToSet(c) \cup ToSet(w)
<1>1. /\ c \o w \in Seq(Nat) /\ Len(c \o w) = Len(c) + Len(w)
      /\ \A i \in 1..(Len(c) + Len(w)) :
           (c \o w)[i] = IF i <= Len(c) THEN c[i] ELSE w[i - Len(c)]
  BY ConcatProperties
<1>2. Len(c) \in Nat /\ Len(w) \in Nat
  OBVIOUS
<1>3. \A i \in 1..Len(c) : i \in 1..Len(c \o w) /\ (c \o w)[i] = c[i]
  BY <1>1, <1>2
<1>4. ASSUME NEW i \in 1..Len(w)
      PROVE  Len(c) + i \in 1..Len(c \o w) /\ (c \o w)[Len(c) + i] = w[i]
  <2>1. Len(c) + i \in 1..(Len(c) + Len(w)) /\ ~(Len(c) + i <= Len(c)) /\ Len(c) + i - Len(c) = i
    BY <1>2
  <2> QED BY <1>1, <2>1
<1>5. ASSUME NEW i \in 1..Len(c \o w)
      PROVE  \/ i \in 1..Len(c)
             \/ \E j \in 1..Len(w) : i = Len(c) + j
  <2>1. CASE i <= Len(c)
    BY <1>2, <2>1
  <2>2. CASE i > Len(c)
    <3>1. i - Len(c) \in 1..Len(w) /\ i = Len(c) + (i - Len(c))
      BY <1>1, <1>2, <2>2
    <3> QED BY <3>1
  <2> QED BY <1>2, <2>1, <2>2
<1>6. ToSet(c \o w) = ToSet(c) \cup ToSet(w)
  <2>1. /\ ToSet(c \o w) = {(c \o w)[i] : i \in 1..Len(c \o w)}
        /\ ToSet(c) = {c[i] : i \in 1..Len(c)} /\ ToSet(w) = {w[i] : i \in 1..Len(w)}
    BY <1>1, SetOfSeq
  <2>2. ASSUME NEW i \in 1..Len(c \o w) PROVE (c \o w)[i] \in ToSet(c) \cup ToSet(w)
    <3>1. CASE i \in 1..Len(c)
      BY <1>3, <2>1, <3>1, Zenon
    <3>2. CASE \E j \in 1..Len(w) : i = Len(c) + j
      <4>1. PICK j \in 1..Len(w) : i = Len(c) + j
        BY <3>2
      <4> QED BY <1>4, <2>1, <4>1, Zenon
    <3> QED BY <1>5, <3>1, <3>2, Zenon
  <2>3. ASSUME NEW i \in 1..Len(c) PROVE c[i] \in ToSet(c \o w)
    BY <1>3, <2>1, Zenon
  <2>4. ASSUME NEW i \in 1..Len(w) PROVE w[i] \in ToSet(c \o w)
    BY <1>4, <2>1, Zenon
  <2> QED BY <2>1, <2>2, <2>3, <2>4
<1> QED BY <1>1, <1>2, <1>3, <1>4, <1>6

\* Those in the second list leave together.
LEMMA SortedCut ==
  ASSUME NEW c \in Seq(Nat), NEW w \in Seq(Nat), NEW n, NEW left, AreSorted(c \o w, n, left)
  PROVE  AreSorted(c \o <<>>, n, left \cup ToSet(w))
<1> DEFINE q == c \o w
<1>1. n \in Nat /\ left \subseteq 1..n /\ ToSet(q) = (1..n) \ left
  BY DEF AreSorted
<1>2. \A i, j \in 1..Len(q) : i < j => q[i] < q[j]
  BY DEF AreSorted
<1>3. /\ Len(c) \in Nat
      /\ \A i \in 1..Len(c) : i \in 1..Len(q) /\ q[i] = c[i]
      /\ \A i \in 1..Len(w) : Len(c) + i \in 1..Len(q) /\ q[Len(c) + i] = w[i]
  BY ConcatElements
<1>4. ToSet(q) = ToSet(c) \cup ToSet(w)
  BY ConcatElements
<1> HIDE DEF q
<1>5. ASSUME NEW i \in 1..Len(c), NEW j \in 1..Len(c), i < j PROVE c[i] < c[j]
  BY <1>2, <1>3, <1>5, Zenon
<1>6. ASSUME NEW i \in 1..Len(c), NEW j \in 1..Len(w) PROVE c[i] # w[j]
  <2>1. i < Len(c) + j
    BY <1>3
  <2>2. c[i] < w[j]
    BY <1>2, <1>3, <2>1, Zenon
  <2>3. c[i] \in Nat /\ w[j] \in Nat
    OBVIOUS
  <2> QED BY <2>2, <2>3
<1>7. ToSet(c) \cap ToSet(w) = {}
  <2>1. ToSet(c) = {c[i] : i \in 1..Len(c)} /\ ToSet(w) = {w[i] : i \in 1..Len(w)}
    BY SetOfSeq
  <2> QED BY <1>6, <2>1
<1>8. ToSet(c) = (1..n) \ (left \cup ToSet(w)) /\ left \cup ToSet(w) \subseteq 1..n
  BY <1>1, <1>4, <1>7
<1>9. c \o <<>> = c
  OBVIOUS
<1> QED BY <1>1, <1>5, <1>8, <1>9 DEF AreSorted

\* RemoveAt() leaves out one element, also behind another list.
LEMMA RemoveAtLeavesOut ==
  ASSUME NEW s \in Seq(Nat), NEW k \in 1..Len(s)
  PROVE  RemoveAt(s, k) \in Seq(Nat) /\ IsWithout(RemoveAt(s, k), s, k)
<1> DEFINE a == SubSeq(s, 1, k - 1)
           b == SubSeq(s, k + 1, Len(s))
<1>0. Len(s) \in Nat
  OBVIOUS
<1>1. a \in Seq(Nat) /\ Len(a) = k - 1 /\ \A j \in 1..(k - 1) : a[j] = s[j]
  OBVIOUS
<1>2. b \in Seq(Nat) /\ Len(b) = Len(s) - k /\ \A j \in 1..(Len(s) - k) : b[j] = s[k + j]
  OBVIOUS
<1>3. RemoveAt(s, k) = a \o b
  BY DEF RemoveAt
<1> HIDE DEF a, b
<1>4. /\ a \o b \in Seq(Nat) /\ Len(a \o b) = Len(a) + Len(b)
      /\ \A i \in 1..(Len(a) + Len(b)) :
           (a \o b)[i] = IF i <= Len(a) THEN a[i] ELSE b[i - Len(a)]
  <2>1. a \in Seq(Nat) /\ b \in Seq(Nat)
    BY <1>1, <1>2
  <2> QED BY <2>1, ConcatProperties
<1>5. Len(a) + Len(b) = Len(s) - 1
  BY <1>0, <1>1, <1>2
<1>6. ASSUME NEW j \in 1..(Len(s) - 1) PROVE (a \o b)[j] = s[Skip(j, k)]
  <2>0. (a \o b)[j] = IF j <= k - 1 THEN a[j] ELSE b[j - (k - 1)]
    BY <1>1, <1>4, <1>5
  <2>1. CASE j < k
    <3>1. j <= k - 1 /\ j \in 1..(k - 1) /\ Skip(j, k) = j
      BY <2>1 DEF Skip
    <3> QED BY <1>1, <2>0, <3>1
  <2>2. CASE ~(j < k)
    <3>1. /\ ~(j <= k - 1) /\ j - (k - 1) \in 1..(Len(s) - k)
          /\ k + (j - (k - 1)) = j + 1 /\ Skip(j, k) = j + 1
      BY <1>0, <2>2 DEF Skip
    <3>2. b[j - (k - 1)] = s[k + (j - (k - 1))]
      BY <1>2, <3>1
    <3> QED BY <2>0, <3>1, <3>2
  <2> QED BY <2>1, <2>2
<1> QED BY <1>3, <1>4, <1>5, <1>6 DEF IsWithout

LEMMA ConcatLeavesOut ==
  ASSUME NEW c \in Seq(Nat), NEW w \in Seq(Nat), NEW v \in Seq(Nat), NEW k \in 1..Len(w),
         IsWithout(v, w, k)
  PROVE  IsWithout(c \o v, c \o w, Len(c) + k)
<1>1. Len(c) \in Nat /\ Len(w) \in Nat /\ Len(v) = Len(w) - 1
  BY DEF IsWithout
<1>2. /\ Len(c \o v) = Len(c) + Len(v) /\ Len(c \o w) = Len(c) + Len(w)
      /\ \A i \in 1..(Len(c) + Len(v)) :
           (c \o v)[i] = IF i <= Len(c) THEN c[i] ELSE v[i - Len(c)]
      /\ \A i \in 1..(Len(c) + Len(w)) :
           (c \o w)[i] = IF i <= Len(c) THEN c[i] ELSE w[i - Len(c)]
  BY ConcatProperties
<1>3. Len(c \o v) = Len(c \o w) - 1
  BY <1>1, <1>2
<1>4. ASSUME NEW i \in 1..Len(c \o v)
      PROVE  (c \o v)[i] = (c \o w)[Skip(i, Len(c) + k)]
  <2>0. /\ i \in 1..(Len(c) + Len(v)) /\ Skip(i, Len(c) + k) \in 1..(Len(c) + Len(w))
    BY <1>1, <1>2 DEF Skip
  <2>1. CASE i <= Len(c)
    <3>1. Skip(i, Len(c) + k) = i
      BY <1>1, <2>1 DEF Skip
    <3> QED BY <1>2, <2>0, <2>1, <3>1
  <2>2. CASE ~(i <= Len(c))
    <3>1. /\ i - Len(c) \in 1..Len(v) /\ ~(Skip(i, Len(c) + k) <= Len(c))
          /\ Skip(i, Len(c) + k) - Len(c) = Skip(i - Len(c), k)
      <4>1. i \in Nat /\ k \in Nat /\ Len(v) \in Nat
        BY <1>1, <2>0
      <4>2. i - Len(c) \in 1..Len(v)
        BY <1>1, <2>0, <2>2, <4>1
      <4>3. CASE i < Len(c) + k
        BY <1>1, <2>2, <4>1, <4>2, <4>3 DEF Skip
      <4>4. CASE ~(i < Len(c) + k)
        <5>1. ~(i - Len(c) < k) /\ (i + 1) - Len(c) = (i - Len(c)) + 1 /\ ~(i + 1 <= Len(c))
          BY <1>1, <2>2, <4>1, <4>4
        <5> QED BY <4>2, <4>4, <5>1 DEF Skip
      <4> QED BY <4>3, <4>4
    <3>2. (c \o v)[i] = v[i - Len(c)]
      BY <1>2, <2>0, <2>2
    <3>3. (c \o w)[Skip(i, Len(c) + k)] = w[Skip(i, Len(c) + k) - Len(c)]
      BY <1>2, <2>0, <3>1
    <3>4. v[i - Len(c)] = w[Skip(i - Len(c), k)]
      BY <3>1 DEF IsWithout
    <3> QED BY <3>1, <3>2, <3>3, <3>4
  <2> QED BY <2>1, <2>2
<1> QED BY <1>3, <1>4 DEF IsWithout

---------------------------------------------------------------------------
(* Arrivals and callers, one at a time                                     *)

Answered(ans, c, v) == [callers |-> Append(ans.callers, c), items |-> Append(ans.items, v)]

\* Something arrives.
LEMMA Arrives ==
  ASSUME NEW came, NEW called, NEW ans, NEW kept, NEW wait, NEW left,
         Matching(came, called, ans, kept, wait, left)
  PROVE  /\ wait = <<>> => Matching(came + 1, called, ans, Append(kept, came + 1), wait, left)
         /\ wait # <<>> => Matching(came + 1, called, Answered(ans, Head(wait), came + 1),
                                    kept, Tail(wait), left)
<1>1. /\ came \in Nat /\ ans \in Answers /\ kept \in Seq(Nat) /\ wait \in Seq(Nat)
      /\ ans.items \o kept = Numbers(came) /\ AreSorted(ans.callers \o wait, called, left)
      /\ Len(ans.callers) = Len(ans.items) /\ (kept = <<>> \/ wait = <<>>)
  BY DEF Matching
<1>2. ans.callers \in Seq(Nat) /\ ans.items \in Seq(Nat) /\ came + 1 \in Nat
  BY <1>1 DEF Answers
<1>3. Append(ans.items \o kept, came + 1) = Numbers(came + 1)
  BY <1>1, NumbersGrow
<1>4. ASSUME wait = <<>>
      PROVE  Matching(came + 1, called, ans, Append(kept, came + 1), wait, left)
  <2>1. ans.items \o Append(kept, came + 1) = Numbers(came + 1)
    BY <1>1, <1>2, <1>3, AppendMoves
  <2>2. Append(kept, came + 1) \in Seq(Nat)
    BY <1>1, <1>2
  <2> QED BY <1>1, <1>2, <1>4, <2>1, <2>2 DEF Matching
<1>5. ASSUME wait # <<>>
      PROVE  Matching(came + 1, called, Answered(ans, Head(wait), came + 1), kept, Tail(wait), left)
  <2> DEFINE new == Answered(ans, Head(wait), came + 1)
  <2>1. kept = <<>> /\ Head(wait) \in Nat /\ Tail(wait) \in Seq(Nat)
    <3>1. kept = <<>>
      BY <1>1, <1>5, Zenon
    <3>2. wait \in Seq(Nat) /\ wait # <<>>
      BY <1>1, <1>5
    <3>3. Head(wait) \in Nat /\ Tail(wait) \in Seq(Nat)
      BY <3>2, HeadTailProperties
    <3> QED BY <3>1, <3>3
  <2>2. new.callers = Append(ans.callers, Head(wait)) /\ new.items = Append(ans.items, came + 1)
    BY DEF Answered
  <2>3. new \in Answers
    BY <1>2, <2>1 DEF Answered, Answers
  <2>4. new.callers \o Tail(wait) = ans.callers \o wait
    BY <1>1, <1>2, <1>5, <2>2, HeadMoves
  <2> HIDE DEF new
  <2>5. new.items \o kept = Numbers(came + 1)
    <3>1. Append(ans.items, came + 1) \o <<>> = Append(ans.items \o <<>>, came + 1)
      BY <1>2, AppendMoves
    <3> QED BY <1>3, <2>1, <2>2, <3>1, Zenon
  <2>6. Len(new.callers) = Len(new.items)
    <3>1. Len(new.callers) = Len(ans.callers) + 1
      BY <1>2, <2>1, <2>2
    <3>2. Len(new.items) = Len(ans.items) + 1
      BY <1>2, <2>2
    <3> QED BY <1>1, <3>1, <3>2
  <2>7. Matching(came + 1, called, new, kept, Tail(wait), left)
    BY <1>1, <1>2, <2>1, <2>3, <2>4, <2>5, <2>6 DEF Matching
  <2> QED BY <2>7 DEF new
<1> QED BY <1>4, <1>5

\* Somebody asks.
LEMMA Asks ==
  ASSUME NEW came, NEW called, NEW ans, NEW kept, NEW wait, NEW left,
         Matching(came, called, ans, kept, wait, left)
  PROVE  /\ called + 1 \in Nat
         /\ kept = <<>> => Matching(came, called + 1, ans, kept, Append(wait, called + 1), left)
         /\ kept # <<>> => Matching(came, called + 1, Answered(ans, called + 1, Head(kept)),
                                    Tail(kept), wait, left)
<1>1. /\ came \in Nat /\ ans \in Answers /\ kept \in Seq(Nat) /\ wait \in Seq(Nat)
      /\ ans.items \o kept = Numbers(came) /\ AreSorted(ans.callers \o wait, called, left)
      /\ Len(ans.callers) = Len(ans.items) /\ (kept = <<>> \/ wait = <<>>)
  BY DEF Matching
<1>2. ans.callers \in Seq(Nat) /\ ans.items \in Seq(Nat) /\ called + 1 \in Nat
  BY <1>1 DEF Answers, AreSorted
<1>3. AreSorted(Append(ans.callers \o wait, called + 1), called + 1, left)
  BY <1>1, SortedGrows
<1>4. ASSUME kept = <<>>
      PROVE  Matching(came, called + 1, ans, kept, Append(wait, called + 1), left)
  <2>1. ans.callers \o Append(wait, called + 1) = Append(ans.callers \o wait, called + 1)
    BY <1>1, <1>2, AppendMoves
  <2>2. Append(wait, called + 1) \in Seq(Nat)
    BY <1>1, <1>2
  <2> QED BY <1>1, <1>3, <1>4, <2>1, <2>2 DEF Matching
<1>5. ASSUME kept # <<>>
      PROVE  Matching(came, called + 1, Answered(ans, called + 1, Head(kept)), Tail(kept), wait, left)
  <2> DEFINE new == Answered(ans, called + 1, Head(kept))
  <2>1. wait = <<>> /\ Head(kept) \in Nat /\ Tail(kept) \in Seq(Nat)
    <3>1. wait = <<>>
      BY <1>1, <1>5, Zenon
    <3>2. kept \in Seq(Nat) /\ kept # <<>>
      BY <1>1, <1>5
    <3>3. Head(kept) \in Nat /\ Tail(kept) \in Seq(Nat)
      BY <3>2, HeadTailProperties
    <3> QED BY <3>1, <3>3
  <2>2. new.callers = Append(ans.callers, called + 1) /\ new.items = Append(ans.items, Head(kept))
    BY DEF Answered
  <2>3. new \in Answers
    BY <1>2, <2>1 DEF Answered, Answers
  <2>4. new.items \o Tail(kept) = ans.items \o kept
    BY <1>1, <1>2, <1>5, <2>2, HeadMoves
  <2>5. new.callers \o wait = Append(ans.callers \o wait, called + 1)
    BY <1>2, <2>1, <2>2, AppendMoves
  <2> HIDE DEF new
  <2>6. Len(new.callers) = Len(new.items)
    <3>1. Len(new.callers) = Len(ans.callers) + 1
      BY <1>2, <2>2
    <3>2. Len(new.items) = Len(ans.items) + 1
      BY <1>2, <2>1, <2>2
    <3> QED BY <1>1, <3>1, <3>2
  <2>7. Matching(came, called + 1, new, Tail(kept), wait, left)
    BY <1>1, <1>3, <2>1, <2>3, <2>4, <2>5, <2>6 DEF Matching
  <2> QED BY <2>7 DEF new
<1> QED BY <1>2, <1>4, <1>5

\* One caller gives up, or all that wait are rejected.
LEMMA Leaves ==
  ASSUME NEW came, NEW called, NEW ans, NEW kept, NEW wait, NEW left,
         Matching(came, called, ans, kept, wait, left), wait # <<>>
  PROVE  /\ \A k \in 1..Len(wait) :
              Matching(came, called, ans, kept, RemoveAt(wait, k), left \cup {wait[k]})
         /\ Matching(came, called, ans, kept, <<>>, left \cup ToSet(wait))
<1>1. /\ came \in Nat /\ ans \in Answers /\ kept \in Seq(Nat) /\ wait \in Seq(Nat)
      /\ ans.items \o kept = Numbers(came) /\ AreSorted(ans.callers \o wait, called, left)
      /\ Len(ans.callers) = Len(ans.items) /\ kept = <<>>
  BY DEF Matching
<1>2. ans.callers \in Seq(Nat)
  BY <1>1 DEF Answers
<1>3. ASSUME NEW k \in 1..Len(wait)
      PROVE  Matching(came, called, ans, kept, RemoveAt(wait, k), left \cup {wait[k]})
  <2> DEFINE c == ans.callers
             v == RemoveAt(wait, k)
  <2>1. v \in Seq(Nat) /\ IsWithout(v, wait, k)
    BY <1>1, RemoveAtLeavesOut
  <2>2. c \in Seq(Nat) /\ AreSorted(c \o wait, called, left)
    BY <1>1, <1>2
  <2> HIDE DEF c, v
  <2>3. IsWithout(c \o v, c \o wait, Len(c) + k) /\ c \o v \in Seq(Nat)
    BY <1>1, <2>1, <2>2, ConcatLeavesOut, ConcatElements
  <2>4. Len(c) + k \in 1..Len(c \o wait) /\ (c \o wait)[Len(c) + k] = wait[k]
    <3>1. wait \in Seq(Nat) /\ Len(c) \in Nat /\ Len(wait) \in Nat /\ k \in 1..Len(wait)
      BY <1>1, <2>2, LenProperties
    <3>2. Len(c \o wait) = Len(c) + Len(wait)
      BY <2>2, <3>1, ConcatElements
    <3>3. Len(c) + k \in 1..(Len(c) + Len(wait))
      BY <3>1
    <3>4. (c \o wait)[Len(c) + k] = wait[k]
      BY <2>2, <3>1, ConcatElements
    <3> QED BY <3>2, <3>3, <3>4
  <2>5. AreSorted(c \o v, called, left \cup {wait[k]})
    BY <2>2, <2>3, <2>4, SortedShrinks
  <2> QED BY <1>1, <2>1, <2>5 DEF Matching, c, v
<1>4. AreSorted(ans.callers \o <<>>, called, left \cup ToSet(wait))
  BY <1>1, <1>2, SortedCut
<1> QED BY <1>1, <1>3, <1>4 DEF Matching

LEMMA QueueStart == QueueInit => QueueInv
<1> SUFFICES ASSUME QueueInit PROVE QueueInv
  OBVIOUS
<1>1. <<>> \in Seq(Nat) /\ <<>> \o <<>> = <<>> /\ Nobody \in Answers
  BY DEF Nobody, Answers
<1>2. Numbers(0) = <<>>
  BY DEF Numbers
<1>3. AreSorted(<<>>, 0, {})
  BY DEF AreSorted, ToSet
<1>4. Matching(0, 0, Nobody, <<>>, <<>>, {})
  <2>1. Nobody.callers = <<>> /\ Nobody.items = <<>>
    BY DEF Nobody
  <2> QED BY <1>1, <1>2, <1>3, <2>1 DEF Matching
<1>5. answer.pop = Nobody /\ answer.accept = Nobody /\ gone.pop = {} /\ gone.accept = {}
  BY DEF QueueInit
<1>6. QueueTypeOK /\ ChildrenAccept
  BY <1>1 DEF QueueInit, QueueTypeOK, ChildrenAccept
<1>7. PopsMatch /\ AcceptsMatch
  BY <1>4, <1>5 DEF QueueInit, PopsMatch, AcceptsMatch
<1> QED BY <1>6, <1>7 DEF QueueInv

\* What an answer and a departure change.
LEMMA AnswerChanges ==
  ASSUME answer \in [pop : Answers, accept : Answers], NEW c \in Nat, NEW v \in Nat,
         NEW kind \in {"pop", "accept"}, Answer(kind, c, v)
  PROVE  /\ answer' \in [pop : Answers, accept : Answers]
         /\ answer'[kind] = Answered(answer[kind], c, v)
         /\ \A other \in {"pop", "accept"} \ {kind} : answer'[other] = answer[other]
<1>1. Answered(answer[kind], c, v) \in Answers
  BY DEF Answered, Answers
<1>2. answer' = [answer EXCEPT ![kind] = Answered(answer[kind], c, v)]
  BY DEF Answer, Answered
<1> QED BY <1>1, <1>2

LEMMA LeaveChanges ==
  ASSUME gone \in [pop : SUBSET Nat, accept : SUBSET Nat], NEW cs \in SUBSET Nat,
         NEW kind \in {"pop", "accept"}, Leave(kind, cs)
  PROVE  /\ gone' \in [pop : SUBSET Nat, accept : SUBSET Nat]
         /\ gone'[kind] = gone[kind] \cup cs
         /\ \A other \in {"pop", "accept"} \ {kind} : gone'[other] = gone[other]
BY DEF Leave


\* The numbers in a list of callers or of arrivals.
LEMMA MatchingTypes ==
  ASSUME NEW came, NEW called, NEW ans, NEW kept, NEW wait, NEW left,
         Matching(came, called, ans, kept, wait, left)
  PROVE  /\ came \in Nat /\ called \in Nat /\ kept \in Seq(Nat) /\ wait \in Seq(Nat)
         /\ wait # <<>> => Head(wait) \in Nat
         /\ kept # <<>> => Head(kept) \in Nat
         /\ ToSet(wait) \in SUBSET Nat /\ \A i \in 1..Len(wait) : {wait[i]} \in SUBSET Nat
<1>1. came \in Nat /\ called \in Nat /\ kept \in Seq(Nat) /\ wait \in Seq(Nat)
  BY DEF Matching, AreSorted
<1>2. (wait # <<>> => Head(wait) \in Nat) /\ (kept # <<>> => Head(kept) \in Nat)
  BY <1>1
<1>3. \A i \in 1..Len(wait) : wait[i] \in Nat
  BY <1>1
<1>4. ToSet(wait) \in SUBSET Nat
  <2>1. ToSet(wait) = {wait[i] : i \in 1..Len(wait)}
    BY <1>1, SetOfSeq
  <2> QED BY <1>3, <2>1
<1> QED BY <1>1, <1>2, <1>3, <1>4

\* The receiver's half rests while the queue moves, and the other way round.
LEMMA AcceptsRest ==
  ASSUME QueueInv, QueueTypeOK', UNCHANGED acceptVars,
         answer'.accept = answer.accept, gone'.accept = gone.accept, PopsMatch'
  PROVE  QueueInv'
BY DEF QueueInv, acceptVars, AcceptsMatch, ChildrenAccept

LEMMA PopsRest ==
  ASSUME QueueInv, QueueTypeOK', UNCHANGED popVars,
         answer'.pop = answer.pop, gone'.pop = gone.pop, AcceptsMatch', ChildrenAccept'
  PROVE  QueueInv'
BY DEF QueueInv, popVars, PopsMatch

LEMMA QueuePushKeeps == ASSUME QueueInv, Push PROVE QueueInv'
<1>1. QueueTypeOK /\ Matching(pushed, popped, answer.pop, values, waiters, gone.pop)
  BY DEF QueueInv, PopsMatch
<1>2. CASE waiters # <<>>
  <2>1. /\ Answer("pop", Head(waiters), pushed + 1) /\ waiters' = Tail(waiters)
        /\ pushed' = pushed + 1 /\ UNCHANGED <<values, popped, gone, acceptVars>>
    BY <1>2 DEF Push
  <2>2. Head(waiters) \in Nat /\ pushed + 1 \in Nat
    BY <1>1, <1>2, MatchingTypes
  <2>3. /\ answer' \in [pop : Answers, accept : Answers]
        /\ answer'.pop = Answered(answer.pop, Head(waiters), pushed + 1)
        /\ answer'.accept = answer.accept
    BY <1>1, <2>1, <2>2, AnswerChanges DEF QueueTypeOK
  <2>4. PopsMatch'
    BY <1>1, <1>2, <2>1, <2>3, Arrives DEF PopsMatch
  <2>5. QueueTypeOK'
    BY <1>1, <2>1, <2>3 DEF QueueTypeOK, acceptVars
  <2> QED BY <2>1, <2>3, <2>4, <2>5, AcceptsRest
<1>3. CASE waiters = <<>>
  <2>1. /\ values' = Append(values, pushed + 1)
        /\ pushed' = pushed + 1 /\ UNCHANGED <<waiters, answer, popped, gone, acceptVars>>
    BY <1>3 DEF Push
  <2>2. PopsMatch'
    BY <1>1, <1>3, <2>1, Arrives DEF PopsMatch
  <2>3. QueueTypeOK'
    BY <1>1, <2>1 DEF QueueTypeOK, acceptVars
  <2> QED BY <2>1, <2>2, <2>3, AcceptsRest
<1> QED BY <1>2, <1>3

LEMMA PopKeeps == ASSUME QueueInv, Pop PROVE QueueInv'
<1>1. QueueTypeOK /\ Matching(pushed, popped, answer.pop, values, waiters, gone.pop)
  BY DEF QueueInv, PopsMatch
<1>2. CASE values # <<>>
  <2>1. /\ Answer("pop", popped + 1, Head(values)) /\ values' = Tail(values)
        /\ popped' = popped + 1 /\ UNCHANGED <<waiters, pushed, gone, acceptVars>>
    BY <1>2 DEF Pop
  <2>2. Head(values) \in Nat /\ popped + 1 \in Nat
    BY <1>1, <1>2, MatchingTypes
  <2>3. /\ answer' \in [pop : Answers, accept : Answers]
        /\ answer'.pop = Answered(answer.pop, popped + 1, Head(values))
        /\ answer'.accept = answer.accept
    BY <1>1, <2>1, <2>2, AnswerChanges DEF QueueTypeOK
  <2>4. PopsMatch'
    BY <1>1, <1>2, <2>1, <2>3, Asks DEF PopsMatch
  <2>5. QueueTypeOK'
    BY <1>1, <2>1, <2>3 DEF QueueTypeOK, acceptVars
  <2> QED BY <2>1, <2>3, <2>4, <2>5, AcceptsRest
<1>3. CASE values = <<>>
  <2>1. /\ waiters' = Append(waiters, popped + 1)
        /\ popped' = popped + 1 /\ UNCHANGED <<values, answer, pushed, gone, acceptVars>>
    BY <1>3 DEF Pop
  <2>2. PopsMatch'
    BY <1>1, <1>3, <2>1, Asks DEF PopsMatch
  <2>3. QueueTypeOK'
    BY <1>1, <2>1 DEF QueueTypeOK, acceptVars
  <2> QED BY <2>1, <2>2, <2>3, AcceptsRest
<1> QED BY <1>2, <1>3

LEMMA PopLeaves == ASSUME QueueInv, RejectAll \/ DropPop PROVE QueueInv'
<1>1. QueueTypeOK /\ Matching(pushed, popped, answer.pop, values, waiters, gone.pop)
  BY DEF QueueInv, PopsMatch
<1>2. UNCHANGED <<values, pushed, popped, answer, acceptVars>>
  BY DEF RejectAll, DropPop
<1>3. PICK cs \in SUBSET Nat :
        /\ Leave("pop", cs)
        /\ Matching(pushed, popped, answer.pop, values, waiters', gone.pop \cup cs)
  <2>1. CASE RejectAll
    <3>1. waiters # <<>> /\ waiters' = <<>> /\ Leave("pop", ToSet(waiters))
      BY <2>1 DEF RejectAll
    <3>2. Matching(pushed, popped, answer.pop, values, <<>>, gone.pop \cup ToSet(waiters))
      BY <1>1, <3>1, Leaves
    <3>3. ToSet(waiters) \in SUBSET Nat
      BY <1>1, MatchingTypes
    <3> QED BY <3>1, <3>2, <3>3
  <2>2. CASE DropPop
    <3>1. PICK i \in 1..Len(waiters) : waiters' = RemoveAt(waiters, i) /\ Leave("pop", {waiters[i]})
      BY <2>2 DEF DropPop
    <3>2. waiters # <<>>
      BY <3>1
    <3>3. Matching(pushed, popped, answer.pop, values, RemoveAt(waiters, i), gone.pop \cup {waiters[i]})
      BY <1>1, <3>2, Leaves
    <3>4. {waiters[i]} \in SUBSET Nat
      BY <1>1, MatchingTypes
    <3> QED BY <3>1, <3>3, <3>4
  <2> QED BY <2>1, <2>2
<1>4. /\ gone' \in [pop : SUBSET Nat, accept : SUBSET Nat]
      /\ gone'.pop = gone.pop \cup cs /\ gone'.accept = gone.accept
  BY <1>1, <1>3, LeaveChanges DEF QueueTypeOK
<1>5. PopsMatch'
  BY <1>2, <1>3, <1>4 DEF PopsMatch
<1>6. QueueTypeOK'
  BY <1>1, <1>2, <1>4 DEF QueueTypeOK, acceptVars
<1> QED BY <1>2, <1>4, <1>5, <1>6, AcceptsRest

LEMMA AcceptKeeps == ASSUME QueueInv, Accept PROVE QueueInv'
<1>1. QueueTypeOK /\ Matching(accepted, asked, answer.accept, backlog, acceptWaiters, gone.accept)
  BY DEF QueueInv, AcceptsMatch
<1>2. CASE backlog # <<>>
  <2>1. /\ Answer("accept", asked + 1, Head(backlog)) /\ backlog' = Tail(backlog)
        /\ asked' = asked + 1 /\ UNCHANGED <<acceptWaiters, acceptTask, accepted, gone, popVars>>
    BY <1>2 DEF Accept
  <2>2. Head(backlog) \in Nat /\ asked + 1 \in Nat
    BY <1>1, <1>2, MatchingTypes
  <2>3. /\ answer' \in [pop : Answers, accept : Answers]
        /\ answer'.accept = Answered(answer.accept, asked + 1, Head(backlog))
        /\ answer'.pop = answer.pop
    BY <1>1, <2>1, <2>2, AnswerChanges DEF QueueTypeOK
  <2>4. AcceptsMatch'
    BY <1>1, <1>2, <2>1, <2>3, Asks DEF AcceptsMatch
  <2>5. QueueTypeOK' /\ ChildrenAccept'
    BY <1>1, <2>1, <2>3 DEF QueueTypeOK, QueueInv, ChildrenAccept
  <2> QED BY <2>1, <2>3, <2>4, <2>5, PopsRest
<1>3. CASE backlog = <<>>
  <2>1. /\ acceptWaiters' = Append(acceptWaiters, asked + 1)
        /\ asked' = asked + 1 /\ UNCHANGED <<backlog, answer, accepted, gone, popVars>>
        /\ acceptTask' = [i \in Receivers |->
                            IF acceptTask[i] = "none" THEN "accepting" ELSE acceptTask[i]]
    BY <1>3 DEF Accept
  <2>2. AcceptsMatch'
    BY <1>1, <1>3, <2>1, Asks DEF AcceptsMatch
  <2>3. QueueTypeOK'
    BY <1>1, <2>1 DEF QueueTypeOK
  <2>4. ChildrenAccept'
    BY <2>1 DEF ChildrenAccept
  <2> QED BY <2>1, <2>2, <2>3, <2>4, PopsRest
<1> QED BY <1>2, <1>3

LEMMA AcceptedKeeps == ASSUME QueueInv, NEW i \in Receivers, Accepted(i) PROVE QueueInv'
<1>1. QueueTypeOK /\ Matching(accepted, asked, answer.accept, backlog, acceptWaiters, gone.accept)
  BY DEF QueueInv, AcceptsMatch
<1>2. /\ acceptTask' = [acceptTask EXCEPT ![i] = "accepted"]
      /\ accepted' = accepted + 1 /\ UNCHANGED <<asked, gone, popVars>>
  BY DEF Accepted
<1>3. CASE acceptWaiters # <<>>
  <2>1. /\ Answer("accept", Head(acceptWaiters), accepted + 1)
        /\ acceptWaiters' = Tail(acceptWaiters) /\ UNCHANGED backlog
    BY <1>3 DEF Accepted
  <2>2. Head(acceptWaiters) \in Nat /\ accepted + 1 \in Nat
    BY <1>1, <1>3, MatchingTypes
  <2>3. /\ answer' \in [pop : Answers, accept : Answers]
        /\ answer'.accept = Answered(answer.accept, Head(acceptWaiters), accepted + 1)
        /\ answer'.pop = answer.pop
    BY <1>1, <2>1, <2>2, AnswerChanges DEF QueueTypeOK
  <2>4. AcceptsMatch'
    BY <1>1, <1>2, <1>3, <2>1, <2>3, Arrives DEF AcceptsMatch
  <2>5. QueueTypeOK'
    BY <1>1, <1>2, <2>3 DEF QueueTypeOK
  <2>6. ChildrenAccept'
    BY <1>1, <1>2, <1>3 DEF QueueInv, ChildrenAccept, QueueTypeOK
  <2> QED BY <1>2, <2>3, <2>4, <2>5, <2>6, PopsRest
<1>4. CASE acceptWaiters = <<>>
  <2>1. backlog' = Append(backlog, accepted + 1) /\ UNCHANGED <<acceptWaiters, answer>>
    BY <1>4 DEF Accepted
  <2>2. AcceptsMatch'
    BY <1>1, <1>2, <1>4, <2>1, Arrives DEF AcceptsMatch
  <2>3. QueueTypeOK' /\ ChildrenAccept'
    BY <1>1, <1>2, <1>4, <2>1 DEF QueueTypeOK, ChildrenAccept
  <2> QED BY <1>2, <2>1, <2>2, <2>3, PopsRest
<1> QED BY <1>3, <1>4

LEMMA AcceptNextKeeps == ASSUME QueueInv, NEW i \in Receivers, AcceptNext(i) PROVE QueueInv'
<1>1. UNCHANGED <<backlog, acceptWaiters, accepted, asked, answer, gone, popVars>>
  BY DEF AcceptNext
<1>2. AcceptsMatch'
  BY <1>1 DEF QueueInv, AcceptsMatch
<1>3. QueueTypeOK' /\ ChildrenAccept'
  BY <1>1 DEF AcceptNext, QueueInv, QueueTypeOK, ChildrenAccept
<1> QED BY <1>1, <1>2, <1>3, PopsRest

LEMMA AcceptLeaves == ASSUME QueueInv, DropAccept PROVE QueueInv'
<1>1. QueueTypeOK /\ Matching(accepted, asked, answer.accept, backlog, acceptWaiters, gone.accept)
  BY DEF QueueInv, AcceptsMatch
<1>2. UNCHANGED <<backlog, acceptTask, accepted, asked, answer, popVars>>
  BY DEF DropAccept
<1>3. PICK i \in 1..Len(acceptWaiters) :
        acceptWaiters' = RemoveAt(acceptWaiters, i) /\ Leave("accept", {acceptWaiters[i]})
  BY DEF DropAccept
<1>4. acceptWaiters # <<>>
  BY <1>3
<1>5. {acceptWaiters[i]} \in SUBSET Nat
  BY <1>1, MatchingTypes
<1>6. /\ gone' \in [pop : SUBSET Nat, accept : SUBSET Nat]
      /\ gone'.accept = gone.accept \cup {acceptWaiters[i]} /\ gone'.pop = gone.pop
  BY <1>1, <1>3, <1>5, LeaveChanges DEF QueueTypeOK
<1>7. Matching(accepted, asked, answer.accept, backlog, RemoveAt(acceptWaiters, i),
               gone.accept \cup {acceptWaiters[i]})
  BY <1>1, <1>4, Leaves
<1>8. AcceptsMatch'
  BY <1>2, <1>3, <1>6, <1>7 DEF AcceptsMatch
<1>9. QueueTypeOK' /\ ChildrenAccept'
  BY <1>1, <1>2, <1>4, <1>6 DEF QueueInv, QueueTypeOK, ChildrenAccept
<1> QED BY <1>2, <1>6, <1>8, <1>9, PopsRest

\* The inductive invariant of ProducerConsumerQueue and of
\* AggregateConnectionReceiver: the arrivals are those answered with and those
\* kept, the callers those answered, those that wait and those that have left.
THEOREM QueueInvariant == QueueSpec => []QueueInv
<1>1. QueueInv /\ [QueueNext]_queueVars => QueueInv'
  <2> SUFFICES ASSUME QueueInv, [QueueNext]_queueVars PROVE QueueInv'
    OBVIOUS
  <2>1. CASE UNCHANGED queueVars
    BY <2>1 DEF queueVars, QueueInv, QueueTypeOK, PopsMatch, AcceptsMatch, ChildrenAccept
  <2> QED BY <2>1, QueuePushKeeps, PopKeeps, PopLeaves, AcceptKeeps, AcceptedKeeps,
       AcceptNextKeeps, AcceptLeaves DEF QueueNext
<1> QED BY <1>1, QueueStart, PTL DEF QueueSpec

\* ArrivalsAreMatched holds for any number of arrivals, callers and receivers:
\* first come, first served on both sides, each once, through callers that give
\* up and receivers that take turns.
THEOREM ArrivalsMatched == QueueSpec => []ArrivalsAreMatched
<1>1. ASSUME NEW came, NEW called, NEW ans, NEW kept, NEW wait, NEW left,
             Matching(came, called, ans, kept, wait, left)
      PROVE  InOrder(came, called, ans, kept, wait, left) /\ (kept = <<>> \/ wait = <<>>)
  BY <1>1 DEF Matching, AreSorted, Numbers, InOrder
<1>2. QueueInv => ArrivalsAreMatched
  BY <1>1 DEF QueueInv, PopsMatch, AcceptsMatch, ChildrenAccept, ArrivalsAreMatched
<1> QED BY <1>2, QueueInvariant, PTL

(***************************************************************************)
(* The readiness adapters                                                  *)
(***************************************************************************)

\* The cell that is k places after s.
Place(s, k) == IF s + k < Ring THEN s + k ELSE s + k - Ring

\* The variables of the output hold what their declarations say; start may be Ring,
\* which stands for 0.
OutTypeOK ==
  /\ cell \in [0 .. (Ring - 1) -> Nat] /\ start \in 0 .. Ring /\ filled \in 0 .. Ring
  /\ isPumping \in BOOLEAN /\ corked \in BOOLEAN /\ written \in Nat
  /\ given \in Seq(Nat) /\ sent \in Seq(Nat)

\* A pump has been given the first of the filled cells, in order; without one the
\* ring begins at its first cell.
PumpHasTheFirst ==
  /\ ~isPumping => start = 0
  /\ isPumping =>
       /\ Len(given) \in 1 .. filled
       /\ \A k \in 1 .. Len(given) : given[k] = Place(start, k - 1)
       /\ start > 0 => Len(given) < Ring

\* The filled cells hold the bytes that come after those sent.
RingHoldsTheRest ==
  \A k \in 0 .. (filled - 1) : cell[Place(start, k)] = Len(sent) + k + 1

\* What was sent are the first bytes written, and what has no reason to wait moves.
SentInOrder ==
  /\ sent = Numbers(Len(sent)) /\ Len(sent) + filled = written
  /\ filled > 0 /\ (~corked \/ filled = Ring) => isPumping

\* The inductive invariant of the output.
OutInv == OutTypeOK /\ PumpHasTheFirst /\ RingHoldsTheRest /\ SentInOrder

\* That of the input, which is read only into an empty buffer.
InInv ==
  /\ content \in Seq(Nat) /\ returned \in Seq(Nat) /\ received \in Nat /\ reading \in BOOLEAN
  /\ reading => content = <<>>
  /\ returned \o content = Numbers(received)

ReadyInv == OutInv /\ InInv

-----------------------------------------------------------------------------
\* Once around the ring, every cell is met once.
LEMMA Places ==
  ASSUME NEW s \in 0 .. Ring
  PROVE  /\ \A k \in 0 .. (Ring - 1) : Place(s, k) \in 0 .. (Ring - 1)
         /\ \A j, k \in 0 .. (Ring - 1) : Place(s, j) = Place(s, k) => j = k
BY ReadyAssumption DEF Place

\* A run of cells, and a run that goes on at the first cell.
LEMMA CellsFrom ==
  ASSUME NEW a \in Nat, NEW b \in Nat, a <= b
  PROVE  /\ Cells(a, b) \in Seq(Nat) /\ Len(Cells(a, b)) = b - a
         /\ \A k \in 1 .. (b - a) : Cells(a, b)[k] = a + k - 1
<1> DEFINE n == b - a
           c == [i \in 1 .. n |-> a + i - 1]
<1>1. n \in Nat
  OBVIOUS
<1> HIDE DEF n
<1>2. \A i \in 1 .. n : a + i - 1 \in Nat
  BY <1>1
<1>3. c \in Seq(Nat) /\ Len(c) = n /\ \A k \in 1 .. n : c[k] = a + k - 1
  BY <1>1, <1>2
<1> QED BY <1>3 DEF Cells, n

LEMMA CellsAround ==
  ASSUME NEW a \in 0 .. Ring, NEW b \in 0 .. Ring
  PROVE  LET q == Cells(a, Ring) \o Cells(0, b)
         IN  /\ q \in Seq(Nat) /\ Len(q) = Ring - a + b
             /\ \A k \in 1 .. (Ring - a + b) : q[k] = Place(a, k - 1)
<1> DEFINE x == Cells(a, Ring)
           y == Cells(0, b)
<1>0. Ring \in Nat /\ a \in Nat /\ b \in Nat /\ a <= Ring
  BY ReadyAssumption
<1>1. x \in Seq(Nat) /\ Len(x) = Ring - a /\ \A k \in 1 .. (Ring - a) : x[k] = a + k - 1
  BY <1>0, CellsFrom
<1>2. y \in Seq(Nat) /\ Len(y) = b /\ \A k \in 1 .. b : y[k] = k - 1
  <2>1. y \in Seq(Nat) /\ Len(y) = b - 0 /\ \A k \in 1 .. (b - 0) : y[k] = 0 + k - 1
    BY <1>0, CellsFrom
  <2>2. b - 0 = b /\ \A k \in 1 .. b : 0 + k - 1 = k - 1
    BY <1>0
  <2> QED BY <2>1, <2>2
<1> HIDE DEF x, y
<1>3. /\ x \o y \in Seq(Nat) /\ Len(x \o y) = Len(x) + Len(y)
      /\ \A i \in 1 .. (Len(x) + Len(y)) :
           (x \o y)[i] = IF i <= Len(x) THEN x[i] ELSE y[i - Len(x)]
  BY <1>1, <1>2, ConcatProperties
<1>4. ASSUME NEW k \in 1 .. (Ring - a + b) PROVE (x \o y)[k] = Place(a, k - 1)
  <2>1. (x \o y)[k] = IF k <= Ring - a THEN x[k] ELSE y[k - (Ring - a)]
    BY <1>1, <1>2, <1>3
  <2>2. CASE k <= Ring - a
    <3>1. k \in 1 .. (Ring - a) /\ a + k - 1 = Place(a, k - 1)
      BY <1>0, <2>2 DEF Place
    <3> QED BY <1>1, <2>1, <2>2, <3>1
  <2>3. CASE ~(k <= Ring - a)
    <3>1. k - (Ring - a) \in 1 .. b /\ k - (Ring - a) - 1 = Place(a, k - 1)
      BY <1>0, <2>3 DEF Place
    <3> QED BY <1>2, <2>1, <2>3, <3>1
  <2> QED BY <2>2, <2>3
<1>5. x \o y \in Seq(Nat) /\ Len(x \o y) = Ring - a + b
  BY <1>1, <1>2, <1>3
<1> QED BY <1>4, <1>5 DEF x, y

\* write() finds the cells behind the filled ones, in order.
LEMMA SpaceIsBehind ==
  ASSUME NEW s \in 0 .. Ring, NEW n \in 0 .. (Ring - 1)
  PROVE  /\ Space(s, n) \in Seq(Nat) /\ Len(Space(s, n)) = Ring - n
         /\ \A k \in 1 .. (Ring - n) : Space(s, n)[k] = Place(s, n + k - 1)
<1>0. Ring \in Nat \ {0} /\ s \in Nat /\ n \in Nat /\ s + n \in Nat /\ s + n < 2 * Ring
  BY ReadyAssumption
<1>1. CASE s + n < Ring
  <2> DEFINE q == Cells(s + n, Ring) \o Cells(0, s)
  <2>1. s + n \in 0 .. Ring
    BY <1>0, <1>1
  <2>2. /\ q \in Seq(Nat) /\ Len(q) = Ring - (s + n) + s
        /\ \A k \in 1 .. (Ring - (s + n) + s) : q[k] = Place(s + n, k - 1)
    BY <2>1, CellsAround
  <2>3. Space(s, n) = q
    BY <1>1 DEF Space
  <2> HIDE DEF q
  <2>4. Ring - (s + n) + s = Ring - n
    BY <1>0
  <2>5. \A k \in 1 .. (Ring - n) : Place(s + n, k - 1) = Place(s, n + k - 1)
    BY <1>0 DEF Place
  <2> QED BY <2>2, <2>3, <2>4, <2>5
<1>2. CASE ~(s + n < Ring)
  <2> DEFINE e == s + n - Ring
  <2>1. (s + n) % Ring = e /\ e \in Nat /\ e <= s /\ s - e = Ring - n
    BY <1>0, <1>2
  <2>2. Space(s, n) = Cells(e, s)
    BY <1>2, <2>1 DEF Space
  <2>3. \A k \in 1 .. (Ring - n) : e + k - 1 = Place(s, n + k - 1)
    BY <1>0, <1>2 DEF Place
  <2> HIDE DEF e
  <2>4. /\ Cells(e, s) \in Seq(Nat) /\ Len(Cells(e, s)) = s - e
        /\ \A k \in 1 .. (s - e) : Cells(e, s)[k] = e + k - 1
    BY <1>0, <2>1, CellsFrom
  <2> QED BY <2>1, <2>2, <2>3, <2>4
<1> QED BY <1>1, <1>2

\* pump() gives the filled cells, in order, unless they are all cells from the last.
LEMMA SegmentsAreFilled ==
  ASSUME NEW s \in 0 .. Ring, NEW n \in 1 .. Ring, s + n < 2 * Ring
  PROVE  /\ Segments(s, n) \in Seq(Nat) /\ Len(Segments(s, n)) = n
         /\ \A k \in 1 .. n : Segments(s, n)[k] = Place(s, k - 1)
<1>0. Ring \in Nat \ {0} /\ s \in Nat /\ n \in Nat /\ s + n \in Nat /\ s <= s + n
  BY ReadyAssumption
<1>1. CASE s + n <= Ring
  <2>1. /\ Cells(s, s + n) \in Seq(Nat) /\ Len(Cells(s, s + n)) = (s + n) - s
        /\ \A k \in 1 .. ((s + n) - s) : Cells(s, s + n)[k] = s + k - 1
    BY <1>0, CellsFrom
  <2>2. Segments(s, n) = Cells(s, s + n)
    BY <1>1 DEF Segments
  <2>3. (s + n) - s = n /\ \A k \in 1 .. n : s + k - 1 = Place(s, k - 1)
    BY <1>0, <1>1 DEF Place
  <2> QED BY <2>1, <2>2, <2>3
<1>2. CASE ~(s + n <= Ring)
  <2> DEFINE e == s + n - Ring
             q == Cells(s, Ring) \o Cells(0, e)
  <2>1. (s + n) % Ring = e /\ e \in 0 .. Ring /\ Ring - s + e = n
    BY <1>0, <1>2
  <2>2. Segments(s, n) = q
    BY <1>2, <2>1 DEF Segments
  <2> HIDE DEF e
  <2>3. /\ q \in Seq(Nat) /\ Len(q) = Ring - s + e
        /\ \A k \in 1 .. (Ring - s + e) : q[k] = Place(s, k - 1)
    BY <2>1, CellsAround
  <2> HIDE DEF q
  <2> QED BY <2>1, <2>2, <2>3
<1> QED BY <1>1, <1>2

\* What follows the cells that a pump has emptied.
LEMMA PumpEndIsNext ==
  ASSUME NEW s \in 0 .. Ring, NEW g \in 1 .. Ring, s > 0 => g < Ring
  PROVE  /\ PumpEnd(s, g) \in 0 .. Ring
         /\ \A k \in 0 .. (Ring - g - 1) : Place(PumpEnd(s, g), k) = Place(s, g + k)
<1>0. Ring \in Nat \ {0} /\ s \in Nat /\ g \in Nat /\ s + g \in Nat /\ s + g < 2 * Ring
  BY ReadyAssumption
<1>1. CASE s + g <= Ring
  BY <1>0, <1>1 DEF PumpEnd, Place
<1>2. CASE ~(s + g <= Ring)
  <2>1. PumpEnd(s, g) = s + g - Ring
    BY <1>0, <1>2 DEF PumpEnd
  <2> QED BY <1>0, <1>2, <2>1 DEF Place
<1> QED BY <1>1, <1>2

-----------------------------------------------------------------------------
\* Numbers, and their continuation.
LEMMA NumbersGoOn ==
  ASSUME NEW m \in Nat, NEW n \in Nat, NEW q \in Seq(Nat), Len(q) = n,
         \A k \in 1 .. n : q[k] = m + k
  PROVE  Numbers(m) \o q = Numbers(m + n) /\ Len(Numbers(m)) = m /\ Numbers(m) \in Seq(Nat)
<1>1. \A j \in Nat : Numbers(j) \in Seq(Nat) /\ Len(Numbers(j)) = j /\ \A i \in 1 .. j : Numbers(j)[i] = i
  <2> TAKE j \in Nat
  <2> QED BY DEF Numbers
<1> DEFINE a == Numbers(m)
           b == Numbers(m + n)
<1>2. a \in Seq(Nat) /\ Len(a) = m /\ \A i \in 1 .. m : a[i] = i
  BY <1>1
<1>3. b \in Seq(Nat) /\ Len(b) = m + n /\ \A i \in 1 .. (m + n) : b[i] = i
  BY <1>1
<1> HIDE DEF a, b
<1>4. /\ a \o q \in Seq(Nat) /\ Len(a \o q) = Len(a) + Len(q)
      /\ \A i \in 1 .. (Len(a) + Len(q)) :
           (a \o q)[i] = IF i <= Len(a) THEN a[i] ELSE q[i - Len(a)]
  BY <1>2, ConcatProperties
<1>5. Len(a \o q) = Len(b)
  BY <1>2, <1>3, <1>4
<1>6. ASSUME NEW i \in 1 .. Len(a \o q) PROVE (a \o q)[i] = b[i]
  <2>1. i \in 1 .. (m + n) /\ b[i] = i
    BY <1>3, <1>5
  <2>2. (a \o q)[i] = IF i <= m THEN a[i] ELSE q[i - m]
    BY <1>2, <1>4, <2>1
  <2>3. CASE i <= m
    <3>1. i \in 1 .. m
      BY <2>1, <2>3
    <3> QED BY <1>2, <2>1, <2>2, <2>3, <3>1
  <2>4. CASE ~(i <= m)
    <3>1. i - m \in 1 .. n /\ m + (i - m) = i
      BY <2>1, <2>4
    <3> QED BY <2>1, <2>2, <2>4, <3>1
  <2> QED BY <2>3, <2>4
<1>7. a \o q = b
  BY <1>3, <1>4, <1>5, <1>6, SameElements
<1> QED BY <1>2, <1>7 DEF a, b

\* New streams satisfy the invariant.
LEMMA ReadyStart == ReadyInit => ReadyInv
<1> SUFFICES ASSUME ReadyInit PROVE ReadyInv
  OBVIOUS
<1> USE DEF ReadyInit
<1>1. OutTypeOK
  <2>1. cell \in [0 .. (Ring - 1) -> Nat]
    OBVIOUS
  <2>2. start \in 0 .. Ring /\ filled \in 0 .. Ring
    BY ReadyAssumption
  <2>3. given \in Seq(Nat) /\ sent \in Seq(Nat) /\ written \in Nat
    OBVIOUS
  <2>4. isPumping \in BOOLEAN /\ corked \in BOOLEAN
    OBVIOUS
  <2> QED BY <2>1, <2>2, <2>3, <2>4, Zenon DEF OutTypeOK
<1>2. Numbers(0) = <<>>
  BY DEF Numbers
<1>3. PumpHasTheFirst /\ RingHoldsTheRest /\ SentInOrder
  BY <1>2 DEF PumpHasTheFirst, RingHoldsTheRest, SentInOrder
<1>4. InInv
  <2>1. returned \o content = <<>>
    OBVIOUS
  <2>2. content \in Seq(Nat) /\ returned \in Seq(Nat) /\ received = 0 /\ received \in Nat
    OBVIOUS
  <2>3. reading \in BOOLEAN /\ content = <<>>
    OBVIOUS
  <2> QED BY <1>2, <2>1, <2>2, <2>3, Zenon DEF InInv
<1> QED BY <1>1, <1>3, <1>4 DEF ReadyInv, OutInv

\* A pump that starts gets what is there.
LEMMA PumpStarts ==
  ASSUME NEW f \in 1 .. Ring
  PROVE  /\ Segments(0, f) \in Seq(Nat) /\ Len(Segments(0, f)) = f
         /\ \A k \in 1 .. f : Segments(0, f)[k] = Place(0, k - 1)
<1>1. 0 \in 0 .. Ring /\ 0 + f < 2 * Ring
  BY ReadyAssumption
<1> QED BY <1>1, SegmentsAreFilled

\* write(): the new bytes go behind the others, whether or not these are on their way.
LEMMA WriteKeeps == ASSUME OutInv, NEW n \in WriteSizes, WriteSome(n) PROVE OutInv'
<1> DEFINE room == Space(start, filled)
           m    == IF n < Len(room) THEN n ELSE Len(room)
<1>1. /\ cell' = [i \in DOMAIN cell |->
                    IF \E k \in 1 .. m : room[k] = i
                    THEN written + (CHOOSE k \in 1 .. m : room[k] = i) ELSE cell[i]]
  BY DEF WriteSome
<1>2. /\ written' = written + m /\ filled' = filled + m
       /\ start' = start /\ corked' = corked /\ sent' = sent
  BY DEF WriteSome
<1>3. IF ~isPumping /\ (~corked \/ filled + m = Ring)
       THEN isPumping' = TRUE /\ given' = Segments(start, filled + m)
       ELSE UNCHANGED <<isPumping, given>>
  BY DEF WriteSome
<1>4. n > 0 /\ filled < Ring
  BY DEF WriteSome
<1>5. /\ cell \in [0 .. (Ring - 1) -> Nat] /\ start \in 0 .. Ring /\ filled \in 0 .. (Ring - 1)
      /\ written \in Nat /\ isPumping \in BOOLEAN /\ corked \in BOOLEAN
      /\ given \in Seq(Nat) /\ sent \in Seq(Nat) /\ Len(sent) \in Nat /\ Ring \in Nat \ {0}
      /\ n \in Nat
  BY <1>4, ReadyAssumption DEF OutInv, OutTypeOK
<1>6. /\ room \in Seq(Nat) /\ Len(room) = Ring - filled
      /\ \A k \in 1 .. (Ring - filled) : room[k] = Place(start, filled + k - 1)
  BY <1>5, SpaceIsBehind
<1> HIDE DEF room
<1>7. m \in 1 .. (Ring - filled)
  BY <1>5, <1>6, <1>4
<1> HIDE DEF m
<1>8. \A k \in 1 .. m : /\ room[k] = Place(start, filled + k - 1)
                        /\ filled + k - 1 \in 0 .. (Ring - 1) /\ k \in Nat
  <2>1. Ring \in Nat /\ filled \in Nat /\ m \in Nat /\ m <= Ring - filled
    BY <1>5, <1>7
  <2>2. \A k \in 1 .. m : k \in 1 .. (Ring - filled) /\ filled + k - 1 \in 0 .. (Ring - 1)
    BY <2>1
  <2> QED BY <1>6, <2>2
<1>9. /\ \A k \in 0 .. (Ring - 1) : Place(start, k) \in 0 .. (Ring - 1)
      /\ \A j, k \in 0 .. (Ring - 1) : Place(start, j) = Place(start, k) => j = k
  BY <1>5, Places
<1>10. ASSUME NEW i \in 0 .. (Ring - 1)
      PROVE  cell'[i] = IF \E k \in 1 .. m : room[k] = i
                        THEN written + (CHOOSE k \in 1 .. m : room[k] = i) ELSE cell[i]
  BY <1>1, <1>5
<1>11. cell' \in [0 .. (Ring - 1) -> Nat]
  <2>1. ASSUME NEW i \in 0 .. (Ring - 1)
        PROVE  (IF \E k \in 1 .. m : room[k] = i
                THEN written + (CHOOSE k \in 1 .. m : room[k] = i) ELSE cell[i]) \in Nat
    <3>1. CASE \E k \in 1 .. m : room[k] = i
      <4> DEFINE c == CHOOSE k \in 1 .. m : room[k] = i
      <4>1. c \in 1 .. m
        BY <3>1
      <4> HIDE DEF c
      <4>2. written + c \in Nat
        BY <1>5, <1>7, <4>1
      <4> QED BY <3>1, <4>2 DEF c
    <3>2. CASE ~ \E k \in 1 .. m : room[k] = i
      BY <1>5, <3>2
    <3> QED BY <3>1, <3>2
  <2>2. DOMAIN cell = 0 .. (Ring - 1)
    BY <1>5
  <2> QED BY <1>1, <2>1, <2>2
<1>12. RingHoldsTheRest'
  <2>1. ASSUME NEW k \in 0 .. ((filled + m) - 1)
        PROVE  cell'[Place(start, k)] = Len(sent) + k + 1
    <3>0. k \in 0 .. (Ring - 1)
      BY <1>5, <1>7
    <3>1. k \in 0 .. (Ring - 1) /\ Place(start, k) \in 0 .. (Ring - 1)
      BY <1>9, <3>0
    <3>2. CASE k < filled
      <4>1. ~ \E j \in 1 .. m : room[j] = Place(start, k)
        <5> SUFFICES ASSUME NEW j \in 1 .. m, room[j] = Place(start, k) PROVE FALSE
          OBVIOUS
        <5>1. filled + j - 1 = k
          BY <1>8, <1>9, <3>1
        <5> QED BY <1>5, <3>1, <3>2, <5>1
      <4>2. cell'[Place(start, k)] = cell[Place(start, k)]
        BY <1>10, <3>1, <4>1
      <4>3. k \in 0 .. (filled - 1)
        BY <1>5, <3>1, <3>2
      <4> QED BY <4>2, <4>3 DEF OutInv, RingHoldsTheRest
    <3>3. CASE ~(k < filled)
      <4> DEFINE j == k - filled + 1
      <4>1. j \in 1 .. m /\ filled + j - 1 = k
        BY <1>5, <1>7, <3>3
      <4> HIDE DEF j
      <4>2. room[j] = Place(start, k)
        BY <1>8, <4>1
      <4>3. \A i \in 1 .. m : room[i] = Place(start, k) => i = j
        <5> SUFFICES ASSUME NEW i \in 1 .. m, room[i] = Place(start, k) PROVE i = j
          OBVIOUS
        <5>1. filled + i - 1 = k
          BY <1>8, <1>9, <3>1
        <5>2. i \in Nat /\ j \in Nat /\ filled \in Nat
          BY <1>5, <1>7, <4>1
        <5> QED BY <4>1, <5>1, <5>2
      <4>4. (CHOOSE i \in 1 .. m : room[i] = Place(start, k)) = j
        BY <4>1, <4>2, <4>3
      <4>5. cell'[Place(start, k)] = written + j
        BY <1>10, <3>1, <4>1, <4>2, <4>4
      <4>6. Len(sent) + filled = written
        BY DEF OutInv, SentInOrder
      <4>7. j \in Nat /\ filled \in Nat /\ Len(sent) \in Nat
        BY <1>5, <1>7, <4>1
      <4>8. Len(sent) + k + 1 = written + j
        BY <4>1, <4>6, <4>7
      <4> QED BY <4>5, <4>8
    <3> QED BY <3>2, <3>3
  <2>2. RingHoldsTheRest' <=>
          \A k \in 0 .. (filled' - 1) : cell'[Place(start', k)] = Len(sent') + k + 1
    BY DEF RingHoldsTheRest
  <2>3. filled' - 1 = (filled + m) - 1 /\ start' = start /\ sent' = sent
    BY <1>2
  <2> QED BY <2>1, <2>2, <2>3, Zenon
<1>13. filled + m \in 1 .. Ring
  BY <1>5, <1>7
<1>14. /\ start' \in 0 .. Ring /\ filled' \in 0 .. Ring /\ corked' \in BOOLEAN
       /\ written' \in Nat /\ sent' \in Seq(Nat)
  BY <1>5, <1>7, <1>13, <1>2
<1>15. sent' = Numbers(Len(sent')) /\ Len(sent') + filled' = written'
  <2>1. sent = Numbers(Len(sent)) /\ Len(sent) + filled = written
    BY DEF OutInv, SentInOrder
  <2>2. Len(sent) \in Nat /\ filled \in Nat /\ m \in Nat
    BY <1>5, <1>7
  <2>3. Len(sent) + (filled + m) = written + m
    BY <2>1, <2>2
  <2> QED BY <1>2, <2>1, <2>3
<1>16. CASE ~isPumping /\ (~corked \/ filled + m = Ring)
  <2>1. start = 0
    BY <1>16 DEF OutInv, PumpHasTheFirst
  <2>2. isPumping' = TRUE /\ given' = Segments(0, filled + m)
    BY <1>16, <1>3, <2>1
  <2>3. /\ given' \in Seq(Nat) /\ Len(given') = filled + m
        /\ \A k \in 1 .. (filled + m) : given'[k] = Place(0, k - 1)
    BY <1>13, <2>2, PumpStarts
  <2>4. PumpHasTheFirst'
    BY <1>13, <1>2, <2>1, <2>2, <2>3 DEF PumpHasTheFirst
  <2>5. OutTypeOK'
    BY <1>11, <1>14, <2>2, <2>3 DEF OutTypeOK
  <2>6. SentInOrder'
    BY <1>2, <1>15, <2>2 DEF SentInOrder
  <2> QED BY <1>12, <2>4, <2>5, <2>6 DEF OutInv
<1>17. CASE ~(~isPumping /\ (~corked \/ filled + m = Ring))
  <2>1. isPumping' = isPumping /\ given' = given
    BY <1>17, <1>3
  <2>2. PumpHasTheFirst'
    <3>1. ASSUME Len(given) \in 1 .. filled PROVE Len(given) \in 1 .. (filled + m)
      BY <1>5, <1>7, <3>1
    <3> QED BY <1>2, <2>1, <3>1 DEF OutInv, PumpHasTheFirst
  <2>3. OutTypeOK'
    BY <1>5, <1>11, <1>14, <2>1 DEF OutTypeOK
  <2>4. SentInOrder'
    BY <1>17, <1>2, <1>15, <2>1 DEF SentInOrder
  <2> QED BY <1>12, <2>2, <2>3, <2>4 DEF OutInv
<1> QED BY <1>16, <1>17

\* The cork goes on, or the output fails: nothing moves.
LEMMA CorkKeeps == ASSUME OutInv, Cork \/ PumpFails PROVE OutInv'
<1>1. UNCHANGED <<cell, start, filled, isPumping, given, written, sent>>
  BY DEF Cork, PumpFails
<1>2. corked' \in BOOLEAN /\ (corked => corked')
  BY DEF Cork, PumpFails, OutInv, OutTypeOK
<1>3. OutTypeOK' /\ PumpHasTheFirst' /\ RingHoldsTheRest'
  BY <1>1, <1>2 DEF OutInv, OutTypeOK, PumpHasTheFirst, RingHoldsTheRest
<1>4. SentInOrder'
  BY <1>1, <1>2 DEF OutInv, SentInOrder
<1> QED BY <1>3, <1>4 DEF OutInv

\* The cork comes off.
LEMMA UncorkKeeps == ASSUME OutInv, Uncork PROVE OutInv'
<1>1. /\ UNCHANGED <<cell, start, filled, written, sent>> /\ corked' = FALSE
      /\ IF ~isPumping /\ filled > 0
         THEN isPumping' = TRUE /\ given' = Segments(start, filled)
         ELSE UNCHANGED <<isPumping, given>>
  BY DEF Uncork
<1>2. RingHoldsTheRest'
  BY <1>1 DEF OutInv, RingHoldsTheRest
<1>3. filled \in 0 .. Ring /\ Ring \in Nat
  BY ReadyAssumption DEF OutInv, OutTypeOK
<1>4. CASE ~isPumping /\ filled > 0
  <2>1. start = 0 /\ isPumping' = TRUE /\ given' = Segments(0, filled)
    BY <1>1, <1>4 DEF OutInv, PumpHasTheFirst
  <2>2. filled \in 1 .. Ring
    BY <1>3, <1>4
  <2>3. /\ given' \in Seq(Nat) /\ Len(given') = filled
        /\ \A k \in 1 .. filled : given'[k] = Place(0, k - 1)
    BY <2>1, <2>2, PumpStarts
  <2>4. PumpHasTheFirst'
    BY <1>1, <2>1, <2>2, <2>3 DEF PumpHasTheFirst
  <2>5. OutTypeOK' /\ SentInOrder'
    BY <1>1, <2>1, <2>3 DEF OutInv, OutTypeOK, SentInOrder
  <2> QED BY <1>2, <2>4, <2>5 DEF OutInv
<1>5. CASE ~(~isPumping /\ filled > 0)
  <2>1. UNCHANGED <<isPumping, given>>
    BY <1>1, <1>5
  <2>2. PumpHasTheFirst'
    BY <1>1, <2>1 DEF OutInv, PumpHasTheFirst
  <2>3. OutTypeOK' /\ SentInOrder'
    BY <1>1, <1>5, <2>1 DEF OutInv, OutTypeOK, SentInOrder
  <2> QED BY <1>2, <2>2, <2>3 DEF OutInv
<1> QED BY <1>4, <1>5

\* The output has taken what it was given, and the pump goes on behind it.
LEMMA PumpDoneKeeps == ASSUME OutInv, PumpDone PROVE OutInv'
<1> DEFINE g    == Len(given)
           left == filled - g
           end  == PumpEnd(start, g)
           took == [k \in DOMAIN given |-> cell[given[k]]]
<1>1. /\ isPumping /\ sent' = sent \o took /\ filled' = left
      /\ cell' = cell /\ corked' = corked /\ written' = written
  BY DEF PumpDone
<1>2. IF left > 0
      THEN start' = end /\ given' = Segments(end, left) /\ isPumping' = isPumping
      ELSE start' = 0 /\ given' = <<>> /\ isPumping' = FALSE
  BY DEF PumpDone
<1>3. /\ cell \in [0 .. (Ring - 1) -> Nat] /\ start \in 0 .. Ring /\ filled \in 0 .. Ring
      /\ written \in Nat /\ corked \in BOOLEAN /\ given \in Seq(Nat) /\ sent \in Seq(Nat)
      /\ Ring \in Nat \ {0}
  BY ReadyAssumption DEF OutInv, OutTypeOK
<1>4. /\ g \in 1 .. filled /\ (start > 0 => g < Ring)
      /\ \A k \in 1 .. g : given[k] = Place(start, k - 1)
  BY <1>1 DEF OutInv, PumpHasTheFirst
<1>5. DOMAIN given = 1 .. g
  BY <1>3
<1>6. sent = Numbers(Len(sent)) /\ Len(sent) + filled = written /\ Len(sent) \in Nat
  BY <1>3 DEF OutInv, SentInOrder
<1>7. \A k \in 0 .. (filled - 1) : cell[Place(start, k)] = Len(sent) + k + 1
  BY DEF OutInv, RingHoldsTheRest
<1> HIDE DEF g
<1>8. g \in Nat /\ filled \in Nat /\ g >= 1 /\ g <= filled /\ filled <= Ring
  BY <1>3, <1>4
<1>9. \A k \in 1 .. g : cell[given[k]] = Len(sent) + k
  <2> TAKE k \in 1 .. g
  <2>1. k - 1 \in 0 .. (filled - 1)
    BY <1>8
  <2>2. cell[Place(start, k - 1)] = Len(sent) + (k - 1) + 1
    BY <1>7, <2>1
  <2>3. Len(sent) + (k - 1) + 1 = Len(sent) + k
    BY <1>6, <1>8
  <2> QED BY <1>4, <2>2, <2>3
<1>10. took \in Seq(Nat) /\ Len(took) = g /\ \A k \in 1 .. g : took[k] = Len(sent) + k
  <2>1. took = [k \in 1 .. g |-> Len(sent) + k]
    BY <1>5, <1>9
  <2> HIDE DEF took
  <2>2. \A k \in 1 .. g : Len(sent) + k \in Nat
    BY <1>6, <1>8
  <2> QED BY <1>8, <2>1, <2>2
<1> HIDE DEF took
<1>11. sent' = Numbers(Len(sent) + g)
  <2> DEFINE s == Len(sent)
  <2>1. s \in Nat /\ sent = Numbers(s) /\ \A k \in 1 .. g : took[k] = s + k
    BY <1>6, <1>10
  <2> HIDE DEF s
  <2>2. Numbers(s) \o took = Numbers(s + g)
    BY <1>8, <1>10, <2>1, NumbersGoOn
  <2>3. sent' = Numbers(s + g)
    BY <1>1, <2>1, <2>2
  <2> QED BY <2>3 DEF s
<1>12. sent' \in Seq(Nat) /\ Len(sent') = Len(sent) + g
  <2> DEFINE s == Len(sent) + g
  <2>1. s \in Nat
    BY <1>6, <1>8
  <2> HIDE DEF s
  <2>2. Numbers(s) \in Seq(Nat) /\ Len(Numbers(s)) = s
    BY <2>1 DEF Numbers
  <2> QED BY <1>11, <2>2 DEF s
<1>13. left \in Nat /\ left < Ring /\ left <= Ring - g /\ Len(sent') + left = written
  <2>1. Len(sent) \in Nat /\ Ring \in Nat
    BY <1>3, <1>6
  <2>2. left \in Nat /\ left < Ring /\ left <= Ring - g
    BY <1>8, <2>1
  <2>3. (Len(sent) + g) + left = Len(sent) + filled
    BY <1>8, <2>1
  <2> QED BY <1>6, <1>12, <2>2, <2>3
<1>14. /\ end \in 0 .. Ring
       /\ \A k \in 0 .. (Ring - g - 1) : Place(end, k) = Place(start, g + k)
  <2>1. g \in 1 .. Ring
    BY <1>3, <1>8
  <2> QED BY <1>3, <1>4, <2>1, PumpEndIsNext
<1> HIDE DEF end
<1>15. CASE left > 0
  <2>1. start' = end /\ given' = Segments(end, left) /\ isPumping' = isPumping
    BY <1>2, <1>15
  <2>2. left \in 1 .. Ring /\ end + left < 2 * Ring
    <3>1. Ring \in Nat /\ end \in 0 .. Ring /\ left \in Nat /\ left < Ring
      BY <1>3, <1>13, <1>14
    <3> HIDE DEF left
    <3> QED BY <1>15, <3>1
  <2>3. /\ given' \in Seq(Nat) /\ Len(given') = left
        /\ \A k \in 1 .. left : given'[k] = Place(end, k - 1)
    <3> HIDE DEF left
    <3> QED BY <1>14, <2>1, <2>2, SegmentsAreFilled
  <2>4. ASSUME NEW k \in 0 .. (left - 1)
        PROVE  cell[Place(end, k)] = (Len(sent) + g) + k + 1
    <3>1. k \in 0 .. (Ring - g - 1) /\ g + k \in 0 .. (filled - 1)
      BY <1>3, <1>8, <1>13
    <3>2. cell[Place(start, g + k)] = Len(sent) + (g + k) + 1
      BY <1>7, <3>1
    <3>3. Len(sent) + (g + k) + 1 = (Len(sent) + g) + k + 1
      BY <1>6, <1>8
    <3> QED BY <1>14, <3>1, <3>2, <3>3
  <2> HIDE DEF left
  <2>5. RingHoldsTheRest'
    <3>1. RingHoldsTheRest' <=>
            \A k \in 0 .. (filled' - 1) : cell'[Place(start', k)] = Len(sent') + k + 1
      BY DEF RingHoldsTheRest
    <3> QED BY <1>1, <1>12, <2>1, <2>4, <3>1, Zenon
  <2>6. PumpHasTheFirst'
    <3>1. Len(given') \in 1 .. left /\ Len(given') < Ring
      BY <1>13, <2>2, <2>3
    <3> QED BY <1>1, <2>1, <2>3, <3>1 DEF PumpHasTheFirst
  <2>7. OutTypeOK'
    <3>1. filled' \in 0 .. Ring
      BY <1>1, <2>2
    <3>2. start' \in 0 .. Ring /\ isPumping' \in BOOLEAN
      BY <1>1, <1>14, <2>1
    <3> QED BY <1>1, <1>3, <1>12, <2>3, <3>1, <3>2 DEF OutTypeOK
  <2>8. SentInOrder'
    BY <1>1, <1>11, <1>12, <1>13, <2>1 DEF SentInOrder
  <2> QED BY <2>5, <2>6, <2>7, <2>8 DEF OutInv
<1>16. CASE ~(left > 0)
  <2>1. start' = 0 /\ given' = <<>> /\ isPumping' = FALSE
    BY <1>2, <1>16
  <2>2. filled' = 0
    BY <1>1, <1>13, <1>16
  <2>3. PumpHasTheFirst' /\ RingHoldsTheRest'
    BY <2>1, <2>2 DEF PumpHasTheFirst, RingHoldsTheRest
  <2>4. OutTypeOK'
    <3>1. filled' \in 0 .. Ring /\ start' \in 0 .. Ring /\ given' \in Seq(Nat)
      BY <1>3, <2>1, <2>2
    <3> QED BY <1>1, <1>3, <1>12, <2>1, <3>1 DEF OutTypeOK
  <2>5. SentInOrder'
    BY <1>1, <1>11, <1>12, <1>13, <2>2 DEF SentInOrder
  <2> QED BY <2>3, <2>4, <2>5 DEF OutInv
<1> QED BY <1>15, <1>16

-----------------------------------------------------------------------------
\* read(): what is returned is cut off the content.
LEMMA ReadKeeps == ASSUME InInv, NEW n \in ReadSizes, ReadSome(n) PROVE InInv'
<1> DEFINE m == IF n < Len(content) THEN n ELSE Len(content)
<1>1. /\ content \in Seq(Nat) /\ returned \in Seq(Nat) /\ received \in Nat /\ reading \in BOOLEAN
      /\ (reading => content = <<>>) /\ returned \o content = Numbers(received)
  BY DEF InInv
<1>2. received' = received
  BY DEF ReadSome
<1>3. CASE content = <<>>
  <2>1. reading' = TRUE /\ content' = content /\ returned' = returned
    BY <1>3 DEF ReadSome
  <2> QED BY <1>1, <1>2, <1>3, <2>1 DEF InInv
<1>4. CASE content # <<>>
  <2> DEFINE a == SubSeq(content, 1, m)
             b == SubSeq(content, m + 1, Len(content))
  <2>1. returned' = returned \o a /\ content' = b /\ reading' = reading
    BY <1>4 DEF ReadSome
  <2>2. m \in 0 .. Len(content) /\ Len(content) \in Nat
    BY <1>1, ReadyAssumption
  <2> HIDE DEF m
  <2>3. a \in Seq(Nat) /\ b \in Seq(Nat) /\ a \o b = content
    <3>1. a \in Seq(Nat) /\ Len(a) = m /\ \A i \in 1 .. m : a[i] = content[i]
      BY <1>1, <2>2
    <3>2. /\ b \in Seq(Nat) /\ Len(b) = Len(content) - m
          /\ \A i \in 1 .. (Len(content) - m) : b[i] = content[m + i]
      BY <1>1, <2>2
    <3> HIDE DEF a, b
    <3>3. /\ a \o b \in Seq(Nat) /\ Len(a \o b) = Len(a) + Len(b)
          /\ \A i \in 1 .. (Len(a) + Len(b)) :
               (a \o b)[i] = IF i <= Len(a) THEN a[i] ELSE b[i - Len(a)]
      BY <3>1, <3>2, ConcatProperties
    <3>4. Len(a \o b) = Len(content)
      BY <2>2, <3>1, <3>2, <3>3
    <3>5. ASSUME NEW i \in 1 .. Len(a \o b) PROVE (a \o b)[i] = content[i]
      <4>1. i \in 1 .. (Len(a) + Len(b)) /\ i \in 1 .. Len(content)
        BY <3>3, <3>4
      <4>2. CASE i <= m
        <5>1. i \in 1 .. m
          BY <2>2, <4>1, <4>2
        <5> QED BY <3>1, <3>3, <4>1, <4>2, <5>1
      <4>3. CASE ~(i <= m)
        <5>1. i - m \in 1 .. (Len(content) - m) /\ m + (i - m) = i
          BY <2>2, <4>1, <4>3
        <5>2. (a \o b)[i] = b[i - m]
          BY <3>1, <3>3, <4>1, <4>3
        <5> QED BY <3>2, <5>1, <5>2
      <4> QED BY <4>2, <4>3
    <3>6. a \o b = content
      BY <1>1, <3>3, <3>4, <3>5, SameElements
    <3> QED BY <3>1, <3>2, <3>6
  <2> HIDE DEF a, b
  <2>4. (returned \o a) \o b = returned \o (a \o b)
    <3>1. returned \in Seq(Nat) /\ a \in Seq(Nat) /\ b \in Seq(Nat)
      BY <1>1, <2>3
    <3>2. \A x, y, z \in Seq(Nat) : (x \o y) \o z = x \o (y \o z)
      OBVIOUS
    <3> QED BY <3>1, <3>2, Zenon
  <2>5. returned' \o content' = Numbers(received')
    BY <1>1, <1>2, <2>1, <2>3, <2>4
  <2>6. returned' \in Seq(Nat) /\ content' \in Seq(Nat)
    BY <1>1, <2>1, <2>3, ConcatProperties
  <2>7. ~reading'
    BY <1>1, <1>4, <2>1
  <2>8. received' \in Nat /\ reading' \in BOOLEAN
    BY <1>1, <1>2, <2>1
  <2> QED BY <2>5, <2>6, <2>7, <2>8, Zenon DEF InInv
<1> QED BY <1>3, <1>4

\* The input answers a read, into the empty buffer.
LEMMA InputKeeps == ASSUME InInv, NEW n \in 0 .. Ring, InputAnswers(n) PROVE InInv'
<1>1. /\ content = <<>> /\ returned \in Seq(Nat) /\ received \in Nat
      /\ returned \o content = Numbers(received)
  BY DEF InInv, InputAnswers
<1>2. reading' = FALSE /\ received' = received + n /\ returned' = returned
  BY DEF InputAnswers
<1>3. n \in Nat /\ returned = Numbers(received) /\ received + n \in Nat
  BY <1>1, ReadyAssumption
<1>4. CASE n = 0
  <2>1. content' = content /\ received' = received
    BY <1>1, <1>2, <1>4 DEF InputAnswers
  <2> QED BY <1>1, <1>2, <2>1 DEF InInv
<1>5. CASE n # 0
  <2>1. content' = [i \in 1 .. n |-> received + i]
    BY <1>5 DEF InputAnswers
  <2>2. /\ content' \in Seq(Nat) /\ Len(content') = n
        /\ \A k \in 1 .. n : content'[k] = received + k
    <3>1. \A i \in 1 .. n : received + i \in Nat
      BY <1>1, <1>3
    <3> QED BY <1>3, <2>1, <3>1
  <2>3. Numbers(received) \o content' = Numbers(received + n)
    BY <1>1, <1>3, <2>2, NumbersGoOn
  <2>4. returned' \o content' = Numbers(received')
    BY <1>2, <1>3, <2>3
  <2> QED BY <1>1, <1>2, <1>3, <2>2, <2>4 DEF InInv
<1> QED BY <1>4, <1>5

-----------------------------------------------------------------------------
\* The inductive invariant of the readiness adapters: the ring holds what was
\* written and not sent, from start on, and a pump that runs was given its first
\* cells; what the input yielded was returned or is in the buffer (readiness-io.cc).
THEOREM ReadyInvariant == ReadySpec => []ReadyInv
<1>1. ReadyInv /\ [ReadyNext]_readyVars => ReadyInv'
  <2> SUFFICES ASSUME ReadyInv, [ReadyNext]_readyVars PROVE ReadyInv'
    OBVIOUS
  <2>1. OutInv /\ InInv
    BY DEF ReadyInv
  <2>2. UNCHANGED outVars => OutInv'
    BY <2>1 DEF outVars, OutInv, OutTypeOK, PumpHasTheFirst, RingHoldsTheRest, SentInOrder
  <2>3. UNCHANGED inVars => InInv'
    BY <2>1 DEF inVars, InInv
  <2>4. CASE UNCHANGED readyVars
    BY <2>2, <2>3, <2>4 DEF readyVars, outVars, inVars, ReadyInv
  <2>5. CASE \/ \E n \in WriteSizes : WriteSome(n)
             \/ Cork \/ Uncork \/ PumpDone \/ PumpFails
    <3>1. UNCHANGED inVars
      BY <2>5 DEF WriteSome, Cork, Uncork, PumpDone, PumpFails
    <3>2. OutInv'
      BY <2>1, <2>5, WriteKeeps, CorkKeeps, UncorkKeeps, PumpDoneKeeps
    <3> QED BY <2>3, <3>1, <3>2 DEF ReadyInv
  <2>6. CASE (\E n \in ReadSizes : ReadSome(n)) \/ \E n \in 0 .. Ring : InputAnswers(n)
    <3>1. UNCHANGED outVars
      BY <2>6 DEF ReadSome, InputAnswers
    <3>2. InInv'
      BY <2>1, <2>6, ReadKeeps, InputKeeps
    <3> QED BY <2>2, <3>1, <3>2 DEF ReadyInv
  <2> QED BY <2>4, <2>5, <2>6 DEF ReadyNext
<1> QED BY <1>1, ReadyStart, PTL DEF ReadySpec

\* ReadinessKeepsBytes holds for a buffer of any size and writes and reads of any
\* size: the bytes come out in order, through every wrap of the ring and every write
\* during a pump, and none is left behind without a pump or a cork.
THEOREM BytesAreKept == ReadySpec => []ReadinessKeepsBytes
<1>1. ReadyInv => ReadinessKeepsBytes
  BY DEF ReadyInv, OutInv, SentInOrder, InInv, Numbers, ReadinessKeepsBytes
<1> QED BY <1>1, ReadyInvariant, PTL

(***************************************************************************)
(* The event port                                                          *)
(***************************************************************************)

Modes == {"run", "computed", "wait", "outer"}

\* The variables hold what their declarations say; a timer has a time.
PortTypeOK ==
  /\ clock \in 0 .. EndOfTime /\ time \in 0 .. EndOfTime
  /\ due \in [Timers -> Nat] /\ timers \in SUBSET Timers
  /\ timerFd \in Nat /\ until \in Nat
  /\ hooks \in BOOLEAN /\ armedFlag \in BOOLEAN /\ eventFd \in BOOLEAN
  /\ sleeping \in BOOLEAN /\ runnable \in BOOLEAN
  /\ mode \in Modes /\ spun \in {"no", "capped"}
  /\ child \in [Children -> {"none", "alive", "zombie", "reaped"}]
  /\ waiting \in SUBSET Children

\* No timer is set to the time that stands for none.
TimersAreSet == \A t \in timers : due[t] < Never

\* Whatever may happen while an outer loop sleeps, the epoll fd will be readable:
\* it is already, or setRunnable() will see to it and the timerfd expires when the
\* first timer is due.
OuterIsTold ==
  /\ hooks => mode = "outer"
  /\ mode = "outer" =>
       \/ eventFd
       \/ sleeping /\ hooks /\ ~runnable /\ \A t \in timers : timerFd <= due[t]

\* A timeout that is not the largest one ends no earlier than some timer is due.
TimeoutIsLate ==
  /\ mode = "computed" /\ spun = "no" =>
       until = Never \/ \E t \in timers : due[t] <= clock + until * Unit
  /\ mode = "wait" /\ spun = "no" => until = Never \/ \E t \in timers : due[t] <= until

\* The inductive invariant.
PortInv == PortTypeOK /\ TimersAreSet /\ OuterIsTold /\ TimeoutIsLate /\ ExitsAreReported

-----------------------------------------------------------------------------
\* A nonempty set of times has a least one.
LEMMA LeastTime ==
  ASSUME NEW S \in SUBSET Nat, S # {}
  PROVE  Min(S) \in S /\ \A y \in S : Min(S) <= y
<1> DEFINE R == OpToRel(<, Nat)
<1>1. IsWellFoundedOn(R, Nat)
  BY NatLessThanWellFounded
<1>2. PICK x \in S : \A y \in S : <<y, x>> \notin R
  <2> HIDE DEF R
  <2> QED BY <1>1, WFMin
<1>3. \A y \in S : ~(y < x)
  BY <1>2 DEF OpToRel
<1>4. \A y \in S : x \in Nat /\ y \in Nat
  BY <1>2
<1>5. \A y \in S : x <= y
  BY <1>3, <1>4
<1>6. \E z \in S : \A y \in S : z <= y
  BY <1>2, <1>5
<1> QED BY <1>6, Zenon DEF Min

\* The time of the first of some timers.
LEMMA FirstTimer ==
  ASSUME NEW f \in [Timers -> Nat], NEW ts \in SUBSET Timers, ts # {}
  PROVE  /\ Min({f[t] : t \in ts}) \in Nat
         /\ \E t \in ts : f[t] = Min({f[u] : u \in ts})
         /\ \A t \in ts : Min({f[u] : u \in ts}) <= f[t]
<1> DEFINE S == {f[t] : t \in ts}
<1>1. S \in SUBSET Nat /\ S # {}
  OBVIOUS
<1>2. Min(S) \in S /\ \A y \in S : Min(S) <= y
  <2> HIDE DEF S
  <2> QED BY <1>1, LeastTime
<1>3. \E t \in ts : f[t] = Min(S)
  BY <1>2
<1>4. \A t \in ts : Min(S) <= f[t]
  BY <1>2
<1>5. Min(S) \in Nat
  BY <1>1, <1>2
<1> QED BY <1>3, <1>4, <1>5

\* timeoutToNextEvent() rounds up.
LEMMA RoundedUp ==
  ASSUME NEW a \in Nat, NEW u \in Nat \ {0}
  PROVE  LET ceil == a \div u + (IF a % u > 0 THEN 1 ELSE 0)
         IN  ceil \in Nat /\ ceil * u >= a
<1>1. a \in Int /\ u \in Int /\ u > 0
  OBVIOUS
<1>2. a = u * (a \div u) + (a % u)
  BY <1>1, Z3
<1>3. a \div u \in Nat
  OBVIOUS
<1>4. a % u \in 0 .. (u - 1)
  OBVIOUS
<1> DEFINE q == a \div u
           m == a % u
<1>5. q \in Nat /\ m \in 0 .. (u - 1) /\ a = u * q + m
  BY <1>2, <1>3, <1>4
<1> HIDE DEF q, m
<1>6. (q + 1) * u = u * q + u
  BY <1>5
<1>7. q * u = u * q
  BY <1>5
<1> QED BY <1>5, <1>6, <1>7 DEF q, m

\* The timeout of wait() reaches the first timer, unless it is the largest.
LEMMA TimeoutReaches ==
  ASSUME PortTypeOK
  PROVE  /\ TimeoutToNextEvent(clock) \in Nat
         /\ \/ TimeoutToNextEvent(clock) \in {Never, MaxUnits}
            \/ \E t \in timers : due[t] <= clock + TimeoutToNextEvent(clock) * Unit
<1>1. /\ clock \in Nat /\ due \in [Timers -> Nat] /\ timers \in SUBSET Timers
      /\ Unit \in Nat \ {0} /\ MaxUnits \in Nat /\ Never \in Nat
  BY PortAssumption DEF PortTypeOK
<1> DEFINE next == Min({due[t] : t \in timers})
           span == next - clock
           ceil == span \div Unit + (IF span % Unit > 0 THEN 1 ELSE 0)
<1>2. TimeoutToNextEvent(clock) =
        IF timers = {} THEN Never
        ELSE IF next <= clock THEN 0
        ELSE IF span \div Unit >= MaxUnits THEN MaxUnits ELSE ceil
  BY DEF TimeoutToNextEvent
<1>3. CASE timers = {}
  BY <1>1, <1>2, <1>3
<1>4. CASE timers # {}
  <2>1. next \in Nat /\ \E t \in timers : due[t] = next
    BY <1>1, <1>4, FirstTimer
  <2>2. PICK t \in timers : due[t] = next
    BY <2>1
  <2> HIDE DEF next
  <2>3. CASE next <= clock
    <3>1. TimeoutToNextEvent(clock) = 0
      BY <1>2, <1>4, <2>3
    <3>2. 0 * Unit = 0 /\ clock + 0 = clock
      BY <1>1
    <3> QED BY <2>2, <2>3, <3>1, <3>2
  <2>4. CASE ~(next <= clock)
    <3>1. span \in Nat /\ clock + span = next
      BY <1>1, <2>1, <2>4
    <3> HIDE DEF span
    <3>2. ceil \in Nat /\ ceil * Unit >= span
      BY <1>1, <3>1, RoundedUp
    <3> HIDE DEF ceil
    <3>3. CASE span \div Unit >= MaxUnits
      BY <1>1, <1>2, <1>4, <2>4, <3>3
    <3>4. CASE ~(span \div Unit >= MaxUnits)
      <4>1. TimeoutToNextEvent(clock) = ceil
        BY <1>2, <1>4, <2>4, <3>4
      <4>2. ceil * Unit \in Nat
        BY <1>1, <3>2
      <4>3. due[t] <= clock + ceil * Unit
        BY <1>1, <2>2, <3>1, <3>2, <4>2
      <4> QED BY <3>2, <4>1, <4>3
    <3> QED BY <3>3, <3>4
  <2> QED BY <2>3, <2>4
<1> QED BY <1>3, <1>4

-----------------------------------------------------------------------------
\* An idle port satisfies the invariant.
LEMMA PortStart == PortInit => PortInv
<1> SUFFICES ASSUME PortInit PROVE PortInv
  OBVIOUS
<1>1. PortTypeOK
  <2>1. clock \in 0 .. EndOfTime /\ time \in 0 .. EndOfTime
    BY PortAssumption DEF PortInit
  <2>2. due \in [Timers -> Nat] /\ timerFd \in Nat /\ until \in Nat
    BY PortAssumption DEF PortInit
  <2>3. child \in [Children -> {"none", "alive", "zombie", "reaped"}]
    BY DEF PortInit
  <2>4. timers \in SUBSET Timers /\ waiting \in SUBSET Children
    BY DEF PortInit
  <2> QED BY <2>1, <2>2, <2>3, <2>4 DEF PortInit, PortTypeOK, Modes
<1>2. TimersAreSet /\ OuterIsTold /\ TimeoutIsLate /\ ExitsAreReported
  BY DEF PortInit, TimersAreSet, OuterIsTold, TimeoutIsLate, ExitsAreReported
<1> QED BY <1>1, <1>2 DEF PortInv

\* What signals and children do not touch.
LEMMA SignalsRest ==
  ASSUME ExitsAreReported, UNCHANGED signalVars
  PROVE  ExitsAreReported'
BY DEF ExitsAreReported, signalVars

\* The clock ticks: what was due stays due, and a timeout that reached a timer
\* does so all the more.
LEMMA TickKeeps == ASSUME PortInv, Tick PROVE PortInv'
<1> USE DEF Tick, PortInv
<1>1. PortTypeOK'
  BY PortAssumption DEF PortTypeOK, timerVars, fdVars, signalVars
<1>2. TimersAreSet' /\ OuterIsTold'
  BY DEF TimersAreSet, OuterIsTold, timerVars, fdVars
<1>3. TimeoutIsLate'
  <2>1. until * Unit \in Nat /\ clock \in Nat /\ \A t \in timers : due[t] \in Nat
    BY PortAssumption DEF PortTypeOK
  <2>2. \A t \in timers : due[t] <= clock + until * Unit => due[t] <= (clock + 1) + until * Unit
    BY <2>1
  <2> QED BY <2>2 DEF TimeoutIsLate, timerVars
<1>4. ExitsAreReported'
  BY SignalsRest
<1> QED BY <1>1, <1>2, <1>3, <1>4

\* wake() from another thread, setRunnable() and the queue that is run.
LEMMA WakeKeeps == ASSUME PortInv, WakeFromThread \/ SetRunnable \/ RunQueue PROVE PortInv'
<1> USE DEF PortInv
<1>1. /\ UNCHANGED <<clock, timerVars, hooks, timerFd, armedFlag, mode, until, spun, signalVars>>
      /\ runnable' \in BOOLEAN /\ sleeping' \in BOOLEAN /\ eventFd' \in BOOLEAN
      /\ eventFd => eventFd'
  BY DEF WakeFromThread, SetRunnable, RunQueue, PortTypeOK
<1>2. PortTypeOK' /\ TimersAreSet'
  BY <1>1 DEF PortTypeOK, TimersAreSet, timerVars, signalVars
<1>3. TimeoutIsLate' /\ ExitsAreReported'
  BY <1>1, SignalsRest DEF TimeoutIsLate, timerVars
<1>4. OuterIsTold'
  <2>1. CASE WakeFromThread
    <3>1. eventFd'
      BY <2>1 DEF WakeFromThread
    <3> QED BY <1>1, <3>1 DEF OuterIsTold
  <2>2. CASE SetRunnable
    <3>1. mode = "outer" => eventFd'
      BY <2>2 DEF SetRunnable, OuterIsTold, PortTypeOK
    <3> QED BY <1>1, <3>1 DEF OuterIsTold
  <2>3. CASE RunQueue
    <3>1. mode # "outer"
      BY <2>3 DEF RunQueue
    <3> QED BY <1>1, <3>1 DEF OuterIsTold
  <2> QED BY <2>1, <2>2, <2>3
<1> QED BY <1>2, <1>3, <1>4

\* Timers, clock and port rest while signals and children come and go.
LEMMA ChildKeeps ==
  ASSUME PortInv,
         \/ \E s \in Signals : OnSignal(s) \/ Raise(s)
         \/ \E c \in Children : Spawn(c) \/ ChildExits(c)
  PROVE  PortInv'
<1> USE DEF PortInv
<1>1. UNCHANGED <<clock, timerVars, fdVars, mode, until, spun>>
  BY DEF OnSignal, Raise, Spawn, ChildExits
<1>2. /\ child' \in [Children -> {"none", "alive", "zombie", "reaped"}]
      /\ waiting' \in SUBSET Children
  BY DEF OnSignal, Raise, Spawn, ChildExits, PortTypeOK
<1>3. PortTypeOK' /\ TimersAreSet'
  BY <1>1, <1>2 DEF PortTypeOK, TimersAreSet, timerVars, fdVars
<1>4. OuterIsTold' /\ TimeoutIsLate'
  BY <1>1 DEF OuterIsTold, TimeoutIsLate, timerVars, fdVars
<1>5. ExitsAreReported'
  BY DEF OnSignal, Raise, Spawn, ChildExits, ExitsAreReported, PortTypeOK
<1> QED BY <1>3, <1>4, <1>5

\* wait() computes its timeout.
LEMMA WaitKeeps == ASSUME PortInv, Wait PROVE PortInv'
<1> USE DEF PortInv
<1>1. /\ UNCHANGED <<clock, timerVars, hooks, timerFd, armedFlag, eventFd, runnable, signalVars>>
      /\ mode = "run" /\ mode' = "computed" /\ sleeping' = FALSE
      /\ until' = TimeoutToNextEvent(clock)
      /\ spun' = IF until' = MaxUnits THEN "capped" ELSE "no"
  BY DEF Wait
<1>2. /\ until' \in Nat
      /\ \/ until' \in {Never, MaxUnits}
         \/ \E t \in timers : due[t] <= clock + until' * Unit
  BY <1>1, TimeoutReaches
<1>3. PortTypeOK' /\ TimersAreSet'
  BY <1>1, <1>2 DEF PortTypeOK, TimersAreSet, Modes, timerVars, signalVars
<1>4. OuterIsTold'
  BY <1>1 DEF OuterIsTold
<1>5. TimeoutIsLate'
  BY <1>1, <1>2 DEF TimeoutIsLate, timerVars
<1>6. ExitsAreReported'
  BY <1>1, SignalsRest
<1> QED BY <1>3, <1>4, <1>5, <1>6

\* epoll_pwait() is entered, perhaps some time later.
LEMMA EpollWaitKeeps == ASSUME PortInv, EpollWait PROVE PortInv'
<1> USE DEF PortInv
<1>1. /\ UNCHANGED <<clock, timerVars, fdVars, spun, signalVars>>
      /\ mode = "computed" /\ mode' = "wait"
      /\ until' = IF until = Never THEN Never ELSE clock + until * Unit
  BY DEF EpollWait
<1>2. until' \in Nat
  <2>1. until * Unit \in Nat /\ clock \in Nat /\ Never \in Nat
    BY PortAssumption DEF PortTypeOK
  <2> QED BY <1>1, <2>1
<1>3. PortTypeOK' /\ TimersAreSet'
  BY <1>1, <1>2 DEF PortTypeOK, TimersAreSet, Modes, timerVars, fdVars, signalVars
<1>4. OuterIsTold'
  BY <1>1 DEF OuterIsTold, timerVars, fdVars
<1>5. TimeoutIsLate'
  BY <1>1 DEF TimeoutIsLate, timerVars
<1>6. ExitsAreReported'
  BY <1>1, SignalsRest
<1> QED BY <1>3, <1>4, <1>5, <1>6

\* A SIGCHLD reaps all who have exited, so that those who still wait do so for
\* children that live, or for whom another SIGCHLD has to come.
LEMMA SignalsAreHandled ==
  ASSUME PortTypeOK, ExitsAreReported, NEW sigs, GotSignals(sigs)
  PROVE  /\ child' \in [Children -> {"none", "alive", "zombie", "reaped"}]
         /\ waiting' \in SUBSET Children
         /\ ExitsAreReported'
<1>1. /\ child \in [Children -> {"none", "alive", "zombie", "reaped"}]
      /\ waiting \in SUBSET Children
  BY DEF PortTypeOK
<1>2. CASE "CHLD" \in sigs
  <2>1. /\ child' = [c \in Children |-> IF c \in Exited THEN "reaped" ELSE child[c]]
        /\ waiting' = waiting \ Exited
    BY <1>2 DEF GotSignals
  <2>2. ASSUME NEW c \in waiting' PROVE child'[c] # "reaped" /\ child'[c] # "zombie"
    <3>1. c \in Children /\ c \in waiting /\ c \notin Exited /\ child'[c] = child[c]
      BY <1>1, <2>1
    <3> QED BY <3>1 DEF Exited, ExitsAreReported
  <2>3. child' \in [Children -> {"none", "alive", "zombie", "reaped"}]
    BY <1>1, <2>1
  <2> QED BY <1>1, <2>1, <2>2, <2>3 DEF ExitsAreReported
<1>3. CASE "CHLD" \notin sigs
  <2>1. child' = child /\ waiting' = waiting /\ ("CHLD" \in pending => "CHLD" \in pending')
    BY <1>3 DEF GotSignals
  <2> QED BY <1>1, <2>1 DEF ExitsAreReported
<1> QED BY <1>2, <1>3

\* The loop runs again: some timers have fired, the hooks are gone.
LEMMA EventsAreProcessed ==
  ASSUME PortTypeOK, TimersAreSet, NEW b, ProcessEpollEvents(b),
         UNCHANGED clock, sleeping' \in BOOLEAN, spun' \in {"no", "capped"},
         child' \in [Children -> {"none", "alive", "zombie", "reaped"}],
         waiting' \in SUBSET Children
  PROVE  PortTypeOK' /\ TimersAreSet' /\ OuterIsTold' /\ TimeoutIsLate'
<1>1. /\ mode' = "run" /\ hooks' = FALSE /\ time' = clock /\ until' = Never /\ due' = due
      /\ timers' = timers \ Expired
  BY DEF ProcessEpollEvents, AdvanceTo
<1>2. eventFd' \in BOOLEAN /\ runnable' \in BOOLEAN
  BY DEF ProcessEpollEvents
<1>3. timerFd' \in Nat /\ armedFlag' \in BOOLEAN
  BY PortAssumption DEF ProcessEpollEvents, PortTypeOK
<1>4. PortTypeOK'
  BY <1>1, <1>2, <1>3, PortAssumption DEF PortTypeOK, Modes
<1>5. TimersAreSet' /\ OuterIsTold' /\ TimeoutIsLate'
  BY <1>1 DEF TimersAreSet, OuterIsTold, TimeoutIsLate
<1> QED BY <1>4, <1>5

\* poll(), and epoll_pwait() that returns for a signal or an event.
LEMMA PollKeeps == ASSUME PortInv, PortPoll PROVE PortInv'
<1>1. /\ GotSignals(Interesting) /\ ProcessEpollEvents(TRUE)
      /\ UNCHANGED <<clock, spun>> /\ sleeping' = FALSE
  BY DEF PortPoll
<1>2. /\ child' \in [Children -> {"none", "alive", "zombie", "reaped"}]
      /\ waiting' \in SUBSET Children /\ ExitsAreReported'
  BY <1>1, SignalsAreHandled DEF PortInv
<1>3. spun' \in {"no", "capped"} /\ sleeping' \in BOOLEAN
  BY <1>1 DEF PortInv, PortTypeOK
<1>4. PortTypeOK' /\ TimersAreSet' /\ OuterIsTold' /\ TimeoutIsLate'
  BY <1>1, <1>2, <1>3, EventsAreProcessed DEF PortInv
<1> QED BY <1>2, <1>4 DEF PortInv

LEMMA WaitReturnsKeeps == ASSUME PortInv, WaitReturns PROVE PortInv'
<1>1. UNCHANGED <<clock, sleeping>> /\ mode = "wait" /\ sleeping' \in BOOLEAN
  BY DEF WaitReturns, PortInv, PortTypeOK
<1>2. CASE Interesting # {} /\ GotSignals(Interesting) /\ ProcessEpollEvents(FALSE) /\ UNCHANGED spun
  <2>1. /\ child' \in [Children -> {"none", "alive", "zombie", "reaped"}]
        /\ waiting' \in SUBSET Children /\ ExitsAreReported'
    BY <1>2, SignalsAreHandled DEF PortInv
  <2>2. spun' \in {"no", "capped"}
    BY <1>2 DEF PortInv, PortTypeOK
  <2> QED BY <1>1, <1>2, <2>1, <2>2, EventsAreProcessed DEF PortInv
<1>3. ASSUME UNCHANGED signalVars
      PROVE  /\ child' \in [Children -> {"none", "alive", "zombie", "reaped"}]
             /\ waiting' \in SUBSET Children /\ ExitsAreReported'
  BY <1>3, SignalsRest DEF PortInv, PortTypeOK, signalVars
<1>4. CASE Readable /\ UNCHANGED signalVars /\ ProcessEpollEvents(TRUE) /\ UNCHANGED spun
  <2>1. spun' \in {"no", "capped"}
    BY <1>4 DEF PortInv, PortTypeOK
  <2> QED BY <1>1, <1>3, <1>4, <2>1, EventsAreProcessed DEF PortInv
<1>5. CASE /\ ~Readable /\ clock >= until /\ UNCHANGED signalVars /\ ProcessEpollEvents(FALSE)
           /\ spun' = IF Expired = {} /\ spun # "capped" THEN "yes" ELSE "no"
  <2>1. spun = "capped" \/ Expired # {}
    <3> SUFFICES ASSUME spun # "capped" PROVE Expired # {}
      OBVIOUS
    <3>1. clock \in Nat /\ clock < Never /\ until \in Nat /\ spun = "no"
          /\ \A t \in timers : due[t] \in Nat
      BY PortAssumption DEF PortInv, PortTypeOK
    <3>2. until # Never
      BY <1>5, <3>1
    <3>3. PICK t \in timers : due[t] <= until
      BY <1>1, <3>1, <3>2 DEF PortInv, TimeoutIsLate
    <3>4. due[t] <= clock
      BY <1>5, <3>1, <3>3
    <3> QED BY <3>4 DEF Expired
  <2>2. spun' \in {"no", "capped"}
    BY <1>5, <2>1
  <2> QED BY <1>1, <1>3, <1>5, <2>2, EventsAreProcessed DEF PortInv
<1> QED BY <1>2, <1>4, <1>5 DEF WaitReturns

-----------------------------------------------------------------------------
\* updateNextTimerEvent() sets the timerfd to the next event if there is one.
LEMMA TimerFdIsSet ==
  ASSUME NEW next \in Nat, UpdateNextTimerEvent(next), timerFd \in Nat, armedFlag \in BOOLEAN
  PROVE  /\ timerFd' \in Nat /\ armedFlag' \in BOOLEAN
         /\ next # Never => timerFd' = next
BY DEF UpdateNextTimerEvent

\* nextEvent() is the first of the timers.
LEMMA NextEventIsFirst ==
  ASSUME NEW ts \in SUBSET Timers, due' \in [Timers -> Nat], \A t \in ts : due'[t] < Never
  PROVE  /\ NextEvent(ts) \in Nat
         /\ NextEvent(ts) = Never => ts = {}
         /\ \A t \in ts : NextEvent(ts) <= due'[t]
<1>1. CASE ts = {}
  BY <1>1, PortAssumption DEF NextEvent
<1>2. CASE ts # {}
  <2> DEFINE first == Min({due'[t] : t \in ts})
  <2>1. /\ first \in Nat /\ \E t \in ts : due'[t] = first
        /\ \A t \in ts : first <= due'[t]
    BY <1>2, FirstTimer
  <2>2. NextEvent(ts) = first
    BY <1>2 DEF NextEvent
  <2> HIDE DEF first
  <2>3. first # Never
    <3>1. PICK t \in ts : due'[t] = first
      BY <2>1
    <3>2. first < Never /\ Never \in Nat
      BY <3>1, PortAssumption
    <3> QED BY <2>1, <3>2
  <2> QED BY <2>1, <2>2, <2>3
<1> QED BY <1>1, <1>2

\* The part of the invariant that new, dropped and sleeping timers cannot disturb.
LEMMA TimersAlone ==
  ASSUME PortInv, mode' \in {"run", "outer"},
         UNCHANGED <<clock, time, runnable, until, spun, signalVars>>,
         due' \in [Timers -> Nat], timers' \in SUBSET Timers, \A t \in timers' : due'[t] < Never,
         timerFd' \in Nat, armedFlag' \in BOOLEAN, eventFd' \in BOOLEAN, sleeping' \in BOOLEAN,
         hooks' \in BOOLEAN, OuterIsTold'
  PROVE  PortInv'
<1>1. PortTypeOK'
  BY DEF PortInv, PortTypeOK, Modes, signalVars
<1>2. TimersAreSet' /\ TimeoutIsLate'
  BY DEF TimersAreSet, TimeoutIsLate
<1>3. ExitsAreReported'
  BY SignalsRest DEF PortInv
<1> QED BY <1>1, <1>2, <1>3 DEF PortInv

\* A timer is set, and the sleep hooks are told when it is the first.
LEMMA AfterDelayKeeps ==
  ASSUME PortInv, NEW t \in Timers, NEW d \in Delays, AfterDelay(t, d)
  PROVE  PortInv'
<1> DEFINE at == (IF hooks THEN clock ELSE time) + d
<1>1. /\ mode \in {"run", "outer"} /\ due[t] = Never
      /\ due' = [due EXCEPT ![t] = at] /\ timers' = timers \cup {t}
      /\ IF hooks /\ \A u \in timers : at < due[u]
         THEN UpdateNextTimerEvent(at)
         ELSE UNCHANGED <<timerFd, armedFlag>>
      /\ UNCHANGED <<clock, time, hooks, eventFd, sleeping, runnable, mode, until, spun, signalVars>>
  BY DEF AfterDelay
<1>2. /\ clock \in 0 .. EndOfTime /\ time \in 0 .. EndOfTime /\ hooks \in BOOLEAN
      /\ due \in [Timers -> Nat] /\ timers \in SUBSET Timers
      /\ timerFd \in Nat /\ armedFlag \in BOOLEAN /\ eventFd \in BOOLEAN
      /\ sleeping \in BOOLEAN
  BY DEF PortInv, PortTypeOK
<1>3. at \in Nat /\ at < Never
  <2>1. d \in Nat /\ EndOfTime + d < Never /\ EndOfTime \in Nat /\ Never \in Nat
    BY PortAssumption
  <2>2. CASE hooks
    BY <1>2, <2>1, <2>2
  <2>3. CASE ~hooks
    BY <1>2, <2>1, <2>3
  <2> QED BY <2>2, <2>3
<1> HIDE DEF at
<1>4. /\ due' \in [Timers -> Nat] /\ timers' \in SUBSET Timers /\ due'[t] = at
      /\ \A u \in timers \ {t} : due'[u] = due[u]
  BY <1>1, <1>2, <1>3
<1>5. \A u \in timers' : due'[u] < Never
  BY <1>1, <1>3, <1>4 DEF PortInv, TimersAreSet
<1>6. timerFd' \in Nat /\ armedFlag' \in BOOLEAN
  <2>1. CASE hooks /\ \A u \in timers : at < due[u]
    BY <1>1, <1>2, <1>3, <2>1, TimerFdIsSet
  <2>2. CASE ~(hooks /\ \A u \in timers : at < due[u])
    BY <1>1, <1>2, <2>2
  <2> QED BY <2>1, <2>2
<1>7. OuterIsTold'
  <2>1. CASE mode # "outer" \/ eventFd
    BY <1>1, <2>1 DEF PortInv, OuterIsTold
  <2>2. CASE mode = "outer" /\ ~eventFd
    <3>1. sleeping /\ hooks /\ ~runnable /\ \A u \in timers : timerFd <= due[u]
      BY <2>2 DEF PortInv, OuterIsTold
    <3>0. mode' = "outer" /\ sleeping' /\ hooks' /\ ~runnable'
      BY <1>1, <2>2, <3>1
    <3>2. CASE \A u \in timers : at < due[u]
      <4>1. timerFd' = at
        BY <1>1, <1>2, <1>3, <3>1, <3>2, TimerFdIsSet
      <4>2. ASSUME NEW u \in timers' PROVE timerFd' <= due'[u]
        <5>1. CASE u = t
          BY <1>3, <1>4, <4>1, <5>1
        <5>2. CASE u # t
          <6>1. u \in timers /\ due'[u] = due[u] /\ at < due[u] /\ due[u] \in Nat
            BY <1>1, <1>2, <1>4, <3>2, <5>2
          <6> QED BY <1>3, <4>1, <6>1
        <5> QED BY <5>1, <5>2
      <4> QED BY <3>0, <4>2 DEF OuterIsTold
    <3>3. CASE \E u \in timers : ~(at < due[u])
      <4>1. timerFd' = timerFd
        BY <1>1, <3>3
      <4>2. PICK u \in timers : ~(at < due[u])
        BY <3>3
      <4>3. timerFd <= at
        <5>1. timerFd <= due[u] /\ due[u] \in Nat
          BY <1>2, <3>1
        <5> QED BY <1>2, <1>3, <4>2, <5>1
      <4>4. \A v \in timers' : timerFd' <= due'[v]
        BY <1>1, <1>4, <3>1, <4>1, <4>3
      <4> QED BY <3>0, <4>4 DEF OuterIsTold
    <3> QED BY <3>2, <3>3
  <2> QED BY <2>1, <2>2
<1>8. eventFd' \in BOOLEAN /\ sleeping' \in BOOLEAN /\ hooks' \in BOOLEAN /\ mode' \in {"run", "outer"}
  BY <1>1, <1>2
<1> QED BY <1>1, <1>4, <1>5, <1>6, <1>7, <1>8, TimersAlone

\* A timer is dropped, and the timerfd set to the next one if it was the first.
LEMMA DropTimerKeeps ==
  ASSUME PortInv, NEW t \in Timers, DropTimer(t)
  PROVE  PortInv'
<1>1. /\ mode \in {"run", "outer"} /\ timers' = timers \ {t} /\ due' = due
      /\ \/ UpdateNextTimerEvent(NextEvent(timers \ {t}))
         \/ UNCHANGED <<timerFd, armedFlag>>
      /\ UNCHANGED <<clock, time, hooks, eventFd, sleeping, runnable, mode, until, spun, signalVars>>
  BY DEF DropTimer
<1>2. /\ hooks \in BOOLEAN /\ due \in [Timers -> Nat] /\ timers \in SUBSET Timers
      /\ timerFd \in Nat /\ armedFlag \in BOOLEAN /\ eventFd \in BOOLEAN
      /\ sleeping \in BOOLEAN
  BY DEF PortInv, PortTypeOK
<1>3. due' \in [Timers -> Nat] /\ timers' \in SUBSET Timers /\ \A u \in timers' : due'[u] < Never
  BY <1>1, <1>2 DEF PortInv, TimersAreSet
<1> DEFINE ts   == timers \ {t}
           next == NextEvent(ts)
<1>4. next \in Nat /\ (next = Never => ts = {}) /\ \A u \in ts : next <= due'[u]
  <2>1. ts \in SUBSET Timers /\ \A u \in ts : due'[u] < Never
    BY <1>1, <1>2, <1>3
  <2> HIDE DEF ts
  <2> QED BY <1>3, <2>1, NextEventIsFirst
<1>5. UpdateNextTimerEvent(next) \/ UNCHANGED <<timerFd, armedFlag>>
  BY <1>1
<1>6. timers' = ts
  BY <1>1
<1> HIDE DEF ts, next
<1>7. timerFd' \in Nat /\ armedFlag' \in BOOLEAN
  <2>1. CASE UpdateNextTimerEvent(next)
    BY <1>2, <1>4, <2>1, TimerFdIsSet
  <2> QED BY <1>2, <1>5, <2>1
<1>8. OuterIsTold'
  <2>1. CASE mode # "outer" \/ eventFd
    BY <1>1, <2>1 DEF PortInv, OuterIsTold
  <2>2. CASE mode = "outer" /\ ~eventFd
    <3>1. sleeping /\ hooks /\ ~runnable /\ \A u \in timers : timerFd <= due[u]
      BY <2>2 DEF PortInv, OuterIsTold
    <3>2. mode' = "outer" /\ sleeping' /\ hooks' /\ ~runnable'
      BY <1>1, <2>2, <3>1
    <3>3. ASSUME NEW u \in timers' PROVE timerFd' <= due'[u]
      <4>1. CASE UpdateNextTimerEvent(next)
        <5>1. next # Never
          BY <1>4, <1>6
        <5>2. timerFd' = next
          BY <1>2, <1>4, <4>1, <5>1, TimerFdIsSet
        <5> QED BY <1>4, <1>6, <5>2
      <4>2. CASE UNCHANGED <<timerFd, armedFlag>>
        BY <1>1, <3>1, <4>2
      <4> QED BY <1>5, <4>1, <4>2
    <3> QED BY <3>2, <3>3 DEF OuterIsTold
  <2> QED BY <2>1, <2>2
<1>9. eventFd' \in BOOLEAN /\ sleeping' \in BOOLEAN /\ hooks' \in BOOLEAN /\ mode' \in {"run", "outer"}
  BY <1>1, <1>2
<1> QED BY <1>1, <1>3, <1>7, <1>8, <1>9, TimersAlone

\* preparePollableFdForSleep() leaves the eventfd set, or the hooks and the timerfd.
LEMMA PrepareKeeps == ASSUME PortInv, PreparePollableFdForSleep PROVE PortInv'
<1>1. /\ mode = "run" /\ mode' = "outer"
      /\ UNCHANGED <<clock, time, timers, runnable, until, spun, signalVars>>
      /\ due' = due
  BY DEF PreparePollableFdForSleep
<1>2. /\ hooks \in BOOLEAN /\ due \in [Timers -> Nat] /\ timers \in SUBSET Timers
      /\ timerFd \in Nat /\ armedFlag \in BOOLEAN /\ eventFd \in BOOLEAN
      /\ sleeping \in BOOLEAN /\ runnable \in BOOLEAN
  BY DEF PortInv, PortTypeOK
<1>3. due' \in [Timers -> Nat] /\ timers' \in SUBSET Timers /\ \A u \in timers' : due'[u] < Never
  BY <1>1, <1>2 DEF PortInv, TimersAreSet
<1>4. CASE runnable
  <2>1. eventFd' = TRUE /\ UNCHANGED <<timerFd, armedFlag, sleeping, hooks>>
    BY <1>4 DEF PreparePollableFdForSleep
  <2>2. OuterIsTold'
    BY <1>1, <2>1 DEF OuterIsTold
  <2>3. /\ timerFd' \in Nat /\ armedFlag' \in BOOLEAN /\ eventFd' \in BOOLEAN
        /\ sleeping' \in BOOLEAN /\ hooks' \in BOOLEAN
    BY <1>2, <2>1
  <2> QED BY <1>1, <1>3, <2>2, <2>3, TimersAlone
<1>5. CASE ~runnable
  <2> DEFINE next == NextEvent(timers)
  <2>1. UpdateNextTimerEvent(next) /\ sleeping' = TRUE /\ hooks' = TRUE /\ eventFd' = eventFd
    BY <1>5 DEF PreparePollableFdForSleep
  <2>2. next \in Nat /\ (next = Never => timers = {}) /\ \A u \in timers : next <= due'[u]
    <3>1. \A u \in timers : due'[u] < Never
      BY <1>1, <1>3
    <3> QED BY <1>2, <1>3, <3>1, NextEventIsFirst
  <2> HIDE DEF next
  <2>3. timerFd' \in Nat /\ armedFlag' \in BOOLEAN /\ (next # Never => timerFd' = next)
    BY <1>2, <2>1, <2>2, TimerFdIsSet
  <2>4. \A u \in timers' : timerFd' <= due'[u]
    BY <1>1, <2>2, <2>3
  <2>5. ~runnable'
    BY <1>1, <1>5
  <2>6. OuterIsTold'
    BY <1>1, <2>1, <2>4, <2>5 DEF OuterIsTold
  <2>7. eventFd' \in BOOLEAN /\ sleeping' \in BOOLEAN /\ hooks' \in BOOLEAN
    BY <1>2, <2>1
  <2> QED BY <1>1, <1>3, <2>3, <2>6, <2>7, TimersAlone
<1> QED BY <1>4, <1>5

-----------------------------------------------------------------------------
\* The inductive invariant of the port: its timers, its two descriptors and its
\* flags agree, whoever sleeps (timer.cc and async-unix.cc).
THEOREM PortInvariant == PortSpec => []PortInv
<1>1. PortInv /\ [PortNext]_portVars => PortInv'
  <2> SUFFICES ASSUME PortInv, [PortNext]_portVars PROVE PortInv'
    OBVIOUS
  <2>1. CASE UNCHANGED portVars
    BY <2>1 DEF portVars, timerVars, fdVars, signalVars, PortInv, PortTypeOK, TimersAreSet,
       OuterIsTold, TimeoutIsLate, ExitsAreReported
  <2>2. CASE \E t \in Timers : DropTimer(t) \/ \E d \in Delays : AfterDelay(t, d)
    BY <2>2, DropTimerKeeps, AfterDelayKeeps
  <2>3. CASE Tick \/ WakeFromThread \/ SetRunnable \/ RunQueue
    BY <2>3, TickKeeps, WakeKeeps
  <2>4. CASE \/ \E s \in Signals : OnSignal(s) \/ Raise(s)
             \/ \E c \in Children : Spawn(c) \/ ChildExits(c)
    BY <2>4, ChildKeeps
  <2>5. CASE Wait \/ EpollWait \/ WaitReturns \/ PortPoll \/ PreparePollableFdForSleep
    BY <2>5, WaitKeeps, EpollWaitKeeps, WaitReturnsKeeps, PollKeeps, PrepareKeeps
  <2> QED BY <2>1, <2>2, <2>3, <2>4, <2>5 DEF PortNext
<1> QED BY <1>1, PortStart, PTL DEF PortSpec

\* PortWakesInTime holds for any timers, delays and unit of epoll: an outer loop that
\* sleeps sees what is queued or due, and a wait() that ends by its timeout has a
\* timer to fire.
THEOREM PortIsInTime == PortSpec => []PortWakesInTime
<1>1. PortInv => SleepIsInterrupted
  <2> SUFFICES ASSUME PortInv, mode = "outer", runnable \/ Expired # {}, ~eventFd
               PROVE  timerFd <= clock
    BY DEF SleepIsInterrupted, Readable
  <2>1. ~runnable /\ \A t \in timers : timerFd <= due[t]
    BY DEF PortInv, OuterIsTold
  <2>2. PICK t \in timers : due[t] <= clock
    BY <2>1 DEF Expired
  <2>3. timerFd \in Nat /\ clock \in Nat /\ due[t] \in Nat
    BY DEF PortInv, PortTypeOK
  <2> QED BY <2>1, <2>2, <2>3
<1>2. PortInv => WaitMakesProgress
  BY DEF PortInv, PortTypeOK, WaitMakesProgress
<1> QED BY <1>1, <1>2, PortInvariant, PTL DEF PortWakesInTime

\* ExitsAreReported holds for any children and signals, however SIGCHLDs coalesce.
THEOREM ExitsReported == PortSpec => []ExitsAreReported
<1>1. PortInv => ExitsAreReported
  BY DEF PortInv
<1> QED BY <1>1, PortInvariant, PTL


(***************************************************************************)
(* The tee                                                                 *)
(***************************************************************************)

\* What a branch has in its sink while it waits.
WaitingSinks == [kind : {"read", "pump"}, min : Nat, max : Nat, got : Nat]

TeeTypeOK ==
  /\ alive \subseteq Branches
  /\ buffer \in [Branches -> Seq(Nat)]
  /\ sink \in [Branches -> WaitingSinks \cup {NoSink}]
  /\ flight \in [Branches -> Seq(Nat)]
  /\ seen \in [Branches -> Seq(Nat)]
  /\ base \in [Branches -> Nat]
  /\ ops \in [Branches -> Nat]
  /\ loop \in {"idle", "fill", "join", "read"}
  /\ need[2] \in Nat
  /\ stoppage \in {"none", "eof", "error"}
  /\ pulled \in Nat

\* The input's bytes after the first a, up to the b-th.
Input(a, b) == [i \in 1..(b - a) |-> a + i]

\* Nothing of the input is lost on its way, repeated or out of order.
BytesAreCarried ==
  \A b \in alive : /\ base[b] <= pulled
                   /\ seen[b] \o flight[b] \o buffer[b] = Input(base[b], pulled)

\* There is room for what was asked of the input, in every buffer.
RoomIsLeft ==
  \A b \in alive : /\ Len(buffer[b]) <= Limit
                   /\ loop = "read" => Len(buffer[b]) + need[2] <= Limit

\* Only a pump has bytes under way, no more than it may, and the loop waits for them.
PumpsAreAwaited ==
  \A b \in Branches : flight[b] # <<>> =>
    loop = "join" /\ sink[b].kind = "pump" /\ Len(flight[b]) <= sink[b].max

\* A sink belongs to a branch, which the loop serves.
SinksAreServed ==
  \A b \in Branches : sink[b] # NoSink => b \in alive /\ loop # "idle" /\ ops[b] > 0

\* A branch that never had an operation has seen nothing.
UnusedIsBlank == \A b \in Branches : ops[b] = 0 => seen[b] = <<>>

\* The inductive invariant.
TeeInv == /\ TeeTypeOK /\ BytesAreCarried /\ RoomIsLeft /\ PumpsAreAwaited
          /\ SinksAreServed /\ UnusedIsBlank

-----------------------------------------------------------------------------
\* Prefix() and Beyond() cut a sequence in two.
LEMMA CutInTwo ==
  ASSUME NEW s \in Seq(Nat), NEW n \in Nat
  PROVE  /\ Prefix(s, n) \in Seq(Nat) /\ Beyond(s, Len(Prefix(s, n))) \in Seq(Nat)
         /\ Len(Prefix(s, n)) = Least(n, Len(s))
         /\ Least(n, Len(s)) \in Nat /\ Least(n, Len(s)) <= n /\ Least(n, Len(s)) <= Len(s)
         /\ Len(Beyond(s, Len(Prefix(s, n)))) <= Len(s)
         /\ Prefix(s, n) \o Beyond(s, Len(Prefix(s, n))) = s
<1> DEFINE m == Least(n, Len(s))
<1>1. m \in 0..Len(s) /\ m <= n
  BY DEF Least
<1> HIDE DEF m
<1>2. /\ SubSeq(s, 1, m) \in Seq(Nat) /\ Len(SubSeq(s, 1, m)) = m
      /\ \A i \in 1..m : SubSeq(s, 1, m)[i] = s[i]
  BY <1>1
<1>3. /\ SubSeq(s, m + 1, Len(s)) \in Seq(Nat) /\ Len(SubSeq(s, m + 1, Len(s))) = Len(s) - m
      /\ \A i \in 1..(Len(s) - m) : SubSeq(s, m + 1, Len(s))[i] = s[m + i]
  BY <1>1
<1>4. ASSUME NEW p \in Seq(Nat), NEW q \in Seq(Nat), Len(p) = m, Len(q) = Len(s) - m,
             \A i \in 1..m : p[i] = s[i], \A i \in 1..(Len(s) - m) : q[i] = s[m + i]
      PROVE  p \o q = s
  <2>1. p \o q \in Seq(Nat) /\ Len(p \o q) = Len(s)
    BY <1>1, <1>4, ConcatProperties
  <2>2. ASSUME NEW i \in 1..Len(s) PROVE (p \o q)[i] = s[i]
    <3>0. i \in Nat /\ m \in Nat
      BY <1>1
    <3>1. CASE i <= m
      BY <1>1, <1>4, <3>1
    <3>2. CASE ~(i <= m)
      <4>0. Len(p) < i /\ i <= Len(p) + Len(q)
        BY <1>1, <1>4, <3>0, <3>2
      <4>1. (p \o q)[i] = q[i - Len(p)]
        BY <3>0, <4>0
      <4>2. i - m \in 1..(Len(s) - m) /\ m + (i - m) = i
        BY <1>1, <3>2
      <4> QED BY <1>4, <4>1, <4>2
    <3> QED BY <3>1, <3>2
  <2> QED BY <2>1, <2>2, SeqEqual
<1>5. Prefix(s, n) = SubSeq(s, 1, m)
  BY DEF Prefix, m
<1>6. Beyond(s, Len(Prefix(s, n))) = SubSeq(s, m + 1, Len(s))
  BY <1>2, <1>5 DEF Beyond
<1>7. SubSeq(s, 1, m) \o SubSeq(s, m + 1, Len(s)) = s
  BY <1>2, <1>3, <1>4
<1>8. m \in Nat /\ m <= n /\ m <= Len(s) /\ Len(s) - m <= Len(s)
  BY <1>1
<1> QED BY <1>2, <1>3, <1>5, <1>6, <1>7, <1>8 DEF m

\* What is read next follows what was read before.
LEMMA InputGoesOn ==
  ASSUME NEW a \in Nat, NEW b \in Nat, NEW n \in Nat, a <= b
  PROVE  Input(a, b) \o [i \in 1..n |-> b + i] = Input(a, b + n)
<1> DEFINE p == Input(a, b)
           q == [i \in 1..n |-> b + i]
           s == Input(a, b + n)
<1>1. p \in Seq(Nat) /\ Len(p) = b - a /\ \A i \in 1..(b - a) : p[i] = a + i
  BY DEF Input
<1>2. q \in Seq(Nat) /\ Len(q) = n /\ \A i \in 1..n : q[i] = b + i
  OBVIOUS
<1>3. /\ s \in Seq(Nat) /\ Len(s) = (b + n) - a
      /\ \A i \in 1..((b + n) - a) : s[i] = a + i
  BY DEF Input
<1> HIDE DEF p, q, s
<1>4. p \o q \in Seq(Nat) /\ Len(p \o q) = Len(s)
  <2>1. p \o q \in Seq(Nat) /\ Len(p \o q) = Len(p) + Len(q)
    BY <1>1, <1>2, ConcatProperties
  <2> QED BY <1>1, <1>2, <1>3, <2>1
<1>5. ASSUME NEW i \in 1..Len(s) PROVE (p \o q)[i] = s[i]
  <2>1. CASE i <= b - a
    BY <1>1, <1>2, <1>3, <2>1
  <2>2. CASE ~(i <= b - a)
    <3>1. i \in 1..((b + n) - a) /\ i - (b - a) \in 1..n
      BY <1>3, <2>2
    <3>2. (p \o q)[i] = q[i - (b - a)]
      <4>1. Len(p) < i /\ i <= Len(p) + Len(q) /\ i \in Nat
        BY <1>1, <1>2, <2>2, <3>1
      <4>2. (p \o q)[i] = q[i - Len(p)]
        BY <1>1, <1>2, <4>1
      <4> QED BY <1>1, <4>2
    <3>3. q[i - (b - a)] = b + (i - (b - a))
      BY <1>2, <3>1
    <3>4. s[i] = a + i
      BY <1>3, <3>1
    <3>5. b + (i - (b - a)) = a + i
      BY <3>1
    <3> QED BY <3>2, <3>3, <3>4, <3>5
  <2> QED BY <2>1, <2>2
<1>6. p \o q = s
  BY <1>3, <1>4, <1>5, SeqEqual
<1> QED BY <1>6 DEF p, q, s

\* The last of the bytes read are the ones that end at the last one.
LEMMA LastOfInput ==
  ASSUME NEW s \in Seq(Nat), NEW t \in Seq(Nat), NEW a \in Nat, NEW b \in Nat, a <= b,
         s \o t = Input(a, b)
  PROVE  Len(t) <= b /\ t = Input(b - Len(t), b)
<1>1. Len(s) + Len(t) = b - a /\ \A i \in 1..(Len(s) + Len(t)) : (s \o t)[i] = a + i
  <2>1. Len(Input(a, b)) = b - a /\ \A i \in 1..(b - a) : Input(a, b)[i] = a + i
    BY DEF Input
  <2>2. Len(s \o t) = Len(s) + Len(t)
    BY ConcatProperties
  <2> QED BY <2>1, <2>2
<1>2. Len(s) \in Nat /\ Len(t) \in Nat /\ Len(t) <= b
  BY <1>1
<1> DEFINE u == Input(b - Len(t), b)
<1>3. u \in Seq(Nat) /\ Len(u) = Len(t) /\ \A i \in 1..Len(t) : u[i] = (b - Len(t)) + i
  <2>1. b - Len(t) \in Nat /\ b - (b - Len(t)) = Len(t)
    BY <1>2
  <2>2. \A m \in Nat : b - m = Len(t) => /\ Input(m, b) \in Seq(Nat) /\ Len(Input(m, b)) = Len(t)
                                         /\ \A i \in 1..Len(t) : Input(m, b)[i] = m + i
    BY <1>2 DEF Input
  <2> QED BY <2>1, <2>2
<1> HIDE DEF u
<1>4. ASSUME NEW i \in 1..Len(t) PROVE t[i] = u[i]
  <2>1. Len(s) + i \in 1..(Len(s) + Len(t)) /\ a + (Len(s) + i) = (b - Len(t)) + i
    <3>1. i \in Nat /\ 1 <= i /\ i <= Len(t)
      BY <1>2
    <3>2. Len(s) = (b - a) - Len(t)
      BY <1>1, <1>2
    <3>3. Len(s) + i \in 1..(Len(s) + Len(t))
      BY <1>2, <3>1
    <3>4. a + (Len(s) + i) = (b - Len(t)) + i
      BY <1>2, <3>1, <3>2
    <3> QED BY <3>3, <3>4
  <2>2. (s \o t)[Len(s) + i] = t[i]
    BY <1>2
  <2> QED BY <1>1, <1>3, <2>1, <2>2
<1>5. t = u
  BY <1>3, <1>4, SeqEqual
<1> QED BY <1>2, <1>5 DEF u

\* Among finitely many, one has the greatest number.
LEMMA OneIsGreatest ==
  ASSUME NEW S, IsFiniteSet(S), S # {}, NEW f, \A x \in S : f[x] \in Nat
  PROVE  \E x \in S : \A y \in S : f[y] <= f[x]
<1> DEFINE HasGreatest(T) == \E x \in T : \A y \in T : f[y] <= f[x]
           Bad == {k \in Nat : \E T \in SUBSET S : T # {} /\ Cardinality(T) = k /\ ~HasGreatest(T)}
           R == OpToRel(<, Nat)
<1>1. SUFFICES ASSUME Bad # {} PROVE FALSE
  <2>1. Cardinality(S) \in Nat
    BY FS_CardinalityType
  <2> QED BY <1>1, <2>1
<1>2. PICK k \in Bad : \A j \in Bad : ~(j < k)
  <2>1. IsWellFoundedOn(R, Nat)
    BY NatLessThanWellFounded
  <2>2. PICK k \in Bad : \A j \in Bad : <<j, k>> \notin R
    <3>1. Bad \subseteq Nat
      OBVIOUS
    <3> HIDE DEF R, Bad
    <3> QED BY <1>1, <2>1, <3>1, WFMin
  <2>3. \A j \in Bad : ~(j < k)
    BY <2>2 DEF OpToRel
  <2> QED BY <2>3
<1>3. PICK T \in SUBSET S : T # {} /\ Cardinality(T) = k /\ ~HasGreatest(T)
  BY <1>2
<1>4. k \in Nat
  BY <1>2
<1> HIDE DEF R
<1>5. PICK x \in T : TRUE
  BY <1>3
<1>6. IsFiniteSet(T)
  BY <1>3, FS_Subset
<1>7. IsFiniteSet(T \ {x}) /\ Cardinality(T \ {x}) = k - 1 /\ Cardinality(T \ {x}) \in Nat
  BY <1>3, <1>5, <1>6, FS_RemoveElement, FS_CardinalityType
<1>8. k - 1 \notin Bad
  BY <1>2, <1>4 DEF Bad
<1>9. T \ {x} = {} \/ HasGreatest(T \ {x})
  <2>1. T \ {x} \in SUBSET S /\ k - 1 \in Nat
    BY <1>3, <1>7
  <2> HIDE DEF HasGreatest
  <2> QED BY <1>7, <1>8, <2>1 DEF Bad
<1>10. f[x] \in Nat /\ \A y \in T : f[y] \in Nat
  BY <1>3, <1>5
<1>11. CASE T \ {x} = {}
  <2>1. \A y \in T : y = x
    BY <1>11
  <2>2. \A y \in T : f[y] <= f[x]
    BY <1>10, <2>1
  <2> QED BY <1>3, <1>5, <2>2
<1>12. CASE HasGreatest(T \ {x})
  <2>1. PICK z \in T \ {x} : \A y \in T \ {x} : f[y] <= f[z]
    BY <1>12
  <2>2. f[z] \in Nat
    BY <1>10, <2>1
  <2>3. CASE f[z] <= f[x]
    <3>1. \A y \in T : f[y] <= f[x]
      BY <1>10, <2>1, <2>2, <2>3
    <3> QED BY <1>3, <1>5, <3>1
  <2>4. CASE ~(f[z] <= f[x])
    <3>1. \A y \in T : f[y] <= f[z]
      BY <1>10, <2>1, <2>2, <2>4
    <3> QED BY <1>3, <2>1, <3>1
  <2> QED BY <2>3, <2>4
<1> QED BY <1>9, <1>11, <1>12

\* Concatenation is associative, and the empty sequence is its unit.
LEMMA Associates == \A x, y, z \in Seq(Nat) : x \o (y \o z) = (x \o y) \o z
OBVIOUS

LEMMA EmptyIsUnit == \A x \in Seq(Nat) : x \o <<>> = x
OBVIOUS

LEMMA Joined == \A x, y \in Seq(Nat) : x \o y \in Seq(Nat)
OBVIOUS

\* A reader takes x, the first part of its buffer.
LEMMA Taken ==
  ASSUME NEW s \in Seq(Nat), NEW x \in Seq(Nat), NEW y \in Seq(Nat)
  PROVE  (s \o x) \o <<>> \o y = s \o <<>> \o (x \o y)
<1>1. s \o <<>> = s
  BY EmptyIsUnit
<1>2. (s \o x) \o <<>> = s \o x
  <2>1. s \o x \in Seq(Nat)
    BY Joined
  <2> QED BY <2>1, EmptyIsUnit
<1>3. s \o (x \o y) = (s \o x) \o y
  BY Associates
<1> QED BY <1>1, <1>2, <1>3, Zenon

\* A pump is given x, the first part of its buffer.
LEMMA Given ==
  ASSUME NEW s \in Seq(Nat), NEW x \in Seq(Nat), NEW y \in Seq(Nat)
  PROVE  s \o x \o y = s \o <<>> \o (x \o y)
<1>1. s \o <<>> = s
  BY EmptyIsUnit
<1>2. s \o (x \o y) = (s \o x) \o y
  BY Associates
<1> QED BY <1>1, <1>2, Zenon

\* An output accepts x.
LEMMA Passed ==
  ASSUME NEW s \in Seq(Nat), NEW x \in Seq(Nat), NEW y \in Seq(Nat)
  PROVE  (s \o x) \o <<>> \o y = s \o x \o y
<1>1. s \o x \in Seq(Nat)
  BY Joined
<1>2. (s \o x) \o <<>> = s \o x
  BY <1>1, EmptyIsUnit
<1> QED BY <1>2, Zenon

\* A sink that waits is not NoSink.
LEMMA SinkKinds ==
  /\ NoSink \notin WaitingSinks
  /\ NoSink.kind # "pump" /\ NoSink.kind # "read"
  /\ \A s \in WaitingSinks : s.kind \in {"read", "pump"} /\ s.min \in Nat /\ s.max \in Nat /\ s.got \in Nat
<1>1. NoSink.kind = "none"
  BY DEF NoSink
<1>2. \A s \in WaitingSinks : s.kind \in {"read", "pump"} /\ s.min \in Nat /\ s.max \in Nat /\ s.got \in Nat
  BY DEF WaitingSinks
<1> QED BY <1>1, <1>2

\* The tee starts with nothing read and nobody mine.
LEMMA TeeStart == TeeInit => TeeInv
<1> SUFFICES ASSUME TeeInit PROVE TeeInv
  OBVIOUS
<1>1. TeeTypeOK
  BY TeeAssumption DEF TeeInit, TeeTypeOK
<1>2. <<>> \o <<>> \o <<>> = Input(0, 0)
  BY DEF Input
<1>3. BytesAreCarried
  <2>1. \A b \in alive : seen[b] = <<>> /\ flight[b] = <<>> /\ buffer[b] = <<>> /\ base[b] = 0 /\ pulled = 0
    BY TeeAssumption DEF TeeInit
  <2>2. ASSUME NEW b \in alive
        PROVE  base[b] <= pulled /\ seen[b] \o flight[b] \o buffer[b] = Input(base[b], pulled)
    <3>1. seen[b] = <<>> /\ flight[b] = <<>> /\ buffer[b] = <<>> /\ base[b] = 0 /\ pulled = 0
      BY <2>1
    <3>2. base[b] <= pulled
      BY <3>1
    <3> QED BY <1>2, <3>1, <3>2, Zenon
  <2> QED BY <2>2 DEF BytesAreCarried
<1>4. RoomIsLeft
  BY TeeAssumption DEF TeeInit, RoomIsLeft
<1>5. PumpsAreAwaited /\ SinksAreServed /\ UnusedIsBlank
  BY DEF TeeInit, PumpsAreAwaited, SinksAreServed, UnusedIsBlank
<1> QED BY <1>1, <1>3, <1>4, <1>5 DEF TeeInv

\* A read of a branch takes from its buffer, and may leave a sink.
LEMMA TryReadKeeps ==
  ASSUME TeeInv, NEW b \in Branches, NEW lo \in Nat, NEW hi \in Nat, TryRead(b, lo, hi)
  PROVE  TeeInv'
<1> DEFINE got == Prefix(buffer[b], hi)
           n == Len(got)
           left == Beyond(buffer[b], n)
           mine == [kind |-> "read", min |-> lo - n, max |-> hi - n, got |-> n]
<1>1. /\ b \in alive /\ sink[b] = NoSink
      /\ ops' = [ops EXCEPT ![b] = @ + 1]
      /\ buffer' = [buffer EXCEPT ![b] = left]
      /\ seen' = [seen EXCEPT ![b] = @ \o got]
      /\ UNCHANGED <<alive, flight, base, need, stoppage, pulled>>
  BY DEF TryRead
<1>2. \/ UNCHANGED <<sink, loop>>
      \/ /\ n < lo /\ sink' = [sink EXCEPT ![b] = mine]
         /\ loop' = IF loop = "idle" THEN "fill" ELSE loop
  <2>1. \/ n >= lo /\ UNCHANGED <<sink, loop>>
        \/ stoppage # "none" /\ UNCHANGED <<sink, loop>>
        \/ /\ ~(n >= lo) /\ sink' = [sink EXCEPT ![b] = mine]
           /\ loop' = IF loop = "idle" THEN "fill" ELSE loop
    BY Zenon DEF TryRead, EnsurePulling
  <2>2. n \in Nat
    BY CutInTwo DEF TeeInv, TeeTypeOK
  <2> QED BY <2>1, <2>2
<1>3. /\ got \in Seq(Nat) /\ left \in Seq(Nat) /\ n \in Nat /\ n <= hi
      /\ Len(left) <= Len(buffer[b]) /\ got \o left = buffer[b]
  <2>1. buffer[b] \in Seq(Nat)
    BY DEF TeeInv, TeeTypeOK
  <2> QED BY <2>1, CutInTwo
<1> HIDE DEF got, n, left
<1>4. TeeTypeOK /\ seen[b] \in Seq(Nat) /\ Len(buffer[b]) \in Nat /\ Len(left) \in Nat
  <2>1. TeeTypeOK
    BY DEF TeeInv
  <2>2. seen[b] \in Seq(Nat) /\ buffer[b] \in Seq(Nat)
    BY <2>1 DEF TeeTypeOK
  <2>3. Len(buffer[b]) \in Nat /\ Len(left) \in Nat
    BY <1>3, <2>2, LenProperties
  <2> QED BY <2>1, <2>2, <2>3
<1>5. TeeTypeOK'
  <2>1. seen[b] \o got \in Seq(Nat)
    BY <1>3, <1>4
  <2>2. seen' \in [Branches -> Seq(Nat)] /\ buffer' \in [Branches -> Seq(Nat)]
    BY <1>1, <1>3, <1>4, <2>1 DEF TeeTypeOK
  <2>3. ops' \in [Branches -> Nat]
    BY <1>1, <1>4 DEF TeeTypeOK
  <2>4. n < lo => mine \in WaitingSinks
    BY <1>3 DEF WaitingSinks
  <2>5. sink' \in [Branches -> WaitingSinks \cup {NoSink}]
    <3> HIDE DEF mine
    <3> QED BY <1>2, <1>4, <2>4 DEF TeeTypeOK
  <2>6. loop' \in {"idle", "fill", "join", "read"}
    BY <1>2, <1>4 DEF TeeTypeOK
  <2> QED BY <1>1, <1>4, <2>2, <2>3, <2>5, <2>6 DEF TeeTypeOK
<1>6. flight[b] = <<>>
  BY <1>1, SinkKinds DEF TeeInv, PumpsAreAwaited
<1>7. BytesAreCarried'
  <2>1. seen'[b] = seen[b] \o got /\ buffer'[b] = left
    BY <1>1, <1>4 DEF TeeTypeOK
  <2>2. seen'[b] \o flight'[b] \o buffer'[b] = seen[b] \o flight[b] \o buffer[b]
    <3>1. (seen[b] \o got) \o <<>> \o left = seen[b] \o <<>> \o buffer[b]
      <4>1. seen[b] \in Seq(Nat) /\ got \in Seq(Nat) /\ left \in Seq(Nat)
        BY <1>3, <1>4
      <4>2. got \o left = buffer[b]
        BY <1>3
      <4>3. (seen[b] \o got) \o <<>> \o left = seen[b] \o <<>> \o (got \o left)
        BY <4>1, Taken
      <4> QED BY <4>2, <4>3
    <3> QED BY <1>1, <1>6, <2>1, <3>1
  <2>3. \A c \in alive : c # b => seen'[c] = seen[c] /\ buffer'[c] = buffer[c]
    BY <1>1, <1>4 DEF TeeTypeOK
  <2>4. \A c \in alive : seen'[c] \o flight'[c] \o buffer'[c] = seen[c] \o flight[c] \o buffer[c]
    BY <1>1, <2>2, <2>3
  <2> QED BY <1>1, <2>4 DEF TeeInv, BytesAreCarried
<1>8. RoomIsLeft'
  <2>1. \A c \in alive : Len(buffer'[c]) \in Nat /\ Len(buffer[c]) \in Nat /\ Len(buffer'[c]) <= Len(buffer[c])
    <3> SUFFICES ASSUME NEW c \in alive
                 PROVE  Len(buffer'[c]) \in Nat /\ Len(buffer[c]) \in Nat /\ Len(buffer'[c]) <= Len(buffer[c])
      OBVIOUS
    <3>1. c \in Branches /\ buffer[c] \in Seq(Nat) /\ Len(buffer[c]) \in Nat
      BY <1>4 DEF TeeTypeOK
    <3>2. CASE c = b
      <4>1. buffer'[c] = left
        BY <1>1, <1>4, <3>2 DEF TeeTypeOK
      <4> QED BY <1>3, <1>4, <3>2, <4>1
    <3>3. CASE c # b
      <4>1. buffer'[c] = buffer[c]
        BY <1>1, <1>4, <3>1, <3>3 DEF TeeTypeOK
      <4> QED BY <3>1, <4>1
    <3> QED BY <3>2, <3>3
  <2>2. loop' = "read" => loop = "read"
    BY <1>2
  <2>3. need' = need /\ alive' = alive /\ need[2] \in Nat
    BY <1>1, <1>4 DEF TeeTypeOK
  <2> QED BY <2>1, <2>2, <2>3, TeeAssumption DEF TeeInv, RoomIsLeft
<1>9. \A c \in Branches : c # b => sink'[c] = sink[c] /\ ops'[c] = ops[c] /\ seen'[c] = seen[c]
  BY <1>1, <1>2, <1>4 DEF TeeTypeOK
<1>10. loop # "idle" => loop' = loop
  BY <1>2
<1>11. PumpsAreAwaited'
  BY <1>1, <1>6, <1>9, <1>10 DEF TeeInv, PumpsAreAwaited
<1>12. ops'[b] > 0 /\ (sink'[b] # NoSink => loop' # "idle")
  BY <1>1, <1>2, <1>4 DEF TeeTypeOK
<1>13. SinksAreServed'
  BY <1>1, <1>9, <1>10, <1>12 DEF TeeInv, SinksAreServed
<1>14. UnusedIsBlank'
  BY <1>9, <1>12 DEF TeeInv, UnusedIsBlank
<1> QED BY <1>5, <1>7, <1>8, <1>11, <1>13, <1>14 DEF TeeInv

\* Buffers that get no longer leave room.
LEMMA RoomRests ==
  ASSUME TeeTypeOK, RoomIsLeft, alive' \subseteq alive, need' = need,
         loop' = "read" => loop = "read",
         \A c \in alive' : Len(buffer'[c]) \in Nat /\ Len(buffer'[c]) <= Len(buffer[c])
  PROVE  RoomIsLeft'
<1> SUFFICES ASSUME NEW c \in alive'
             PROVE  /\ Len(buffer'[c]) <= Limit
                    /\ loop' = "read" => Len(buffer'[c]) + need'[2] <= Limit
  BY DEF RoomIsLeft
<1>1. /\ c \in alive /\ Len(buffer[c]) \in Nat /\ need[2] \in Nat /\ Limit \in Nat
      /\ Len(buffer'[c]) \in Nat /\ Len(buffer'[c]) <= Len(buffer[c])
  BY TeeAssumption DEF TeeTypeOK
<1>2. Len(buffer[c]) <= Limit /\ (loop = "read" => Len(buffer[c]) + need[2] <= Limit)
  BY <1>1 DEF RoomIsLeft
<1> QED BY <1>1, <1>2

\* Bytes that move between a branch's buffer, its output and what it has seen are carried.
LEMMA CarriedRests ==
  ASSUME BytesAreCarried, alive' \subseteq alive, base' = base, pulled' = pulled,
         \A c \in alive' : seen'[c] \o flight'[c] \o buffer'[c] = seen[c] \o flight[c] \o buffer[c]
  PROVE  BytesAreCarried'
BY Zenon DEF BytesAreCarried, Input

\* A pump leaves a sink, or ends at once.
LEMMA PumpToKeeps ==
  ASSUME TeeInv, NEW b \in Branches, NEW amount \in Nat, PumpTo(b, amount)
  PROVE  TeeInv'
<1> DEFINE mine == [kind |-> "pump", min |-> 1, max |-> amount, got |-> 0]
<1>1. /\ b \in alive /\ sink[b] = NoSink
      /\ ops' = [ops EXCEPT ![b] = @ + 1]
      /\ UNCHANGED <<alive, buffer, flight, seen, base, need, stoppage, pulled>>
  BY DEF PumpTo
<1>2. \/ UNCHANGED <<sink, loop>>
      \/ /\ sink' = [sink EXCEPT ![b] = mine]
         /\ loop' = IF loop = "idle" THEN "fill" ELSE loop
  BY Zenon DEF PumpTo, EnsurePulling
<1>3. mine \in WaitingSinks
  BY DEF WaitingSinks
<1> HIDE DEF mine
<1>4. TeeTypeOK
  BY DEF TeeInv
<1>5. TeeTypeOK'
  <2>1. sink' \in [Branches -> WaitingSinks \cup {NoSink}]
    BY <1>2, <1>3, <1>4 DEF TeeTypeOK
  <2>2. ops' \in [Branches -> Nat]
    BY <1>1, <1>4 DEF TeeTypeOK
  <2>3. loop' \in {"idle", "fill", "join", "read"}
    BY <1>2, <1>4 DEF TeeTypeOK
  <2> QED BY <1>1, <1>4, <2>1, <2>2, <2>3 DEF TeeTypeOK
<1>6. flight[b] = <<>>
  BY <1>1, SinkKinds DEF TeeInv, PumpsAreAwaited
<1>7. BytesAreCarried'
  BY <1>1, CarriedRests DEF TeeInv
<1>8. (loop # "idle" => loop' = loop) /\ (loop' = "read" => loop = "read")
  BY <1>2
<1>9. RoomIsLeft'
  <2>1. \A c \in alive : Len(buffer[c]) \in Nat /\ Len(buffer[c]) <= Len(buffer[c])
    BY <1>4 DEF TeeTypeOK
  <2> QED BY <1>1, <1>4, <1>8, <2>1, RoomRests DEF TeeInv
<1>10. \A c \in Branches : c # b => sink'[c] = sink[c] /\ ops'[c] = ops[c]
  BY <1>1, <1>2, <1>4 DEF TeeTypeOK
<1>11. PumpsAreAwaited'
  BY <1>1, <1>6, <1>8, <1>10 DEF TeeInv, PumpsAreAwaited
<1>12. ops'[b] > 0 /\ (sink'[b] # NoSink => loop' # "idle")
  BY <1>1, <1>2, <1>4 DEF TeeTypeOK
<1>13. SinksAreServed'
  BY <1>1, <1>8, <1>10, <1>12 DEF TeeInv, SinksAreServed
<1>14. UnusedIsBlank'
  BY <1>1, <1>10, <1>12 DEF TeeInv, UnusedIsBlank
<1> QED BY <1>5, <1>7, <1>9, <1>11, <1>13, <1>14 DEF TeeInv

\* A branch whose bytes under way have been taken by the output, and whose sink may be gone.
LEMMA WrittenKeeps ==
  ASSUME TeeInv, NEW b \in Branches, sink[b] # NoSink, NEW s \in WaitingSinks \cup {NoSink},
         seen' = [seen EXCEPT ![b] = @ \o flight[b]],
         flight' = [flight EXCEPT ![b] = <<>>],
         sink' = [sink EXCEPT ![b] = s],
         UNCHANGED <<alive, buffer, base, ops, loop, need, stoppage, pulled>>
  PROVE  TeeInv'
<1>1. TeeTypeOK
  BY DEF TeeInv
<1>2. seen[b] \in Seq(Nat) /\ flight[b] \in Seq(Nat) /\ buffer[b] \in Seq(Nat)
  BY <1>1 DEF TeeTypeOK
<1>3. seen'[b] = seen[b] \o flight[b] /\ flight'[b] = <<>> /\ sink'[b] = s
  BY <1>1 DEF TeeTypeOK
<1>4. \A c \in Branches : c # b => seen'[c] = seen[c] /\ flight'[c] = flight[c] /\ sink'[c] = sink[c]
  BY <1>1 DEF TeeTypeOK
<1>5. TeeTypeOK'
  <2>1. seen[b] \o flight[b] \in Seq(Nat)
    BY <1>2, Joined
  <2>2. seen' \in [Branches -> Seq(Nat)] /\ flight' \in [Branches -> Seq(Nat)]
    BY <1>1, <2>1 DEF TeeTypeOK
  <2>3. sink' \in [Branches -> WaitingSinks \cup {NoSink}]
    BY <1>1 DEF TeeTypeOK
  <2> QED BY <1>1, <2>2, <2>3 DEF TeeTypeOK
<1>6. BytesAreCarried'
  <2>1. seen'[b] \o flight'[b] \o buffer'[b] = seen[b] \o flight[b] \o buffer[b]
    <3>1. (seen[b] \o flight[b]) \o <<>> \o buffer[b] = seen[b] \o flight[b] \o buffer[b]
      BY <1>2, Passed
    <3> QED BY <1>3, <3>1
  <2>2. alive \subseteq Branches
    BY <1>1 DEF TeeTypeOK
  <2>3. \A c \in alive' : seen'[c] \o flight'[c] \o buffer'[c] = seen[c] \o flight[c] \o buffer[c]
    BY <1>4, <2>1, <2>2
  <2> QED BY <2>3, CarriedRests DEF TeeInv
<1>7. RoomIsLeft'
  <2>1. \A c \in alive : Len(buffer[c]) \in Nat /\ Len(buffer[c]) <= Len(buffer[c])
    BY <1>1 DEF TeeTypeOK
  <2> QED BY <1>1, <2>1, RoomRests DEF TeeInv
<1>8. b \in alive /\ loop # "idle" /\ ops[b] > 0
  BY DEF TeeInv, SinksAreServed
<1>9. PumpsAreAwaited'
  BY <1>3, <1>4 DEF TeeInv, PumpsAreAwaited
<1>10. SinksAreServed'
  BY <1>4, <1>8 DEF TeeInv, SinksAreServed
<1>11. ops[b] # 0
  BY <1>1, <1>8 DEF TeeTypeOK
<1>12. UnusedIsBlank'
  BY <1>4, <1>11 DEF TeeInv, UnusedIsBlank
<1> QED BY <1>5, <1>6, <1>7, <1>9, <1>10, <1>12 DEF TeeInv

\* A dropped operation takes what its output had been given with it.
LEMMA DropOpKeeps == ASSUME TeeInv, NEW b \in Branches, DropOp(b) PROVE TeeInv'
BY WrittenKeeps DEF DropOp

\* What a pump has passed on is not asked for again.
LEMMA LessIsAsked ==
  ASSUME NEW s \in WaitingSinks, NEW k \in Nat, k <= s.max
  PROVE  PumpedOn(s, k) \in WaitingSinks \cup {NoSink}
<1>1. \A m, g \in Nat : [s EXCEPT !.max = m, !.got = g] \in WaitingSinks
  BY DEF WaitingSinks
<1>2. s.max - k \in Nat /\ s.got + k \in Nat
  BY DEF WaitingSinks
<1>3. [s EXCEPT !.max = @ - k, !.got = @ + k] \in WaitingSinks
  BY <1>1, <1>2
<1> QED BY <1>3 DEF PumpedOn

\* A pump goes on with the bytes it was not asked for yet, or is over.
LEMMA PumpWrittenKeeps == ASSUME TeeInv, NEW b \in Branches, PumpWritten(b) PROVE TeeInv'
<1>1. sink[b].kind = "pump" /\ Len(flight[b]) <= sink[b].max /\ Len(flight[b]) \in Nat
  BY DEF TeeInv, TeeTypeOK, PumpsAreAwaited, PumpWritten
<1>2. sink[b] # NoSink /\ sink[b] \in WaitingSinks
  BY <1>1, SinkKinds DEF TeeInv, TeeTypeOK
<1>3. PumpedOn(sink[b], Len(flight[b])) \in WaitingSinks \cup {NoSink}
  BY <1>1, <1>2, LessIsAsked
<1>4. PICK s \in {PumpedOn(sink[b], Len(flight[b])), NoSink} : sink' = [sink EXCEPT ![b] = s]
  BY DEF PumpWritten
<1>5. s \in WaitingSinks \cup {NoSink}
  BY <1>3, <1>4
<1>6. /\ seen' = [seen EXCEPT ![b] = @ \o flight[b]]
      /\ flight' = [flight EXCEPT ![b] = <<>>]
      /\ UNCHANGED <<alive, buffer, base, ops, loop, need, stoppage, pulled>>
  BY DEF PumpWritten
<1> QED BY <1>2, <1>4, <1>5, <1>6, WrittenKeeps

\* A branch goes, and with it what it had buffered.
LEMMA DropBranchKeeps == ASSUME TeeInv, NEW b \in Branches, DropBranch(b) PROVE TeeInv'
<1> USE DEF DropBranch
<1>1. TeeTypeOK
  BY DEF TeeInv
<1>2. TeeTypeOK'
  BY <1>1 DEF TeeTypeOK
<1>3. \A c \in alive' : c \in Branches /\ c # b /\ buffer'[c] = buffer[c]
  BY <1>1 DEF TeeTypeOK
<1>4. alive' \subseteq alive
  OBVIOUS
<1>5. BytesAreCarried'
  <2>1. \A c \in alive' : seen'[c] \o flight'[c] \o buffer'[c] = seen[c] \o flight[c] \o buffer[c]
    BY <1>3
  <2> QED BY <1>4, <2>1, CarriedRests DEF TeeInv
<1>6. RoomIsLeft'
  <2>1. \A c \in alive' : Len(buffer'[c]) \in Nat /\ Len(buffer'[c]) <= Len(buffer[c])
    BY <1>1, <1>3 DEF TeeTypeOK
  <2> QED BY <1>1, <1>4, <2>1, RoomRests DEF TeeInv
<1>7. PumpsAreAwaited'
  BY DEF TeeInv, PumpsAreAwaited
<1>8. SinksAreServed'
  BY DEF TeeInv, SinksAreServed
<1>9. UnusedIsBlank'
  BY DEF TeeInv, UnusedIsBlank
<1> QED BY <1>2, <1>5, <1>6, <1>7, <1>8, <1>9 DEF TeeInv

\* A new branch starts where the oldest byte buffered for the other one is.
LEMMA CloneKeeps ==
  ASSUME TeeInv, NEW b \in Branches, NEW c \in Branches, Clone(b, c) PROVE TeeInv'
<1> USE DEF Clone
<1>1. TeeTypeOK
  BY DEF TeeInv
<1>2. /\ b \in alive /\ c \notin alive /\ ops[c] = 0
      /\ buffer[b] \in Seq(Nat) /\ Len(buffer[b]) \in Nat
      /\ seen[b] \in Seq(Nat) /\ flight[b] \in Seq(Nat)
      /\ base[b] \in Nat /\ pulled \in Nat
  BY <1>1 DEF TeeTypeOK
<1>3. sink[c] = NoSink /\ flight[c] = <<>> /\ seen[c] = <<>>
  <2>1. sink[c] = NoSink
    BY <1>2 DEF TeeInv, SinksAreServed
  <2>2. flight[c] = <<>>
    BY <2>1, SinkKinds DEF TeeInv, PumpsAreAwaited
  <2> QED BY <1>2, <2>1, <2>2 DEF TeeInv, UnusedIsBlank
<1>4. /\ buffer'[c] = buffer[b] /\ base'[c] = pulled - Len(buffer[b])
      /\ \A d \in Branches : d # c => buffer'[d] = buffer[d] /\ base'[d] = base[d]
  BY <1>1 DEF TeeTypeOK
<1>5. /\ base[b] <= pulled
      /\ seen[b] \o flight[b] \o buffer[b] = Input(base[b], pulled)
  BY <1>2 DEF TeeInv, BytesAreCarried
<1>6. /\ Len(buffer[b]) <= pulled
      /\ buffer[b] = Input(pulled - Len(buffer[b]), pulled)
  <2>1. seen[b] \o flight[b] \in Seq(Nat)
    BY <1>2, Joined
  <2> QED BY <1>2, <1>5, <2>1, LastOfInput
<1>7. TeeTypeOK'
  <2>1. pulled - Len(buffer[b]) \in Nat
    BY <1>2, <1>6
  <2>2. base' \in [Branches -> Nat] /\ buffer' \in [Branches -> Seq(Nat)]
    BY <1>1, <1>2, <2>1 DEF TeeTypeOK
  <2> QED BY <1>1, <2>2 DEF TeeTypeOK
<1>8. BytesAreCarried'
  <2>1. base'[c] <= pulled /\ seen'[c] \o flight'[c] \o buffer'[c] = Input(base'[c], pulled)
    <3>1. <<>> \o <<>> \o buffer[b] = buffer[b]
      BY <1>2
    <3>2. base'[c] <= pulled
      BY <1>2, <1>4, <1>6
    <3> QED BY <1>3, <1>4, <1>6, <3>1, <3>2
  <2>2. ASSUME NEW d \in alive
        PROVE  base'[d] <= pulled /\ seen'[d] \o flight'[d] \o buffer'[d] = Input(base'[d], pulled)
    <3>1. d \in Branches /\ d # c
      BY <1>1, <1>2 DEF TeeTypeOK
    <3> QED BY <1>4, <3>1 DEF TeeInv, BytesAreCarried
  <2>3. alive' = alive \cup {c} /\ pulled' = pulled
    OBVIOUS
  <2> QED BY <2>1, <2>2, <2>3 DEF BytesAreCarried
<1>9. RoomIsLeft'
  <2>1. \A d \in alive' : \E e \in alive : buffer'[d] = buffer[e]
    <3>1. alive' = alive \cup {c} /\ alive \subseteq Branches
      BY <1>1 DEF TeeTypeOK
    <3> QED BY <1>2, <1>4, <3>1
  <2>2. loop' = loop /\ need' = need
    OBVIOUS
  <2> QED BY <2>1, <2>2 DEF TeeInv, RoomIsLeft
<1>10. PumpsAreAwaited'
  BY DEF TeeInv, PumpsAreAwaited
<1>11. SinksAreServed'
  BY DEF TeeInv, SinksAreServed
<1>12. UnusedIsBlank'
  BY DEF TeeInv, UnusedIsBlank
<1> QED BY <1>7, <1>8, <1>9, <1>10, <1>11, <1>12 DEF TeeInv

\* What fill() leaves of a reader's sink.
LEMMA FilledSink ==
  ASSUME NEW b \in Branches, sink[b] \in WaitingSinks, buffer[b] \in Seq(Nat)
  PROVE  ReadFilled(b) \in WaitingSinks \cup {NoSink}
<1> DEFINE n == Least(sink[b].max, Len(buffer[b]))
           s == [sink[b] EXCEPT !.min = Most(@ - n, 0), !.max = @ - n, !.got = @ + n]
<1>1. sink[b].min \in Nat /\ sink[b].max \in Nat /\ sink[b].got \in Nat
  BY SinkKinds
<1>2. n \in Nat /\ n <= sink[b].max
  BY <1>1, CutInTwo
<1> HIDE DEF n
<1>3. Most(sink[b].min - n, 0) \in Nat /\ sink[b].max - n \in Nat /\ sink[b].got + n \in Nat
  BY <1>1, <1>2 DEF Most
<1>4. \A k, m, g \in Nat : [sink[b] EXCEPT !.min = k, !.max = m, !.got = g] \in WaitingSinks
  BY DEF WaitingSinks
<1>5. s \in WaitingSinks
  BY <1>3, <1>4
<1>6. ReadFilled(b) \in {s, NoSink}
  BY DEF ReadFilled, n
<1> QED BY <1>5, <1>6

\* What the first part of the loop does to one branch.
LEMMA FillsBranch ==
  ASSUME TeeInv, Fill, NEW b \in Branches
  PROVE  /\ sink'[b] \in WaitingSinks \cup {NoSink}
         /\ buffer'[b] \in Seq(Nat) /\ Len(buffer'[b]) <= Len(buffer[b])
         /\ seen'[b] \in Seq(Nat) /\ flight'[b] \in Seq(Nat)
         /\ seen'[b] \o flight'[b] \o buffer'[b] = seen[b] \o flight[b] \o buffer[b]
         /\ flight'[b] # <<>> => sink'[b].kind = "pump" /\ Len(flight'[b]) <= sink'[b].max
         /\ sink[b] = NoSink => sink'[b] = NoSink /\ seen'[b] = seen[b]
<1> DEFINE got == Prefix(buffer[b], sink[b].max)
           left == Beyond(buffer[b], Len(got))
<1>1. /\ buffer[b] \in Seq(Nat) /\ seen[b] \in Seq(Nat) /\ flight[b] = <<>> /\ Len(buffer[b]) \in Nat
      /\ sink[b] \in WaitingSinks \cup {NoSink}
  <2>1. flight[b] = <<>>
    BY DEF TeeInv, PumpsAreAwaited, Fill
  <2> QED BY <2>1 DEF TeeInv, TeeTypeOK
<1>2. CASE sink[b] = NoSink
  <2>1. sink[b].kind # "read" /\ sink[b].kind # "pump"
    BY <1>2, SinkKinds
  <2>2. sink'[b] = NoSink /\ seen'[b] = seen[b] /\ flight'[b] = <<>> /\ buffer'[b] = Beyond(buffer[b], 0)
    BY <1>2, <2>1 DEF Fill
  <2>3. Beyond(buffer[b], 0) = buffer[b]
    BY <1>1 DEF Beyond
  <2>4. seen'[b] \o flight'[b] \o buffer'[b] = seen[b] \o flight[b] \o buffer[b]
    BY <1>1, <2>2, <2>3
  <2>5. Len(buffer'[b]) <= Len(buffer[b])
    BY <1>1, <2>2, <2>3
  <2>6. <<>> \in Seq(Nat)
    OBVIOUS
  <2> QED BY <1>1, <1>2, <2>2, <2>3, <2>4, <2>5, <2>6, Zenon
<1>3. CASE sink[b] # NoSink
  <2>1. b \in alive
    BY <1>3 DEF TeeInv, SinksAreServed
  <2>2. /\ sink[b] \in WaitingSinks /\ sink[b].kind \in {"read", "pump"}
        /\ sink[b].max \in Nat
    BY <1>1, <1>3, SinkKinds
  <2>3. /\ got \in Seq(Nat) /\ left \in Seq(Nat) /\ Len(left) <= Len(buffer[b])
        /\ Len(got) <= sink[b].max /\ got \o left = buffer[b]
    BY <1>1, <2>2, CutInTwo
  <2>4. CASE sink[b].kind = "read"
    <3>1. /\ sink'[b] = ReadFilled(b) /\ buffer'[b] = left
          /\ seen'[b] = seen[b] \o got /\ flight'[b] = <<>>
      BY <2>1, <2>4 DEF Fill
    <3>2. ReadFilled(b) \in WaitingSinks \cup {NoSink}
      BY <1>1, <2>2, FilledSink
    <3> HIDE DEF got, left
    <3>3. seen[b] \o got \in Seq(Nat)
      BY <1>1, <2>3, Joined
    <3>4. (seen[b] \o got) \o <<>> \o left = seen[b] \o <<>> \o (got \o left)
      BY <1>1, <2>3, Taken
    <3>5. seen'[b] \o flight'[b] \o buffer'[b] = seen[b] \o flight[b] \o buffer[b]
      BY <1>1, <2>3, <3>1, <3>4
    <3>6. <<>> \in Seq(Nat)
      OBVIOUS
    <3> QED BY <1>3, <2>3, <3>1, <3>2, <3>3, <3>5, <3>6, Zenon
  <2>5. CASE sink[b].kind = "pump"
    <3>1. /\ sink'[b] = PumpFilled(b) /\ buffer'[b] = left
          /\ seen'[b] = seen[b] /\ flight'[b] = got
      BY <2>1, <2>5 DEF Fill
    <3>2. PumpFilled(b) = sink[b] \/ (PumpFilled(b) = NoSink /\ buffer[b] = <<>>)
      BY DEF PumpFilled
    <3>3. buffer[b] = <<>> => got = <<>>
      <4>1. Len(got) = Least(sink[b].max, Len(buffer[b])) /\ Least(sink[b].max, Len(buffer[b])) <= Len(buffer[b])
        BY <1>1, <2>2, CutInTwo
      <4> HIDE DEF got
      <4>2. buffer[b] = <<>> => Len(got) <= 0
        BY <4>1
      <4> QED BY <2>3, <4>2
    <3> HIDE DEF got, left
    <3>4. seen[b] \o got \o left = seen[b] \o <<>> \o (got \o left)
      BY <1>1, <2>3, Given
    <3>5. seen'[b] \o flight'[b] \o buffer'[b] = seen[b] \o flight[b] \o buffer[b]
      BY <1>1, <2>3, <3>1, <3>4
    <3>6. sink'[b] \in WaitingSinks \cup {NoSink}
      BY <2>2, <3>1, <3>2
    <3>7. flight'[b] # <<>> => sink'[b].kind = "pump" /\ Len(flight'[b]) <= sink'[b].max
      BY <2>3, <2>5, <3>1, <3>2, <3>3
    <3> QED BY <1>1, <1>3, <2>3, <3>1, <3>5, <3>6, <3>7, Zenon
  <2> QED BY <2>2, <2>4, <2>5
<1> QED BY <1>2, <1>3

\* The loop fills the sinks from the buffers, and loses nothing.
LEMMA FillKeeps == ASSUME TeeInv, Fill PROVE TeeInv'
<1>1. /\ sink' = [b \in Branches |-> sink'[b]] /\ buffer' = [b \in Branches |-> buffer'[b]]
      /\ seen' = [b \in Branches |-> seen'[b]] /\ flight' = [b \in Branches |-> flight'[b]]
  BY DEF Fill
<1>2. /\ loop = "fill" /\ loop' = "join"
      /\ UNCHANGED <<alive, base, ops, need, stoppage, pulled>>
  BY DEF Fill
<1>3. TeeTypeOK
  BY DEF TeeInv
<1>4. TeeTypeOK'
  <2>1. /\ sink' \in [Branches -> WaitingSinks \cup {NoSink}] /\ buffer' \in [Branches -> Seq(Nat)]
        /\ seen' \in [Branches -> Seq(Nat)] /\ flight' \in [Branches -> Seq(Nat)]
    BY <1>1, FillsBranch
  <2> QED BY <1>2, <1>3, <2>1 DEF TeeTypeOK
<1>5. alive \subseteq Branches
  BY <1>3 DEF TeeTypeOK
<1>6. BytesAreCarried'
  <2>1. \A c \in alive : seen'[c] \o flight'[c] \o buffer'[c] = seen[c] \o flight[c] \o buffer[c]
    BY <1>5, FillsBranch
  <2> QED BY <1>2, <2>1, CarriedRests DEF TeeInv
<1>7. RoomIsLeft'
  <2>1. \A c \in alive : Len(buffer'[c]) \in Nat /\ Len(buffer'[c]) <= Len(buffer[c])
    <3>1. \A c \in alive : buffer'[c] \in Seq(Nat) /\ Len(buffer'[c]) <= Len(buffer[c])
      BY <1>5, FillsBranch
    <3> QED BY <3>1
  <2> QED BY <1>2, <1>3, <2>1, RoomRests DEF TeeInv
<1>8. PumpsAreAwaited'
  BY <1>2, FillsBranch DEF PumpsAreAwaited
<1>9. SinksAreServed'
  <2>1. \A b \in Branches : sink'[b] # NoSink => sink[b] # NoSink
    BY FillsBranch
  <2> QED BY <1>2, <2>1 DEF TeeInv, SinksAreServed
<1>10. UnusedIsBlank'
  <2>1. ASSUME NEW b \in Branches, ops'[b] = 0 PROVE seen'[b] = <<>>
    <3>1. ops[b] = 0 /\ seen[b] = <<>>
      BY <1>2, <2>1 DEF TeeInv, UnusedIsBlank
    <3>2. sink[b] = NoSink
      BY <3>1 DEF TeeInv, SinksAreServed
    <3> QED BY <3>1, <3>2, FillsBranch
  <2> QED BY <2>1 DEF UnusedIsBlank
<1> QED BY <1>4, <1>6, <1>7, <1>8, <1>9, <1>10 DEF TeeInv

\* The sinks' bounds are numbers.
LEMMA NeedsAreNumbers ==
  ASSUME TeeTypeOK, Sinks # {}
  PROVE  NeedMin \in Nat /\ NeedMax \in Nat
<1>1. IsFiniteSet(Sinks)
  BY TeeAssumption, FS_Subset DEF TeeTypeOK, Sinks
<1>2. \A b \in Sinks : sink[b].min \in Nat /\ sink[b].max \in Nat
  BY SinkKinds DEF TeeTypeOK, Sinks
<1> DEFINE lows == {sink[b].min : b \in Sinks}
           highs == {sink[b].max : b \in Sinks}
           f == [b \in Sinks |-> sink[b].min]
<1>3. \A b \in Sinks : f[b] \in Nat
  BY <1>2
<1>4. PICK b \in Sinks : \A c \in Sinks : f[c] <= f[b]
  <2> HIDE DEF f
  <2> QED BY <1>1, <1>3, OneIsGreatest
<1>5. \E x \in lows : \A y \in lows : x >= y
  <2>1. \A c \in Sinks : sink[b].min >= sink[c].min
    BY <1>2, <1>4
  <2> QED BY <2>1
<1>6. NeedMin \in lows
  <2> HIDE DEF lows
  <2>1. Max(lows) \in lows
    BY <1>5, Zenon DEF Max
  <2> QED BY <2>1 DEF NeedMin, lows
<1>7. NeedMin \in Nat
  BY <1>2, <1>6
<1>8. highs \in SUBSET Nat /\ highs # {}
  BY <1>2
<1>9. Min(highs) \in Nat
  <2> HIDE DEF highs
  <2> QED BY <1>8, LeastTime
<1> QED BY <1>7, <1>9 DEF NeedMax, Most

\* The loop reads on only when every buffer has room for all it asks for, and
\* rests only when nobody waits.
LEMMA AnalyzeKeeps == ASSUME TeeInv, Analyze PROVE TeeInv'
<1> DEFINE hi == Most(NeedMin, Least(NeedMax, Limit))
<1>1. TeeTypeOK
  BY DEF TeeInv
<1>2. /\ loop = "join" /\ \A b \in Branches : flight[b] = <<>>
      /\ UNCHANGED <<alive, buffer, sink, flight, seen, base, ops, pulled>>
  BY DEF Analyze
<1>3. \/ Sinks = {} /\ loop' = "idle" /\ UNCHANGED <<need, stoppage>>
      \/ loop' = "fill" /\ UNCHANGED <<need, stoppage>>
      \/ loop' = "fill" /\ stoppage' = "error" /\ UNCHANGED need
      \/ /\ Sinks # {} /\ ~\E b \in alive : Len(buffer[b]) + hi > Limit
         /\ loop' = "read" /\ need' = <<NeedMin, hi>> /\ UNCHANGED stoppage
  BY Zenon DEF Analyze
<1> HIDE DEF hi
<1>4. Sinks # {} => hi \in Nat
  BY <1>1, NeedsAreNumbers, TeeAssumption DEF hi, Most, Least
<1>5. need'[2] \in Nat
  BY <1>1, <1>3, <1>4 DEF TeeTypeOK
<1>6. TeeTypeOK'
  BY <1>1, <1>2, <1>3, <1>5 DEF TeeTypeOK
<1>7. BytesAreCarried'
  BY <1>2, CarriedRests DEF TeeInv
<1>8. RoomIsLeft'
  <2> SUFFICES ASSUME NEW b \in alive
               PROVE  /\ Len(buffer[b]) <= Limit
                      /\ loop' = "read" => Len(buffer[b]) + need'[2] <= Limit
    BY <1>2 DEF RoomIsLeft
  <2>1. Len(buffer[b]) \in Nat /\ Len(buffer[b]) <= Limit
    BY <1>1 DEF TeeTypeOK, TeeInv, RoomIsLeft
  <2>2. loop' = "read" => hi \in Nat /\ need'[2] = hi /\ ~(Len(buffer[b]) + hi > Limit)
    BY <1>3, <1>4
  <2> QED BY <2>1, <2>2, TeeAssumption
<1>9. PumpsAreAwaited'
  BY <1>2 DEF PumpsAreAwaited
<1>10. SinksAreServed'
  <2>1. \A b \in Branches : sink[b] # NoSink => b \in Sinks /\ ops[b] > 0
    BY DEF TeeInv, SinksAreServed, Sinks
  <2>2. Sinks # {} => loop' # "idle"
    BY <1>3
  <2> QED BY <1>2, <2>1, <2>2 DEF SinksAreServed, Sinks
<1>11. UnusedIsBlank'
  BY <1>2 DEF TeeInv, UnusedIsBlank
<1> QED BY <1>6, <1>7, <1>8, <1>9, <1>10, <1>11 DEF TeeInv

\* What the input answers is appended to every buffer, and fits.
LEMMA InnerReadKeeps == ASSUME TeeInv, NEW n \in 0..Source, InnerRead(n) PROVE TeeInv'
<1> DEFINE more == [i \in 1..n |-> pulled + i]
<1>1. TeeTypeOK
  BY DEF TeeInv
<1>2. /\ loop = "read" /\ loop' = "fill" /\ pulled' = pulled + n
      /\ UNCHANGED <<alive, sink, flight, seen, base, ops, need>>
      /\ stoppage' = IF n < need[1] THEN "eof" ELSE stoppage
      /\ buffer' = [b \in Branches |-> IF b \in alive THEN buffer[b] \o more ELSE buffer[b]]
  BY DEF InnerRead
<1>3. n \in Nat /\ pulled \in Nat /\ need[2] \in Nat
  BY <1>1, TeeAssumption DEF TeeTypeOK
<1>4. more \in Seq(Nat) /\ Len(more) = n
  BY <1>3
<1>5. n <= need[2]
  BY <1>3, TeeAssumption DEF InnerRead, Least
<1> HIDE DEF more
<1>6. TeeTypeOK'
  <2>1. buffer' \in [Branches -> Seq(Nat)]
    <3>1. \A b \in Branches : buffer[b] \o more \in Seq(Nat)
      BY <1>1, <1>4, Joined DEF TeeTypeOK
    <3> QED BY <1>1, <1>2, <3>1 DEF TeeTypeOK
  <2>2. pulled' \in Nat /\ stoppage' \in {"none", "eof", "error"}
    BY <1>1, <1>2, <1>3 DEF TeeTypeOK
  <2> QED BY <1>1, <1>2, <2>1, <2>2 DEF TeeTypeOK
<1>7. BytesAreCarried'
  <2> SUFFICES ASSUME NEW b \in alive
               PROVE  /\ base[b] <= pulled + n
                      /\ seen[b] \o flight[b] \o (buffer[b] \o more) = Input(base[b], pulled + n)
    <3>1. \A b \in alive : buffer'[b] = buffer[b] \o more
      BY <1>1, <1>2 DEF TeeTypeOK
    <3> QED BY <1>2, <3>1 DEF BytesAreCarried
  <2>1. /\ base[b] \in Nat /\ seen[b] \in Seq(Nat) /\ flight[b] \in Seq(Nat) /\ buffer[b] \in Seq(Nat)
        /\ base[b] <= pulled /\ seen[b] \o flight[b] \o buffer[b] = Input(base[b], pulled)
    BY <1>1 DEF TeeTypeOK, TeeInv, BytesAreCarried
  <2>2. Input(base[b], pulled) \o more = Input(base[b], pulled + n)
    BY <1>3, <2>1, InputGoesOn DEF more
  <2>3. seen[b] \o flight[b] \in Seq(Nat)
    BY <2>1, Joined
  <2>4. (seen[b] \o flight[b]) \o (buffer[b] \o more) = ((seen[b] \o flight[b]) \o buffer[b]) \o more
    BY <1>4, <2>1, <2>3, Associates
  <2>5. base[b] <= pulled + n
    BY <1>3, <2>1
  <2> QED BY <2>1, <2>2, <2>4, <2>5
<1>8. RoomIsLeft'
  <2> SUFFICES ASSUME NEW b \in alive
               PROVE  Len(buffer[b] \o more) <= Limit
    <3>1. \A b \in alive : buffer'[b] = buffer[b] \o more
      BY <1>1, <1>2 DEF TeeTypeOK
    <3>2. loop' # "read" /\ alive' = alive
      BY <1>2
    <3> QED BY <3>1, <3>2 DEF RoomIsLeft
  <2>1. buffer[b] \in Seq(Nat) /\ Len(buffer[b]) \in Nat /\ Len(buffer[b]) + need[2] <= Limit
    BY <1>1, <1>2 DEF TeeTypeOK, TeeInv, RoomIsLeft
  <2>2. Len(buffer[b] \o more) = Len(buffer[b]) + n
    BY <1>4, <2>1, ConcatProperties
  <2> QED BY <1>3, <1>5, <2>1, <2>2, TeeAssumption
<1>9. PumpsAreAwaited'
  BY <1>2 DEF TeeInv, PumpsAreAwaited
<1>10. SinksAreServed'
  BY <1>2 DEF TeeInv, SinksAreServed
<1>11. UnusedIsBlank'
  BY <1>2 DEF TeeInv, UnusedIsBlank
<1> QED BY <1>6, <1>7, <1>8, <1>9, <1>10, <1>11 DEF TeeInv

\* An input that throws stops the tee.
LEMMA InnerThrowsKeeps == ASSUME TeeInv, InnerThrows PROVE TeeInv'
<1> USE DEF InnerThrows
<1>1. TeeTypeOK' /\ TeeTypeOK
  BY DEF TeeInv, TeeTypeOK
<1>2. BytesAreCarried'
  BY CarriedRests DEF TeeInv
<1>3. RoomIsLeft'
  BY DEF TeeInv, RoomIsLeft
<1>4. PumpsAreAwaited'
  BY DEF TeeInv, PumpsAreAwaited
<1>5. SinksAreServed'
  BY DEF TeeInv, SinksAreServed
<1>6. UnusedIsBlank'
  BY DEF TeeInv, UnusedIsBlank
<1> QED BY <1>1, <1>2, <1>3, <1>4, <1>5, <1>6 DEF TeeInv

\* The tee's invariant holds in every reachable state.
THEOREM TeeInvariant == TeeSpec => []TeeInv
<1>1. TeeInv /\ [TeeNext]_teeVars => TeeInv'
  <2> SUFFICES ASSUME TeeInv, [TeeNext]_teeVars PROVE TeeInv'
    OBVIOUS
  <2>1. CASE \E b \in Branches : \E rd \in TeeReads : TryRead(b, rd[1], rd[2])
    <3>1. PICK b \in Branches, rd \in TeeReads : TryRead(b, rd[1], rd[2])
      BY <2>1
    <3>2. rd[1] \in Nat /\ rd[2] \in Nat
      BY TeeAssumption
    <3> QED BY <3>1, <3>2, TryReadKeeps
  <2>2. CASE \E b \in Branches : \E a \in TeeAmounts : PumpTo(b, a)
    <3>1. PICK b \in Branches, a \in TeeAmounts : PumpTo(b, a)
      BY <2>2
    <3>2. a \in Nat
      BY TeeAssumption
    <3> QED BY <3>1, <3>2, PumpToKeeps
  <2>3. CASE \E b \in Branches : DropOp(b)
    BY <2>3, DropOpKeeps
  <2>4. CASE \E b \in Branches : DropBranch(b)
    BY <2>4, DropBranchKeeps
  <2>5. CASE \E b \in Branches : PumpWritten(b)
    BY <2>5, PumpWrittenKeeps
  <2>6. CASE \E b \in Branches : \E c \in Branches : Clone(b, c)
    BY <2>6, CloneKeeps
  <2>7. CASE Fill
    BY <2>7, FillKeeps
  <2>8. CASE Analyze
    BY <2>8, AnalyzeKeeps
  <2>9. CASE InnerThrows
    BY <2>9, InnerThrowsKeeps
  <2>10. CASE \E n \in 0..Source : InnerRead(n)
    BY <2>10, InnerReadKeeps
  <2>11. CASE UNCHANGED teeVars
    <3> USE <2>11 DEF teeVars
    <3>1. TeeTypeOK'
      BY DEF TeeInv, TeeTypeOK
    <3>2. BytesAreCarried'
      BY CarriedRests DEF TeeInv
    <3>3. RoomIsLeft'
      BY DEF TeeInv, RoomIsLeft
    <3>4. PumpsAreAwaited' /\ SinksAreServed' /\ UnusedIsBlank'
      BY DEF TeeInv, PumpsAreAwaited, SinksAreServed, UnusedIsBlank
    <3> QED BY <3>1, <3>2, <3>3, <3>4 DEF TeeInv
  <2> QED BY <2>1, <2>2, <2>3, <2>4, <2>5, <2>6, <2>7, <2>8, <2>9, <2>10, <2>11 DEF TeeNext, Pull
<1> QED BY <1>1, TeeStart, PTL DEF TeeSpec

\* BranchesSeeTheInput holds for any number of branches and operations, an input of
\* any length and any limit: what a branch has seen, what is on its way and what is
\* buffered for it are the input from where it began, no buffer outgrows the limit,
\* and the loop never rests while an operation waits (async-io.cc, class AsyncTee).
THEOREM EveryBranchSees == TeeSpec => []BranchesSeeTheInput
<1>1. TeeInv => BranchesSeeTheInput
  BY DEF TeeInv, BytesAreCarried, RoomIsLeft, SinksAreServed, Input, BranchesSeeTheInput
<1> QED BY <1>1, TeeInvariant, PTL
=============================================================================
