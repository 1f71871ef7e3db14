---------------------------- MODULE ThreadProofs ----------------------------
(***************************************************************************)
(* Proofs about what threads share without a mutex, or through one that    *)
(* only guards a list: Once, for any set of threads, XThreadPaf, for any   *)
(* set of fulfilling threads, and Executor, for any number of threads and  *)
(* events and any choice of who asks whom.                                 *)
(***************************************************************************)
EXTENDS Once, XThreadPaf, Executor, SequenceTheorems, TLAPS

----------------------------------------------------------------------------
(* Once *)

(* A value is there from the end of a successful initializer on. *)
BuiltIsThere ==
  /\ futex = "INITIALIZED" => value = "built"
  /\ \A t \in Threads : pc[t] = "succeeded" => value = "built"

(* What a thread remembers of the word once it was INITIALIZED is still true:
   reset() needs everybody outside. *)
DoneStaysDone ==
  \A t \in Threads :
    \/ pc[t] = "wakeAndReturn"
    \/ pc[t] = "examine" /\ seen[t] = "INITIALIZED"
    => futex = "INITIALIZED"

OnceInv == BuiltOnce /\ BuiltIsThere /\ DoneStaysDone

(* The groups of places, spelled out for the provers. *)
LEMMA PlaceSets ==
  /\ Initializing = {"init", "failed", "succeeded"}
  /\ Waking = {"wakeAndThrow", "wakeAndReturn"}
  /\ Places = {"idle", "start", "read", "init", "failed", "succeeded", "wakeAndThrow",
               "wakeAndReturn", "examine", "mark", "sleep", "asleep", "reload"}
  BY DEF Initializing, Waking, Following, Places

(* A new Lazy satisfies the invariant. *)
LEMMA OnceInitInv == OnceInit => OnceInv
  BY PlaceSets DEF OnceInit, OnceInv, BuiltOnce, OnceTypeOK, OneInitializer, ReadersFollowBuild,
       SleepersAreAnnounced, BuiltIsThere, DoneStaysDone, OnceStates, Objects

(* The steps of runOnce() preserve it. *)
LEMMA OnceNextInv == OnceInv /\ [OnceNext]_onceVars => OnceInv'
<1> SUFFICES ASSUME OnceInv, [OnceNext]_onceVars PROVE OnceInv'
  OBVIOUS
<1> USE PlaceSets DEF Goto, Load, OnceInv, BuiltOnce, OnceTypeOK, OneInitializer, ReadersFollowBuild,
       SleepersAreAnnounced, BuiltIsThere, DoneStaysDone, OnceStates, Objects
<1>1. CASE UNCHANGED onceVars
  BY <1>1 DEF onceVars
<1>2. CASE Reset
  BY <1>2 DEF Reset
<1>3. ASSUME NEW t \in Threads, Get(t) PROVE OnceInv'
  BY <1>3 DEF Get
<1>4. ASSUME NEW t \in Threads, Start(t) PROVE OnceInv'
  BY <1>4 DEF Start
<1>5. ASSUME NEW t \in Threads, RunInitializer(t) PROVE OnceInv'
  BY <1>5 DEF RunInitializer
<1>6. ASSUME NEW t \in Threads, Publish(t) PROVE OnceInv'
  BY <1>6 DEF Publish
<1>7. ASSUME NEW t \in Threads, Revert(t) PROVE OnceInv'
  BY <1>7 DEF Revert
<1>8. ASSUME NEW t \in Threads, WakeAll(t) PROVE OnceInv'
  BY <1>8 DEF WakeAll
<1>9. ASSUME NEW t \in Threads, Examine(t) PROVE OnceInv'
  BY <1>9 DEF Examine
<1>10. ASSUME NEW t \in Threads, Mark(t) PROVE OnceInv'
  BY <1>10 DEF Mark
<1>11. ASSUME NEW t \in Threads, Sleep(t) PROVE OnceInv'
  BY <1>11 DEF Sleep
<1>12. ASSUME NEW t \in Threads, SpuriousWake(t) PROVE OnceInv'
  BY <1>12 DEF SpuriousWake
<1>13. ASSUME NEW t \in Threads, Reload(t) PROVE OnceInv'
  BY <1>13 DEF Reload
<1>14. ASSUME NEW t \in Threads, ReadValue(t) PROVE OnceInv'
  BY <1>14 DEF ReadValue
<1> QED
  BY <1>1, <1>2, <1>3, <1>4, <1>5, <1>6, <1>7, <1>8, <1>9, <1>10, <1>11, <1>12, <1>13, <1>14
     DEF OnceNext, OnceRuns

(* However many threads call get() and however often an initializer throws,
   Once::runOnce() lets one thread initialise at a time and none after a
   success, nobody reads the value before it is built, and no thread sleeps on
   the futex without somebody bound to wake it. *)
THEOREM BuiltOnceHolds == OnceSpec => []BuiltOnce
<1>1. OnceInv => BuiltOnce
  BY DEF OnceInv
<1> QED BY <1>1, OnceInitInv, OnceNextInv, PTL DEF OnceSpec

----------------------------------------------------------------------------
(* XThreadPaf *)

InCall == {"claim", "fill", "publish"}

(* The pointer is given to one thread, and the object is unclaimed until that
   thread has claimed it. *)
OneHolder ==
  /\ \A f, g \in Fulfillers : at[f] \in InCall /\ at[g] \in InCall => f = g
  /\ \A f \in Fulfillers : at[f] \in InCall => ~target
  /\ target \/ (\E f \in Fulfillers : at[f] = "claim") =>
       state \in {"WAITING", "CANCELED"} /\ deleted = 0

(* What the state of the object says of its two users. *)
StateOfUsers ==
  /\ state = "WAITING" => waiting = "listening"
  /\ state = "CANCELED" => waiting = "gone"
  /\ (\E f \in Fulfillers : at[f] \in {"fill", "publish"}) <=> state = "FULFILLING"
  /\ state = "FULFILLING" => waiting # "gone"
  /\ state = "FULFILLED" /\ waiting # "gone" => fulfilled
  /\ fulfilled => state = "FULFILLED" /\ waiting # "gone"
  /\ waiting = "blocked" => state \in {"FULFILLING", "FULFILLED"}
  /\ waiting # "gone" => alive /\ deleted = 0

(* The result is in the object from the end of Fill on. *)
AnswerIsWritten ==
  /\ ready => state = "DISPATCHED"
  /\ answers = IF \/ state \in {"FULFILLED", "DISPATCHED"}
                  \/ \E f \in Fulfillers : at[f] = "publish"
                 THEN 1 ELSE 0

PafInv == PafTypeOK /\ OneHolder /\ StateOfUsers /\ AnswerIsWritten

(* A new promise and fulfiller satisfy the invariant. *)
LEMMA PafInitInv == PafInit => PafInv
<1> SUFFICES ASSUME PafInit PROVE PafInv OBVIOUS
<1>1. PafTypeOK
  <2>1. at \in [Fulfillers -> {"idle", "claim", "fill", "publish", "ask"}]
    BY DEF PafInit
  <2>2. /\ state \in PafStates /\ answers \in 0..1 /\ deleted \in 0..1
        /\ waiting \in {"listening", "blocked", "gone"}
    BY DEF PafInit, PafStates
  <2> QED BY <2>1, <2>2, Zenon DEF PafInit, PafTypeOK
<1>2. OneHolder /\ StateOfUsers
  BY DEF PafInit, OneHolder, StateOfUsers, InCall
<1>3. AnswerIsWritten
  BY DEF PafInit, AnswerIsWritten
<1> QED BY <1>1, <1>2, <1>3 DEF PafInv

(* The steps of both sides preserve it. *)
LEMMA PafNextInv == PafInv /\ [PafNext]_pafVars => PafInv'
<1> SUFFICES ASSUME PafInv, [PafNext]_pafVars PROVE PafInv'
  OBVIOUS
<1> USE DEF MoveTo, object, PafInv, PafTypeOK, OneHolder, StateOfUsers, AnswerIsWritten, PafStates,
       InCall
<1>1. CASE UNCHANGED pafVars
  BY <1>1 DEF pafVars
<1>2. ASSUME NEW f \in Fulfillers, Fulfill(f) PROVE PafInv'
  BY <1>2 DEF Fulfill
<1>3. ASSUME NEW f \in Fulfillers, DropFulfiller(f) PROVE PafInv'
  BY <1>3 DEF DropFulfiller
<1>4. ASSUME NEW f \in Fulfillers, isWaiting(f) PROVE PafInv'
  BY <1>4 DEF isWaiting
<1>5. ASSUME NEW f \in Fulfillers, Claim(f) PROVE PafInv'
  BY <1>5 DEF Claim
<1>6. ASSUME NEW f \in Fulfillers, Fill(f) PROVE PafInv'
  BY <1>6 DEF Fill
<1>7. ASSUME NEW f \in Fulfillers, EndScope(f) PROVE PafInv'
  BY <1>7 DEF EndScope
<1>8. ASSUME NEW f \in Fulfillers, LoadState(f) PROVE PafInv'
  BY <1>8 DEF LoadState
<1>9. CASE Dispatch
  BY <1>9 DEF Dispatch
<1>10. CASE destroy
  <2>1. PafTypeOK' /\ OneHolder'
    BY <1>10 DEF destroy
  <2>2. StateOfUsers'
    BY <1>10 DEF destroy
  <2>3. AnswerIsWritten'
    BY <1>10 DEF destroy
  <2> QED BY <2>1, <2>2, <2>3
<1>11. CASE destroyFulfilled
  <2>a. fulfilled' = FALSE /\ deleted' = 1 /\ waiting' = "gone"
    BY <1>11 DEF destroyFulfilled
  <2>1. PafTypeOK'
    <3>1. deleted' \in 0..1 /\ waiting' \in {"listening", "blocked", "gone"}
      BY <2>a
    <3> QED BY <1>11, <2>a, <3>1, Zenon DEF destroyFulfilled
  <2>2. OneHolder'
    BY <1>11 DEF destroyFulfilled
  <2>3. StateOfUsers'
    BY <1>11 DEF destroyFulfilled
  <2>4. AnswerIsWritten'
    BY <1>11 DEF destroyFulfilled
  <2> QED BY <2>1, <2>2, <2>3, <2>4
<1>12. CASE Exit
  BY <1>12 DEF Exit
<1> QED
  BY <1>1, <1>2, <1>3, <1>4, <1>5, <1>6, <1>7, <1>8, <1>9, <1>10, <1>11, <1>12
     DEF PafNext, PafRuns

(* Whatever the waiting thread and the holders of the fulfiller do, the object
   they share is deleted at most once and by the last of them, a thread inside
   isWaiting() included until another one takes the pointer from it; what is
   dispatched was written by exactly one thread, and FulfillScope finds the
   object either waiting or cancelled, as async.cc asserts. *)
THEOREM ObjectIsValidHolds == PafSpec => []ObjectIsValid
<1>1. PafInv => ObjectIsValid
  BY DEF PafInv, PafTypeOK, OneHolder, StateOfUsers, AnswerIsWritten, InCall, PafStates,
         ObjectIsValid, LastUserDeletes, Fulfilling, Asking, OneAnswer, ClaimFindsCanceled
<1> QED BY <1>1, PafInitInv, PafNextInv, PTL DEF PafSpec

----------------------------------------------------------------------------
(* Executor *)

Distinct(s) == \A i, j \in 1..Len(s) : s[i] = s[j] => i = j

(* What application code is in the middle of belongs to its thread; an event
   that is being sent was not sent before, and those before it were. *)
CallIsOwn(t) ==
  /\ call[t] # None =>
       subject[t] \in Events /\ Requester[subject[t]] = t /\ loopPc[t] \in {"loop", "execute"}
  /\ call[t] = "send" =>
       /\ Unsent(subject[t])
       /\ \A d \in Events : d < subject[t] /\ Requester[d] = t => ~Unsent(d)
  /\ call[t] \in {"retract", "unlink"} => eventState[subject[t]] = "DONE"
  /\ call[t] = "orphaned" => ~loopAlive[Target[subject[t]]]
CallsAreOwn == \A t \in Loops : CallIsOwn(t)

(* The event that a loop is busy with is one of its own; a loop that is gone
   has nothing queued in the end. *)
Busy == {"execute", "reply", "done", "exitDone"}
Exiting == {"exit", "exitDone", "unqueue", "exited"}
CurrentOwn(t) ==
  /\ loopPc[t] \in Busy => current[t] \in Events /\ Target[current[t]] = t
  /\ loopPc[t] \notin Busy => current[t] = NoEvent
  /\ loopPc[t] \in Exiting <=> ~loopAlive[t]
  /\ loopPc[t] = "exited" => queue[t] = <<>>
  /\ loopPc[t] = "reply" => result[current[t]] # None
CurrentIsOwn == \A t \in Loops : CurrentOwn(t)

(* Promises are destroyed between turns, or while the thread waits for a
   cancellation. *)
Outside(t) ==
  /\ outside[t] # {} => (loopPc[t] = "loop" /\ call[t] = None) \/ call[t] \in {"await", "unlink"}
  /\ \A e \in outside[t] : Target[e] = t /\ eventState[e] = "CANCELING" /\ e \notin cancel
  /\ \A e \in outside[t] : node[e] = None => ~Contains(queue[t], e)
OutsideIsOwn == \A t \in Loops : Outside(t)

(* The lists hold a thread's own events, each once. *)
ListOwn(t) ==
  /\ Distinct(start[t]) /\ Distinct(queue[t])
  /\ \A e \in Events : Contains(start[t], e) => Target[e] = t /\ eventState[e] = "QUEUED"
  /\ \A e \in Events : Contains(queue[t], e) =>
       /\ Target[e] = t /\ node[e] # "pending"
       /\ e = current[t] => loopPc[t] = "exitDone"
       /\ eventState[e] \notin {"UNUSED", "QUEUED"}
ListsAreOwn == \A t \in Loops : ListOwn(t)

(* The lists an event is on agree with its state; an event that was not sent
   is nowhere, and one that was freed is DONE. *)
StateAgrees(e) ==
  /\ e \in executing => eventState[e] = "EXECUTING"
  /\ e \in cancel => eventState[e] = "CANCELING"
  /\ eventState[e] = "QUEUED" =>
       \/ Contains(start[Target[e]], e)
       \/ loopPc[Target[e]] = "exitDone" /\ current[Target[e]] = e
  /\ eventState[e] \in {"UNUSED", "QUEUED"} => node[e] = None
  /\ eventState[e] = "UNUSED" => current[Target[e]] # e /\ ~freed[e]
  /\ eventState[e] = "QUEUED" /\ current[Target[e]] = e => loopPc[Target[e]] = "exitDone"
  /\ freed[e] => eventState[e] = "DONE"
  /\ loopPc[Target[e]] = "exitDone" /\ current[Target[e]] = e =>
       ~Contains(start[Target[e]], e) /\ e \notin executing /\ e \notin cancel
StatesAgree == \A e \in Events : StateAgrees(e)

(* Whoever was answered finds a result, and a thread that has left has no
   event with a target. *)
RepliesAreFilled ==
  \A e \in Events :
    /\ resolved[e] \/ e \in replies => result[e] # None
    /\ ~loopAlive[Requester[e]] => Unsent(e) \/ freed[e]

(* Events of one thread are sent in order ... *)
SentInOrder ==
  \A d, e \in Events : d < e /\ Requester[d] = Requester[e] /\ Unsent(d) => Unsent(e)

(* ... and started in order; *)
Mates(d, e) == d < e /\ Requester[d] = Requester[e] /\ Target[d] = Target[e]
Started(e) ==
  \/ Armed(e) \/ node[e] # None
  \/ loopPc[Target[e]] = "execute" /\ current[Target[e]] = e
StartedInOrder ==
  \A d, e \in Events : Mates(d, e) /\ eventState[d] = "QUEUED" => ~Started(e)

(* so they are on the lists, as long as they have not run. *)
StartSorted ==
  \A t \in Loops : \A i, j \in 1..Len(start[t]) :
    i < j /\ Requester[start[t][i]] = Requester[start[t][j]] => start[t][i] < start[t][j]
QueueSorted ==
  \A t \in Loops : loopAlive[t] => \A i, j \in 1..Len(queue[t]) :
    /\ i < j /\ Requester[queue[t][i]] = Requester[queue[t][j]]
    /\ node[queue[t][i]] = None /\ node[queue[t][j]] = None
    => queue[t][i] < queue[t][j]

(* An event that a thread which only serves is busy with is not DONE. *)
Live == {"EXECUTING", "CANCELING"}
ServedEvent(e) ==
  /\ (Armed(e) /\ loopAlive[Target[e]]) \/ node[e] # None => eventState[e] \in Live
  /\ current[Target[e]] = e =>
       /\ node[e] = None /\ eventState[e] # "DONE"
       /\ loopPc[Target[e]] # "exitDone" => eventState[e] \in Live
  /\ freed[e] /\ loopAlive[Target[e]] => e \notin replies
ServedWell == \A e \in Events : Serving(Target[e]) => ServedEvent(e)
NoAbort == (\A e \in Events : Serving(Target[e]) /\ loopAlive[Target[e]]) => ~crashed

ExecutorInv ==
  /\ ExecutorTypeOK /\ CallsAreOwn /\ CurrentIsOwn /\ OutsideIsOwn /\ ListsAreOwn
  /\ StatesAgree /\ RepliesAreFilled /\ SentInOrder /\ StartedInOrder
  /\ StartSorted /\ QueueSorted /\ ServedWell /\ NoAbort

----------------------------------------------------------------------------
(* Lists *)

(* A list without its i-th element, element by element. *)
LEMMA RemoveAtList ==
  ASSUME NEW S, NEW s \in Seq(S), NEW i \in 1..Len(s)
  PROVE  /\ RemoveAt(s, i) \in Seq(S)
         /\ Len(RemoveAt(s, i)) = Len(s) - 1
         /\ \A j \in 1..(Len(s) - 1) :
              RemoveAt(s, i)[j] = IF j < i THEN s[j] ELSE s[j + 1]
<1> DEFINE a == SubSeq(s, 1, i - 1)
           b == SubSeq(s, i + 1, Len(s))
<1>1. a \in Seq(S) /\ Len(a) = i - 1 /\ \A j \in 1..(i - 1) : a[j] = s[j]
  OBVIOUS
<1>2. b \in Seq(S) /\ Len(b) = Len(s) - i /\ \A j \in 1..(Len(s) - i) : b[j] = s[i + j]
  OBVIOUS
<1>3. RemoveAt(s, i) = a \o b
  BY DEF RemoveAt
<1> HIDE DEF a, b
<1>4. a \o b \in Seq(S) /\ Len(a \o b) = Len(s) - 1
  <2>1. a \o b \in Seq(S) /\ Len(a \o b) = Len(a) + Len(b)
    BY <1>1, <1>2, ConcatProperties
  <2> QED BY <1>1, <1>2, <2>1
<1>5. ASSUME NEW j \in 1..(Len(s) - 1)
      PROVE  (a \o b)[j] = IF j < i THEN s[j] ELSE s[j + 1]
  <2>1. CASE j < i
    BY <1>1, <1>2, <2>1
  <2>2. CASE ~(j < i)
    <3>1. (a \o b)[j] = b[j - (i - 1)]
      BY <1>1, <1>2, <2>2
    <3>2. j - (i - 1) \in 1..(Len(s) - i) /\ i + (j - (i - 1)) = j + 1
      BY <2>2
    <3> QED BY <1>2, <2>2, <3>1, <3>2
  <2> QED BY <2>1, <2>2
<1> QED BY <1>3, <1>4, <1>5

(* What r has, s has, in the same order. *)
Follows(r, s) ==
  \A j, k \in 1..Len(r) : j < k =>
    \E m, n \in 1..Len(s) : m < n /\ r[j] = s[m] /\ r[k] = s[n]

(* Taken from a list without repetitions, an element is gone, and the others
   keep their order. *)
LEMMA RemovedOne ==
  ASSUME NEW S, NEW s \in Seq(S), NEW i \in 1..Len(s), Distinct(s)
  PROVE  /\ RemoveAt(s, i) \in Seq(S)
         /\ Distinct(RemoveAt(s, i))
         /\ \A e : Contains(RemoveAt(s, i), e) <=> Contains(s, e) /\ e # s[i]
         /\ Follows(RemoveAt(s, i), s)
<1> DEFINE r == RemoveAt(s, i)
<1>1. /\ r \in Seq(S) /\ Len(r) = Len(s) - 1
      /\ \A j \in 1..(Len(s) - 1) : r[j] = IF j < i THEN s[j] ELSE s[j + 1]
  BY RemoveAtList
<1> HIDE DEF r
<1>2. Distinct(r)
  <2> SUFFICES ASSUME NEW j \in 1..Len(r), NEW k \in 1..Len(r), r[j] = r[k]
              PROVE  j = k
    BY DEF Distinct
  <2>1. \A n \in 1..Len(r) : r[n] = IF n < i THEN s[n] ELSE s[n + 1]
    BY <1>1
  <2>2. CASE j < i /\ k < i
    <3>1. s[j] = s[k] /\ j \in 1..Len(s) /\ k \in 1..Len(s)
      BY <1>1, <2>1, <2>2
    <3> QED BY <3>1 DEF Distinct
  <2>3. CASE j < i /\ ~(k < i)
    <3>1. s[j] = s[k + 1] /\ j \in 1..Len(s) /\ k + 1 \in 1..Len(s)
      BY <1>1, <2>1, <2>3
    <3> QED BY <3>1, <2>3 DEF Distinct
  <2>4. CASE ~(j < i) /\ k < i
    <3>1. s[j + 1] = s[k] /\ j + 1 \in 1..Len(s) /\ k \in 1..Len(s)
      BY <1>1, <2>1, <2>4
    <3> QED BY <3>1, <2>4 DEF Distinct
  <2>5. CASE ~(j < i) /\ ~(k < i)
    <3>1. s[j + 1] = s[k + 1] /\ j + 1 \in 1..Len(s) /\ k + 1 \in 1..Len(s)
      BY <1>1, <2>1, <2>5
    <3> QED BY <3>1 DEF Distinct
  <2> QED BY <2>2, <2>3, <2>4, <2>5
<1>3. Follows(r, s)
  <2> SUFFICES ASSUME NEW j \in 1..Len(r), NEW k \in 1..Len(r), j < k
              PROVE  \E m, n \in 1..Len(s) : m < n /\ r[j] = s[m] /\ r[k] = s[n]
    BY DEF Follows
  <2>1. CASE k < i
    <3>1. j \in 1..Len(s) /\ k \in 1..Len(s) /\ j < k /\ j < i
      BY <1>1, <2>1
    <3>2. r[j] = s[j]
      BY <1>1, <2>1, <3>1
    <3>3. r[k] = s[k]
      BY <1>1, <2>1, <3>1
    <3> QED BY <3>1, <3>2, <3>3
  <2>2. CASE j < i /\ ~(k < i)
    <3>1. j \in 1..Len(s) /\ k + 1 \in 1..Len(s) /\ j < k + 1
      BY <1>1
    <3>2. r[j] = s[j]
      BY <1>1, <2>2, <3>1
    <3>3. r[k] = s[k + 1]
      BY <1>1, <2>2, <3>1
    <3> QED BY <3>1, <3>2, <3>3
  <2>3. CASE ~(j < i)
    <3>1. j + 1 \in 1..Len(s) /\ k + 1 \in 1..Len(s) /\ j + 1 < k + 1
      BY <1>1
    <3>2. r[j] = s[j + 1]
      BY <1>1, <2>3, <3>1
    <3>3. r[k] = s[k + 1]
      BY <1>1, <2>3, <3>1
    <3> QED BY <3>1, <3>2, <3>3
  <2> QED BY <2>1, <2>2, <2>3
<1>4. ASSUME NEW e PROVE Contains(r, e) <=> Contains(s, e) /\ e # s[i]
  <2>1. ASSUME NEW j \in 1..Len(r), r[j] = e PROVE Contains(s, e) /\ e # s[i]
    <3>1. j \in 1..Len(s) /\ j + 1 \in 1..Len(s)
      BY <1>1
    <3> QED BY <1>1, <2>1, <3>1 DEF Contains, Distinct
  <2>2. ASSUME NEW j \in 1..Len(s), s[j] = e, e # s[i] PROVE Contains(r, e)
    <3>1. CASE j < i
      <4>1. j \in 1..Len(r) /\ r[j] = e
        BY <1>1, <2>2, <3>1
      <4> QED BY <4>1 DEF Contains
    <3>2. CASE j > i
      <4>1. j - 1 \in 1..Len(r) /\ r[j - 1] = s[(j - 1) + 1] /\ (j - 1) + 1 = j
        BY <1>1, <3>2
      <4> QED BY <2>2, <4>1 DEF Contains
    <3> QED BY <2>2, <3>1, <3>2
  <2> QED BY <2>1, <2>2 DEF Contains
<1> QED BY <1>1, <1>2, <1>3, <1>4 DEF r

(* The same for the head of a list ... *)
LEMMA TailList ==
  ASSUME NEW S, NEW s \in Seq(S), s # <<>>, Distinct(s)
  PROVE  /\ Tail(s) \in Seq(S) /\ Distinct(Tail(s))
         /\ Head(s) \in S /\ Contains(s, Head(s))
         /\ \A e : Contains(Tail(s), e) <=> Contains(s, e) /\ e # Head(s)
         /\ Follows(Tail(s), s)
<1>1. /\ Tail(s) \in Seq(S) /\ Len(Tail(s)) = Len(s) - 1 /\ Len(s) \in Nat \ {0}
      /\ \A j \in 1..(Len(s) - 1) : Tail(s)[j] = s[j + 1]
      /\ Head(s) = s[1] /\ Head(s) \in S
  OBVIOUS
<1> DEFINE r == Tail(s)
<1> HIDE DEF r
<1>2. Distinct(r)
  BY <1>1 DEF Distinct, r
<1>3. Follows(r, s)
  <2> SUFFICES ASSUME NEW j \in 1..Len(r), NEW k \in 1..Len(r), j < k
              PROVE  \E m, n \in 1..Len(s) : m < n /\ r[j] = s[m] /\ r[k] = s[n]
    BY DEF Follows
  <2>1. /\ j + 1 \in 1..Len(s) /\ k + 1 \in 1..Len(s) /\ j + 1 < k + 1
        /\ r[j] = s[j + 1] /\ r[k] = s[k + 1]
    BY <1>1 DEF r
  <2> QED BY <2>1
<1>4. ASSUME NEW e PROVE Contains(r, e) <=> Contains(s, e) /\ e # s[1]
  <2>1. ASSUME NEW j \in 1..Len(r), r[j] = e PROVE Contains(s, e) /\ e # s[1]
    <3>1. 1 \in 1..Len(s) /\ j + 1 \in 1..Len(s) /\ j + 1 # 1 /\ r[j] = s[j + 1]
      BY <1>1 DEF r
    <3> QED BY <2>1, <3>1 DEF Contains, Distinct
  <2>2. ASSUME NEW j \in 1..Len(s), s[j] = e, e # s[1] PROVE Contains(r, e)
    <3>1. j - 1 \in 1..Len(r) /\ r[j - 1] = s[(j - 1) + 1] /\ (j - 1) + 1 = j
      BY <1>1, <2>2 DEF r
    <3> QED BY <2>2, <3>1 DEF Contains
  <2> QED BY <2>1, <2>2 DEF Contains
<1>5. Contains(s, s[1])
  BY <1>1 DEF Contains
<1> QED BY <1>1, <1>2, <1>3, <1>4, <1>5 DEF r

(* ... and for a list with one element more. *)
LEMMA AppendList ==
  ASSUME NEW S, NEW s \in Seq(S), NEW x \in S, Distinct(s), ~Contains(s, x)
  PROVE  /\ Append(s, x) \in Seq(S) /\ Distinct(Append(s, x))
         /\ \A e : Contains(Append(s, x), e) <=> Contains(s, e) \/ e = x
         /\ \A j, k \in 1..Len(Append(s, x)) : j < k =>
              /\ j \in 1..Len(s) /\ Append(s, x)[j] = s[j]
              /\ \/ k \in 1..Len(s) /\ Append(s, x)[k] = s[k]
                 \/ Append(s, x)[k] = x
<1>1. /\ Append(s, x) \in Seq(S) /\ Len(Append(s, x)) = Len(s) + 1 /\ Len(s) \in Nat
      /\ \A j \in 1..Len(s) : Append(s, x)[j] = s[j]
      /\ Append(s, x)[Len(s) + 1] = x
  OBVIOUS
<1> DEFINE r == Append(s, x)
<1> HIDE DEF r
<1>2. \A j \in 1..Len(r) : j \in 1..Len(s) \/ j = Len(s) + 1
  BY <1>1 DEF r
<1>3. Distinct(r)
  BY <1>1, <1>2 DEF r, Distinct, Contains
<1>4. ASSUME NEW e PROVE Contains(r, e) <=> Contains(s, e) \/ e = x
  <2>1. \A j \in 1..Len(s) : j \in 1..Len(r)
    BY <1>1 DEF r
  <2>2. Len(s) + 1 \in 1..Len(r)
    BY <1>1 DEF r
  <2> QED BY <1>1, <1>2, <2>1, <2>2 DEF r, Contains
<1>5. \A j, k \in 1..Len(r) : j < k =>
        j \in 1..Len(s) /\ (k \in 1..Len(s) \/ k = Len(s) + 1)
  BY <1>1, <1>2 DEF r
<1> QED BY <1>1, <1>3, <1>4, <1>5 DEF r

(* What is in c was in s or is behind it, from r, in the same order. *)
Joins(c, s, r) ==
  \A j, k \in 1..Len(c) : j < k =>
    \/ \E m, n \in 1..Len(s) : m < n /\ c[j] = s[m] /\ c[k] = s[n]
    \/ Contains(s, c[j]) /\ Contains(r, c[k])
    \/ \E m, n \in 1..Len(r) : m < n /\ c[j] = r[m] /\ c[k] = r[n]

(* ... or with another list behind it. *)
LEMMA ConcatList ==
  ASSUME NEW S, NEW s \in Seq(S), NEW r \in Seq(S), Distinct(s), Distinct(r),
         \A x \in S : ~(Contains(s, x) /\ Contains(r, x))
  PROVE  /\ s \o r \in Seq(S) /\ Distinct(s \o r)
         /\ \A e \in S : Contains(s \o r, e) <=> Contains(s, e) \/ Contains(r, e)
         /\ Joins(s \o r, s, r)
<1> DEFINE c == s \o r
           a == Len(s)
<1>1. /\ c \in Seq(S) /\ Len(c) = a + Len(r) /\ a \in Nat /\ Len(r) \in Nat
      /\ \A j \in 1..a : c[j] = s[j]
      /\ \A j \in 1..Len(r) : c[a + j] = r[j]
  OBVIOUS
<1> HIDE DEF c, a
<1>2. ASSUME NEW j \in 1..Len(c)
      PROVE  (j \in 1..a /\ c[j] = s[j]) \/ (j - a \in 1..Len(r) /\ c[j] = r[j - a])
  <2>1. CASE j <= a
    BY <1>1, <2>1
  <2>2. CASE j > a
    <3>1. j - a \in 1..Len(r) /\ a + (j - a) = j
      BY <1>1, <2>2
    <3> QED BY <1>1, <3>1
  <2> QED BY <1>1, <2>1, <2>2
<1>3. \A e \in S : Contains(c, e) <=> Contains(s, e) \/ Contains(r, e)
  <2> SUFFICES ASSUME NEW e \in S PROVE Contains(c, e) <=> Contains(s, e) \/ Contains(r, e)
    OBVIOUS
  <2>1. ASSUME NEW j \in 1..a, s[j] = e PROVE Contains(c, e)
    <3>1. j \in 1..Len(c) /\ c[j] = e
      BY <1>1, <2>1
    <3> QED BY <3>1 DEF Contains
  <2>2. ASSUME NEW j \in 1..Len(r), r[j] = e PROVE Contains(c, e)
    <3>1. a + j \in 1..Len(c) /\ c[a + j] = e
      BY <1>1, <2>2
    <3> QED BY <3>1 DEF Contains
  <2>3. ASSUME NEW j \in 1..Len(c), c[j] = e PROVE Contains(s, e) \/ Contains(r, e)
    BY <1>2, <2>3 DEF Contains, a
  <2> QED BY <2>1, <2>2, <2>3 DEF Contains, a
<1>4. Distinct(c)
  <2> SUFFICES ASSUME NEW j \in 1..Len(c), NEW k \in 1..Len(c), c[j] = c[k] PROVE j = k
    BY DEF Distinct
  <2>1. CASE j \in 1..a /\ c[j] = s[j] /\ k \in 1..a /\ c[k] = s[k]
    BY <2>1 DEF Distinct, a
  <2>2. CASE /\ j - a \in 1..Len(r) /\ c[j] = r[j - a]
             /\ k - a \in 1..Len(r) /\ c[k] = r[k - a]
    <3>1. j - a = k - a
      BY <2>2 DEF Distinct
    <3> QED BY <1>1, <3>1
  <2>3. c[j] \in S
    BY <1>1
  <2>4. ~(j \in 1..a /\ c[j] = s[j] /\ k - a \in 1..Len(r) /\ c[k] = r[k - a])
    BY <2>3 DEF Contains, a
  <2>5. ~(k \in 1..a /\ c[k] = s[k] /\ j - a \in 1..Len(r) /\ c[j] = r[j - a])
    BY <2>3 DEF Contains, a
  <2> QED BY <1>2, <2>1, <2>2, <2>4, <2>5
<1>5. ASSUME NEW j \in 1..Len(c), NEW k \in 1..Len(c), j < k
      PROVE  \/ \E m, n \in 1..Len(s) : m < n /\ c[j] = s[m] /\ c[k] = s[n]
             \/ Contains(s, c[j]) /\ Contains(r, c[k])
             \/ \E m, n \in 1..Len(r) : m < n /\ c[j] = r[m] /\ c[k] = r[n]
  <2>1. CASE j \in 1..a /\ c[j] = s[j] /\ k \in 1..a /\ c[k] = s[k]
    BY <1>5, <2>1 DEF a
  <2>2. CASE j \in 1..a /\ c[j] = s[j] /\ k - a \in 1..Len(r) /\ c[k] = r[k - a]
    BY <2>2 DEF Contains, a
  <2>3. CASE /\ j - a \in 1..Len(r) /\ c[j] = r[j - a]
             /\ k - a \in 1..Len(r) /\ c[k] = r[k - a]
    <3>1. j - a < k - a
      BY <1>1, <1>5
    <3> QED BY <2>3, <3>1
  <2>4. ~(k \in 1..a /\ j - a \in 1..Len(r))
    BY <1>1, <1>5
  <2> QED BY <1>2, <2>1, <2>2, <2>3, <2>4
<1>6. Joins(c, s, r)
  BY <1>5 DEF Joins
<1> QED BY <1>1, <1>3, <1>4, <1>6 DEF c

----------------------------------------------------------------------------
(* Who asks whom *)

(* The route of a run has the type its constants were given, and stays. *)
LEMMA RouteKept ==
  ASSUME ExecutorInv, UNCHANGED route
  PROVE  /\ Requester' = Requester /\ Target' = Target /\ SyncEvents' = SyncEvents
         /\ Pollers' = Pollers
         /\ Requester \in [Events -> Loops] /\ Target \in [Events -> Loops]
         /\ \A x \in Events : x \in Nat /\ x # 0
  BY RoutesAssumption, EventsAssumption
     DEF ExecutorInv, ExecutorTypeOK, Requester, Target, SyncEvents, Pollers

(* Started() and the order of starting depend on these variables only. *)
LEMMA StartedFrame ==
  ASSUME ExecutorInv, UNCHANGED <<route, eventState, node, queue, loopPc, current>>
  PROVE  StartedInOrder'
<1>1. \A e \in Events : Started(e)' <=> Started(e)
  BY RouteKept DEF Started, Armed
<1> QED BY <1>1, RouteKept DEF ExecutorInv, StartedInOrder, Mates

(* Nothing is sent ... *)
LEMMA SentFrame ==
  ASSUME ExecutorInv, UNCHANGED route, \A x \in Events : Unsent(x)' <=> Unsent(x)
  PROVE  SentInOrder'
<1> SUFFICES ASSUME NEW d \in Events, NEW e \in Events,
                    d < e, Requester[d] = Requester[e], Unsent(d)'
             PROVE  Unsent(e)'
  BY RouteKept DEF SentInOrder
<1>1. Unsent(d)
  OBVIOUS
<1>2. Unsent(e)
  BY <1>1 DEF ExecutorInv, SentInOrder
<1> QED BY <1>2

(* ... nor started. *)
LEMMA NoneStarted ==
  ASSUME ExecutorInv, UNCHANGED route, \A x \in Events : Started(x)' => Started(x),
         \A x \in Events : eventState'[x] = "QUEUED" => eventState[x] = "QUEUED"
  PROVE  StartedInOrder'
<1> SUFFICES ASSUME NEW d \in Events, NEW e \in Events,
                    Mates(d, e)', eventState'[d] = "QUEUED", Started(e)'
             PROVE  FALSE
  BY DEF StartedInOrder
<1>1. Mates(d, e)
  BY RouteKept DEF Mates
<1> QED BY <1>1 DEF ExecutorInv, StartedInOrder

(* Elements leave the queues, and those that are left have not become fresh. *)
LEMMA QueueShrinks ==
  ASSUME ExecutorInv, UNCHANGED route, queue' \in [Loops -> Seq(Events)],
         \A v \in Loops : Follows(queue'[v], queue[v]),
         \A v \in Loops, x \in Events :
           loopAlive'[v] => /\ loopAlive[v]
                            /\ Contains(queue'[v], x) /\ node'[x] = None => node[x] = None
  PROVE  QueueSorted'
<1> SUFFICES ASSUME NEW v \in Loops, loopAlive'[v], NEW j \in 1..Len(queue'[v]), NEW k \in 1..Len(queue'[v]),
                    j < k, Requester[queue'[v][j]] = Requester[queue'[v][k]],
                    node'[queue'[v][j]] = None, node'[queue'[v][k]] = None
             PROVE  queue'[v][j] < queue'[v][k]
  BY RouteKept DEF QueueSorted
<1>1. queue'[v] \in Seq(Events)
  OBVIOUS
<1>2. queue'[v][j] \in Events /\ queue'[v][k] \in Events
  BY <1>1
<1>3. Contains(queue'[v], queue'[v][j]) /\ Contains(queue'[v], queue'[v][k])
  BY DEF Contains
<1>4. /\ node[queue'[v][j]] = None /\ node[queue'[v][k]] = None
      /\ loopAlive[v]
  BY <1>2, <1>3
<1>5. PICK m, n \in 1..Len(queue[v]) :
        m < n /\ queue'[v][j] = queue[v][m] /\ queue'[v][k] = queue[v][n]
  BY DEF Follows
<1>6. QueueSorted
  BY DEF ExecutorInv
<1> QED BY <1>4, <1>5, <1>6 DEF QueueSorted

(* A list follows itself. *)
LEMMA FollowsSelf == ASSUME NEW s PROVE Follows(s, s)
  BY DEF Follows

(* Elements leave the lists of events to start. *)
LEMMA StartShrinks ==
  ASSUME ExecutorInv, UNCHANGED route, \A v \in Loops : Follows(start'[v], start[v])
  PROVE  StartSorted'
<1> SUFFICES ASSUME NEW v \in Loops, NEW j \in 1..Len(start'[v]), NEW k \in 1..Len(start'[v]),
                    j < k, Requester[start'[v][j]] = Requester[start'[v][k]]
             PROVE  start'[v][j] < start'[v][k]
  BY RouteKept DEF StartSorted
<1>1. PICK m, n \in 1..Len(start[v]) :
        m < n /\ start'[v][j] = start[v][m] /\ start'[v][k] = start[v][n]
  BY DEF Follows
<1>2. StartSorted
  BY DEF ExecutorInv
<1> QED BY <1>1, <1>2 DEF StartSorted

(* What is being destroyed, while none of it is in the hands of t. *)
LEMMA OutsideFrame ==
  ASSUME ExecutorInv, NEW t \in Loops, outside[t] = {},
         \A u \in Loops : u # t => call'[u] = call[u],
         UNCHANGED <<route, outside, eventState, loopPc, cancel, node, queue>>
  PROVE  OutsideIsOwn'
<1> SUFFICES ASSUME NEW u \in Loops PROVE Outside(u)'
  BY DEF OutsideIsOwn
<1>1. Outside(u)
  BY DEF ExecutorInv, OutsideIsOwn
<1>2. CASE u = t
  BY <1>2 DEF Outside
<1>3. CASE u # t
  BY <1>1, <1>3, RouteKept DEF Outside
<1> QED BY <1>2, <1>3

(* A thread that only serves is in no call. *)
LEMMA ServingIsIdle ==
  ASSUME ExecutorInv, NEW u \in Loops, Serving(u) PROVE call[u] = None
  BY DEF ExecutorInv, CallsAreOwn, CallIsOwn, Serving

----------------------------------------------------------------------------
(* The steps *)

(* getLoop() touches nothing but the call. *)
LEMMA GetLoopKeeps ==
  ASSUME ExecutorInv, NEW t \in Loops, NEW e \in Events, getLoop(t, e), UNCHANGED route
  PROVE  ExecutorInv'
<1> USE DEF ExecutorInv, ExecutorTypeOK, None, NoEvent
<1>0. /\ Requester' = Requester /\ Target' = Target /\ SyncEvents' = SyncEvents
      /\ Pollers' = Pollers
      /\ Requester \in [Events -> Loops] /\ Target \in [Events -> Loops]
      /\ \A x \in Events : x \in Nat /\ x # 0
  BY RouteKept
<1> USE <1>0
<1>1. /\ ~crashed /\ loopPc[t] \in {"loop", "execute"} /\ call[t] = None /\ outside[t] = {}
      /\ Requester[e] = t /\ Unsent(e) /\ loopAlive[Target[e]]
      /\ \A d \in Events : d < e /\ Requester[d] = t => ~Unsent(d)
      /\ call' = [call EXCEPT ![t] = "send"]
      /\ subject' = [subject EXCEPT ![t] = e]
      /\ UNCHANGED <<loopAlive, start, executing, cancel, replies, waitingForCancel, eventState, node,
                          result, resolved, freed, queue, loopPc, current, outside, crashed>>
  BY DEF getLoop, InApplication, Within, lists, loopVars, eventVars
<1>11. ExecutorTypeOK'
  BY <1>1 DEF EventStates, Calls
<1>12. CallsAreOwn'
  BY <1>1 DEF CallsAreOwn, CallIsOwn, Unsent
<1>13. CurrentIsOwn'
  BY <1>1 DEF CurrentIsOwn, CurrentOwn, Busy, Exiting
<1>14. OutsideIsOwn'
  BY <1>1 DEF OutsideIsOwn, Outside
<1>15. ListsAreOwn'
  BY <1>1 DEF ListsAreOwn, ListOwn
<1>16. StatesAgree'
  BY <1>1 DEF StatesAgree, StateAgrees
<1>17. RepliesAreFilled'
  BY <1>1 DEF RepliesAreFilled, Unsent
<1>18. SentInOrder'
  BY <1>1 DEF SentInOrder, Unsent
<1>19. StartedInOrder'
  BY <1>1, StartedFrame
<1>20. StartSorted'
  BY <1>1 DEF StartSorted
<1>21. QueueSorted'
  BY <1>1 DEF QueueSorted
<1>22. ServedWell'
  BY <1>1 DEF ServedWell, ServedEvent, Serving, Armed, Live
<1>23. NoAbort'
  BY <1>1 DEF NoAbort, Serving
<1> QED BY <1>11, <1>12, <1>13, <1>14, <1>15, <1>16, <1>17, <1>18, <1>19, <1>20, <1>21, <1>22,
         <1>23

(* executeSync() sees that its event is DONE. *)
LEMMA SyncReturnsKeeps ==
  ASSUME ExecutorInv, NEW t \in Loops, SyncReturns(t), UNCHANGED route
  PROVE  ExecutorInv'
<1> USE DEF ExecutorInv, ExecutorTypeOK, None, NoEvent
<1>0. /\ Requester' = Requester /\ Target' = Target /\ SyncEvents' = SyncEvents
      /\ Pollers' = Pollers
      /\ Requester \in [Events -> Loops] /\ Target \in [Events -> Loops]
      /\ \A x \in Events : x \in Nat /\ x # 0
  BY RouteKept
<1> USE <1>0
<1>1. /\ call[t] = "sync" /\ eventState[subject[t]] = "DONE"
      /\ call' = [call EXCEPT ![t] = "unlink"]
      /\ UNCHANGED <<loopAlive, start, executing, cancel, replies, waitingForCancel, eventState, node,
                          result, resolved, freed, queue, loopPc, current, subject, outside, crashed>>
  BY DEF SyncReturns, Within, lists, loopVars, eventVars
<1>11. ExecutorTypeOK'
  BY <1>1 DEF EventStates, Calls
<1>12. CallsAreOwn'
  <2> SUFFICES ASSUME NEW v \in Loops PROVE CallIsOwn(v)'
    BY DEF CallsAreOwn
  <2>1. CallIsOwn(v)
    BY DEF CallsAreOwn
  <2>2. CASE v = t
    BY <1>1, <2>1, <2>2 DEF CallIsOwn
  <2>3. CASE v # t
    BY <1>1, <2>1, <2>3 DEF CallIsOwn, Unsent
  <2> QED BY <2>2, <2>3
<1>13. CurrentIsOwn'
  BY <1>1 DEF CurrentIsOwn, CurrentOwn, Busy, Exiting
<1>14. OutsideIsOwn'
  BY <1>1 DEF OutsideIsOwn, Outside
<1>15. ListsAreOwn'
  BY <1>1 DEF ListsAreOwn, ListOwn
<1>16. StatesAgree'
  BY <1>1 DEF StatesAgree, StateAgrees
<1>17. RepliesAreFilled'
  BY <1>1 DEF RepliesAreFilled, Unsent
<1>18. SentInOrder'
  BY <1>1 DEF SentInOrder, Unsent
<1>19. StartedInOrder'
  BY <1>1, StartedFrame
<1>20. StartSorted'
  BY <1>1 DEF StartSorted
<1>21. QueueSorted'
  BY <1>1 DEF QueueSorted
<1>22. ServedWell'
  BY <1>1 DEF ServedWell, ServedEvent, Serving, Armed, Live
<1>23. NoAbort'
  BY <1>1 DEF NoAbort, Serving
<1> QED BY <1>11, <1>12, <1>13, <1>14, <1>15, <1>16, <1>17, <1>18, <1>19, <1>20, <1>21, <1>22,
         <1>23

(* A thread that waits for a cancellation looks again. *)
LEMMA AwaitKeeps ==
  ASSUME ExecutorInv, NEW t \in Loops, Await(t), UNCHANGED route
  PROVE  ExecutorInv'
<1> USE DEF ExecutorInv, ExecutorTypeOK, None, NoEvent
<1>0. /\ Requester' = Requester /\ Target' = Target /\ SyncEvents' = SyncEvents
      /\ Pollers' = Pollers
      /\ Requester \in [Events -> Loops] /\ Target \in [Events -> Loops]
      /\ \A x \in Events : x \in Nat /\ x # 0
  BY RouteKept
<1> USE <1>0
<1>1. /\ call[t] = "await" /\ outside[t] = {}
      /\ call' = [call EXCEPT ![t] = IF eventState[subject[t]] = "DONE" THEN "retract" ELSE "declare"]
      /\ UNCHANGED <<loopAlive, start, executing, cancel, replies, waitingForCancel, eventState, node,
                          result, resolved, freed, queue, loopPc, current, subject, outside, crashed>>
  BY DEF Await, Within, lists, loopVars, eventVars
<1>11. ExecutorTypeOK'
  BY <1>1 DEF EventStates, Calls
<1>12. CallsAreOwn'
  BY <1>1 DEF CallsAreOwn, CallIsOwn, Unsent
<1>13. CurrentIsOwn'
  BY <1>1 DEF CurrentIsOwn, CurrentOwn, Busy, Exiting
<1>14. OutsideIsOwn'
  <2>1. \A u \in Loops : u # t => call'[u] = call[u]
    BY <1>1
  <2> QED BY <1>1, <2>1, OutsideFrame
<1>15. ListsAreOwn'
  BY <1>1 DEF ListsAreOwn, ListOwn
<1>16. StatesAgree'
  BY <1>1 DEF StatesAgree, StateAgrees
<1>17. RepliesAreFilled'
  BY <1>1 DEF RepliesAreFilled, Unsent
<1>18. SentInOrder'
  BY <1>1 DEF SentInOrder, Unsent
<1>19. StartedInOrder'
  BY <1>1, StartedFrame
<1>20. StartSorted'
  BY <1>1 DEF StartSorted
<1>21. QueueSorted'
  BY <1>1 DEF QueueSorted
<1>22. ServedWell'
  BY <1>1 DEF ServedWell, ServedEvent, Serving, Armed, Live
<1>23. NoAbort'
  BY <1>1 DEF NoAbort, Serving
<1> QED BY <1>11, <1>12, <1>13, <1>14, <1>15, <1>16, <1>17, <1>18, <1>19, <1>20, <1>21, <1>22,
         <1>23

(* A loop may leave, with events queued. *)
LEMMA LoopExitKeeps ==
  ASSUME ExecutorInv, NEW t \in Loops, LoopExit(t), UNCHANGED route
  PROVE  ExecutorInv'
<1> USE DEF ExecutorInv, ExecutorTypeOK, None, NoEvent
<1>0. /\ Requester' = Requester /\ Target' = Target /\ SyncEvents' = SyncEvents
      /\ Pollers' = Pollers
      /\ Requester \in [Events -> Loops] /\ Target \in [Events -> Loops]
      /\ \A x \in Events : x \in Nat /\ x # 0
  BY RouteKept
<1> USE <1>0
<1>1. /\ loopPc[t] = "loop" /\ call[t] = None /\ outside[t] = {} /\ loopAlive[t]
      /\ \A e \in Events : Requester[e] = t => Unsent(e) \/ freed[e]
      /\ loopAlive' = [loopAlive EXCEPT ![t] = FALSE]
      /\ loopPc' = [loopPc EXCEPT ![t] = "exit"]
      /\ UNCHANGED <<start, executing, cancel, replies, waitingForCancel, eventState, node, result,
                          resolved, freed, queue, current, call, subject, outside, crashed>>
  BY DEF LoopExit, AtLoop, LoopGoto, lists, callVars, eventVars
<1>11. ExecutorTypeOK'
  BY <1>1 DEF EventStates, Calls
<1>12. CallsAreOwn'
  BY <1>1 DEF CallsAreOwn, CallIsOwn, Unsent
<1>13. CurrentIsOwn'
  BY <1>1 DEF CurrentIsOwn, CurrentOwn, Busy, Exiting
<1>14. OutsideIsOwn'
  BY <1>1 DEF OutsideIsOwn, Outside
<1>15. ListsAreOwn'
  BY <1>1 DEF ListsAreOwn, ListOwn
<1>16. StatesAgree'
  BY <1>1 DEF StatesAgree, StateAgrees
<1>17. RepliesAreFilled'
  BY <1>1 DEF RepliesAreFilled, Unsent
<1>18. SentInOrder'
  BY <1>1 DEF SentInOrder, Unsent
<1>19. StartedInOrder'
  BY <1>1 DEF StartedInOrder, Mates, Started, Armed
<1>20. StartSorted'
  BY <1>1 DEF StartSorted
<1>21. QueueSorted'
  BY <1>1 DEF QueueSorted
<1>22. ServedWell'
  BY <1>1 DEF ServedWell, ServedEvent, Serving, Armed, Live
<1>23. NoAbort'
  BY <1>1 DEF NoAbort, Serving
<1> QED BY <1>11, <1>12, <1>13, <1>14, <1>15, <1>16, <1>17, <1>18, <1>19, <1>20, <1>21, <1>22,
         <1>23

(* An event that is DONE leaves the replies and is freed. *)
LEMMA UnlinkKeeps ==
  ASSUME ExecutorInv, NEW t \in Loops, unlink(t), UNCHANGED route
  PROVE  ExecutorInv'
<1> USE DEF ExecutorInv, ExecutorTypeOK, None, NoEvent
<1>0. /\ Requester' = Requester /\ Target' = Target /\ SyncEvents' = SyncEvents
      /\ Pollers' = Pollers
      /\ Requester \in [Events -> Loops] /\ Target \in [Events -> Loops]
      /\ \A x \in Events : x \in Nat /\ x # 0
  BY RouteKept
<1> USE <1>0
<1>1. /\ ~crashed /\ outside[t] = {} /\ call[t] = "unlink"
      /\ replies' = replies \ {subject[t]}
      /\ freed' = [freed EXCEPT ![subject[t]] = TRUE]
      /\ crashed' = (Armed(subject[t]) \/ subject[t] \in replies')
      /\ call' = [call EXCEPT ![t] = None]
      /\ subject' = [subject EXCEPT ![t] = NoEvent]
      /\ UNCHANGED <<loopAlive, start, executing, cancel, waitingForCancel, eventState, node, result,
                          resolved, queue, loopPc, current, outside>>
  BY DEF unlink, Free, Within, loopVars
<1>11. ExecutorTypeOK'
  BY <1>1 DEF EventStates, Calls
<1>12. CallsAreOwn'
  BY <1>1 DEF CallsAreOwn, CallIsOwn, Unsent
<1>13. CurrentIsOwn'
  BY <1>1 DEF CurrentIsOwn, CurrentOwn, Busy, Exiting
<1>14. OutsideIsOwn'
  BY <1>1 DEF OutsideIsOwn, Outside
<1>15. ListsAreOwn'
  BY <1>1 DEF ListsAreOwn, ListOwn
<1>16. StatesAgree'
  BY <1>1 DEF StatesAgree, StateAgrees, CallsAreOwn, CallIsOwn, Unsent
<1>17. RepliesAreFilled'
  BY <1>1 DEF RepliesAreFilled, Unsent, CallsAreOwn, CallIsOwn
<1>18. SentInOrder'
  BY <1>1 DEF SentInOrder, Unsent, CallsAreOwn, CallIsOwn, StatesAgree, StateAgrees
<1>19. StartedInOrder'
  BY <1>1, StartedFrame
<1>20. StartSorted'
  BY <1>1 DEF StartSorted
<1>21. QueueSorted'
  BY <1>1 DEF QueueSorted
<1>22. ServedWell'
  BY <1>1 DEF ServedWell, ServedEvent, Serving, Armed, Live, CallsAreOwn, CallIsOwn, Unsent
<1>23. NoAbort'
  <2> SUFFICES ASSUME \A e \in Events : Serving(Target[e]) /\ loopAlive[Target[e]] PROVE ~crashed'
    BY <1>1 DEF NoAbort, Serving
  <2>1. subject[t] \in Events /\ eventState[subject[t]] = "DONE"
    BY <1>1 DEF CallsAreOwn, CallIsOwn
  <2>2. ~Armed(subject[t])
    BY <2>1 DEF ServedWell, ServedEvent, Live
  <2> QED BY <1>1, <2>2
<1> QED BY <1>11, <1>12, <1>13, <1>14, <1>15, <1>16, <1>17, <1>18, <1>19, <1>20, <1>21, <1>22,
         <1>23

(* The event of a loop that has left is freed once it is DONE. *)
LEMMA OrphanDoneKeeps ==
  ASSUME ExecutorInv, NEW t \in Loops, OrphanDone(t), UNCHANGED route
  PROVE  ExecutorInv'
<1> USE DEF ExecutorInv, ExecutorTypeOK, None, NoEvent
<1>0. /\ Requester' = Requester /\ Target' = Target /\ SyncEvents' = SyncEvents
      /\ Pollers' = Pollers
      /\ Requester \in [Events -> Loops] /\ Target \in [Events -> Loops]
      /\ \A x \in Events : x \in Nat /\ x # 0
  BY RouteKept
<1> USE <1>0
<1>1. /\ ~crashed /\ call[t] = "orphaned" /\ eventState[subject[t]] = "DONE"
      /\ freed' = [freed EXCEPT ![subject[t]] = TRUE]
      /\ crashed' = (Armed(subject[t]) \/ subject[t] \in replies')
      /\ UNCHANGED replies
      /\ call' = [call EXCEPT ![t] = None]
      /\ subject' = [subject EXCEPT ![t] = NoEvent]
      /\ UNCHANGED <<loopAlive, start, executing, cancel, replies, waitingForCancel, eventState, node,
                          result, resolved, queue, loopPc, current, outside>>
  BY DEF OrphanDone, Free, Within, loopVars
<1>11. ExecutorTypeOK'
  BY <1>1 DEF EventStates, Calls
<1>12. CallsAreOwn'
  BY <1>1 DEF CallsAreOwn, CallIsOwn, Unsent
<1>13. CurrentIsOwn'
  BY <1>1 DEF CurrentIsOwn, CurrentOwn, Busy, Exiting
<1>14. OutsideIsOwn'
  BY <1>1 DEF OutsideIsOwn, Outside
<1>15. ListsAreOwn'
  BY <1>1 DEF ListsAreOwn, ListOwn
<1>16. StatesAgree'
  BY <1>1 DEF StatesAgree, StateAgrees, CallsAreOwn, CallIsOwn, Unsent
<1>17. RepliesAreFilled'
  BY <1>1 DEF RepliesAreFilled, Unsent, CallsAreOwn, CallIsOwn
<1>18. SentInOrder'
  BY <1>1 DEF SentInOrder, Unsent, CallsAreOwn, CallIsOwn, StatesAgree, StateAgrees
<1>19. StartedInOrder'
  BY <1>1, StartedFrame
<1>20. StartSorted'
  BY <1>1 DEF StartSorted
<1>21. QueueSorted'
  BY <1>1 DEF QueueSorted
<1>22. ServedWell'
  BY <1>1 DEF ServedWell, ServedEvent, Serving, Armed, Live, CallsAreOwn, CallIsOwn, Unsent
<1>23. NoAbort'
  BY <1>1 DEF NoAbort, Serving, CallsAreOwn, CallIsOwn, Unsent
<1> QED BY <1>11, <1>12, <1>13, <1>14, <1>15, <1>16, <1>17, <1>18, <1>19, <1>20, <1>21, <1>22,
         <1>23

(* send() to a loop that lives appends the event. *)
LEMMA SendQueues ==
  ASSUME ExecutorInv, NEW t \in Loops, send(t), loopAlive[Target[subject[t]]], UNCHANGED route
  PROVE  ExecutorInv'
<1> USE DEF None, NoEvent
<1>0. /\ Requester' = Requester /\ Target' = Target /\ SyncEvents' = SyncEvents
      /\ Pollers' = Pollers
      /\ Requester \in [Events -> Loops] /\ Target \in [Events -> Loops]
      /\ \A x \in Events : x \in Nat /\ x # 0
  BY RouteKept
<1>i. /\ CallsAreOwn /\ CurrentIsOwn /\ OutsideIsOwn /\ ListsAreOwn /\ StatesAgree
      /\ RepliesAreFilled /\ SentInOrder /\ StartedInOrder /\ StartSorted /\ QueueSorted
      /\ ServedWell /\ NoAbort /\ ExecutorTypeOK
  BY DEF ExecutorInv
<1> DEFINE e == subject[t]
           u == Target[e]
           c == IF e \in SyncEvents THEN "sync" ELSE None
           z == IF e \in SyncEvents THEN e ELSE NoEvent
<1>a. ~crashed /\ call[t] = "send"
  BY DEF send
<1>b. /\ e \in Events /\ u \in Loops /\ Requester[e] = t /\ Unsent(e)
      /\ loopPc[t] \in {"loop", "execute"} /\ loopAlive[t] /\ outside[t] = {}
      /\ \A d \in Events : d < e /\ Requester[d] = t => ~Unsent(d)
  <2>1. /\ e \in Events /\ Requester[e] = t /\ Unsent(e) /\ loopPc[t] \in {"loop", "execute"}
        /\ \A d \in Events : d < e /\ Requester[d] = t => ~Unsent(d)
    BY <1>i, <1>a DEF CallsAreOwn, CallIsOwn
  <2>2. loopAlive[t] /\ outside[t] = {}
    BY <1>i, <1>a, <2>1 DEF CurrentIsOwn, CurrentOwn, OutsideIsOwn, Outside, Exiting, ExecutorTypeOK
  <2> QED BY <1>0, <2>1, <2>2
<1>c. eventState[e] = "UNUSED" /\ result[e] = None /\ ~freed[e]
  BY <1>b DEF Unsent
<1>d. c \in {"sync", None} /\ z \in Events \cup {0} /\ (c # None => z = e)
  BY <1>b
<1>1. /\ eventState' = [eventState EXCEPT ![e] = "QUEUED"]
      /\ start' = [start EXCEPT ![u] = Append(start[u], e)]
      /\ call' = [call EXCEPT ![t] = c]
      /\ subject' = [subject EXCEPT ![t] = z]
      /\ UNCHANGED <<loopAlive, executing, cancel, replies, waitingForCancel, node, result,
                     resolved, freed, queue, loopPc, current, outside, crashed>>
  BY <1>a, Zenon DEF send, Within, SetState, Enqueue, loopVars
<1>2. Distinct(start[u]) /\ ~Contains(start[u], e) /\ start[u] \in Seq(Events)
  BY <1>i, <1>b, <1>c DEF ListsAreOwn, ListOwn, ExecutorTypeOK
<1>3. /\ Append(start[u], e) \in Seq(Events) /\ Distinct(Append(start[u], e))
      /\ \A x : Contains(Append(start[u], e), x) <=> Contains(start[u], x) \/ x = e
      /\ \A j, k \in 1..Len(Append(start[u], e)) : j < k =>
           /\ j \in 1..Len(start[u]) /\ Append(start[u], e)[j] = start[u][j]
           /\ \/ k \in 1..Len(start[u]) /\ Append(start[u], e)[k] = start[u][k]
              \/ Append(start[u], e)[k] = e
  BY <1>b, <1>2, AppendList
<1> HIDE DEF e, u, c, z
<1>4. /\ \A v \in Loops : Distinct(start[v])'
      /\ \A v \in Loops, x \in Events :
           Contains(start[v], x)' <=> Contains(start[v], x) \/ (v = u /\ x = e)
  <2>1. start'[u] = Append(start[u], e) /\ \A v \in Loops : v # u => start'[v] = start[v]
    BY <1>i, <1>b, <1>1 DEF ExecutorTypeOK
  <2>2. \A v \in Loops : v # u => Distinct(start[v])
    BY <1>i DEF ListsAreOwn, ListOwn
  <2>3. ASSUME NEW v \in Loops
        PROVE  /\ Distinct(start[v])'
               /\ \A x \in Events :
                    Contains(start[v], x)' <=> Contains(start[v], x) \/ (v = u /\ x = e)
    <3>1. CASE v = u
      BY <1>3, <2>1, <3>1
    <3>2. CASE v # u
      BY <2>1, <2>2, <3>2
    <3> QED BY <3>1, <3>2
  <2> QED BY <2>3
<1>5. \A x \in Events : Unsent(x)' <=> Unsent(x) /\ x # e
  BY <1>i, <1>b, <1>1 DEF Unsent, ExecutorTypeOK
<1>11. ExecutorTypeOK'
  BY <1>0, <1>i, <1>1, <1>b, <1>d, <1>3 DEF ExecutorTypeOK, EventStates, Calls
<1>12. CallsAreOwn'
  <2> SUFFICES ASSUME NEW v \in Loops PROVE CallIsOwn(v)'
    BY DEF CallsAreOwn
  <2>1. CallIsOwn(v)
    BY <1>i DEF CallsAreOwn
  <2>2. CASE v = t
    BY <1>0, <1>i, <1>1, <1>b, <1>d, <2>2 DEF ExecutorTypeOK, CallIsOwn
  <2>3. CASE v # t
    <3>1. call'[v] = call[v] /\ subject'[v] = subject[v]
      BY <1>i, <1>1, <2>3 DEF ExecutorTypeOK
    <3>2. call[v] # None => subject[v] # e
      BY <1>b, <2>1, <2>3 DEF CallIsOwn
    <3>3. call[v] # None => eventState'[subject[v]] = eventState[subject[v]]
      BY <1>i, <1>1, <2>1, <3>2 DEF CallIsOwn, ExecutorTypeOK
    <3> QED BY <1>0, <1>1, <1>5, <2>1, <3>1, <3>2, <3>3 DEF CallIsOwn
  <2> QED BY <2>2, <2>3
<1>13. CurrentIsOwn'
  BY <1>0, <1>i, <1>1 DEF ExecutorTypeOK, CurrentIsOwn, CurrentOwn
<1>14. OutsideIsOwn'
  <2> SUFFICES ASSUME NEW v \in Loops PROVE Outside(v)'
    BY DEF OutsideIsOwn
  <2>1. Outside(v) /\ outside[v] \subseteq Events
    BY <1>i DEF OutsideIsOwn, ExecutorTypeOK
  <2>2. \A x \in outside[v] : x # e
    BY <1>c, <2>1 DEF Outside
  <2>3. \A x \in outside[v] : eventState'[x] = eventState[x]
    BY <1>i, <1>1, <2>1, <2>2 DEF ExecutorTypeOK
  <2>4. v # t => call'[v] = call[v]
    BY <1>i, <1>1 DEF ExecutorTypeOK
  <2> QED BY <1>0, <1>b, <1>1, <2>1, <2>3, <2>4 DEF Outside
<1>15. ListsAreOwn'
  <2> SUFFICES ASSUME NEW v \in Loops PROVE ListOwn(v)'
    BY DEF ListsAreOwn
  <2>1. ListOwn(v)
    BY <1>i DEF ListsAreOwn
  <2>2. eventState'[e] = "QUEUED" /\ \A x \in Events : x # e => eventState'[x] = eventState[x]
    BY <1>i, <1>1, <1>b DEF ExecutorTypeOK
  <2>3. ~Contains(queue[v], e)
    BY <1>b, <1>c, <2>1 DEF ListOwn
  <2>4. \A x \in Events : Contains(start'[v], x) => Target[x] = v /\ eventState'[x] = "QUEUED"
    BY <1>4, <2>1, <2>2 DEF ListOwn, u
  <2> QED BY <1>0, <1>1, <1>4, <2>1, <2>2, <2>3, <2>4 DEF ListOwn
<1>16. StatesAgree'
  <2> SUFFICES ASSUME NEW x \in Events PROVE StateAgrees(x)'
    BY DEF StatesAgree
  <2>1. StateAgrees(x) /\ Target[x] \in Loops
    BY <1>0, <1>i DEF StatesAgree
  <2>2. eventState'[e] = "QUEUED" /\ (x # e => eventState'[x] = eventState[x])
    BY <1>i, <1>1, <1>b DEF ExecutorTypeOK
  <2>3. CASE x = e
    <3>1. Contains(start'[Target[x]], x) /\ node[x] = None /\ current[Target[x]] # x
      BY <1>4, <1>b, <1>c, <2>1, <2>3 DEF StateAgrees, u
    <3>2. e \notin executing /\ e \notin cancel
      BY <1>c, <2>1, <2>3 DEF StateAgrees
    <3> QED BY <1>0, <1>1, <1>c, <2>1, <2>2, <2>3, <3>1, <3>2 DEF StateAgrees
  <2>4. CASE x # e
    <3>1. Contains(start'[Target[x]], x) <=> Contains(start[Target[x]], x)
      BY <1>4, <2>1, <2>4
    <3> QED BY <1>0, <1>1, <2>1, <2>2, <2>4, <3>1 DEF StateAgrees
  <2> QED BY <2>3, <2>4
<1>17. RepliesAreFilled'
  BY <1>0, <1>i, <1>1, <1>5, <1>b, <1>c DEF ExecutorTypeOK, RepliesAreFilled
<1>18. SentInOrder'
  BY <1>0, <1>i, <1>1, <1>5, <1>b DEF ExecutorTypeOK, SentInOrder
<1>19. StartedInOrder'
  <2>1. ASSUME NEW x \in Events, Unsent(x) PROVE ~Started(x)
    BY <1>0, <1>i, <2>1 DEF Started, Armed, Unsent, StatesAgree, StateAgrees, ListsAreOwn, ListOwn
  <2>2. \A x \in Events : Started(x)' <=> Started(x)
    BY <1>0, <1>1 DEF Started, Armed
  <2>3. \A x \in Events : Mates(e, x) => ~Started(x)
    BY <1>i, <1>b, <2>1 DEF Mates, SentInOrder
  <2>4. \A d \in Events : d # e => eventState'[d] = eventState[d]
    BY <1>1, <1>i DEF ExecutorTypeOK
  <2> QED BY <1>0, <1>i, <2>2, <2>3, <2>4 DEF StartedInOrder, Mates
<1>20. StartSorted'
  <2>1. ASSUME NEW j \in 1..Len(start[u]), Requester[start[u][j]] = t
        PROVE  start[u][j] < e
    <3>1. start[u][j] \in Events /\ Contains(start[u], start[u][j])
      BY <1>2 DEF Contains
    <3>2. eventState[start[u][j]] = "QUEUED"
      BY <1>i, <1>b, <3>1 DEF ListsAreOwn, ListOwn
    <3>3. ~Unsent(start[u][j]) /\ start[u][j] # e
      BY <1>c, <3>2 DEF Unsent
    <3>4. ~(e < start[u][j])
      BY <1>i, <1>b, <2>1, <3>1, <3>3 DEF SentInOrder
    <3>5. e \in Nat /\ start[u][j] \in Nat
      BY <1>0, <1>b, <3>1
    <3> QED BY <3>3, <3>4, <3>5
  <2>2. start'[u] = Append(start[u], e) /\ \A v \in Loops : v # u => start'[v] = start[v]
    BY <1>i, <1>b, <1>1 DEF ExecutorTypeOK
  <2>3. ASSUME NEW j \in 1..Len(start'[u]), NEW k \in 1..Len(start'[u]), j < k,
               Requester[start'[u][j]] = Requester[start'[u][k]]
        PROVE  start'[u][j] < start'[u][k]
    <3>1. /\ j \in 1..Len(start[u]) /\ start'[u][j] = start[u][j]
          /\ \/ k \in 1..Len(start[u]) /\ start'[u][k] = start[u][k]
             \/ start'[u][k] = e
      BY <1>3, <2>2, <2>3
    <3> QED BY <1>i, <1>b, <2>1, <2>3, <3>1 DEF StartSorted
  <2> QED BY <1>0, <1>i, <2>2, <2>3 DEF StartSorted
<1>21. QueueSorted'
  BY <1>0, <1>i, <1>1 DEF ExecutorTypeOK, QueueSorted
<1>22. ServedWell'
  <2> SUFFICES ASSUME NEW x \in Events, Serving(Target[x]) PROVE ServedEvent(x)'
    BY <1>0 DEF ServedWell, Serving
  <2>1. ServedEvent(x) /\ StateAgrees(x)
    BY <1>i DEF ServedWell, StatesAgree
  <2>2. eventState'[e] = "QUEUED" /\ (x # e => eventState'[x] = eventState[x])
    BY <1>i, <1>1, <1>b DEF ExecutorTypeOK
  <2>3. CASE x = e
    BY <1>0, <1>1, <1>c, <2>1, <2>2, <2>3 DEF ServedEvent, StateAgrees, Armed, Live
  <2>4. CASE x # e
    BY <1>0, <1>1, <2>1, <2>2, <2>4 DEF ServedEvent, Armed
  <2> QED BY <2>3, <2>4
<1>23. NoAbort'
  BY <1>0, <1>i, <1>1 DEF ExecutorTypeOK, NoAbort, Serving
<1> QED BY <1>11, <1>12, <1>13, <1>14, <1>15, <1>16, <1>17, <1>18, <1>19, <1>20, <1>21, <1>22,
         <1>23 DEF ExecutorInv

(* send() to a loop that has left stores DISCONNECTED and queues nothing. *)
LEMMA SendRefused ==
  ASSUME ExecutorInv, NEW t \in Loops, send(t), ~loopAlive[Target[subject[t]]], UNCHANGED route
  PROVE  ExecutorInv'
<1> USE DEF None, NoEvent
<1>0. /\ Requester' = Requester /\ Target' = Target /\ SyncEvents' = SyncEvents
      /\ Pollers' = Pollers
      /\ Requester \in [Events -> Loops] /\ Target \in [Events -> Loops]
      /\ \A x \in Events : x \in Nat /\ x # 0
  BY RouteKept
<1>i. /\ CallsAreOwn /\ CurrentIsOwn /\ OutsideIsOwn /\ ListsAreOwn /\ StatesAgree
      /\ RepliesAreFilled /\ SentInOrder /\ StartedInOrder /\ StartSorted /\ QueueSorted
      /\ ServedWell /\ NoAbort /\ ExecutorTypeOK
  BY DEF ExecutorInv
<1> DEFINE e == subject[t]
           u == Target[e]
           c == IF e \in SyncEvents THEN "orphaned" ELSE None
           z == IF e \in SyncEvents THEN e ELSE NoEvent
<1>a. ~crashed /\ call[t] = "send"
  BY DEF send
<1>b. /\ e \in Events /\ u \in Loops /\ Requester[e] = t /\ Unsent(e)
      /\ loopPc[t] \in {"loop", "execute"} /\ loopAlive[t] /\ outside[t] = {}
      /\ \A d \in Events : d < e /\ Requester[d] = t => ~Unsent(d)
  <2>1. /\ e \in Events /\ Requester[e] = t /\ Unsent(e) /\ loopPc[t] \in {"loop", "execute"}
        /\ \A d \in Events : d < e /\ Requester[d] = t => ~Unsent(d)
    BY <1>i, <1>a DEF CallsAreOwn, CallIsOwn
  <2>2. loopAlive[t] /\ outside[t] = {}
    BY <1>i, <1>a, <2>1 DEF CurrentIsOwn, CurrentOwn, OutsideIsOwn, Outside, Exiting, ExecutorTypeOK
  <2> QED BY <1>0, <2>1, <2>2
<1>c. eventState[e] = "UNUSED" /\ result[e] = None /\ ~freed[e]
  BY <1>b DEF Unsent
<1>d. c \in {"orphaned", None} /\ z \in Events \cup {0} /\ (c # None => z = e)
  BY <1>b
<1>1. /\ result' = [result EXCEPT ![e] = "disconnected"]
      /\ call' = [call EXCEPT ![t] = c]
      /\ subject' = [subject EXCEPT ![t] = z]
      /\ UNCHANGED <<loopAlive, start, executing, cancel, replies, waitingForCancel, eventState, node,
                          resolved, freed, queue, loopPc, current, outside, crashed>>
  BY <1>a DEF send, Within, SetState, Enqueue, loopVars
<1> HIDE DEF e, u, c, z
<1>5. \A x \in Events : Unsent(x)' <=> Unsent(x) /\ x # e
  BY <1>i, <1>b, <1>1 DEF Unsent, ExecutorTypeOK
<1>11. ExecutorTypeOK'
  BY <1>0, <1>i, <1>1, <1>b, <1>d DEF ExecutorTypeOK, EventStates, Calls
<1>12. CallsAreOwn'
  BY <1>0, <1>i, <1>1, <1>5, <1>b, <1>d DEF ExecutorTypeOK, CallsAreOwn, CallIsOwn, e, u
<1>13. CurrentIsOwn'
  BY <1>0, <1>i, <1>1, <1>b DEF ExecutorTypeOK, CurrentIsOwn, CurrentOwn, Busy, Exiting
<1>14. OutsideIsOwn'
  <2>1. \A v \in Loops : v # t => call'[v] = call[v]
    BY <1>i, <1>1 DEF ExecutorTypeOK
  <2> QED BY <1>1, <1>b, <2>1, OutsideFrame
<1>15. ListsAreOwn'
  BY <1>0, <1>i, <1>1 DEF ExecutorTypeOK, ListsAreOwn, ListOwn
<1>16. StatesAgree'
  BY <1>0, <1>i, <1>1 DEF ExecutorTypeOK, StatesAgree, StateAgrees
<1>17. RepliesAreFilled'
  BY <1>0, <1>i, <1>1, <1>5, <1>b DEF ExecutorTypeOK, RepliesAreFilled
<1>18. SentInOrder'
  BY <1>0, <1>i, <1>1, <1>5, <1>b DEF ExecutorTypeOK, SentInOrder
<1>19. StartedInOrder'
  BY <1>0, <1>i, <1>1, StartedFrame
<1>20. StartSorted'
  BY <1>0, <1>i, <1>1 DEF ExecutorTypeOK, StartSorted
<1>21. QueueSorted'
  BY <1>0, <1>i, <1>1 DEF ExecutorTypeOK, QueueSorted
<1>22. ServedWell'
  BY <1>0, <1>i, <1>1 DEF ExecutorTypeOK, ServedWell, ServedEvent, Serving, Armed, Live
<1>23. NoAbort'
  BY <1>0, <1>i, <1>1 DEF ExecutorTypeOK, NoAbort, Serving
<1> QED BY <1>11, <1>12, <1>13, <1>14, <1>15, <1>16, <1>17, <1>18, <1>19, <1>20, <1>21, <1>22,
         <1>23 DEF ExecutorInv

(* Between two turns a loop starts what was sent, lets go of what was cancelled and takes what
   came back. *)
LEMMA DispatchAllKeeps ==
  ASSUME ExecutorInv, NEW t \in Loops, dispatchAll(t), UNCHANGED route
  PROVE  ExecutorInv'
<1> USE DEF None, NoEvent
<1>0. /\ Requester' = Requester /\ Target' = Target /\ SyncEvents' = SyncEvents
      /\ Pollers' = Pollers
      /\ Requester \in [Events -> Loops] /\ Target \in [Events -> Loops]
      /\ \A x \in Events : x \in Nat /\ x # 0
  BY RouteKept
<1>i. /\ CallsAreOwn /\ CurrentIsOwn /\ OutsideIsOwn /\ ListsAreOwn /\ StatesAgree
      /\ RepliesAreFilled /\ SentInOrder /\ StartedInOrder /\ StartSorted /\ QueueSorted
      /\ ServedWell /\ NoAbort /\ ExecutorTypeOK
  BY DEF ExecutorInv
<1> DEFINE begun == ToSet(start[t])
           answered == {x \in replies : Requester[x] = t}
           cancelled == {x \in cancel : Target[x] = t}
<1>1. /\ loopPc[t] = "loop" /\ call[t] = None /\ outside[t] = {} /\ loopAlive[t]
      /\ t \notin Pollers => queue[t] = <<>>
      /\ executing' = executing \cup begun
      /\ queue' = [queue EXCEPT ![t] = queue[t] \o start[t]]
      /\ eventState' = [x \in Events |->
                           IF x \in begun THEN "EXECUTING"
                           ELSE IF x \in cancelled /\ node[x] = None THEN "DONE"
                           ELSE eventState[x]]
      /\ replies' = replies \ answered
      /\ resolved' = [x \in Events |-> resolved[x] \/ x \in answered]
      /\ start' = [start EXCEPT ![t] = <<>>]
      /\ cancel' = cancel \ cancelled
      /\ outside' = [outside EXCEPT ![t] = {x \in cancelled : node[x] # None}]
      /\ UNCHANGED <<loopAlive, waitingForCancel, node, result, freed, loopPc, current, call,
                     subject, crashed>>
  <2>1. Cancels(t) = cancelled /\ Finished(t) = {x \in cancelled : node[x] = None}
    BY DEF Cancels, Finished
  <2>2. cancelled \ {x \in cancelled : node[x] = None} = {x \in cancelled : node[x] # None}
    OBVIOUS
  <2>3. /\ loopPc[t] = "loop" /\ call[t] = None /\ outside[t] = {} /\ loopAlive[t]
        /\ t \notin Pollers => queue[t] = <<>>
        /\ executing' = executing \cup begun
        /\ queue' = [queue EXCEPT ![t] = queue[t] \o start[t]]
        /\ eventState' = [x \in Events |->
                             IF x \in begun THEN "EXECUTING" ELSE StateAfterCancels(t, x)]
        /\ replies' = replies \ answered
        /\ resolved' = [x \in Events |-> resolved[x] \/ x \in answered]
        /\ start' = [start EXCEPT ![t] = <<>>]
        /\ dispatchCancels(t)
        /\ UNCHANGED <<loopAlive, waitingForCancel, node, result, freed, loopPc, current, call,
                       subject, crashed>>
    BY DEF dispatchAll, AtLoop, MayPoll, callVars
  <2>4. cancel' = cancel \ cancelled
        /\ outside' = [outside EXCEPT ![t] = {x \in cancelled : node[x] # None}]
    BY <2>1, <2>2, <2>3 DEF dispatchCancels
  <2>5. \A x \in Events : StateAfterCancels(t, x) =
          IF x \in cancelled /\ node[x] = None THEN "DONE" ELSE eventState[x]
    BY <2>1 DEF StateAfterCancels
  <2> HIDE DEF begun, cancelled, answered
  <2> QED BY <2>3, <2>4, <2>5
<1>2. /\ \A x \in Events : x \in begun <=> Contains(start[t], x)
      /\ begun \subseteq Events
  <2>1. start[t] \in Seq(Events)
    BY <1>i DEF ExecutorTypeOK
  <2> QED BY <2>1 DEF ToSet, Contains
<1>3. /\ answered \subseteq replies
      /\ \A x \in Events : x \in cancelled <=> x \in cancel /\ Target[x] = t
      /\ cancelled \subseteq cancel /\ cancel \subseteq Events
  BY <1>i DEF ExecutorTypeOK
<1> DEFINE spared == {x \in cancelled : node[x] # None}
<1>4. spared \subseteq Events /\ \A x \in spared : x \in cancelled /\ node[x] # None
  BY <1>3
<1> HIDE DEF begun, answered, cancelled, spared
<1>5. \A x \in Events :
        /\ x \in begun => eventState[x] = "QUEUED" /\ Target[x] = t
        /\ x \in cancelled => eventState[x] = "CANCELING" /\ Target[x] = t
        /\ eventState[x] = "QUEUED" /\ Target[x] = t => x \in begun
  <2>1. \A x \in Events : x \in begun => eventState[x] = "QUEUED" /\ Target[x] = t
    BY <1>i, <1>2 DEF ListsAreOwn, ListOwn
  <2>2. \A x \in Events : x \in cancelled => eventState[x] = "CANCELING" /\ Target[x] = t
    BY <1>i, <1>3 DEF StatesAgree, StateAgrees
  <2>3. \A x \in Events : eventState[x] = "QUEUED" /\ Target[x] = t => x \in begun
    BY <1>i, <1>1, <1>2 DEF StatesAgree, StateAgrees
  <2> QED BY <2>1, <2>2, <2>3
<1>6. \A x \in Events :
        /\ x \in begun => eventState'[x] = "EXECUTING"
        /\ x \in cancelled /\ node[x] = None => eventState'[x] = "DONE"
        /\ x \notin begun /\ ~(x \in cancelled /\ node[x] = None) => eventState'[x] = eventState[x]
  BY <1>1, <1>5
<1>7. \A x \in Events : Unsent(x)' <=> Unsent(x)
  BY <1>1, <1>5, <1>6 DEF Unsent
<1>8. /\ start'[t] = <<>> /\ queue'[t] = queue[t] \o start[t] /\ outside'[t] = spared
      /\ \A v \in Loops : v # t => /\ start'[v] = start[v] /\ queue'[v] = queue[v]
                                  /\ outside'[v] = outside[v]
  BY <1>i, <1>1 DEF ExecutorTypeOK, spared
<1>9. \A x : ~Contains(<<>>, x)
  BY DEF Contains
<1>10. Distinct(<<>>)
  BY DEF Distinct
<1>c. /\ queue'[t] \in Seq(Events) /\ Distinct(queue'[t])
      /\ \A x \in Events : Contains(queue'[t], x) <=> Contains(queue[t], x) \/ Contains(start[t], x)
      /\ Joins(queue'[t], queue[t], start[t])
  <2>1. /\ queue[t] \in Seq(Events) /\ start[t] \in Seq(Events)
        /\ Distinct(queue[t]) /\ Distinct(start[t])
    BY <1>i DEF ExecutorTypeOK, ListsAreOwn, ListOwn
  <2>2. \A x \in Events : ~(Contains(queue[t], x) /\ Contains(start[t], x))
    BY <1>i DEF ListsAreOwn, ListOwn
  <2> QED BY <1>8, <2>1, <2>2, ConcatList
<1>11. ExecutorTypeOK'
  <2>1. eventState' \in [Events -> EventStates]
    <3>1. \A x \in Events : eventState[x] \in EventStates
      BY <1>i DEF ExecutorTypeOK
    <3> QED BY <1>1, <3>1 DEF EventStates
  <2>2. resolved' \in [Events -> BOOLEAN]
    BY <1>1
  <2>3. outside' \in [Loops -> SUBSET Events]
    BY <1>i, <1>1, <1>4 DEF ExecutorTypeOK, spared
  <2>4. start' \in [Loops -> Seq(Events)] /\ queue' \in [Loops -> Seq(Events)]
    <3>1. <<>> \in Seq(Events) /\ queue[t] \o start[t] \in Seq(Events)
      BY <1>8, <1>c
    <3> QED BY <1>i, <1>1, <3>1 DEF ExecutorTypeOK
  <2>5. executing' \subseteq Events /\ cancel' \subseteq Events /\ replies' \subseteq Events
    BY <1>i, <1>1, <1>2 DEF ExecutorTypeOK
  <2> QED BY <1>i, <1>1, <2>1, <2>2, <2>3, <2>4, <2>5 DEF ExecutorTypeOK
<1>12. CallsAreOwn'
  <2>1. \A x \in Events : eventState[x] = "DONE" => eventState'[x] = "DONE"
    BY <1>5, <1>6
  <2> QED BY <1>0, <1>i, <1>1, <1>7, <2>1 DEF CallsAreOwn, CallIsOwn
<1>13. CurrentIsOwn'
  <2>1. \A v \in Loops : loopPc[v] \in Exiting => queue'[v] = queue[v]
    BY <1>1, <1>8 DEF Exiting
  <2> QED BY <1>0, <1>i, <1>1, <2>1 DEF CurrentIsOwn, CurrentOwn
<1>14. OutsideIsOwn'
  <2> SUFFICES ASSUME NEW v \in Loops PROVE Outside(v)'
    BY DEF OutsideIsOwn
  <2>1. Outside(v) /\ outside[v] \subseteq Events
    BY <1>i DEF OutsideIsOwn, ExecutorTypeOK
  <2>2. CASE v = t
    <3>1. \A x \in spared : /\ x \in Events /\ Target[x] = t /\ eventState'[x] = "CANCELING"
                            /\ x \notin cancel' /\ node'[x] # None
      BY <1>1, <1>4, <1>5, <1>6
    <3> QED BY <1>0, <1>1, <1>8, <2>2, <3>1 DEF Outside
  <2>3. CASE v # t
    <3>1. \A x \in outside[v] : eventState'[x] = eventState[x] /\ Target[x] = v /\ x \notin cancel'
      BY <1>1, <1>5, <1>6, <2>1, <2>3 DEF Outside
    <3> QED BY <1>0, <1>1, <1>8, <2>1, <2>3, <3>1 DEF Outside
  <2> QED BY <2>2, <2>3
<1>15. ListsAreOwn'
  <2> SUFFICES ASSUME NEW v \in Loops PROVE ListOwn(v)'
    BY DEF ListsAreOwn, ListOwn
  <2>1. ListOwn(v)
    BY <1>i DEF ListsAreOwn, ListOwn
  <2>2. CASE v = t
    <3>1. \A x \in Events : Contains(start[t], x) =>
            /\ Target[x] = t /\ x # current[t] /\ node[x] # "pending"
            /\ eventState'[x] \notin {"UNUSED", "QUEUED"}
      <4>1. \A x \in Events : Contains(start[t], x) =>
              Target[x] = t /\ eventState'[x] = "EXECUTING" /\ eventState[x] = "QUEUED"
        BY <1>2, <1>5, <1>6
      <4>2. \A x \in Events : x # current[t]
        <5>1. CurrentOwn(t)
          BY <1>i DEF CurrentIsOwn
        <5> QED BY <1>0, <1>1, <5>1 DEF CurrentOwn, Busy
      <4>3. \A x \in Events : eventState[x] = "QUEUED" => node[x] = None
        BY <1>i DEF StatesAgree, StateAgrees
      <4> QED BY <4>1, <4>2, <4>3
    <3>2. \A x \in Events : Contains(queue[t], x) =>
            /\ Target[x] = t /\ node[x] # "pending" /\ (x = current[t] => loopPc[t] = "exitDone")
            /\ eventState'[x] \notin {"UNUSED", "QUEUED"}
      BY <1>6, <2>1, <2>2 DEF ListOwn
    <3> QED BY <1>0, <1>1, <1>8, <1>9, <1>10, <1>c, <2>1, <2>2, <3>1, <3>2 DEF ListOwn
  <2>3. CASE v # t
    <3>1. \A x \in Events : Target[x] = v => eventState'[x] = eventState[x]
      BY <1>5, <1>6, <2>3
    <3> QED BY <1>0, <1>1, <1>8, <2>1, <2>3, <3>1 DEF ListOwn
  <2> QED BY <2>2, <2>3
<1>16. StatesAgree'
  <2> SUFFICES ASSUME NEW x \in Events PROVE StateAgrees(x)'
    BY DEF StatesAgree, StateAgrees
  <2>1. StateAgrees(x)
    BY <1>i DEF StatesAgree, StateAgrees
  <2>2. Target[x] \in Loops
    BY <1>0
  <2>3. CASE x \in begun
    BY <1>0, <1>1, <1>5, <1>6, <1>8, <1>9, <2>1, <2>2, <2>3 DEF StateAgrees
  <2>4. CASE x \in cancelled /\ node[x] = None
    BY <1>0, <1>1, <1>3, <1>5, <1>6, <1>8, <1>9, <2>1, <2>2, <2>4 DEF StateAgrees
  <2>5. CASE x \notin begun /\ ~(x \in cancelled /\ node[x] = None)
    BY <1>0, <1>1, <1>5, <1>6, <1>8, <1>9, <2>1, <2>2, <2>5 DEF StateAgrees
  <2> QED BY <2>3, <2>4, <2>5
<1>17. RepliesAreFilled'
  BY <1>0, <1>i, <1>1, <1>3, <1>7 DEF RepliesAreFilled
<1>18. SentInOrder'
  BY <1>7, SentFrame
<1>19. StartedInOrder'
  <2> SUFFICES ASSUME NEW d \in Events, NEW x \in Events,
                      Mates(d, x), eventState'[d] = "QUEUED", Started(x)'
               PROVE  FALSE
    BY <1>0 DEF StartedInOrder, Mates
  <2>1. eventState[d] = "QUEUED" /\ Target[d] # t
    BY <1>5, <1>6
  <2>2. Started(x)
    BY <1>0, <1>1, <1>8, <2>1 DEF Started, Armed, Mates
  <2> QED BY <1>0, <1>i, <2>1, <2>2 DEF StartedInOrder, Mates
<1>20. StartSorted'
  <2> SUFFICES ASSUME NEW v \in Loops, NEW j \in 1..Len(start'[v]), NEW k \in 1..Len(start'[v]),
                      j < k, Requester[start'[v][j]] = Requester[start'[v][k]]
               PROVE  start'[v][j] < start'[v][k]
    BY <1>0 DEF StartSorted
  <2>1. CASE v = t
    BY <1>8, <2>1
  <2>2. CASE v # t
    BY <1>i, <1>8, <2>2 DEF StartSorted
  <2> QED BY <2>1, <2>2
<1>21. QueueSorted'
  <2>0. loopAlive' = loopAlive /\ node' = node
    BY <1>1
  <2> SUFFICES ASSUME NEW v \in Loops, loopAlive[v],
                      NEW j \in 1..Len(queue'[v]), NEW k \in 1..Len(queue'[v]),
                      j < k, Requester[queue'[v][j]] = Requester[queue'[v][k]],
                      node[queue'[v][j]] = None, node[queue'[v][k]] = None
               PROVE  queue'[v][j] < queue'[v][k]
    BY <1>0, <2>0 DEF QueueSorted
  <2>1. CASE v = t
    <3>1. queue'[t][j] \in Events /\ queue'[t][k] \in Events
      BY <1>c, <2>1
    <3>2. CASE \E m, n \in 1..Len(queue[t]) :
                 m < n /\ queue'[t][j] = queue[t][m] /\ queue'[t][k] = queue[t][n]
      BY <1>i, <2>1, <3>2 DEF QueueSorted
    <3>3. CASE \E m, n \in 1..Len(start[t]) :
                 m < n /\ queue'[t][j] = start[t][m] /\ queue'[t][k] = start[t][n]
      BY <1>i, <2>1, <3>3 DEF StartSorted
    <3>4. CASE Contains(queue[t], queue'[t][j]) /\ Contains(start[t], queue'[t][k])
      <4> DEFINE a == queue'[t][j]
                 b == queue'[t][k]
      <4>1. /\ a \in Events /\ b \in Events /\ Target[a] = t /\ Target[b] = t
            /\ eventState[a] # "QUEUED" /\ eventState[b] = "QUEUED"
            /\ Requester[a] = Requester[b]
        BY <1>i, <2>1, <3>1, <3>4 DEF ListsAreOwn, ListOwn
      <4>2. Started(a)
        BY <3>4, <4>1 DEF Started, Armed
      <4> HIDE DEF a, b
      <4>3. ~(b < a)
        BY <1>i, <4>1, <4>2 DEF StartedInOrder, Mates
      <4>4. a # b /\ a \in Nat /\ b \in Nat
        BY <1>0, <4>1
      <4>5. a < b
        BY <4>3, <4>4
      <4> QED BY <2>1, <4>5 DEF a, b
    <3> QED BY <1>c, <2>1, <3>2, <3>3, <3>4 DEF Joins
  <2>2. CASE v # t
    BY <1>i, <1>8, <2>2 DEF QueueSorted
  <2> QED BY <2>1, <2>2
<1>22. ServedWell'
  <2> SUFFICES ASSUME NEW x \in Events, Serving(Target[x]) PROVE ServedEvent(x)'
    BY <1>0 DEF ServedWell, Serving
  <2>1. ServedEvent(x) /\ Target[x] \in Loops
    BY <1>0, <1>i DEF ServedWell
  <2>2. CASE Target[x] # t
    BY <1>0, <1>1, <1>5, <1>6, <1>8, <2>1, <2>2 DEF ServedEvent, Armed
  <2>3. CASE Target[x] = t
    <3>1. current[t] # x
      BY <1>0, <1>i, <1>1 DEF CurrentIsOwn, CurrentOwn, Busy
    <3>3. ~Armed(x)
      BY <1>1, <1>9, <2>3 DEF Armed, Serving
    <3>2. Armed(x)' => x \in begun
      BY <1>0, <1>2, <1>c, <2>3, <3>3 DEF Armed
    <3>4. node[x] # None => eventState'[x] \in Live
      BY <1>5, <1>6, <2>1 DEF ServedEvent, Live
    <3>5. x \in begun => eventState'[x] \in Live
      BY <1>6 DEF Live
    <3> QED BY <1>0, <1>1, <2>1, <2>3, <3>1, <3>2, <3>4, <3>5 DEF ServedEvent
  <2> QED BY <2>2, <2>3
<1>23. NoAbort'
  BY <1>0, <1>i, <1>1 DEF NoAbort, Serving
<1> QED BY <1>11, <1>12, <1>13, <1>14, <1>15, <1>16, <1>17, <1>18, <1>19, <1>20, <1>21, <1>22,
         <1>23 DEF ExecutorInv

(* A promise is destroyed and its event disarmed. *)
LEMMA DestroyPromiseKeeps ==
  ASSUME ExecutorInv, NEW t \in Loops, destroyPromise(t), UNCHANGED route
  PROVE  ExecutorInv'
<1> USE DEF None, NoEvent
<1>0. /\ Requester' = Requester /\ Target' = Target /\ SyncEvents' = SyncEvents
      /\ Pollers' = Pollers
      /\ Requester \in [Events -> Loops] /\ Target \in [Events -> Loops]
      /\ \A x \in Events : x \in Nat /\ x # 0
  BY RouteKept
<1>i. /\ CallsAreOwn /\ CurrentIsOwn /\ OutsideIsOwn /\ ListsAreOwn /\ StatesAgree
      /\ RepliesAreFilled /\ SentInOrder /\ StartedInOrder /\ StartSorted /\ QueueSorted
      /\ ServedWell /\ NoAbort /\ ExecutorTypeOK
  BY DEF ExecutorInv
<1>1. PICK e \in outside[t] :
        /\ node[e] # None
        /\ node' = [node EXCEPT ![e] = None]
        /\ \/ ~Armed(e) /\ UNCHANGED queue
           \/ \E k \in 1..Len(queue[t]) :
                queue[t][k] = e /\ queue' = [queue EXCEPT ![t] = RemoveAt(@, k)]
  BY DEF destroyPromise
<1>2. UNCHANGED <<loopAlive, start, executing, cancel, replies, waitingForCancel, eventState,
                  result, resolved, freed, loopPc, current, call, subject, outside, crashed>>
  BY DEF destroyPromise, lists, callVars
<1>3. e \in Events /\ Target[e] = t /\ eventState[e] = "CANCELING"
  BY <1>i DEF OutsideIsOwn, Outside, ExecutorTypeOK
<1>4. /\ queue' \in [Loops -> Seq(Events)]
      /\ \A v \in Loops : v # t => queue'[v] = queue[v]
      /\ Distinct(queue'[t])
      /\ \A x \in Events : Contains(queue'[t], x) <=> Contains(queue[t], x) /\ x # e
      /\ Follows(queue'[t], queue[t])
  <2>1. queue[t] \in Seq(Events) /\ Distinct(queue[t]) /\ queue \in [Loops -> Seq(Events)]
    BY <1>i DEF ExecutorTypeOK, ListsAreOwn, ListOwn
  <2>2. CASE ~Armed(e) /\ UNCHANGED queue
    <3>1. Follows(queue[t], queue[t])
      BY <2>1 DEF Follows
    <3> QED BY <1>3, <2>1, <2>2, <3>1 DEF Armed
  <2>3. ASSUME NEW k \in 1..Len(queue[t]), queue[t][k] = e,
               queue' = [queue EXCEPT ![t] = RemoveAt(queue[t], k)]
        PROVE  <1>4!:
    <3> DEFINE r == RemoveAt(queue[t], k)
    <3>1. /\ r \in Seq(Events) /\ Distinct(r) /\ Follows(r, queue[t])
          /\ \A x : Contains(r, x) <=> Contains(queue[t], x) /\ x # e
      BY <2>1, <2>3, RemovedOne
    <3> HIDE DEF r
    <3>2. queue' = [queue EXCEPT ![t] = r]
      BY <2>3 DEF r
    <3>3. queue'[t] = r /\ \A v \in Loops : v # t => queue'[v] = queue[v]
      BY <2>1, <3>2
    <3>4. queue' \in [Loops -> Seq(Events)]
      BY <2>1, <3>1, <3>2
    <3> QED BY <3>1, <3>3, <3>4
  <2> QED BY <1>1, <2>2, <2>3
<1>5. \A x \in Events : /\ Unsent(x)' <=> Unsent(x)
  BY <1>2 DEF Unsent
<1>6. node'[e] = None /\ \A x \in Events : x # e => node'[x] = node[x]
  BY <1>i, <1>1, <1>3 DEF ExecutorTypeOK
<1>11. ExecutorTypeOK'
  BY <1>i, <1>1, <1>2, <1>3, <1>4 DEF ExecutorTypeOK
<1>12. CallsAreOwn'
  BY <1>0, <1>i, <1>2, <1>5 DEF CallsAreOwn, CallIsOwn
<1>13. CurrentIsOwn'
  <2>1. outside[t] # {}
    BY <1>1
  <2>2. loopPc[t] \notin Exiting
    BY <1>i, <2>1 DEF OutsideIsOwn, Outside, CallsAreOwn, CallIsOwn, Exiting
  <2> SUFFICES ASSUME NEW v \in Loops PROVE CurrentOwn(v)'
    BY DEF CurrentIsOwn
  <2>3. CurrentOwn(v)
    BY <1>i DEF CurrentIsOwn
  <2>4. CASE v = t
    BY <1>0, <1>2, <2>2, <2>3, <2>4 DEF CurrentOwn, Exiting, Busy
  <2>5. CASE v # t
    BY <1>0, <1>2, <1>4, <2>3, <2>5 DEF CurrentOwn
  <2> QED BY <2>4, <2>5
<1>14. OutsideIsOwn'
  <2> SUFFICES ASSUME NEW v \in Loops PROVE Outside(v)'
    BY DEF OutsideIsOwn
  <2>1. Outside(v) /\ outside[v] \subseteq Events
    BY <1>i DEF OutsideIsOwn, ExecutorTypeOK
  <2>2. CASE v = t
    BY <1>0, <1>2, <1>4, <1>6, <2>1, <2>2 DEF Outside
  <2>3. CASE v # t
    BY <1>0, <1>2, <1>3, <1>4, <1>6, <2>1, <2>3 DEF Outside
  <2> QED BY <2>2, <2>3
<1>15. ListsAreOwn'
  <2> SUFFICES ASSUME NEW v \in Loops PROVE ListOwn(v)'
    BY DEF ListsAreOwn
  <2>1. ListOwn(v)
    BY <1>i DEF ListsAreOwn
  <2>2. CASE v = t
    BY <1>0, <1>2, <1>4, <1>6, <2>1, <2>2 DEF ListOwn
  <2>3. CASE v # t
    BY <1>0, <1>2, <1>3, <1>4, <1>6, <2>1, <2>3 DEF ListOwn
  <2> QED BY <2>2, <2>3
<1>16. StatesAgree'
  BY <1>0, <1>i, <1>2, <1>3, <1>6 DEF StatesAgree, StateAgrees
<1>17. RepliesAreFilled'
  BY <1>0, <1>i, <1>2, <1>5 DEF RepliesAreFilled
<1>18. SentInOrder'
  BY <1>5, SentFrame
<1>19. StartedInOrder'
  <2>1. ASSUME NEW x \in Events, Started(x)' PROVE Started(x)
    <3>1. Target[x] \in Loops
      BY <1>0
    <3>2. Contains(queue'[Target[x]], x) => Contains(queue[Target[x]], x)
      BY <1>4, <3>1
    <3> QED BY <1>0, <1>2, <1>6, <2>1, <3>2 DEF Started, Armed
  <2>2. \A x \in Events : eventState'[x] = "QUEUED" => eventState[x] = "QUEUED"
    BY <1>2
  <2> QED BY <2>1, <2>2, NoneStarted
<1>20. StartSorted'
  BY <1>0, <1>i, <1>2 DEF StartSorted
<1>21. QueueSorted'
  <2>1. ASSUME NEW x \in Events, NEW v \in Loops, Contains(queue'[v], x), node'[x] = None
        PROVE  node[x] = None
    BY <1>3, <1>4, <1>6, <1>i, <2>1 DEF ListsAreOwn, ListOwn
  <2>2. \A v \in Loops : Follows(queue'[v], queue[v])
    BY <1>4, FollowsSelf
  <2>3. loopAlive' = loopAlive
    BY <1>2
  <2> QED BY <1>4, <2>1, <2>2, <2>3, QueueShrinks
<1>22. ServedWell'
  <2> SUFFICES ASSUME NEW x \in Events, Serving(Target[x]) PROVE ServedEvent(x)'
    BY <1>0 DEF ServedWell, Serving
  <2>1. ServedEvent(x) /\ Target[x] \in Loops
    BY <1>0, <1>i DEF ServedWell
  <2>2. Armed(x)' => Armed(x)
    BY <1>0, <1>4, <2>1 DEF Armed
  <2> QED BY <1>0, <1>2, <1>6, <2>1, <2>2 DEF ServedEvent
<1>23. NoAbort'
  BY <1>0, <1>i, <1>2 DEF NoAbort, Serving
<1> QED BY <1>11, <1>12, <1>13, <1>14, <1>15, <1>16, <1>17, <1>18, <1>19, <1>20, <1>21, <1>22,
         <1>23 DEF ExecutorInv

(* The cancellations are acknowledged together. *)
LEMMA AcknowledgeKeeps ==
  ASSUME ExecutorInv, NEW t \in Loops, processAsyncCancellations(t), UNCHANGED route
  PROVE  ExecutorInv'
<1> USE DEF None, NoEvent
<1>0. /\ Requester' = Requester /\ Target' = Target /\ SyncEvents' = SyncEvents
      /\ Pollers' = Pollers
      /\ Requester \in [Events -> Loops] /\ Target \in [Events -> Loops]
      /\ \A x \in Events : x \in Nat /\ x # 0
  BY RouteKept
<1>i. /\ CallsAreOwn /\ CurrentIsOwn /\ OutsideIsOwn /\ ListsAreOwn /\ StatesAgree
      /\ RepliesAreFilled /\ SentInOrder /\ StartedInOrder /\ StartSorted /\ QueueSorted
      /\ ServedWell /\ NoAbort /\ ExecutorTypeOK
  BY DEF ExecutorInv
<1>1. /\ outside[t] # {} /\ \A x \in outside[t] : node[x] = None
      /\ eventState' = [x \in Events |-> IF x \in outside[t] THEN "DONE" ELSE eventState[x]]
      /\ outside' = [outside EXCEPT ![t] = {}]
      /\ UNCHANGED <<loopAlive, start, executing, cancel, replies, waitingForCancel, node, result,
                     resolved, freed, queue, loopPc, current, call, subject, crashed>>
  BY DEF processAsyncCancellations, lists, loopVars, callVars, eventVars
<1>2. /\ \A x \in outside[t] : /\ x \in Events /\ Target[x] = t /\ eventState[x] = "CANCELING"
                               /\ x \notin cancel /\ ~Contains(queue[t], x)
      /\ (loopPc[t] = "loop" /\ call[t] = None) \/ call[t] \in {"await", "unlink"}
  BY <1>i, <1>1 DEF OutsideIsOwn, Outside, ExecutorTypeOK
<1>3. \A x \in Events : eventState'[x] = IF x \in outside[t] THEN "DONE" ELSE eventState[x]
  BY <1>1
<1>4. \A x \in Events : Unsent(x)' <=> Unsent(x)
  BY <1>1, <1>2, <1>3 DEF Unsent
<1>11. ExecutorTypeOK'
  BY <1>i, <1>1 DEF ExecutorTypeOK, EventStates
<1>12. CallsAreOwn'
  BY <1>0, <1>i, <1>1, <1>3, <1>4 DEF CallsAreOwn, CallIsOwn
<1>13. CurrentIsOwn'
  BY <1>0, <1>i, <1>1 DEF CurrentIsOwn, CurrentOwn
<1>14. OutsideIsOwn'
  <2> SUFFICES ASSUME NEW v \in Loops PROVE Outside(v)'
    BY DEF OutsideIsOwn
  <2>1. Outside(v) /\ outside[v] \subseteq Events
    BY <1>i DEF OutsideIsOwn, ExecutorTypeOK
  <2>2. CASE v = t
    BY <1>i, <1>1, <2>2 DEF Outside, ExecutorTypeOK
  <2>3. CASE v # t
    <3>1. outside'[v] = outside[v]
      BY <1>i, <1>1, <2>3 DEF ExecutorTypeOK
    <3>2. \A x \in outside[v] : x \notin outside[t]
      BY <1>2, <2>1, <2>3 DEF Outside
    <3> QED BY <1>0, <1>1, <1>3, <2>1, <3>1, <3>2 DEF Outside
  <2> QED BY <2>2, <2>3
<1>15. ListsAreOwn'
  BY <1>0, <1>i, <1>1, <1>2, <1>3 DEF ListsAreOwn, ListOwn
<1>16. StatesAgree'
  BY <1>0, <1>i, <1>1, <1>2, <1>3 DEF StatesAgree, StateAgrees
<1>17. RepliesAreFilled'
  BY <1>0, <1>i, <1>1, <1>4 DEF RepliesAreFilled
<1>18. SentInOrder'
  BY <1>4, SentFrame
<1>19. StartedInOrder'
  <2>1. \A x \in Events : Started(x)' <=> Started(x)
    BY <1>0, <1>1 DEF Started, Armed
  <2>2. \A x \in Events : eventState'[x] = "QUEUED" => eventState[x] = "QUEUED"
    BY <1>3
  <2> QED BY <2>1, <2>2, NoneStarted
<1>20. StartSorted'
  BY <1>0, <1>i, <1>1 DEF StartSorted
<1>21. QueueSorted'
  BY <1>0, <1>i, <1>1 DEF QueueSorted
<1>22. ServedWell'
  <2> SUFFICES ASSUME NEW x \in Events, Serving(Target[x]) PROVE ServedEvent(x)'
    BY <1>0 DEF ServedWell, Serving
  <2>1. ServedEvent(x)
    BY <1>i DEF ServedWell
  <2>2. CASE x \notin outside[t]
    BY <1>0, <1>1, <1>3, <2>1, <2>2 DEF ServedEvent, Armed
  <2>3. CASE x \in outside[t]
    <3>1. Target[x] = t /\ ~Armed(x) /\ node[x] = None
      BY <1>1, <1>2, <2>3 DEF Armed
    <3>2. loopPc[t] = "loop"
      BY <1>0, <1>2, <3>1, ServingIsIdle
    <3>3. current[t] # x
      BY <1>0, <1>i, <3>2 DEF CurrentIsOwn, CurrentOwn, Busy
    <3> QED BY <1>0, <1>1, <2>1, <3>1, <3>3 DEF ServedEvent, Armed
  <2> QED BY <2>2, <2>3
<1>23. NoAbort'
  BY <1>0, <1>i, <1>1 DEF NoAbort, Serving
<1> QED BY <1>11, <1>12, <1>13, <1>14, <1>15, <1>16, <1>17, <1>18, <1>19, <1>20, <1>21, <1>22,
         <1>23 DEF ExecutorInv

(* The loop takes an event from its queue, and executes it or collects the result of its
   promise. *)
LEMMA FireKeeps ==
  ASSUME ExecutorInv, NEW t \in Loops, fire(t), UNCHANGED route
  PROVE  ExecutorInv'
<1> USE DEF None, NoEvent
<1>0. /\ Requester' = Requester /\ Target' = Target /\ SyncEvents' = SyncEvents
      /\ Pollers' = Pollers
      /\ Requester \in [Events -> Loops] /\ Target \in [Events -> Loops]
      /\ \A x \in Events : x \in Nat /\ x # 0
  BY RouteKept
<1>i. /\ CallsAreOwn /\ CurrentIsOwn /\ OutsideIsOwn /\ ListsAreOwn /\ StatesAgree
      /\ RepliesAreFilled /\ SentInOrder /\ StartedInOrder /\ StartSorted /\ QueueSorted
      /\ ServedWell /\ NoAbort /\ ExecutorTypeOK
  BY DEF ExecutorInv
<1> DEFINE e == Head(queue[t])
           p == IF node[e] = "ready" THEN "reply" ELSE "execute"
<1>1. /\ loopPc[t] = "loop" /\ call[t] = None /\ outside[t] = {} /\ queue[t] # <<>>
      /\ current' = [current EXCEPT ![t] = e]
      /\ queue' = [queue EXCEPT ![t] = Tail(queue[t])]
      /\ loopPc' = [loopPc EXCEPT ![t] = p]
      /\ IF node[e] = "ready"
           THEN node' = [node EXCEPT ![e] = None] /\ result' = [result EXCEPT ![e] = "value"]
           ELSE node' = node /\ result' = result
      /\ UNCHANGED <<loopAlive, start, executing, cancel, replies, waitingForCancel, eventState,
                     resolved, freed, call, subject, outside, crashed>>
  BY DEF fire, AtLoop, LoopGoto, lists, callVars
<1>2. /\ e \in Events /\ Contains(queue[t], e) /\ Tail(queue[t]) \in Seq(Events)
      /\ Distinct(Tail(queue[t])) /\ Follows(Tail(queue[t]), queue[t])
      /\ \A x : Contains(Tail(queue[t]), x) <=> Contains(queue[t], x) /\ x # e
  <2>1. queue[t] \in Seq(Events) /\ Distinct(queue[t])
    BY <1>i DEF ExecutorTypeOK, ListsAreOwn, ListOwn
  <2> QED BY <1>1, <2>1, TailList
<1>3. /\ Target[e] = t /\ node[e] # "pending" /\ eventState[e] \notin {"UNUSED", "QUEUED"}
      /\ p \in {"reply", "execute"}
  BY <1>i, <1>2 DEF ListsAreOwn, ListOwn
<1> HIDE DEF e
<1>4. /\ node' \in [Events -> {None, "pending", "ready"}]
      /\ result' \in [Events -> {None, "value", "disconnected"}]
      /\ node'[e] = None /\ (p = "reply" => result'[e] # None)
      /\ \A x \in Events : x # e => node'[x] = node[x] /\ result'[x] = result[x]
      /\ \A x \in Events : result[x] # None => result'[x] # None
  <2>1. /\ node \in [Events -> {None, "pending", "ready"}]
        /\ result \in [Events -> {None, "value", "disconnected"}]
    BY <1>i DEF ExecutorTypeOK
  <2>2. CASE node[e] = "ready"
    BY <1>1, <1>2, <2>1, <2>2
  <2>3. CASE node[e] # "ready"
    <3>1. node[e] = None
      BY <1>2, <1>3, <2>1, <2>3
    <3> QED BY <1>1, <1>2, <2>1, <2>3, <3>1
  <2> QED BY <2>2, <2>3
<1> HIDE DEF p
<1>5. /\ queue'[t] = Tail(queue[t]) /\ current'[t] = e /\ loopPc'[t] = p
      /\ \A v \in Loops : v # t => /\ queue'[v] = queue[v] /\ current'[v] = current[v]
                                  /\ loopPc'[v] = loopPc[v]
  BY <1>i, <1>1 DEF ExecutorTypeOK
<1>6. \A x \in Events : Unsent(x)' <=> Unsent(x)
  BY <1>1, <1>3, <1>4 DEF Unsent
<1>7. queue' \in [Loops -> Seq(Events)]
  BY <1>i, <1>1, <1>2 DEF ExecutorTypeOK
<1>11. ExecutorTypeOK'
  <2>1. loopPc' \in [Loops -> {"loop", "execute", "reply", "done", "exit", "exitDone", "unqueue", "exited"}]
    BY <1>i, <1>1, <1>3 DEF ExecutorTypeOK
  <2>2. current' \in [Loops -> Events \cup {NoEvent}]
    BY <1>i, <1>1, <1>2 DEF ExecutorTypeOK
  <2> QED BY <1>i, <1>1, <1>4, <1>7, <2>1, <2>2 DEF ExecutorTypeOK
<1>12. CallsAreOwn'
  BY <1>0, <1>i, <1>1, <1>5, <1>6 DEF CallsAreOwn, CallIsOwn
<1>13. CurrentIsOwn'
  <2> SUFFICES ASSUME NEW v \in Loops PROVE CurrentOwn(v)'
    BY DEF CurrentIsOwn
  <2>1. CurrentOwn(v)
    BY <1>i DEF CurrentIsOwn, CurrentOwn
  <2>2. CASE v = t
    BY <1>0, <1>1, <1>2, <1>3, <1>4, <1>5, <2>1, <2>2 DEF CurrentOwn, Busy, Exiting
  <2>3. CASE v # t
    BY <1>0, <1>1, <1>4, <1>5, <2>1, <2>3 DEF CurrentOwn, Busy, Exiting
  <2> QED BY <2>2, <2>3
<1>14. OutsideIsOwn'
  <2> SUFFICES ASSUME NEW v \in Loops PROVE Outside(v)'
    BY DEF OutsideIsOwn
  <2>1. Outside(v) /\ outside[v] \subseteq Events
    BY <1>i DEF OutsideIsOwn, ExecutorTypeOK
  <2>2. CASE v = t
    BY <1>1, <2>2 DEF Outside
  <2>3. CASE v # t
    <3>1. \A x \in outside[v] : node'[x] = node[x]
      BY <1>3, <1>4, <2>1, <2>3 DEF Outside
    <3> QED BY <1>0, <1>1, <1>5, <2>1, <2>3, <3>1 DEF Outside
  <2> QED BY <2>2, <2>3
<1>15. ListsAreOwn'
  <2> SUFFICES ASSUME NEW v \in Loops PROVE ListOwn(v)'
    BY DEF ListsAreOwn
  <2>1. ListOwn(v)
    BY <1>i DEF ListsAreOwn
  <2>2. CASE v = t
    BY <1>0, <1>1, <1>2, <1>4, <1>5, <2>1, <2>2 DEF ListOwn
  <2>3. CASE v # t
    BY <1>0, <1>1, <1>3, <1>4, <1>5, <2>1, <2>3 DEF ListOwn
  <2> QED BY <2>2, <2>3
<1>16. StatesAgree'
  <2> SUFFICES ASSUME NEW x \in Events PROVE StateAgrees(x)'
    BY DEF StatesAgree
  <2>1. StateAgrees(x) /\ Target[x] \in Loops
    BY <1>0, <1>i DEF StatesAgree
  <2>2. CASE Target[x] = t
    <3>1. loopPc'[t] # "exitDone" /\ loopPc[t] # "exitDone"
      BY <1>1, <1>3, <1>5
    <3> QED BY <1>0, <1>1, <1>3, <1>4, <1>5, <2>1, <2>2, <3>1 DEF StateAgrees
  <2>3. CASE Target[x] # t
    BY <1>0, <1>1, <1>3, <1>4, <1>5, <2>1, <2>3 DEF StateAgrees
  <2> QED BY <2>2, <2>3
<1>17. RepliesAreFilled'
  BY <1>0, <1>i, <1>1, <1>4, <1>6 DEF RepliesAreFilled
<1>18. SentInOrder'
  BY <1>6, SentFrame
<1>19. StartedInOrder'
  <2>1. ASSUME NEW x \in Events, Started(x)' PROVE Started(x)
    <3>1. Target[x] \in Loops
      BY <1>0
    <3>2. CASE x = e
      BY <1>2, <1>3, <3>2 DEF Started, Armed
    <3>3. CASE x # e /\ Target[x] = t
      BY <1>0, <1>2, <1>4, <1>5, <2>1, <3>3 DEF Started, Armed
    <3>4. CASE x # e /\ Target[x] # t
      BY <1>0, <1>4, <1>5, <2>1, <3>1, <3>4 DEF Started, Armed
    <3> QED BY <3>2, <3>3, <3>4
  <2>2. \A x \in Events : eventState'[x] = "QUEUED" => eventState[x] = "QUEUED"
    BY <1>1
  <2> QED BY <2>1, <2>2, NoneStarted
<1>20. StartSorted'
  BY <1>0, <1>i, <1>1 DEF StartSorted
<1>21. QueueSorted'
  <2>1. ASSUME NEW v \in Loops, NEW x \in Events, Contains(queue'[v], x), node'[x] = None
        PROVE  node[x] = None
    <3>1. x # e
      BY <1>2, <1>3, <1>5, <1>i, <2>1 DEF ListsAreOwn, ListOwn
    <3> QED BY <1>4, <2>1, <3>1
  <2>2. \A v \in Loops : Follows(queue'[v], queue[v])
    BY <1>2, <1>5, FollowsSelf
  <2> QED BY <1>1, <1>7, <2>1, <2>2, QueueShrinks
<1>22. ServedWell'
  <2> SUFFICES ASSUME NEW x \in Events, Serving(Target[x]) PROVE ServedEvent(x)'
    BY <1>0 DEF ServedWell, Serving
  <2>1. ServedEvent(x) /\ Target[x] \in Loops
    BY <1>0, <1>i DEF ServedWell
  <2>2. CASE x = e
    <3>0. loopAlive[t]
      BY <1>i, <1>1 DEF CurrentIsOwn, CurrentOwn, Exiting
    <3>1. eventState[e] \in Live /\ ~Contains(queue'[t], e)
      BY <1>2, <1>3, <1>5, <2>1, <2>2, <3>0 DEF ServedEvent, Armed
    <3> QED BY <1>0, <1>1, <1>3, <1>4, <1>5, <2>1, <2>2, <3>1 DEF ServedEvent, Armed, Live
  <2>3. CASE x # e /\ Target[x] = t
    BY <1>0, <1>1, <1>2, <1>4, <1>5, <2>1, <2>3 DEF ServedEvent, Armed
  <2>4. CASE x # e /\ Target[x] # t
    BY <1>0, <1>1, <1>4, <1>5, <2>1, <2>4 DEF ServedEvent, Armed
  <2> QED BY <2>2, <2>3, <2>4
<1>23. NoAbort'
  BY <1>0, <1>i, <1>1 DEF NoAbort, Serving
<1> QED BY <1>11, <1>12, <1>13, <1>14, <1>15, <1>16, <1>17, <1>18, <1>19, <1>20, <1>21, <1>22,
         <1>23 DEF ExecutorInv

(* The process aborts, and nothing else happens. *)
LEMMA OnlyAborts ==
  ASSUME ExecutorInv, crashed' = TRUE, NoAbort',
         UNCHANGED <<route, loopAlive, start, executing, cancel, replies, waitingForCancel,
                     eventState, node, result, resolved, freed, queue, loopPc, current, call,
                     subject, outside>>
  PROVE  ExecutorInv'
<1> USE DEF None, NoEvent
<1>0. /\ Requester' = Requester /\ Target' = Target /\ SyncEvents' = SyncEvents
      /\ Pollers' = Pollers
      /\ Requester \in [Events -> Loops] /\ Target \in [Events -> Loops]
      /\ \A x \in Events : x \in Nat /\ x # 0
  BY RouteKept
<1>i. /\ CallsAreOwn /\ CurrentIsOwn /\ OutsideIsOwn /\ ListsAreOwn /\ StatesAgree
      /\ RepliesAreFilled /\ SentInOrder /\ StartedInOrder /\ StartSorted /\ QueueSorted
      /\ ServedWell /\ NoAbort /\ ExecutorTypeOK
  BY DEF ExecutorInv
<1>11. ExecutorTypeOK'
  BY <1>i DEF ExecutorTypeOK
<1>12. CallsAreOwn'
  BY <1>0, <1>i DEF CallsAreOwn, CallIsOwn, Unsent
<1>13. CurrentIsOwn'
  BY <1>0, <1>i DEF CurrentIsOwn, CurrentOwn
<1>14. OutsideIsOwn'
  BY <1>0, <1>i DEF OutsideIsOwn, Outside
<1>15. ListsAreOwn'
  BY <1>0, <1>i DEF ListsAreOwn, ListOwn
<1>16. StatesAgree'
  BY <1>0, <1>i DEF StatesAgree, StateAgrees
<1>17. RepliesAreFilled'
  BY <1>0, <1>i DEF RepliesAreFilled, Unsent
<1>18. SentInOrder'
  BY <1>0, <1>i DEF SentInOrder, Unsent
<1>19. StartedInOrder'
  BY StartedFrame
<1>20. StartSorted'
  BY <1>0, <1>i DEF StartSorted
<1>21. QueueSorted'
  BY <1>0, <1>i DEF QueueSorted
<1>22. ServedWell'
  BY <1>0, <1>i DEF ServedWell, ServedEvent, Serving, Armed
<1>23. NoAbort'
  OBVIOUS
<1> QED BY <1>11, <1>12, <1>13, <1>14, <1>15, <1>16, <1>17, <1>18, <1>19, <1>20, <1>21, <1>22,
         <1>23 DEF ExecutorInv

(* func() has returned and the event was freed meanwhile: not if the thread only serves. *)
LEMMA ExecutedFreed ==
  ASSUME ExecutorInv, NEW t \in Loops, executed(t), freed[current[t]], UNCHANGED route
  PROVE  ExecutorInv'
<1> USE DEF None, NoEvent
<1>0. /\ Requester' = Requester /\ Target' = Target /\ SyncEvents' = SyncEvents
      /\ Pollers' = Pollers
      /\ Requester \in [Events -> Loops] /\ Target \in [Events -> Loops]
      /\ \A x \in Events : x \in Nat /\ x # 0
  BY RouteKept
<1>i. /\ CallsAreOwn /\ CurrentIsOwn /\ OutsideIsOwn /\ ListsAreOwn /\ StatesAgree
      /\ RepliesAreFilled /\ SentInOrder /\ StartedInOrder /\ StartSorted /\ QueueSorted
      /\ ServedWell /\ NoAbort /\ ExecutorTypeOK
  BY DEF ExecutorInv
<1>1. /\ loopPc[t] = "execute" /\ crashed' = TRUE
      /\ UNCHANGED <<loopAlive, start, executing, cancel, replies, waitingForCancel, eventState,
                     node, result, resolved, freed, queue, loopPc, current, call, subject, outside>>
  BY DEF executed, InApplication, Abort, lists, callVars
<1>2. current[t] \in Events /\ Target[current[t]] = t
  BY <1>i, <1>1 DEF CurrentIsOwn, CurrentOwn, Busy
<1>3. eventState[current[t]] = "DONE"
  BY <1>i, <1>2 DEF StatesAgree, StateAgrees
<1>4. ~Serving(t)
  BY <1>i, <1>2, <1>3 DEF ServedWell, ServedEvent
<1>5. NoAbort'
  BY <1>0, <1>1, <1>2, <1>4 DEF NoAbort, Serving
<1> QED BY <1>1, <1>5, OnlyAborts

(* func() has returned a value. *)
LEMMA ExecutedValue ==
  ASSUME ExecutorInv, NEW t \in Loops, executed(t), loopPc'[t] = "reply", ~freed[current[t]], UNCHANGED route
  PROVE  ExecutorInv'
<1> USE DEF None, NoEvent
<1>0. /\ Requester' = Requester /\ Target' = Target /\ SyncEvents' = SyncEvents
      /\ Pollers' = Pollers
      /\ Requester \in [Events -> Loops] /\ Target \in [Events -> Loops]
      /\ \A x \in Events : x \in Nat /\ x # 0
  BY RouteKept
<1>i. /\ CallsAreOwn /\ CurrentIsOwn /\ OutsideIsOwn /\ ListsAreOwn /\ StatesAgree
      /\ RepliesAreFilled /\ SentInOrder /\ StartedInOrder /\ StartSorted /\ QueueSorted
      /\ ServedWell /\ NoAbort /\ ExecutorTypeOK
  BY DEF ExecutorInv
<1> DEFINE e == current[t]
<1>1. /\ loopPc[t] = "execute" /\ call[t] = None /\ outside[t] = {} /\ e = current[t]
      /\ result' = [result EXCEPT ![e] = "value"]
      /\ loopPc' = [loopPc EXCEPT ![t] = "reply"]
      /\ UNCHANGED <<loopAlive, start, executing, cancel, replies, waitingForCancel, eventState,
                     node, current, resolved, freed, queue, call, subject, outside,
                     crashed>>
  <2>1. loopPc' # [loopPc EXCEPT ![t] = "loop"]
    BY <1>i DEF ExecutorTypeOK
  <2> QED BY <2>1, Zenon DEF executed, InApplication, LoopGoto, lists, callVars
<1>2. /\ e \in Events /\ Target[e] = t /\ eventState[e] \notin {"UNUSED", "QUEUED"}
      /\ ~Contains(queue[t], e)
  <2>1. e \in Events /\ Target[e] = t
    BY <1>i, <1>1 DEF CurrentIsOwn, CurrentOwn, Busy
  <2>2. eventState[e] \notin {"UNUSED", "QUEUED"}
    BY <1>i, <1>1, <2>1 DEF StatesAgree, StateAgrees
  <2>3. ~Contains(queue[t], e)
    BY <1>i, <1>1, <2>1 DEF ListsAreOwn, ListOwn
  <2> QED BY <2>1, <2>2, <2>3
<1> HIDE DEF e
<1>3. /\ result'[e] = "value" /\ loopPc'[t] = "reply"
      /\ \A v \in Loops : v # t => loopPc'[v] = loopPc[v]
      /\ \A x \in Events : x # e => result'[x] = result[x]
  BY <1>i, <1>1, <1>2 DEF ExecutorTypeOK
<1>4. \A x \in Events : Unsent(x)' <=> Unsent(x)
  BY <1>1, <1>2, <1>3 DEF Unsent
<1>5. \A v \in Loops : loopPc'[v] = "exitDone" <=> loopPc[v] = "exitDone"
  BY <1>1, <1>3
<1>11. ExecutorTypeOK'
  <2>1. loopPc' \in [Loops -> {"loop", "execute", "reply", "done", "exit", "exitDone", "unqueue", "exited"}]
    BY <1>i, <1>1 DEF ExecutorTypeOK
  <2>2. result' \in [Events -> {None, "value", "disconnected"}]
    BY <1>i, <1>1 DEF ExecutorTypeOK
  <2> QED BY <1>i, <1>1, <2>1, <2>2 DEF ExecutorTypeOK
<1>12. CallsAreOwn'
  <2> SUFFICES ASSUME NEW v \in Loops PROVE CallIsOwn(v)'
    BY DEF CallsAreOwn
  <2>1. CallIsOwn(v)
    BY <1>i DEF CallsAreOwn
  <2>2. CASE v = t
    BY <1>1, <2>2 DEF CallIsOwn
  <2>3. CASE v # t
    BY <1>0, <1>1, <1>3, <1>4, <2>1, <2>3 DEF CallIsOwn
  <2> QED BY <2>2, <2>3
<1>13. CurrentIsOwn'
  <2> SUFFICES ASSUME NEW v \in Loops PROVE CurrentOwn(v)'
    BY DEF CurrentIsOwn
  <2>1. CurrentOwn(v)
    BY <1>i DEF CurrentIsOwn
  <2>2. CASE v = t
    BY <1>0, <1>1, <1>2, <1>3, <2>1, <2>2 DEF CurrentOwn, Busy, Exiting
  <2>3. CASE v # t
    <3>1. loopPc[v] = "reply" => result'[current[v]] = result[current[v]]
      BY <1>2, <1>3, <2>1, <2>3 DEF CurrentOwn, Busy
    <3> QED BY <1>0, <1>1, <1>3, <2>1, <2>3, <3>1 DEF CurrentOwn
  <2> QED BY <2>2, <2>3
<1>14. OutsideIsOwn'
  <2> SUFFICES ASSUME NEW v \in Loops PROVE Outside(v)'
    BY DEF OutsideIsOwn
  <2>1. Outside(v) /\ outside[v] \subseteq Events
    BY <1>i DEF OutsideIsOwn, ExecutorTypeOK
  <2>2. CASE v = t
    BY <1>1, <2>2 DEF Outside
  <2>3. CASE v # t
    BY <1>0, <1>1, <1>3, <2>1, <2>3 DEF Outside
  <2> QED BY <2>2, <2>3
<1>15. ListsAreOwn'
  BY <1>0, <1>i, <1>1 DEF ListsAreOwn, ListOwn
<1>16. StatesAgree'
  <2> SUFFICES ASSUME NEW x \in Events PROVE StateAgrees(x)'
    BY DEF StatesAgree
  <2>1. StateAgrees(x) /\ Target[x] \in Loops
    BY <1>0, <1>i DEF StatesAgree
  <2> QED BY <1>0, <1>1, <1>5, <2>1 DEF StateAgrees
<1>17. RepliesAreFilled'
  BY <1>0, <1>i, <1>1, <1>3, <1>4 DEF RepliesAreFilled
<1>18. SentInOrder'
  BY <1>4, SentFrame
<1>19. StartedInOrder'
  <2>1. ASSUME NEW x \in Events, Started(x)' PROVE Started(x)
    <3>1. Target[x] \in Loops
      BY <1>0
    <3> QED BY <1>0, <1>1, <1>3, <2>1, <3>1 DEF Started, Armed
  <2> QED BY <1>1, <2>1, NoneStarted
<1>20. StartSorted'
  BY <1>0, <1>i, <1>1 DEF StartSorted
<1>21. QueueSorted'
  BY <1>0, <1>i, <1>1 DEF QueueSorted
<1>22. ServedWell'
  <2> SUFFICES ASSUME NEW x \in Events, Serving(Target[x]) PROVE ServedEvent(x)'
    BY <1>0 DEF ServedWell, Serving
  <2>1. ServedEvent(x) /\ Target[x] \in Loops
    BY <1>0, <1>i DEF ServedWell
  <2> QED BY <1>0, <1>1, <1>5, <2>1 DEF ServedEvent, Armed
<1>23. NoAbort'
  BY <1>0, <1>i, <1>1 DEF NoAbort, Serving
<1> QED BY <1>11, <1>12, <1>13, <1>14, <1>15, <1>16, <1>17, <1>18, <1>19, <1>20, <1>21, <1>22,
         <1>23 DEF ExecutorInv

(* func() has returned a promise, which the loop will wait for. *)
LEMMA ExecutedPromise ==
  ASSUME ExecutorInv, NEW t \in Loops, executed(t), loopPc'[t] = "loop", ~freed[current[t]], UNCHANGED route
  PROVE  ExecutorInv'
<1> USE DEF None, NoEvent
<1>0. /\ Requester' = Requester /\ Target' = Target /\ SyncEvents' = SyncEvents
      /\ Pollers' = Pollers
      /\ Requester \in [Events -> Loops] /\ Target \in [Events -> Loops]
      /\ \A x \in Events : x \in Nat /\ x # 0
  BY RouteKept
<1>i. /\ CallsAreOwn /\ CurrentIsOwn /\ OutsideIsOwn /\ ListsAreOwn /\ StatesAgree
      /\ RepliesAreFilled /\ SentInOrder /\ StartedInOrder /\ StartSorted /\ QueueSorted
      /\ ServedWell /\ NoAbort /\ ExecutorTypeOK
  BY DEF ExecutorInv
<1> DEFINE e == current[t]
<1>1. /\ loopPc[t] = "execute" /\ call[t] = None /\ outside[t] = {} /\ e = current[t]
      /\ node' = [node EXCEPT ![e] = "pending"]
      /\ loopPc' = [loopPc EXCEPT ![t] = "loop"]
      /\ current' = [current EXCEPT ![t] = NoEvent]
      /\ UNCHANGED <<loopAlive, start, executing, cancel, replies, waitingForCancel, eventState,
                     result, resolved, freed, queue, call, subject, outside,
                     crashed>>
  <2>1. loopPc' # [loopPc EXCEPT ![t] = "reply"]
    BY <1>i DEF ExecutorTypeOK
  <2> QED BY <2>1, Zenon DEF executed, InApplication, LoopGoto, lists, callVars
<1>2. /\ e \in Events /\ Target[e] = t /\ eventState[e] \notin {"UNUSED", "QUEUED"}
      /\ ~Contains(queue[t], e)
  <2>1. e \in Events /\ Target[e] = t
    BY <1>i, <1>1 DEF CurrentIsOwn, CurrentOwn, Busy
  <2>2. eventState[e] \notin {"UNUSED", "QUEUED"}
    BY <1>i, <1>1, <2>1 DEF StatesAgree, StateAgrees
  <2>3. ~Contains(queue[t], e)
    BY <1>i, <1>1, <2>1 DEF ListsAreOwn, ListOwn
  <2> QED BY <2>1, <2>2, <2>3
<1> HIDE DEF e
<1>3. /\ node'[e] = "pending" /\ loopPc'[t] = "loop" /\ current'[t] = NoEvent
      /\ \A v \in Loops : v # t => loopPc'[v] = loopPc[v] /\ current'[v] = current[v]
      /\ \A x \in Events : x # e => node'[x] = node[x]
  BY <1>i, <1>1, <1>2 DEF ExecutorTypeOK
<1>4. \A x \in Events : Unsent(x)' <=> Unsent(x)
  BY <1>1 DEF Unsent
<1>11. ExecutorTypeOK'
  <2>1. loopPc' \in [Loops -> {"loop", "execute", "reply", "done", "exit", "exitDone", "unqueue", "exited"}]
    BY <1>i, <1>1 DEF ExecutorTypeOK
  <2>2. node' \in [Events -> {None, "pending", "ready"}]
    BY <1>i, <1>1 DEF ExecutorTypeOK
  <2>3. current' \in [Loops -> Events \cup {NoEvent}]
    BY <1>i, <1>1 DEF ExecutorTypeOK
  <2> QED BY <1>i, <1>1, <2>1, <2>2, <2>3 DEF ExecutorTypeOK
<1>12. CallsAreOwn'
  <2> SUFFICES ASSUME NEW v \in Loops PROVE CallIsOwn(v)'
    BY DEF CallsAreOwn
  <2>1. CallIsOwn(v)
    BY <1>i DEF CallsAreOwn
  <2>2. CASE v = t
    BY <1>1, <2>2 DEF CallIsOwn
  <2>3. CASE v # t
    BY <1>0, <1>1, <1>3, <1>4, <2>1, <2>3 DEF CallIsOwn
  <2> QED BY <2>2, <2>3
<1>13. CurrentIsOwn'
  <2> SUFFICES ASSUME NEW v \in Loops PROVE CurrentOwn(v)'
    BY DEF CurrentIsOwn
  <2>1. CurrentOwn(v)
    BY <1>i DEF CurrentIsOwn
  <2>2. CASE v = t
    BY <1>0, <1>1, <1>2, <1>3, <2>1, <2>2 DEF CurrentOwn, Busy, Exiting
  <2>3. CASE v # t
    BY <1>0, <1>1, <1>3, <2>1, <2>3 DEF CurrentOwn
  <2> QED BY <2>2, <2>3
<1>14. OutsideIsOwn'
  <2> SUFFICES ASSUME NEW v \in Loops PROVE Outside(v)'
    BY DEF OutsideIsOwn
  <2>1. Outside(v) /\ outside[v] \subseteq Events
    BY <1>i DEF OutsideIsOwn, ExecutorTypeOK
  <2>2. CASE v = t
    BY <1>1, <2>2 DEF Outside
  <2>3. CASE v # t
    <3>1. \A x \in outside[v] : node'[x] = node[x]
      BY <1>2, <1>3, <2>1, <2>3 DEF Outside
    <3> QED BY <1>0, <1>1, <1>3, <2>1, <2>3, <3>1 DEF Outside
  <2> QED BY <2>2, <2>3
<1>15. ListsAreOwn'
  <2> SUFFICES ASSUME NEW v \in Loops PROVE ListOwn(v)'
    BY DEF ListsAreOwn
  <2>1. ListOwn(v)
    BY <1>i DEF ListsAreOwn
  <2>2. \A x \in Events : Contains(queue[v], x) =>
          x # e /\ (x = current'[v] => loopPc'[v] = "exitDone")
    BY <1>0, <1>1, <1>2, <1>3, <2>1 DEF ListOwn
  <2> QED BY <1>0, <1>1, <1>3, <2>1, <2>2 DEF ListOwn
<1>16. StatesAgree'
  <2> SUFFICES ASSUME NEW x \in Events PROVE StateAgrees(x)'
    BY DEF StatesAgree
  <2>1. StateAgrees(x) /\ Target[x] \in Loops
    BY <1>0, <1>i DEF StatesAgree
  <2>2. CASE Target[x] = t
    BY <1>0, <1>1, <1>2, <1>3, <2>1, <2>2 DEF StateAgrees
  <2>3. CASE Target[x] # t
    BY <1>0, <1>1, <1>2, <1>3, <2>1, <2>3 DEF StateAgrees
  <2> QED BY <2>2, <2>3
<1>17. RepliesAreFilled'
  BY <1>0, <1>i, <1>1, <1>4 DEF RepliesAreFilled
<1>18. SentInOrder'
  BY <1>4, SentFrame
<1>19. StartedInOrder'
  <2>1. ASSUME NEW x \in Events, Started(x)' PROVE Started(x)
    <3>1. Target[x] \in Loops
      BY <1>0
    <3>2. CASE x = e
      BY <1>1, <1>2, <3>2 DEF Started
    <3>3. CASE x # e
      BY <1>0, <1>1, <1>3, <2>1, <3>1, <3>3 DEF Started, Armed
    <3> QED BY <3>2, <3>3
  <2> QED BY <1>1, <2>1, NoneStarted
<1>20. StartSorted'
  BY <1>0, <1>i, <1>1 DEF StartSorted
<1>21. QueueSorted'
  <2>1. ASSUME NEW v \in Loops, NEW x \in Events, Contains(queue'[v], x), node'[x] = None
        PROVE  node[x] = None
    BY <1>3, <2>1
  <2>2. queue' \in [Loops -> Seq(Events)] /\ \A v \in Loops : Follows(queue'[v], queue[v])
    BY <1>i, <1>1, FollowsSelf DEF ExecutorTypeOK
  <2> QED BY <1>1, <2>1, <2>2, QueueShrinks
<1>22. ServedWell'
  <2> SUFFICES ASSUME NEW x \in Events, Serving(Target[x]) PROVE ServedEvent(x)'
    BY <1>0 DEF ServedWell, Serving
  <2>1. ServedEvent(x) /\ Target[x] \in Loops
    BY <1>0, <1>i DEF ServedWell
  <2>2. CASE x = e
    BY <1>0, <1>1, <1>2, <1>3, <2>1, <2>2 DEF ServedEvent
  <2>3. CASE x # e
    BY <1>0, <1>1, <1>3, <2>1, <2>3 DEF ServedEvent, Armed
  <2> QED BY <2>2, <2>3
<1>23. NoAbort'
  BY <1>0, <1>i, <1>1 DEF NoAbort, Serving
<1> QED BY <1>11, <1>12, <1>13, <1>14, <1>15, <1>16, <1>17, <1>18, <1>19, <1>20, <1>21, <1>22,
         <1>23 DEF ExecutorInv

(* func() has returned. *)
LEMMA ExecutedKeeps ==
  ASSUME ExecutorInv, NEW t \in Loops, executed(t), UNCHANGED route
  PROVE  ExecutorInv'
<1>1. freed[current[t]] \/ (~freed[current[t]] /\ loopPc'[t] \in {"reply", "loop"})
  BY DEF executed, LoopGoto, ExecutorInv, ExecutorTypeOK
<1> QED BY <1>1, ExecutedFreed, ExecutedValue, ExecutedPromise

(* The promise that func() returned resolves and arms the event. *)
LEMMA PromiseResolvesKeeps ==
  ASSUME ExecutorInv, NEW t \in Loops, NEW e \in Events, PromiseResolves(t, e), UNCHANGED route
  PROVE  ExecutorInv'
<1> USE DEF None, NoEvent
<1>0. /\ Requester' = Requester /\ Target' = Target /\ SyncEvents' = SyncEvents
      /\ Pollers' = Pollers
      /\ Requester \in [Events -> Loops] /\ Target \in [Events -> Loops]
      /\ \A x \in Events : x \in Nat /\ x # 0
  BY RouteKept
<1>i. /\ CallsAreOwn /\ CurrentIsOwn /\ OutsideIsOwn /\ ListsAreOwn /\ StatesAgree
      /\ RepliesAreFilled /\ SentInOrder /\ StartedInOrder /\ StartSorted /\ QueueSorted
      /\ ServedWell /\ NoAbort /\ ExecutorTypeOK
  BY DEF ExecutorInv
<1>1. /\ loopPc[t] = "loop" /\ call[t] = None /\ outside[t] = {}
      /\ Target[e] = t /\ node[e] = "pending"
      /\ node' = [node EXCEPT ![e] = "ready"]
      /\ queue' = [queue EXCEPT ![t] = Append(queue[t], e)]
      /\ UNCHANGED <<loopAlive, start, executing, cancel, replies, waitingForCancel, eventState,
                     result, resolved, freed, loopPc, current, call, subject, outside, crashed>>
  BY DEF PromiseResolves, AtLoop, lists, callVars
<1>2. queue[t] \in Seq(Events) /\ Distinct(queue[t]) /\ ~Contains(queue[t], e)
  BY <1>i, <1>1 DEF ExecutorTypeOK, ListsAreOwn, ListOwn
<1> DEFINE r == Append(queue[t], e)
<1>3. /\ r \in Seq(Events) /\ Distinct(r)
      /\ \A x : Contains(r, x) <=> Contains(queue[t], x) \/ x = e
      /\ \A j, k \in 1..Len(r) : j < k =>
           /\ j \in 1..Len(queue[t]) /\ r[j] = queue[t][j]
           /\ (k \in 1..Len(queue[t]) /\ r[k] = queue[t][k]) \/ r[k] = e
  BY <1>2, AppendList
<1>4. queue' = [queue EXCEPT ![t] = r]
  BY <1>1
<1> HIDE DEF r
<1>5. queue'[t] = r /\ \A v \in Loops : v # t => queue'[v] = queue[v]
  BY <1>i, <1>4 DEF ExecutorTypeOK
<1>6. node'[e] = "ready" /\ \A x \in Events : x # e => node'[x] = node[x]
  BY <1>i, <1>1 DEF ExecutorTypeOK
<1>7. \A x \in Events : Unsent(x)' <=> Unsent(x)
  BY <1>1 DEF Unsent
<1>8. eventState[e] \notin {"UNUSED", "QUEUED"} /\ current[t] # e
  BY <1>0, <1>i, <1>1 DEF StatesAgree, StateAgrees, CurrentIsOwn, CurrentOwn, Busy
<1>11. ExecutorTypeOK'
  <2>1. queue' \in [Loops -> Seq(Events)]
    BY <1>i, <1>3, <1>4 DEF ExecutorTypeOK
  <2> QED BY <1>i, <1>1, <2>1 DEF ExecutorTypeOK
<1>12. CallsAreOwn'
  BY <1>0, <1>i, <1>1, <1>7 DEF CallsAreOwn, CallIsOwn
<1>13. CurrentIsOwn'
  BY <1>0, <1>i, <1>1, <1>5 DEF CurrentIsOwn, CurrentOwn, Exiting
<1>14. OutsideIsOwn'
  <2> SUFFICES ASSUME NEW v \in Loops PROVE Outside(v)'
    BY DEF OutsideIsOwn
  <2>1. Outside(v) /\ outside[v] \subseteq Events
    BY <1>i DEF OutsideIsOwn, ExecutorTypeOK
  <2>2. CASE v = t
    BY <1>1, <2>2 DEF Outside
  <2>3. CASE v # t
    BY <1>0, <1>1, <1>5, <1>6, <2>1, <2>3 DEF Outside
  <2> QED BY <2>2, <2>3
<1>15. ListsAreOwn'
  <2> SUFFICES ASSUME NEW v \in Loops PROVE ListOwn(v)'
    BY DEF ListsAreOwn
  <2>1. ListOwn(v)
    BY <1>i DEF ListsAreOwn
  <2>2. CASE v = t
    <3>1. ASSUME NEW x \in Events, Contains(r, x)
          PROVE  /\ Target[x] = t /\ x # current[t] /\ node'[x] # "pending"
                 /\ eventState[x] \notin {"UNUSED", "QUEUED"}
      <4>1. CASE x = e
        BY <1>1, <1>6, <1>8, <4>1
      <4>2. CASE x # e
        BY <1>1, <1>3, <1>6, <2>1, <2>2, <3>1, <4>2 DEF ListOwn
      <4> QED BY <4>1, <4>2
    <3>2. /\ Distinct(start[t])
          /\ \A x \in Events : Contains(start[t], x) => Target[x] = t /\ eventState[x] = "QUEUED"
      BY <2>1, <2>2 DEF ListOwn
    <3> QED BY <1>0, <1>1, <1>3, <1>5, <2>2, <3>1, <3>2 DEF ListOwn
  <2>3. CASE v # t
    BY <1>0, <1>1, <1>5, <1>6, <2>1, <2>3 DEF ListOwn
  <2> QED BY <2>2, <2>3
<1>16. StatesAgree'
  <2> SUFFICES ASSUME NEW x \in Events PROVE StateAgrees(x)'
    BY DEF StatesAgree
  <2>1. StateAgrees(x)
    BY <1>i DEF StatesAgree
  <2> QED BY <1>0, <1>1, <1>6, <1>8, <2>1 DEF StateAgrees
<1>17. RepliesAreFilled'
  BY <1>0, <1>i, <1>1, <1>7 DEF RepliesAreFilled
<1>18. SentInOrder'
  BY <1>7, SentFrame
<1>19. StartedInOrder'
  <2>1. ASSUME NEW x \in Events, Started(x)' PROVE Started(x)
    <3>1. Target[x] \in Loops
      BY <1>0
    <3>2. CASE x = e
      BY <1>1, <3>2 DEF Started
    <3>3. CASE x # e
      BY <1>0, <1>1, <1>3, <1>5, <1>6, <2>1, <3>1, <3>3 DEF Started, Armed
    <3> QED BY <3>2, <3>3
  <2>2. \A x \in Events : eventState'[x] = "QUEUED" => eventState[x] = "QUEUED"
    BY <1>1
  <2> QED BY <2>1, <2>2, NoneStarted
<1>20. StartSorted'
  BY <1>0, <1>i, <1>1 DEF StartSorted
<1>9. loopAlive' = loopAlive /\ Requester' = Requester
  BY <1>0, <1>1
<1>21. QueueSorted'
  <2> SUFFICES ASSUME NEW v \in Loops, loopAlive[v], NEW j \in 1..Len(queue'[v]), NEW k \in 1..Len(queue'[v]),
                      j < k, Requester[queue'[v][j]] = Requester[queue'[v][k]],
                      node'[queue'[v][j]] = None, node'[queue'[v][k]] = None
               PROVE  queue'[v][j] < queue'[v][k]
    BY <1>9 DEF QueueSorted
  <2>1. CASE v = t
    <3>1. j \in 1..Len(queue[t]) /\ k \in 1..Len(queue[t]) /\ r[j] = queue[t][j] /\ r[k] = queue[t][k]
      BY <1>3, <1>5, <1>6, <2>1
    <3>2. queue[t][j] \in Events /\ queue[t][k] \in Events
      BY <1>2, <3>1
    <3>3. node[queue[t][j]] = None /\ node[queue[t][k]] = None
      BY <1>5, <1>6, <2>1, <3>1, <3>2
    <3> QED BY <1>i, <1>5, <2>1, <3>1, <3>3 DEF QueueSorted
  <2>2. CASE v # t
    <3>1. queue[v] \in Seq(Events) /\ queue'[v] = queue[v]
      BY <1>i, <1>5, <2>2 DEF ExecutorTypeOK
    <3>2. queue[v][j] \in Events /\ queue[v][k] \in Events
      BY <3>1
    <3>3. node[queue[v][j]] = None /\ node[queue[v][k]] = None
      BY <1>6, <3>1, <3>2
    <3> QED BY <1>i, <3>1, <3>3 DEF QueueSorted
  <2> QED BY <2>1, <2>2
<1>22. ServedWell'
  <2> SUFFICES ASSUME NEW x \in Events, Serving(Target[x]) PROVE ServedEvent(x)'
    BY <1>0 DEF ServedWell, Serving
  <2>1. ServedEvent(x) /\ Target[x] \in Loops
    BY <1>0, <1>i DEF ServedWell
  <2>2. CASE x = e
    BY <1>0, <1>1, <1>8, <2>1, <2>2 DEF ServedEvent
  <2>3. CASE x # e
    <3>1. Contains(queue'[Target[x]], x) <=> Contains(queue[Target[x]], x)
      BY <1>3, <1>5, <2>1, <2>3
    <3> QED BY <1>0, <1>1, <1>6, <2>1, <2>3, <3>1 DEF ServedEvent, Armed
  <2> QED BY <2>2, <2>3
<1>23. NoAbort'
  BY <1>0, <1>i, <1>1 DEF NoAbort, Serving
<1> QED BY <1>11, <1>12, <1>13, <1>14, <1>15, <1>16, <1>17, <1>18, <1>19, <1>20, <1>21, <1>22,
         <1>23 DEF ExecutorInv

(* The answer goes on the requester's list; if its loop is gone the process aborts, but not
   when the thread only serves: its event is held until it is done. *)
LEMMA ReplyKeeps ==
  ASSUME ExecutorInv, NEW t \in Loops, reply(t), UNCHANGED route
  PROVE  ExecutorInv'
<1> USE DEF None, NoEvent
<1>0. /\ Requester' = Requester /\ Target' = Target /\ SyncEvents' = SyncEvents
      /\ Pollers' = Pollers
      /\ Requester \in [Events -> Loops] /\ Target \in [Events -> Loops]
      /\ \A x \in Events : x \in Nat /\ x # 0
  BY RouteKept
<1>i. /\ CallsAreOwn /\ CurrentIsOwn /\ OutsideIsOwn /\ ListsAreOwn /\ StatesAgree
      /\ RepliesAreFilled /\ SentInOrder /\ StartedInOrder /\ StartSorted /\ QueueSorted
      /\ ServedWell /\ NoAbort /\ ExecutorTypeOK
  BY DEF ExecutorInv
<1> DEFINE e == current[t]
<1>1. /\ loopPc[t] = "reply" /\ e = current[t] /\ sendReply(e)
      /\ loopPc' = [loopPc EXCEPT ![t] = "done"]
      /\ UNCHANGED <<loopAlive, start, executing, cancel, waitingForCancel, eventState, node,
                     result, resolved, freed, queue, current, call, subject, outside>>
  BY DEF reply, LoopGoto, eventVars, callVars
<1>2. e \in Events /\ Target[e] = t /\ result[e] # None
  BY <1>i, <1>1 DEF CurrentIsOwn, CurrentOwn, Busy
<1> HIDE DEF e
<1>3. /\ replies' \subseteq replies \cup {e} /\ crashed' \in BOOLEAN
      /\ crashed' => crashed \/ ~loopAlive[Requester[e]]
  BY <1>i, <1>1 DEF sendReply, Abort, ExecutorTypeOK
<1>4. loopPc'[t] = "done" /\ \A v \in Loops : v # t => loopPc'[v] = loopPc[v]
  BY <1>i, <1>1 DEF ExecutorTypeOK
<1>5. \A x \in Events : Unsent(x)' <=> Unsent(x)
  BY <1>1 DEF Unsent
<1>6. \A v \in Loops : loopPc'[v] = "exitDone" <=> loopPc[v] = "exitDone"
  BY <1>1, <1>4
<1>7. call[t] = None /\ outside[t] = {}
  BY <1>i, <1>1 DEF CallsAreOwn, CallIsOwn, OutsideIsOwn, Outside
<1>8. Serving(t) => eventState[e] \in Live
  BY <1>i, <1>1, <1>2 DEF ServedWell, ServedEvent
<1>9. eventState[e] \in Live => ~Unsent(e) /\ ~freed[e]
  BY <1>i, <1>2 DEF StatesAgree, StateAgrees, Unsent, Live
<1>11. ExecutorTypeOK'
  <2>1. loopPc' \in [Loops -> {"loop", "execute", "reply", "done", "exit", "exitDone", "unqueue", "exited"}]
    BY <1>i, <1>1 DEF ExecutorTypeOK
  <2>2. replies' \subseteq Events
    BY <1>i, <1>2, <1>3 DEF ExecutorTypeOK
  <2> QED BY <1>i, <1>1, <1>3, <2>1, <2>2 DEF ExecutorTypeOK
<1>12. CallsAreOwn'
  <2> SUFFICES ASSUME NEW v \in Loops PROVE CallIsOwn(v)'
    BY DEF CallsAreOwn
  <2>1. CallIsOwn(v)
    BY <1>i DEF CallsAreOwn
  <2>2. CASE v = t
    BY <1>1, <1>7, <2>2 DEF CallIsOwn
  <2>3. CASE v # t
    BY <1>0, <1>1, <1>4, <1>5, <2>1, <2>3 DEF CallIsOwn
  <2> QED BY <2>2, <2>3
<1>13. CurrentIsOwn'
  <2> SUFFICES ASSUME NEW v \in Loops PROVE CurrentOwn(v)'
    BY DEF CurrentIsOwn
  <2>1. CurrentOwn(v)
    BY <1>i DEF CurrentIsOwn
  <2>2. CASE v = t
    BY <1>0, <1>1, <1>2, <1>4, <2>1, <2>2 DEF CurrentOwn, Busy, Exiting
  <2>3. CASE v # t
    BY <1>0, <1>1, <1>4, <2>1, <2>3 DEF CurrentOwn
  <2> QED BY <2>2, <2>3
<1>14. OutsideIsOwn'
  <2> SUFFICES ASSUME NEW v \in Loops PROVE Outside(v)'
    BY DEF OutsideIsOwn
  <2>1. Outside(v) /\ outside[v] \subseteq Events
    BY <1>i DEF OutsideIsOwn, ExecutorTypeOK
  <2>2. CASE v = t
    BY <1>1, <1>7, <2>2 DEF Outside
  <2>3. CASE v # t
    BY <1>0, <1>1, <1>4, <2>1, <2>3 DEF Outside
  <2> QED BY <2>2, <2>3
<1>15. ListsAreOwn'
  BY <1>0, <1>i, <1>1 DEF ListsAreOwn, ListOwn
<1>16. StatesAgree'
  <2> SUFFICES ASSUME NEW x \in Events PROVE StateAgrees(x)'
    BY DEF StatesAgree
  <2>1. StateAgrees(x) /\ Target[x] \in Loops
    BY <1>0, <1>i DEF StatesAgree
  <2> QED BY <1>0, <1>1, <1>6, <2>1 DEF StateAgrees
<1>17. RepliesAreFilled'
  BY <1>0, <1>i, <1>1, <1>2, <1>3, <1>5 DEF RepliesAreFilled
<1>18. SentInOrder'
  BY <1>5, SentFrame
<1>19. StartedInOrder'
  <2>1. ASSUME NEW x \in Events, Started(x)' PROVE Started(x)
    <3>1. Target[x] \in Loops
      BY <1>0
    <3> QED BY <1>0, <1>1, <1>4, <2>1, <3>1 DEF Started, Armed
  <2> QED BY <1>1, <2>1, NoneStarted
<1>20. StartSorted'
  BY <1>0, <1>i, <1>1 DEF StartSorted
<1>21. QueueSorted'
  BY <1>0, <1>i, <1>1 DEF QueueSorted
<1>22. ServedWell'
  <2> SUFFICES ASSUME NEW x \in Events, Serving(Target[x]) PROVE ServedEvent(x)'
    BY <1>0 DEF ServedWell, Serving
  <2>1. ServedEvent(x) /\ Target[x] \in Loops
    BY <1>0, <1>i DEF ServedWell
  <2>2. CASE x = e
    BY <1>0, <1>1, <1>2, <1>6, <1>8, <1>9, <2>1, <2>2 DEF ServedEvent, Armed
  <2>3. CASE x # e
    BY <1>0, <1>1, <1>3, <1>6, <2>1, <2>3 DEF ServedEvent, Armed
  <2> QED BY <2>2, <2>3
<1>23. NoAbort'
  <2> SUFFICES ASSUME \A x \in Events : Serving(Target[x]) /\ loopAlive[Target[x]] PROVE ~crashed'
    BY <1>0, <1>1 DEF NoAbort, Serving
  <2>1. ~crashed
    BY <1>i DEF NoAbort
  <2>2. ~Unsent(e) /\ ~freed[e]
    BY <1>2, <1>8, <1>9
  <2>3. loopAlive[Requester[e]]
    BY <1>i, <1>2, <2>2 DEF RepliesAreFilled
  <2> QED BY <1>3, <2>1, <2>3
<1> QED BY <1>11, <1>12, <1>13, <1>14, <1>15, <1>16, <1>17, <1>18, <1>19, <1>20, <1>21, <1>22,
         <1>23 DEF ExecutorInv

(* The event is done, and off its list. *)
LEMMA DoneMarks ==
  ASSUME ExecutorInv, NEW t \in Loops, done(t),
         eventState[current[t]] \in {"EXECUTING", "CANCELING"}, ~freed[current[t]], UNCHANGED route
  PROVE  ExecutorInv'
<1> USE DEF None, NoEvent
<1>0. /\ Requester' = Requester /\ Target' = Target /\ SyncEvents' = SyncEvents
      /\ Pollers' = Pollers
      /\ Requester \in [Events -> Loops] /\ Target \in [Events -> Loops]
      /\ \A x \in Events : x \in Nat /\ x # 0
  BY RouteKept
<1>i. /\ CallsAreOwn /\ CurrentIsOwn /\ OutsideIsOwn /\ ListsAreOwn /\ StatesAgree
      /\ RepliesAreFilled /\ SentInOrder /\ StartedInOrder /\ StartSorted /\ QueueSorted
      /\ ServedWell /\ NoAbort /\ ExecutorTypeOK
  BY DEF ExecutorInv
<1> DEFINE e == current[t]
<1>1. /\ loopPc[t] = "done" /\ e = current[t]
      /\ eventState' = [eventState EXCEPT ![e] = "DONE"]
      /\ executing' = executing \ {e} /\ cancel' = cancel \ {e}
      /\ loopPc' = [loopPc EXCEPT ![t] = "loop"]
      /\ current' = [current EXCEPT ![t] = NoEvent]
      /\ UNCHANGED <<loopAlive, start, replies, waitingForCancel, node, result, resolved, freed,
                     queue, call, subject, outside, crashed>>
  BY DEF done, LoopGoto, SetState, Abort, eventVars, callVars
<1>2. /\ e \in Events /\ Target[e] = t /\ eventState[e] \notin {"UNUSED", "QUEUED"}
      /\ ~Contains(queue[t], e)
  <2>1. e \in Events /\ Target[e] = t
    BY <1>i, <1>1 DEF CurrentIsOwn, CurrentOwn, Busy
  <2>2. eventState[e] \notin {"UNUSED", "QUEUED"}
    BY <1>i, <1>1, <2>1 DEF StatesAgree, StateAgrees
  <2>3. ~Contains(queue[t], e)
    BY <1>i, <1>1, <2>1 DEF ListsAreOwn, ListOwn
  <2> QED BY <2>1, <2>2, <2>3
<1> HIDE DEF e
<1>3. /\ loopPc'[t] = "loop" /\ current'[t] = NoEvent
      /\ \A v \in Loops : v # t => loopPc'[v] = loopPc[v] /\ current'[v] = current[v]
  BY <1>i, <1>1 DEF ExecutorTypeOK
<1>7. call[t] = None /\ outside[t] = {}
  BY <1>i, <1>1 DEF CallsAreOwn, CallIsOwn, OutsideIsOwn, Outside
<1>4. eventState'[e] = "DONE" /\ \A x \in Events : x # e => eventState'[x] = eventState[x]
  BY <1>i, <1>1, <1>2 DEF ExecutorTypeOK
<1>5. \A x \in Events : Unsent(x)' <=> Unsent(x)
  BY <1>1, <1>2, <1>4 DEF Unsent
<1>6. \A x \in Events : eventState[x] = "DONE" => eventState'[x] = "DONE"
  BY <1>4
<1>11. ExecutorTypeOK'
  <2>1. loopPc' \in [Loops -> {"loop", "execute", "reply", "done", "exit", "exitDone", "unqueue", "exited"}]
    BY <1>i, <1>1 DEF ExecutorTypeOK
  <2>2. current' \in [Loops -> Events \cup {NoEvent}]
    BY <1>i, <1>1 DEF ExecutorTypeOK
  <2>3. eventState' \in [Events -> EventStates]
    BY <1>i, <1>1 DEF ExecutorTypeOK, EventStates
  <2> QED BY <1>i, <1>1, <2>1, <2>2, <2>3 DEF ExecutorTypeOK
<1>12. CallsAreOwn'
  <2> SUFFICES ASSUME NEW v \in Loops PROVE CallIsOwn(v)'
    BY DEF CallsAreOwn
  <2>1. CallIsOwn(v)
    BY <1>i DEF CallsAreOwn
  <2>2. CASE v = t
    BY <1>1, <1>7, <2>2 DEF CallIsOwn
  <2>3. CASE v # t
    BY <1>0, <1>1, <1>3, <1>5, <1>6, <2>1, <2>3 DEF CallIsOwn
  <2> QED BY <2>2, <2>3
<1>13. CurrentIsOwn'
  <2> SUFFICES ASSUME NEW v \in Loops PROVE CurrentOwn(v)'
    BY DEF CurrentIsOwn
  <2>1. CurrentOwn(v)
    BY <1>i DEF CurrentIsOwn
  <2>2. CASE v = t
    BY <1>0, <1>1, <1>3, <2>1, <2>2 DEF CurrentOwn, Busy, Exiting
  <2>3. CASE v # t
    BY <1>0, <1>1, <1>3, <2>1, <2>3 DEF CurrentOwn
  <2> QED BY <2>2, <2>3
<1>14. OutsideIsOwn'
  <2> SUFFICES ASSUME NEW v \in Loops PROVE Outside(v)'
    BY DEF OutsideIsOwn
  <2>1. Outside(v) /\ outside[v] \subseteq Events
    BY <1>i DEF OutsideIsOwn, ExecutorTypeOK
  <2>2. CASE v = t
    BY <1>1, <1>7, <2>2 DEF Outside
  <2>3. CASE v # t
    <3>1. \A x \in outside[v] : eventState'[x] = eventState[x] /\ x \notin cancel'
      BY <1>1, <1>2, <1>4, <2>1, <2>3 DEF Outside
    <3> QED BY <1>0, <1>1, <1>3, <2>1, <2>3, <3>1 DEF Outside
  <2> QED BY <2>2, <2>3
<1>15. ListsAreOwn'
  <2> SUFFICES ASSUME NEW v \in Loops PROVE ListOwn(v)'
    BY DEF ListsAreOwn
  <2>1. ListOwn(v)
    BY <1>i DEF ListsAreOwn
  <2>2. \A x \in Events : Contains(queue[v], x) /\ x = current'[v] => loopPc'[v] = "exitDone"
    BY <1>0, <1>1, <1>3, <2>1 DEF ListOwn
  <2>3. \A x \in Events : Contains(start[v], x) => x # e
    BY <1>2, <2>1 DEF ListOwn
  <2>4. \A x \in Events : eventState[x] \notin {"UNUSED", "QUEUED"} =>
                             eventState'[x] \notin {"UNUSED", "QUEUED"}
    BY <1>4
  <2> QED BY <1>0, <1>1, <1>4, <2>1, <2>2, <2>3, <2>4 DEF ListOwn
<1>16. StatesAgree'
  <2> SUFFICES ASSUME NEW x \in Events PROVE StateAgrees(x)'
    BY DEF StatesAgree
  <2>1. StateAgrees(x) /\ Target[x] \in Loops
    BY <1>0, <1>i DEF StatesAgree
  <2>2. CASE x = e
    <3>1. current'[t] # e /\ Target[x] = t
      BY <1>0, <1>2, <1>3, <2>2
    <3> QED BY <1>0, <1>1, <1>4, <2>1, <2>2, <3>1 DEF StateAgrees
  <2>3. CASE x # e /\ Target[x] = t
    <3>1. current'[t] # x
      BY <1>0, <1>3
    <3> QED BY <1>0, <1>1, <1>3, <1>4, <2>1, <2>3, <3>1 DEF StateAgrees
  <2>4. CASE x # e /\ Target[x] # t
    BY <1>0, <1>1, <1>3, <1>4, <2>1, <2>4 DEF StateAgrees
  <2> QED BY <2>2, <2>3, <2>4
<1>17. RepliesAreFilled'
  BY <1>0, <1>i, <1>1, <1>5 DEF RepliesAreFilled
<1>18. SentInOrder'
  BY <1>5, SentFrame
<1>19. StartedInOrder'
  <2>1. ASSUME NEW x \in Events, Started(x)' PROVE Started(x)
    <3>1. Target[x] \in Loops
      BY <1>0
    <3> QED BY <1>0, <1>1, <1>3, <2>1, <3>1 DEF Started, Armed
  <2>2. \A x \in Events : eventState'[x] = "QUEUED" => eventState[x] = "QUEUED"
    BY <1>4
  <2> QED BY <2>1, <2>2, NoneStarted
<1>20. StartSorted'
  BY <1>0, <1>i, <1>1 DEF StartSorted
<1>21. QueueSorted'
  BY <1>0, <1>i, <1>1 DEF QueueSorted
<1>22. ServedWell'
  <2> SUFFICES ASSUME NEW x \in Events, Serving(Target[x]) PROVE ServedEvent(x)'
    BY <1>0 DEF ServedWell, Serving
  <2>1. ServedEvent(x) /\ Target[x] \in Loops
    BY <1>0, <1>i DEF ServedWell
  <2>2. CASE x = e
    <3>1. node[e] = None /\ ~Armed(e) /\ current'[t] # e
      BY <1>0, <1>1, <1>2, <1>3, <2>1, <2>2 DEF ServedEvent, Armed
    <3> QED BY <1>0, <1>1, <1>2, <2>1, <2>2, <3>1 DEF ServedEvent, Armed
  <2>3. CASE x # e /\ Target[x] = t
    <3>1. current'[t] # x
      BY <1>0, <1>3
    <3> QED BY <1>0, <1>1, <1>4, <2>1, <2>3, <3>1 DEF ServedEvent, Armed
  <2>4. CASE x # e /\ Target[x] # t
    BY <1>0, <1>1, <1>3, <1>4, <2>1, <2>4 DEF ServedEvent, Armed
  <2> QED BY <2>2, <2>3, <2>4
<1>23. NoAbort'
  BY <1>0, <1>i, <1>1 DEF NoAbort, Serving
<1> QED BY <1>11, <1>12, <1>13, <1>14, <1>15, <1>16, <1>17, <1>18, <1>19, <1>20, <1>21, <1>22,
         <1>23 DEF ExecutorInv

(* An event that is done twice, or was freed, aborts the process. *)
LEMMA DoneAborts ==
  ASSUME ExecutorInv, NEW t \in Loops, done(t),
         ~(eventState[current[t]] \in {"EXECUTING", "CANCELING"} /\ ~freed[current[t]]), UNCHANGED route
  PROVE  ExecutorInv'
<1> USE DEF None, NoEvent
<1>0. /\ Requester' = Requester /\ Target' = Target /\ SyncEvents' = SyncEvents
      /\ Pollers' = Pollers
      /\ Requester \in [Events -> Loops] /\ Target \in [Events -> Loops]
      /\ \A x \in Events : x \in Nat /\ x # 0
  BY RouteKept
<1>i. /\ CallsAreOwn /\ CurrentIsOwn /\ OutsideIsOwn /\ ListsAreOwn /\ StatesAgree
      /\ RepliesAreFilled /\ SentInOrder /\ StartedInOrder /\ StartSorted /\ QueueSorted
      /\ ServedWell /\ NoAbort /\ ExecutorTypeOK
  BY DEF ExecutorInv
<1> DEFINE e == current[t]
<1>1. /\ loopPc[t] = "done" /\ e = current[t] /\ crashed' = TRUE
      /\ loopPc' = [loopPc EXCEPT ![t] = "loop"]
      /\ current' = [current EXCEPT ![t] = NoEvent]
      /\ UNCHANGED <<loopAlive, start, replies, waitingForCancel, node, result, resolved, freed,
                     queue, call, subject, outside,
                     eventState, executing, cancel>>
  BY DEF done, LoopGoto, SetState, Abort, eventVars, callVars
<1>2. /\ e \in Events /\ Target[e] = t /\ eventState[e] \notin {"UNUSED", "QUEUED"}
      /\ ~Contains(queue[t], e)
  <2>1. e \in Events /\ Target[e] = t
    BY <1>i, <1>1 DEF CurrentIsOwn, CurrentOwn, Busy
  <2>2. eventState[e] \notin {"UNUSED", "QUEUED"}
    BY <1>i, <1>1, <2>1 DEF StatesAgree, StateAgrees
  <2>3. ~Contains(queue[t], e)
    BY <1>i, <1>1, <2>1 DEF ListsAreOwn, ListOwn
  <2> QED BY <2>1, <2>2, <2>3
<1> HIDE DEF e
<1>3. /\ loopPc'[t] = "loop" /\ current'[t] = NoEvent
      /\ \A v \in Loops : v # t => loopPc'[v] = loopPc[v] /\ current'[v] = current[v]
  BY <1>i, <1>1 DEF ExecutorTypeOK
<1>7. call[t] = None /\ outside[t] = {}
  BY <1>i, <1>1 DEF CallsAreOwn, CallIsOwn, OutsideIsOwn, Outside
<1>5. \A x \in Events : Unsent(x)' <=> Unsent(x)
  BY <1>1 DEF Unsent
<1>11. ExecutorTypeOK'
  <2>1. loopPc' \in [Loops -> {"loop", "execute", "reply", "done", "exit", "exitDone", "unqueue", "exited"}]
    BY <1>i, <1>1 DEF ExecutorTypeOK
  <2>2. current' \in [Loops -> Events \cup {NoEvent}]
    BY <1>i, <1>1 DEF ExecutorTypeOK
  <2> QED BY <1>i, <1>1, <2>1, <2>2 DEF ExecutorTypeOK
<1>12. CallsAreOwn'
  <2> SUFFICES ASSUME NEW v \in Loops PROVE CallIsOwn(v)'
    BY DEF CallsAreOwn
  <2>1. CallIsOwn(v)
    BY <1>i DEF CallsAreOwn
  <2>2. CASE v = t
    BY <1>1, <1>7, <2>2 DEF CallIsOwn
  <2>3. CASE v # t
    BY <1>0, <1>1, <1>3, <1>5, <2>1, <2>3 DEF CallIsOwn
  <2> QED BY <2>2, <2>3
<1>13. CurrentIsOwn'
  <2> SUFFICES ASSUME NEW v \in Loops PROVE CurrentOwn(v)'
    BY DEF CurrentIsOwn
  <2>1. CurrentOwn(v)
    BY <1>i DEF CurrentIsOwn
  <2>2. CASE v = t
    BY <1>0, <1>1, <1>3, <2>1, <2>2 DEF CurrentOwn, Busy, Exiting
  <2>3. CASE v # t
    BY <1>0, <1>1, <1>3, <2>1, <2>3 DEF CurrentOwn
  <2> QED BY <2>2, <2>3
<1>14. OutsideIsOwn'
  <2> SUFFICES ASSUME NEW v \in Loops PROVE Outside(v)'
    BY DEF OutsideIsOwn
  <2>1. Outside(v) /\ outside[v] \subseteq Events
    BY <1>i DEF OutsideIsOwn, ExecutorTypeOK
  <2>2. CASE v = t
    BY <1>1, <1>7, <2>2 DEF Outside
  <2>3. CASE v # t
    BY <1>0, <1>1, <1>3, <2>1, <2>3 DEF Outside
  <2> QED BY <2>2, <2>3
<1>15. ListsAreOwn'
  <2> SUFFICES ASSUME NEW v \in Loops PROVE ListOwn(v)'
    BY DEF ListsAreOwn
  <2>1. ListOwn(v)
    BY <1>i DEF ListsAreOwn
  <2>2. \A x \in Events : Contains(queue[v], x) /\ x = current'[v] => loopPc'[v] = "exitDone"
    BY <1>0, <1>1, <1>3, <2>1 DEF ListOwn
  <2> QED BY <1>0, <1>1, <2>1, <2>2 DEF ListOwn
<1>16. StatesAgree'
  <2> SUFFICES ASSUME NEW x \in Events PROVE StateAgrees(x)'
    BY DEF StatesAgree
  <2>1. StateAgrees(x) /\ Target[x] \in Loops
    BY <1>0, <1>i DEF StatesAgree
  <2>2. CASE Target[x] = t
    <3>1. current'[t] # x
      BY <1>0, <1>3
    <3> QED BY <1>0, <1>1, <1>3, <2>1, <2>2, <3>1 DEF StateAgrees
  <2>3. CASE Target[x] # t
    BY <1>0, <1>1, <1>3, <2>1, <2>3 DEF StateAgrees
  <2> QED BY <2>2, <2>3
<1>17. RepliesAreFilled'
  BY <1>0, <1>i, <1>1, <1>5 DEF RepliesAreFilled
<1>18. SentInOrder'
  BY <1>5, SentFrame
<1>19. StartedInOrder'
  <2>1. ASSUME NEW x \in Events, Started(x)' PROVE Started(x)
    <3>1. Target[x] \in Loops
      BY <1>0
    <3> QED BY <1>0, <1>1, <1>3, <2>1, <3>1 DEF Started, Armed
  <2> QED BY <1>1, <2>1, NoneStarted
<1>20. StartSorted'
  BY <1>0, <1>i, <1>1 DEF StartSorted
<1>21. QueueSorted'
  BY <1>0, <1>i, <1>1 DEF QueueSorted
<1>22. ServedWell'
  <2> SUFFICES ASSUME NEW x \in Events, Serving(Target[x]) PROVE ServedEvent(x)'
    BY <1>0 DEF ServedWell, Serving
  <2>1. ServedEvent(x) /\ Target[x] \in Loops
    BY <1>0, <1>i DEF ServedWell
  <2>2. CASE Target[x] = t
    <3>1. current'[t] # x
      BY <1>0, <1>3
    <3> QED BY <1>0, <1>1, <2>1, <2>2, <3>1 DEF ServedEvent, Armed
  <2>3. CASE Target[x] # t
    BY <1>0, <1>1, <1>3, <2>1, <2>3 DEF ServedEvent, Armed
  <2> QED BY <2>2, <2>3
<1>23. NoAbort'
  <2>1. Serving(t) => eventState[e] \in Live
    BY <1>i, <1>1, <1>2 DEF ServedWell, ServedEvent
  <2>2. freed[e] => eventState[e] = "DONE"
    BY <1>i, <1>2 DEF StatesAgree, StateAgrees
  <2>3. ~Serving(t)
    BY <1>1, <2>1, <2>2 DEF Live
  <2> QED BY <1>0, <1>1, <1>2, <2>3 DEF NoAbort, Serving
<1> QED BY <1>11, <1>12, <1>13, <1>14, <1>15, <1>16, <1>17, <1>18, <1>19, <1>20, <1>21, <1>22,
         <1>23 DEF ExecutorInv

(* The requester drops the promise of an event that is DONE ... *)
LEMMA DropDone ==
  ASSUME ExecutorInv, NEW t \in Loops, NEW e \in Events, ensureDoneOrCanceled(t, e),
         eventState[e] = "DONE", UNCHANGED route
  PROVE  ExecutorInv'
<1> USE DEF None, NoEvent
<1>0. /\ Requester' = Requester /\ Target' = Target /\ SyncEvents' = SyncEvents
      /\ Pollers' = Pollers
      /\ Requester \in [Events -> Loops] /\ Target \in [Events -> Loops]
      /\ \A x \in Events : x \in Nat /\ x # 0
  BY RouteKept
<1>i. /\ CallsAreOwn /\ CurrentIsOwn /\ OutsideIsOwn /\ ListsAreOwn /\ StatesAgree
      /\ RepliesAreFilled /\ SentInOrder /\ StartedInOrder /\ StartSorted /\ QueueSorted
      /\ ServedWell /\ NoAbort /\ ExecutorTypeOK
  BY DEF ExecutorInv
<1>1. /\ loopPc[t] \in {"loop", "execute"} /\ call[t] = None /\ outside[t] = {}
      /\ Requester[e] = t /\ ~Unsent(e) /\ ~freed[e]
      /\ call' = [call EXCEPT ![t] = "unlink"] /\ subject' = [subject EXCEPT ![t] = e]
      /\ UNCHANGED <<loopAlive, start, executing, cancel, replies, waitingForCancel, eventState,
                     node, result, resolved, freed, queue, loopPc, current, outside, crashed>>
  BY DEF ensureDoneOrCanceled, InApplication, Within, eventVars, loopVars
<1>2. /\ call'[t] = "unlink" /\ subject'[t] = e
      /\ \A v \in Loops : v # t => call'[v] = call[v] /\ subject'[v] = subject[v]
  BY <1>i, <1>1 DEF ExecutorTypeOK
<1>3. \A x \in Events : Unsent(x)' <=> Unsent(x)
  BY <1>1 DEF Unsent
<1>11. ExecutorTypeOK'
  <2>1. call' \in [Loops -> Calls] /\ subject' \in [Loops -> Events \cup {NoEvent}]
    BY <1>i, <1>1 DEF ExecutorTypeOK, Calls
  <2> QED BY <1>i, <1>1, <2>1 DEF ExecutorTypeOK
<1>12. CallsAreOwn'
  <2> SUFFICES ASSUME NEW v \in Loops PROVE CallIsOwn(v)'
    BY DEF CallsAreOwn
  <2>1. CallIsOwn(v)
    BY <1>i DEF CallsAreOwn
  <2>2. CASE v = t
    BY <1>0, <1>1, <1>2, <2>2 DEF CallIsOwn
  <2>3. CASE v # t
    BY <1>0, <1>1, <1>2, <1>3, <2>1, <2>3 DEF CallIsOwn
  <2> QED BY <2>2, <2>3
<1>13. CurrentIsOwn'
  BY <1>0, <1>i, <1>1 DEF CurrentIsOwn, CurrentOwn
<1>14. OutsideIsOwn'
  BY <1>1, <1>2, OutsideFrame
<1>15. ListsAreOwn'
  BY <1>0, <1>i, <1>1 DEF ListsAreOwn, ListOwn
<1>16. StatesAgree'
  BY <1>0, <1>i, <1>1 DEF StatesAgree, StateAgrees
<1>17. RepliesAreFilled'
  BY <1>0, <1>i, <1>1, <1>3 DEF RepliesAreFilled
<1>18. SentInOrder'
  BY <1>3, SentFrame
<1>19. StartedInOrder'
  BY <1>1, StartedFrame
<1>20. StartSorted'
  BY <1>0, <1>i, <1>1 DEF StartSorted
<1>21. QueueSorted'
  BY <1>0, <1>i, <1>1 DEF QueueSorted
<1>22. ServedWell'
  BY <1>0, <1>i, <1>1 DEF ServedWell, ServedEvent, Serving, Armed
<1>23. NoAbort'
  BY <1>0, <1>i, <1>1 DEF NoAbort, Serving
<1> QED BY <1>11, <1>12, <1>13, <1>14, <1>15, <1>16, <1>17, <1>18, <1>19, <1>20, <1>21, <1>22,
         <1>23 DEF ExecutorInv

(* ... of one whose target has left ... *)
LEMMA DropOrphan ==
  ASSUME ExecutorInv, NEW t \in Loops, NEW e \in Events, ensureDoneOrCanceled(t, e),
         eventState[e] # "DONE", ~loopAlive[Target[e]], UNCHANGED route
  PROVE  ExecutorInv'
<1> USE DEF None, NoEvent
<1>0. /\ Requester' = Requester /\ Target' = Target /\ SyncEvents' = SyncEvents
      /\ Pollers' = Pollers
      /\ Requester \in [Events -> Loops] /\ Target \in [Events -> Loops]
      /\ \A x \in Events : x \in Nat /\ x # 0
  BY RouteKept
<1>i. /\ CallsAreOwn /\ CurrentIsOwn /\ OutsideIsOwn /\ ListsAreOwn /\ StatesAgree
      /\ RepliesAreFilled /\ SentInOrder /\ StartedInOrder /\ StartSorted /\ QueueSorted
      /\ ServedWell /\ NoAbort /\ ExecutorTypeOK
  BY DEF ExecutorInv
<1>1. /\ loopPc[t] \in {"loop", "execute"} /\ call[t] = None /\ outside[t] = {}
      /\ Requester[e] = t /\ ~Unsent(e) /\ ~freed[e]
      /\ call' = [call EXCEPT ![t] = "orphaned"] /\ subject' = [subject EXCEPT ![t] = e]
      /\ UNCHANGED <<loopAlive, start, executing, cancel, replies, waitingForCancel, eventState,
                     node, result, resolved, freed, queue, loopPc, current, outside, crashed>>
  BY DEF ensureDoneOrCanceled, InApplication, Within, eventVars, loopVars
<1>2. /\ call'[t] = "orphaned" /\ subject'[t] = e
      /\ \A v \in Loops : v # t => call'[v] = call[v] /\ subject'[v] = subject[v]
  BY <1>i, <1>1 DEF ExecutorTypeOK
<1>3. \A x \in Events : Unsent(x)' <=> Unsent(x)
  BY <1>1 DEF Unsent
<1>11. ExecutorTypeOK'
  <2>1. call' \in [Loops -> Calls] /\ subject' \in [Loops -> Events \cup {NoEvent}]
    BY <1>i, <1>1 DEF ExecutorTypeOK, Calls
  <2> QED BY <1>i, <1>1, <2>1 DEF ExecutorTypeOK
<1>12. CallsAreOwn'
  <2> SUFFICES ASSUME NEW v \in Loops PROVE CallIsOwn(v)'
    BY DEF CallsAreOwn
  <2>1. CallIsOwn(v)
    BY <1>i DEF CallsAreOwn
  <2>2. CASE v = t
    BY <1>0, <1>1, <1>2, <2>2 DEF CallIsOwn
  <2>3. CASE v # t
    BY <1>0, <1>1, <1>2, <1>3, <2>1, <2>3 DEF CallIsOwn
  <2> QED BY <2>2, <2>3
<1>13. CurrentIsOwn'
  BY <1>0, <1>i, <1>1 DEF CurrentIsOwn, CurrentOwn
<1>14. OutsideIsOwn'
  BY <1>1, <1>2, OutsideFrame
<1>15. ListsAreOwn'
  BY <1>0, <1>i, <1>1 DEF ListsAreOwn, ListOwn
<1>16. StatesAgree'
  BY <1>0, <1>i, <1>1 DEF StatesAgree, StateAgrees
<1>17. RepliesAreFilled'
  BY <1>0, <1>i, <1>1, <1>3 DEF RepliesAreFilled
<1>18. SentInOrder'
  BY <1>3, SentFrame
<1>19. StartedInOrder'
  BY <1>1, StartedFrame
<1>20. StartSorted'
  BY <1>0, <1>i, <1>1 DEF StartSorted
<1>21. QueueSorted'
  BY <1>0, <1>i, <1>1 DEF QueueSorted
<1>22. ServedWell'
  BY <1>0, <1>i, <1>1 DEF ServedWell, ServedEvent, Serving, Armed
<1>23. NoAbort'
  BY <1>0, <1>i, <1>1 DEF NoAbort, Serving
<1> QED BY <1>11, <1>12, <1>13, <1>14, <1>15, <1>16, <1>17, <1>18, <1>19, <1>20, <1>21, <1>22,
         <1>23 DEF ExecutorInv

(* ... of one that has not been started, which is taken back ... *)
LEMMA DropQueued ==
  ASSUME ExecutorInv, NEW t \in Loops, NEW e \in Events, ensureDoneOrCanceled(t, e),
         eventState[e] = "QUEUED", loopAlive[Target[e]], UNCHANGED route
  PROVE  ExecutorInv'
<1> USE DEF None, NoEvent
<1>0. /\ Requester' = Requester /\ Target' = Target /\ SyncEvents' = SyncEvents
      /\ Pollers' = Pollers
      /\ Requester \in [Events -> Loops] /\ Target \in [Events -> Loops]
      /\ \A x \in Events : x \in Nat /\ x # 0
  BY RouteKept
<1>i. /\ CallsAreOwn /\ CurrentIsOwn /\ OutsideIsOwn /\ ListsAreOwn /\ StatesAgree
      /\ RepliesAreFilled /\ SentInOrder /\ StartedInOrder /\ StartSorted /\ QueueSorted
      /\ ServedWell /\ NoAbort /\ ExecutorTypeOK
  BY DEF ExecutorInv
<1> DEFINE u == Target[e]
<1>a. PICK i \in 1..Len(start[u]) :
        start[u][i] = e /\ start' = [start EXCEPT ![u] = RemoveAt(start[u], i)]
  BY DEF ensureDoneOrCanceled
<1>1. /\ loopPc[t] \in {"loop", "execute"} /\ call[t] = None /\ outside[t] = {}
      /\ Requester[e] = t /\ ~Unsent(e) /\ ~freed[e]
      /\ call' = [call EXCEPT ![t] = "unlink"] /\ subject' = [subject EXCEPT ![t] = e]
      /\ eventState' = [eventState EXCEPT ![e] = "DONE"]
      /\ UNCHANGED <<loopAlive, executing, cancel, replies, waitingForCancel, node, result,
                     resolved, freed, queue, loopPc, current, outside, crashed>>
  BY DEF ensureDoneOrCanceled, InApplication, Within, SetState, eventVars, loopVars
<1>2. /\ call'[t] = "unlink" /\ subject'[t] = e
      /\ \A v \in Loops : v # t => call'[v] = call[v] /\ subject'[v] = subject[v]
  BY <1>i, <1>1 DEF ExecutorTypeOK
<1>3. /\ start'[u] \in Seq(Events) /\ Distinct(start'[u]) /\ Follows(start'[u], start[u])
      /\ \A x : Contains(start'[u], x) <=> Contains(start[u], x) /\ x # e
      /\ \A v \in Loops : v # u => start'[v] = start[v]
  <2>1. start[u] \in Seq(Events) /\ Distinct(start[u]) /\ u \in Loops
    BY <1>0, <1>i DEF ExecutorTypeOK, ListsAreOwn, ListOwn
  <2>2. start'[u] = RemoveAt(start[u], i) /\ \A v \in Loops : v # u => start'[v] = start[v]
    BY <1>i, <1>a, <2>1 DEF ExecutorTypeOK
  <2> QED BY <1>a, <2>1, <2>2, RemovedOne
<1> HIDE DEF u
<1>4. eventState'[e] = "DONE" /\ \A x \in Events : x # e => eventState'[x] = eventState[x]
  BY <1>i, <1>1 DEF ExecutorTypeOK
<1>5. \A x \in Events : Unsent(x)' <=> Unsent(x)
  BY <1>1, <1>4 DEF Unsent
<1>6. u \in Loops /\ Target[e] = u /\ loopPc[u] # "exitDone" /\ current[u] # e
  <2>1. u \in Loops /\ loopPc[u] # "exitDone"
    BY <1>0, <1>i DEF u, CurrentIsOwn, CurrentOwn, Exiting
  <2> QED BY <1>i, <2>1 DEF u, StatesAgree, StateAgrees
<1>7. node[e] = None /\ ~Contains(queue[u], e)
  BY <1>i, <1>6 DEF StatesAgree, StateAgrees, ListsAreOwn, ListOwn
<1>11. ExecutorTypeOK'
  <2>1. call' \in [Loops -> Calls] /\ subject' \in [Loops -> Events \cup {NoEvent}]
    BY <1>i, <1>1 DEF ExecutorTypeOK, Calls
  <2>2. eventState' \in [Events -> EventStates]
    BY <1>i, <1>1 DEF ExecutorTypeOK, EventStates
  <2>3. start' \in [Loops -> Seq(Events)]
    <3>1. RemoveAt(start[u], i) \in Seq(Events)
      BY <1>i, <1>a, <1>3, <1>6 DEF ExecutorTypeOK, u
    <3> QED BY <1>i, <1>a, <3>1 DEF ExecutorTypeOK, u
  <2> QED BY <1>i, <1>1, <2>1, <2>2, <2>3 DEF ExecutorTypeOK
<1>12. CallsAreOwn'
  <2> SUFFICES ASSUME NEW v \in Loops PROVE CallIsOwn(v)'
    BY DEF CallsAreOwn
  <2>1. CallIsOwn(v)
    BY <1>i DEF CallsAreOwn
  <2>2. CASE v = t
    BY <1>0, <1>1, <1>2, <1>4, <2>2 DEF CallIsOwn
  <2>3. CASE v # t
    <3>1. \A x \in Events : eventState[x] = "DONE" => eventState'[x] = "DONE"
      BY <1>4
    <3> QED BY <1>0, <1>1, <1>2, <1>5, <2>1, <2>3, <3>1 DEF CallIsOwn
  <2> QED BY <2>2, <2>3
<1>13. CurrentIsOwn'
  BY <1>0, <1>i, <1>1 DEF CurrentIsOwn, CurrentOwn
<1>14. OutsideIsOwn'
  <2> SUFFICES ASSUME NEW v \in Loops PROVE Outside(v)'
    BY DEF OutsideIsOwn
  <2>1. Outside(v) /\ outside[v] \subseteq Events
    BY <1>i DEF OutsideIsOwn, ExecutorTypeOK
  <2>2. CASE v = t
    BY <1>1, <2>2 DEF Outside
  <2>3. CASE v # t
    <3>1. \A x \in outside[v] : eventState'[x] = eventState[x]
      BY <1>4, <2>1 DEF Outside
    <3> QED BY <1>0, <1>1, <1>2, <2>1, <2>3, <3>1 DEF Outside
  <2> QED BY <2>2, <2>3
<1>15. ListsAreOwn'
  <2> SUFFICES ASSUME NEW v \in Loops PROVE ListOwn(v)'
    BY DEF ListsAreOwn
  <2>1. ListOwn(v)
    BY <1>i DEF ListsAreOwn
  <2>2. \A x \in Events : eventState[x] \notin {"UNUSED", "QUEUED"} =>
                             eventState'[x] \notin {"UNUSED", "QUEUED"}
    BY <1>4
  <2>3. /\ Distinct(start'[v])
        /\ \A x \in Events : Contains(start'[v], x) => Target[x] = v /\ eventState'[x] = "QUEUED"
    <3>1. CASE v = u
      BY <1>3, <1>4, <2>1, <3>1 DEF ListOwn
    <3>2. CASE v # u
      BY <1>3, <1>4, <1>6, <2>1, <3>2 DEF ListOwn
    <3> QED BY <3>1, <3>2
  <2> QED BY <1>0, <1>1, <2>1, <2>2, <2>3 DEF ListOwn
<1>16. StatesAgree'
  <2> SUFFICES ASSUME NEW x \in Events PROVE StateAgrees(x)'
    BY DEF StatesAgree
  <2>1. StateAgrees(x) /\ Target[x] \in Loops
    BY <1>0, <1>i DEF StatesAgree
  <2>2. CASE x = e
    BY <1>0, <1>1, <1>4, <1>6, <2>1, <2>2 DEF StateAgrees
  <2>3. CASE x # e
    <3>1. Contains(start'[Target[x]], x) <=> Contains(start[Target[x]], x)
      BY <1>3, <2>1, <2>3
    <3> QED BY <1>0, <1>1, <1>4, <2>1, <2>3, <3>1 DEF StateAgrees
  <2> QED BY <2>2, <2>3
<1>17. RepliesAreFilled'
  BY <1>0, <1>i, <1>1, <1>5 DEF RepliesAreFilled
<1>18. SentInOrder'
  BY <1>5, SentFrame
<1>19. StartedInOrder'
  <2>1. \A x \in Events : Started(x)' => Started(x)
    BY <1>0, <1>1 DEF Started, Armed
  <2>2. \A x \in Events : eventState'[x] = "QUEUED" => eventState[x] = "QUEUED"
    BY <1>4
  <2> QED BY <2>1, <2>2, NoneStarted
<1>20. StartSorted'
  <2>1. \A v \in Loops : Follows(start'[v], start[v])
    BY <1>3, FollowsSelf
  <2> QED BY <2>1, StartShrinks
<1>21. QueueSorted'
  BY <1>0, <1>i, <1>1 DEF QueueSorted
<1>22. ServedWell'
  <2> SUFFICES ASSUME NEW x \in Events, Serving(Target[x]) PROVE ServedEvent(x)'
    BY <1>0 DEF ServedWell, Serving
  <2>1. ServedEvent(x) /\ Target[x] \in Loops
    BY <1>0, <1>i DEF ServedWell
  <2>2. CASE x = e
    BY <1>0, <1>1, <1>6, <1>7, <2>1, <2>2 DEF ServedEvent, Armed
  <2>3. CASE x # e
    BY <1>0, <1>1, <1>4, <2>1, <2>3 DEF ServedEvent, Armed
  <2> QED BY <2>2, <2>3
<1>23. NoAbort'
  BY <1>0, <1>i, <1>1 DEF NoAbort, Serving
<1> QED BY <1>11, <1>12, <1>13, <1>14, <1>15, <1>16, <1>17, <1>18, <1>19, <1>20, <1>21, <1>22,
         <1>23 DEF ExecutorInv

(* ... and of one that has, whose cancellation is requested. *)
LEMMA DropExecuting ==
  ASSUME ExecutorInv, NEW t \in Loops, NEW e \in Events, ensureDoneOrCanceled(t, e),
         eventState[e] = "EXECUTING", loopAlive[Target[e]], UNCHANGED route
  PROVE  ExecutorInv'
<1> USE DEF None, NoEvent
<1>0. /\ Requester' = Requester /\ Target' = Target /\ SyncEvents' = SyncEvents
      /\ Pollers' = Pollers
      /\ Requester \in [Events -> Loops] /\ Target \in [Events -> Loops]
      /\ \A x \in Events : x \in Nat /\ x # 0
  BY RouteKept
<1>i. /\ CallsAreOwn /\ CurrentIsOwn /\ OutsideIsOwn /\ ListsAreOwn /\ StatesAgree
      /\ RepliesAreFilled /\ SentInOrder /\ StartedInOrder /\ StartSorted /\ QueueSorted
      /\ ServedWell /\ NoAbort /\ ExecutorTypeOK
  BY DEF ExecutorInv
<1>1. /\ loopPc[t] \in {"loop", "execute"} /\ call[t] = None /\ outside[t] = {}
      /\ Requester[e] = t /\ ~Unsent(e) /\ ~freed[e]
      /\ call' = [call EXCEPT ![t] = "declare"] /\ subject' = [subject EXCEPT ![t] = e]
      /\ eventState' = [eventState EXCEPT ![e] = "CANCELING"]
      /\ executing' = executing \ {e} /\ cancel' = cancel \cup {e}
      /\ UNCHANGED <<loopAlive, start, replies, waitingForCancel, node, result,
                     resolved, freed, queue, loopPc, current, outside, crashed>>
  BY DEF ensureDoneOrCanceled, InApplication, Within, SetState, eventVars, loopVars
<1>2. /\ call'[t] = "declare" /\ subject'[t] = e
      /\ \A v \in Loops : v # t => call'[v] = call[v] /\ subject'[v] = subject[v]
  BY <1>i, <1>1 DEF ExecutorTypeOK
<1>4. eventState'[e] = "CANCELING" /\ \A x \in Events : x # e => eventState'[x] = eventState[x]
  BY <1>i, <1>1 DEF ExecutorTypeOK
<1>5. \A x \in Events : Unsent(x)' <=> Unsent(x)
  BY <1>1, <1>4 DEF Unsent
<1>6. loopPc[Target[e]] # "exitDone"
  BY <1>0, <1>i DEF CurrentIsOwn, CurrentOwn, Exiting
<1>11. ExecutorTypeOK'
  <2>1. call' \in [Loops -> Calls] /\ subject' \in [Loops -> Events \cup {NoEvent}]
    BY <1>i, <1>1 DEF ExecutorTypeOK, Calls
  <2>2. eventState' \in [Events -> EventStates]
    BY <1>i, <1>1 DEF ExecutorTypeOK, EventStates
  <2> QED BY <1>i, <1>1, <2>1, <2>2 DEF ExecutorTypeOK
<1>12. CallsAreOwn'
  <2> SUFFICES ASSUME NEW v \in Loops PROVE CallIsOwn(v)'
    BY DEF CallsAreOwn
  <2>1. CallIsOwn(v)
    BY <1>i DEF CallsAreOwn
  <2>2. CASE v = t
    BY <1>0, <1>1, <1>2, <1>4, <2>2 DEF CallIsOwn
  <2>3. CASE v # t
    <3>1. \A x \in Events : eventState[x] = "DONE" => eventState'[x] = "DONE"
      BY <1>4
    <3> QED BY <1>0, <1>1, <1>2, <1>5, <2>1, <2>3, <3>1 DEF CallIsOwn
  <2> QED BY <2>2, <2>3
<1>13. CurrentIsOwn'
  BY <1>0, <1>i, <1>1 DEF CurrentIsOwn, CurrentOwn
<1>14. OutsideIsOwn'
  <2> SUFFICES ASSUME NEW v \in Loops PROVE Outside(v)'
    BY DEF OutsideIsOwn
  <2>1. Outside(v) /\ outside[v] \subseteq Events
    BY <1>i DEF OutsideIsOwn, ExecutorTypeOK
  <2>2. CASE v = t
    BY <1>1, <2>2 DEF Outside
  <2>3. CASE v # t
    <3>1. \A x \in outside[v] : eventState'[x] = eventState[x] /\ x # e
      BY <1>4, <2>1 DEF Outside
    <3> QED BY <1>0, <1>1, <1>2, <2>1, <2>3, <3>1 DEF Outside
  <2> QED BY <2>2, <2>3
<1>15. ListsAreOwn'
  <2> SUFFICES ASSUME NEW v \in Loops PROVE ListOwn(v)'
    BY DEF ListsAreOwn
  <2>1. ListOwn(v)
    BY <1>i DEF ListsAreOwn
  <2>2. \A x \in Events : eventState[x] \notin {"UNUSED", "QUEUED"} =>
                             eventState'[x] \notin {"UNUSED", "QUEUED"}
    BY <1>4
  <2>3. \A x \in Events : eventState[x] = "QUEUED" => eventState'[x] = "QUEUED"
    BY <1>4
  <2> QED BY <1>0, <1>1, <2>1, <2>2, <2>3 DEF ListOwn
<1>16. StatesAgree'
  <2> SUFFICES ASSUME NEW x \in Events PROVE StateAgrees(x)'
    BY DEF StatesAgree
  <2>1. StateAgrees(x) /\ Target[x] \in Loops
    BY <1>0, <1>i DEF StatesAgree
  <2>2. CASE x = e
    BY <1>0, <1>1, <1>4, <1>6, <2>1, <2>2 DEF StateAgrees
  <2>3. CASE x # e
    BY <1>0, <1>1, <1>4, <2>1, <2>3 DEF StateAgrees
  <2> QED BY <2>2, <2>3
<1>17. RepliesAreFilled'
  BY <1>0, <1>i, <1>1, <1>5 DEF RepliesAreFilled
<1>18. SentInOrder'
  BY <1>5, SentFrame
<1>19. StartedInOrder'
  <2>1. \A x \in Events : Started(x)' => Started(x)
    BY <1>0, <1>1 DEF Started, Armed
  <2>2. \A x \in Events : eventState'[x] = "QUEUED" => eventState[x] = "QUEUED"
    BY <1>4
  <2> QED BY <2>1, <2>2, NoneStarted
<1>20. StartSorted'
  BY <1>0, <1>i, <1>1 DEF StartSorted
<1>21. QueueSorted'
  BY <1>0, <1>i, <1>1 DEF QueueSorted
<1>22. ServedWell'
  <2> SUFFICES ASSUME NEW x \in Events, Serving(Target[x]) PROVE ServedEvent(x)'
    BY <1>0 DEF ServedWell, Serving
  <2>1. ServedEvent(x) /\ Target[x] \in Loops
    BY <1>0, <1>i DEF ServedWell
  <2>2. CASE x = e
    BY <1>0, <1>1, <1>4, <2>1, <2>2 DEF ServedEvent, Armed, Live
  <2>3. CASE x # e
    BY <1>0, <1>1, <1>4, <2>1, <2>3 DEF ServedEvent, Armed
  <2> QED BY <2>2, <2>3
<1>23. NoAbort'
  BY <1>0, <1>i, <1>1 DEF NoAbort, Serving
<1> QED BY <1>11, <1>12, <1>13, <1>14, <1>15, <1>16, <1>17, <1>18, <1>19, <1>20, <1>21, <1>22,
         <1>23 DEF ExecutorInv

(* The requester drops its promise. *)
LEMMA DropKeeps ==
  ASSUME ExecutorInv, NEW t \in Loops, NEW e \in Events, ensureDoneOrCanceled(t, e), UNCHANGED route
  PROVE  ExecutorInv'
<1>1. \/ eventState[e] = "DONE"
      \/ eventState[e] # "DONE" /\ ~loopAlive[Target[e]]
      \/ eventState[e] = "QUEUED" /\ loopAlive[Target[e]]
      \/ eventState[e] = "EXECUTING" /\ loopAlive[Target[e]]
  BY DEF ensureDoneOrCanceled
<1> QED BY <1>1, DropDone, DropOrphan, DropQueued, DropExecuting

(* A thread that waits for a cancellation lets go of what others cancelled. *)
LEMMA DeclareKeeps ==
  ASSUME ExecutorInv, NEW t \in Loops, Declare(t), UNCHANGED route
  PROVE  ExecutorInv'
<1> USE DEF None, NoEvent
<1>0. /\ Requester' = Requester /\ Target' = Target /\ SyncEvents' = SyncEvents
      /\ Pollers' = Pollers
      /\ Requester \in [Events -> Loops] /\ Target \in [Events -> Loops]
      /\ \A x \in Events : x \in Nat /\ x # 0
  BY RouteKept
<1>i. /\ CallsAreOwn /\ CurrentIsOwn /\ OutsideIsOwn /\ ListsAreOwn /\ StatesAgree
      /\ RepliesAreFilled /\ SentInOrder /\ StartedInOrder /\ StartSorted /\ QueueSorted
      /\ ServedWell /\ NoAbort /\ ExecutorTypeOK
  BY DEF ExecutorInv
<1> DEFINE c == IF call[t] = "declare" THEN "await" ELSE "unlink"
           w == call[t] = "declare"
           cancelled == {x \in cancel : Target[x] = t}
           spared == {x \in cancelled : node[x] # None}
<1>1. /\ outside[t] = {} /\ call[t] \in {"declare", "retract"}
      /\ call' = [call EXCEPT ![t] = c]
      /\ waitingForCancel' = [waitingForCancel EXCEPT ![t] = w]
      /\ eventState' = [x \in Events |->
                           IF x \in cancelled /\ node[x] = None THEN "DONE" ELSE eventState[x]]
      /\ cancel' = cancel \ cancelled
      /\ outside' = [outside EXCEPT ![t] = spared]
      /\ UNCHANGED <<loopAlive, start, executing, replies, node, result, resolved, freed, queue,
                     loopPc, current, subject, crashed>>
  <2>1. Cancels(t) = cancelled /\ Finished(t) = {x \in cancelled : node[x] = None}
    BY DEF Cancels, Finished
  <2>2. cancelled \ {x \in cancelled : node[x] = None} = spared
    OBVIOUS
  <2>3. /\ outside[t] = {} /\ call[t] \in {"declare", "retract"}
        /\ call' = [call EXCEPT ![t] = c]
        /\ waitingForCancel' = [waitingForCancel EXCEPT ![t] = w]
        /\ eventState' = [x \in Events |-> StateAfterCancels(t, x)]
        /\ dispatchCancels(t)
        /\ UNCHANGED <<loopAlive, start, executing, replies, node, result, resolved, freed, queue,
                       loopPc, current, subject, crashed>>
    BY DEF Declare, Within, eventVars, loopVars
  <2>4. cancel' = cancel \ cancelled /\ outside' = [outside EXCEPT ![t] = spared]
    BY <2>1, <2>2, <2>3 DEF dispatchCancels
  <2>5. \A x \in Events : StateAfterCancels(t, x) =
          IF x \in cancelled /\ node[x] = None THEN "DONE" ELSE eventState[x]
    BY <2>1 DEF StateAfterCancels
  <2> HIDE DEF cancelled, spared, c, w
  <2> QED BY <2>3, <2>4, <2>5
<1>2. /\ \A x \in Events : x \in cancelled <=> x \in cancel /\ Target[x] = t
      /\ cancelled \subseteq Events /\ spared \subseteq Events
      /\ \A x \in spared : x \in cancelled /\ node[x] # None
  BY <1>i DEF ExecutorTypeOK
<1>3. /\ c \in {"await", "unlink"} /\ (call[t] = "declare" => c = "await")
      /\ (call[t] = "retract" => c = "unlink") /\ w \in BOOLEAN
  OBVIOUS
<1> HIDE DEF cancelled, spared, c, w
<1>4. \A x \in Events : x \in cancelled => eventState[x] = "CANCELING" /\ Target[x] = t
  BY <1>i, <1>2 DEF StatesAgree, StateAgrees
<1>5. \A x \in Events :
        /\ x \in cancelled /\ node[x] = None => eventState'[x] = "DONE"
        /\ ~(x \in cancelled /\ node[x] = None) => eventState'[x] = eventState[x]
  BY <1>1
<1>6. \A x \in Events : Unsent(x)' <=> Unsent(x)
  BY <1>1, <1>4, <1>5 DEF Unsent
<1>7. /\ call'[t] = c /\ outside'[t] = spared
      /\ \A v \in Loops : v # t => call'[v] = call[v] /\ outside'[v] = outside[v]
  BY <1>i, <1>1 DEF ExecutorTypeOK
<1>8. \A x \in Events : eventState[x] = "DONE" => eventState'[x] = "DONE"
  BY <1>4, <1>5
<1>11. ExecutorTypeOK'
  <2>1. eventState' \in [Events -> EventStates]
    <3>1. \A x \in Events : eventState[x] \in EventStates
      BY <1>i DEF ExecutorTypeOK
    <3> QED BY <1>1, <3>1 DEF EventStates
  <2>2. call' \in [Loops -> Calls] /\ waitingForCancel' \in [Loops -> BOOLEAN]
    BY <1>i, <1>1, <1>3 DEF ExecutorTypeOK, Calls
  <2>3. outside' \in [Loops -> SUBSET Events]
    BY <1>i, <1>1, <1>2 DEF ExecutorTypeOK
  <2> QED BY <1>i, <1>1, <2>1, <2>2, <2>3 DEF ExecutorTypeOK
<1>12. CallsAreOwn'
  <2> SUFFICES ASSUME NEW v \in Loops PROVE CallIsOwn(v)'
    BY DEF CallsAreOwn
  <2>1. CallIsOwn(v)
    BY <1>i DEF CallsAreOwn
  <2>2. CASE v = t
    <3>1. /\ subject[t] \in Events /\ Requester[subject[t]] = t /\ loopPc[t] \in {"loop", "execute"}
          /\ call[t] = "retract" => eventState'[subject[t]] = "DONE"
      BY <1>1, <1>8, <2>1, <2>2 DEF CallIsOwn
    <3> QED BY <1>0, <1>1, <1>3, <1>7, <2>2, <3>1 DEF CallIsOwn
  <2>3. CASE v # t
    BY <1>0, <1>1, <1>6, <1>7, <1>8, <2>1, <2>3 DEF CallIsOwn
  <2> QED BY <2>2, <2>3
<1>13. CurrentIsOwn'
  BY <1>0, <1>i, <1>1 DEF CurrentIsOwn, CurrentOwn
<1>14. OutsideIsOwn'
  <2> SUFFICES ASSUME NEW v \in Loops PROVE Outside(v)'
    BY DEF OutsideIsOwn
  <2>1. Outside(v) /\ outside[v] \subseteq Events
    BY <1>i DEF OutsideIsOwn, ExecutorTypeOK
  <2>2. CASE v = t
    <3>1. \A x \in spared : /\ x \in Events /\ Target[x] = t /\ eventState'[x] = "CANCELING"
                            /\ x \notin cancel' /\ node'[x] # None
      BY <1>1, <1>2, <1>4, <1>5
    <3> QED BY <1>0, <1>3, <1>7, <2>2, <3>1 DEF Outside
  <2>3. CASE v # t
    <3>1. \A x \in outside[v] : eventState'[x] = eventState[x] /\ Target[x] = v /\ x \notin cancel'
      BY <1>1, <1>4, <1>5, <2>1, <2>3 DEF Outside
    <3> QED BY <1>0, <1>1, <1>7, <2>1, <2>3, <3>1 DEF Outside
  <2> QED BY <2>2, <2>3
<1>15. ListsAreOwn'
  <2> SUFFICES ASSUME NEW v \in Loops PROVE ListOwn(v)'
    BY DEF ListsAreOwn
  <2>1. ListOwn(v)
    BY <1>i DEF ListsAreOwn
  <2>2. \A x \in Events : /\ eventState[x] = "QUEUED" => eventState'[x] = "QUEUED"
                          /\ eventState[x] \notin {"UNUSED", "QUEUED"} =>
                               eventState'[x] \notin {"UNUSED", "QUEUED"}
    BY <1>4, <1>5
  <2> QED BY <1>0, <1>1, <2>1, <2>2 DEF ListOwn
<1>16. StatesAgree'
  <2> SUFFICES ASSUME NEW x \in Events PROVE StateAgrees(x)'
    BY DEF StatesAgree
  <2>1. StateAgrees(x) /\ Target[x] \in Loops
    BY <1>0, <1>i DEF StatesAgree
  <2>2. CASE x \in cancelled /\ node[x] = None
    BY <1>0, <1>1, <1>2, <1>4, <1>5, <2>1, <2>2 DEF StateAgrees
  <2>3. CASE ~(x \in cancelled /\ node[x] = None)
    BY <1>0, <1>1, <1>5, <2>1, <2>3 DEF StateAgrees
  <2> QED BY <2>2, <2>3
<1>17. RepliesAreFilled'
  BY <1>0, <1>i, <1>1, <1>6 DEF RepliesAreFilled
<1>18. SentInOrder'
  BY <1>6, SentFrame
<1>19. StartedInOrder'
  <2>1. \A x \in Events : Started(x)' => Started(x)
    BY <1>0, <1>1 DEF Started, Armed
  <2>2. \A x \in Events : eventState'[x] = "QUEUED" => eventState[x] = "QUEUED"
    BY <1>5
  <2> QED BY <2>1, <2>2, NoneStarted
<1>20. StartSorted'
  BY <1>0, <1>i, <1>1 DEF StartSorted
<1>21. QueueSorted'
  BY <1>0, <1>i, <1>1 DEF QueueSorted
<1>22. ServedWell'
  <2> SUFFICES ASSUME NEW x \in Events, Serving(Target[x]) PROVE ServedEvent(x)'
    BY <1>0 DEF ServedWell, Serving
  <2>1. ServedEvent(x) /\ Target[x] \in Loops
    BY <1>0, <1>i DEF ServedWell
  <2>2. Target[x] # t
    BY <1>1, <2>1, ServingIsIdle
  <2>3. eventState'[x] = eventState[x]
    BY <1>4, <1>5, <2>2
  <2> QED BY <1>0, <1>1, <2>1, <2>3 DEF ServedEvent, Armed
<1>23. NoAbort'
  BY <1>0, <1>i, <1>1 DEF NoAbort, Serving
<1> QED BY <1>11, <1>12, <1>13, <1>14, <1>15, <1>16, <1>17, <1>18, <1>19, <1>20, <1>21, <1>22,
         <1>23 DEF ExecutorInv

(* A loop that is destroyed answers an event that was sent to it. *)
LEMMA DisconnectKeeps ==
  ASSUME ExecutorInv, NEW t \in Loops, disconnect(t), UNCHANGED route
  PROVE  ExecutorInv'
<1> USE DEF None, NoEvent
<1>0. /\ Requester' = Requester /\ Target' = Target /\ SyncEvents' = SyncEvents
      /\ Pollers' = Pollers
      /\ Requester \in [Events -> Loops] /\ Target \in [Events -> Loops]
      /\ \A x \in Events : x \in Nat /\ x # 0
  BY RouteKept
<1>i. /\ CallsAreOwn /\ CurrentIsOwn /\ OutsideIsOwn /\ ListsAreOwn /\ StatesAgree
      /\ RepliesAreFilled /\ SentInOrder /\ StartedInOrder /\ StartSorted /\ QueueSorted
      /\ ServedWell /\ NoAbort /\ ExecutorTypeOK
  BY DEF ExecutorInv
<1>a. PICK e \in Events :
        /\ \/ /\ start[t] # <<>> /\ e = Head(start[t])
              /\ start' = [start EXCEPT ![t] = Tail(start[t])]
              /\ UNCHANGED executing
           \/ /\ start[t] = <<>> /\ e \in executing /\ Target[e] = t
              /\ executing' = executing \ {e}
              /\ UNCHANGED start
        /\ node' = [node EXCEPT ![e] = None]
        /\ result' = [result EXCEPT ![e] = "disconnected"]
        /\ sendReply(e)
        /\ current' = [current EXCEPT ![t] = e]
  BY DEF disconnect
<1>1. /\ loopPc[t] = "exit" /\ loopPc' = [loopPc EXCEPT ![t] = "exitDone"]
      /\ UNCHANGED <<loopAlive, cancel, waitingForCancel, eventState, resolved, freed, queue, call,
                     subject, outside>>
  BY DEF disconnect, LoopGoto, callVars
<1>2. start[t] \in Seq(Events) /\ Distinct(start[t])
  BY <1>i DEF ExecutorTypeOK, ListsAreOwn, ListOwn
<1>3. /\ Target[e] = t /\ eventState[e] \in {"QUEUED", "EXECUTING"}
      /\ start'[t] \in Seq(Events) /\ Distinct(start'[t]) /\ Follows(start'[t], start[t])
      /\ \A x \in Events : Contains(start'[t], x) <=> Contains(start[t], x) /\ x # e
      /\ \A v \in Loops : v # t => start'[v] = start[v]
      /\ start' \in [Loops -> Seq(Events)]
      /\ executing' \subseteq executing /\ e \notin executing'
  <2>1. CASE /\ start[t] # <<>> /\ e = Head(start[t])
             /\ start' = [start EXCEPT ![t] = Tail(start[t])]
             /\ UNCHANGED executing
    <3>1. /\ Tail(start[t]) \in Seq(Events) /\ Distinct(Tail(start[t])) /\ Contains(start[t], e)
          /\ \A x : Contains(Tail(start[t]), x) <=> Contains(start[t], x) /\ x # e
          /\ Follows(Tail(start[t]), start[t])
      BY <1>2, <2>1, TailList
    <3>2. Target[e] = t /\ eventState[e] = "QUEUED"
      BY <1>i, <3>1 DEF ListsAreOwn, ListOwn
    <3>3. e \notin executing
      BY <1>i, <3>2 DEF StatesAgree, StateAgrees
    <3>4. /\ start'[t] = Tail(start[t]) /\ \A v \in Loops : v # t => start'[v] = start[v]
          /\ start' \in [Loops -> Seq(Events)]
      BY <1>i, <2>1, <3>1 DEF ExecutorTypeOK
    <3> QED BY <2>1, <3>1, <3>2, <3>3, <3>4
  <2>2. CASE /\ start[t] = <<>> /\ e \in executing /\ Target[e] = t
             /\ executing' = executing \ {e}
             /\ UNCHANGED start
    <3>1. eventState[e] = "EXECUTING"
      BY <1>i, <2>2 DEF StatesAgree, StateAgrees
    <3>2. \A x : ~Contains(<<>>, x)
      BY DEF Contains
    <3>3. start \in [Loops -> Seq(Events)] /\ Follows(start[t], start[t])
      BY <1>i, FollowsSelf DEF ExecutorTypeOK
    <3> QED BY <1>2, <2>2, <3>1, <3>2, <3>3
  <2> QED BY <1>a, <2>1, <2>2
<1>4. /\ node'[e] = None /\ result'[e] = "disconnected" /\ current'[t] = e /\ loopPc'[t] = "exitDone"
      /\ \A v \in Loops : v # t => loopPc'[v] = loopPc[v] /\ current'[v] = current[v]
      /\ \A x \in Events : x # e => node'[x] = node[x] /\ result'[x] = result[x]
  BY <1>i, <1>a, <1>1 DEF ExecutorTypeOK
<1>5. replies' \subseteq replies \cup {e} /\ crashed' \in BOOLEAN
  BY <1>i, <1>a DEF sendReply, Abort, ExecutorTypeOK
<1>6. \A x \in Events : Unsent(x)' <=> Unsent(x)
  BY <1>1, <1>3, <1>4 DEF Unsent
<1>7. /\ call[t] = None /\ outside[t] = {} /\ ~loopAlive[t] /\ e \notin cancel
      /\ \A x : ~Contains(<<>>, x)
  <2>1. call[t] = None /\ outside[t] = {}
    BY <1>i, <1>1 DEF CallsAreOwn, CallIsOwn, OutsideIsOwn, Outside
  <2>2. ~loopAlive[t]
    BY <1>i, <1>1 DEF CurrentIsOwn, CurrentOwn, Exiting
  <2>3. e \notin cancel
    BY <1>i, <1>3 DEF StatesAgree, StateAgrees
  <2> QED BY <2>1, <2>2, <2>3 DEF Contains
<1>11. ExecutorTypeOK'
  <2>1. loopPc' \in [Loops -> {"loop", "execute", "reply", "done", "exit", "exitDone", "unqueue", "exited"}]
    BY <1>i, <1>1 DEF ExecutorTypeOK
  <2>2. /\ current' \in [Loops -> Events \cup {NoEvent}]
        /\ node' \in [Events -> {None, "pending", "ready"}]
        /\ result' \in [Events -> {None, "value", "disconnected"}]
    BY <1>i, <1>a DEF ExecutorTypeOK
  <2>3. replies' \subseteq Events /\ executing' \subseteq Events
    BY <1>i, <1>3, <1>5 DEF ExecutorTypeOK
  <2> QED BY <1>i, <1>1, <1>3, <1>5, <2>1, <2>2, <2>3 DEF ExecutorTypeOK
<1>12. CallsAreOwn'
  <2> SUFFICES ASSUME NEW v \in Loops PROVE CallIsOwn(v)'
    BY DEF CallsAreOwn
  <2>1. CallIsOwn(v)
    BY <1>i DEF CallsAreOwn
  <2>2. CASE v = t
    BY <1>1, <1>7, <2>2 DEF CallIsOwn
  <2>3. CASE v # t
    BY <1>0, <1>1, <1>4, <1>6, <2>1, <2>3 DEF CallIsOwn
  <2> QED BY <2>2, <2>3
<1>13. CurrentIsOwn'
  <2> SUFFICES ASSUME NEW v \in Loops PROVE CurrentOwn(v)'
    BY DEF CurrentIsOwn
  <2>1. CurrentOwn(v)
    BY <1>i DEF CurrentIsOwn
  <2>2. CASE v = t
    BY <1>0, <1>1, <1>3, <1>4, <1>7, <2>1, <2>2 DEF CurrentOwn, Busy, Exiting
  <2>3. CASE v # t
    <3>1. loopPc[v] = "reply" => result'[current[v]] = result[current[v]]
      BY <1>3, <1>4, <2>1, <2>3 DEF CurrentOwn, Busy
    <3> QED BY <1>0, <1>1, <1>4, <2>1, <2>3, <3>1 DEF CurrentOwn
  <2> QED BY <2>2, <2>3
<1>14. OutsideIsOwn'
  <2> SUFFICES ASSUME NEW v \in Loops PROVE Outside(v)'
    BY DEF OutsideIsOwn
  <2>1. Outside(v) /\ outside[v] \subseteq Events
    BY <1>i DEF OutsideIsOwn, ExecutorTypeOK
  <2>2. CASE v = t
    BY <1>1, <1>7, <2>2 DEF Outside
  <2>3. CASE v # t
    <3>1. \A x \in outside[v] : node'[x] = node[x]
      BY <1>3, <1>4, <2>1, <2>3 DEF Outside
    <3> QED BY <1>0, <1>1, <1>4, <2>1, <2>3, <3>1 DEF Outside
  <2> QED BY <2>2, <2>3
<1>15. ListsAreOwn'
  <2> SUFFICES ASSUME NEW v \in Loops PROVE ListOwn(v)'
    BY DEF ListsAreOwn
  <2>1. ListOwn(v)
    BY <1>i DEF ListsAreOwn
  <2>2. CASE v = t
    <3>1. \A x \in Events : node[x] # "pending" => node'[x] # "pending"
      BY <1>4
    <3>2. Distinct(start'[t]) /\ Distinct(queue'[t])
      BY <1>1, <1>3, <2>1, <2>2 DEF ListOwn
    <3>3. \A x \in Events : Contains(start'[t], x) => Target[x] = t /\ eventState'[x] = "QUEUED"
      BY <1>1, <1>3, <2>1, <2>2 DEF ListOwn
    <3>4. \A x \in Events : Contains(queue'[t], x) =>
            Target[x] = t /\ node'[x] # "pending" /\ eventState'[x] \notin {"UNUSED", "QUEUED"}
      BY <1>1, <2>1, <2>2, <3>1 DEF ListOwn
    <3>5. loopPc'[t] = "exitDone"
      BY <1>i, <1>1 DEF ExecutorTypeOK
    <3> QED BY <1>0, <2>2, <3>2, <3>3, <3>4, <3>5 DEF ListOwn
  <2>3. CASE v # t
    <3>1. \A x \in Events : node[x] # "pending" => node'[x] # "pending"
      BY <1>4
    <3>2. start'[v] = start[v] /\ current'[v] = current[v]
      BY <1>3, <1>4, <2>3
    <3> QED BY <1>0, <1>1, <2>1, <3>1, <3>2 DEF ListOwn
  <2> QED BY <2>2, <2>3
<1>16. StatesAgree'
  <2> SUFFICES ASSUME NEW x \in Events PROVE StateAgrees(x)'
    BY DEF StatesAgree
  <2>1. StateAgrees(x) /\ Target[x] \in Loops
    BY <1>0, <1>i DEF StatesAgree
  <2>2. CASE x = e
    BY <1>0, <1>1, <1>3, <1>4, <1>7, <2>1, <2>2 DEF StateAgrees
  <2>3. CASE x # e /\ Target[x] = t
    BY <1>0, <1>1, <1>3, <1>4, <2>1, <2>3 DEF StateAgrees
  <2>4. CASE x # e /\ Target[x] # t
    BY <1>0, <1>1, <1>3, <1>4, <2>1, <2>4 DEF StateAgrees
  <2> QED BY <2>2, <2>3, <2>4
<1>17. RepliesAreFilled'
  BY <1>0, <1>i, <1>1, <1>4, <1>5, <1>6 DEF RepliesAreFilled
<1>18. SentInOrder'
  BY <1>6, SentFrame
<1>19. StartedInOrder'
  <2>1. ASSUME NEW x \in Events, Started(x)' PROVE Started(x)
    <3>1. Target[x] \in Loops
      BY <1>0
    <3> QED BY <1>0, <1>1, <1>4, <2>1, <3>1 DEF Started, Armed
  <2> QED BY <1>1, <2>1, NoneStarted
<1>20. StartSorted'
  <2>1. \A v \in Loops : Follows(start'[v], start[v])
    BY <1>3, FollowsSelf
  <2> QED BY <2>1, StartShrinks
<1>21. QueueSorted'
  <2>1. ASSUME NEW v \in Loops, NEW x \in Events, loopAlive'[v], Contains(queue'[v], x),
               node'[x] = None
        PROVE  node[x] = None
    <3>1. x # e
      BY <1>i, <1>1, <1>3, <1>7, <2>1 DEF ListsAreOwn, ListOwn
    <3> QED BY <1>1, <1>4, <2>1, <3>1
  <2>2. queue' \in [Loops -> Seq(Events)] /\ \A v \in Loops : Follows(queue'[v], queue[v])
    BY <1>i, <1>1, FollowsSelf DEF ExecutorTypeOK
  <2> QED BY <1>1, <2>1, <2>2, QueueShrinks
<1>22. ServedWell'
  <2> SUFFICES ASSUME NEW x \in Events, Serving(Target[x]) PROVE ServedEvent(x)'
    BY <1>0 DEF ServedWell, Serving
  <2>1. ServedEvent(x) /\ Target[x] \in Loops
    BY <1>0, <1>i DEF ServedWell
  <2>2. CASE x = e
    <3> QED BY <1>0, <1>1, <1>3, <1>4, <1>7, <2>2 DEF ServedEvent, Armed
  <2>3. CASE x # e /\ Target[x] = t
    BY <1>0, <1>1, <1>4, <1>7, <2>1, <2>3 DEF ServedEvent, Armed
  <2>4. CASE x # e /\ Target[x] # t
    BY <1>0, <1>1, <1>4, <1>5, <2>1, <2>4 DEF ServedEvent, Armed
  <2> QED BY <2>2, <2>3, <2>4
<1>23. NoAbort'
  BY <1>0, <1>1, <1>3, <1>7 DEF NoAbort, Serving
<1> QED BY <1>11, <1>12, <1>13, <1>14, <1>15, <1>16, <1>17, <1>18, <1>19, <1>20, <1>21, <1>22,
         <1>23 DEF ExecutorInv

(* The event that was answered is DONE. *)
LEMMA DisconnectedKeeps ==
  ASSUME ExecutorInv, NEW t \in Loops, disconnected(t), UNCHANGED route
  PROVE  ExecutorInv'
<1> USE DEF None, NoEvent
<1>0. /\ Requester' = Requester /\ Target' = Target /\ SyncEvents' = SyncEvents
      /\ Pollers' = Pollers
      /\ Requester \in [Events -> Loops] /\ Target \in [Events -> Loops]
      /\ \A x \in Events : x \in Nat /\ x # 0
  BY RouteKept
<1>i. /\ CallsAreOwn /\ CurrentIsOwn /\ OutsideIsOwn /\ ListsAreOwn /\ StatesAgree
      /\ RepliesAreFilled /\ SentInOrder /\ StartedInOrder /\ StartSorted /\ QueueSorted
      /\ ServedWell /\ NoAbort /\ ExecutorTypeOK
  BY DEF ExecutorInv
<1> DEFINE e == current[t]
<1>1. /\ loopPc[t] = "exitDone" /\ e = current[t]
      /\ eventState' = [eventState EXCEPT ![e] = "DONE"]
      /\ loopPc' = [loopPc EXCEPT ![t] = "exit"]
      /\ current' = [current EXCEPT ![t] = NoEvent]
      /\ UNCHANGED <<loopAlive, start, executing, cancel, replies, waitingForCancel, node, result,
                     resolved, freed, queue, call, subject, outside, crashed>>
  BY DEF disconnected, LoopGoto, SetState, lists, eventVars, callVars
<1>2. /\ e \in Events /\ Target[e] = t /\ eventState[e] # "UNUSED"
      /\ ~Contains(start[t], e) /\ e \notin executing /\ e \notin cancel /\ ~loopAlive[t]
  <2>1. e \in Events /\ Target[e] = t
    BY <1>i, <1>1 DEF CurrentIsOwn, CurrentOwn, Busy
  <2>2. /\ eventState[e] # "UNUSED" /\ ~Contains(start[t], e) /\ e \notin executing
        /\ e \notin cancel
    BY <1>i, <1>1, <2>1 DEF StatesAgree, StateAgrees
  <2>3. ~loopAlive[t]
    BY <1>i, <1>1 DEF CurrentIsOwn, CurrentOwn, Exiting
  <2> QED BY <2>1, <2>2, <2>3
<1> HIDE DEF e
<1>3. /\ loopPc'[t] = "exit" /\ current'[t] = NoEvent
      /\ \A v \in Loops : v # t => loopPc'[v] = loopPc[v] /\ current'[v] = current[v]
  BY <1>i, <1>1 DEF ExecutorTypeOK
<1>4. eventState'[e] = "DONE" /\ \A x \in Events : x # e => eventState'[x] = eventState[x]
  BY <1>i, <1>1, <1>2 DEF ExecutorTypeOK
<1>5. \A x \in Events : Unsent(x)' <=> Unsent(x)
  BY <1>1, <1>2, <1>4 DEF Unsent
<1>6. \A x \in Events : eventState[x] = "DONE" => eventState'[x] = "DONE"
  BY <1>4
<1>7. call[t] = None /\ outside[t] = {}
  BY <1>i, <1>1 DEF CallsAreOwn, CallIsOwn, OutsideIsOwn, Outside
<1>11. ExecutorTypeOK'
  <2>1. loopPc' \in [Loops -> {"loop", "execute", "reply", "done", "exit", "exitDone", "unqueue", "exited"}]
    BY <1>i, <1>1 DEF ExecutorTypeOK
  <2>2. current' \in [Loops -> Events \cup {NoEvent}]
    BY <1>i, <1>1 DEF ExecutorTypeOK
  <2>3. eventState' \in [Events -> EventStates]
    BY <1>i, <1>1 DEF ExecutorTypeOK, EventStates
  <2> QED BY <1>i, <1>1, <2>1, <2>2, <2>3 DEF ExecutorTypeOK
<1>12. CallsAreOwn'
  <2> SUFFICES ASSUME NEW v \in Loops PROVE CallIsOwn(v)'
    BY DEF CallsAreOwn
  <2>1. CallIsOwn(v)
    BY <1>i DEF CallsAreOwn
  <2>2. CASE v = t
    BY <1>1, <1>7, <2>2 DEF CallIsOwn
  <2>3. CASE v # t
    BY <1>0, <1>1, <1>3, <1>5, <1>6, <2>1, <2>3 DEF CallIsOwn
  <2> QED BY <2>2, <2>3
<1>13. CurrentIsOwn'
  <2> SUFFICES ASSUME NEW v \in Loops PROVE CurrentOwn(v)'
    BY DEF CurrentIsOwn
  <2>1. CurrentOwn(v)
    BY <1>i DEF CurrentIsOwn
  <2>2. CASE v = t
    BY <1>0, <1>1, <1>3, <2>1, <2>2 DEF CurrentOwn, Busy, Exiting
  <2>3. CASE v # t
    BY <1>0, <1>1, <1>3, <2>1, <2>3 DEF CurrentOwn
  <2> QED BY <2>2, <2>3
<1>14. OutsideIsOwn'
  <2> SUFFICES ASSUME NEW v \in Loops PROVE Outside(v)'
    BY DEF OutsideIsOwn
  <2>1. Outside(v) /\ outside[v] \subseteq Events
    BY <1>i DEF OutsideIsOwn, ExecutorTypeOK
  <2>2. CASE v = t
    BY <1>1, <1>7, <2>2 DEF Outside
  <2>3. CASE v # t
    <3>1. \A x \in outside[v] : eventState'[x] = eventState[x]
      BY <1>1, <1>2, <1>4, <2>1, <2>3 DEF Outside
    <3> QED BY <1>0, <1>1, <1>3, <2>1, <2>3, <3>1 DEF Outside
  <2> QED BY <2>2, <2>3
<1>15. ListsAreOwn'
  <2> SUFFICES ASSUME NEW v \in Loops PROVE ListOwn(v)'
    BY DEF ListsAreOwn
  <2>1. ListOwn(v)
    BY <1>i DEF ListsAreOwn
  <2>2. \A x \in Events : Contains(queue[v], x) /\ x = current'[v] => loopPc'[v] = "exitDone"
    BY <1>0, <1>3, <2>1 DEF ListOwn
  <2>3. \A x \in Events : Contains(start[v], x) => x # e
    BY <1>2, <2>1 DEF ListOwn
  <2>4. \A x \in Events : eventState[x] \notin {"UNUSED", "QUEUED"} =>
                             eventState'[x] \notin {"UNUSED", "QUEUED"}
    BY <1>4
  <2> QED BY <1>0, <1>1, <1>4, <2>1, <2>2, <2>3, <2>4 DEF ListOwn
<1>16. StatesAgree'
  <2> SUFFICES ASSUME NEW x \in Events PROVE StateAgrees(x)'
    BY DEF StatesAgree
  <2>1. StateAgrees(x) /\ Target[x] \in Loops
    BY <1>0, <1>i DEF StatesAgree
  <2>2. CASE x = e
    <3>1. current'[t] # e /\ Target[x] = t
      BY <1>0, <1>2, <1>3, <2>2
    <3> QED BY <1>0, <1>1, <1>2, <1>4, <2>1, <2>2, <3>1 DEF StateAgrees
  <2>3. CASE x # e /\ Target[x] = t
    <3>1. current'[t] # x /\ current[t] # x
      BY <1>0, <1>1, <1>3, <2>3
    <3> QED BY <1>0, <1>1, <1>3, <1>4, <2>1, <2>3, <3>1 DEF StateAgrees
  <2>4. CASE x # e /\ Target[x] # t
    BY <1>0, <1>1, <1>3, <1>4, <2>1, <2>4 DEF StateAgrees
  <2> QED BY <2>2, <2>3, <2>4
<1>17. RepliesAreFilled'
  BY <1>0, <1>i, <1>1, <1>5 DEF RepliesAreFilled
<1>18. SentInOrder'
  BY <1>5, SentFrame
<1>19. StartedInOrder'
  <2>1. ASSUME NEW x \in Events, Started(x)' PROVE Started(x)
    <3>1. Target[x] \in Loops
      BY <1>0
    <3> QED BY <1>0, <1>1, <1>3, <2>1, <3>1 DEF Started, Armed
  <2>2. \A x \in Events : eventState'[x] = "QUEUED" => eventState[x] = "QUEUED"
    BY <1>4
  <2> QED BY <2>1, <2>2, NoneStarted
<1>20. StartSorted'
  BY <1>0, <1>i, <1>1 DEF StartSorted
<1>21. QueueSorted'
  BY <1>0, <1>i, <1>1 DEF QueueSorted
<1>22. ServedWell'
  <2> SUFFICES ASSUME NEW x \in Events, Serving(Target[x]) PROVE ServedEvent(x)'
    BY <1>0 DEF ServedWell, Serving
  <2>1. ServedEvent(x) /\ Target[x] \in Loops
    BY <1>0, <1>i DEF ServedWell
  <2>2. CASE x = e
    <3>1. node[e] = None /\ current'[t] # e
      BY <1>0, <1>1, <1>2, <1>3, <2>1, <2>2 DEF ServedEvent
    <3> QED BY <1>0, <1>1, <1>2, <2>1, <2>2, <3>1 DEF ServedEvent, Armed
  <2>3. CASE x # e /\ Target[x] = t
    <3>1. current'[t] # x
      BY <1>0, <1>3
    <3> QED BY <1>0, <1>1, <1>4, <2>1, <2>3, <3>1 DEF ServedEvent, Armed
  <2>4. CASE x # e /\ Target[x] # t
    BY <1>0, <1>1, <1>3, <1>4, <2>1, <2>4 DEF ServedEvent, Armed
  <2> QED BY <2>2, <2>3, <2>4
<1>23. NoAbort'
  BY <1>0, <1>i, <1>1 DEF NoAbort, Serving
<1> QED BY <1>11, <1>12, <1>13, <1>14, <1>15, <1>16, <1>17, <1>18, <1>19, <1>20, <1>21, <1>22,
         <1>23 DEF ExecutorInv

(* What was cancelled and not yet let go is let go at the end. *)
LEMMA DisconnectCanceledKeeps ==
  ASSUME ExecutorInv, NEW t \in Loops, disconnectCanceled(t), UNCHANGED route
  PROVE  ExecutorInv'
<1> USE DEF None, NoEvent
<1>0. /\ Requester' = Requester /\ Target' = Target /\ SyncEvents' = SyncEvents
      /\ Pollers' = Pollers
      /\ Requester \in [Events -> Loops] /\ Target \in [Events -> Loops]
      /\ \A x \in Events : x \in Nat /\ x # 0
  BY RouteKept
<1>i. /\ CallsAreOwn /\ CurrentIsOwn /\ OutsideIsOwn /\ ListsAreOwn /\ StatesAgree
      /\ RepliesAreFilled /\ SentInOrder /\ StartedInOrder /\ StartSorted /\ QueueSorted
      /\ ServedWell /\ NoAbort /\ ExecutorTypeOK
  BY DEF ExecutorInv
<1> DEFINE cancelled == {x \in cancel : Target[x] = t}
<1>1. /\ loopPc[t] = "exit" /\ loopPc' = [loopPc EXCEPT ![t] = "unqueue"]
      /\ cancel' = cancel \ cancelled
      /\ node' = [x \in Events |-> IF x \in cancelled THEN None ELSE node[x]]
      /\ eventState' = [x \in Events |-> IF x \in cancelled THEN "DONE" ELSE eventState[x]]
      /\ UNCHANGED <<loopAlive, start, executing, replies, waitingForCancel, result, resolved,
                     freed, queue, current, call, subject, outside, crashed>>
  BY DEF disconnectCanceled, Cancels, LoopGoto, callVars
<1>2. /\ cancelled \subseteq Events
      /\ \A x \in Events : x \in cancelled <=> x \in cancel /\ Target[x] = t
  BY <1>i DEF ExecutorTypeOK
<1> HIDE DEF cancelled
<1>3. \A x \in Events : x \in cancelled => eventState[x] = "CANCELING" /\ Target[x] = t
  BY <1>i, <1>2 DEF StatesAgree, StateAgrees
<1>4. \A x \in Events :
        /\ x \in cancelled => eventState'[x] = "DONE" /\ node'[x] = None
        /\ x \notin cancelled => eventState'[x] = eventState[x] /\ node'[x] = node[x]
  BY <1>1
<1>5. loopPc'[t] = "unqueue" /\ \A v \in Loops : v # t => loopPc'[v] = loopPc[v]
  BY <1>i, <1>1 DEF ExecutorTypeOK
<1>6. \A x \in Events : Unsent(x)' <=> Unsent(x)
  BY <1>1, <1>3, <1>4 DEF Unsent
<1>7. /\ call[t] = None /\ outside[t] = {} /\ current[t] = NoEvent /\ ~loopAlive[t]
  <2>1. call[t] = None /\ outside[t] = {}
    BY <1>i, <1>1 DEF CallsAreOwn, CallIsOwn, OutsideIsOwn, Outside
  <2>2. current[t] = NoEvent /\ ~loopAlive[t]
    BY <1>i, <1>1 DEF CurrentIsOwn, CurrentOwn, Exiting, Busy
  <2> QED BY <2>1, <2>2
<1>8. \A x \in Events : eventState[x] = "DONE" => eventState'[x] = "DONE"
  BY <1>3, <1>4
<1>9. \A v \in Loops : loopPc'[v] = "exitDone" <=> loopPc[v] = "exitDone"
  BY <1>1, <1>5
<1>11. ExecutorTypeOK'
  <2>1. loopPc' \in [Loops -> {"loop", "execute", "reply", "done", "exit", "exitDone", "unqueue", "exited"}]
    BY <1>i, <1>1 DEF ExecutorTypeOK
  <2>2. node' \in [Events -> {None, "pending", "ready"}]
    BY <1>i, <1>1 DEF ExecutorTypeOK
  <2>3. eventState' \in [Events -> EventStates]
    BY <1>i, <1>1 DEF ExecutorTypeOK, EventStates
  <2> QED BY <1>i, <1>1, <2>1, <2>2, <2>3 DEF ExecutorTypeOK
<1>12. CallsAreOwn'
  <2> SUFFICES ASSUME NEW v \in Loops PROVE CallIsOwn(v)'
    BY DEF CallsAreOwn
  <2>1. CallIsOwn(v)
    BY <1>i DEF CallsAreOwn
  <2>2. CASE v = t
    BY <1>1, <1>7, <2>2 DEF CallIsOwn
  <2>3. CASE v # t
    BY <1>0, <1>1, <1>5, <1>6, <1>8, <2>1, <2>3 DEF CallIsOwn
  <2> QED BY <2>2, <2>3
<1>13. CurrentIsOwn'
  <2> SUFFICES ASSUME NEW v \in Loops PROVE CurrentOwn(v)'
    BY DEF CurrentIsOwn
  <2>1. CurrentOwn(v)
    BY <1>i DEF CurrentIsOwn
  <2>2. CASE v = t
    BY <1>0, <1>1, <1>5, <2>1, <2>2 DEF CurrentOwn, Busy, Exiting
  <2>3. CASE v # t
    BY <1>0, <1>1, <1>5, <2>1, <2>3 DEF CurrentOwn
  <2> QED BY <2>2, <2>3
<1>14. OutsideIsOwn'
  <2> SUFFICES ASSUME NEW v \in Loops PROVE Outside(v)'
    BY DEF OutsideIsOwn
  <2>1. Outside(v) /\ outside[v] \subseteq Events
    BY <1>i DEF OutsideIsOwn, ExecutorTypeOK
  <2>2. CASE v = t
    BY <1>1, <1>7, <2>2 DEF Outside
  <2>3. CASE v # t
    <3>1. \A x \in outside[v] : /\ eventState'[x] = eventState[x] /\ node'[x] = node[x]
                                /\ x \notin cancel'
      BY <1>1, <1>3, <1>4, <2>1, <2>3 DEF Outside
    <3> QED BY <1>0, <1>1, <1>5, <2>1, <2>3, <3>1 DEF Outside
  <2> QED BY <2>2, <2>3
<1>15. ListsAreOwn'
  <2> SUFFICES ASSUME NEW v \in Loops PROVE ListOwn(v)'
    BY DEF ListsAreOwn
  <2>1. ListOwn(v)
    BY <1>i DEF ListsAreOwn
  <2>2. \A x \in Events : /\ eventState[x] = "QUEUED" => eventState'[x] = "QUEUED"
                          /\ eventState[x] \notin {"UNUSED", "QUEUED"} =>
                               eventState'[x] \notin {"UNUSED", "QUEUED"}
                          /\ node[x] # "pending" => node'[x] # "pending"
    BY <1>3, <1>4
  <2> QED BY <1>0, <1>1, <2>1, <2>2 DEF ListOwn
<1>16. StatesAgree'
  <2> SUFFICES ASSUME NEW x \in Events PROVE StateAgrees(x)'
    BY DEF StatesAgree
  <2>1. StateAgrees(x) /\ Target[x] \in Loops
    BY <1>0, <1>i DEF StatesAgree
  <2>2. CASE x \in cancelled
    <3>1. current[t] # x /\ Target[x] = t
      BY <1>0, <1>3, <1>7, <2>2
    <3> QED BY <1>0, <1>1, <1>3, <1>4, <2>1, <2>2, <3>1 DEF StateAgrees
  <2>3. CASE x \notin cancelled
    BY <1>0, <1>1, <1>4, <1>9, <2>1, <2>3 DEF StateAgrees
  <2> QED BY <2>2, <2>3
<1>17. RepliesAreFilled'
  BY <1>0, <1>i, <1>1, <1>6 DEF RepliesAreFilled
<1>18. SentInOrder'
  BY <1>6, SentFrame
<1>19. StartedInOrder'
  <2>1. ASSUME NEW x \in Events, Started(x)' PROVE Started(x)
    <3>1. Target[x] \in Loops
      BY <1>0
    <3> QED BY <1>0, <1>1, <1>4, <1>5, <2>1, <3>1 DEF Started, Armed
  <2>2. \A x \in Events : eventState'[x] = "QUEUED" => eventState[x] = "QUEUED"
    BY <1>4
  <2> QED BY <2>1, <2>2, NoneStarted
<1>20. StartSorted'
  BY <1>0, <1>i, <1>1 DEF StartSorted
<1>21. QueueSorted'
  <2>1. ASSUME NEW v \in Loops, NEW x \in Events, loopAlive'[v], Contains(queue'[v], x),
               node'[x] = None
        PROVE  node[x] = None
    <3>1. x \notin cancelled
      BY <1>i, <1>1, <1>3, <1>7, <2>1 DEF ListsAreOwn, ListOwn
    <3> QED BY <1>4, <2>1, <3>1
  <2>2. queue' \in [Loops -> Seq(Events)] /\ \A v \in Loops : Follows(queue'[v], queue[v])
    BY <1>i, <1>1, FollowsSelf DEF ExecutorTypeOK
  <2> QED BY <1>1, <2>1, <2>2, QueueShrinks
<1>22. ServedWell'
  <2> SUFFICES ASSUME NEW x \in Events, Serving(Target[x]) PROVE ServedEvent(x)'
    BY <1>0 DEF ServedWell, Serving
  <2>1. ServedEvent(x) /\ Target[x] \in Loops
    BY <1>0, <1>i DEF ServedWell
  <2>2. CASE x \in cancelled
    <3>1. current[t] # x /\ Target[x] = t /\ ~loopAlive[t]
      BY <1>0, <1>3, <1>7, <2>2
    <3> QED BY <1>0, <1>1, <1>4, <2>1, <2>2, <3>1 DEF ServedEvent, Armed
  <2>3. CASE x \notin cancelled
    BY <1>0, <1>1, <1>4, <1>9, <2>1, <2>3 DEF ServedEvent, Armed
  <2> QED BY <2>2, <2>3
<1>23. NoAbort'
  BY <1>0, <1>i, <1>1 DEF NoAbort, Serving
<1> QED BY <1>11, <1>12, <1>13, <1>14, <1>15, <1>16, <1>17, <1>18, <1>19, <1>20, <1>21, <1>22,
         <1>23 DEF ExecutorInv

(* Last, what is still armed is unlinked. *)
LEMMA UnqueueKeeps ==
  ASSUME ExecutorInv, NEW t \in Loops, unqueue(t), UNCHANGED route
  PROVE  ExecutorInv'
<1> USE DEF None, NoEvent
<1>0. /\ Requester' = Requester /\ Target' = Target /\ SyncEvents' = SyncEvents
      /\ Pollers' = Pollers
      /\ Requester \in [Events -> Loops] /\ Target \in [Events -> Loops]
      /\ \A x \in Events : x \in Nat /\ x # 0
  BY RouteKept
<1>i. /\ CallsAreOwn /\ CurrentIsOwn /\ OutsideIsOwn /\ ListsAreOwn /\ StatesAgree
      /\ RepliesAreFilled /\ SentInOrder /\ StartedInOrder /\ StartSorted /\ QueueSorted
      /\ ServedWell /\ NoAbort /\ ExecutorTypeOK
  BY DEF ExecutorInv
<1>1. /\ loopPc[t] = "unqueue" /\ loopPc' = [loopPc EXCEPT ![t] = "exited"]
      /\ queue' = [queue EXCEPT ![t] = <<>>]
      /\ UNCHANGED <<loopAlive, start, executing, cancel, replies, waitingForCancel, eventState,
                     node, result, resolved, freed, current, call, subject, outside, crashed>>
  BY DEF unqueue, LoopGoto, lists, eventVars, callVars
<1>2. /\ loopPc'[t] = "exited" /\ queue'[t] = <<>>
      /\ \A v \in Loops : v # t => loopPc'[v] = loopPc[v] /\ queue'[v] = queue[v]
  BY <1>i, <1>1 DEF ExecutorTypeOK
<1>3. Distinct(<<>>) /\ (\A x : ~Contains(<<>>, x)) /\ <<>> \in Seq(Events) /\ Len(<<>>) = 0
  BY DEF Distinct, Contains
<1>4. /\ call[t] = None /\ outside[t] = {} /\ ~loopAlive[t]
  BY <1>i, <1>1 DEF CallsAreOwn, CallIsOwn, OutsideIsOwn, Outside, CurrentIsOwn, CurrentOwn,
     Exiting
<1>5. \A x \in Events : Unsent(x)' <=> Unsent(x)
  BY <1>1 DEF Unsent
<1>11. ExecutorTypeOK'
  <2>1. loopPc' \in [Loops -> {"loop", "execute", "reply", "done", "exit", "exitDone", "unqueue", "exited"}]
    BY <1>i, <1>1 DEF ExecutorTypeOK
  <2>2. queue' \in [Loops -> Seq(Events)]
    BY <1>i, <1>1, <1>3 DEF ExecutorTypeOK
  <2> QED BY <1>i, <1>1, <2>1, <2>2 DEF ExecutorTypeOK
<1>12. CallsAreOwn'
  <2> SUFFICES ASSUME NEW v \in Loops PROVE CallIsOwn(v)'
    BY DEF CallsAreOwn
  <2>1. CallIsOwn(v)
    BY <1>i DEF CallsAreOwn
  <2>2. CASE v = t
    BY <1>1, <1>4, <2>2 DEF CallIsOwn
  <2>3. CASE v # t
    BY <1>0, <1>1, <1>2, <1>5, <2>1, <2>3 DEF CallIsOwn
  <2> QED BY <2>2, <2>3
<1>13. CurrentIsOwn'
  <2> SUFFICES ASSUME NEW v \in Loops PROVE CurrentOwn(v)'
    BY DEF CurrentIsOwn
  <2>1. CurrentOwn(v)
    BY <1>i DEF CurrentIsOwn
  <2>2. CASE v = t
    BY <1>0, <1>1, <1>2, <2>1, <2>2 DEF CurrentOwn, Busy, Exiting
  <2>3. CASE v # t
    BY <1>0, <1>1, <1>2, <2>1, <2>3 DEF CurrentOwn
  <2> QED BY <2>2, <2>3
<1>14. OutsideIsOwn'
  <2> SUFFICES ASSUME NEW v \in Loops PROVE Outside(v)'
    BY DEF OutsideIsOwn
  <2>1. Outside(v)
    BY <1>i DEF OutsideIsOwn
  <2>2. CASE v = t
    BY <1>1, <1>4, <2>2 DEF Outside
  <2>3. CASE v # t
    BY <1>0, <1>1, <1>2, <2>1, <2>3 DEF Outside
  <2> QED BY <2>2, <2>3
<1>15. ListsAreOwn'
  <2> SUFFICES ASSUME NEW v \in Loops PROVE ListOwn(v)'
    BY DEF ListsAreOwn
  <2>1. ListOwn(v)
    BY <1>i DEF ListsAreOwn
  <2>2. CASE v = t
    BY <1>0, <1>1, <1>2, <1>3, <2>1, <2>2 DEF ListOwn
  <2>3. CASE v # t
    BY <1>0, <1>1, <1>2, <2>1, <2>3 DEF ListOwn
  <2> QED BY <2>2, <2>3
<1>16. StatesAgree'
  <2> SUFFICES ASSUME NEW x \in Events PROVE StateAgrees(x)'
    BY DEF StatesAgree
  <2>1. StateAgrees(x) /\ Target[x] \in Loops
    BY <1>0, <1>i DEF StatesAgree
  <2>2. loopPc'[Target[x]] = "exitDone" <=> loopPc[Target[x]] = "exitDone"
    BY <1>1, <1>2, <2>1
  <2> QED BY <1>0, <1>1, <2>1, <2>2 DEF StateAgrees
<1>17. RepliesAreFilled'
  BY <1>0, <1>i, <1>1, <1>5 DEF RepliesAreFilled
<1>18. SentInOrder'
  BY <1>5, SentFrame
<1>19. StartedInOrder'
  <2>1. ASSUME NEW x \in Events, Started(x)' PROVE Started(x)
    <3>1. Target[x] \in Loops
      BY <1>0
    <3> QED BY <1>0, <1>1, <1>2, <1>3, <2>1, <3>1 DEF Started, Armed
  <2> QED BY <1>1, <2>1, NoneStarted
<1>20. StartSorted'
  BY <1>0, <1>i, <1>1 DEF StartSorted
<1>21. QueueSorted'
  <2> SUFFICES ASSUME NEW v \in Loops, loopAlive'[v],
                      NEW j \in 1..Len(queue'[v]), NEW k \in 1..Len(queue'[v]), j < k,
                      Requester[queue'[v][j]] = Requester[queue'[v][k]],
                      node[queue'[v][j]] = None, node[queue'[v][k]] = None
               PROVE  queue'[v][j] < queue'[v][k]
    BY <1>0, <1>1 DEF QueueSorted
  <2>1. v # t /\ queue'[v] = queue[v]
    BY <1>1, <1>2, <1>4
  <2> QED BY <1>i, <1>1, <2>1 DEF QueueSorted
<1>22. ServedWell'
  <2> SUFFICES ASSUME NEW x \in Events, Serving(Target[x]) PROVE ServedEvent(x)'
    BY <1>0 DEF ServedWell, Serving
  <2>1. ServedEvent(x) /\ Target[x] \in Loops
    BY <1>0, <1>i DEF ServedWell
  <2>2. loopPc'[Target[x]] = "exitDone" <=> loopPc[Target[x]] = "exitDone"
    BY <1>1, <1>2, <2>1
  <2>3. Armed(x)' => Armed(x)
    BY <1>0, <1>2, <1>3, <2>1 DEF Armed
  <2> QED BY <1>0, <1>1, <2>1, <2>2, <2>3 DEF ServedEvent
<1>23. NoAbort'
  BY <1>0, <1>i, <1>1 DEF NoAbort, Serving
<1> QED BY <1>11, <1>12, <1>13, <1>14, <1>15, <1>16, <1>17, <1>18, <1>19, <1>20, <1>21, <1>22,
         <1>23 DEF ExecutorInv

(* send(), either way. *)
LEMMA SendKeeps ==
  ASSUME ExecutorInv, NEW t \in Loops, send(t), UNCHANGED route
  PROVE  ExecutorInv'
  BY SendQueues, SendRefused

(* done(), either way. *)
LEMMA DoneKeeps ==
  ASSUME ExecutorInv, NEW t \in Loops, done(t), UNCHANGED route
  PROVE  ExecutorInv'
  BY DoneMarks, DoneAborts

----------------------------------------------------------------------------
(* The specification *)

(* At the beginning nothing has been sent. *)
LEMMA ExecutorInitInv == ExecutorInit => ExecutorInv
<1> SUFFICES ASSUME ExecutorInit PROVE ExecutorInv
  OBVIOUS
<1> USE DEF None, NoEvent
<1>0. /\ Requester \in [Events -> Loops] /\ Target \in [Events -> Loops]
      /\ \A x \in Events : x \in Nat /\ x # 0
  BY RoutesAssumption, EventsAssumption DEF ExecutorInit, Requester, Target
<1>1. /\ <<>> \in Seq(Events) /\ Distinct(<<>>) /\ Len(<<>>) = 0
      /\ \A x : ~Contains(<<>>, x)
  BY DEF Distinct, Contains
<1>2. ExecutorTypeOK
  BY <1>1 DEF ExecutorInit, ExecutorTypeOK, EventStates, Calls
<1>3. CallsAreOwn /\ CurrentIsOwn /\ OutsideIsOwn
  BY DEF ExecutorInit, CallsAreOwn, CallIsOwn, CurrentIsOwn, CurrentOwn, OutsideIsOwn, Outside,
         Busy, Exiting
<1>4. ListsAreOwn
  BY <1>1 DEF ExecutorInit, ListsAreOwn, ListOwn
<1>5. StatesAgree
  BY <1>0 DEF ExecutorInit, StatesAgree, StateAgrees
<1>6. RepliesAreFilled /\ SentInOrder
  BY <1>0 DEF ExecutorInit, RepliesAreFilled, SentInOrder, Unsent
<1>7. StartedInOrder
  BY DEF ExecutorInit, StartedInOrder
<1>8. StartSorted /\ QueueSorted
  BY <1>1 DEF ExecutorInit, StartSorted, QueueSorted
<1>9. ServedWell /\ NoAbort
  <2>1. ASSUME NEW x \in Events PROVE ServedEvent(x)
    BY <1>0, <1>1 DEF ExecutorInit, ServedEvent, Armed
  <2> QED BY <2>1 DEF ExecutorInit, ServedWell, NoAbort
<1> QED BY <1>2, <1>3, <1>4, <1>5, <1>6, <1>7, <1>8, <1>9 DEF ExecutorInv

(* Every step keeps the invariant. *)
LEMMA ExecutorNextInv == ExecutorInv /\ [ExecutorNext]_executorVars => ExecutorInv'
<1> SUFFICES ASSUME ExecutorInv, [ExecutorNext]_executorVars PROVE ExecutorInv'
  OBVIOUS
<1>1. CASE ExecutorNext
  <2>1. UNCHANGED route
    BY <1>1 DEF ExecutorNext
  <2>2. PICK t \in Loops :
          Application(t) \/ LoopRuns(t) \/ \E e \in Events : PromiseResolves(t, e)
    BY <1>1 DEF ExecutorNext
  <2>3. CASE Application(t)
    BY <2>1, <2>3, LoopExitKeeps, GetLoopKeeps, DropKeeps DEF Application
  <2>4. CASE LoopRuns(t)
    BY <2>1, <2>4, SendKeeps, SyncReturnsKeeps, DispatchAllKeeps, DestroyPromiseKeeps,
       AcknowledgeKeeps, FireKeeps, ExecutedKeeps, ReplyKeeps, DoneKeeps, OrphanDoneKeeps,
       DeclareKeeps, AwaitKeeps, UnlinkKeeps, DisconnectKeeps, DisconnectedKeeps,
       DisconnectCanceledKeeps, UnqueueKeeps DEF LoopRuns
  <2>5. CASE \E e \in Events : PromiseResolves(t, e)
    BY <2>1, <2>5, PromiseResolvesKeeps
  <2> QED BY <2>2, <2>3, <2>4, <2>5
<1>2. CASE UNCHANGED executorVars
  <2>1. /\ UNCHANGED <<route, loopAlive, start, executing, cancel, replies, waitingForCancel>>
        /\ UNCHANGED <<eventState, node, result, resolved, freed, queue, loopPc, current>>
        /\ UNCHANGED <<call, subject, outside, crashed>>
    BY <1>2 DEF executorVars, lists, eventVars, loopVars, callVars
  <2>2. ExecutorInv
    OBVIOUS
  <2>3. /\ (ExecutorTypeOK' <=> ExecutorTypeOK) /\ (CallsAreOwn' <=> CallsAreOwn)
        /\ (CurrentIsOwn' <=> CurrentIsOwn) /\ (OutsideIsOwn' <=> OutsideIsOwn)
        /\ (ListsAreOwn' <=> ListsAreOwn) /\ (StatesAgree' <=> StatesAgree)
    BY <2>1 DEF ExecutorTypeOK, CallsAreOwn, CallIsOwn, Unsent, CurrentIsOwn, CurrentOwn,
       OutsideIsOwn, Outside, ListsAreOwn, ListOwn, StatesAgree, StateAgrees, Requester, Target
  <2>4. /\ (RepliesAreFilled' <=> RepliesAreFilled) /\ (SentInOrder' <=> SentInOrder)
        /\ (StartSorted' <=> StartSorted) /\ (QueueSorted' <=> QueueSorted)
        /\ (ServedWell' <=> ServedWell) /\ (NoAbort' <=> NoAbort)
    BY <2>1 DEF RepliesAreFilled, Unsent, SentInOrder, StartSorted, QueueSorted, ServedWell,
       ServedEvent, Serving, Armed, NoAbort, Requester, Target, Pollers
  <2>5. StartedInOrder'
    BY <2>1, StartedFrame
  <2> QED BY <2>2, <2>3, <2>4, <2>5 DEF ExecutorInv
<1> QED BY <1>1, <1>2

(* The invariant holds in every reachable state. *)
THEOREM ExecutorInvariant == ExecutorSpec => []ExecutorInv
  BY ExecutorInitInv, ExecutorNextInv, PTL DEF ExecutorSpec

(* An event that a serving thread has done is off its lists and out of its hands, and not armed
   unless its loop is being destroyed. *)
LEMMA DoneIsLetGo ==
  ASSUME ExecutorInv, NEW e \in Events, Serving(Target[e]), eventState[e] = "DONE"
  PROVE  ~OnList(e) /\ (Armed(e) => ~loopAlive[Target[e]])
<1>1. Target[e] \in Loops
  BY RoutesAssumption DEF ExecutorInv, ExecutorTypeOK, Target
<1>2. (Armed(e) => ~loopAlive[Target[e]]) /\ current[Target[e]] # e
  BY DEF ExecutorInv, ServedWell, ServedEvent, Live
<1>3. e \notin executing /\ e \notin cancel
  BY DEF ExecutorInv, StatesAgree, StateAgrees
<1>4. e \notin outside[Target[e]]
  BY <1>1 DEF ExecutorInv, OutsideIsOwn, Outside
<1>5. ~Contains(start[Target[e]], e)
  BY <1>1 DEF ExecutorInv, ListsAreOwn, ListOwn
<1> QED BY <1>2, <1>3, <1>4, <1>5 DEF OnList

(* For any threads, events and routes: a thread that only serves has let go of an event that is
   DONE, and while its loop lives the requester frees an event only after that, so the
   destructor of XThreadEvent (async-inl.h:1795) destroys nothing that the other thread
   accesses; while all targets are such threads, no assertion of the executor fails. *)
THEOREM EventsReleased == ExecutorSpec => []EventsAreReleased
<1>1. ExecutorInv => EventsAreReleased
  <2> SUFFICES ASSUME ExecutorInv PROVE EventsAreReleased
    OBVIOUS
  <2>1. ASSUME NEW e \in Events, Serving(Target[e])
        PROVE  /\ eventState[e] = "DONE" => ~OnList(e) /\ (Armed(e) => ~loopAlive[Target[e]])
               /\ freed[e] /\ loopAlive[Target[e]] => ~InHand(e) /\ e \notin replies
    <3>1. eventState[e] = "DONE" => ~OnList(e) /\ (Armed(e) => ~loopAlive[Target[e]])
      BY <2>1, DoneIsLetGo
    <3>2. freed[e] => eventState[e] = "DONE"
      BY DEF ExecutorInv, StatesAgree, StateAgrees
    <3>3. freed[e] /\ loopAlive[Target[e]] => e \notin replies
      BY <2>1 DEF ExecutorInv, ServedWell, ServedEvent
    <3> QED BY <3>1, <3>2, <3>3 DEF InHand
  <2>2. (\A e \in Events : Serving(Target[e]) /\ loopAlive[Target[e]]) => NoUseAfterFree
    BY <2>1 DEF ExecutorInv, NoAbort, NoUseAfterFree
  <2>3. RepliesCarryResults
    BY DEF ExecutorInv, RepliesAreFilled, RepliesCarryResults
  <2>4. ExecutorTypeOK
    BY DEF ExecutorInv
  <2> QED BY <2>1, <2>2, <2>3, <2>4 DEF EventsAreReleased
<1> QED BY <1>1, ExecutorInvariant, PTL

(* Only fire() brings a loop from its turn into a function. *)
LEMMA OnlyFireExecutes ==
  ASSUME ExecutorInv, ExecutorNext, NEW t \in Loops, loopPc[t] = "loop", loopPc'[t] = "execute"
  PROVE  fire(t)
<1>1. loopPc \in [Loops -> {"loop", "execute", "reply", "done", "exit", "exitDone", "unqueue", "exited"}]
  BY DEF ExecutorInv, ExecutorTypeOK
<1>2. ASSUME NEW u \in Loops, NEW p, loopPc' = [loopPc EXCEPT ![u] = p], p # "execute" \/ u # t
      PROVE  FALSE
  BY <1>1, <1>2
<1>3. ASSUME UNCHANGED loopPc PROVE FALSE
  BY <1>3
<1>4. PICK u \in Loops :
        Application(u) \/ LoopRuns(u) \/ \E e \in Events : PromiseResolves(u, e)
  BY DEF ExecutorNext
<1>5. ~Application(u)
  <2>1. ~LoopExit(u)
    BY <1>2 DEF LoopExit, LoopGoto
  <2>2. ~\E e \in Events : getLoop(u, e) \/ ensureDoneOrCanceled(u, e)
    BY <1>3 DEF getLoop, ensureDoneOrCanceled, loopVars
  <2> QED BY <2>1, <2>2 DEF Application
<1>6. ~\E e \in Events : PromiseResolves(u, e)
  BY <1>3 DEF PromiseResolves
<1>7. /\ ~send(u) /\ ~SyncReturns(u) /\ ~dispatchAll(u) /\ ~destroyPromise(u)
      /\ ~processAsyncCancellations(u) /\ ~OrphanDone(u) /\ ~Declare(u) /\ ~Await(u) /\ ~unlink(u)
  BY <1>3 DEF send, SyncReturns, dispatchAll, destroyPromise, processAsyncCancellations,
     OrphanDone, Declare, Await, unlink, loopVars
<1>8. /\ ~reply(u) /\ ~done(u) /\ ~disconnect(u) /\ ~disconnected(u) /\ ~disconnectCanceled(u)
      /\ ~unqueue(u)
  BY <1>2 DEF reply, done, disconnect, disconnected, disconnectCanceled, unqueue, LoopGoto
<1>9. ~executed(u)
  BY <1>2, <1>3 DEF executed, LoopGoto
<1>10. fire(u)
  BY <1>4, <1>5, <1>6, <1>7, <1>8, <1>9 DEF LoopRuns
<1>11. u = t
  <2>1. PICK p : loopPc' = [loopPc EXCEPT ![u] = p]
    BY <1>10 DEF fire, LoopGoto
  <2> QED BY <1>2, <2>1
<1> QED BY <1>10, <1>11

(* What fire() takes is the oldest of its requester's. *)
LEMMA FiresInOrder ==
  ASSUME ExecutorInv, ExecutorNext, NEW t \in Loops, loopPc[t] = "loop", loopPc'[t] = "execute",
         NEW d \in Events, d < current'[t], Requester[d] = Requester[current'[t]], Target[d] = t
  PROVE  ~Undelivered(d)
<1> DEFINE e == current'[t]
<1>1. fire(t) /\ loopAlive[t]
  BY OnlyFireExecutes DEF ExecutorInv, CurrentIsOwn, CurrentOwn, Exiting
<1>2. /\ queue[t] \in Seq(Events) /\ queue[t] # <<>>
      /\ loopPc \in [Loops -> {"loop", "execute", "reply", "done", "exit", "exitDone", "unqueue", "exited"}]
      /\ current \in [Loops -> Events \cup {NoEvent}]
      /\ node \in [Events -> {None, "pending", "ready"}]
  BY <1>1 DEF fire, ExecutorInv, ExecutorTypeOK
<1>3. e = Head(queue[t])
  BY <1>1, <1>2 DEF fire
<1>4. node[e] # "ready"
  BY <1>1, <1>2, <1>3 DEF fire, LoopGoto
<1>5. e = queue[t][1] /\ 1 \in 1..Len(queue[t]) /\ e \in Events
  BY <1>2, <1>3
<1>6. Contains(queue[t], e)
  BY <1>5 DEF Contains
<1>7. Target[e] = t /\ node[e] = None
  BY <1>2, <1>4, <1>5, <1>6 DEF ExecutorInv, ListsAreOwn, ListOwn
<1>8. Started(e)
  BY <1>6, <1>7 DEF Started, Armed
<1>9. eventState[d] # "QUEUED"
  <2>1. Mates(d, e)
    BY <1>7 DEF Mates
  <2> QED BY <1>5, <1>8, <2>1 DEF ExecutorInv, StartedInOrder
<1>10. ASSUME Armed(d), node[d] = None PROVE FALSE
  <2>1. PICK j \in 1..Len(queue[t]) : queue[t][j] = d
    BY <1>10 DEF Armed, Contains
  <2>2. d \in Nat /\ e \in Nat /\ d < e
    BY <1>5, EventsAssumption
  <2>3. j # 1
    BY <1>5, <2>1, <2>2
  <2>4. 1 < j /\ Requester[queue[t][1]] = Requester[queue[t][j]]
    BY <1>2, <1>5, <2>1, <2>3
  <2>5. queue[t][1] < queue[t][j]
    BY <1>1, <1>5, <1>7, <1>10, <2>1, <2>4 DEF ExecutorInv, QueueSorted
  <2> QED BY <1>5, <2>1, <2>2, <2>5
<1> QED BY <1>9, <1>10 DEF Undelivered

(* For any threads, events and routes: calls from one thread to another are delivered in the
   order in which they were requested (async.h:1077), even when threads serve each other or
   loops exit. *)
THEOREM DeliveryOrder == ExecutorSpec => DeliveredInOrder
<1>1. ExecutorInv /\ [ExecutorNext]_executorVars => [DeliversInOrder]_executorVars
  <2> SUFFICES ASSUME ExecutorInv, ExecutorNext PROVE DeliversInOrder
    OBVIOUS
  <2>1. /\ route' = route /\ route \in Routes
    BY DEF ExecutorNext, ExecutorInv, ExecutorTypeOK
  <2> QED BY FiresInOrder DEF DeliversInOrder
<1> QED BY <1>1, ExecutorInvariant, PTL DEF ExecutorSpec, DeliveredInOrder
=============================================================================
