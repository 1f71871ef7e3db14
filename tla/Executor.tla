------------------------------ MODULE Executor ------------------------------
(***************************************************************************)
(* zc::Executor and XThreadEvent: running a function on another thread's   *)
(* event loop (libraries/zc/async/async.cc, async-inl.h, async.h).         *)
(*                                                                         *)
(* An XThreadEvent is a promise node of the requesting thread and an event *)
(* of the target thread.  It is never locked by both at once: each thread  *)
(* has an Executor with one mutex over its lists, and a step of this model *)
(* is what is done under one such lock, or by a thread on its own.  The    *)
(* mutex and its wait() are those of module Mutex.                         *)
(*                                                                         *)
(* Application code runs between the turns of a loop and inside the        *)
(* functions the loop executes; it may send an event or destroy the        *)
(* promise of one there.  A failed assertion in a noexcept function, and   *)
(* any use of an event after it was freed, ends the process.               *)
(***************************************************************************)
EXTENDS Naturals, Sequences, FiniteSets, SequencesExt

CONSTANTS
  Loops,    \* threads, each with an event loop
  Events,   \* numbers of the XThreadEvents, in the order they are sent
  Exits,    \* threads whose loop may be destroyed
  Routes    \* who may ask whom

ASSUME EventsAssumption == Events \subseteq Nat \ {0}
ASSUME RoutesAssumption ==
  Routes \subseteq [requester : [Events -> Loops], target : [Events -> Loops],
                    sync : SUBSET Events, polls : SUBSET Loops]

None == "none"
NoEvent == 0

VARIABLES
  route,      \* what the application of this run asks; it never changes
  loopAlive,  \* Executor::Impl::State::loop is not null
  start,      \* State::start of each thread: events to execute
  executing,  \* the events on some State::executing
  cancel,     \* the events on some State::cancel
  replies,    \* the events on some State::replies
  waitingForCancel,
  eventState, \* XThreadEvent::state
  node,       \* XThreadEvent::promiseNode: what func() returned, if a promise
  result,     \* XThreadEvent::result
  resolved,   \* onReadyEvent was armed: the requester's promise resolves
  freed,      \* the event was destroyed
  queue,      \* the events armed on each loop
  loopPc,     \* what the loop of each thread is doing ...
  current,    \* ... for which event
  call,       \* what application code on the thread is in the middle of ...
  subject,    \* ... for which event
  outside,    \* eventsToCancelOutsideLock
  crashed     \* the process has aborted

Requester == route.requester   \* Requester[e]: the thread that sends e
Target == route.target         \* Target[e]: the thread whose loop executes it
SyncEvents == route.sync       \* the events sent by executeSync()
Pollers == route.polls         \* the threads that poll between turns, too

lists == <<start, executing, cancel, replies>>
loopVars == <<queue, loopPc, current>>
callVars == <<call, subject>>
eventVars == <<node, result, resolved, freed>>
executorVars == <<route, loopAlive, lists, waitingForCancel, eventState, eventVars, loopVars,
                  callVars, outside, crashed>>

ExecutorInit ==
  /\ route \in Routes
  /\ loopAlive = [t \in Loops |-> TRUE]
  /\ start = [t \in Loops |-> <<>>]
  /\ executing = {} /\ cancel = {} /\ replies = {}
  /\ waitingForCancel = [t \in Loops |-> FALSE]
  /\ eventState = [e \in Events |-> "UNUSED"]
  /\ node = [e \in Events |-> None]
  /\ result = [e \in Events |-> None]
  /\ resolved = [e \in Events |-> FALSE]
  /\ freed = [e \in Events |-> FALSE]
  /\ queue = [t \in Loops |-> <<>>]
  /\ loopPc = [t \in Loops |-> "loop"]
  /\ current = [t \in Loops |-> NoEvent]
  /\ call = [t \in Loops |-> None]
  /\ subject = [t \in Loops |-> NoEvent]
  /\ outside = [t \in Loops |-> {}]
  /\ crashed = FALSE

LoopGoto(t, place) == loopPc' = [loopPc EXCEPT ![t] = place]
Within(t, step) == call' = [call EXCEPT ![t] = step]
SetState(e, s) == eventState' = [eventState EXCEPT ![e] = s]
Armed(e) == Contains(queue[Target[e]], e)

(* Nothing of the thread is between two locks: its loop may take a turn ... *)
AtLoop(t) == ~crashed /\ loopPc[t] = "loop" /\ call[t] = None /\ outside[t] = {}

(* ... and here application code may act. *)
InApplication(t) ==
  ~crashed /\ loopPc[t] \in {"loop", "execute"} /\ call[t] = None /\ outside[t] = {}

Abort == crashed' = TRUE

----------------------------------------------------------------------------
(* executeAsync(), executeSync(): getLoop() throws if the loop has exited;
   then send() takes the lock of the target. *)

Unsent(e) == eventState[e] = "UNUSED" /\ result[e] = None /\ ~freed[e]

getLoop(t, e) ==
  /\ InApplication(t)
  /\ Requester[e] = t /\ Unsent(e) /\ loopAlive[Target[e]]
  /\ \A d \in Events : d < e /\ Requester[d] = t => ~Unsent(d)
  /\ Within(t, "send")
  /\ subject' = [subject EXCEPT ![t] = e]
  /\ UNCHANGED <<loopAlive, lists, waitingForCancel, eventState, eventVars, loopVars, outside, crashed>>

(* Mutant of Enqueue: last in, first out. *)
EnqueueFirst(u, e) == start' = [start EXCEPT ![u] = <<e>> \o @]

(* Under the lock of u: append to its list of events to start. *)
Enqueue(u, e) == start' = [start EXCEPT ![u] = Append(@, e)]

send(t) ==
  /\ ~crashed /\ call[t] = "send"
  /\ LET e == subject[t]
         u == Target[e]
     IN IF loopAlive[u]
          THEN /\ SetState(e, "QUEUED")
               /\ Enqueue(u, e)
               /\ UNCHANGED result
               /\ Within(t, IF e \in SyncEvents THEN "sync" ELSE None)
               /\ subject' = [subject EXCEPT ![t] = IF e \in SyncEvents THEN e ELSE NoEvent]
          ELSE /\ result' = [result EXCEPT ![e] = "disconnected"]
               /\ UNCHANGED <<eventState, start>>
               /\ Within(t, IF e \in SyncEvents THEN "orphaned" ELSE None)
               /\ subject' = [subject EXCEPT ![t] = IF e \in SyncEvents THEN e ELSE NoEvent]
  /\ UNCHANGED <<loopAlive, executing, cancel, replies, waitingForCancel, node, resolved, freed,
                 loopVars, outside, crashed>>

(* The caller of executeSync() sleeps until the event is done. *)
SyncReturns(t) ==
  /\ ~crashed /\ call[t] = "sync" /\ eventState[subject[t]] = "DONE"
  /\ Within(t, "unlink")
  /\ UNCHANGED <<loopAlive, lists, waitingForCancel, eventState, eventVars, loopVars, subject,
                 outside, crashed>>

----------------------------------------------------------------------------
(* The target's loop *)

(* dispatchCancels(): an event with no promise is done at once, the promise
   of another has to be destroyed outside the lock first. *)
Cancels(t) == {e \in cancel : Target[e] = t}
Finished(t) == {e \in Cancels(t) : node[e] = None}
dispatchCancels(t) ==
  /\ cancel' = cancel \ Cancels(t)
  /\ outside' = [outside EXCEPT ![t] = Cancels(t) \ Finished(t)]

StateAfterCancels(t, e) ==
  IF e \in Finished(t) THEN "DONE" ELSE eventState[e]

isDispatchNeeded(t) ==
  \/ start[t] # <<>> \/ Cancels(t) # {}
  \/ \E e \in replies : Requester[e] = t

(* The loop looks for messages of other threads when it has run out of events
   and, if a busyPollInterval was set, after so many turns. *)
MayPoll(t) == queue[t] = <<>> \/ t \in Pollers

(* Executor::poll() or wait(): start the new events, behind those that are
   armed, acknowledge cancellations, take delivery of replies. *)
dispatchAll(t) ==
  /\ AtLoop(t) /\ loopAlive[t] /\ MayPoll(t) /\ isDispatchNeeded(t)
  /\ LET begun == ToSet(start[t])
         answered == {e \in replies : Requester[e] = t}
     IN /\ executing' = executing \cup begun
        /\ queue' = [queue EXCEPT ![t] = @ \o start[t]]
        /\ eventState' = [e \in Events |->
                       IF e \in begun THEN "EXECUTING" ELSE StateAfterCancels(t, e)]
        /\ replies' = replies \ answered
        /\ resolved' = [e \in Events |-> resolved[e] \/ e \in answered]
  /\ start' = [start EXCEPT ![t] = <<>>]
  /\ dispatchCancels(t)
  /\ UNCHANGED <<loopAlive, waitingForCancel, node, result, freed, loopPc, current, callVars, crashed>>

(* processAsyncCancellations(), once for each event: destroy the promise, and
   disarm the event. *)
destroyPromise(t) ==
  /\ ~crashed
  /\ \E e \in outside[t] :
       /\ node[e] # None
       /\ node' = [node EXCEPT ![e] = None]
       /\ \/ ~Armed(e) /\ UNCHANGED queue
          \/ \E i \in 1..Len(queue[t]) :
               queue[t][i] = e /\ queue' = [queue EXCEPT ![t] = RemoveAt(@, i)]
  /\ UNCHANGED <<loopAlive, lists, waitingForCancel, eventState, result, resolved, freed, loopPc,
                 current, callVars, outside, crashed>>

(* When all are destroyed, acknowledge them together, under the lock. *)
processAsyncCancellations(t) ==
  /\ ~crashed /\ outside[t] # {}
  /\ \A e \in outside[t] : node[e] = None
  /\ eventState' = [e \in Events |-> IF e \in outside[t] THEN "DONE" ELSE eventState[e]]
  /\ outside' = [outside EXCEPT ![t] = {}]
  /\ UNCHANGED <<loopAlive, lists, waitingForCancel, eventVars, loopVars, callVars, crashed>>

(* fire(), first half: execute func(), or collect the result of its promise. *)
fire(t) ==
  /\ AtLoop(t) /\ queue[t] # <<>>
  /\ LET e == Head(queue[t])
     IN /\ current' = [current EXCEPT ![t] = e]
        /\ IF node[e] = "ready"
             THEN /\ node' = [node EXCEPT ![e] = None]
                  /\ result' = [result EXCEPT ![e] = "value"]
                  /\ LoopGoto(t, "reply")
             ELSE LoopGoto(t, "execute") /\ UNCHANGED <<node, result>>
  /\ queue' = [queue EXCEPT ![t] = Tail(@)]
  /\ UNCHANGED <<loopAlive, lists, waitingForCancel, eventState, resolved, freed, callVars, outside, crashed>>

(* fire(), second half: func() has returned a value or thrown, or returned a
   promise to wait for.  An event that was freed meanwhile is written to. *)
executed(t) ==
  /\ InApplication(t) /\ loopPc[t] = "execute"
  /\ LET e == current[t]
     IN IF freed[e]
          THEN Abort /\ UNCHANGED <<node, result, loopPc, current>>
          ELSE /\ UNCHANGED crashed
               /\ \/ /\ result' = [result EXCEPT ![e] = "value"]
                     /\ LoopGoto(t, "reply")
                     /\ UNCHANGED <<node, current>>
                  \/ /\ node' = [node EXCEPT ![e] = "pending"]
                     /\ LoopGoto(t, "loop")
                     /\ current' = [current EXCEPT ![t] = NoEvent]
                     /\ UNCHANGED result
  /\ UNCHANGED <<loopAlive, lists, waitingForCancel, eventState, resolved, freed, queue, callVars, outside>>

(* The promise resolves, in the target's loop, and arms the event. *)
PromiseResolves(t, e) ==
  /\ AtLoop(t) /\ Target[e] = t /\ node[e] = "pending"
  /\ node' = [node EXCEPT ![e] = "ready"]
  /\ queue' = [queue EXCEPT ![t] = Append(@, e)]
  /\ UNCHANGED <<loopAlive, lists, waitingForCancel, eventState, result, resolved, freed, loopPc, current,
                 callVars, outside, crashed>>

(* Mutant of sendReply: the requester of a failed call hears nothing. *)
sendResult(e) ==
  IF e \in SyncEvents \/ result[e] # "value" THEN UNCHANGED <<replies, crashed>>
  ELSE replies' = replies \cup {e} /\ UNCHANGED crashed

(* sendReply(): under the requester's lock; noexcept. *)
sendReply(e) ==
  IF e \in SyncEvents THEN UNCHANGED <<replies, crashed>>
  ELSE IF loopAlive[Requester[e]] THEN replies' = replies \cup {e} /\ UNCHANGED crashed
  ELSE Abort /\ UNCHANGED replies

(* done(): first the reply, then, under the target's lock, the state. *)
reply(t) ==
  /\ ~crashed /\ loopPc[t] = "reply"
  /\ sendReply(current[t])
  /\ LoopGoto(t, "done")
  /\ UNCHANGED <<loopAlive, start, executing, cancel, waitingForCancel, eventState, eventVars, queue,
                 current, callVars, outside>>

(* Mutant of done: the event stays on its list. *)
doneUnlisted(t) ==
  /\ ~crashed /\ loopPc[t] = "done"
  /\ SetState(current[t], "DONE")
  /\ LoopGoto(t, "loop")
  /\ current' = [current EXCEPT ![t] = NoEvent]
  /\ UNCHANGED <<loopAlive, lists, waitingForCancel, eventVars, queue, callVars, outside, crashed>>

done(t) ==
  /\ ~crashed /\ loopPc[t] = "done"
  /\ LET e == current[t]
     IN IF eventState[e] \in {"EXECUTING", "CANCELING"} /\ ~freed[e]
          THEN /\ executing' = executing \ {e}
               /\ cancel' = cancel \ {e}
               /\ SetState(e, "DONE")
               /\ UNCHANGED crashed
          ELSE Abort /\ UNCHANGED <<executing, cancel, eventState>>
  /\ LoopGoto(t, "loop")
  /\ current' = [current EXCEPT ![t] = NoEvent]
  /\ UNCHANGED <<loopAlive, start, replies, waitingForCancel, eventVars, queue, callVars, outside>>

----------------------------------------------------------------------------
(* ~XThreadEventImpl: the requester drops its promise *)

(* ensureDoneOrCanceled(), under the target's lock. *)
ensureDoneOrCanceled(t, e) ==
  /\ InApplication(t)
  /\ Requester[e] = t /\ e \notin SyncEvents /\ ~Unsent(e) /\ ~freed[e]
  /\ subject' = [subject EXCEPT ![t] = e]
  /\ LET u == Target[e]
     IN \/ /\ eventState[e] = "DONE"
           /\ Within(t, "unlink")
           /\ UNCHANGED <<start, executing, cancel, eventState>>
        \/ /\ eventState[e] # "DONE" /\ ~loopAlive[u]
           /\ Within(t, "orphaned")
           /\ UNCHANGED <<start, executing, cancel, eventState>>
        \/ /\ eventState[e] = "QUEUED" /\ loopAlive[u]
           /\ \E i \in 1..Len(start[u]) :
                start[u][i] = e /\ start' = [start EXCEPT ![u] = RemoveAt(@, i)]
           /\ SetState(e, "DONE")
           /\ Within(t, "unlink")
           /\ UNCHANGED <<executing, cancel>>
        \/ /\ eventState[e] = "EXECUTING" /\ loopAlive[u]
           /\ executing' = executing \ {e}
           /\ cancel' = cancel \cup {e}
           /\ SetState(e, "CANCELING")
           /\ Within(t, "declare")
           /\ UNCHANGED start
  /\ UNCHANGED <<loopAlive, replies, waitingForCancel, eventVars, loopVars, outside, crashed>>

(* Mutant of Declare: asks for the cancellation and does not wait for it. *)
DeclareOnly(t) ==
  /\ ~crashed /\ outside[t] = {} /\ call[t] = "declare"
  /\ Within(t, "unlink")
  /\ UNCHANGED <<loopAlive, lists, waitingForCancel, eventState, eventVars, loopVars, subject,
                 outside, crashed>>

(* Tell others that this thread is blocked, and serve them meanwhile, or two
   threads that cancel each other's events would wait for ever. *)
Declare(t) ==
  /\ ~crashed /\ outside[t] = {}
  /\ \/ call[t] = "declare" /\ Within(t, "await")
     \/ call[t] = "retract" /\ Within(t, "unlink")
  /\ waitingForCancel' = [waitingForCancel EXCEPT ![t] = call[t] = "declare"]
  /\ eventState' = [e \in Events |-> StateAfterCancels(t, e)]
  /\ dispatchCancels(t)
  /\ UNCHANGED <<loopAlive, start, executing, replies, eventVars, loopVars, subject, crashed>>

(* Wait, on the target's mutex, for the acknowledgement or for the target to
   be blocked itself. *)
Await(t) ==
  /\ ~crashed /\ outside[t] = {} /\ call[t] = "await"
  /\ \/ eventState[subject[t]] = "DONE" /\ Within(t, "retract")
     \/ /\ eventState[subject[t]] # "DONE" /\ waitingForCancel[Target[subject[t]]]
        /\ Within(t, "declare")
  /\ UNCHANGED <<loopAlive, lists, waitingForCancel, eventState, eventVars, loopVars, subject,
                 outside, crashed>>

(* ~Event() aborts if the event is still in the queue of another thread, and
   ~ListLink() if it is still on a list. *)
Free(t, e) ==
  /\ freed' = [freed EXCEPT ![e] = TRUE]
  /\ crashed' = (Armed(e) \/ e \in replies')
  /\ Within(t, None)
  /\ subject' = [subject EXCEPT ![t] = NoEvent]

(* Take a reply back before the event goes. *)
unlink(t) ==
  /\ ~crashed /\ outside[t] = {} /\ call[t] = "unlink"
  /\ replies' = replies \ {subject[t]}
  /\ Free(t, subject[t])
  /\ UNCHANGED <<loopAlive, start, executing, cancel, waitingForCancel, eventState, node, result, resolved,
                 loopVars, outside>>

(* The target's loop has exited and is disposing of its events: wait for that
   and return at once. *)
OrphanDone(t) ==
  /\ ~crashed /\ call[t] = "orphaned" /\ eventState[subject[t]] = "DONE"
  /\ UNCHANGED replies
  /\ Free(t, subject[t])
  /\ UNCHANGED <<loopAlive, start, executing, cancel, waitingForCancel, eventState, node, result, resolved,
                 loopVars, outside>>

----------------------------------------------------------------------------
(* ~EventLoop() *)

(* An application drops its own promises before it destroys the loop; events
   of others may still be armed. *)
LoopExit(t) ==
  /\ t \in Exits /\ AtLoop(t) /\ loopAlive[t]
  /\ \A e \in Events : Requester[e] = t => Unsent(e) \/ freed[e]
  /\ loopAlive' = [loopAlive EXCEPT ![t] = FALSE]
  /\ LoopGoto(t, "exit")
  /\ UNCHANGED <<lists, waitingForCancel, eventState, eventVars, queue, current, callVars,
                 outside, crashed>>

(* disconnect(): events that were queued or executing are answered with
   DISCONNECTED, those being cancelled are let go; no lock is held. *)
disconnect(t) ==
  /\ ~crashed /\ loopPc[t] = "exit"
  /\ \E e \in Events :
       /\ \/ /\ start[t] # <<>> /\ e = Head(start[t])
             /\ start' = [start EXCEPT ![t] = Tail(@)]
             /\ UNCHANGED executing
          \/ /\ start[t] = <<>> /\ e \in executing /\ Target[e] = t
             /\ executing' = executing \ {e}
             /\ UNCHANGED start
       /\ node' = [node EXCEPT ![e] = None]
       /\ result' = [result EXCEPT ![e] = "disconnected"]
       /\ sendReply(e)
       /\ current' = [current EXCEPT ![t] = e]
  /\ LoopGoto(t, "exitDone")
  /\ UNCHANGED <<loopAlive, cancel, waitingForCancel, eventState, resolved, freed, queue, callVars, outside>>

disconnected(t) ==
  /\ ~crashed /\ loopPc[t] = "exitDone"
  /\ SetState(current[t], "DONE")
  /\ current' = [current EXCEPT ![t] = NoEvent]
  /\ LoopGoto(t, "exit")
  /\ UNCHANGED <<loopAlive, lists, waitingForCancel, eventVars, queue, callVars, outside, crashed>>

(* Mutant of disconnectCanceled: leaves without an acknowledgement. *)
exitSilently(t) ==
  /\ ~crashed /\ loopPc[t] = "exit"
  /\ start[t] = <<>> /\ \A e \in executing : Target[e] # t
  /\ LoopGoto(t, "unqueue")
  /\ UNCHANGED <<loopAlive, lists, waitingForCancel, eventState, eventVars, queue, current, callVars,
                 outside, crashed>>

disconnectCanceled(t) ==
  /\ ~crashed /\ loopPc[t] = "exit"
  /\ start[t] = <<>> /\ \A e \in executing : Target[e] # t
  /\ cancel' = cancel \ Cancels(t)
  /\ node' = [e \in Events |-> IF e \in Cancels(t) THEN None ELSE node[e]]
  /\ eventState' = [e \in Events |-> IF e \in Cancels(t) THEN "DONE" ELSE eventState[e]]
  /\ LoopGoto(t, "unqueue")
  /\ UNCHANGED <<loopAlive, start, executing, replies, waitingForCancel, result, resolved, freed,
                 queue, current, callVars, outside, crashed>>

(* Last, unlink the events that are still armed. *)
unqueue(t) ==
  /\ ~crashed /\ loopPc[t] = "unqueue"
  /\ queue' = [queue EXCEPT ![t] = <<>>]
  /\ LoopGoto(t, "exited")
  /\ UNCHANGED <<loopAlive, lists, waitingForCancel, eventState, eventVars, current, callVars,
                 outside, crashed>>

----------------------------------------------------------------------------
Application(t) ==
  LoopExit(t) \/ \E e \in Events : getLoop(t, e) \/ ensureDoneOrCanceled(t, e)

LoopRuns(t) ==
  /\ \/ send(t) \/ SyncReturns(t) \/ dispatchAll(t)
     \/ destroyPromise(t) \/ processAsyncCancellations(t)
     \/ fire(t) \/ executed(t) \/ reply(t) \/ done(t)
     \/ OrphanDone(t) \/ Declare(t) \/ Await(t) \/ unlink(t)
     \/ disconnect(t) \/ disconnected(t) \/ disconnectCanceled(t) \/ unqueue(t)
  /\ UNCHANGED route

ExecutorNext ==
  /\ \E t \in Loops :
       Application(t) \/ LoopRuns(t) \/ \E e \in Events : PromiseResolves(t, e)
  /\ UNCHANGED route

ExecutorSpec == ExecutorInit /\ [][ExecutorNext]_executorVars

(* Threads keep running, and the functions they execute return; promises and
   the application owe nothing. *)
ExecutorFairSpec == ExecutorSpec /\ \A t \in Loops : WF_executorVars(LoopRuns(t))

----------------------------------------------------------------------------
(* Properties *)

EventStates == {"UNUSED", "QUEUED", "EXECUTING", "CANCELING", "DONE"}
Calls == {None, "send", "sync", "orphaned", "declare", "await", "retract", "unlink"}

(* The variables have their types. *)
ExecutorTypeOK ==
  /\ route \in Routes
  /\ loopAlive \in [Loops -> BOOLEAN]
  /\ start \in [Loops -> Seq(Events)]
  /\ executing \subseteq Events /\ cancel \subseteq Events /\ replies \subseteq Events
  /\ waitingForCancel \in [Loops -> BOOLEAN]
  /\ eventState \in [Events -> EventStates]
  /\ node \in [Events -> {None, "pending", "ready"}]
  /\ result \in [Events -> {None, "value", "disconnected"}]
  /\ resolved \in [Events -> BOOLEAN]
  /\ freed \in [Events -> BOOLEAN]
  /\ queue \in [Loops -> Seq(Events)]
  /\ loopPc \in [Loops -> {"loop", "execute", "reply", "done", "exit", "exitDone", "unqueue",
                       "exited"}]
  /\ current \in [Loops -> Events \cup {NoEvent}]
  /\ call \in [Loops -> Calls]
  /\ subject \in [Loops -> Events \cup {NoEvent}]
  /\ outside \in [Loops -> SUBSET Events]
  /\ crashed \in BOOLEAN

(* The target still holds a reference to the event. *)
OnList(e) ==
  \/ current[Target[e]] = e \/ e \in outside[Target[e]]
  \/ e \in executing \/ e \in cancel \/ Contains(start[Target[e]], e)
InHand(e) == Armed(e) \/ OnList(e)

(* async-inl.h:1838, on DONE: "Target thread has completed handling this
   event and will not touch it again." *)
DoneIsReleased == \A e \in Events : eventState[e] = "DONE" => ~InHand(e)

(* async-inl.h:1795-1796, on ensureDoneOrCanceled(): it makes "sure the object
   is not destroyed while still being accessed by the other thread"; that
   includes the lists of the executors, whose links abort when destroyed
   linked (core/list.h:145-147). *)
NoUseAfterFree == ~crashed /\ \A e \in Events : freed[e] => ~InHand(e) /\ e \notin replies

(* A thread that serves others, asks nobody and keeps the default
   busyPollInterval answers cancellations only when it has nothing armed: not
   while it waits for one itself, and not between two turns. *)
Serving(u) == u \notin Pollers /\ \A d \in Events : Requester[d] # u

(* An answered promise has an answer: the result was stored before the reply
   was sent, and a reply is not sent for an event that was given up. *)
RepliesCarryResults ==
  \A e \in Events : resolved[e] \/ e \in replies => result[e] # None

(* A thread that only serves has let go of an event that is DONE, except that
   ~EventLoop() answers events that it has not disarmed; while the loop lives,
   the requester frees an event only after that and off every list, whenever
   the promise is dropped (async-inl.h:1795-1796, 1838).  While all who are
   asked are such threads, nothing is used after it was freed, and no thread
   at all takes a reply that carries no result. *)
EventsAreReleased ==
  /\ ExecutorTypeOK
  /\ \A e \in Events : Serving(Target[e]) =>
       /\ eventState[e] = "DONE" => ~OnList(e) /\ (Armed(e) => ~loopAlive[Target[e]])
       /\ freed[e] /\ loopAlive[Target[e]] => ~InHand(e) /\ e \notin replies
  /\ (\A e \in Events : Serving(Target[e]) /\ loopAlive[Target[e]]) => NoUseAfterFree
  /\ RepliesCarryResults

(* async.h:1077: calls from one thread to another are delivered in the order
   in which they were requested. *)
Undelivered(d) == eventState[d] = "QUEUED" \/ (Armed(d) /\ node[d] = None)
DeliversInOrder ==
  \A t \in Loops : loopPc[t] = "loop" /\ loopPc'[t] = "execute" =>
    \A d \in Events :
      /\ d < current'[t]
      /\ Requester[d] = Requester[current'[t]] /\ Target[d] = t
      => ~Undelivered(d)
DeliveredInOrder == [][DeliversInOrder]_executorVars

(* A thread that drops the promise of an event that send() refused waits for
   ever for the target; those that need it wait for ever too. *)
Hangs == \E t \in Loops : call[t] = "orphaned" /\ eventState[subject[t]] = "UNUSED"

(* A promise whose event was queued is answered, with the result or with
   DISCONNECTED, unless func() never finishes, the requester drops it or is
   blocked in executeSync() itself, or some thread hangs. *)
Answered(e) == resolved[e] \/ freed[e]
QueuedIsAnswered ==
  \A e \in Events :
    e \notin SyncEvents /\ eventState[e] = "QUEUED" ~>
      \/ Answered(e) \/ crashed \/ node[e] = "pending"
      \/ call[Requester[e]] = "sync" \/ Hangs

(* async.h:1024: if the target's loop has exited, executeAsync() throws
   DISCONNECTED; it never leaves a promise without an answer. *)
SentIsAnswered ==
  \A e \in Events :
    e \notin SyncEvents /\ result[e] = "disconnected" ~> Answered(e) \/ crashed

(* async.h:1073: destroying the promise of an event that was queued blocks
   until the cancellation is acknowledged, and no longer, even if threads
   cancel each other's events or a loop exits. *)
Cancelling(t) ==
  /\ call[t] \in {"orphaned", "declare", "await", "retract", "unlink"}
  /\ eventState[subject[t]] # "UNUSED"
CancelReturns ==
  \A t \in Loops : Cancelling(t) ~> call[t] = None \/ crashed \/ Hangs

(* executeSync() returns, once its event was queued. *)
SyncIsAnswered ==
  \A t \in Loops :
    call[t] = "sync" ~> \/ call[t] = None \/ crashed
                        \/ node[subject[t]] = "pending"
=============================================================================
