----------------------------- MODULE EventLoop -----------------------------
(***************************************************************************)
(* The event queue of a thread and the loops that drain it                 *)
(* (libraries/zc/async/async.cc: Event, EventLoop, WaitScope::poll,        *)
(* waitImpl, pollImpl).                                                    *)
(*                                                                         *)
(* The queue is an intrusive list: an event has a `next` field and a       *)
(* `prev` that points at the field which points at it.  The loop keeps     *)
(* pointers to such fields where events are to be inserted.  The model     *)
(* keeps the fields: a link is &head, &wouldSleepHead, or an event, which  *)
(* stands for &event->next.                                                *)
(***************************************************************************)
EXTENDS Naturals, FiniteSets, SequencesExt

CONSTANTS
  Events,             \* events of this loop
  LoopHead,               \* &EventLoop::head
  WouldSleepHead,     \* &EventLoop::wouldSleepHead
  Null,
  Kinds,              \* the ways in which the program arms events
  MaxTurnCount,       \* largest maxTurnCount given to run() and WaitScope::poll()
  BusyPollInterval    \* WaitScope::busyPollInterval

Links == Events \cup {LoopHead, WouldSleepHead}
Points == {"depthFirst", "breadthFirst", "tail", "wouldSleepTail"}

ASSUME EventsAssumption ==
  /\ LoopHead \notin Events /\ WouldSleepHead \notin Events /\ LoopHead # WouldSleepHead
  /\ Null \notin Links
ASSUME LoopAssumption ==
  /\ Kinds \subseteq {"depthFirst", "breadthFirst", "last", "wouldSleep"}
  /\ MaxTurnCount \in Nat /\ BusyPollInterval \in Nat

VARIABLES
  queue,             \* [at: what each link holds, prev: of each event, point: the insert points]
  runnable,          \* lastRunnableState
  wakeable,          \* the loop has an EventPort or an Executor
  pc,                \* where the thread is
  call,              \* the loop that runs
  limit, turns,      \* its turn limit and the turns counted
  root, fired,       \* RootEvent of waitImpl and pollImpl, and its `fired`
  currentlyFiring,   \* event whose fire() runs
  eventToDestroy     \* what fire() returned

vars == <<queue, runnable, wakeable, pc, call, limit, turns, root, fired, currentlyFiring, eventToDestroy>>
loop == <<wakeable, call, limit, turns, root, fired>>
turn == <<currentlyFiring, eventToDestroy>>

Init ==
  /\ queue = [at |-> [l \in Links |-> Null],
              prev |-> [e \in Events |-> Null],
              point |-> [p \in Points |-> IF p = "wouldSleepTail" THEN WouldSleepHead ELSE LoopHead]]
  /\ runnable = FALSE
  /\ wakeable \in BOOLEAN
  /\ pc = "app" /\ call = "none" /\ limit = 0 /\ turns = 0
  /\ root = Null /\ fired = FALSE
  /\ currentlyFiring = Null /\ eventToDestroy = Null

Armed(e) == queue.prev[e] # Null
isRunnable == queue.at[LoopHead] # Null

----------------------------------------------------------------------------
(* The intrusive list *)

(* Puts e into link l.  Those of the points that were at l move behind e. *)
Link(q, e, l, moving) ==
  [at    |-> [q.at EXCEPT ![e] = q.at[l], ![l] = e],
   prev  |-> [x \in Events |-> CASE x = e -> l
                                 [] x # e /\ x = q.at[l] -> e
                                 [] OTHER -> q.prev[x]],
   point |-> [p \in Points |-> IF p \in moving /\ q.point[p] = l THEN e ELSE q.point[p]]]

(* Takes e out of link l.  Those of the points that were behind e move to l. *)
Unlink(q, e, l, moving) ==
  [at    |-> [q.at EXCEPT ![l] = q.at[e], ![e] = Null],
   prev  |-> [x \in Events |-> CASE x = e -> Null
                                 [] x # e /\ x = q.at[e] -> l
                                 [] OTHER -> q.prev[x]],
   point |-> [p \in Points |-> IF p \in moving /\ q.point[p] = e THEN l ELSE q.point[p]]]

armDepthFirst(q, e) ==
  Link(q, e, q.point["depthFirst"], {"depthFirst", "breadthFirst", "tail"})

armBreadthFirst(q, e) == Link(q, e, q.point["breadthFirst"], {"breadthFirst", "tail"})

(* Mutant of armLast: the latest one is put first, before all other events. *)
armLastAtHead(q, e) == Link(q, e, LoopHead, {"tail"})

(* The breadth-first insert point stays, so further events go before e. *)
armLast(q, e) == Link(q, e, q.point["breadthFirst"], {"tail"})

armWhenWouldSleep(q, e) == Link(q, e, WouldSleepHead, {"wouldSleepTail"})

arm(q, e, kind) ==
  CASE kind = "depthFirst" -> armDepthFirst(q, e)
    [] kind = "breadthFirst" -> armBreadthFirst(q, e)
    [] kind = "last" -> armLast(q, e)
    [] kind = "wouldSleep" -> armWhenWouldSleep(q, e)

(* Mutant of disarm: the tail pointer keeps addressing the cancelled event. *)
disarmKeepingTail(q, e) ==
  IF q.prev[e] = Null THEN q ELSE Unlink(q, e, q.prev[e], Points \ {"tail"})

disarm(q, e) == IF q.prev[e] = Null THEN q ELSE Unlink(q, e, q.prev[e], Points)

(* turn() takes the first event, and resets the depth-first insert point. *)
pop(q) == [Unlink(q, q.at[LoopHead], LoopHead, {"breadthFirst", "tail"})
             EXCEPT !.point["depthFirst"] = LoopHead]

----------------------------------------------------------------------------
(* What the program does: in its own code, in callbacks, in the destructors
   that follow them, and in I/O callbacks. *)

ProgramRuns == pc \in {"app", "fire", "turned"} \/ (wakeable /\ pc \in {"polling", "waiting"})

(* An armed event is left where it is.  The event of a wait belongs to the
   promise, which arms it once. *)
Arm(e, kind) ==
  /\ ProgramRuns
  /\ ~Armed(e)
  /\ e = root => ~fired /\ e # currentlyFiring
  /\ queue' = arm(queue, e, kind)
  /\ runnable' = TRUE
  /\ UNCHANGED <<pc, loop, turn>>

(* disarm(), or the destruction of an event other than the firing one. *)
Disarm(e) ==
  /\ ProgramRuns
  /\ Armed(e) /\ e # root
  /\ queue' = disarm(queue, e)
  /\ UNCHANGED <<runnable, pc, loop, turn>>

(* The first call allocates the Executor, through which other threads can wake
   the loop. *)
getExecutor ==
  /\ ProgramRuns
  /\ ~wakeable
  /\ wakeable' = TRUE
  /\ UNCHANGED <<queue, runnable, pc, call, limit, turns, root, fired, turn>>

----------------------------------------------------------------------------
(* The loops *)

Enter(name, max, event) ==
  /\ pc = "app"
  /\ pc' = "next"
  /\ call' = name /\ limit' = max /\ turns' = 0
  /\ root' = event /\ fired' = FALSE
  /\ UNCHANGED <<wakeable, turn>>

run(max) == Enter("run", max, Null) /\ UNCHANGED <<queue, runnable>>

poll(max) == Enter("poll", max, Null) /\ UNCHANGED <<queue, runnable>>

(* The root event is new.  node->onReady() arms it at once if the promise is
   ready or is one of the yield promises. *)
AwaitRoot(e) ==
  /\ ~Armed(e)
  /\ \/ UNCHANGED <<queue, runnable>>
     \/ \E kind \in Kinds \ {"depthFirst"} :
          queue' = arm(queue, e, kind) /\ runnable' = TRUE

waitImpl(e) == Enter("wait", BusyPollInterval, e) /\ AwaitRoot(e)

pollImpl(e) == Enter("pollImpl", 0, e) /\ AwaitRoot(e)

(* The condition of the loop that calls turn(). *)
Continues == IF call \in {"run", "poll"} THEN turns < limit ELSE ~fired

(* turn(), up to the callback. *)
Fire ==
  /\ pc = "next" /\ Continues /\ isRunnable
  /\ currentlyFiring' = queue.at[LoopHead]
  /\ queue' = pop(queue)
  /\ pc' = "fire"
  /\ UNCHANGED <<runnable, loop, eventToDestroy>>

(* Mutant of FireEnds: the depth-first insert point is reset only at the start
   of a turn. *)
FireEndsKeepingPoint(returned) ==
  /\ pc = "fire"
  /\ returned = Null \/ (returned = currentlyFiring /\ returned # root)
  /\ fired' = (fired \/ currentlyFiring = root)
  /\ currentlyFiring' = Null
  /\ eventToDestroy' = returned
  /\ pc' = "turned"
  /\ UNCHANGED <<queue, runnable, wakeable, call, limit, turns, root>>

(* The callback is over; it may return its event for destruction. *)
FireEnds(returned) ==
  /\ pc = "fire"
  /\ returned = Null \/ (returned = currentlyFiring /\ returned # root)
  /\ fired' = (fired \/ currentlyFiring = root)
  /\ currentlyFiring' = Null
  /\ eventToDestroy' = returned
  /\ queue' = [queue EXCEPT !.point["depthFirst"] = LoopHead]
  /\ pc' = "turned"
  /\ UNCHANGED <<runnable, wakeable, call, limit, turns, root>>

(* turn() destroys the returned event and is over.  waitImpl() polls after
   more than busyPollInterval turns; run() and poll() count their turns. *)
TurnEnds ==
  LET busy == call = "wait" /\ turns + 1 > limit IN
  /\ pc = "turned"
  /\ queue' = IF eventToDestroy = Null THEN queue ELSE disarm(queue, eventToDestroy)
  /\ eventToDestroy' = Null
  /\ turns' = IF call = "pollImpl" \/ busy THEN 0 ELSE turns + 1
  /\ pc' = IF busy THEN "polling" ELSE "next"
  /\ UNCHANGED <<runnable, wakeable, call, limit, root, fired, currentlyFiring>>

(* The loop returns.  The root event, if any, is destroyed; it is not armed. *)
Leave(state) ==
  /\ pc' = "app"
  /\ call' = "none" /\ limit' = 0 /\ turns' = 0
  /\ root' = Null /\ fired' = FALSE
  /\ runnable' = state
  /\ UNCHANGED <<wakeable, turn>>

(* Mutant of Return: a loop always reports an empty queue. *)
ReturnReportingEmpty ==
  /\ pc = "next" /\ ~Continues
  /\ Leave(IF call = "poll" THEN runnable ELSE FALSE)
  /\ UNCHANGED queue

(* The turns are used up, or the promise is ready.  All but WaitScope::poll()
   report whether the queue is empty. *)
Return ==
  /\ pc = "next" /\ ~Continues
  /\ Leave(IF call = "poll" THEN runnable ELSE isRunnable)
  /\ UNCHANGED queue

RunOutOfEvents ==
  /\ pc = "next" /\ Continues /\ ~isRunnable
  /\ call = "run"
  /\ Leave(FALSE)
  /\ UNCHANGED queue

(* Mutant of EnterPort: wait() does not check that anything can wake it. *)
EnterPortBlindly ==
  /\ pc = "next" /\ Continues /\ ~isRunnable
  /\ call \in {"poll", "pollImpl", "wait"}
  /\ pc' = IF call # "wait" \/ queue.at[WouldSleepHead] # Null THEN "polling" ELSE "waiting"
  /\ turns' = IF call = "wait" THEN 0 ELSE turns
  /\ UNCHANGED <<queue, runnable, wakeable, call, limit, root, fired, turn>>

(* EventLoop::wait() polls if somebody wants to know that it would sleep. *)
EnterPort ==
  /\ pc = "next" /\ Continues /\ ~isRunnable
  /\ \/ call \in {"poll", "pollImpl"} /\ pc' = "polling"
     \/ call = "wait" /\ queue.at[WouldSleepHead] # Null /\ pc' = "polling"
     \/ call = "wait" /\ queue.at[WouldSleepHead] = Null /\ wakeable /\ pc' = "waiting"
  /\ turns' = IF call = "wait" THEN 0 ELSE turns
  /\ UNCHANGED <<queue, runnable, wakeable, call, limit, root, fired, turn>>

(* "Nothing to wait for; this thread would hang forever." *)
WaitFails ==
  /\ pc = "next" /\ Continues /\ ~isRunnable
  /\ call = "wait" /\ queue.at[WouldSleepHead] = Null /\ ~wakeable
  /\ Leave(runnable)
  /\ UNCHANGED queue

(* Mutant of PollEnds: the would-sleep event is queued without being taken off
   its list. *)
PollEndsWithoutDisarm ==
  LET sleeper == queue.at[WouldSleepHead]
      awaken == ~isRunnable /\ sleeper # Null IN
  /\ pc = "polling"
  /\ queue' = IF awaken THEN armDepthFirst(queue, sleeper) ELSE queue
  /\ \/ /\ call = "wait" \/ isRunnable \/ awaken
        /\ pc' = "next"
        /\ runnable' = (runnable \/ awaken)
        /\ UNCHANGED <<loop, turn>>
     \/ /\ call # "wait" /\ ~isRunnable /\ ~awaken
        /\ Leave(IF call = "pollImpl" THEN FALSE ELSE runnable)

(* The port returns; if it brought nothing, the next would-sleep event is
   moved to the queue.  A loop that polls for want of events ends if there is
   still none. *)
PollEnds ==
  LET sleeper == queue.at[WouldSleepHead]
      awaken == ~isRunnable /\ sleeper # Null IN
  /\ pc = "polling"
  /\ queue' = IF awaken THEN armDepthFirst(disarm(queue, sleeper), sleeper) ELSE queue
  /\ \/ /\ call = "wait" \/ isRunnable \/ awaken
        /\ pc' = "next"
        /\ runnable' = (runnable \/ awaken)
        /\ UNCHANGED <<loop, turn>>
     \/ /\ call # "wait" /\ ~isRunnable /\ ~awaken
        /\ Leave(IF call = "pollImpl" THEN FALSE ELSE runnable)

WaitEnds ==
  /\ pc = "waiting"
  /\ pc' = "next"
  /\ UNCHANGED <<queue, runnable, loop, turn>>

Next ==
  \/ \E e \in Events : \E kind \in Kinds : Arm(e, kind)
  \/ \E e \in Events : Disarm(e) \/ waitImpl(e) \/ pollImpl(e) \/ FireEnds(e)
  \/ \E max \in 0..MaxTurnCount : run(max) \/ poll(max)
  \/ getExecutor \/ Fire \/ FireEnds(Null) \/ TurnEnds
  \/ Return \/ RunOutOfEvents \/ EnterPort \/ WaitFails \/ PollEnds \/ WaitEnds

Spec == Init /\ [][Next]_vars

(* Callbacks return, and a thread in a loop keeps going.  The port may block
   the thread, but not once events have arrived (async.h:1128-1130). *)
Fairness ==
  /\ WF_vars(Fire) /\ WF_vars(FireEnds(Null)) /\ WF_vars(TurnEnds)
  /\ WF_vars(Return) /\ WF_vars(RunOutOfEvents) /\ WF_vars(EnterPort)
  /\ WF_vars(WaitFails) /\ WF_vars(PollEnds)
  /\ WF_vars(isRunnable /\ WaitEnds)

FairSpec == Spec /\ Fairness

----------------------------------------------------------------------------
(* Properties *)

(* The variables have their types; in particular the turn counters of run(),
   WaitScope::poll() and waitImpl() stay within their limits. *)
TypeOK ==
  /\ queue \in [at : [Links -> Events \cup {Null}],
                prev : [Events -> Links \cup {Null}],
                point : [Points -> Links]]
  /\ runnable \in BOOLEAN /\ wakeable \in BOOLEAN /\ fired \in BOOLEAN
  /\ pc \in {"app", "next", "fire", "turned", "polling", "waiting"}
  /\ call \in {"none", "run", "poll", "wait", "pollImpl"}
  /\ limit \in 0..(MaxTurnCount + BusyPollInterval)
  /\ turns \in 0..(MaxTurnCount + BusyPollInterval)
  /\ {root, currentlyFiring, eventToDestroy} \subseteq Events \cup {Null}

(* The events of the list that starts at link l. *)
Chain(l) ==
  LET from[n \in 0..Cardinality(Events), k \in Links] ==
        IF n = 0 \/ queue.at[k] = Null THEN <<>>
        ELSE <<queue.at[k]>> \o from[n - 1, queue.at[k]]
  IN from[Cardinality(Events), l]

Queued == Chain(LoopHead)
Sleepers == Chain(WouldSleepHead)

(* The number of events before a link of the queue. *)
Place(l) == IF l = LoopHead THEN 0 ELSE CHOOSE i \in DOMAIN Queued : Queued[i] = l

(* The pointers agree: `prev` and what it points at, in both directions; the
   insert points and tails address the heads or fields of armed events, never
   of an event that has fired, was cancelled or destroyed; tails address the
   null at the end; and no point of one list strays into the other, although
   disarm() moves all of them (async.cc, Event::arm*, disarm, turn). *)
PointersAreSound ==
  /\ \A l \in Links : queue.at[l] # Null => queue.prev[queue.at[l]] = l
  /\ \A e \in Events : Armed(e) => queue.at[queue.prev[e]] = e
  /\ \A e \in Events : ~Armed(e) => queue.at[e] = Null
  /\ \A p \in Points : queue.point[p] \in Events => Armed(queue.point[p])
  /\ queue.at[queue.point["tail"]] = Null
  /\ queue.at[queue.point["wouldSleepTail"]] = Null
  /\ \A p \in Points \ {"wouldSleepTail"} : queue.point[p] # WouldSleepHead
  /\ queue.point["wouldSleepTail"] # LoopHead

(* The armed events are those that the two lists reach from their heads, each
   once, whatever was armed, cancelled or moved in between: no event is lost
   and none fires twice.  The insert points are in the queue, and the
   depth-first one is not behind the breadth-first one (async.h:1246-1249). *)
ListsAreExact ==
  LET depthFirst == queue.point["depthFirst"]
      breadthFirst == queue.point["breadthFirst"] IN
  /\ \A e \in Events : Armed(e) <=> Contains(Queued \o Sleepers, e)
  /\ IsInjective(Queued \o Sleepers)
  /\ {depthFirst, breadthFirst} \subseteq {LoopHead} \cup ToSet(Queued)
  /\ Place(depthFirst) <= Place(breadthFirst)

(* Whenever an event is queued, the port has been told that the loop is
   runnable: an external event loop that relies on setRunnable() runs it
   (async.h:1154-1158). *)
WorkIsReported == isRunnable => runnable

(* The pointers implement the schedule that Event documents. *)
Schedule == INSTANCE EventSchedule WITH
  deep <- SubSeq(Queued, 1, Place(queue.point["depthFirst"])),
  wide <- SubSeq(Queued, Place(queue.point["depthFirst"]) + 1, Place(queue.point["breadthFirst"])),
  last <- SubSeq(Queued, Place(queue.point["breadthFirst"]) + 1, Len(Queued)),
  asleep <- Sleepers,
  firing <- currentlyFiring

(* Depth-first events run next in the order of arming, breadth-first ones
   after what was queued, last ones when nothing else is left, and would-sleep
   ones when even the port has nothing (async-inl.h:150-173, async.h:447-483). *)
ImplementsSchedule == Schedule!Spec

(* Events that are armed breadth-first do not starve, even if callbacks arm new
   events for ever, unless they do so depth-first for ever: each fires, is
   cancelled, or the loop returns (async-inl.h:158-161). *)
BreadthFirstIsFair ==
  <>[][\A e \in Events : ~Arm(e, "depthFirst")]_vars =>
    \A e \in Events :
      (pc # "app" /\ Contains(SubSeq(Queued, 1, Place(queue.point["breadthFirst"])), e))
        ~> (~Armed(e) \/ pc = "app")

(* In a thread that nothing outside can wake, a loop never blocks: it runs an
   event or returns, if need be with "Nothing to wait for; this thread would
   hang forever." (async.cc:1786). *)
NeverHangs == (pc = "next" /\ ~wakeable) ~> pc \in {"fire", "app"}
=============================================================================
