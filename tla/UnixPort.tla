------------------------------ MODULE UnixPort ------------------------------
(***************************************************************************)
(* TimerImpl (timer.cc) inside UnixEventPort (async-unix.cc, epoll): how a *)
(* thread that sleeps in epoll, its own or an outer event loop's, is woken *)
(* by timers, by wake(), by queued events, by signals and by children that *)
(* exit.  The clock ticks in steps finer than the unit epoll sleeps in.    *)
(***************************************************************************)
EXTENDS Integers, Sequences, FiniteSets, FiniteSetsExt, SequencesExt

CONSTANTS
  Timers,      \* the timers ever created
  Delays,      \* how far ahead they are set
  Unit,        \* ticks per epoll timeout unit (a millisecond)
  MaxUnits,    \* the largest timeout, int(maxValue) in the code
  EndOfTime,   \* bound on the clock
  Never,       \* a time that no clock shows and no timer is set to
  Signals,     \* signals onSignal() is called for
  Children,    \* child processes
  MaxListens   \* bound on the calls of onSignal()

ASSUME PortAssumption ==
  /\ Unit \in Nat \ {0} /\ MaxUnits \in Nat /\ EndOfTime \in Nat /\ Never \in Nat
  /\ Delays \subseteq Nat /\ \A d \in Delays : EndOfTime + d < Never
  /\ MaxUnits < Never /\ EndOfTime < Never

VARIABLES
  clock,     \* the monotonic clock
  time,      \* TimerImpl::time, as of the last advanceTo()
  due,       \* the time of each timer created so far
  timers,    \* Impl::timers, the timers neither fired nor dropped
  hooks,     \* TimerImpl::sleepHooks is set
  timerFd,   \* when the timerfd expires, or Never
  armedFlag, \* timerfdIsArmed
  eventFd,   \* the eventfd is readable
  sleeping, runnable,
  mode,      \* "run": the application or the loop runs; "computed": wait() has
             \* computed its timeout; "wait": inside epoll_pwait(); "outer":
             \* another loop polls the epoll fd
  until,     \* the timeout, then the end of the wait, or Never
  spun,      \* "yes": the last wait() ended by its timeout and fired no timer;
             \* "capped": its timeout is the largest there is
  listeners, \* the list of SignalPromiseAdapters, by signal
  pending,   \* signals pending at the process, "CHLD" included
  child,     \* "none", "alive", "zombie", "reaped"
  waiting,   \* children with a ChildExitPromiseAdapter
  told,      \* children whose promise was fulfilled
  listens    \* calls of onSignal() so far

timerVars  == <<time, due, timers>>
fdVars     == <<hooks, timerFd, armedFlag, eventFd, sleeping, runnable>>
signalVars == <<listeners, pending, child, waiting, told, listens>>
portVars   == <<clock, timerVars, fdVars, mode, until, spun, signalVars>>

PortInit ==
  /\ clock = 0 /\ time = 0 /\ due = [t \in Timers |-> Never]
  /\ timers = {} /\ hooks = FALSE
  /\ timerFd = Never /\ armedFlag = FALSE /\ eventFd = FALSE
  /\ sleeping = FALSE /\ runnable = FALSE
  /\ mode = "run" /\ until = Never /\ spun = "no"
  /\ listeners = << >> /\ pending = {} /\ listens = 0
  /\ child = [c \in Children |-> "none"] /\ waiting = {} /\ told = {}

Tick ==
  /\ clock < EndOfTime /\ clock' = clock + 1
  /\ UNCHANGED <<timerVars, fdVars, mode, until, spun, signalVars>>

-----------------------------------------------------------------------------
\* TimerImpl
NextEvent(ts) == IF ts = {} THEN Never ELSE Min({due'[t] : t \in ts})

\* UnixEventPort::updateNextTimerEvent()
UpdateNextTimerEvent(next) ==
  IF next = Never /\ ~armedFlag THEN UNCHANGED <<timerFd, armedFlag>>
  ELSE timerFd' = next /\ armedFlag' = (next # Never)

\* Mutant of AfterDelay: the sleep hooks are not told.
AfterDelayUnnoticed(t, d) ==
  /\ mode \in {"run", "outer"} /\ due[t] = Never
  /\ due' = [due EXCEPT ![t] = (IF hooks THEN clock ELSE time) + d]
  /\ timers' = timers \cup {t}
  /\ UNCHANGED <<clock, time, fdVars, mode, until, spun, signalVars>>

\* atTime() and afterDelay(): the delay counts from the last advanceTo(), or
\* from the clock while an outer loop sleeps.
AfterDelay(t, d) ==
  /\ mode \in {"run", "outer"} /\ due[t] = Never
  /\ LET at == (IF hooks THEN clock ELSE time) + d
     IN  /\ due' = [due EXCEPT ![t] = at]
         /\ timers' = timers \cup {t}
         /\ IF hooks /\ \A u \in timers : at < due[u]
            THEN UpdateNextTimerEvent(at)
            ELSE UNCHANGED <<timerFd, armedFlag>>
  /\ UNCHANGED <<clock, time, hooks, eventFd, sleeping, runnable, mode, until, spun, signalVars>>

\* ~TimerPromiseAdapter(): the timer's promise is dropped.
DropTimer(t) ==
  /\ mode \in {"run", "outer"} /\ t \in timers
  /\ timers' = timers \ {t} /\ UNCHANGED due
  /\ IF hooks /\ due[t] = Min({due[u] : u \in timers})
     THEN UpdateNextTimerEvent(NextEvent(timers \ {t}))
     ELSE UNCHANGED <<timerFd, armedFlag>>
  /\ UNCHANGED <<clock, time, hooks, eventFd, sleeping, runnable, mode, until, spun, signalVars>>

\* timeoutToNextEvent(): round up, so that the wait does not end too early.
TimeoutToNextEvent(start) ==
  LET next == Min({due[t] : t \in timers})
      span == next - start
      ceil == span \div Unit + (IF span % Unit > 0 THEN 1 ELSE 0)
  IN  IF timers = {} THEN Never
      ELSE IF next <= start THEN 0
      ELSE IF span \div Unit >= MaxUnits THEN MaxUnits ELSE ceil

\* advanceTo(clock.now())
Expired == {t \in timers : due[t] <= clock}
AdvanceTo ==
  /\ hooks' = FALSE /\ time' = clock
  /\ timers' = timers \ Expired
  /\ UNCHANGED due

-----------------------------------------------------------------------------
\* Signals and children.  gotSignal(): a SIGCHLD reaps every child that has
\* exited; any other signal answers and unlinks its listeners.
Exited == {c \in Children : child[c] = "zombie"}
\* Mutant of GotSignals: one SIGCHLD reaps one child.
GotOneChild(sigs) ==
  /\ pending' = pending \ sigs
  /\ listeners' = SelectSeq(listeners, LAMBDA s : s \notin sigs)
  /\ IF "CHLD" \in sigs /\ Exited # {}
     THEN \E c \in Exited : /\ child' = [child EXCEPT ![c] = "reaped"]
                            /\ told' = told \cup ({c} \cap waiting)
                            /\ waiting' = waiting \ {c}
     ELSE UNCHANGED <<child, told, waiting>>
  /\ UNCHANGED listens

GotSignals(sigs) ==
  /\ pending' = pending \ sigs
  /\ listeners' = SelectSeq(listeners, LAMBDA s : s \notin sigs)
  /\ IF "CHLD" \in sigs
     THEN /\ child' = [c \in Children |-> IF c \in Exited THEN "reaped" ELSE child[c]]
          /\ told' = told \cup (Exited \cap waiting)
          /\ waiting' = waiting \ Exited
     ELSE UNCHANGED <<child, told, waiting>>
  /\ UNCHANGED listens

\* The signals wait() and poll() unblock.  childSet stays once it is made.
ChildSet == \E c \in Children : child[c] # "none"
Interesting == pending \cap (ToSet(listeners) \cup (IF ChildSet THEN {"CHLD"} ELSE {}))

OnSignal(s) ==
  /\ mode = "run" /\ listens < MaxListens /\ listens' = listens + 1
  /\ listeners' = Append(listeners, s)
  /\ UNCHANGED <<clock, timerVars, fdVars, mode, until, spun, pending, child, waiting, told>>

Raise(s) ==
  /\ s \notin pending /\ pending' = pending \cup {s}
  /\ UNCHANGED <<clock, timerVars, fdVars, mode, until, spun, listeners, child, waiting, told, listens>>

\* fork() and onChildExit() before returning to the loop, as the header asks
Spawn(c) ==
  /\ mode = "run" /\ child[c] = "none"
  /\ child' = [child EXCEPT ![c] = "alive"] /\ waiting' = waiting \cup {c}
  /\ UNCHANGED <<clock, timerVars, fdVars, mode, until, spun, listeners, pending, told, listens>>

ChildExits(c) ==
  /\ child[c] = "alive" /\ child' = [child EXCEPT ![c] = "zombie"]
  /\ pending' = pending \cup {"CHLD"}
  /\ UNCHANGED <<clock, timerVars, fdVars, mode, until, spun, listeners, waiting, told, listens>>

-----------------------------------------------------------------------------
\* The port.
WakeFromThread ==
  /\ ~eventFd /\ eventFd' = TRUE
  /\ UNCHANGED <<clock, timerVars, hooks, timerFd, armedFlag, sleeping, runnable, mode, until, spun, signalVars>>

\* setRunnable(true): an event was queued; while an outer loop sleeps, that
\* must make the epoll fd readable.
SetRunnable ==
  /\ mode \in {"run", "outer"} /\ ~runnable /\ runnable' = TRUE
  /\ eventFd' = (eventFd \/ sleeping) /\ sleeping' = FALSE
  /\ UNCHANGED <<clock, timerVars, hooks, timerFd, armedFlag, mode, until, spun, signalVars>>

\* The loop runs what is queued: setRunnable(false).
RunQueue ==
  /\ mode = "run" /\ runnable /\ runnable' = FALSE
  /\ UNCHANGED <<clock, timerVars, hooks, timerFd, armedFlag, eventFd, sleeping, mode, until, spun, signalVars>>

\* wait(): the timeout, then epoll_pwait() some time later
Wait ==
  /\ mode = "run" /\ ~runnable /\ mode' = "computed"
  /\ sleeping' = FALSE
  /\ until' = TimeoutToNextEvent(clock)
  /\ spun' = IF until' = MaxUnits THEN "capped" ELSE "no"
  /\ UNCHANGED <<clock, timerVars, hooks, timerFd, armedFlag, eventFd, runnable, signalVars>>

EpollWait ==
  /\ mode = "computed" /\ mode' = "wait"
  /\ until' = IF until = Never THEN Never ELSE clock + until * Unit
  /\ UNCHANGED <<clock, timerVars, fdVars, spun, signalVars>>

Readable == eventFd \/ timerFd <= clock

\* processEpollEvents(): consume what was reported, then advance the timers.
ProcessEpollEvents(reported) ==
  /\ eventFd' = (eventFd /\ ~reported)
  /\ IF reported /\ timerFd <= clock
     THEN timerFd' = Never /\ armedFlag' = FALSE
     ELSE UNCHANGED <<timerFd, armedFlag>>
  /\ AdvanceTo
  /\ runnable' = (runnable \/ Expired # {} \/ told' # told \/ listeners' # listeners)
  /\ mode' = "run" /\ until' = Never

\* epoll_pwait() returns: a signal, an event, or the timeout.
WaitReturns ==
  /\ mode = "wait"
  /\ \/ Interesting # {} /\ GotSignals(Interesting) /\ ProcessEpollEvents(FALSE) /\ UNCHANGED spun
     \/ Readable /\ UNCHANGED signalVars /\ ProcessEpollEvents(TRUE) /\ UNCHANGED spun
     \/ /\ ~Readable /\ clock >= until /\ UNCHANGED signalVars /\ ProcessEpollEvents(FALSE)
        /\ spun' = IF Expired = {} /\ spun # "capped" THEN "yes" ELSE "no"
  /\ UNCHANGED <<clock, sleeping>>

\* poll(), from the application, or because the outer loop saw the epoll fd
\* become readable
PortPoll ==
  /\ mode = "run" \/ (mode = "outer" /\ Readable)
  /\ sleeping' = FALSE
  /\ GotSignals(Interesting) /\ ProcessEpollEvents(TRUE)
  /\ UNCHANGED <<clock, spun>>

\* preparePollableFdForSleep(), after which the outer loop sleeps
PreparePollableFdForSleep ==
  /\ mode = "run" /\ listeners = << >> /\ mode' = "outer"
  /\ IF runnable
     THEN eventFd' = TRUE /\ UNCHANGED <<timerFd, armedFlag, sleeping, hooks, due>>
     ELSE /\ UNCHANGED <<due, eventFd>>
          /\ UpdateNextTimerEvent(NextEvent(timers))
          /\ sleeping' = TRUE /\ hooks' = TRUE
  /\ UNCHANGED <<clock, time, timers, runnable, until, spun, signalVars>>

PortNext ==
  \/ Tick \/ WakeFromThread \/ SetRunnable \/ RunQueue
  \/ \E t \in Timers : DropTimer(t) \/ \E d \in Delays : AfterDelay(t, d)
  \/ \E s \in Signals : OnSignal(s) \/ Raise(s)
  \/ \E c \in Children : Spawn(c) \/ ChildExits(c)
  \/ Wait \/ EpollWait \/ WaitReturns \/ PortPoll \/ PreparePollableFdForSleep

PortSpec == PortInit /\ [][PortNext]_portVars

-----------------------------------------------------------------------------
\* No sleep is missed: while another event loop sleeps on the epoll fd, the fd is
\* readable whenever an event is queued or a timer is due, whichever of timers,
\* fulfillers and other threads acted since the sleep was prepared.
SleepIsInterrupted == mode = "outer" /\ (runnable \/ Expired # {}) => Readable

\* wait() does not spin: one that ends by its timeout has a timer to fire,
\* although epoll's unit is coarser than the clock's.
WaitMakesProgress == spun # "yes"

\* Who sleeps is woken in time, and not before: timer.cc, async-unix.cc, wait(),
\* poll() and preparePollableFdForSleep().
PortWakesInTime == SleepIsInterrupted /\ WaitMakesProgress

\* Exits are not lost although SIGCHLDs coalesce: an exited child that somebody
\* waits for and has not been told of has a SIGCHLD still to come, and nobody
\* waits for a child that has been reaped.
ExitsAreReported ==
  \A c \in waiting : child[c] # "reaped" /\ (child[c] = "zombie" => "CHLD" \in pending)
=============================================================================
