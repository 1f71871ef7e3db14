------------------------------ MODULE MCAsync ------------------------------
(* The components of libraries/zc/async that live in one thread, and the
   readiness adaptor of libraries/zc/tls, side by side on small instances.
   One of them moves in each behaviour and the others rest in their initial
   states.  Those that AsyncProofs and PipeProofs prove about are extended, so
   that the run checks the very properties the theorems state. *)
EXTENDS Naturals, Sequences, TaskSet, AsyncPipe, AsyncTee, ReadyStreams, AsyncQueue, UnixPort

CONSTANTS
  ClockTimers   \* the timers of the port that has nothing else

VARIABLES
  active,    \* the component that moves
  tree, leaf, cut, armed, ready, order, out, part, ran, got, broken,
  inbox, arrived, eof, inEdge, inWait, rd, outbox, noSpace, outEdge, outWait,
  wr, pump, counts

-----------------------------------------------------------------------------
(* Expressions that nest the combinators in each other, with a continuation
   wherever a node pulls its dependency. *)
T(kinds, kids) == [kind |-> kinds, kids |-> kids]
RaceInJoin == T(<<"exclusive", "map", "race", "leaf", "leaf", "catch", "leaf">>,
                <<<<2, 3>>, <<4>>, <<5, 6>>, <<>>, <<>>, <<7>>, <<>>>>)
JoinInMap == T(<<"race", "map", "leaf", "all", "leaf", "map", "leaf">>,
               <<<<2, 3>>, <<4>>, <<>>, <<5, 6>>, <<>>, <<7>>, <<>>>>)
ChainInJoin == T(<<"failfast", "chain", "map", "map", "leaf", "eager", "leaf", "leaf">>,
                 <<<<2, 3>>, <<4, 6>>, <<7>>, <<5>>, <<>>, <<8>>, <<>>, <<>>>>)
Forked == T(<<"all", "branch", "exclusive", "branch", "leaf", "hub", "throw", "leaf">>,
            <<<<2, 3>>, <<6>>, <<4, 5>>, <<6>>, <<>>, <<7>>, <<8>>, <<>>>>)
Attached == T(<<"attach", "all", "failfast", "leaf", "map", "leaf", "leaf">>,
              <<<<2>>, <<3, 4>>, <<5, 6>>, <<>>, <<7>>, <<>>, <<>>>>)
Expressions == {RaceInJoin, JoinInMap, ChainInJoin, Forked, Attached}

Promise == INSTANCE PromiseTree WITH Trees <- Expressions

(* What the two ends of the pipe are asked for. *)
ShapesOfWrites == {<<1>>, <<2>>, <<1, 1>>, <<2, 0, 1>>, <<0, 1, 2>>}
PumpsOfInputs == {<<1, 1>>, <<2, 1>>, <<2, 3>>, <<3, 3>>}
ReadsOfPipe == {<<1, 1>>, <<1, 2>>, <<2, 3>>}

(* What a branch of the tee is asked for. *)
ReadsOfBranches == {<<1, 2>>, <<2, 2>>, <<3, 3>>}

Stream == INSTANCE UnixStream WITH
  StreamReads <- {<<1, 1>>, <<1, 3>>, <<2, 2>>, <<2, 3>>},
  Pieces <- {<<1>>, <<0, 0>>, <<1, 0, 2>>, <<0, 2, 1>>},
  IovMax <- 2, FirstBuffer <- 1, Limits <- {1, 3}, SendBuffer <- 2,
  PeerLimit <- 3, WriteLimit <- 4, taken <- counts

(* A port has timers, signals and children; this one has more timers, on a
   finer clock, and nothing else. *)
Clock == INSTANCE UnixPort WITH
  Timers <- ClockTimers, Delays <- {1, 3, 5}, Unit <- 2, MaxUnits <- 2,
  EndOfTime <- 5, Signals <- {}, Children <- {}, MaxListens <- 0

-----------------------------------------------------------------------------
promiseVars == <<tree, leaf, cut, armed, ready, order, out, part, ran, got, broken>>
streamVars == <<inbox, arrived, eof, inEdge, inWait, rd, outbox, noSpace, outEdge,
                outWait, wr, pump, counts>>

Init ==
  /\ active \in {"promise", "tasks", "pipe", "tee", "ready", "queue", "stream", "clock", "port"}
  /\ Promise!PromiseInit /\ (active # "promise" => tree = Attached)
  /\ TaskInit /\ PipeInit /\ TeeInit /\ ReadyInit /\ QueueInit /\ Stream!UnixInit
  /\ IF active = "clock" THEN Clock!PortInit ELSE PortInit

Only(name) == active = name /\ UNCHANGED active
Next ==
  \/ /\ Only("promise") /\ Promise!PromiseNext
     /\ UNCHANGED <<taskVars, pipeVars, teeVars, readyVars, queueVars, streamVars, portVars>>
  \/ /\ Only("tasks") /\ TaskNext
     /\ UNCHANGED <<promiseVars, pipeVars, teeVars, readyVars, queueVars, streamVars, portVars>>
  \/ /\ Only("pipe") /\ PipeNext
     /\ UNCHANGED <<promiseVars, taskVars, teeVars, readyVars, queueVars, streamVars, portVars>>
  \/ /\ Only("tee") /\ TeeNext
     /\ UNCHANGED <<promiseVars, taskVars, pipeVars, readyVars, queueVars, streamVars, portVars>>
  \/ /\ Only("ready") /\ ReadyNext
     /\ UNCHANGED <<promiseVars, taskVars, pipeVars, teeVars, queueVars, streamVars, portVars>>
  \/ /\ Only("queue") /\ QueueNext
     /\ UNCHANGED <<promiseVars, taskVars, pipeVars, teeVars, readyVars, streamVars, portVars>>
  \/ /\ Only("stream") /\ Stream!UnixNext
     /\ UNCHANGED <<promiseVars, taskVars, pipeVars, teeVars, readyVars, queueVars, portVars>>
  \/ /\ Only("clock") /\ Clock!PortNext
     /\ UNCHANGED <<promiseVars, taskVars, pipeVars, teeVars, readyVars, queueVars, streamVars>>
  \/ /\ Only("port") /\ PortNext
     /\ UNCHANGED <<promiseVars, taskVars, pipeVars, teeVars, readyVars, queueVars, streamVars>>

vars == <<active, promiseVars, taskVars, pipeVars, teeVars, readyVars, queueVars,
          streamVars, portVars>>

(* The event loop fires what is armed, and the consumer waits. *)
Spec ==
  /\ Init /\ [][Next]_vars
  /\ WF_promiseVars(active = "promise" /\ Promise!Fire)
  /\ WF_promiseVars(active = "promise" /\ Promise!Take)

-----------------------------------------------------------------------------
(* The properties of the components that are instantiated; those of the others
   are stated in their modules. *)

(* Combinators yield what async.h says of them, and continuations run once,
   those of a join not before all branches have settled; async.cc, get() and
   fire(). *)
ResultIsAsDocumented == Promise!ResultIsAsDocumented /\ Promise!ContinuationsRunOnce

(* When all inputs have settled the consumer gets an answer; async.cc. *)
PromiseSettles == active = "promise" => Promise!PromiseSettles

(* Whoever waits for an edge will see one, and a write that is over has
   written everything; async-io-unix.cc, async-unix.cc. *)
SocketsAreExact == Stream!EdgesAreNotLost /\ Stream!WritesAreComplete
=============================================================================
