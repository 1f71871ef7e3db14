----------------------------- MODULE AsyncQueue ----------------------------
(***************************************************************************)
(* The two places where the library matches arrivals with waiting callers: *)
(* ProducerConsumerQueue with its WaiterQueue (async-queue.h), and the     *)
(* AggregateConnectionReceiver (async-io.cc), which merges the connections *)
(* of several receivers.  Both keep a list of waiters, from which a waiter *)
(* disappears when its promise is dropped, and a list of what came while   *)
(* nobody waited.                                                          *)
(*                                                                         *)
(* Values and connections are numbered in the order in which they arrive,  *)
(* callers in the order in which they ask.                                 *)
(***************************************************************************)
EXTENDS Integers, Sequences, SequencesExt

CONSTANTS Receivers,   \* the children of the aggregate
          MaxArrivals, \* bound on values pushed and on connections accepted
          MaxCallers   \* bound on the calls of pop(), and of accept()

VARIABLES values, waiters, pushed, popped,       \* the queue
          backlog, acceptWaiters, acceptTask,    \* the aggregate
          accepted, asked,
          gone,    \* of each kind, the callers that were rejected or gave up
          answer   \* of each kind, the callers that got something, and what, in order

queueVars == <<values, waiters, pushed, popped, backlog, acceptWaiters, acceptTask,
               accepted, asked, gone, answer>>
popVars    == <<values, waiters, pushed, popped>>
acceptVars == <<backlog, acceptWaiters, acceptTask, accepted, asked>>

Nobody == [callers |-> <<>>, items |-> <<>>]

QueueInit ==
  /\ values = <<>> /\ waiters = <<>> /\ pushed = 0 /\ popped = 0
  /\ backlog = <<>> /\ acceptWaiters = <<>> /\ accepted = 0 /\ asked = 0
  /\ acceptTask = [i \in Receivers |-> "none"]
  /\ gone = [pop |-> {}, accept |-> {}]
  /\ answer = [pop |-> Nobody, accept |-> Nobody]

\* A caller is answered; others give up.
Answer(kind, caller, v) ==
  answer' = [answer EXCEPT ![kind] = [callers |-> Append(@.callers, caller),
                                      items |-> Append(@.items, v)]]
Leave(kind, callers) == gone' = [gone EXCEPT ![kind] = @ \cup callers]
---------------------------------------------------------------------------
(* ProducerConsumerQueue                                                   *)

\* push(): to the oldest waiter, or onto the queue.
Push ==
  /\ pushed < MaxArrivals /\ pushed' = pushed + 1
  /\ IF waiters # <<>>
     THEN /\ Answer("pop", Head(waiters), pushed + 1)
          /\ waiters' = Tail(waiters) /\ UNCHANGED values
     ELSE values' = Append(values, pushed + 1) /\ UNCHANGED <<waiters, answer>>
  /\ UNCHANGED <<popped, gone, acceptVars>>

\* pop(): the oldest value, or a place among the waiters.
Pop ==
  /\ popped < MaxCallers /\ popped' = popped + 1
  /\ IF values # <<>>
     THEN Answer("pop", popped + 1, Head(values)) /\ values' = Tail(values) /\ UNCHANGED waiters
     ELSE waiters' = Append(waiters, popped + 1) /\ UNCHANGED <<values, answer>>
  /\ UNCHANGED <<pushed, gone, acceptVars>>

\* rejectAll(): every waiter is told of the exception.
RejectAll ==
  /\ waiters # <<>> /\ waiters' = <<>>
  /\ Leave("pop", ToSet(waiters))
  /\ UNCHANGED <<values, pushed, popped, answer, acceptVars>>

\* A promise of pop() is dropped: its node leaves the list.
DropPop ==
  /\ \E i \in 1..Len(waiters) :
       waiters' = RemoveAt(waiters, i) /\ Leave("pop", {waiters[i]})
  /\ UNCHANGED <<values, pushed, popped, answer, acceptVars>>
---------------------------------------------------------------------------
(* AggregateConnectionReceiver                                             *)

\* acceptAuthenticated(): from the backlog, or wait and have all children accept.
Accept ==
  /\ asked < MaxCallers /\ asked' = asked + 1
  /\ IF backlog = <<>>
     THEN /\ acceptWaiters' = Append(acceptWaiters, asked + 1)
          /\ acceptTask' = [i \in Receivers |-> IF acceptTask[i] = "none" THEN "accepting" ELSE acceptTask[i]]
          /\ UNCHANGED <<backlog, answer>>
     ELSE /\ Answer("accept", asked + 1, Head(backlog))
          /\ backlog' = Tail(backlog) /\ UNCHANGED <<acceptWaiters, acceptTask>>
  /\ UNCHANGED <<accepted, gone, popVars>>

\* acceptLoop(): a child has a connection, or an exception to pass on.
Accepted(i) ==
  /\ acceptTask[i] = "accepting" /\ accepted < MaxArrivals
  /\ accepted' = accepted + 1
  /\ acceptTask' = [acceptTask EXCEPT ![i] = "accepted"]
  /\ IF acceptWaiters = <<>>
     THEN backlog' = Append(backlog, accepted + 1) /\ UNCHANGED <<acceptWaiters, answer>>
     ELSE /\ Answer("accept", Head(acceptWaiters), accepted + 1)
          /\ acceptWaiters' = Tail(acceptWaiters) /\ UNCHANGED backlog
  /\ UNCHANGED <<asked, gone, popVars>>

\* Mutant of AcceptNext: one connection per request.
AcceptOnce(i) ==
  /\ acceptTask[i] = "accepted"
  /\ acceptTask' = [acceptTask EXCEPT ![i] = "none"]
  /\ UNCHANGED <<backlog, acceptWaiters, accepted, asked, answer, gone, popVars>>

\* The next turn of its loop: accept again while somebody waits.
AcceptNext(i) ==
  /\ acceptTask[i] = "accepted"
  /\ acceptTask' = [acceptTask EXCEPT ![i] = IF acceptWaiters = <<>> THEN "none" ELSE "accepting"]
  /\ UNCHANGED <<backlog, acceptWaiters, accepted, asked, answer, gone, popVars>>

\* A promise of accept() is dropped: ~Waiter() leaves the list.
DropAccept ==
  /\ \E i \in 1..Len(acceptWaiters) :
       acceptWaiters' = RemoveAt(acceptWaiters, i) /\ Leave("accept", {acceptWaiters[i]})
  /\ UNCHANGED <<backlog, acceptTask, accepted, asked, answer, popVars>>

QueueNext ==
  \/ Push \/ Pop \/ RejectAll \/ DropPop
  \/ Accept \/ DropAccept
  \/ \E i \in Receivers : Accepted(i) \/ AcceptNext(i)

QueueSpec == QueueInit /\ [][QueueNext]_queueVars
---------------------------------------------------------------------------
(* Properties                                                              *)

\* Of the arrivals 1..came, those in the answers went to callers and the others are
\* kept; of the callers 1..called, those who have not left got something or wait;
\* both in order, each once.
InOrder(came, called, ans, kept, wait, left) ==
  /\ ans.items \o kept = [i \in 1..came |-> i]
  /\ \A i, j \in 1..Len(ans.callers \o wait) :
       i < j => (ans.callers \o wait)[i] < (ans.callers \o wait)[j]
  /\ ToSet(ans.callers \o wait) = (1..called) \ left
  /\ Len(ans.callers) = Len(ans.items)

\* Callers and arrivals are matched first come, first served, each once, and both
\* sides never wait together: a value or connection that no caller has got is still
\* queued, and a caller that still waits has all the children accepting for it
\* (async-queue.h:103-142; async-io.cc, AggregateConnectionReceiver).
ArrivalsAreMatched ==
  /\ InOrder(pushed, popped, answer.pop, values, waiters, gone.pop)
  /\ InOrder(accepted, asked, answer.accept, backlog, acceptWaiters, gone.accept)
  /\ values = <<>> \/ waiters = <<>>
  /\ backlog = <<>> \/ acceptWaiters = <<>>
  /\ acceptWaiters # <<>> => \A i \in Receivers : acceptTask[i] # "none"

\* "The maximum length of the backlog is the number of children minus 1."
BacklogIsBounded == Len(backlog) <= Cardinality(Receivers) - 1
=============================================================================
