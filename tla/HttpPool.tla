------------------------------ MODULE HttpPool ------------------------------
(***************************************************************************)
(* The client side of HTTP (libraries/zc/http/http.cc): requests pass a    *)
(* ConcurrencyLimitingHttpClient, which lets at most MaxConcurrent of them *)
(* through, then a NetworkAddressHttpClient, which keeps idle connections  *)
(* for reuse until they time out, and end on an HttpClientImpl, one per    *)
(* connection.  The server may close a connection at any time and the      *)
(* application may drop its request body, its response or a request that   *)
(* still waits, at any time.                                               *)
(***************************************************************************)
EXTENDS Integers, Sequences, FiniteSets

CONSTANTS
  Requests,       \* the requests the application makes, once each
  Conns,          \* connections; one that was destroyed may be opened again
  MaxConcurrent   \* maxConcurrentRequests

ASSUME PoolAssumption == IsFiniteSet(Requests) /\ MaxConcurrent \in Nat

VARIABLES
  req,      \* per request: its phase, connection, and body handle
  conn,     \* per connection: the state of its HttpClientImpl
  avail,    \* availableClients: connections with their expiry, oldest first
  active,   \* activeConnectionCount
  alarm,    \* the expiry timeoutTask waits for; 0: no timeout is scheduled
  now,      \* the expiry given last
  running,  \* concurrentRequests
  queue,    \* pendingRequests
  drain     \* drainedFulfiller: "none", "asked", then "told"

poolVars == <<req, conn, avail, active, alarm, now, running, queue, drain>>

NoConn == [live |-> FALSE, refs |-> 0, pendingMessageCount |-> 0,
           inBody |-> FALSE, broken |-> FALSE, closed |-> FALSE,
           upgraded |-> FALSE, watching |-> FALSE, eof |-> FALSE]

PoolInit ==
  /\ req = [r \in Requests |-> [phase |-> "new", on |-> {}, body |-> FALSE]]
  /\ conn = [c \in Conns |-> NoConn]
  /\ avail = <<>>
  /\ active = 0 /\ alarm = 0 /\ now = 0 /\ running = 0
  /\ queue = <<>>
  /\ drain = "none"

-----------------------------------------------------------------------------
(* A connection: HttpClientImpl.                                            *)

\* Mutant of CanReuse: a response that is still unread is overlooked.
CanReuseUnread(h) == ~h.upgraded /\ ~h.closed /\ ~h.broken /\ ~h.inBody

CanReuse(h) ==
  /\ ~h.upgraded /\ ~h.closed
  /\ h.pendingMessageCount = 0 /\ ~h.broken /\ ~h.inBody

\* request() and openWebSocket(): the headers are written, the response is
\* asked for and whoever watched for a close is cancelled.
SendOn(h, kind) ==
  [h EXCEPT !.pendingMessageCount = @ + 1, !.inBody = kind = "post",
            !.upgraded = kind = "upgrade", !.watching = FALSE]

\* The pool keeps one reference for the body and one for the response.
Handles(kind) == IF kind = "post" THEN 2 ELSE 1

-----------------------------------------------------------------------------
(* The pool: NetworkAddressHttpClient.                                      *)

IsDrained == active = 0 /\ avail = <<>>

\* Idle connections from the newest on, up to the first that can be reused:
\* those before it are discarded.
Reusable == {k \in 1..Len(avail) : CanReuse(conn[avail[k].conn])}
Chosen == CHOOSE k \in Reusable : \A j \in Reusable : j <= k
Kept == IF Reusable = {} THEN 0 ELSE Chosen - 1
Discarded == {avail[k].conn : k \in (Kept + (IF Reusable = {} THEN 1 ELSE 2))
                                    ..Len(avail)}

GetClient(c) ==
  IF Reusable = {} THEN ~conn[c].live ELSE c = avail[Chosen].conn

\* inner.request() for r: a client, its counter and what it sends.
InnerRequest(r, kind, c) ==
  /\ GetClient(c)
  /\ conn' = [d \in Conns |->
                IF d = c THEN [SendOn(conn[c], kind) EXCEPT
                                 !.live = TRUE, !.refs = Handles(kind)]
                ELSE IF d \in Discarded THEN NoConn ELSE conn[d]]
  /\ avail' = SubSeq(avail, 1, Kept)
  /\ active' = active + 1
  /\ req' = [req EXCEPT ![r] = [phase |-> "sent", on |-> {c},
                                body |-> kind = "post"]]

\* applyTimeouts() when it is called: with nothing idle the task ends, and an
\* empty pool with no connection in use is reported as drained.
ApplyTimeouts(idle, inUse) ==
  IF idle = <<>>
  THEN /\ alarm' = 0
       /\ drain' = IF inUse = 0 /\ drain = "asked" THEN "told" ELSE drain
  ELSE alarm' = idle[1].expires /\ UNCHANGED drain

\* Mutant of ReturnClient: only a connection that is kept is accounted for.
ReturnClientKept(c, h) ==
  LET keep == CanReuse(h)
      idle == IF keep THEN Append(avail, [conn |-> c, expires |-> now + 1])
                      ELSE avail
  IN  /\ active' = active - 1
      /\ avail' = idle
      /\ now' = IF keep THEN now + 1 ELSE now
      /\ conn' = [conn EXCEPT ![c] = IF keep THEN [h EXCEPT !.refs = 0]
                                             ELSE NoConn]
      /\ IF keep /\ alarm = 0 THEN ApplyTimeouts(idle, active - 1)
                              ELSE UNCHANGED <<alarm, drain>>

\* What follows the last reference to a connection: the destructor of
\* RefcountedClient and returnClientToAvailable().
ReturnClient(c, h) ==
  LET keep == CanReuse(h)
      idle == IF keep THEN Append(avail, [conn |-> c, expires |-> now + 1])
                      ELSE avail
  IN  /\ active' = active - 1
      /\ avail' = idle
      /\ now' = IF keep THEN now + 1 ELSE now
      /\ conn' = [conn EXCEPT ![c] = IF keep THEN [h EXCEPT !.refs = 0]
                                             ELSE NoConn]
      /\ IF alarm = 0 THEN ApplyTimeouts(idle, active - 1)
                      ELSE UNCHANGED <<alarm, drain>>

\* A handle on connection c is dropped, leaving the client as h.
Release(c, h) ==
  IF h.refs > 1
  THEN /\ conn' = [conn EXCEPT ![c] = [h EXCEPT !.refs = @ - 1]]
       /\ UNCHANGED <<avail, active, alarm, now, drain>>
  ELSE ReturnClient(c, h)

-----------------------------------------------------------------------------
(* The limiter: ConcurrencyLimitingHttpClient.                              *)

Waiting(r) == req[r].phase = "pending"

\* serviceQueue() after a counter is gone: requests that were dropped while
\* they waited are skipped, the first that still waits gets the counter.
ServiceQueue(count, rs) ==
  LET alive == {k \in 1..Len(queue) : rs[queue[k]].phase = "pending"}
      k == CHOOSE i \in alive : \A j \in alive : i <= j
  IN  IF alive = {} \/ count >= MaxConcurrent
      THEN /\ running' = count
           /\ queue' = IF count < MaxConcurrent THEN <<>> ELSE queue
           /\ req' = rs
      ELSE /\ running' = count + 1
           /\ queue' = SubSeq(queue, k + 1, Len(queue))
           /\ req' = [rs EXCEPT ![queue[k]].phase = "granted"]

\* Mutant of DropCounter: nobody looks at the queue.
DropCounterOnly(rs) == running' = running - 1 /\ req' = rs /\ UNCHANGED queue

\* The destructor of ConnectionCounter.
DropCounter(rs) == ServiceQueue(running - 1, rs)

RequestKinds == {"get", "post", "upgrade"}

\* request() or openWebSocket() by the application.
Request(r, kind, c) ==
  /\ req[r].phase = "new"
  /\ running < MaxConcurrent
  /\ InnerRequest(r, kind, c)
  /\ running' = running + 1
  /\ UNCHANGED <<alarm, now, queue, drain>>

RequestWaits(r) ==
  /\ req[r].phase = "new"
  /\ running >= MaxConcurrent
  /\ req' = [req EXCEPT ![r].phase = "pending"]
  /\ queue' = Append(queue, r)
  /\ UNCHANGED <<conn, avail, active, alarm, now, running, drain>>

\* The continuation of a request that has waited for its counter.
RequestGoes(r, kind, c) ==
  /\ req[r].phase = "granted"
  /\ InnerRequest(r, kind, c)
  /\ UNCHANGED <<alarm, now, running, queue, drain>>

\* The application drops a request that waits, or one whose counter is
\* already on its way.
DropWaiting(r) ==
  /\ \/ /\ req[r].phase = "pending"
        /\ req' = [req EXCEPT ![r].phase = "over"]
        /\ UNCHANGED <<running, queue>>
     \/ /\ req[r].phase = "granted"
        /\ DropCounter([req EXCEPT ![r].phase = "over"])
  /\ UNCHANGED <<conn, avail, active, alarm, now, drain>>

-----------------------------------------------------------------------------
(* A request under way.                                                     *)

\* The request body is dropped, written to its end or not.
DropBody(r, c, whole) ==
  /\ req[r].body /\ c \in req[r].on
  /\ LET h == [conn[c] EXCEPT !.inBody = FALSE, !.broken = @ \/ ~whole]
     IN  Release(c, h)
  /\ req' = [req EXCEPT ![r].body = FALSE,
                        ![r].on = IF conn[c].refs = 1 THEN {} ELSE @]
  /\ UNCHANGED <<running, queue>>

\* The head of the response.  101 leaves the connection to the web socket, a
\* refused upgrade makes it an HTTP connection again; Connection: close ends
\* its use, any other answer starts the watch for a close.
Respond(r, c, how) ==
  /\ req[r].phase = "sent" /\ c \in req[r].on
  /\ ~conn[c].eof
  /\ how = "upgraded" => conn[c].upgraded
  /\ req' = [req EXCEPT ![r].phase = "answered"]
  /\ conn' = [conn EXCEPT ![c].closed = @ \/ how = "close",
                          ![c].watching = @ \/ how = "plain",
                          ![c].upgraded = how = "upgraded"]
  /\ UNCHANGED <<avail, active, alarm, now, running, queue, drain>>

\* The application reads the response body to its end.
ReadAll(r, c) ==
  /\ req[r].phase = "answered" /\ c \in req[r].on /\ ~conn[c].upgraded
  /\ req' = [req EXCEPT ![r].phase = "read"]
  /\ conn' = [conn EXCEPT ![c].pendingMessageCount = @ - 1]
  /\ UNCHANGED <<avail, active, alarm, now, running, queue, drain>>

\* The response is dropped, before it came, unread or read to its end, or it
\* fails with the connection: the body, the connection's reference and the
\* limiter's counter go with it, in this order.
DropResponse(r, c) ==
  /\ req[r].phase \in {"sent", "answered", "read"} /\ c \in req[r].on
  /\ LET h == [conn[c] EXCEPT !.broken = @ \/ req[r].phase = "answered"]
     IN  Release(c, h)
  /\ DropCounter([req EXCEPT ![r].phase = "over",
                             ![r].on = IF req[r].body THEN @ ELSE {}])

ServerCloses(c) ==
  /\ conn[c].live /\ ~conn[c].eof
  /\ conn' = [conn EXCEPT ![c].eof = TRUE]
  /\ UNCHANGED <<req, avail, active, alarm, now, running, queue, drain>>

\* closeWatcherTask: once the response is read it sees the end of the stream.
SeeClose(c) ==
  /\ conn[c].watching /\ conn[c].eof /\ conn[c].pendingMessageCount = 0
  /\ conn' = [conn EXCEPT ![c].closed = TRUE, ![c].watching = FALSE]
  /\ UNCHANGED <<req, avail, active, alarm, now, running, queue, drain>>

\* timeoutTask: what has expired by then is destroyed, and the next expiry is
\* waited for.
TimeOut ==
  /\ alarm # 0
  /\ LET n == Cardinality({k \in 1..Len(avail) : avail[k].expires <= alarm})
         idle == SubSeq(avail, n + 1, Len(avail))
     IN  /\ avail' = idle
         /\ conn' = [c \in Conns |-> IF \E k \in 1..n : avail[k].conn = c
                                     THEN NoConn ELSE conn[c]]
         /\ ApplyTimeouts(idle, active)
  /\ UNCHANGED <<req, active, now, running, queue>>

\* NetworkHttpClient asks to be told when the host has no connection left.
OnDrained ==
  /\ drain = "none" /\ ~IsDrained
  /\ drain' = "asked"
  /\ UNCHANGED <<req, conn, avail, active, alarm, now, running, queue>>

PoolNext ==
  \/ \E r \in Requests, kind \in RequestKinds, c \in Conns :
        Request(r, kind, c) \/ RequestGoes(r, kind, c)
  \/ \E r \in Requests : RequestWaits(r) \/ DropWaiting(r)
  \/ \E r \in Requests, c \in Conns :
        \/ \E whole \in BOOLEAN : DropBody(r, c, whole)
        \/ \E how \in {"plain", "close", "upgraded"} : Respond(r, c, how)
        \/ ReadAll(r, c) \/ DropResponse(r, c)
  \/ \E c \in Conns : ServerCloses(c) \/ SeeClose(c)
  \/ TimeOut \/ OnDrained

\* The timer fires.
PoolFairness == WF_poolVars(TimeOut)
PoolSpec == PoolInit /\ [][PoolNext]_poolVars /\ PoolFairness

-----------------------------------------------------------------------------
(* Properties.                                                              *)

\* The limiter counts exactly: the requests that hold a counter, those whose
\* counter is on its way included, never exceed the limit, and a request waits
\* only while the limit is reached, whatever was dropped in whatever order
\* (ConnectionCounter and serviceQueue(), http.cc:6221-6253).
LimitIsExact ==
  /\ running = Cardinality({r \in Requests :
       req[r].phase \in {"granted", "sent", "answered", "read"}})
  /\ running <= MaxConcurrent
  /\ (\E r \in Requests : Waiting(r)) => running = MaxConcurrent
  /\ \A r \in Requests : Waiting(r) => \E k \in 1..Len(queue) : queue[k] = r

\* A pool that has no connection left, in use or idle, reports it to the
\* promise of onDrained(), also when the last connection could not be kept and
\* while a timeout is still scheduled for one that was taken from the pool
\* again (returnClientToAvailable(), applyTimeouts(), http.cc:5738-5772).
EmptiedIsReported == (drain = "asked" /\ IsDrained) ~> (drain = "told" \/ ~IsDrained)

\* An idle connection is nobody's: no request holds it, and everything asked
\* of it was answered and read, so a request that takes it from the pool meets
\* its own response (getClient(), canReuse(), http.cc:5057-5062, 5723-5736).
IdleIsFree ==
  \A k \in 1..Len(avail) :
    LET c == avail[k].conn IN
      /\ conn[c].live
      /\ conn[c].pendingMessageCount = 0 /\ ~conn[c].inBody
      /\ \A r \in Requests : c \notin req[r].on
      /\ \A j \in 1..Len(avail) : avail[j].conn = c => j = k
=============================================================================
