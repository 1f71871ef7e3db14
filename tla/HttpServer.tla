----------------------------- MODULE HttpServer -----------------------------
(***************************************************************************)
(* HttpServer and its Connections (libraries/zc/http/http.cc): each        *)
(* connection runs a loop that waits for a request, reads its head, lets   *)
(* the service answer it and decides whether to go on, while the           *)
(* application may drain the server, timers may run out, and the client    *)
(* may send ahead, stop in the middle or disconnect.  A request is a       *)
(* first piece and the rest of its head, and for a "post" a body; the line *)
(* break after a body that was chunked may come later than the body.       *)
(***************************************************************************)
EXTENDS Integers, Sequences, FiniteSets

CONSTANTS
  Clients,     \* connections to the server
  Methods,     \* "get", "post", "upgrade", "connect"; "bad" does not parse
  MaxRequests  \* bound: the requests the client of each connection sends

ASSUME ServerAssumption == MaxRequests \in [Clients -> Nat]

VARIABLES
  connection,  \* per connection: its loop, its streams, its current request
  draining,    \* drain() was called
  drained      \* the promise drain() returned is fulfilled

serverVars == <<connection, draining, drained>>

Fresh ==
  [phase |-> "new", watched |-> FALSE, lineBreak |-> FALSE, toSend |-> 0, half |-> <<>>,
   wantCleanDrain |-> FALSE,
   wire |-> <<>>, eof |-> FALSE, inflight |-> <<>>, leftover |-> <<>>,
   method |-> "none", bodyLeft |-> FALSE, unanswered |-> FALSE,
   response |-> "none", queued |-> FALSE, closeAfterSend |-> FALSE,
   broken |-> FALSE, upgraded |-> FALSE, rejected |-> FALSE,
   timedOut |-> FALSE, lost |-> FALSE, owed |-> 0, result |-> "none"]

ServerInit ==
  /\ connection = [c \in Clients |-> [Fresh EXCEPT !.toSend = MaxRequests[c]]]
  /\ draining = FALSE /\ drained = FALSE

Running(s) == s.phase \notin {"new", "over"}
ConnectionCount(cs) == Cardinality({c \in Clients : Running(cs[c])})

\* Mutant of Set: drain() is told only by the server itself.
SetSilently(c, s) ==
  connection' = [connection EXCEPT ![c] = s] /\ UNCHANGED <<draining, drained>>

\* Connection c goes on as s; the destructor of the last one tells drain().
Set(c, s) ==
  /\ connection' = [connection EXCEPT ![c] = s]
  /\ drained' = (drained \/ (draining /\ ConnectionCount(connection') = 0))
  /\ UNCHANGED draining

Break(s, result) == [s EXCEPT !.phase = "over", !.result = result]

-----------------------------------------------------------------------------
(* The client and the network.                                              *)

Pieces(m) == IF m = "post" THEN <<<<"rest", m>>, <<"body", m>>>> ELSE <<<<"rest", m>>>>

ClientSends(c) ==
  LET s == connection[c] IN
  /\ Running(s) /\ ~s.eof
  /\ \/ /\ s.half # <<>>
        /\ Set(c, [s EXCEPT !.wire = Append(@, Head(s.half)), !.half = Tail(@)])
     \/ /\ s.half = <<>> /\ s.toSend > 0
        /\ \E m \in Methods :
             Set(c, [s EXCEPT !.wire = Append(@, <<"line", m>>),
                              !.half = Pieces(m), !.toSend = @ - 1])

ClientCloses(c) ==
  /\ Running(connection[c]) /\ ~connection[c].eof
  /\ Set(c, [connection[c] EXCEPT !.eof = TRUE])

\* whenWriteDisconnected() cancels the loop.
Disconnected(c) ==
  /\ Running(connection[c]) /\ connection[c].eof
  /\ Set(c, Break(connection[c], "err"))

-----------------------------------------------------------------------------
(* The loop.                                                                *)

\* listenHttp(), or listenHttpCleanDrain(): the connection is given back and
\* not closed.  A server that is draining takes connections as before.
Accept(c, clean) ==
  /\ connection[c].phase = "new"
  /\ Set(c, [connection[c] EXCEPT !.phase = "await", !.wantCleanDrain = clean])

\* No message is being read and the buffer is empty, but for the line break
\* after a body, which has to be there.
IsCleanDrain(s) == s.phase = "await" /\ s.leftover = <<>> /\ ~s.lineBreak

\* The top of the loop after a request: a drained server stops here if nothing
\* of a next request was read; what was read is looked at without waiting.  A
\* wait that begins before the line break is there does not look at drain().
Continue(s) ==
  LET t == [s EXCEPT !.phase = "await", !.method = "none", !.response = "none",
                     !.watched = s.leftover = <<>> /\ ~s.lineBreak]
  IN  IF draining /\ IsCleanDrain(t) THEN Break(t, "ok")
      ELSE IF t.leftover # <<>> THEN [t EXCEPT !.phase = "head"] ELSE t

\* awaitNextMessage(): the stream completes the read, of the line break too if
\* that was not there yet; the loop learns of it only when the event it queued
\* has run.
ReadCompletes(c, n) ==
  LET s == connection[c] IN
  /\ s.phase = "await" /\ s.inflight = <<>> /\ n <= Len(s.wire)
  /\ Set(c, [s EXCEPT !.inflight = SubSeq(s.wire, 1, n),
                      !.wire = SubSeq(@, n + 1, Len(@))])

FirstByte(c) ==
  LET s == connection[c] IN
  /\ s.phase = "await" /\ s.inflight # <<>>
  /\ Set(c, [s EXCEPT !.phase = "head", !.leftover = s.inflight,
                      !.inflight = <<>>, !.lineBreak = FALSE])

\* The line break comes without anything behind it: the loop reads on.
LineBreakRead(c) ==
  LET s == connection[c] IN
  /\ s.phase = "await" /\ s.lineBreak /\ s.inflight = <<>>
  /\ Set(c, [s EXCEPT !.lineBreak = FALSE])

\* The client closed between requests.
AwaitEnds(c) ==
  LET s == connection[c] IN
  /\ s.phase = "await" /\ s.inflight = <<>> /\ s.wire = <<>> /\ s.eof
  /\ Set(c, Break(s, "err"))

\* onHeaders() with timedOut: the read is cancelled, with what it had taken.
TimedOut(s) ==
  Break([s EXCEPT !.lost = @ \/ s.inflight # <<>>, !.inflight = <<>>],
        IF draining /\ IsCleanDrain(s) THEN "ok" ELSE "err")

\* Mutant of DrainSeen: without evalLast().
DrainSeenAtOnce(c) ==
  LET s == connection[c] IN
  /\ s.phase = "await" /\ s.watched /\ draining
  /\ Set(c, TimedOut(s))

\* Waiting for a further request ends with drain(), through evalLast(): not
\* before every event in the queue has run.
DrainSeen(c) ==
  LET s == connection[c] IN
  /\ s.phase = "await" /\ s.watched
  /\ draining /\ s.inflight = <<>>
  /\ Set(c, TimedOut(s))

\* The pipeline timeout of a further request, the header timeout of the first
\* from the start, that of the others from their first byte on.
Timeout(c) ==
  LET s == connection[c] IN
  /\ s.phase \in {"await", "head"}
  /\ Set(c, TimedOut([s EXCEPT !.timedOut = TRUE]))

ReadHead(c, n) ==
  LET s == connection[c] IN
  /\ s.phase = "head" /\ Len(s.leftover) = 1 /\ n <= Len(s.wire)
  /\ Set(c, [s EXCEPT !.leftover = @ \o SubSeq(s.wire, 1, n),
                      !.wire = SubSeq(@, n + 1, Len(@))])

HeadEnds(c) ==
  LET s == connection[c] IN
  /\ s.phase = "head" /\ Len(s.leftover) = 1 /\ s.wire = <<>> /\ s.eof
  /\ Set(c, Break(s, "err"))

\* sendError(): a response with Connection: close, if none was sent.
SendError(s) ==
  [s EXCEPT !.phase = "error", !.closeAfterSend = TRUE,
            !.queued = @ \/ s.unanswered,
            !.response = IF s.unanswered THEN "done" ELSE @,
            !.unanswered = FALSE]

\* onHeaders(): a bad head is answered at once; onConnect() hands the rest of
\* the stream to the tunnel.
ParseHead(c) ==
  LET s == connection[c]
      m == s.leftover[1][2]
      t == [s EXCEPT !.leftover = IF m = "connect" THEN <<>>
                                  ELSE SubSeq(@, 3, Len(@)),
                     !.lost = @ \/ (m = "connect" /\ Len(s.leftover) > 2),
                     !.method = m, !.unanswered = TRUE, !.owed = @ + 1,
                     !.bodyLeft = m = "post", !.phase = "serve"]
  IN  /\ s.phase = "head" /\ Len(s.leftover) >= 2
      /\ Set(c, IF m = "bad" THEN SendError(t) ELSE t)

\* The factory suspends the request: the connection is given up as it is.
Suspend(c) ==
  LET s == connection[c] IN
  /\ s.phase = "serve" /\ s.unanswered /\ s.wantCleanDrain
  /\ Set(c, Break(s, "err"))

-----------------------------------------------------------------------------
(* The service.                                                             *)

\* send(); for a CONNECT it is reject() that calls it.
SendResponse(c) ==
  LET s == connection[c] IN
  /\ s.phase = "serve" /\ s.unanswered
  /\ Set(c, [s EXCEPT !.unanswered = FALSE, !.queued = TRUE, !.response = "open",
                      !.rejected = s.method = "connect",
                      !.closeAfterSend = \/ @
                                         \/ draining /\ ~s.wantCleanDrain
                                         \/ s.method = "connect"])

\* The response body is dropped, complete or not.
EndResponse(c) ==
  LET s == connection[c] IN
  /\ s.phase = "serve" /\ s.response = "open"
  /\ \/ Set(c, [s EXCEPT !.response = "done"])
     \/ Set(c, [s EXCEPT !.response = "aborted", !.broken = TRUE, !.queued = FALSE])

\* Of a chunked body the line break at the end may not be there yet; it is if
\* something behind it was read.
ReadBody(c, breakLeft) ==
  LET s == connection[c] IN
  /\ s.phase \in {"serve", "grace"} /\ s.bodyLeft
  /\ \/ /\ s.leftover # <<>> /\ (breakLeft => Tail(s.leftover) = <<>>)
        /\ Set(c, [s EXCEPT !.bodyLeft = FALSE, !.lineBreak = breakLeft,
                            !.leftover = Tail(@)])
     \/ /\ s.leftover = <<>> /\ s.wire # <<>>
        /\ Set(c, [s EXCEPT !.bodyLeft = FALSE, !.lineBreak = breakLeft,
                            !.wire = Tail(@)])

AcceptUpgrade(c) ==
  LET s == connection[c] IN
  /\ s.phase = "serve" /\ s.unanswered /\ s.method \in {"upgrade", "connect"}
  /\ Set(c, [s EXCEPT !.unanswered = FALSE, !.upgraded = TRUE, !.queued = TRUE])

\* The service's promise resolves.  A rejected CONNECT ends the loop with the
\* result that reject() has left, any other one without a further answer, once
\* that of accept() is flushed.
ServiceReturns(c) ==
  LET s == connection[c] IN
  /\ s.phase = "serve" /\ s.response # "open"
  /\ Set(c, IF s.rejected THEN Break(s, "ok")
            ELSE IF s.method = "connect"
            THEN IF s.upgraded THEN [s EXCEPT !.phase = "error"] ELSE Break(s, "err")
            ELSE IF s.unanswered THEN SendError(s)
            ELSE IF s.upgraded \/ s.broken THEN Break(s, "err")
            ELSE [s EXCEPT !.phase = "flush"])

\* It throws; an unfinished response goes with it.  For a disconnect nothing
\* is sent.
ServiceThrows(c) ==
  LET s == connection[c]
      t == IF s.response = "open"
           THEN [s EXCEPT !.response = "aborted", !.broken = TRUE, !.queued = FALSE]
           ELSE s
  IN  /\ s.phase = "serve"
      /\ \/ Set(c, IF s.rejected THEN Break(t, "ok") ELSE SendError(t))
         \/ ~s.rejected /\ s.unanswered /\ Set(c, Break(s, "err"))

-----------------------------------------------------------------------------
(* After the response.                                                      *)

Flushed(s) == [s EXCEPT !.queued = FALSE,
                        !.owed = IF s.response = "done" THEN @ - 1 ELSE @]

AfterResponse(s) ==
  IF s.closeAfterSend THEN Break(s, "err") ELSE Continue(s)

\* Mutant of Flush: the rest of an unread body is left in the way.
FlushWithoutGrace(c) ==
  LET s == connection[c] IN
  /\ s.phase \in {"flush", "error"} /\ ~s.broken
  /\ Set(c, IF s.phase = "flush" THEN AfterResponse(Flushed(s)) ELSE Break(s, "err"))

\* What was written has been taken by the client; no timer runs while the loop
\* waits for that.
Flush(c) ==
  LET s == connection[c] IN
  /\ s.phase \in {"flush", "error"} /\ ~s.broken
  /\ Set(c, IF s.phase = "error" THEN Break(Flushed(s), "err")
            ELSE IF s.bodyLeft THEN [Flushed(s) EXCEPT !.phase = "grace"]
            ELSE AfterResponse(Flushed(s)))

\* A stream that an unfinished response has broken is not flushed.
GiveUp(c) ==
  LET s == connection[c] IN
  /\ s.phase = "error" /\ s.broken
  /\ Set(c, Break(s, "err"))

\* The rest of an unread request body is discarded, as far as the grace goes.
GraceEnds(c) ==
  LET s == connection[c] IN
  /\ s.phase = "grace"
  /\ Set(c, IF s.bodyLeft THEN Break(s, "err") ELSE AfterResponse(s))

Drain ==
  /\ ~draining
  /\ draining' = TRUE
  /\ drained' = (ConnectionCount(connection) = 0)
  /\ UNCHANGED connection

\* What the loop does by itself: it needs no more of the client.
Serves(c) ==
  \/ FirstByte(c) \/ AwaitEnds(c) \/ DrainSeen(c) \/ Timeout(c)
  \/ HeadEnds(c) \/ ParseHead(c) \/ GiveUp(c) \/ GraceEnds(c)
  \/ \E n \in 1..(3 * MaxRequests[c]) : ReadCompletes(c, n) \/ ReadHead(c, n)

ServerNext ==
  \/ \E c \in Clients :
       \/ \E clean \in BOOLEAN : Accept(c, clean)
       \/ ClientSends(c) \/ ClientCloses(c) \/ Disconnected(c)
       \/ Serves(c) \/ LineBreakRead(c) \/ Flush(c) \/ Suspend(c)
       \/ SendResponse(c) \/ EndResponse(c) \/ AcceptUpgrade(c)
       \/ \E breakLeft \in BOOLEAN : ReadBody(c, breakLeft)
       \/ ServiceReturns(c) \/ ServiceThrows(c)
  \/ Drain

\* The event loop runs what is ready, timers run out, and the service ends
\* its responses and resolves its promises.  A client owes nothing: it need
\* not send, nor take what is written to it.
ServerFairness ==
  \A c \in Clients : /\ WF_serverVars(Serves(c))
                   /\ WF_serverVars(EndResponse(c))
                   /\ WF_serverVars(ServiceReturns(c))
ServerSpec == ServerInit /\ [][ServerNext]_serverVars /\ ServerFairness

-----------------------------------------------------------------------------
(* Properties.                                                              *)

\* A connection handed back as usable (the loop's BREAK_LOOP_CONN_OK) is one a
\* new server can go on with: drain() was called, no request is left without
\* its answer, none of the answers is still queued or announced a close, and no
\* character of a next request was taken from the stream, except by a timeout
\* that overtakes a completed read.
CleanDrainIsClean ==
  \A c \in Clients : LET s == connection[c] IN
    s.wantCleanDrain /\ s.result = "ok" =>
      /\ draining
      /\ s.owed = 0 /\ ~s.queued /\ ~s.bodyLeft /\ ~s.closeAfterSend
      /\ s.leftover = <<>> /\ (s.lost => s.timedOut)

\* Requests are taken in turn: while the server waits for a head, every
\* earlier request was answered in full, none of its body is left in the way,
\* and what it looks at next is the first piece of a request (onRequest(),
\* canReuse(), the grace period, http.cc:7276-7404).
RequestsAreTakenInTurn ==
  \A c \in Clients : LET s == connection[c] IN
    s.phase \in {"await", "head"} =>
      /\ s.owed = 0 /\ ~s.queued /\ ~s.bodyLeft /\ ~s.broken
      /\ LET next == s.leftover \o s.inflight \o s.wire
         IN  next # <<>> => next[1][1] = "line"

\* The loop waits for the client to take what was written to it.
Unflushed(c) == connection[c].phase \in {"flush", "error"} /\ ~connection[c].broken

\* drain() ends: every connection stops, at the latest when its request is
\* answered or its timer runs out, and the promise is fulfilled, unless some
\* client never again takes what is written to it (drain(), ~Connection()).
DrainReturns == draining ~> (drained \/ \E c \in Clients : []Unflushed(c))
=============================================================================
