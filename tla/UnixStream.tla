----------------------------- MODULE UnixStream -----------------------------
(***************************************************************************)
(* A socket stream on Linux: AsyncStreamFd (async-io-unix.cc) over         *)
(* UnixEventPort::FdObserver (async-unix.cc, the epoll implementation).    *)
(*                                                                         *)
(* epoll is edge-triggered: it reports a change once.  Whoever waits for   *)
(* readability while data is already there, and nothing more comes, waits  *)
(* for ever.  So the stream must see EAGAIN before it waits, and a short   *)
(* read() or write() is not enough, because a signal may cut one short.    *)
(*                                                                         *)
(* Bytes are counted; byte k of a direction is the k-th one ever sent.     *)
(***************************************************************************)
EXTENDS Naturals, Sequences, SequencesExt

CONSTANTS
  StreamReads,  \* <<minBytes, maxBytes>> of the tryRead() calls
  Pieces,       \* the sequences of piece lengths write(pieces) is called with
  IovMax,       \* IOV_MAX
  FirstBuffer,  \* bytes pumpFromOther() reads before it resorts to splice()
  Limits,       \* amounts pumps are asked for
  SendBuffer,   \* size of the kernel's send buffer
  PeerLimit,    \* bound on the bytes the peer sends
  WriteLimit    \* bound on the bytes the application writes

VARIABLES
  inbox,    \* bytes in the receive buffer
  arrived,  \* bytes the peer sent so far
  eof,      \* the peer has shut down its side
  inEdge,   \* epoll has an EPOLLIN to report
  inWait,   \* readFulfiller is set
  rd,       \* the read in progress
  outbox,   \* bytes in the send buffer
  noSpace,  \* the kernel owes an EPOLLOUT: a write found too little space
  outEdge,  \* epoll has an EPOLLOUT to report
  outWait,  \* writeFulfiller is set
  wr,       \* the write in progress
  pump,     \* the pump in progress, from the stream's input to its output
  taken     \* bytes the application consumed, bytes the kernel accepted and
            \* bytes the application asked to write

inVars  == <<inbox, arrived, eof, inEdge, inWait, rd>>
outVars == <<outbox, noSpace, outEdge, outWait, wr>>
unixVars == <<inVars, outVars, pump, taken>>

Least(a, b) == IF a < b THEN a ELSE b
Total(s) == FoldLeft(LAMBDA a, b : a + b, 0, s)

\* An operation runs ("run": its next step is a system call), waits for its
\* fulfiller ("wait"), or is over ("idle").
NoRead  == [st |-> "idle", min |-> 0, max |-> 0]
NoWrite == [st |-> "idle", left |-> << >>]
\* A pump fills its buffer ("fill"), empties it ("flush") or waits for either
\* end.  `splice`: it is past its first buffer; `ended`: its input is.
NoPump  == [st |-> "idle", buf |-> 0, got |-> 0, limit |-> 0, splice |-> FALSE, ended |-> FALSE]

UnixInit ==
  /\ inbox = 0 /\ arrived = 0 /\ eof = FALSE /\ inEdge = FALSE /\ inWait = FALSE
  /\ rd = NoRead
  /\ outbox = 0 /\ noSpace = FALSE /\ outEdge = TRUE /\ outWait = FALSE
  /\ wr = NoWrite /\ pump = NoPump
  /\ taken = [read |-> 0, written |-> 0, asked |-> 0]

-----------------------------------------------------------------------------
\* The peer and the kernel.
PeerSends(k) ==
  /\ ~eof /\ arrived + k <= PeerLimit
  /\ inbox' = inbox + k /\ arrived' = arrived + k /\ inEdge' = TRUE
  /\ UNCHANGED <<eof, inWait, rd, outVars, pump, taken>>

PeerCloses ==
  /\ ~eof /\ eof' = TRUE /\ inEdge' = TRUE
  /\ UNCHANGED <<inbox, arrived, inWait, rd, outVars, pump, taken>>

PeerReads(k) ==
  /\ k <= outbox /\ outbox' = outbox - k
  /\ outEdge' = (outEdge \/ noSpace) /\ noSpace' = FALSE
  /\ UNCHANGED <<inVars, outWait, wr, pump, taken>>

-----------------------------------------------------------------------------
\* tryRead()
StartRead(m) ==
  /\ rd.st = "idle" /\ pump.st = "idle"
  /\ rd' = [st |-> "run", min |-> m[1], max |-> m[2]]
  /\ UNCHANGED <<inbox, arrived, eof, inEdge, inWait, outVars, pump, taken>>

\* whenBecomesReadable(): a new fulfiller replaces an old one.
WaitReadable == inWait' = TRUE /\ rd' = [rd EXCEPT !.st = "wait"]

\* Mutant of ReadSome: a short read counts as EAGAIN.
ReadSomeThenWait(n) ==
  /\ n >= 1 /\ n <= Least(inbox, rd.max)
  /\ inbox' = inbox - n
  /\ taken' = [taken EXCEPT !.read = @ + n]
  /\ rd' = IF n >= rd.min THEN NoRead
           ELSE [rd EXCEPT !.min = @ - n, !.max = @ - n, !.st = "wait"]
  /\ inWait' = (inWait \/ n < rd.min)

\* tryReadInternal(): one ::read() and what follows it.  The kernel hands out
\* what it has, or less when a signal interrupts it.
ReadSome(n) ==
  /\ n >= 1 /\ n <= Least(inbox, rd.max)
  /\ inbox' = inbox - n
  /\ taken' = [taken EXCEPT !.read = @ + n]
  /\ rd' = IF n >= rd.min THEN NoRead
           ELSE [rd EXCEPT !.min = @ - n, !.max = @ - n]
  /\ UNCHANGED inWait

TryReadInternal ==
  /\ rd.st = "run"
  /\ \/ inbox = 0 /\ ~eof /\ WaitReadable /\ UNCHANGED <<inbox, taken>>
     \/ inbox = 0 /\ eof /\ rd' = NoRead /\ UNCHANGED <<inbox, inWait, taken>>
     \/ \E n \in 1 .. inbox : ReadSome(n)
  /\ UNCHANGED <<arrived, eof, inEdge, outVars, pump>>

\* The caller drops the read; the fulfiller stays behind.
CancelRead ==
  /\ rd.st = "wait" /\ rd' = NoRead
  /\ UNCHANGED <<inbox, arrived, eof, inEdge, inWait, outVars, pump, taken>>

-----------------------------------------------------------------------------
\* write(pieces)
StartWrite(p) ==
  /\ wr.st = "idle" /\ pump.st = "idle" /\ taken.asked + Total(p) <= WriteLimit
  /\ wr' = [st |-> "run", left |-> p]
  /\ taken' = [taken EXCEPT !.asked = @ + Total(p)]
  /\ UNCHANGED <<inVars, outbox, noSpace, outEdge, outWait, pump>>

\* The pieces after the kernel took n bytes of them.  Pieces the count covers
\* are dropped, the next one is cut; nothing left ends the write.
RECURSIVE Consumed(_, _)
Consumed(p, n) ==
  IF n < Head(p) THEN <<Head(p) - n>> \o Tail(p)
  ELSE IF Len(p) = 1 THEN << >>
  ELSE Consumed(Tail(p), n - Head(p))

WaitWritable == outWait' = TRUE /\ wr' = [wr EXCEPT !.st = "wait"]

\* writeInternal(): one ::writev() of at most IovMax pieces.
Gathered == Total(SubSeq(wr.left, 1, Least(Len(wr.left), IovMax)))

WriteSome(n) ==
  /\ n >= 1 /\ n <= Least(SendBuffer - outbox, Gathered)
  /\ outbox' = outbox + n
  /\ taken' = [taken EXCEPT !.written = @ + n]
  /\ LET rest == Consumed(wr.left, n)
     IN  wr' = IF rest = << >> THEN NoWrite ELSE [wr EXCEPT !.left = rest]
  /\ UNCHANGED <<noSpace, outWait>>

WriteInternal ==
  /\ wr.st = "run"
  /\ \/ Gathered = 0 /\ wr' = NoWrite /\ UNCHANGED <<outbox, noSpace, outWait, taken>>
     \/ /\ Gathered > 0 /\ outbox = SendBuffer /\ WaitWritable
        /\ noSpace' = TRUE /\ UNCHANGED <<outbox, taken>>
     \/ \E n \in 1 .. SendBuffer : WriteSome(n)
  /\ UNCHANGED <<inVars, outEdge, pump>>

-----------------------------------------------------------------------------
\* tryPumpFrom() with another AsyncStreamFd as the input: here the stream pumps
\* its input to its own output.
StartPump(a) ==
  /\ rd.st = "idle" /\ wr.st = "idle" /\ pump.st = "idle" /\ taken.asked < WriteLimit
  /\ pump' = [NoPump EXCEPT !.st = "fill", !.limit = a]
  /\ UNCHANGED <<inVars, outVars, taken>>

\* One ::read() of pumpFromOther() or one splice() into the pipe of
\* splicePumpLoop().  The former reads on until its buffer is full or there is
\* nothing to read; the latter flushes after every splice and waits for input.
PumpFill ==
  /\ pump.st = "fill"
  /\ LET room == IF pump.splice THEN pump.limit - pump.got
                 ELSE Least(FirstBuffer, pump.limit) - pump.got
     IN  \/ /\ room = 0 /\ pump' = [pump EXCEPT !.st = "flush"]
            /\ UNCHANGED <<inbox, inWait, taken>>
         \/ /\ room > 0 /\ inbox = 0 /\ eof
            /\ pump' = [pump EXCEPT !.st = "flush", !.ended = TRUE]
            /\ UNCHANGED <<inbox, inWait, taken>>
         \/ /\ room > 0 /\ inbox = 0 /\ ~eof
            /\ inWait' = (inWait \/ pump.splice)
            /\ pump' = [pump EXCEPT !.st = IF pump.splice THEN "waitIn" ELSE "flush"]
            /\ UNCHANGED <<inbox, taken>>
         \/ \E n \in 1 .. Least(inbox, room) :
              /\ inbox' = inbox - n
              /\ pump' = [pump EXCEPT !.buf = @ + n, !.got = @ + n,
                                      !.st = IF pump.splice THEN "flush" ELSE "fill"]
              /\ taken' = [taken EXCEPT !.read = @ + n, !.asked = @ + n]
              /\ UNCHANGED inWait
  /\ UNCHANGED <<arrived, eof, inEdge, rd, outVars>>

\* write() of what the first buffer holds, or splice() out of the pipe; once it
\* is empty the pump ends or goes on with splice().
PumpFlush ==
  /\ pump.st = "flush"
  /\ \/ /\ pump.buf = 0
        /\ pump' = IF pump.ended \/ pump.got = pump.limit THEN NoPump
                   ELSE [pump EXCEPT !.st = "fill", !.splice = TRUE]
        /\ UNCHANGED <<outbox, noSpace, outWait, taken>>
     \/ /\ pump.buf > 0 /\ outbox = SendBuffer
        /\ outWait' = TRUE /\ noSpace' = TRUE
        /\ pump' = [pump EXCEPT !.st = "waitOut"]
        /\ UNCHANGED <<outbox, taken>>
     \/ \E n \in 1 .. Least(SendBuffer - outbox, pump.buf) :
          /\ outbox' = outbox + n
          /\ pump' = [pump EXCEPT !.buf = @ - n]
          /\ taken' = [taken EXCEPT !.written = @ + n]
          /\ UNCHANGED <<noSpace, outWait>>
  /\ UNCHANGED <<inVars, outEdge, wr>>

-----------------------------------------------------------------------------
\* The event port: epoll_wait() reports the edges, processEpollEvents() calls
\* FdObserver::fire(), which fulfils and forgets the fulfillers; the loop then
\* runs the continuation, which tries again.
Poll ==
  /\ inEdge \/ outEdge
  /\ inEdge' = FALSE /\ outEdge' = FALSE
  /\ inWait' = (inWait /\ ~inEdge)
  /\ outWait' = (outWait /\ ~outEdge)
  /\ rd' = IF inEdge /\ inWait /\ rd.st = "wait" THEN [rd EXCEPT !.st = "run"] ELSE rd
  /\ wr' = IF outEdge /\ outWait /\ wr.st = "wait" THEN [wr EXCEPT !.st = "run"] ELSE wr
  /\ pump' = [pump EXCEPT !.st =
       CASE @ = "waitIn" /\ inEdge /\ inWait -> "fill"
         [] @ = "waitOut" /\ outEdge /\ outWait -> "flush"
         [] OTHER -> @]
  /\ UNCHANGED <<inbox, arrived, eof, outbox, noSpace, taken>>

UnixNext ==
  \/ \E k \in 1 .. 2 : PeerSends(k) \/ PeerReads(k)
  \/ PeerCloses
  \/ \E m \in StreamReads : StartRead(m)
  \/ TryReadInternal \/ CancelRead
  \/ \E p \in Pieces : StartWrite(p)
  \/ WriteInternal
  \/ \E a \in Limits : StartPump(a)
  \/ PumpFill \/ PumpFlush
  \/ Poll

-----------------------------------------------------------------------------
\* Nobody misses an edge: an operation that waits has a fulfiller to answer it,
\* and if it could make progress now, epoll still has something to report.
EdgesAreNotLost ==
  /\ rd.st = "wait" \/ pump.st = "waitIn" => inWait /\ (inbox > 0 \/ eof => inEdge)
  /\ wr.st = "wait" \/ pump.st = "waitOut" => outWait /\ (outbox < SendBuffer => outEdge) /\ (~outEdge => noSpace)

\* A write that is over has written everything it was given, a pump everything
\* it took, and a read never takes more than arrived.
WritesAreComplete ==
  /\ taken.written + Total(wr.left) + pump.buf = taken.asked
  /\ taken.read + inbox = arrived
=============================================================================
