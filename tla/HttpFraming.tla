----------------------------- MODULE HttpFraming -----------------------------
(***************************************************************************)
(* One direction of an HTTP/1.1 connection (libraries/zc/http/http.cc):    *)
(* HttpOutputStream and its entity writers put messages on the wire,       *)
(* HttpInputStreamImpl and its entity readers take them off again.  The    *)
(* wire carries characters: a whole message head is one of them, so is a   *)
(* chunk size and so is a byte of a body, but line ends keep their two     *)
(* characters, because the reader must cope with a read that ends between  *)
(* them.  The application at each end may stop at any point: cancel a      *)
(* write, drop a body that is not finished, lose the connection.           *)
(***************************************************************************)
EXTENDS Integers, Sequences, SequencesExt

CONSTANTS
  Lengths,      \* the Content-Lengths messages are sent with
  WriteSizes,   \* the sizes the application writes
  Pumps,        \* pairs of what tryGetLength() promises and what there is
  MaxMessages,  \* bound: messages per connection
  MaxBody,      \* bound: bytes written to one body
  MaxRead       \* bound: what one read returns

\* An empty write is answered before anything is sent, and a pump asks its source
\* for no more than the source has promised.
ASSUME FramingAssumption ==
  /\ Lengths \subseteq Nat /\ WriteSizes \subseteq Nat \ {0}
  /\ Pumps \subseteq Nat \X Nat /\ \A p \in Pumps : p[2] <= p[1]
  /\ MaxRead \in Nat

VARIABLES
  out,    \* HttpOutputStream with the entity writer of its current message
  wire,   \* characters the inner stream has accepted and not yet handed over
  eof,    \* nothing follows on the wire
  in,     \* HttpInputStreamImpl with the entity reader of its current message
  sent,   \* history: per message, its framing, the bytes written, ended or not
  rcvd    \* history: per message, its framing, the bytes read, ended or not

httpVars == <<out, wire, eof, in, sent, rcvd>>

Chunked == -1                     \* Transfer-Encoding: chunked
Framings == Lengths \cup {Chunked}
CR == <<"cr", 0>>
LF == <<"lf", 0>>
CRLF == <<CR, LF>>
MessageHead(f) == <<<<"head", f>>>> \o CRLF \o CRLF
ChunkSize(n) == <<<<"size", n>>>> \o CRLF
Bytes(from, n) == [i \in 1..n |-> <<"byte", from + i>>]

-----------------------------------------------------------------------------
(* Sending.  queue holds what queueWrite() has taken over; text is what an  *)
(* application write or pump still has to hand over, after the queue.       *)

NoOp == [kind |-> "none", promised |-> 0, count |-> 0]

HttpInit ==
  /\ out = [queue |-> <<>>, text |-> <<>>, op |-> NoOp, inBody |-> FALSE,
            writeInProgress |-> FALSE, broken |-> FALSE, framing |-> 0,
            length |-> 0, finished |-> TRUE]
  /\ wire = <<>>
  /\ eof = FALSE
  /\ in = [phase |-> "idle", asked |-> 0, pendingMessageCount |-> 0,
           leftover |-> <<>>, buffer |-> <<>>, lineBreak |-> FALSE,
           left |-> 0, busy |-> FALSE, clean |-> TRUE, broken |-> FALSE,
           bad |-> FALSE]
  /\ sent = <<>>
  /\ rcvd = <<>>

\* A broken stream's queue is an exception that later writes only prolong.
QueueWrite(o, text) ==
  [o EXCEPT !.queue = IF o.broken THEN <<>> ELSE @ \o text]

CanWriteBodyData(o) == ~o.writeInProgress /\ o.inBody
CanReuseOutput == ~out.inBody /\ ~out.broken /\ ~out.writeInProgress

FinishBody(o) ==
  IF o.writeInProgress
  THEN [o EXCEPT !.inBody = FALSE, !.broken = TRUE, !.queue = <<>>]
  ELSE [o EXCEPT !.inBody = FALSE]

AbortBody(o) ==
  IF o.inBody THEN [o EXCEPT !.inBody = FALSE, !.broken = TRUE, !.queue = <<>>]
              ELSE o

DoneWriting(o) == FinishBody([o EXCEPT !.finished = TRUE])

\* A message has ended once its writer has declared the end of its body.
Note(o) == [sent EXCEPT ![Len(sent)].ended =
              @ \/ (o.finished /\ ~o.broken)]

WriteHeaders(f) ==
  /\ Len(sent) < MaxMessages
  /\ out.finished /\ ~out.writeInProgress /\ ~out.inBody /\ ~eof
  /\ LET o == [QueueWrite(out, MessageHead(f)) EXCEPT
                 !.inBody = TRUE, !.framing = f, !.length = f,
                 !.finished = FALSE]
     IN  out' = IF f = 0 THEN DoneWriting(o) ELSE o
  /\ sent' = Append(sent, [framing |-> f, bytes |-> 0, ended |-> f = 0])
  /\ UNCHANGED <<wire, eof, in, rcvd>>

\* The part every application write shares: it waits for the queue, then
\* hands over `text`.
StartWrite(o, text, op) ==
  [o EXCEPT !.writeInProgress = TRUE, !.text = text, !.op = op]

MayWrite == ~out.finished /\ CanWriteBodyData(out)
Body == Last(sent).bytes

WroteBytes(n) == sent' = [sent EXCEPT ![Len(sent)].bytes = @ + n]

FixedWrite(n) ==
  /\ MayWrite /\ out.framing # Chunked
  /\ n <= out.length
  /\ out' = StartWrite([out EXCEPT !.length = @ - n], Bytes(Body, n),
                       [NoOp EXCEPT !.kind = "write"])
  /\ WroteBytes(n)
  /\ UNCHANGED <<wire, eof, in, rcvd>>

ChunkedWrite(n) ==
  /\ MayWrite /\ out.framing = Chunked
  /\ Body + n <= MaxBody
  /\ out' = StartWrite(out, ChunkSize(n) \o Bytes(Body, n) \o CRLF,
                       [NoOp EXCEPT !.kind = "write"])
  /\ WroteBytes(n)
  /\ UNCHANGED <<wire, eof, in, rcvd>>

\* pumpFrom() asks its source for no more than what is left of the body (the
\* look for one byte beyond it changes only what the caller is told).
FixedPump(p) ==
  /\ MayWrite /\ out.framing # Chunked
  /\ p[1] <= out.length
  /\ out' = StartWrite([out EXCEPT !.length = @ - p[1]], Bytes(Body, p[2]),
                       [kind |-> "pump", promised |-> p[1], count |-> p[2]])
  /\ WroteBytes(p[2])
  /\ UNCHANGED <<wire, eof, in, rcvd>>

ChunkedPump(p) ==
  /\ MayWrite /\ out.framing = Chunked
  /\ Body + p[2] <= MaxBody
  /\ out' = StartWrite(QueueWrite(out, ChunkSize(p[1])), Bytes(Body, p[2]),
                       [kind |-> "pump", promised |-> p[1], count |-> p[2]])
  /\ WroteBytes(p[2])
  /\ UNCHANGED <<wire, eof, in, rcvd>>

\* The inner stream takes what it likes of the queue, then of the write; a
\* write that waits for a failed queue never gets that far.
InnerAccepts(n) ==
  /\ ~eof /\ ~out.broken
  /\ \/ /\ out.queue # <<>> /\ n <= Len(out.queue)
        /\ wire' = wire \o SubSeq(out.queue, 1, n)
        /\ out' = [out EXCEPT !.queue = SubSeq(@, n + 1, Len(@))]
     \/ /\ out.queue = <<>> /\ out.op.kind # "none"
        /\ out.text # <<>> /\ n <= Len(out.text)
        /\ wire' = wire \o SubSeq(out.text, 1, n)
        /\ out' = [out EXCEPT !.text = SubSeq(@, n + 1, Len(@))]
  /\ UNCHANGED <<eof, in, sent, rcvd>>

\* Mutant of AfterChunked: a short pump ends its chunk all the same.
AfterChunkedAnyway(o, short) ==
  IF o.op.kind = "write" THEN o ELSE QueueWrite(o, CRLF)

\* What follows the co_await of each write: the Content-Length writers end
\* the body at its last byte, a chunked pump ends its chunk, or gives up on
\* the message when the source was shorter than it had said.
AfterFixed(o, short) ==
  LET p == [o EXCEPT !.length = @ + short]
  IN  IF p.length = 0 THEN DoneWriting(p) ELSE p

AfterChunked(o, short) ==
  IF o.op.kind = "write" THEN o
  ELSE IF short > 0 THEN AbortBody(o) ELSE QueueWrite(o, CRLF)

WriteReturns ==
  /\ out.op.kind # "none" /\ ~out.broken
  /\ out.queue = <<>> /\ out.text = <<>>
  /\ LET short == out.op.promised - out.op.count
         o == [out EXCEPT !.writeInProgress = FALSE]
         p == [IF out.framing = Chunked THEN AfterChunked(o, short)
                                        ELSE AfterFixed(o, short)
               EXCEPT !.op = NoOp]
     IN  out' = p /\ sent' = Note(p)
  /\ UNCHANGED <<wire, eof, in, rcvd>>

\* The promise of a write is dropped, or fails with the queue it waits for or
\* with the connection: writeInProgress stays set.
CancelWrite ==
  /\ out.op.kind # "none"
  /\ out' = [out EXCEPT !.op = NoOp, !.text = <<>>]
  /\ UNCHANGED <<wire, eof, in, sent, rcvd>>

\* The entity writer's destructor.
DropWriter ==
  /\ ~out.finished /\ out.op.kind = "none"
  /\ LET o == IF out.framing = Chunked /\ CanWriteBodyData(out)
              THEN DoneWriting(QueueWrite(out, ChunkSize(0) \o CRLF))
              ELSE [AbortBody(out) EXCEPT !.finished = TRUE]
     IN  out' = o /\ sent' = Note(o)
  /\ UNCHANGED <<wire, eof, in, rcvd>>

\* The connection ends: its owner closes it, or it is lost at any point.
CloseWire ==
  /\ ~eof
  /\ eof' = TRUE
  /\ out' = [out EXCEPT !.queue = <<>>, !.text = <<>>, !.op = NoOp]
  /\ UNCHANGED <<wire, in, sent, rcvd>>

-----------------------------------------------------------------------------
(* Receiving.                                                               *)

CanReuseInput == ~in.broken /\ in.pendingMessageCount = 0

\* readMessageHeaders(): queued behind the message being read.
ReadMessage ==
  /\ in.pendingMessageCount < MaxMessages
  /\ in' = [in EXCEPT !.asked = @ + 1, !.pendingMessageCount = @ + 1]
  /\ UNCHANGED <<out, wire, eof, sent, rcvd>>

NextMessage ==
  /\ in.phase = "idle" /\ in.asked > 0
  /\ in' = [in EXCEPT !.phase = "head", !.asked = @ - 1, !.buffer = <<>>]
  /\ UNCHANGED <<out, wire, eof, sent, rcvd>>

\* What a read of at least one character takes: what is left over, or some of
\* what has arrived; n = 0 is the end of the stream.
Arrives(n) ==
  IF in.leftover # <<>> THEN n = Len(in.leftover)
  ELSE \/ n \in 1..Len(wire) /\ n <= MaxRead
       \/ n = 0 /\ wire = <<>> /\ eof

Arrived(n) == IF in.leftover # <<>> THEN in.leftover ELSE SubSeq(wire, 1, n)
WireAfter(n) == IF in.leftover # <<>> THEN wire ELSE SubSeq(wire, n + 1, Len(wire))

Fail(i) == [i EXCEPT !.phase = "failed", !.busy = FALSE]

FinishRead(i) ==
  [i EXCEPT !.phase = "idle", !.pendingMessageCount = @ - 1, !.busy = FALSE]

\* The line break expected before a header, taken off the characters that
\* follow those already in the buffer.
SkipLineBreak(i, new) ==
  IF ~i.lineBreak THEN [i |-> i, new |-> new]
  ELSE LET cr == i.buffer = <<>> /\ Head(new) = CR
           b == IF cr THEN <<CR>> ELSE i.buffer
           t == IF cr THEN Tail(new) ELSE new
       IN  IF t # <<>> /\ Head(t) = LF
           THEN [i |-> [i EXCEPT !.lineBreak = FALSE, !.buffer = <<>>],
                 new |-> Tail(t)]
           ELSE [i |-> [i EXCEPT !.buffer = b], new |-> t]

\* Where the header ends: a chunk's at any line end, a message's at an empty
\* line.
Ends(type, s, from) ==
  {p \in (from + 1)..Len(s) :
     /\ s[p] = LF
     /\ type = "chunk" \/ (p >= 5 /\ (s[p - 1] = LF
                                      \/ (s[p - 1] = CR /\ s[p - 2] = LF)))}

Unterminated(s) ==
  SubSeq(s, 1, Len(s) - (IF Len(s) > 1 /\ s[Len(s) - 1] = CR THEN 2 ELSE 1))

Malformed(i) == [Fail(i) EXCEPT !.bad = TRUE]

\* getEntityBody(): a body of length 0 is finished at once.
StartBody(i, f) ==
  LET j == [i EXCEPT !.phase = "body", !.left = IF f = Chunked THEN 0 ELSE f,
                     !.busy = FALSE, !.clean = TRUE]
  IN  IF f = 0 THEN FinishRead(j) ELSE j

HeadRead(i, text) ==
  IF Len(text) = 3 /\ text[1][1] = "head" /\ Tail(text) = CRLF
  THEN /\ in' = StartBody(i, text[1][2])
       /\ rcvd' = Append(rcvd, [framing |-> text[1][2], data |-> <<>>,
                                ended |-> text[1][2] = 0])
  ELSE in' = Malformed(i) /\ UNCHANGED rcvd

\* Mutant of ChunkHeaderRead: no line break is expected after the last chunk.
ChunkHeaderReadToEnd(i, text) ==
  LET j == [i EXCEPT !.lineBreak = TRUE]
  IN  IF Len(text) = 1 /\ text[1][1] = "size"
      THEN IF text[1][2] = 0
           THEN /\ in' = FinishRead(i)
                /\ rcvd' = [rcvd EXCEPT ![Len(rcvd)].ended = TRUE]
           ELSE in' = [j EXCEPT !.left = text[1][2]] /\ UNCHANGED rcvd
      ELSE in' = Malformed(j) /\ UNCHANGED rcvd

ChunkHeaderRead(i, text) ==
  LET j == [i EXCEPT !.lineBreak = TRUE]
  IN  IF Len(text) = 1 /\ text[1][1] = "size"
      THEN IF text[1][2] = 0
           THEN /\ in' = FinishRead(j)
                /\ rcvd' = [rcvd EXCEPT ![Len(rcvd)].ended = TRUE]
           ELSE in' = [j EXCEPT !.left = text[1][2]] /\ UNCHANGED rcvd
      ELSE in' = Malformed(j) /\ UNCHANGED rcvd

ReadingHead == in.phase = "head"
ReadingChunkHeader ==
  /\ in.phase = "body" /\ in.busy
  /\ Last(rcvd).framing = Chunked /\ in.left = 0

ReadHeader(n) ==
  /\ ReadingHead \/ ReadingChunkHeader
  /\ Arrives(n)
  /\ wire' = WireAfter(n)
  /\ IF n = 0 THEN in' = Fail(in) /\ UNCHANGED rcvd
     ELSE LET type == IF ReadingHead THEN "message" ELSE "chunk"
              k == SkipLineBreak([in EXCEPT !.leftover = <<>>], Arrived(n))
              s == k.i.buffer \o k.new
              ends == IF k.i.lineBreak /\ k.new = <<>> THEN {}
                      ELSE Ends(type, s, Len(k.i.buffer))
          IN  IF ends = {}
              THEN in' = [k.i EXCEPT !.buffer = s] /\ UNCHANGED rcvd
              ELSE LET e == CHOOSE p \in ends : \A q \in ends : p <= q
                       i == [k.i EXCEPT !.buffer = <<>>,
                                        !.leftover = SubSeq(s, e + 1, Len(s))]
                       text == Unterminated(SubSeq(s, 1, e))
                   IN  IF ReadingHead THEN HeadRead(i, text)
                                      ELSE ChunkHeaderRead(i, text)
  /\ UNCHANGED <<out, eof, sent>>

\* tryRead() of the body begins; a read that was dropped half way forbids
\* another.
TryRead ==
  /\ in.phase = "body" /\ ~in.busy /\ in.clean
  /\ in' = [in EXCEPT !.busy = TRUE, !.clean = FALSE, !.buffer = <<>>]
  /\ UNCHANGED <<out, wire, eof, sent, rcvd>>

CancelRead ==
  /\ in.busy
  /\ in' = [in EXCEPT !.busy = FALSE]
  /\ UNCHANGED <<out, wire, eof, sent, rcvd>>

\* Data of a Content-Length body or of a chunk: at most what is left of it.
ReadData(n, max) ==
  /\ in.phase = "body" /\ in.busy /\ in.left > 0
  /\ LET limit == IF max < in.left THEN max ELSE in.left
         data == IF in.leftover # <<>>
                 THEN SubSeq(in.leftover, 1,
                             IF limit < Len(in.leftover) THEN limit
                                                         ELSE Len(in.leftover))
                 ELSE SubSeq(wire, 1, n)
         done == Last(rcvd).framing # Chunked /\ in.left = Len(data)
         i == [in EXCEPT !.left = @ - Len(data), !.busy = FALSE, !.clean = TRUE,
                         !.leftover = SubSeq(@, Len(data) + 1, Len(@))]
     IN  /\ Arrives(n)
         /\ in.leftover = <<>> => n <= limit
         /\ wire' = WireAfter(n)
         /\ in' = IF n = 0 THEN Fail(in) ELSE IF done THEN FinishRead(i) ELSE i
         /\ rcvd' = [rcvd EXCEPT ![Len(rcvd)].data = @ \o data,
                                 ![Len(rcvd)].ended = done]
  /\ UNCHANGED <<out, eof, sent>>

\* The entity reader's destructor, before the body was read to its end.
DropReader ==
  /\ in.phase = "body" \/ (in.phase = "failed" /\ ~in.broken)
  /\ in' = [in EXCEPT !.phase = "failed", !.broken = TRUE, !.busy = FALSE]
  /\ UNCHANGED <<out, wire, eof, sent, rcvd>>

\* snarfBufferedLineBreak(): eats the expected line break, as far as it is
\* there.
Snarf(i) ==
  LET s == i.leftover
      crs == CHOOSE k \in 0..Len(s) : /\ \A j \in 1..k : s[j] = CR
                                      /\ k = Len(s) \/ s[k + 1] # CR
      t == SubSeq(s, crs + 1, Len(s))
  IN  IF ~i.lineBreak \/ s = <<>> THEN i
      ELSE IF t = <<>> THEN [i EXCEPT !.leftover = <<>>]
      ELSE [i EXCEPT !.lineBreak = FALSE,
                     !.leftover = IF Head(t) = LF THEN Tail(t) ELSE t]

\* awaitNextMessage(): one turn of its loop, between messages.
AwaitNextMessage(n) ==
  /\ in.phase = "idle"
  /\ LET i == Snarf(in)
     IN  \/ /\ i.leftover # <<>> \/ i # in
            /\ n = 0
            /\ in' = i /\ UNCHANGED wire
         \/ /\ i.leftover = <<>> /\ i = in
            /\ n \in 1..Len(wire) /\ n <= MaxRead
            /\ in' = [i EXCEPT !.leftover = SubSeq(wire, 1, n)]
            /\ wire' = SubSeq(wire, n + 1, Len(wire))
  /\ UNCHANGED <<out, eof, sent, rcvd>>

DrainsClean ==
  LET i == Snarf(in) IN in.phase = "idle" /\ ~i.lineBreak /\ i.leftover = <<>>

HttpNext ==
  \/ \E f \in Framings : WriteHeaders(f)
  \/ \E n \in WriteSizes : FixedWrite(n) \/ ChunkedWrite(n)
  \/ \E p \in Pumps : FixedPump(p) \/ ChunkedPump(p)
  \/ \E n \in 1..MaxRead : InnerAccepts(n)
  \/ WriteReturns \/ CancelWrite \/ DropWriter \/ CloseWire
  \/ ReadMessage \/ NextMessage \/ TryRead \/ CancelRead \/ DropReader
  \/ \E n \in 0..MaxRead : ReadHeader(n)
  \/ \E n \in 0..MaxRead, max \in WriteSizes : ReadData(n, max)
  \/ \E n \in 0..MaxRead : AwaitNextMessage(n)

HttpSpec == HttpInit /\ [][HttpNext]_httpVars

-----------------------------------------------------------------------------
(* Properties.                                                              *)

\* The two ends agree on every message: heads arrive in order, the reader
\* never meets a header it cannot parse, what it hands to its application is a
\* prefix of the body that was written, and it reports the end of a body only
\* when every byte of it was delivered, the Content-Length is reached or the
\* chunked writer has declared the end: a write cancelled in
\* the middle, a body dropped unfinished or a lost connection is never taken
\* for a complete message (entity readers and writers, http.cc:1814-2503).
FramingIsAgreed ==
  /\ ~in.bad
  /\ Len(rcvd) <= Len(sent)
  /\ \A m \in 1..Len(rcvd) :
       /\ rcvd[m].framing = sent[m].framing
       /\ IsPrefix(rcvd[m].data, Bytes(0, sent[m].bytes))
       /\ rcvd[m].ended => /\ Len(rcvd[m].data) = sent[m].bytes
                           /\ IF sent[m].framing = Chunked THEN sent[m].ended
                              ELSE sent[m].bytes = sent[m].framing

\* A connection that both ends hold reusable is really between messages: once
\* nothing is in flight and every message sent was read, all the reader may
\* still meet is the line break after the last chunk, so the next message
\* starts where the reader looks for it (canReuse(), isCleanDrain()).
ReuseStartsClean ==
  (/\ CanReuseOutput /\ CanReuseInput
   /\ out.queue = <<>> /\ wire = <<>> /\ ~eof
   /\ Len(rcvd) = Len(sent)) => DrainsClean
=============================================================================
