-------------------------- MODULE WebSocketProofs --------------------------
(***************************************************************************)
(* Proofs about web sockets.                                               *)
(*                                                                         *)
(* FramesTakeTurns is an invariant of a web socket on a byte stream, for   *)
(* any number of sends and of received frames.                             *)
(* The argument has two halves.  Control is about who may write: it knows  *)
(* nothing of what was written before, and one writer at a time and that   *)
(* no pong is forgotten follow from it alone.  Turns is about the wire:    *)
(* it uses Control, and relates what is on the wire to the frame that      *)
(* waits and to the calls that are under way.  Each action has a lemma     *)
(* ...Keeps for the first half and a lemma ...Turns for the second.        *)
(*                                                                         *)
(* MessagesAreExact is an invariant of a web socket pipe, for any number   *)
(* of messages.  WhoWaits says which calls wait in which state of the      *)
(* pipe, LogIsExact what has become of each message; a message does one of *)
(* three things to the log: it enters, comes out, or is given up.          *)
(***************************************************************************)
EXTENDS WebSocketStream, WebSocketPipe, TLAPS

Sockets == [hasSentClose : BOOLEAN, disconnected : BOOLEAN,
            currentlySending : BOOLEAN, shut : BOOLEAN]
Frames == [kind : Kinds, n : Nat]
Chains == [cur : Frames, more : Nat]
Sent == [kind : Kinds \cup Ops, n : Nat]

\* What queuedControlMessage may hold after p pings: nothing, receive()'s
\* Close, or the answer to one of them.
IsQueued(q, p) ==
  /\ q \in Frames /\ q.kind \in {"none", "pong", "error"}
  /\ q.kind \in {"none", "error"} => q.n = 0
  /\ q.kind = "pong" => q.n \in 1 .. p

\* The variables hold what their declarations say.
StreamTypeOK ==
  /\ sock \in Sockets
  /\ IsQueued(queued, pings)
  /\ chain \in [own : Chains, local : Chains]
  /\ call \in [op : Ops \cup {"none"}, at : {"idle", "wait", "write"}]
  /\ call.at = "idle" <=> call = Idle
  /\ call.op = "none" => call = Idle
  /\ rx \in {"idle", "reading", "closing", "failed"}
  /\ pings \in Nat /\ onWire \in Seq(Sent) /\ cut \in 0 .. Len(onWire)

\* A chain with nothing to do is NoChain; a send waits exactly while it holds
\* a chain; it has set currentlySending; disconnect() shuts the stream.
ChainsAreFormed ==
  /\ \A c \in {"own", "local"} : chain[c].cur.kind = "none" => chain[c] = NoChain
  /\ call.at = "wait" <=> chain.local # NoChain
  /\ call # Idle => sock.currentlySending
  /\ sock.disconnected => sock.shut

\* A chain after which nothing is queued any more.
Settled(c) == chain[c].more = 0 /\ chain[c].cur.kind \in {"done", "error", "failed"}

\* disconnect() waits for no frame of receive()'s.
Turn == sock.disconnected => ~WritesWhole("own")

\* While a send writes, receive() writes nothing: at most its Close is queued,
\* and set up to follow once.
WhileWriting ==
  call.at = "write" /\ ~sock.disconnected =>
    /\ ~WritesWhole("own")
    /\ chain.own.more > 0 => queued.kind = "error" /\ chain.own.more = 1

\* While a send waits, receive() writes, or is about to, only when what the
\* send waits for has nothing more to write.
WhileWaiting ==
  call.at = "wait" /\ ~sock.disconnected =>
    /\ \/ WritesWhole("own")
       \/ chain.own.more > 0 /\ queued.kind # "error"
       \/ chain.own.more > 1
       => Settled("local")
    /\ chain.own # NoChain => chain.local.more <= 1

\* No chain is to call writeQueuedControlMessage() more than twice, nor twice
\* with nothing queued.
FewFollow ==
  ~sock.disconnected => \A c \in {"own", "local"} :
    chain[c].more <= 2 /\ (chain[c].more = 2 => queued # NoFrame)

Control ==
  /\ StreamTypeOK /\ ChainsAreFormed /\ Turn
  /\ WhileWriting /\ WhileWaiting /\ FewFollow /\ PongIsNotForgotten

\* No pong will be written any more.
Muted == sock.hasSentClose \/ sock.disconnected \/ sock.shut
OneError == \E j \in 1 .. Len(onWire) : IsError(j)
TwoErrors == SecondError(Len(onWire) + 1)

\* Between the start of a send and its end, which a dropped send never
\* reaches, receive() sets up a chain only for a Close; so a pong that runs
\* then has a second Close before it.
WhileSending ==
  sock.currentlySending /\ ~Muted =>
    /\ chain.own # NoChain => OneError
    /\ chain.own.more > 0 /\ ~TwoErrors => queued.kind = "error" /\ chain.own.more = 1

\* A frame was cut short by a stream that ended or a send that was dropped,
\* and that send's currentlySending stays set.
CutIsFinal ==
  cut > 0 => sock.shut \/ (sock.currentlySending /\ call = Idle)

PumpSaysClose == call.op = "pump" => sock.hasSentClose

\* hasSentClose is set when a Close is begun, and the pongs begun answer
\* pings that were taken before the one that waits.
WireIsKnown ==
  \A i \in 1 .. Len(onWire) :
    /\ SaysClose(i) => sock.hasSentClose
    /\ IsPong(i) => onWire[i].n <= pings /\ (queued.kind = "pong" => onWire[i].n < queued.n)
Wire == WireIsKnown /\ PongsInOrder /\ NoneAfterACut

Turns == WhileSending /\ CutIsFinal /\ PumpSaysClose /\ Wire

\* The inductive invariant.
StreamInv == Control /\ Turns

-----------------------------------------------------------------------------
\* The types, and what the operators shared by the actions do to them.
LEMMA TypesHold == ASSUME StreamTypeOK PROVE TypeOK
<1> USE DEF StreamTypeOK, Frame, NoFrame, Frames
<1>1. sock \in [hasSentClose : BOOLEAN, disconnected : BOOLEAN,
               currentlySending : BOOLEAN, shut : BOOLEAN]
  BY DEF Sockets
<1>2. queued \in {NoFrame, Frame("error", 0)} \cup {Frame("pong", k) : k \in 1 .. pings}
  <2>1. CASE queued.kind = "pong"
    <3>1. queued = Frame("pong", queued.n) /\ queued.n \in 1 .. pings
      BY <2>1 DEF IsQueued
    <3> QED BY <3>1
  <2>2. CASE queued.kind = "none"
    BY <2>2 DEF IsQueued
  <2>3. CASE queued.kind = "error"
    BY <2>3 DEF IsQueued
  <2> QED BY <2>1, <2>2, <2>3 DEF IsQueued
<1>3. \A c \in {"own", "local"} : chain[c].cur.kind \in Kinds /\ chain[c].more \in Nat
  BY DEF Chains
<1>4. call = Idle \/ (call.op \in Ops /\ call.at \in {"wait", "write"})
  BY DEF Ops
<1> QED BY <1>1, <1>2, <1>3, <1>4 DEF TypeOK

\* What may be queued: nothing, a Close for an error or a pong to a ping taken.
LEMMA QueuedFacts ==
  ASSUME NEW p \in Nat, NEW q, IsQueued(q, p)
  PROVE /\ q.kind = "none" <=> q = NoFrame
        /\ q \in Frames /\ q \in Sent
        /\ IsQueued(q, p + 1)
BY DEF IsQueued, NoFrame, Frame, Frames, Sent, Kinds

\* The constants of the model have their types.
LEMMA Values ==
  /\ \A p \in Nat : IsQueued(NoFrame, p) /\ IsQueued(Frame("error", 0), p)
                    /\ IsQueued(Frame("pong", p + 1), p + 1)
  /\ NoFrame \in Frames /\ Resolved \in Frames /\ Failed \in Frames /\ NoChain \in Chains
  /\ \A op \in Ops : Frame(op, 0) \in Sent
BY DEF IsQueued, NoFrame, Frame, Frames, Sent, Kinds, Resolved, Failed, NoChain, Chains, Ops

\* A frame that is begun is one more on the wire, unless the stream is shut.
LEMMA BeginsTypes ==
  ASSUME onWire \in Seq(Sent), cut \in 0 .. Len(onWire), NEW f \in Sent, Begins(f)
  PROVE  onWire' \in Seq(Sent) /\ cut \in 0 .. Len(onWire')
BY DEF Begins

\* writeQueuedControlMessage() empties the queue.
LEMMA WriteQueuedTypes ==
  ASSUME StreamTypeOK, NEW c \in {"own", "local"}, NEW q, NEW p \in Nat, IsQueued(q, p), NEW more \in Nat,
         WriteQueued(c, q, more)
  PROVE  /\ queued' = NoFrame
         /\ chain' \in [own : Chains, local : Chains]
         /\ onWire' \in Seq(Sent) /\ cut \in 0 .. Len(onWire')
         /\ chain'[c].more = more /\ (\A d \in {"own", "local"} : d # c => chain'[d] = chain[d])
         /\ chain'[c].cur = IF Drops(q) THEN Resolved ELSE q
         /\ chain'[c].cur.kind # "none"
<1>1. q \in Frames /\ q \in Sent /\ (q.kind = "none" <=> q = NoFrame) /\ Resolved \in Frames
  BY QueuedFacts, Values
<1>2. (IF Drops(q) THEN Resolved ELSE q) \in Frames
  BY <1>1
<1>3. /\ queued' = NoFrame 
      /\ chain' = [chain EXCEPT ![c] = [cur |-> IF Drops(q) THEN Resolved ELSE q, more |-> more]]
  BY DEF WriteQueued
<1>4. chain' \in [own : Chains, local : Chains]
  BY <1>2, <1>3 DEF StreamTypeOK, Chains
<1>5. onWire' \in Seq(Sent) /\ cut \in 0 .. Len(onWire')
  <2>1. CASE Drops(q)
    BY <2>1 DEF WriteQueued, StreamTypeOK
  <2>2. CASE ~Drops(q)
    <3>1. Begins(q)
      BY <2>2 DEF WriteQueued
    <3> QED BY <3>1, <1>1, BeginsTypes DEF StreamTypeOK
  <2> QED BY <2>1, <2>2
<1>6. /\ chain'[c].more = more /\ (\A d \in {"own", "local"} : d # c => chain'[d] = chain[d])
      /\ chain'[c].cur = IF Drops(q) THEN Resolved ELSE q
  BY <1>2, <1>3 DEF StreamTypeOK
<1>7. chain'[c].cur.kind # "none"
  <2>1. CASE Drops(q)
    BY <2>1, <1>6 DEF Resolved, Frame
  <2>2. CASE ~Drops(q)
    <3>1. chain'[c].cur = q
      BY <2>2, <1>6
    <3>2. q # NoFrame
      BY <2>2 DEF Drops
    <3> QED BY <3>1, <3>2, <1>1
  <2> QED BY <2>1, <2>2
<1> QED BY <1>3, <1>4, <1>5, <1>6, <1>7

\* setUpSendingControlMessage() queues the frame or begins its write.
LEMMA SetUpTypes ==
  ASSUME StreamTypeOK, NEW q, NEW p \in Nat, IsQueued(q, p), SetUp(q)
  PROVE  /\ queued' \in {q, NoFrame}
         /\ chain' \in [own : Chains, local : Chains]
         /\ onWire' \in Seq(Sent) /\ cut \in 0 .. Len(onWire')
         /\ chain'.local = chain.local
         /\ chain.own # NoChain => /\ chain'.own.cur = chain.own.cur /\ chain'.own.more = chain.own.more + 1
                                   /\ queued' = q
         /\ chain.own = NoChain => /\ chain'.own.cur = (IF Drops(q) THEN Resolved ELSE q) /\ chain'.own.more = 0
                                   /\ queued' = NoFrame /\ chain'.own.cur.kind # "none"
<1>1. CASE chain.own # NoChain
  <2>1. /\ queued' = q /\ UNCHANGED onWire
        /\ chain' = [chain EXCEPT !.own.more = @ + 1]
    BY <1>1 DEF SetUp
  <2> QED BY <1>1, <2>1 DEF StreamTypeOK, Chains
<1>2. CASE chain.own = NoChain
  <2>1. WriteQueued("own", q, 0)
    BY <1>2 DEF SetUp
  <2>2. /\ queued' = NoFrame
        /\ chain' \in [own : Chains, local : Chains]
        /\ onWire' \in Seq(Sent) /\ cut \in 0 .. Len(onWire')
        /\ chain'["own"].more = 0 /\ (\A d \in {"own", "local"} : d # "own" => chain'[d] = chain[d])
        /\ chain'["own"].cur = IF Drops(q) THEN Resolved ELSE q
        /\ chain'["own"].cur.kind # "none"
    BY <2>1, WriteQueuedTypes
  <2>3. chain'["local"] = chain["local"]
    BY <2>2
  <2> QED BY <1>2, <2>2, <2>3
<1> QED BY <1>1, <1>2

-----------------------------------------------------------------------------
\* Control: one lemma for each action.
LEMMA RunQueuedKeeps == ASSUME Control, NEW c \in {"own", "local"}, RunQueued(c) PROVE Control'
<1> USE DEF Control
<1> DEFINE m == chain[c].more - 1
<1>1. /\ chain[c].cur = Resolved /\ chain[c].more > 0 /\ m \in Nat
      /\ WriteQueued(c, queued, m)
      /\ UNCHANGED <<sock, call, pings, cut>>
  BY DEF RunQueued, StreamTypeOK, Chains
<1>2. IsQueued(queued, pings) /\ pings \in Nat
  BY DEF StreamTypeOK
<1> HIDE DEF m
<1>3. /\ queued' = NoFrame
      /\ chain' \in [own : Chains, local : Chains]
      /\ onWire' \in Seq(Sent) /\ cut \in 0 .. Len(onWire')
      /\ chain'[c].more = m /\ (\A d \in {"own", "local"} : d # c => chain'[d] = chain[d])
      /\ chain'[c].cur = (IF Drops(queued) THEN Resolved ELSE queued)
      /\ chain'[c].cur.kind # "none"
  BY <1>1, <1>2, WriteQueuedTypes
<1>4. StreamTypeOK'
  <2>1. IsQueued(queued', pings')
    BY <1>1, <1>2, <1>3, Values
  <2>2. rx' \in {"idle", "reading", "closing", "failed"}
    BY DEF RunQueued, Fails, StreamTypeOK
  <2> QED BY <1>1, <1>3, <2>1, <2>2 DEF StreamTypeOK
<1>5. ChainsAreFormed'
  <2>1. \A d \in {"own", "local"} : chain'[d].cur.kind = "none" => chain'[d] = NoChain
    BY <1>3 DEF ChainsAreFormed
  <2>2. chain["local"] # NoChain <=> chain'["local"] # NoChain
    BY <1>1, <1>3 DEF NoChain, NoFrame, Frame, Resolved
  <2> QED BY <1>1, <2>1, <2>2 DEF ChainsAreFormed
<1>6. Turn' /\ PongIsNotForgotten'
  BY <1>1, <1>3 DEF Turn, PongIsNotForgotten, WritesWhole, Drops, Resolved, NoFrame, Frame
<1>7. FewFollow'
  <2> SUFFICES ASSUME ~sock.disconnected, NEW d \in {"own", "local"}
               PROVE  chain'[d].more <= 2 /\ chain'[d].more # 2
    BY <1>1 DEF FewFollow
  <2>1. chain[d].more \in Nat /\ chain[d].more <= 2 /\ chain[c].more \in Nat /\ chain[c].more <= 2
    BY DEF FewFollow, StreamTypeOK, Chains
  <2>2. CASE d = c
    BY <1>3, <2>1, <2>2 DEF m
  <2>3. CASE d # c
    <3>1. chain'[d] = chain[d]
      BY <1>3, <2>3
    <3>2. chain.local # NoChain \/ chain.local.more = 0
      BY DEF NoChain
    <3>3. chain[c] # NoChain
      BY <1>1 DEF NoChain, Resolved, NoFrame, Frame
    <3>4. CASE c = "own" /\ d = "local"
      BY <2>1, <3>1, <3>2, <3>3, <3>4 DEF ChainsAreFormed, WhileWaiting
    <3>5. CASE c = "local" /\ d = "own"
      <4>1. ~Settled("local")
        BY <1>1, <3>5 DEF Settled
      <4>2. ~(chain.own.more > 1)
        BY <3>3, <3>5, <4>1 DEF ChainsAreFormed, WhileWaiting
      <4> QED BY <2>1, <3>1, <3>5, <4>2
    <3> QED BY <2>3, <3>4, <3>5
  <2> QED BY <2>2, <2>3
<1>8. WhileWriting' /\ WhileWaiting'
  BY DEF RunQueued, WriteQueued, Drops, StreamTypeOK, ChainsAreFormed, Frame, NoFrame,
       NoChain, Resolved, Frames, Chains, WhileWriting, WhileWaiting, Settled, WritesWhole,
       FewFollow
<1> QED BY <1>4, <1>5, <1>6, <1>7, <1>8

\* A send waits for the control messages, or begins its write.
LEMMA AwaitKeeps ==
  ASSUME Control, NEW op \in Ops, NEW s \in Sockets, AwaitOrWrite(op, s),
         s.currentlySending, s.disconnected <=> sock.disconnected, s.shut <=> sock.shut,
         call = Idle \/ (call.at = "wait" /\ chain.local.more = 0),
         call = Idle => ~sock.disconnected,
         UNCHANGED <<queued, rx, pings, cut>>
  PROVE  Control'
<1> USE DEF Control
<1>0. sock \in Sockets /\ Idle.at = "idle"
  BY DEF StreamTypeOK, Idle
<1>1. CASE chain.own # NoChain
  <2>1. /\ call' = [op |-> op, at |-> "wait"]
        /\ chain' = [own |-> NoChain, local |-> chain.own]
        /\ sock' = s /\ UNCHANGED onWire
    BY <1>1 DEF AwaitOrWrite
  <2>2. /\ chain'.own = NoChain /\ chain'.local = chain.own /\ call'.at = "wait" /\ call' # Idle
        /\ chain' \in [own : Chains, local : Chains]
    BY <2>1, Values DEF Idle, StreamTypeOK
  <2>3. StreamTypeOK'
    BY <2>1, <2>2 DEF StreamTypeOK, Ops, Idle
  <2>4. ChainsAreFormed'
    BY <1>1, <2>1, <2>2 DEF ChainsAreFormed, NoChain, NoFrame, Frame
  <2>5. FewFollow'
    BY <1>1, <2>1, <2>2 DEF FewFollow, NoChain, NoFrame, Frame
  <2>6. Turn' /\ WhileWriting' /\ WhileWaiting'
    BY <2>1, <2>2 DEF Turn, WhileWriting, WhileWaiting, WritesWhole, NoChain, NoFrame, Frame
  <2>7. PongIsNotForgotten'
    BY <2>1 DEF PongIsNotForgotten
  <2> QED BY <2>3, <2>4, <2>5, <2>6, <2>7
<1>2. CASE chain.own = NoChain
  <2>1. /\ call' = [op |-> op, at |-> "write"]
        /\ chain' = [chain EXCEPT !.local = NoChain]
        /\ sock' = [s EXCEPT !.hasSentClose = @ \/ op = "close"]
        /\ Begins(Frame(op, 0))
    BY <1>2 DEF AwaitOrWrite
  <2>2. /\ chain'.own = NoChain /\ chain'.local = NoChain /\ call'.at = "write" /\ call' # Idle
        /\ chain' \in [own : Chains, local : Chains]
    BY <1>2, <2>1, Values DEF Idle, StreamTypeOK
  <2>3. /\ sock' \in Sockets /\ sock'.currentlySending
        /\ sock'.disconnected <=> sock.disconnected
        /\ sock'.shut <=> sock.shut
    BY <2>1 DEF Sockets
  <2>4. onWire' \in Seq(Sent) /\ cut \in 0 .. Len(onWire')
    BY <2>1, Values, BeginsTypes DEF StreamTypeOK
  <2>5. StreamTypeOK'
    BY <2>1, <2>2, <2>3, <2>4 DEF StreamTypeOK, Ops, Idle
  <2>6. ChainsAreFormed'
    BY <1>2, <2>2, <2>3 DEF ChainsAreFormed
  <2>7. FewFollow' /\ Turn' /\ WhileWriting' /\ WhileWaiting'
    BY <2>2 DEF FewFollow, Turn, WhileWriting, WhileWaiting, WritesWhole, NoChain, NoFrame,
         Frame
  <2>8. PongIsNotForgotten'
    BY <2>3 DEF PongIsNotForgotten
  <2> QED BY <2>5, <2>6, <2>7, <2>8
<1> QED BY <1>1, <1>2

\* send(), close() or a pump begins.
LEMMA SendKeeps == ASSUME Control, NEW op \in Ops, Send(op) PROVE Control'
<1> DEFINE s == [sock EXCEPT !.currentlySending = TRUE, !.hasSentClose = @ \/ op = "pump"]
<1>1. /\ s \in Sockets /\ s.currentlySending /\ (s.disconnected <=> sock.disconnected)
      /\ s.shut <=> sock.shut
  BY DEF Control, StreamTypeOK, Sockets
<1>2. /\ AwaitOrWrite(op, s) /\ call = Idle /\ ~sock.disconnected
      /\ UNCHANGED <<queued, rx, pings, cut>>
  BY DEF Send
<1> HIDE DEF s
<1> QED BY <1>1, <1>2, AwaitKeeps

\* A send goes on after the control messages it waited for.
LEMMA SendProceedsKeeps == ASSUME Control, SendProceeds PROVE Control'
<1> USE DEF Control
<1>1. /\ call.at = "wait" /\ chain.local.cur = Resolved /\ chain.local.more = 0
      /\ UNCHANGED <<queued, rx, pings, cut>>
  BY DEF SendProceeds
<1>2. CASE call.op # "pump" /\ chain.own # NoChain /\ sock.disconnected
  <2>1. call' = Idle /\ chain' = [chain EXCEPT !.local = NoChain] /\ UNCHANGED <<sock, onWire>>
    BY <1>2 DEF SendProceeds
  <2>2. /\ chain'.own = chain.own /\ chain'.local = NoChain
        /\ chain' \in [own : Chains, local : Chains]
    BY <2>1, Values DEF StreamTypeOK
  <2>3. StreamTypeOK'
    BY <1>1, <2>1, <2>2 DEF StreamTypeOK, Idle, Ops
  <2>4. ChainsAreFormed'
    BY <2>1, <2>2 DEF ChainsAreFormed, Idle
  <2>5. Turn' /\ FewFollow' /\ WhileWriting' /\ WhileWaiting' /\ PongIsNotForgotten'
    BY <1>2, <2>1, <2>2 DEF Turn, FewFollow, WhileWriting, WhileWaiting,
         PongIsNotForgotten, WritesWhole
  <2> QED BY <2>3, <2>4, <2>5
<1>3. CASE ~(call.op # "pump" /\ chain.own # NoChain /\ sock.disconnected)
  <2>1. AwaitOrWrite(call.op, sock)
    BY <1>3 DEF SendProceeds
  <2>2. call # Idle /\ call.op \in Ops /\ sock \in Sockets
    BY <1>1 DEF StreamTypeOK, Idle
  <2>3. sock.currentlySending
    BY <2>2 DEF ChainsAreFormed
  <2> QED BY <1>1, <2>1, <2>2, <2>3, AwaitKeeps
<1> QED BY <1>2, <1>3

\* A send has written its message and lets a control message follow.
LEMMA SendDoneKeeps == ASSUME Control, SendDone PROVE Control'
<1> USE DEF Control
<1>1. /\ call.at = "write" /\ ~sock.shut /\ call' = Idle /\ UNCHANGED <<pings, cut>>
      /\ chain.local = NoChain /\ sock \in Sockets /\ call # Idle
  BY DEF SendDone, ChainsAreFormed, StreamTypeOK, Idle
<1>2. rx' \in {"idle", "reading", "closing", "failed"}
  BY DEF SendDone, Fails, StreamTypeOK
<1>3. ~sock.disconnected
  BY <1>1 DEF ChainsAreFormed
<1>4. /\ ~WritesWhole("own")
      /\ chain.own.more > 0 => queued.kind = "error" /\ chain.own.more = 1
  BY <1>1, <1>3 DEF WhileWriting
<1>5. CASE call.op = "pump"
  <2>1. /\ sock' = [sock EXCEPT !.disconnected = TRUE, !.shut = TRUE]
        /\ UNCHANGED <<queued, chain, onWire>>
    BY <1>5 DEF SendDone
  <2>2. sock' \in Sockets /\ sock'.disconnected /\ sock'.shut
    BY <1>1, <2>1 DEF Sockets
  <2>3. StreamTypeOK'
    BY <1>1, <1>2, <2>1, <2>2 DEF StreamTypeOK, Idle, Ops
  <2>4. ChainsAreFormed'
    BY <1>1, <2>1, <2>2 DEF ChainsAreFormed, Idle
  <2>5. Turn' /\ FewFollow' /\ WhileWriting' /\ WhileWaiting' /\ PongIsNotForgotten'
    BY <1>4, <2>1, <2>2 DEF Turn, FewFollow, WhileWriting, WhileWaiting,
         PongIsNotForgotten, WritesWhole
  <2> QED BY <2>3, <2>4, <2>5
<1>6. CASE call.op # "pump"
  <2>1. /\ sock' = [sock EXCEPT !.currentlySending = FALSE]
        /\ IF queued = NoFrame THEN UNCHANGED <<queued, chain, onWire>> ELSE SetUp(queued)
    BY <1>6 DEF SendDone
  <2>2. /\ sock' \in Sockets /\ ~sock'.currentlySending
        /\ (sock'.disconnected <=> sock.disconnected) /\ (sock'.shut <=> sock.shut)
    BY <1>1, <2>1 DEF Sockets
  <2>3. CASE queued = NoFrame
    <3>1. UNCHANGED <<queued, chain, onWire>>
      BY <2>1, <2>3
    <3>2. StreamTypeOK'
      BY <1>1, <1>2, <2>2, <3>1 DEF StreamTypeOK, Idle, Ops
    <3>3. ChainsAreFormed'
      BY <1>1, <2>2, <3>1 DEF ChainsAreFormed, Idle
    <3>4. Turn' /\ FewFollow' /\ WhileWriting' /\ WhileWaiting' /\ PongIsNotForgotten'
      BY <1>1, <1>4, <2>2, <2>3, <3>1 DEF Turn, FewFollow, WhileWriting, WhileWaiting,
           PongIsNotForgotten, WritesWhole, NoFrame, Frame, Idle
    <3> QED BY <3>2, <3>3, <3>4
  <2>4. CASE queued # NoFrame
    <3>1. SetUp(queued) /\ IsQueued(queued, pings) /\ pings \in Nat /\ chain \in [own : Chains, local : Chains]
      BY <2>1, <2>4 DEF StreamTypeOK
    <3>2. /\ queued' \in {queued, NoFrame}
          /\ chain' \in [own : Chains, local : Chains]
          /\ onWire' \in Seq(Sent) /\ cut \in 0 .. Len(onWire')
          /\ chain'.local = chain.local
          /\ chain.own # NoChain => /\ chain'.own.cur = chain.own.cur /\ chain'.own.more = chain.own.more + 1
                                    /\ queued' = queued
          /\ chain.own = NoChain => /\ chain'.own.cur = (IF Drops(queued) THEN Resolved ELSE queued) /\ chain'.own.more = 0
                                    /\ queued' = NoFrame /\ chain'.own.cur.kind # "none"
      BY <3>1, SetUpTypes
    <3>3. StreamTypeOK'
      <4>1. IsQueued(queued', pings')
        BY <1>1, <3>1, <3>2, Values
      <4> QED BY <1>1, <1>2, <2>2, <3>2, <4>1 DEF StreamTypeOK, Idle, Ops
    <3>4. ChainsAreFormed'
      <4>1. chain.own # NoChain => chain.own.cur.kind # "none"
        BY DEF ChainsAreFormed
      <4> QED BY <1>1, <1>3, <2>2, <3>2, <4>1 DEF ChainsAreFormed, Idle
    <3>5. Turn' /\ WhileWriting' /\ WhileWaiting' /\ PongIsNotForgotten'
      BY <1>1, <1>3, <2>2, <3>1, <3>2 DEF Turn, WhileWriting, WhileWaiting,
           PongIsNotForgotten, NoFrame, Frame, Idle, Chains
    <3>6. FewFollow'
      <4>1. chain'.own.more <= 2 /\ (chain'.own.more = 2 => queued' # NoFrame)
        BY <1>4, <2>4, <3>1, <3>2 DEF Chains
      <4>2. chain'.local.more = 0
        BY <1>1, <3>2 DEF NoChain
      <4> QED BY <4>1, <4>2 DEF FewFollow
    <3> QED BY <3>3, <3>4, <3>5, <3>6
  <2> QED BY <2>3, <2>4
<1> QED BY <1>5, <1>6

\* A send fails, and the stream with it.
LEMMA SendFailsKeeps == ASSUME Control, SendFails PROVE Control'
<1> USE DEF Control
<1>1. \/ sock' = [sock EXCEPT !.shut = TRUE, !.disconnected = @ \/ sock.disconnected]
      \/ sock' = [sock EXCEPT !.shut = TRUE,
                              !.disconnected = @ \/ call = [op |-> "pump", at |-> "write"]]
  BY DEF SendFails
<1>2. /\ call' = Idle /\ chain' = [chain EXCEPT !.local = NoChain]
      /\ UNCHANGED <<queued, rx, pings, onWire, cut>>
      /\ call # Idle
  BY DEF SendFails, Idle
<1>3. sock \in Sockets /\ chain \in [own : Chains, local : Chains]
  BY DEF StreamTypeOK
<1>4. /\ sock' \in Sockets /\ sock'.shut /\ (sock.disconnected => sock'.disconnected)
      /\ sock'.currentlySending <=> sock.currentlySending
      /\ sock'.disconnected => sock.disconnected \/ call.at = "write"
  <2>1. CASE sock' = [sock EXCEPT !.shut = TRUE, !.disconnected = @ \/ sock.disconnected]
    BY <2>1, <1>3 DEF Sockets
  <2>2. CASE sock' = [sock EXCEPT !.shut = TRUE,
                        !.disconnected = @ \/ call = [op |-> "pump", at |-> "write"]]
    <3>1. CASE call = [op |-> "pump", at |-> "write"]
      <4>1. sock' = [sock EXCEPT !.shut = TRUE, !.disconnected = @ \/ TRUE] /\ call.at = "write"
        BY <2>2, <3>1
      <4> QED BY <4>1, <1>3 DEF Sockets
    <3>2. CASE call # [op |-> "pump", at |-> "write"]
      <4>1. sock' = [sock EXCEPT !.shut = TRUE, !.disconnected = @ \/ FALSE]
        BY <2>2, <3>2
      <4> QED BY <4>1, <1>3 DEF Sockets
    <3> QED BY <3>1, <3>2
  <2> QED BY <1>1, <2>1, <2>2
<1>5. /\ chain'.own = chain.own /\ chain'.local = NoChain
      /\ chain' \in [own : Chains, local : Chains]
  BY <1>2, <1>3, Values
<1>6. StreamTypeOK'
  BY <1>2, <1>4, <1>5 DEF StreamTypeOK, Idle, Ops
<1>7. ChainsAreFormed'
  BY <1>2, <1>4, <1>5 DEF ChainsAreFormed, Idle
<1>8. Turn'
  BY <1>4, <1>5 DEF Turn, WhileWriting, WritesWhole
<1>9. FewFollow' /\ WhileWriting' /\ WhileWaiting'
  BY <1>2, <1>4, <1>5 DEF FewFollow, WhileWriting, WhileWaiting, Idle, NoChain
<1>10. PongIsNotForgotten'
  BY <1>2, <1>4, <1>5 DEF PongIsNotForgotten
<1> QED BY <1>6, <1>7, <1>8, <1>9, <1>10

\* The application drops the promise of a send.
LEMMA CancelSendKeeps == ASSUME Control, CancelSend PROVE Control'
<1> USE DEF Control
<1>1. /\ call' = Idle /\ chain' = [chain EXCEPT !.local = NoChain] /\ call # Idle
      /\ UNCHANGED <<sock, queued, pings, onWire>>
  BY DEF CancelSend
<1>2. /\ chain'.own = chain.own /\ chain'.local = NoChain
      /\ chain' \in [own : Chains, local : Chains]
  BY <1>1, Values DEF StreamTypeOK
<1>3. cut' \in 0 .. Len(onWire') /\ rx' \in {"idle", "reading", "closing", "failed"}
  BY <1>1 DEF CancelSend, Cut, Fails, StreamTypeOK
<1>4. StreamTypeOK'
  BY <1>1, <1>2, <1>3 DEF StreamTypeOK, Idle, Ops
<1>5. ChainsAreFormed'
  BY <1>1, <1>2 DEF ChainsAreFormed, Idle
<1>6. Turn' /\ FewFollow' /\ WhileWriting' /\ WhileWaiting' /\ PongIsNotForgotten'
  BY <1>1, <1>2 DEF Turn, FewFollow, WhileWriting, WhileWaiting, WritesWhole, Idle,
       NoChain, PongIsNotForgotten
<1> QED BY <1>4, <1>5, <1>6

\* Disconnect and Abort: own is dropped and nothing more is written.
LEMMA DropOwnKeeps ==
  ASSUME Control, sock' = [sock EXCEPT !.disconnected = TRUE, !.shut = TRUE],
         chain' = [chain EXCEPT !.own = NoChain], queued' \in {queued, NoFrame},
         NEW b, Cut(b),
         rx' \in {"idle", "reading", "closing", "failed"}, UNCHANGED <<call, pings, onWire>>
  PROVE  Control'
<1> USE DEF Control
<1>1. /\ sock' \in Sockets /\ sock'.disconnected /\ sock'.shut
      /\ sock'.currentlySending <=> sock.currentlySending
  BY DEF StreamTypeOK, Sockets
<1>2. /\ chain'.local = chain.local /\ chain'.own = NoChain
      /\ chain' \in [own : Chains, local : Chains]
  BY Values DEF StreamTypeOK
<1>3. cut' \in 0 .. Len(onWire')
  BY DEF Cut, StreamTypeOK
<1>4. IsQueued(queued', pings')
  BY Values DEF StreamTypeOK
<1>5. StreamTypeOK'
  BY <1>1, <1>2, <1>3, <1>4 DEF StreamTypeOK
<1>6. ChainsAreFormed'
  BY <1>1, <1>2 DEF ChainsAreFormed
<1>7. Turn' /\ FewFollow' /\ WhileWriting' /\ WhileWaiting' /\ PongIsNotForgotten'
  BY <1>1, <1>2 DEF Turn, FewFollow, WhileWriting, WhileWaiting, WritesWhole, NoChain,
       NoFrame, Frame, PongIsNotForgotten
<1> QED BY <1>5, <1>6, <1>7

\* disconnect() drops the promise for control messages.
LEMMA DisconnectKeeps == ASSUME Control, Disconnect PROVE Control'
<1>1. rx' \in {"idle", "reading", "closing", "failed"}
  BY DEF Control, Disconnect, Fails, StreamTypeOK
<1> QED BY <1>1, DropOwnKeeps DEF Disconnect

\* abort() drops what is queued and the promise for control messages.
LEMMA AbortKeeps == ASSUME Control, Abort PROVE Control'
<1>1. rx' \in {"idle", "reading", "closing", "failed"}
  BY DEF Control, Abort, StreamTypeOK
<1> QED BY <1>1, DropOwnKeeps DEF Abort

\* A write of a control message ends, well or not.
LEMMA WriteEndsKeeps ==
  ASSUME Control, NEW c \in {"own", "local"}, WriteDone(c) \/ WriteFails(c) PROVE Control'
<1> USE DEF Control
<1>1. PICK r \in {Resolved, Failed} : chain' = [chain EXCEPT ![c].cur = r]
  BY DEF WriteDone, WriteFails
<1>2. /\ chain[c].cur.kind \in {"handshake", "pong", "error"}
      /\ UNCHANGED <<queued, call, pings, onWire, cut>>
  BY DEF WriteDone, WriteFails
<1>3. /\ sock' \in Sockets /\ (sock'.disconnected <=> sock.disconnected)
      /\ (sock'.currentlySending <=> sock.currentlySending) /\ (sock.shut => sock'.shut)
  <2>1. CASE sock' = sock
    BY <2>1 DEF StreamTypeOK
  <2>2. CASE sock' = [sock EXCEPT !.shut = TRUE]
    BY <2>2 DEF StreamTypeOK, Sockets
  <2> QED BY <2>1, <2>2 DEF WriteDone, WriteFails
<1>4. rx' \in {"idle", "reading", "closing", "failed"}
  BY DEF WriteDone, WriteFails, Fails, StreamTypeOK
<1>5. /\ r \in Frames /\ r.kind \in {"done", "failed"} /\ r.kind # "none"
      /\ chain \in [own : Chains, local : Chains]
  BY Values DEF Resolved, Failed, Frame, StreamTypeOK
<1>6. /\ chain' \in [own : Chains, local : Chains]
      /\ chain'[c].cur = r /\ chain'[c].more = chain[c].more
      /\ \A d \in {"own", "local"} : d # c => chain'[d] = chain[d]
      /\ chain[c] # NoChain /\ chain'[c] # NoChain
  <2>1. chain'[c].cur = r /\ chain'[c].more = chain[c].more
    BY <1>1, <1>5 DEF Chains
  <2>2. \A d \in {"own", "local"} : d # c => chain'[d] = chain[d]
    BY <1>1, <1>5
  <2>3. chain' \in [own : Chains, local : Chains]
    BY <1>1, <1>5 DEF Chains
  <2>4. chain[c] # NoChain /\ chain'[c] # NoChain
    BY <1>2, <1>5, <2>1 DEF NoChain, NoFrame, Frame
  <2> QED BY <2>1, <2>2, <2>3, <2>4
<1>7. StreamTypeOK'
  BY <1>2, <1>3, <1>4, <1>6 DEF StreamTypeOK
<1>8. ChainsAreFormed'
  BY <1>2, <1>3, <1>5, <1>6 DEF ChainsAreFormed
<1>9. \A d \in {"own", "local"} :
        /\ chain'[d].more = chain[d].more
        /\ chain'[d] # NoChain <=> chain[d] # NoChain
        /\ chain'[d].cur.kind \in {"handshake", "pong"} => chain[d].cur.kind \in {"handshake", "pong"}
        /\ chain[d].cur.kind \in {"done", "error", "failed"} => chain'[d].cur.kind \in {"done", "error", "failed"}
  BY <1>2, <1>5, <1>6
<1>10. Turn' /\ FewFollow' /\ PongIsNotForgotten'
  BY <1>2, <1>3, <1>9 DEF Turn, FewFollow, PongIsNotForgotten, WritesWhole
<1>11. WhileWriting' /\ WhileWaiting'
  BY <1>2, <1>3, <1>9 DEF WhileWriting, WhileWaiting, WritesWhole, Settled
<1> QED BY <1>7, <1>8, <1>10, <1>11

\* receive() sets up the writing of a frame q that was not queued: the step of
\* a ping while no send is under way, and of a bad frame.
LEMMA ReceiveSetUpKeeps ==
  ASSUME Control, NEW q, IsQueued(q, pings'), q # NoFrame, SetUp(q), queued = NoFrame,
         q.kind = "error" \/ (q.kind = "pong" /\ ~sock.currentlySending),
         pings' \in Nat, pings' >= pings,
         rx' \in {"idle", "reading", "closing", "failed"}, UNCHANGED <<sock, call, cut>>
  PROVE  Control'
<1> USE DEF Control
<1>1. /\ queued' \in {q, NoFrame}
      /\ chain' \in [own : Chains, local : Chains]
      /\ onWire' \in Seq(Sent) /\ cut \in 0 .. Len(onWire')
      /\ chain'.local = chain.local
      /\ chain.own # NoChain => /\ chain'.own.cur = chain.own.cur /\ chain'.own.more = chain.own.more + 1
                                /\ queued' = q
      /\ chain.own = NoChain => /\ chain'.own.cur = (IF Drops(q) THEN Resolved ELSE q) /\ chain'.own.more = 0
                                /\ queued' = NoFrame /\ chain'.own.cur.kind # "none"
  BY SetUpTypes
<1>2. chain \in [own : Chains, local : Chains] /\ chain.own.more \in Nat /\ chain.local.more \in Nat
  BY DEF StreamTypeOK, Chains
<1>3. StreamTypeOK'
  <2>1. IsQueued(queued', pings')
    BY <1>1, Values
  <2> QED BY <1>1, <2>1 DEF StreamTypeOK
<1>4. ChainsAreFormed'
  <2>1. chain.own # NoChain => chain.own.cur.kind # "none"
    BY DEF ChainsAreFormed
  <2>2. chain'.own.cur.kind # "none"
    BY <1>1, <2>1
  <2> QED BY <1>1, <2>2 DEF ChainsAreFormed
<1>5. Turn'
  <2>1. sock.disconnected => Drops(q)
    BY DEF Drops
  <2> QED BY <1>1, <2>1 DEF Turn, WritesWhole, Resolved, Frame
<1>6. PongIsNotForgotten'
  BY <1>1, <1>2 DEF PongIsNotForgotten, NoFrame, Frame
<1>7. ~sock.disconnected => chain.own.more <= 1 /\ chain.local.more <= 1
  <2>1. ~sock.disconnected => /\ chain["own"].more <= 2 /\ chain["own"].more # 2
                              /\ chain["local"].more <= 2 /\ chain["local"].more # 2
    BY DEF FewFollow
  <2> QED BY <1>2, <2>1
<1>8. FewFollow'
  <2> SUFFICES ASSUME ~sock.disconnected, NEW c \in {"own", "local"}
               PROVE  chain'[c].more <= 2 /\ (chain'[c].more = 2 => queued' # NoFrame)
    BY DEF FewFollow
  <2>1. CASE c = "own"
    BY <1>1, <1>2, <1>7, <2>1
  <2>2. CASE c = "local"
    BY <1>1, <1>2, <1>7, <2>2
  <2> QED BY <2>1, <2>2
<1>9. call # Idle => q.kind = "error"
  BY DEF ChainsAreFormed
<1>10. WhileWriting'
  <2> SUFFICES ASSUME call.at = "write", ~sock.disconnected
               PROVE  /\ chain'.own.cur.kind \notin {"handshake", "pong"}
                      /\ chain'.own.more > 0 => queued'.kind = "error" /\ chain'.own.more = 1
    BY DEF WhileWriting, WritesWhole
  <2>1. q.kind = "error"
    BY <1>9 DEF Idle
  <2>2. chain.own.cur.kind \notin {"handshake", "pong"} /\ chain.own.more = 0
    BY <1>2 DEF WhileWriting, WritesWhole, NoFrame, Frame
  <2> QED BY <1>1, <1>2, <2>1, <2>2 DEF Resolved, Frame
<1>11. WhileWaiting'
  <2> SUFFICES ASSUME call.at = "wait", ~sock.disconnected
               PROVE  /\ (\/ chain'.own.cur.kind \in {"handshake", "pong"}
                          \/ chain'.own.more > 0 /\ queued'.kind # "error"
                          \/ chain'.own.more > 1) => Settled("local")'
                      /\ chain'.local.more <= 1
    BY DEF WhileWaiting, WritesWhole
  <2>1. q.kind = "error"
    BY <1>9 DEF Idle
  <2>2. chain'.local.more <= 1
    BY <1>1, <1>7
  <2>3. /\ chain.own.cur.kind \in {"handshake", "pong"} => Settled("local")
        /\ chain.own.more > 0 => Settled("local")
    BY DEF WhileWaiting, WritesWhole, NoFrame, Frame
  <2>4. Settled("local") => Settled("local")'
    BY <1>1 DEF Settled
  <2>5. CASE chain.own = NoChain
    BY <1>1, <2>1, <2>2, <2>5 DEF Resolved, Frame
  <2>6. CASE chain.own # NoChain
    BY <1>1, <1>2, <2>1, <2>2, <2>3, <2>4, <2>6
  <2> QED BY <2>5, <2>6
<1> QED BY <1>3, <1>4, <1>5, <1>6, <1>8, <1>10, <1>11

\* receive() replaces what is queued, or queues for the send in progress.
LEMMA ReplaceKeeps ==
  ASSUME Control, IsQueued(queued', pings'), queued' # NoFrame,
         \/ queued'.kind = "error" /\ queued # NoFrame
         \/ queued'.kind = "pong" /\ queued.kind # "error"
            /\ (sock.currentlySending \/ queued # NoFrame),
         pings' \in Nat, rx' \in {"idle", "reading", "closing", "failed"},
         UNCHANGED <<sock, chain, call, onWire, cut>>
  PROVE  Control'
<1> USE DEF Control
<1>1. StreamTypeOK'
  BY DEF StreamTypeOK
<1>2. ChainsAreFormed' /\ Turn'
  BY DEF ChainsAreFormed, Turn, WritesWhole
<1>3. FewFollow'
  BY DEF FewFollow
<1>4. WhileWriting' /\ WhileWaiting'
  BY DEF WhileWriting, WhileWaiting, WritesWhole, Settled
<1>5. PongIsNotForgotten'
  <2>1. queued # NoFrame => queued.kind # "none"
    BY QueuedFacts DEF StreamTypeOK
  <2> QED BY <2>1 DEF PongIsNotForgotten, StreamTypeOK, IsQueued
<1> QED BY <1>1, <1>2, <1>3, <1>4, <1>5

\* receive() as far as the writers are not concerned.
LEMMA QuietKeeps ==
  ASSUME Control, pings' \in Nat, pings' >= pings, UNCHANGED <<sock, queued, chain, call, onWire, cut>>,
         rx' \in {"idle", "reading", "closing", "failed"}
  PROVE  Control'
<1> USE DEF Control
<1>1. IsQueued(queued, pings')
  BY DEF StreamTypeOK, IsQueued
<1>2. StreamTypeOK'
  BY <1>1 DEF StreamTypeOK
<1>3. ChainsAreFormed' /\ Turn' /\ FewFollow' /\ WhileWriting' /\ WhileWaiting' /\ PongIsNotForgotten'
  BY DEF ChainsAreFormed, Turn, WritesWhole, FewFollow, WhileWriting, WhileWaiting,
       Settled, PongIsNotForgotten
<1> QED BY <1>2, <1>3

\* receive() takes a ping and queues its pong.
LEMMA PingFrameKeeps == ASSUME Control, PingFrame PROVE Control'
<1> DEFINE pong == Frame("pong", pings + 1)
<1>1. /\ pings' = pings + 1 /\ pings \in Nat /\ UNCHANGED <<sock, call, rx, cut>>
      /\ rx \in {"idle", "reading", "closing", "failed"}
      /\ queued.kind \in {"none", "pong", "error"} /\ (queued.kind = "none" <=> queued = NoFrame)
  BY QueuedFacts DEF PingFrame, Control, StreamTypeOK, IsQueued
<1>2. IsQueued(pong, pings') /\ pong.kind = "pong" /\ pong # NoFrame
  BY <1>1, Values DEF Frame, NoFrame
<1>3. \/ queued.kind = "error" /\ UNCHANGED <<queued, chain, onWire>>
      \/ /\ queued.kind # "error" /\ (sock.currentlySending \/ queued # NoFrame)
         /\ queued' = pong /\ UNCHANGED <<chain, onWire>>
      \/ queued = NoFrame /\ ~sock.currentlySending /\ SetUp(pong)
  BY DEF PingFrame, IsLeftToOthers
<1> HIDE DEF pong
<1>4. CASE queued.kind = "error" /\ UNCHANGED <<queued, chain, onWire>>
  BY <1>1, <1>4, QuietKeeps
<1>5. CASE /\ queued.kind # "error" /\ (sock.currentlySending \/ queued # NoFrame)
           /\ queued' = pong /\ UNCHANGED <<chain, onWire>>
  BY <1>1, <1>2, <1>5, ReplaceKeeps
<1>6. CASE queued = NoFrame /\ ~sock.currentlySending /\ SetUp(pong)
  BY <1>1, <1>2, <1>6, ReceiveSetUpKeeps
<1> QED BY <1>3, <1>4, <1>5, <1>6

\* receive() takes a bad frame and queues a Close.
LEMMA BadFrameKeeps == ASSUME Control, BadFrame PROVE Control'
<1> DEFINE close == Frame("error", 0)
<1>1. /\ pings' = pings /\ pings \in Nat /\ UNCHANGED <<sock, call, cut>>
      /\ rx' \in {"closing", "failed"}
  BY DEF BadFrame, Control, StreamTypeOK
<1>2. IsQueued(close, pings') /\ close.kind = "error" /\ close # NoFrame
  BY <1>1, Values DEF Frame, NoFrame
<1>3. \/ queued # NoFrame /\ queued' = close /\ UNCHANGED <<chain, onWire>>
      \/ queued = NoFrame /\ SetUp(close)
  BY DEF BadFrame
<1> HIDE DEF close
<1>4. CASE queued # NoFrame /\ queued' = close /\ UNCHANGED <<chain, onWire>>
  BY <1>1, <1>2, <1>4, ReplaceKeeps
<1>5. CASE queued = NoFrame /\ SetUp(close)
  BY <1>1, <1>2, <1>5, ReceiveSetUpKeeps
<1> QED BY <1>3, <1>4, <1>5

-----------------------------------------------------------------------------
\* The wire: what stays when nothing is begun, and when a frame is.
LEMMA WireTypes ==
  ASSUME StreamTypeOK
  PROVE  /\ pings \in Nat /\ Len(onWire) \in Nat /\ cut \in 0 .. Len(onWire) /\ cut \in Nat
         /\ \A i \in 1 .. Len(onWire) : onWire[i].n \in Nat
<1>1. pings \in Nat /\ Len(onWire) \in Nat /\ cut \in 0 .. Len(onWire)
  BY DEF StreamTypeOK
<1>2. \A i \in 1 .. Len(onWire) : onWire[i] \in Sent
  BY DEF StreamTypeOK
<1> QED BY <1>1, <1>2 DEF Sent

\* Nothing is begun.
LEMMA WireStays ==
  ASSUME StreamTypeOK, Wire, onWire' = onWire, sock.hasSentClose => sock'.hasSentClose,
         pings' \in Nat, pings <= pings', cut' \in {cut, Len(onWire)},
         \/ queued' \in {queued, NoFrame, Frame("error", 0)}
         \/ queued' = Frame("pong", pings + 1)
  PROVE  Wire'
<1> USE DEF Wire
<1>0. pings \in Nat /\ Len(onWire) \in Nat /\ \A i \in 1 .. Len(onWire) : onWire[i].n \in Nat
  BY WireTypes
<1>1. WireIsKnown'
  <2> SUFFICES ASSUME NEW i \in 1 .. Len(onWire)
               PROVE  /\ SaysClose(i) => sock'.hasSentClose
                      /\ IsPong(i) => /\ onWire[i].n <= pings'
                                      /\ queued'.kind = "pong" => onWire[i].n < queued'.n
    BY DEF WireIsKnown, SaysClose, IsPong
  <2>1. SaysClose(i) => sock'.hasSentClose
    BY DEF WireIsKnown
  <2>2. IsPong(i) => onWire[i].n <= pings'
    BY <1>0 DEF WireIsKnown
  <2>3. IsPong(i) /\ queued'.kind = "pong" => onWire[i].n < queued'.n
    BY <1>0 DEF WireIsKnown, Frame, NoFrame
  <2> QED BY <2>1, <2>2, <2>3
<1>2. PongsInOrder'
  BY DEF PongsInOrder, IsPong, SaysClose
<1>3. NoneAfterACut'
  <2>1. CASE cut' = cut
    BY <2>1 DEF NoneAfterACut, IsError, IsPong, SecondError
  <2>2. CASE cut' = Len(onWire)
    <3>1. cut' + 1 .. Len(onWire') = {}
      BY <1>0, <2>2
    <3> QED BY <3>1 DEF NoneAfterACut
  <2> QED BY <2>1, <2>2
<1> QED BY <1>1, <1>2, <1>3

\* A frame is begun.
LEMMA WireGrows ==
  ASSUME StreamTypeOK, Wire, NEW f \in Sent, onWire' = Append(onWire, f),
         sock.hasSentClose => sock'.hasSentClose, f.kind \in {"close", "pump"} => sock'.hasSentClose,
         pings' \in Nat, pings <= pings', UNCHANGED cut, queued' = NoFrame \/ (queued' = queued /\ f.kind # "pong"),
         f.kind = "pong" => ~sock.hasSentClose /\ f.n \in 1 .. pings' /\ (f = queued \/ f.n = pings + 1),
         cut > 0 => f.kind = "error" \/ (f.kind = "pong" /\ TwoErrors)
  PROVE  Wire'
<1> USE DEF Wire
<1> DEFINE L == Len(onWire)
<1>0. /\ pings \in Nat /\ L \in Nat /\ cut \in Nat /\ f.n \in Nat
      /\ \A i \in 1 .. L : onWire[i].n \in Nat
  BY WireTypes DEF Sent
<1>1. /\ Len(onWire') = L + 1 /\ onWire'[L + 1] = f
      /\ \A i \in 1 .. L : onWire'[i] = onWire[i]
  BY DEF StreamTypeOK
<1> HIDE DEF L
<1>2. \A i \in 1 .. L + 1 : i \in 1 .. L \/ i = L + 1
  BY <1>0
<1>3. \A i \in 1 .. L : IsPong(i) /\ f.kind = "pong" => onWire[i].n < f.n
  BY <1>0 DEF WireIsKnown, L
<1>4. WireIsKnown'
  <2> SUFFICES ASSUME NEW i \in 1 .. L + 1
               PROVE  /\ onWire'[i].kind \in {"close", "pump"} => sock'.hasSentClose
                      /\ onWire'[i].kind = "pong" =>
                           /\ onWire'[i].n <= pings'
                           /\ queued'.kind = "pong" => onWire'[i].n < queued'.n
    BY <1>1 DEF WireIsKnown, SaysClose, IsPong
  <2>1. CASE i \in 1 .. L
    BY <2>1, <1>0, <1>1 DEF WireIsKnown, SaysClose, IsPong, NoFrame, Frame, L
  <2>2. CASE i = L + 1
    BY <2>2, <1>0, <1>1 DEF NoFrame, Frame
  <2> QED BY <1>2, <2>1, <2>2
<1>5. PongsInOrder'
  <2> SUFFICES ASSUME NEW i \in 1 .. L + 1, NEW j \in 1 .. L + 1, i < j, onWire'[j].kind = "pong"
               PROVE  /\ onWire'[i].kind \notin {"close", "pump"}
                      /\ onWire'[i].kind = "pong" => onWire'[i].n < onWire'[j].n
    BY <1>1 DEF PongsInOrder, SaysClose, IsPong
  <2>1. i \in 1 .. L
    BY <1>0
  <2>2. CASE j \in 1 .. L
    BY <2>1, <2>2, <1>1 DEF PongsInOrder, SaysClose, IsPong, L
  <2>3. CASE j = L + 1
    <3>1. ~sock.hasSentClose
      BY <2>3, <1>1
    <3>2. onWire[i].kind \notin {"close", "pump"}
      BY <2>1, <3>1 DEF WireIsKnown, SaysClose, L
    <3> QED BY <2>1, <2>3, <3>2, <1>1, <1>3 DEF IsPong
  <2> QED BY <1>2, <2>2, <2>3
<1>6. NoneAfterACut'
  <2>0. \A i : SecondError(i)' <=>
               \E j, k \in 1 .. i - 1 :
                 j < k /\ onWire'[j].kind = "error" /\ onWire'[k].kind = "error"
    BY DEF SecondError, IsError
  <2> SUFFICES ASSUME cut > 0, NEW i \in cut + 1 .. L + 1
               PROVE  \/ onWire'[i].kind = "error"
                      \/ /\ onWire'[i].kind = "pong"
                         /\ \E j, k \in 1 .. i - 1 :
                              j < k /\ onWire'[j].kind = "error" /\ onWire'[k].kind = "error"
    BY <1>1, <2>0 DEF NoneAfterACut, IsError, IsPong
  <2>1. CASE i = L + 1
    <3>1. CASE f.kind = "error"
      BY <2>1, <3>1, <1>1
    <3>2. CASE f.kind = "pong" /\ TwoErrors
      <4>1. PICK j \in 1 .. L, k \in 1 .. L : j < k /\ onWire[j].kind = "error" /\ onWire[k].kind = "error"
        BY <3>2, <1>0 DEF TwoErrors, SecondError, IsError, L
      <4>2. i - 1 = L
        BY <2>1, <1>0
      <4> QED BY <2>1, <3>2, <4>1, <4>2, <1>1
    <3> QED BY <3>1, <3>2
  <2>2. CASE i \in cut + 1 .. L
    <3>0. i \in 1 .. L /\ i - 1 \in Nat /\ 1 .. i - 1 \subseteq 1 .. L
      BY <2>2, <1>0
    <3>1. \/ onWire[i].kind = "error"
          \/ /\ onWire[i].kind = "pong"
             /\ \E j, k \in 1 .. i - 1 : j < k /\ onWire[j].kind = "error" /\ onWire[k].kind = "error"
      BY <2>2 DEF NoneAfterACut, IsError, IsPong, SecondError, L
    <3> QED BY <3>0, <3>1, <1>1
  <2>3. i = L + 1 \/ i \in cut + 1 .. L
    BY <1>0
  <2> QED BY <2>1, <2>2, <2>3
<1> QED BY <1>4, <1>5, <1>6

\* The errors on the wire.
LEMMA ErrorsStay ==
  ASSUME StreamTypeOK, NEW f, onWire' = onWire \/ (onWire' = Append(onWire, f) /\ f \in Sent)
  PROVE  /\ OneError => OneError'
         /\ TwoErrors => TwoErrors'
         /\ onWire' = Append(onWire, f) /\ f.kind = "error" => OneError' /\ (OneError => TwoErrors')
<1> DEFINE L == Len(onWire)
<1>0. L \in Nat
  BY DEF StreamTypeOK
<1>1. /\ OneError <=> \E j \in 1 .. L : onWire[j].kind = "error"
      /\ TwoErrors <=> \E j, k \in 1 .. L : j < k /\ onWire[j].kind = "error" /\ onWire[k].kind = "error"
  BY <1>0 DEF OneError, TwoErrors, SecondError, IsError
<1>2. CASE onWire' = onWire
  <2>1. (OneError <=> OneError') /\ (TwoErrors <=> TwoErrors')
    BY <1>2 DEF OneError, TwoErrors, SecondError, IsError
  <2>2. onWire' # Append(onWire, f)
    BY <1>2 DEF StreamTypeOK
  <2> QED BY <2>1, <2>2
<1>3. CASE onWire' = Append(onWire, f) /\ f \in Sent
  <2>1. /\ Len(onWire') = L + 1 /\ onWire'[L + 1] = f
        /\ \A i \in 1 .. L : onWire'[i] = onWire[i]
    BY <1>3 DEF StreamTypeOK
  <2>2. /\ OneError' <=> \E j \in 1 .. L + 1 : onWire'[j].kind = "error"
        /\ TwoErrors' <=> \E j, k \in 1 .. L + 1 :
                            j < k /\ onWire'[j].kind = "error" /\ onWire'[k].kind = "error"
    BY <1>0, <2>1 DEF OneError, TwoErrors, SecondError, IsError
  <2> HIDE DEF L
  <2>3. 1 .. L \subseteq 1 .. L + 1 /\ L + 1 \in 1 .. L + 1 /\ \A j \in 1 .. L : j < L + 1
    BY <1>0
  <2>4. OneError => OneError'
    BY <1>1, <2>1, <2>2, <2>3
  <2>5. TwoErrors => TwoErrors'
    BY <1>1, <2>1, <2>2, <2>3
  <2>6. ASSUME f.kind = "error" PROVE OneError' /\ (OneError => TwoErrors')
    BY <1>1, <2>1, <2>2, <2>3, <2>6
  <2> QED BY <2>4, <2>5, <2>6
<1> QED BY <1>2, <1>3

-----------------------------------------------------------------------------
\* Turns: one lemma for each action.
\* The writers of control messages are where they were, and so is the socket,
\* except that it may be mute now.
LEMMA SendingStays ==
  ASSUME StreamInv, onWire' = onWire, queued' = queued,
         sock'.currentlySending => sock.currentlySending,
         Muted => Muted',
         ~Muted' => /\ chain'.own.more = chain.own.more
                    /\ chain'.own # NoChain => chain.own # NoChain
  PROVE  WhileSending'
<1>1. (OneError <=> OneError') /\ (TwoErrors <=> TwoErrors')
  BY DEF OneError, TwoErrors, SecondError, IsError
<1> QED BY <1>1 DEF StreamInv, Turns, WhileSending

\* The end of a control message's write, in either promise, begins no frame.
LEMMA WriteEndsTurns ==
  ASSUME StreamInv, NEW c \in {"own", "local"}, WriteDone(c) \/ WriteFails(c) PROVE Turns'
<1> USE DEF StreamInv, Turns, Control
<1>1. PICK r \in {Resolved, Failed} : chain' = [chain EXCEPT ![c].cur = r]
  BY DEF WriteDone, WriteFails
<1>2. /\ chain[c].cur.kind \in {"handshake", "pong", "error"}
      /\ UNCHANGED <<queued, call, pings, onWire, cut>>
  BY DEF WriteDone, WriteFails
<1>3. /\ (sock.hasSentClose <=> sock'.hasSentClose) /\ (sock'.disconnected <=> sock.disconnected)
      /\ (sock'.currentlySending <=> sock.currentlySending) /\ (sock.shut => sock'.shut)
  <2>1. CASE sock' = sock
    BY <2>1
  <2>2. CASE sock' = [sock EXCEPT !.shut = TRUE]
    BY <2>2 DEF StreamTypeOK, Sockets
  <2> QED BY <2>1, <2>2 DEF WriteDone, WriteFails
<1>4. /\ chain'.own.more = chain.own.more
      /\ chain'.own # NoChain => chain.own # NoChain
  BY <1>1, <1>2 DEF StreamTypeOK, Chains, NoChain, NoFrame, Frame
<1>5. WhileSending'
  BY <1>2, <1>3, <1>4, SendingStays DEF Muted
<1>6. CutIsFinal' /\ PumpSaysClose'
  BY <1>2, <1>3 DEF CutIsFinal, PumpSaysClose
<1>7. Wire'
  <2>1. pings \in Nat /\ pings <= pings
    BY WireTypes
  <2> QED BY <1>2, <1>3, <2>1, WireStays
<1> QED BY <1>5, <1>6, <1>7

\* What a step that may begin a queued frame q does to the wire.
LEMMA Begun ==
  ASSUME StreamInv, NEW q, NEW p \in Nat, IsQueued(q, p), p \in {pings, pings + 1}, pings' = p,
         UNCHANGED <<sock, cut>>,
         onWire' = onWire \/ (onWire' = Append(onWire, q) /\ ~Drops(q)),
         onWire' = onWire => queued' \in {queued, NoFrame, q},
         onWire' # onWire => queued' = NoFrame,
         q.kind = "pong" => q = queued \/ q = Frame("pong", pings + 1),
         cut > 0 /\ onWire' # onWire => q.kind = "error" \/ (q.kind = "pong" /\ TwoErrors)
  PROVE  Wire'
<1> USE DEF StreamInv, Turns, Control
<1>0. pings \in Nat /\ pings <= p
  BY WireTypes
<1>1. CASE onWire' = onWire
  <2>1. q.kind # "pong" => q \in {NoFrame, Frame("error", 0)}
    BY DEF IsQueued, NoFrame, Frame, Frames
  <2> QED BY <1>0, <1>1, <2>1, WireStays
<1>2. CASE onWire' = Append(onWire, q) /\ ~Drops(q) /\ onWire' # onWire
  <2>1. q \in Sent
    BY QueuedFacts
  <2>2. q.kind \notin {"close", "pump"}
    BY DEF IsQueued
  <2>3. q.kind = "pong" => ~sock.hasSentClose /\ q.n \in 1 .. p /\ (q = queued \/ q.n = pings + 1)
    BY <1>2 DEF IsQueued, Drops, Frame
  <2> QED BY <1>0, <1>2, <2>1, <2>2, <2>3, WireGrows
<1> QED BY <1>1, <1>2

\* A continuation writes what is queued by now.
LEMMA RunQueuedTurns ==
  ASSUME StreamInv, NEW c \in {"own", "local"}, RunQueued(c) PROVE Turns'
<1> USE DEF StreamInv, Turns, Control
<1> DEFINE m == chain[c].more - 1
<1>1. /\ chain[c].cur = Resolved /\ chain[c].more > 0 /\ m \in Nat /\ chain[c].more = m + 1
      /\ WriteQueued(c, queued, m)
      /\ UNCHANGED <<sock, call, pings, cut>>
  BY DEF RunQueued, StreamTypeOK, Chains
<1>2. IsQueued(queued, pings) /\ pings \in Nat
  BY DEF StreamTypeOK
<1> HIDE DEF m
<1>3. /\ queued' = NoFrame
      /\ chain'[c].more = m /\ (\A d \in {"own", "local"} : d # c => chain'[d] = chain[d])
  BY <1>1, <1>2, WriteQueuedTypes
<1>4. /\ onWire' = onWire \/ (onWire' = Append(onWire, queued) /\ ~Drops(queued) /\ ~sock.shut)
      /\ ~Drops(queued) /\ ~sock.shut => onWire' = Append(onWire, queued)
  BY <1>1 DEF WriteQueued, Begins
<1>5. queued \in Sent /\ (queued.kind = "none" <=> queued = NoFrame)
  BY <1>2, QueuedFacts
<1>6. CutIsFinal' /\ PumpSaysClose'
  BY <1>1 DEF CutIsFinal, PumpSaysClose
<1>7. chain[c] # NoChain
  BY <1>1 DEF NoChain, NoFrame, Frame, Resolved
<1>8. WhileSending'
  <2> SUFFICES ASSUME sock.currentlySending, ~Muted
               PROVE  /\ chain'.own # NoChain => OneError'
                      /\ chain'.own.more > 0 => TwoErrors'
    BY <1>1 DEF WhileSending, Muted
  <2>1. /\ OneError => OneError'
        /\ TwoErrors => TwoErrors'
        /\ onWire' = Append(onWire, queued) /\ queued.kind = "error" => OneError' /\ (OneError => TwoErrors')
    BY <1>4, <1>5, ErrorsStay
  <2>2. CASE c = "own"
    <3>1. OneError /\ (chain.own.more > 1 => TwoErrors)
      BY <1>1, <1>7, <2>2 DEF WhileSending, StreamTypeOK, Chains
    <3> QED BY <1>1, <1>3, <2>1, <2>2, <3>1
  <2>3. CASE c = "local"
    <3>1. chain'.own = chain.own
      BY <1>3, <2>3
    <3>2. chain.own # NoChain => OneError
      BY DEF WhileSending
    <3>3. ASSUME chain.own.more > 0 PROVE TwoErrors'
      <4>1. CASE TwoErrors
        BY <4>1, <2>1
      <4>2. CASE ~TwoErrors
        <5>1. queued.kind = "error" /\ chain.own # NoChain
          BY <3>3, <4>2 DEF WhileSending, NoChain
        <5>2. ~Drops(queued) /\ ~sock.shut
          BY <5>1 DEF Drops, Muted, NoFrame, Frame
        <5> QED BY <1>4, <2>1, <3>2, <5>1, <5>2
      <4> QED BY <4>1, <4>2
    <3> QED BY <2>1, <3>1, <3>2, <3>3
  <2> QED BY <2>2, <2>3
<1>9. cut > 0 /\ onWire' # onWire => queued.kind = "error" \/ (queued.kind = "pong" /\ TwoErrors)
  <2> SUFFICES ASSUME cut > 0, onWire' # onWire, queued.kind # "error"
               PROVE  queued.kind = "pong" /\ TwoErrors
    OBVIOUS
  <2>1. ~Drops(queued) /\ ~sock.shut
    BY <1>4
  <2>2. sock.currentlySending /\ call = Idle
    BY <2>1 DEF CutIsFinal
  <2>3. c = "own"
    BY <1>7, <2>2 DEF ChainsAreFormed, Idle
  <2>4. ~Muted
    BY <2>1 DEF Muted, Drops
  <2>5. TwoErrors
    BY <1>1, <2>2, <2>3, <2>4 DEF WhileSending
  <2>6. queued.kind = "pong"
    BY <1>2, <1>5, <2>1 DEF IsQueued, Drops
  <2> QED BY <2>5, <2>6
<1>10. Wire'
  BY <1>1, <1>2, <1>3, <1>4, <1>9, Begun
<1> QED BY <1>6, <1>8, <1>10

\* A send begins its write when no control message is being written.
LEMMA AwaitTurns ==
  ASSUME StreamInv, NEW op \in Ops, NEW s \in Sockets, AwaitOrWrite(op, s),
         s.shut <=> sock.shut, sock.hasSentClose => s.hasSentClose, op = "pump" => s.hasSentClose,
         cut > 0 => sock.shut,
         UNCHANGED <<queued, rx, pings, cut>>
  PROVE  Turns'
<1> USE DEF StreamInv, Turns, Control
<1>0. pings \in Nat /\ pings <= pings
  BY WireTypes
<1>1. CASE chain.own # NoChain
  <2>1. /\ chain' = [own |-> NoChain, local |-> chain.own] /\ call' = [op |-> op, at |-> "wait"]
        /\ sock' = s /\ UNCHANGED onWire
    BY <1>1 DEF AwaitOrWrite
  <2>2. WhileSending'
    BY <2>1 DEF WhileSending, NoChain
  <2>3. CutIsFinal' /\ PumpSaysClose'
    BY <2>1 DEF CutIsFinal, PumpSaysClose
  <2>4. Wire'
    BY <1>0, <2>1, WireStays
  <2> QED BY <2>2, <2>3, <2>4
<1>2. CASE chain.own = NoChain
  <2>1. /\ chain' = [chain EXCEPT !.local = NoChain] /\ call' = [op |-> op, at |-> "write"]
        /\ sock' = [s EXCEPT !.hasSentClose = @ \/ op = "close"]
        /\ Begins(Frame(op, 0))
    BY <1>2 DEF AwaitOrWrite
  <2>2. /\ sock.hasSentClose => sock'.hasSentClose
        /\ sock'.shut <=> sock.shut
        /\ op \in {"close", "pump"} => sock'.hasSentClose
    BY <2>1 DEF Sockets
  <2>3. WhileSending'
    BY <1>2, <2>1 DEF WhileSending, NoChain, StreamTypeOK
  <2>4. CutIsFinal' /\ PumpSaysClose'
    BY <2>1, <2>2 DEF CutIsFinal, PumpSaysClose
  <2>5. CASE sock.shut
    <3>1. onWire' = onWire
      BY <2>1, <2>5 DEF Begins
    <3> QED BY <1>0, <2>2, <2>3, <2>4, <3>1, WireStays
  <2>6. CASE ~sock.shut
    <3> DEFINE f == Frame(op, 0)
    <3>1. f \in Sent /\ f.kind = op /\ f.kind # "pong"
      BY Values DEF Frame, Ops
    <3>2. onWire' = Append(onWire, f)
      BY <2>1, <2>6 DEF Begins
    <3> HIDE DEF f
    <3>3. Wire'
      BY <1>0, <2>2, <2>6, <3>1, <3>2, WireGrows
    <3> QED BY <2>3, <2>4, <3>3
  <2> QED BY <2>5, <2>6
<1> QED BY <1>1, <1>2

\* send(), close() or a pump keeps the order of the frames.
LEMMA SendTurns == ASSUME StreamInv, NEW op \in Ops, Send(op) PROVE Turns'
<1> DEFINE s == [sock EXCEPT !.currentlySending = TRUE, !.hasSentClose = @ \/ op = "pump"]
<1>1. /\ s \in Sockets /\ (s.shut <=> sock.shut) /\ (sock.hasSentClose => s.hasSentClose)
      /\ op = "pump" => s.hasSentClose
  BY DEF StreamInv, Control, StreamTypeOK, Sockets
<1>2. AwaitOrWrite(op, s) /\ ~sock.currentlySending /\ UNCHANGED <<queued, rx, pings, cut>>
  BY DEF Send
<1>3. cut > 0 => sock.shut
  BY <1>2 DEF StreamInv, Turns, CutIsFinal
<1> HIDE DEF s
<1> QED BY <1>1, <1>2, <1>3, AwaitTurns

\* So does a send that goes on after its wait.
LEMMA SendProceedsTurns == ASSUME StreamInv, SendProceeds PROVE Turns'
<1> USE DEF StreamInv, Turns, Control
<1>1. /\ call.at = "wait" /\ UNCHANGED <<queued, rx, pings, cut>>
  BY DEF SendProceeds
<1>2. call # Idle /\ call.op \in Ops /\ sock \in Sockets /\ (cut > 0 => sock.shut)
  BY <1>1 DEF StreamTypeOK, Idle, CutIsFinal
<1>3. CASE call.op # "pump" /\ chain.own # NoChain /\ sock.disconnected
  <2>1. call' = Idle /\ chain' = [chain EXCEPT !.local = NoChain] /\ UNCHANGED <<sock, onWire>>
    BY <1>3 DEF SendProceeds
  <2>2. WhileSending'
    BY <1>3, <2>1 DEF WhileSending, Muted
  <2>3. CutIsFinal' /\ PumpSaysClose'
    BY <1>1, <1>2, <2>1 DEF CutIsFinal, PumpSaysClose, Idle
  <2>4. Wire'
    <3>1. pings \in Nat /\ pings <= pings
      BY WireTypes
    <3> QED BY <1>1, <2>1, <3>1, WireStays
  <2> QED BY <2>2, <2>3, <2>4
<1>4. CASE ~(call.op # "pump" /\ chain.own # NoChain /\ sock.disconnected)
  <2>1. AwaitOrWrite(call.op, sock)
    BY <1>4 DEF SendProceeds
  <2>2. call.op = "pump" => sock.hasSentClose
    BY DEF PumpSaysClose
  <2> QED BY <1>1, <1>2, <2>1, <2>2, AwaitTurns
<1> QED BY <1>3, <1>4

\* So does a send that lets a control message follow.
LEMMA SendDoneTurns == ASSUME StreamInv, SendDone PROVE Turns'
<1> USE DEF StreamInv, Turns, Control
<1>1. /\ call.at = "write" /\ ~sock.shut /\ call' = Idle /\ UNCHANGED <<pings, cut>>
      /\ sock \in Sockets /\ call # Idle
  BY DEF SendDone, StreamTypeOK, Idle
<1>2. ~(cut > 0) /\ ~(cut' > 0)
  BY <1>1 DEF CutIsFinal
<1>3. CutIsFinal' /\ PumpSaysClose'
  BY <1>1, <1>2 DEF CutIsFinal, PumpSaysClose, Idle
<1>4. pings \in Nat /\ pings <= pings /\ IsQueued(queued, pings)
  BY WireTypes DEF StreamTypeOK
<1>5. CASE call.op = "pump"
  <2>1. /\ sock' = [sock EXCEPT !.disconnected = TRUE, !.shut = TRUE]
        /\ UNCHANGED <<queued, chain, onWire>>
    BY <1>5 DEF SendDone
  <2>2. sock'.disconnected /\ (sock.hasSentClose => sock'.hasSentClose)
    BY <1>1, <2>1 DEF Sockets
  <2>3. WhileSending'
    BY <2>2 DEF WhileSending, Muted
  <2>4. Wire'
    BY <1>1, <1>4, <2>1, <2>2, WireStays
  <2> QED BY <1>3, <2>3, <2>4
<1>6. CASE call.op # "pump"
  <2>1. /\ sock' = [sock EXCEPT !.currentlySending = FALSE]
        /\ IF queued = NoFrame THEN UNCHANGED <<queued, chain, onWire>> ELSE SetUp(queued)
    BY <1>6 DEF SendDone
  <2>2. ~sock'.currentlySending /\ (sock.hasSentClose => sock'.hasSentClose)
    BY <1>1, <2>1 DEF Sockets
  <2>3. WhileSending'
    BY <2>2 DEF WhileSending
  <2>4. CASE onWire' = onWire
    <3>1. queued' \in {queued, NoFrame}
      BY <1>4, <2>1, SetUpTypes
    <3> QED BY <1>1, <1>3, <1>4, <2>2, <2>3, <2>4, <3>1, WireStays
  <2>5. CASE onWire' # onWire
    <3>1. /\ onWire' = Append(onWire, queued) /\ ~Drops(queued) /\ queued' = NoFrame
      BY <2>1, <2>5 DEF SetUp, WriteQueued, Begins
    <3>2. /\ queued \in Sent /\ queued.kind \notin {"close", "pump"}
          /\ queued.kind = "pong" => ~sock.hasSentClose /\ queued.n \in 1 .. pings
      BY <1>4, <3>1, QueuedFacts DEF IsQueued, Drops
    <3>3. Wire'
      BY <1>1, <1>2, <1>4, <2>2, <3>1, <3>2, WireGrows
    <3> QED BY <1>3, <2>3, <3>3
  <2> QED BY <2>4, <2>5
<1> QED BY <1>5, <1>6

\* A send is given up, or the stream: nothing is begun, and what may be cut
\* short is the last thing on the wire.
LEMMA GiveUpTurns ==
  ASSUME StreamInv, UNCHANGED <<pings, onWire>>, queued' \in {queued, NoFrame},
         cut' \in {cut, Len(onWire)}, call' \in {call, Idle},
         sock' \in Sockets, sock.shut => sock'.shut, sock.hasSentClose => sock'.hasSentClose,
         sock'.currentlySending <=> sock.currentlySending,
         \/ sock'.shut
         \/ call # Idle /\ call' = Idle /\ queued' = queued /\ sock' = sock
            /\ chain'.own = chain.own
  PROVE  Turns'
<1> USE DEF StreamInv, Turns, Control
<1>1. pings \in Nat /\ pings <= pings
  BY WireTypes
<1>2. Wire'
  BY <1>1, WireStays
<1>3. CutIsFinal'
  BY DEF CutIsFinal, ChainsAreFormed
<1>4. PumpSaysClose'
  BY DEF PumpSaysClose, Idle
<1>5. WhileSending'
  <2>1. CASE sock'.shut
    BY <2>1 DEF WhileSending, Muted
  <2>2. CASE queued' = queued /\ sock' = sock /\ chain'.own = chain.own
    BY <2>2, SendingStays DEF Muted
  <2> QED BY <2>1, <2>2
<1> QED BY <1>2, <1>3, <1>4, <1>5

\* So does a send that fails.
LEMMA SendFailsTurns == ASSUME StreamInv, SendFails PROVE Turns'
<1>1. PICK d : sock' = [sock EXCEPT !.shut = TRUE, !.disconnected = @ \/ d]
  BY DEF SendFails
<1>2. Control'
  BY SendFailsKeeps DEF StreamInv
<1>3. /\ sock' \in Sockets /\ sock'.shut /\ (sock.hasSentClose => sock'.hasSentClose)
      /\ sock'.currentlySending <=> sock.currentlySending
  BY <1>1, <1>2 DEF StreamInv, Control, StreamTypeOK, Sockets
<1> QED BY <1>3, GiveUpTurns DEF SendFails

\* A send that is dropped may cut its frame; currentlySending stays set.
LEMMA CancelSendTurns == ASSUME StreamInv, CancelSend PROVE Turns'
<1>1. /\ call' = Idle /\ chain' = [chain EXCEPT !.local = NoChain] /\ call # Idle
      /\ UNCHANGED <<sock, queued, pings, onWire>>
  BY DEF CancelSend
<1>2. chain'.own = chain.own /\ sock \in Sockets
  BY <1>1 DEF StreamInv, Control, StreamTypeOK
<1>3. cut' \in {cut, Len(onWire)}
  BY DEF CancelSend, Cut
<1> QED BY <1>1, <1>2, <1>3, GiveUpTurns

\* disconnect() and abort() may cut a frame, and shut the stream.
LEMMA DisconnectTurns == ASSUME StreamInv, Disconnect \/ Abort PROVE Turns'
<1>1. sock' = [sock EXCEPT !.disconnected = TRUE, !.shut = TRUE]
  BY DEF Disconnect, Abort
<1>2. /\ sock' \in Sockets /\ sock'.shut /\ (sock.hasSentClose => sock'.hasSentClose)
      /\ sock'.currentlySending <=> sock.currentlySending
  BY <1>1 DEF StreamInv, Control, StreamTypeOK, Sockets
<1>3. /\ cut' \in {cut, Len(onWire)} /\ UNCHANGED <<call, pings, onWire>>
      /\ queued' \in {queued, NoFrame}
  BY DEF Disconnect, Abort, Cut
<1> QED BY <1>2, <1>3, GiveUpTurns

\* The pong to a ping, or the Close for an error, is queued behind what is
\* being written, or begun.
LEMMA ReceiveSetUpTurns ==
  ASSUME StreamInv, NEW q, IsQueued(q, pings'), q # NoFrame, SetUp(q), queued = NoFrame,
         q.kind = "error" \/ (q = Frame("pong", pings + 1) /\ ~sock.currentlySending),
         pings' \in {pings, pings + 1}, UNCHANGED <<sock, call, cut>>
  PROVE  Turns'
<1> USE DEF StreamInv, Turns, Control
<1>0. pings \in Nat /\ pings' \in Nat
  BY WireTypes
<1>1. /\ queued' \in {q, NoFrame}
      /\ chain.own # NoChain => chain'.own.more = chain.own.more + 1 /\ queued' = q
      /\ chain.own = NoChain => chain'.own.more = 0 /\ queued' = NoFrame
  BY <1>0, SetUpTypes
<1>2. /\ chain.own # NoChain => onWire' = onWire
      /\ chain.own = NoChain => \/ onWire' = onWire /\ (Drops(q) \/ sock.shut)
                                \/ onWire' = Append(onWire, q) /\ ~Drops(q)
  BY DEF SetUp, WriteQueued, Begins
<1>3. CutIsFinal' /\ PumpSaysClose'
  BY DEF CutIsFinal, PumpSaysClose
<1>4. WhileSending'
  <2> SUFFICES ASSUME sock.currentlySending, ~Muted
               PROVE  /\ chain'.own # NoChain => OneError'
                      /\ chain'.own.more > 0 /\ ~TwoErrors' => queued'.kind = "error" /\ chain'.own.more = 1
    BY DEF WhileSending, Muted
  <2>1. q.kind = "error" /\ ~Drops(q) /\ ~sock.shut
    BY DEF Drops, Muted
  <2>2. q \in Sent
    BY <1>0, QueuedFacts
  <2>3. /\ OneError => OneError'
        /\ TwoErrors => TwoErrors'
        /\ onWire' = Append(onWire, q) /\ q.kind = "error" => OneError'
    BY <1>2, <2>2, ErrorsStay
  <2>4. CASE chain.own = NoChain
    BY <1>1, <1>2, <2>1, <2>3, <2>4
  <2>5. CASE chain.own # NoChain
    <3>1. OneError /\ (chain.own.more = 0 \/ TwoErrors)
      BY <2>5 DEF WhileSending, NoFrame, Frame, StreamTypeOK, Chains
    <3> QED BY <1>1, <2>1, <2>3, <2>5, <3>1
  <2> QED BY <2>4, <2>5
<1>5. cut > 0 /\ onWire' # onWire => q.kind = "error"
  <2>1. onWire' # onWire => ~Drops(q)
    BY <1>2
  <2>2. SetUp(q) /\ onWire' # onWire => ~sock.shut
    BY DEF SetUp, WriteQueued, Begins
  <2> QED BY <2>1, <2>2 DEF CutIsFinal
<1>6. Wire'
  <2>1. onWire' = onWire \/ (onWire' = Append(onWire, q) /\ ~Drops(q))
    BY <1>2
  <2>2. onWire' # onWire => queued' = NoFrame
    BY <1>1, <1>2
  <2>3. q.kind = "pong" => q = Frame("pong", pings + 1)
    OBVIOUS
  <2> QED BY <1>0, <1>1, <1>5, <2>1, <2>2, <2>3, Begun
<1> QED BY <1>3, <1>4, <1>6

\* A control message replaces the one that is queued during a send; a Close
\* is not replaced by a pong.
LEMMA ReplaceTurns ==
  ASSUME StreamInv, 
         \/ queued' = Frame("error", 0)
         \/ queued' = Frame("pong", pings + 1) /\ queued.kind # "error"
         \/ queued' = queued,
         pings' \in {pings, pings + 1},
         UNCHANGED <<sock, chain, call, onWire, cut>>
  PROVE  Turns'
<1> USE DEF StreamInv, Turns, Control
<1>1. pings \in Nat /\ pings' \in Nat /\ pings <= pings'
  BY WireTypes
<1>2. Wire'
  BY <1>1, WireStays
<1>3. CutIsFinal' /\ PumpSaysClose'
  BY DEF CutIsFinal, PumpSaysClose
<1>4. WhileSending'
  <2>1. (OneError <=> OneError') /\ (TwoErrors <=> TwoErrors') /\ (Muted <=> Muted')
    BY DEF OneError, TwoErrors, SecondError, IsError, Muted
  <2> QED BY <2>1 DEF WhileSending, Frame
<1> QED BY <1>2, <1>3, <1>4

\* receive() takes a ping: its pong follows those to earlier pings.
LEMMA PingFrameTurns == ASSUME StreamInv, PingFrame PROVE Turns'
<1> DEFINE pong == Frame("pong", pings + 1)
<1>1. pings' = pings + 1 /\ pings \in Nat /\ UNCHANGED <<sock, call, cut>>
  BY DEF PingFrame, StreamInv, Control, StreamTypeOK
<1>2. IsQueued(pong, pings') /\ pong # NoFrame
  BY <1>1, Values DEF Frame, NoFrame
<1>3. \/ UNCHANGED <<queued, chain, onWire>>
      \/ queued.kind # "error" /\ queued' = pong /\ UNCHANGED <<chain, onWire>>
      \/ queued = NoFrame /\ ~sock.currentlySending /\ SetUp(pong)
  BY DEF PingFrame, IsLeftToOthers
<1>4. CASE \/ UNCHANGED <<queued, chain, onWire>>
           \/ queued.kind # "error" /\ queued' = pong /\ UNCHANGED <<chain, onWire>>
  BY <1>1, <1>4, ReplaceTurns
<1>5. CASE queued = NoFrame /\ ~sock.currentlySending /\ SetUp(pong)
  BY <1>1, <1>2, <1>5, ReceiveSetUpTurns
<1> QED BY <1>3, <1>4, <1>5

\* receive() takes a bad frame: its Close follows.
LEMMA BadFrameTurns == ASSUME StreamInv, BadFrame PROVE Turns'
<1> DEFINE close == Frame("error", 0)
<1>1. pings' = pings /\ pings \in Nat /\ UNCHANGED <<sock, call, cut>>
  BY DEF BadFrame, StreamInv, Control, StreamTypeOK
<1>2. IsQueued(close, pings') /\ close.kind = "error" /\ close # NoFrame
  BY <1>1, Values DEF Frame, NoFrame
<1>3. \/ queued' = close /\ UNCHANGED <<chain, onWire>>
      \/ queued = NoFrame /\ SetUp(close)
  BY DEF BadFrame
<1>4. CASE queued' = close /\ UNCHANGED <<chain, onWire>>
  BY <1>1, <1>4, ReplaceTurns
<1>5. CASE queued = NoFrame /\ SetUp(close)
  BY <1>1, <1>2, <1>5, ReceiveSetUpTurns
<1> QED BY <1>3, <1>4, <1>5

-----------------------------------------------------------------------------

-----------------------------------------------------------------------------
\* A socket that was just opened satisfies the invariant.
LEMMA StreamInit == FramesInit => StreamInv
<1> SUFFICES ASSUME FramesInit PROVE StreamInv
  OBVIOUS
<1> USE DEF FramesInit
<1>1. StreamTypeOK
  <2>1. chain \in [own : Chains, local : Chains]
    BY DEF NoChain, Handshake, Chains, Frames, Frame, NoFrame, Kinds
  <2>2. sock \in Sockets /\ IsQueued(queued, pings)
    BY Values DEF Sockets
  <2>3. onWire \in Seq(Sent) /\ cut \in 0 .. Len(onWire) /\ pings \in Nat
    OBVIOUS
  <2>4. /\ call \in [op : Ops \cup {"none"}, at : {"idle", "wait", "write"}] /\ call = Idle
        /\ call.at = "idle"
    BY DEF Idle
  <2> QED BY <2>1, <2>2, <2>3, <2>4 DEF StreamTypeOK
<1>2. chain.own.more = 0 /\ chain.local = NoChain /\ NoChain.more = 0 /\ chain.own \in {NoChain, Handshake}
  BY DEF NoChain, Handshake
<1>3. ~sock.disconnected /\ ~sock.currentlySending /\ call.at = "idle" /\ call.op = "none" /\ queued.kind = "none"
  BY DEF Idle, NoFrame, Frame
<1>4. ChainsAreFormed
  BY <1>2, <1>3 DEF ChainsAreFormed, Handshake, Frame
<1>5. Turn /\ WhileWriting /\ WhileWaiting /\ FewFollow /\ PongIsNotForgotten
  BY <1>2, <1>3 DEF Turn, WhileWriting, WhileWaiting, FewFollow, PongIsNotForgotten
<1>6. WhileSending /\ CutIsFinal /\ PumpSaysClose
  BY <1>3 DEF WhileSending, CutIsFinal, PumpSaysClose
<1>7. Wire
  BY DEF Wire, WireIsKnown, PongsInOrder, NoneAfterACut
<1> QED BY <1>1, <1>4, <1>5, <1>6, <1>7 DEF StreamInv, Control, Turns

\* Every step of the socket, its application and its peer keeps the invariant.
LEMMA StreamStep == StreamInv /\ [FramesNext]_streamVars => StreamInv'
<1> SUFFICES ASSUME StreamInv, [FramesNext]_streamVars PROVE Control' /\ Turns'
  BY DEF StreamInv
<1>0. Control
  BY DEF StreamInv
<1>1. ASSUME NEW c \in {"own", "local"}, WriteDone(c) \/ WriteFails(c) PROVE Control' /\ Turns'
  BY <1>0, <1>1, WriteEndsKeeps, WriteEndsTurns
<1>2. ASSUME NEW c \in {"own", "local"}, RunQueued(c) PROVE Control' /\ Turns'
  BY <1>0, <1>2, RunQueuedKeeps, RunQueuedTurns
<1>3. ASSUME NEW op \in Ops, Send(op) PROVE Control' /\ Turns'
  BY <1>0, <1>3, SendKeeps, SendTurns
<1>4. CASE SendProceeds
  BY <1>0, <1>4, SendProceedsKeeps, SendProceedsTurns
<1>5. CASE SendDone
  BY <1>0, <1>5, SendDoneKeeps, SendDoneTurns
<1>6. CASE SendFails
  BY <1>0, <1>6, SendFailsKeeps, SendFailsTurns
<1>7. CASE CancelSend
  BY <1>0, <1>7, CancelSendKeeps, CancelSendTurns
<1>8. CASE Disconnect
  BY <1>0, <1>8, DisconnectKeeps, DisconnectTurns
<1>9. CASE Abort
  BY <1>0, <1>9, AbortKeeps, DisconnectTurns
<1>10. CASE PingFrame
  BY <1>0, <1>10, PingFrameKeeps, PingFrameTurns
<1>11. CASE BadFrame
  BY <1>0, <1>11, BadFrameKeeps, BadFrameTurns
<1>12. ASSUME UNCHANGED <<sock, queued, chain, call, pings, onWire, cut>>,
              rx' \in {"idle", "reading", "closing", "failed"}
       PROVE  Control' /\ Turns'
  <2>1. pings' \in Nat /\ pings' >= pings
    BY <1>12, WireTypes DEF StreamInv, Control
  <2>2. Control'
    BY <1>0, <1>12, <2>1, QuietKeeps
  <2>3. Turns'
    BY <1>12, ReplaceTurns
  <2> QED BY <2>2, <2>3
<1>13. rx \in {"idle", "reading", "closing", "failed"}
  BY <1>0 DEF Control, StreamTypeOK
<1>14. CASE \/ Receive \/ ReceiveEnds \/ DropReceive \/ CloseFrame \/ PongFrame
            \/ \E first, fin \in BOOLEAN : DataFrame(first, fin)
            \/ UNCHANGED streamVars
  BY <1>12, <1>13, <1>14 DEF Receive, ReceiveEnds, DropReceive, CloseFrame, PongFrame,
       DataFrame, streamVars
<1> QED BY <1>1, <1>2, <1>3, <1>4, <1>5, <1>6, <1>7, <1>8, <1>9, <1>10, <1>11, <1>14 DEF FramesNext

\* The control state lets at most one frame be written at a time.
LEMMA WritersTakeTurns == ASSUME Control PROVE OneWriter
<1> USE DEF Control
<1>1. call.at # "wait" => chain.local = NoChain
  BY DEF ChainsAreFormed
<1>2. WritesWhole("local") => call.at = "wait"
  BY <1>1 DEF WritesWhole, NoChain, NoFrame, Frame
<1>3. WritesWhole("own") => ~sock.disconnected /\ call.at # "write"
  BY DEF Turn, WhileWriting
<1>4. WritesWhole("own") /\ call.at = "wait" => Settled("local")
  BY <1>3 DEF WhileWaiting
<1>5. Settled("local") => ~WritesWhole("local")
  BY DEF Settled, WritesWhole
<1> QED BY <1>2, <1>3, <1>4, <1>5 DEF OneWriter

\* The inductive invariant of WebSocketImpl (http.cc 3322-3505 and what they
\* call): whoever writes a frame, and however sends are dropped, pumps started
\* and the stream shut meanwhile, the writers and the wire are as Control and
\* Turns say.
THEOREM StreamInvariant == FramesSpec => []StreamInv
<1> QED BY StreamInit, StreamStep, PTL DEF FramesSpec

\* FramesTakeTurns holds for any number of sends and frames: send(), the pump
\* and the pongs and Closes of receive() never write at once, pongs leave in
\* the order of the pings and none that waits is left behind, and what may
\* follow a frame that was cut short is a Close of receive()'s, or a pong only
\* after two of them.
THEOREM TurnsAreTaken == FramesSpec => []FramesTakeTurns
<1>1. StreamInv => FramesTakeTurns
  BY TypesHold, WritersTakeTurns DEF StreamInv, Control, Turns, Wire, FramesTakeTurns
<1> QED BY <1>1, StreamInvariant, PTL

-----------------------------------------------------------------------------
(* The pipe                                                                 *)

Calls == [op : {"none", "send", "close", "receive", "pump"},
          how : {"idle", "waiting", "ok", "failed", "dropped"}]

\* The variables of the pipe hold what their declarations say.
PipeTypeOK ==
  /\ state \in {"none", "send", "pumpFrom", "receive", "pumpTo", "disconnected", "aborted"}
  /\ inner \in {"none", "send", "receive", "pump"}
  /\ sender \in Calls /\ receiver \in Calls
  /\ entered \in Seq(BOOLEAN)

\* The state and what it wraps say which calls wait, and which of the two the
\* sending end has under way: a message or a pump.
WhoWaits ==
  /\ IsWaiting(sender) <=> state \in {"send", "pumpFrom"} \/ inner # "none"
  /\ IsWaiting(receiver) <=> state \in {"receive", "pumpTo"} \/ inner # "none"
  /\ IsWaiting(sender) => (Sends(sender) <=> state = "send" \/ inner = "send")
  /\ inner = "send" => state \in {"send", "pumpTo"}
  /\ inner = "receive" => state \in {"pumpFrom", "receive"}
  /\ inner = "pump" => state \in {"pumpFrom", "pumpTo"}

\* n messages have entered, those in t came out and those in l were lost, and
\* the last one is still open or not.
IsLog(n, t, l, open) ==
  /\ n \in Nat /\ t \in Seq(1..n) /\ l \subseteq 1..n
  /\ \A i, j \in 1..Len(t) : i < j => t[i] < t[j]
  /\ \A i \in 1..Len(t) : t[i] \notin l
  /\ \A m \in 1..n : m \in l \/ (\E i \in 1..Len(t) : t[i] = m) \/ (m = n /\ open)
  /\ open => n > 0 /\ n \notin l /\ \A i \in 1..Len(t) : t[i] < n

\* The message of a sender that waits is the one that is open.
IsOpen == Sends(sender) /\ IsWaiting(sender)
LogIsExact == IsLog(LastIn, taken, lost, IsOpen)

PipeInv == PipeTypeOK /\ WhoWaits /\ LogIsExact

\* A message enters.
LEMMA LogEnters ==
  ASSUME NEW n, NEW t, NEW l, IsLog(n, t, l, FALSE)
  PROVE  IsLog(n + 1, t, l, TRUE)
<1>1. n \in Nat /\ t \in Seq(1..n) /\ l \subseteq 1..n
  BY DEF IsLog
<1>2. Len(t) \in Nat /\ \A i \in 1..Len(t) : t[i] \in 1..n
  BY <1>1
<1>3. t \in Seq(1..(n + 1))
  <2>1. 1..n \subseteq 1..(n + 1)
    BY <1>1
  <2> QED BY <1>1, <2>1
<1>4. l \subseteq 1..(n + 1) /\ n + 1 \notin l
  BY <1>1
<1>5. \A i \in 1..Len(t) : t[i] < n + 1
  BY <1>1, <1>2
<1>6. ASSUME NEW m \in 1..(n + 1)
      PROVE  m \in l \/ (\E i \in 1..Len(t) : t[i] = m) \/ m = n + 1
  BY <1>1 DEF IsLog
<1> QED BY <1>1, <1>3, <1>4, <1>5, <1>6 DEF IsLog

\* The open message comes out.
LEMMA LogTakes ==
  ASSUME NEW n, NEW t, NEW l, IsLog(n, t, l, TRUE)
  PROVE  IsLog(n, Append(t, n), l, FALSE)
<1> DEFINE s == Append(t, n)
<1>1. n \in Nat /\ t \in Seq(1..n) /\ l \subseteq 1..n
  BY DEF IsLog
<1>2. n > 0 /\ n \notin l /\ \A i \in 1..Len(t) : t[i] < n
  BY DEF IsLog
<1>3. /\ s \in Seq(1..n) /\ Len(t) \in Nat /\ Len(s) = Len(t) + 1
      /\ \A i \in 1..Len(t) : s[i] = t[i]
      /\ s[Len(t) + 1] = n
  BY <1>1, <1>2
<1> HIDE DEF s
<1>4. ASSUME NEW i \in 1..Len(s), NEW j \in 1..Len(s), i < j
      PROVE  s[i] < s[j]
  <2>1. i \in 1..Len(t) /\ s[i] = t[i]
    BY <1>3, <1>4
  <2>2. CASE j = Len(t) + 1
    BY <1>2, <1>3, <2>1, <2>2
  <2>3. CASE j \in 1..Len(t)
    BY <1>3, <1>4, <2>1, <2>3 DEF IsLog
  <2> QED BY <1>3, <2>2, <2>3
<1>5. ASSUME NEW i \in 1..Len(s) PROVE s[i] \notin l
  <2>1. CASE i = Len(t) + 1
    BY <1>2, <1>3, <2>1
  <2>2. CASE i \in 1..Len(t)
    BY <1>3, <2>2 DEF IsLog
  <2> QED BY <1>3, <2>1, <2>2
<1>6. ASSUME NEW m \in 1..n
      PROVE  m \in l \/ \E i \in 1..Len(s) : s[i] = m
  <2>1. CASE m = n
    BY <1>3, <2>1
  <2>2. CASE m # n
    <3>1. m \in l \/ \E i \in 1..Len(t) : t[i] = m
      BY <2>2 DEF IsLog
    <3> QED BY <1>3, <3>1
  <2> QED BY <2>1, <2>2
<1>7. IsLog(n, s, l, FALSE)
  BY <1>1, <1>3, <1>4, <1>5, <1>6 DEF IsLog
<1> QED BY <1>7 DEF s

\* The sender of the open message is told that it failed, or gives up.
LEMMA LogLoses ==
  ASSUME NEW n, NEW t, NEW l, IsLog(n, t, l, TRUE)
  PROVE  IsLog(n, t, l \cup {n}, FALSE)
<1>1. n \in Nat /\ t \in Seq(1..n) /\ l \subseteq 1..n
  BY DEF IsLog
<1>2. n > 0 /\ \A i \in 1..Len(t) : t[i] < n
  BY DEF IsLog
<1>3. l \cup {n} \subseteq 1..n
  BY <1>1, <1>2
<1>4. \A i \in 1..Len(t) : t[i] \notin l \cup {n}
  BY <1>1, <1>2 DEF IsLog
<1> QED BY <1>1, <1>3, <1>4 DEF IsLog

\* What a step did to the log, if the sender has no message under way
\* afterwards, ...
LEMMA LogSettled ==
  ASSUME PipeTypeOK, LogIsExact, LastIn' = LastIn, ~IsOpen',
         \/ ~IsOpen /\ UNCHANGED <<taken, lost>>
         \/ IsOpen /\ taken' = Append(taken, LastIn) /\ UNCHANGED lost
         \/ IsOpen /\ lost' = lost \cup {LastIn} /\ UNCHANGED taken
  PROVE  LogIsExact'
<1>1. CASE ~IsOpen /\ UNCHANGED <<taken, lost>>
  BY <1>1 DEF LogIsExact, IsLog
<1>2. CASE IsOpen /\ taken' = Append(taken, LastIn) /\ UNCHANGED lost
  <2>1. IsLog(LastIn, taken, lost, TRUE)
    BY <1>2 DEF LogIsExact, IsLog
  <2>2. IsLog(LastIn, Append(taken, LastIn), lost, FALSE)
    BY <2>1, LogTakes
  <2> QED BY <1>2, <2>2 DEF LogIsExact, IsLog
<1>3. CASE IsOpen /\ lost' = lost \cup {LastIn} /\ UNCHANGED taken
  <2>1. IsLog(LastIn, taken, lost, TRUE)
    BY <1>3 DEF LogIsExact, IsLog
  <2>2. IsLog(LastIn, taken, lost \cup {LastIn}, FALSE)
    BY <2>1, LogLoses
  <2> QED BY <1>3, <2>2 DEF LogIsExact, IsLog
<1> QED BY <1>1, <1>2, <1>3

\* ... if nothing entered, came out or was lost, ...
LEMMA LogRests ==
  ASSUME LogIsExact, IsOpen' <=> IsOpen, UNCHANGED <<entered, taken, lost>>
  PROVE  LogIsExact'
BY DEF LogIsExact, IsLog, LastIn

\* ... and if a message entered: it waits, came out at once or was refused.
LEMMA LogGrows ==
  ASSUME PipeTypeOK, LogIsExact, ~IsOpen, LastIn' = LastIn + 1,
         \/ IsOpen' /\ UNCHANGED <<taken, lost>>
         \/ ~IsOpen' /\ taken' = Append(taken, LastIn + 1) /\ UNCHANGED lost
         \/ ~IsOpen' /\ lost' = lost \cup {LastIn + 1} /\ UNCHANGED taken
  PROVE  LogIsExact'
<1>1. IsLog(LastIn, taken, lost, FALSE)
  BY DEF LogIsExact, IsLog
<1>2. IsLog(LastIn + 1, taken, lost, TRUE)
  BY <1>1, LogEnters
<1>3. CASE IsOpen' /\ UNCHANGED <<taken, lost>>
  BY <1>2, <1>3 DEF LogIsExact, IsLog
<1>4. CASE ~IsOpen' /\ taken' = Append(taken, LastIn + 1) /\ UNCHANGED lost
  <2>1. IsLog(LastIn + 1, Append(taken, LastIn + 1), lost, FALSE)
    BY <1>2, LogTakes
  <2> QED BY <1>4, <2>1 DEF LogIsExact, IsLog
<1>5. CASE ~IsOpen' /\ lost' = lost \cup {LastIn + 1} /\ UNCHANGED taken
  <2>1. IsLog(LastIn + 1, taken, lost \cup {LastIn + 1}, FALSE)
    BY <1>2, LogLoses
  <2> QED BY <1>5, <2>1 DEF LogIsExact, IsLog
<1> QED BY <1>3, <1>4, <1>5

LEMMA PipeInit == WsInit => PipeInv
<1> SUFFICES ASSUME WsInit PROVE PipeInv
  OBVIOUS
<1>1. PipeTypeOK /\ WhoWaits
  BY DEF WsInit, PipeTypeOK, WhoWaits, Calls, NoCall, IsWaiting, Sends
<1>2. LastIn = 0 /\ ~IsOpen /\ taken = <<>> /\ lost = {}
  BY DEF WsInit, NoCall, IsOpen, IsWaiting, LastIn
<1>3. LogIsExact
  BY <1>2 DEF LogIsExact, IsLog
<1> QED BY <1>1, <1>3 DEF PipeInv

\* What calls become.
LEMMA CallsEnd ==
  /\ \A c \in Calls, h \in {"ok", "failed", "dropped"} :
       Ended(c, h) \in Calls /\ ~IsWaiting(Ended(c, h))
  /\ \A op \in {"send", "close", "receive", "pump"} :
       /\ Waits(op) \in Calls /\ IsWaiting(Waits(op))
       /\ Sends(Waits(op)) <=> op \in {"send", "close"}
  /\ \A c \in Calls : Sends(c) \in BOOLEAN /\ IsWaiting(c) \in BOOLEAN
BY DEF Calls, Ended, IsWaiting, Waits, Sends

\* One lemma for each action: first the calls, then the log.
LEMMA PipeSendKeeps ==
  ASSUME PipeInv, NEW op \in {"send", "close"}, PipeSend(op)
  PROVE  PipeInv'
<1> USE DEF PipeInv
<1>1. entered' \in Seq(BOOLEAN) /\ LastIn' = LastIn + 1
  BY DEF PipeTypeOK, PipeSend, LastIn
<1>2. ~IsOpen
  BY DEF PipeSend, IsOpen
<1>3. CASE state \in {"none", "pumpTo"}
  <2>1. /\ PipeTypeOK' /\ WhoWaits' /\ UNCHANGED <<taken, lost>>
        /\ sender' = Waits(op)
    BY <1>1, <1>3, CallsEnd DEF PipeSend, PipeTypeOK, WhoWaits
  <2>2. IsOpen'
    BY <2>1, CallsEnd DEF IsOpen
  <2> QED BY <1>1, <1>2, <2>1, <2>2, LogGrows
<1>4. CASE state = "receive"
  <2>1. /\ PipeTypeOK' /\ WhoWaits' /\ UNCHANGED lost
        /\ taken' = Append(taken, LastIn + 1) /\ ~IsWaiting(sender')
    BY <1>1, <1>4, CallsEnd DEF PipeSend, PipeTypeOK, WhoWaits
  <2>2. ~IsOpen'
    BY <2>1 DEF IsOpen
  <2> QED BY <1>1, <1>2, <2>1, <2>2, LogGrows
<1>5. CASE state \notin {"none", "receive", "pumpTo"}
  <2>1. /\ PipeTypeOK' /\ WhoWaits' /\ UNCHANGED taken
        /\ lost' = lost \cup {LastIn + 1} /\ ~IsWaiting(sender')
    BY <1>1, <1>5, CallsEnd DEF PipeSend, PipeTypeOK, WhoWaits
  <2>2. ~IsOpen'
    BY <2>1 DEF IsOpen
  <2> QED BY <1>1, <1>2, <2>1, <2>2, LogGrows
<1> QED BY <1>3, <1>4, <1>5

LEMMA TryPumpFromKeeps == ASSUME PipeInv, TryPumpFrom PROVE PipeInv'
<1> USE DEF PipeInv
<1>1. PipeTypeOK' /\ WhoWaits' /\ ~IsWaiting(sender) /\ UNCHANGED <<entered, taken, lost>>
  BY CallsEnd DEF TryPumpFrom, PipeTypeOK, WhoWaits
<1>2. sender' = Waits("pump") \/ ~IsWaiting(sender')
  BY CallsEnd DEF TryPumpFrom
<1>3. ~IsOpen /\ ~IsOpen'
  BY <1>1, <1>2, CallsEnd DEF IsOpen
<1> QED BY <1>1, <1>3, LogRests

LEMMA DisconnectPipe == ASSUME PipeInv, PipeDisconnect PROVE PipeInv'
<1> USE DEF PipeInv
<1>1. PipeTypeOK' /\ WhoWaits' /\ UNCHANGED <<sender, entered, taken, lost>>
  BY CallsEnd DEF PipeDisconnect, PipeTypeOK, WhoWaits
<1> QED BY <1>1, LogRests DEF IsOpen

LEMMA ReceiveKeeps == ASSUME PipeInv, PipeReceive PROVE PipeInv'
<1> USE DEF PipeInv
<1>1. PipeTypeOK' /\ WhoWaits' /\ UNCHANGED <<entered, lost>>
  BY CallsEnd DEF PipeReceive, PipeTypeOK, WhoWaits
<1>2. CASE state = "send"
  <2>1. /\ IsOpen /\ taken' = Append(taken, LastIn) /\ ~IsWaiting(sender')
    BY <1>2, CallsEnd DEF PipeReceive, PipeTypeOK, WhoWaits, IsOpen
  <2>2. ~IsOpen' /\ LastIn' = LastIn
    BY <1>1, <2>1 DEF IsOpen, LastIn
  <2> QED BY <1>1, <2>1, <2>2, LogSettled
<1>3. CASE state # "send"
  <2>1. UNCHANGED <<sender, taken>>
    BY <1>3 DEF PipeReceive
  <2> QED BY <1>1, <2>1, LogRests DEF IsOpen
<1> QED BY <1>2, <1>3

LEMMA PumpToKeeps == ASSUME PipeInv, PumpTo PROVE PipeInv'
<1> USE DEF PipeInv
<1>1. PipeTypeOK' /\ WhoWaits' /\ UNCHANGED <<sender, entered, taken, lost>>
  BY CallsEnd DEF PumpTo, PipeTypeOK, WhoWaits
<1> QED BY <1>1, LogRests DEF IsOpen

\* A step that ends the sender's call, and its message if it has one.
LEMMA SenderEnds ==
  ASSUME PipeInv, PipeTypeOK', WhoWaits', UNCHANGED <<entered, taken>>,
         ~IsWaiting(sender'), lost' = LostWith(sender)
  PROVE  PipeInv'
<1> USE DEF PipeInv
<1>1. ~IsOpen' /\ LastIn' = LastIn
  BY DEF IsOpen, LastIn
<1>2. \/ IsOpen /\ lost' = lost \cup {LastIn}
      \/ ~IsOpen /\ UNCHANGED lost
  BY DEF IsOpen, LostWith
<1> QED BY <1>1, <1>2, LogSettled

LEMMA InnerSentKeeps == ASSUME PipeInv, InnerSent PROVE PipeInv'
<1> USE DEF PipeInv
<1>1. PipeTypeOK' /\ WhoWaits' /\ UNCHANGED <<entered, lost>>
  BY CallsEnd DEF InnerSent, PipeTypeOK, WhoWaits
<1>2. IsOpen /\ taken' = Append(taken, LastIn) /\ ~IsWaiting(sender')
  BY CallsEnd DEF InnerSent, PipeTypeOK, WhoWaits, IsOpen
<1>3. ~IsOpen' /\ LastIn' = LastIn
  BY <1>1, <1>2 DEF IsOpen, LastIn
<1> QED BY <1>1, <1>2, <1>3, LogSettled

LEMMA InnerSendFailsKeeps == ASSUME PipeInv, InnerSendFails PROVE PipeInv'
<1>1. PipeTypeOK' /\ WhoWaits' /\ UNCHANGED <<entered, taken>> /\ ~IsWaiting(sender')
  BY CallsEnd DEF InnerSendFails, PipeTypeOK, WhoWaits, PipeInv
<1> QED BY <1>1, SenderEnds DEF InnerSendFails

\* A message that the pump brings is no message of the sender's.
LEMMA PumpedKeeps ==
  ASSUME PipeInv, PipeTypeOK', WhoWaits', NEW close \in BOOLEAN,
         inner \in {"receive", "pump"}, inner' \in {"none", inner}, state' # "send",
         entered' = Append(entered, close), taken' = Append(taken, LastIn + 1), UNCHANGED lost
  PROVE  PipeInv'
<1> USE DEF PipeInv
<1>1. ~IsOpen /\ ~IsOpen'
  BY DEF WhoWaits, IsOpen
<1>2. LastIn' = LastIn + 1
  BY DEF PipeTypeOK, LastIn
<1> QED BY <1>1, <1>2, LogGrows

LEMMA InnerReceivedKeeps ==
  ASSUME PipeInv, NEW close \in BOOLEAN, InnerReceived(close)
  PROVE  PipeInv'
<1>1. entered' \in Seq(BOOLEAN)
  BY DEF InnerReceived, PipeInv, PipeTypeOK
<1>2. PipeTypeOK' /\ WhoWaits'
  BY <1>1, CallsEnd DEF InnerReceived, PipeTypeOK, WhoWaits, PipeInv
<1>3. state' # "send"
  BY DEF InnerReceived, PipeInv, WhoWaits
<1> QED BY <1>2, <1>3, PumpedKeeps DEF InnerReceived

LEMMA InnerPumpsKeeps ==
  ASSUME PipeInv, NEW close \in BOOLEAN, InnerPumps(close)
  PROVE  PipeInv'
<1>1. entered' \in Seq(BOOLEAN)
  BY DEF InnerPumps, PipeInv, PipeTypeOK
<1>2. PipeTypeOK' /\ WhoWaits'
  BY <1>1, CallsEnd DEF InnerPumps, PipeTypeOK, WhoWaits, PipeInv
<1>3. state' # "send" /\ inner' \in {"none", inner}
  BY DEF InnerPumps, PipeInv, WhoWaits
<1> QED BY <1>2, <1>3, PumpedKeeps DEF InnerPumps

LEMMA InnerReadFailsKeeps == ASSUME PipeInv, InnerReadFails PROVE PipeInv'
<1> USE DEF PipeInv
<1>1. PipeTypeOK' /\ WhoWaits' /\ UNCHANGED <<entered, taken, lost>> /\ ~IsWaiting(sender')
  BY CallsEnd DEF InnerReadFails, PipeTypeOK, WhoWaits
<1>2. ~IsOpen /\ ~IsOpen'
  BY <1>1 DEF InnerReadFails, WhoWaits, IsOpen
<1> QED BY <1>1, <1>2, LogRests

LEMMA DropSenderKeeps == ASSUME PipeInv, DropSender PROVE PipeInv'
<1>1. PipeTypeOK' /\ WhoWaits' /\ UNCHANGED <<entered, taken>> /\ ~IsWaiting(sender')
  BY CallsEnd DEF DropSender, PipeTypeOK, WhoWaits, PipeInv
<1> QED BY <1>1, SenderEnds DEF DropSender

LEMMA DropReceiverKeeps == ASSUME PipeInv, DropReceiver PROVE PipeInv'
<1>1. PipeTypeOK' /\ WhoWaits' /\ UNCHANGED <<entered, taken>>
  BY CallsEnd DEF DropReceiver, PipeTypeOK, WhoWaits, PipeInv
<1>2. CASE state \in {"receive", "pumpTo"} /\ inner # "none"
  <2>1. ~IsWaiting(sender') /\ lost' = LostWith(sender)
    BY <1>2, CallsEnd DEF DropReceiver, PipeInv, PipeTypeOK
  <2> QED BY <1>1, <2>1, SenderEnds
<1>3. CASE ~(state \in {"receive", "pumpTo"} /\ inner # "none")
  <2>1. UNCHANGED <<sender, lost>>
    BY <1>3 DEF DropReceiver
  <2> QED BY <1>1, <2>1, LogRests DEF IsOpen, PipeInv
<1> QED BY <1>2, <1>3

LEMMA AbortPipe == ASSUME PipeInv, PipeAbort PROVE PipeInv'
<1>1. PipeTypeOK' /\ WhoWaits' /\ UNCHANGED <<entered, taken>> /\ ~IsWaiting(sender')
  BY CallsEnd DEF PipeAbort, PipeTypeOK, WhoWaits, PipeInv
<1> QED BY <1>1, SenderEnds DEF PipeAbort

\* The inductive invariant of WebSocketPipeImpl (http.cc 3737-4074): its state
\* and what its canceler wraps say exactly who waits, and each message that
\* entered has come out, was given up, or is the one whose sender waits.
THEOREM PipeInvariant == WsSpec => []PipeInv
<1>1. PipeInv /\ [WsNext]_wsVars => PipeInv'
  <2> SUFFICES ASSUME PipeInv, [WsNext]_wsVars PROVE PipeInv'
    OBVIOUS
  <2>1. CASE UNCHANGED wsVars
    BY <2>1, LogRests DEF wsVars, PipeInv, PipeTypeOK, WhoWaits, IsOpen
  <2> QED BY <2>1, PipeSendKeeps, TryPumpFromKeeps, DisconnectPipe, ReceiveKeeps, PumpToKeeps,
       InnerSentKeeps, InnerSendFailsKeeps, InnerReceivedKeeps, InnerPumpsKeeps,
       InnerReadFailsKeeps, DropSenderKeeps, DropReceiverKeeps, AbortPipe DEF WsNext
<1> QED BY <1>1, PipeInit, PTL DEF WsSpec

\* MessagesAreExact holds however many messages enter: whichever end calls
\* first, pumps, gives up or is destroyed, messages come out of the pipe once
\* and in order, a sender is told the truth, and no two calls wait for each
\* other.
THEOREM MessagesExact == WsSpec => []MessagesAreExact
<1>1. PipeInv => MessagesAreExact
  <2> SUFFICES ASSUME PipeInv PROVE MessagesAreExact
    OBVIOUS
  <2>1. WhoWaits /\ IsLog(LastIn, taken, lost, IsOpen)
    BY DEF PipeInv, LogIsExact
  <2>2. /\ IsWaiting(sender) /\ IsWaiting(receiver) => inner # "none"
        /\ state \in {"disconnected", "aborted"} => ~IsWaiting(sender) /\ ~IsWaiting(receiver)
        /\ inner # "none" => IsWaiting(sender) /\ IsWaiting(receiver)
    BY <2>1 DEF WhoWaits, PipeInv, PipeTypeOK
  <2>3. /\ \A i, j \in 1..Len(taken) : i < j => taken[i] < taken[j]
        /\ \A i \in 1..Len(taken) : taken[i] \notin lost
        /\ \A m \in 1..LastIn :
             \/ m \in lost \/ \E i \in 1..Len(taken) : taken[i] = m
             \/ m = LastIn /\ Sends(sender) /\ IsWaiting(sender)
    BY <2>1 DEF IsLog, IsOpen
  <2> QED BY <2>2, <2>3 DEF MessagesAreExact
<1> QED BY <1>1, PipeInvariant, PTL
=============================================================================
