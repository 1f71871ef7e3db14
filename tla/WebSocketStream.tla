--------------------------- MODULE WebSocketStream ---------------------------
(***************************************************************************)
(* A web socket on a byte stream (WebSocketImpl in                         *)
(* libraries/zc/http/http.cc).  Three parties write to the stream: the     *)
(* application with send(), close() or a pump; receive(), which answers    *)
(* pings with pongs and bad frames with a Close; and, before all of them,  *)
(* the HTTP handshake.  A frame is two buffers in one write, so two writes *)
(* at once, or one after a write that was cut short, garble the stream.    *)
(*                                                                         *)
(* Payloads, masks and compression are left out.  Pings are numbered, and  *)
(* a frame on the wire is [kind, n]: "data", "close" and "pump" are the    *)
(* application's, "pong" answers ping n, "error" is receive()'s Close.     *)
(***************************************************************************)
EXTENDS Integers, Sequences

CONSTANTS
  MaxSends,    \* bound: calls of send(), close() and pumps into the socket
  MaxFrames    \* bound: frames that receive() takes

VARIABLES
  sock,     \* hasSentClose, disconnected, currentlySending; shut: the stream
            \*   takes no more bytes
  queued,   \* queuedControlMessage: a frame or NoFrame
  chain,    \* promises for control messages: "own" is sendingControlMessage,
            \*   "local" the one that sendImpl() or a pump has moved out of it
            \*   and awaits.  [cur, more]: what it is doing, and how many
            \*   writeQueuedControlMessage() are to follow; or NoChain
  call,     \* the application's send: [op, at], at "idle", "wait" or "write"
  rx,       \* receive(): "idle", "reading", "closing" or "failed"
  fragments,  \* the number of frames of a message that is not complete
  frames,   \* history: the number of frames taken
  pings,    \* history: the number of pings among them
  onWire,   \* history: the frames whose writes were begun
  cut,      \* history: the length of onWire when a write was cancelled, or 0
  sends     \* history: the number of calls made by the application

streamVars == <<sock, queued, chain, call, rx, fragments, frames, pings, onWire,
                cut, sends>>

Frame(kind, n) == [kind |-> kind, n |-> n]
NoFrame == Frame("none", 0)
NoChain == [cur |-> NoFrame, more |-> 0]
Handshake == [cur |-> Frame("handshake", 0), more |-> 0]
Resolved == Frame("done", 0)
Failed == Frame("failed", 0)
Idle == [op |-> "none", at |-> "idle"]

FramesInit ==
  /\ sock = [hasSentClose |-> FALSE, disconnected |-> FALSE,
             currentlySending |-> FALSE, shut |-> FALSE]
  /\ queued = NoFrame /\ call = Idle /\ rx = "idle"
  /\ \E first \in {NoChain, Handshake} : chain = [own |-> first, local |-> NoChain]
  /\ fragments = 0 /\ frames = 0 /\ pings = 0
  /\ onWire = <<>> /\ cut = 0 /\ sends = 0

----------------------------------------------------------------------------
(* stream->write() of a frame begins.  One that is shut takes nothing. *)
Begins(f) == onWire' = IF sock.shut THEN onWire ELSE Append(onWire, f)

IsWriting(c) == chain[c].cur.kind \in {"pong", "error"}

(* writeQueuedControlMessage() up to its write, with queued frame q, as part
   of a step that leaves the chain at [cur, more].  Its result replaces cur. *)
Drops(q) == q = NoFrame \/ sock.hasSentClose \/ sock.disconnected
WriteQueued(c, q, more) ==
  /\ queued' = NoFrame
  /\ chain' = [chain EXCEPT ![c] = [cur |-> IF Drops(q) THEN Resolved ELSE q, more |-> more]]
  /\ IF Drops(q) THEN UNCHANGED onWire ELSE Begins(q)

(* setUpSendingControlMessage() once q is queued: after the promise there is,
   or at once. *)
SetUp(q) ==
  IF chain.own # NoChain
  THEN /\ queued' = q
       /\ chain' = [chain EXCEPT !.own.more = @ + 1]
       /\ UNCHANGED onWire
  ELSE WriteQueued("own", q, 0)

(* A promise is dropped, and with it the write it has begun.  The Close of
   receive() takes its fulfiller along. *)
IsCut(c) == IsWriting(c) /\ ~sock.shut
Cut(b) == cut' = IF b /\ cut = 0 THEN Len(onWire) ELSE cut
HoldsClose(c) == chain[c].cur.kind = "error"
Fails(b) == rx' = IF b /\ rx = "closing" THEN "failed" ELSE rx

----------------------------------------------------------------------------
(* The promises for control messages, step by step. *)

(* The handshake or the frame is written; a Close was what receive() waited
   for before it reports the error. *)
WriteDone(c) ==
  /\ chain[c].cur.kind \in {"handshake", "pong", "error"} /\ ~sock.shut
  /\ chain' = [chain EXCEPT ![c].cur = Resolved]
  /\ Fails(HoldsClose(c))
  /\ UNCHANGED <<sock, queued, call, fragments, frames, pings, onWire, cut, sends>>

(* The stream fails: what follows in the promise is never run. *)
WriteFails(c) ==
  /\ chain[c].cur.kind \in {"handshake", "pong", "error"}
  /\ chain' = [chain EXCEPT ![c].cur = Failed]
  /\ sock' = [sock EXCEPT !.shut = TRUE]
  /\ Fails(HoldsClose(c))
  /\ UNCHANGED <<queued, call, fragments, frames, pings, onWire, cut, sends>>

(* The continuation writes what is queued by now; a Close that is dropped is
   fulfilled nevertheless. *)
RunQueued(c) ==
  /\ chain[c].cur = Resolved /\ chain[c].more > 0
  /\ WriteQueued(c, queued, chain[c].more - 1)
  /\ Fails(queued.kind = "error" /\ Drops(queued))
  /\ UNCHANGED <<sock, call, fragments, frames, pings, cut, sends>>

----------------------------------------------------------------------------
(* The application. *)

Ops == {"data", "close", "pump"}

(* The loop of sendImpl(), and optimizedPumpTo(): wait for control messages
   that are being sent, or go on. *)
AwaitOrWrite(op, s) ==
  IF chain.own # NoChain
  THEN /\ call' = [op |-> op, at |-> "wait"]
       /\ chain' = [own |-> NoChain, local |-> chain.own]
       /\ sock' = s /\ UNCHANGED onWire
  ELSE /\ call' = [op |-> op, at |-> "write"]
       /\ chain' = [chain EXCEPT !.local = NoChain]
       /\ sock' = [s EXCEPT !.hasSentClose = @ \/ op = "close"]
       /\ Begins(Frame(op, 0))

(* sendImpl() and tryPumpFrom() begin.  A pump keeps pongs out for good. *)
Send(op) ==
  /\ sends < MaxSends /\ call = Idle
  /\ ~sock.disconnected /\ ~sock.currentlySending
  /\ sends' = sends + 1
  /\ AwaitOrWrite(op, [sock EXCEPT !.currentlySending = TRUE,
                                   !.hasSentClose = @ \/ op = "pump"])
  /\ UNCHANGED <<queued, rx, fragments, frames, pings, cut>>

(* The awaited promise is resolved; a send looks again whether the socket was
   disconnected before it waits for another. *)
SendProceeds ==
  /\ call.at = "wait" /\ chain.local.cur = Resolved /\ chain.local.more = 0
  /\ IF call.op # "pump" /\ chain.own # NoChain /\ sock.disconnected
     THEN /\ call' = Idle /\ chain' = [chain EXCEPT !.local = NoChain]
          /\ UNCHANGED <<sock, onWire>>
     ELSE AwaitOrWrite(call.op, sock)
  /\ UNCHANGED <<queued, rx, fragments, frames, pings, cut, sends>>

(* The message is written, and whatever was queued meanwhile is next.  A pump
   that has come to the end of its input disconnects. *)
SendDone ==
  /\ call.at = "write" /\ ~sock.shut
  /\ call' = Idle
  /\ IF call.op = "pump"
     THEN /\ sock' = [sock EXCEPT !.disconnected = TRUE, !.shut = TRUE]
          /\ UNCHANGED <<queued, chain, onWire>>
     ELSE /\ sock' = [sock EXCEPT !.currentlySending = FALSE]
          /\ IF queued = NoFrame THEN UNCHANGED <<queued, chain, onWire>> ELSE SetUp(queued)
  /\ Fails(call.op # "pump" /\ queued.kind = "error" /\ chain.own = NoChain /\ Drops(queued))
  /\ UNCHANGED <<fragments, frames, pings, cut, sends>>

(* The promise that a send awaits, or its own write, fails.  currentlySending
   stays set.  A pump disconnects when pumpTo() fails, but not when the peer
   is found to be gone. *)
SendFails ==
  /\ \/ call.at = "wait" /\ chain.local.cur = Failed
     \/ call.at = "write"
  /\ call' = Idle /\ chain' = [chain EXCEPT !.local = NoChain]
  /\ \E d \in {sock.disconnected, call = [op |-> "pump", at |-> "write"]} :
       sock' = [sock EXCEPT !.shut = TRUE, !.disconnected = @ \/ d]
  /\ UNCHANGED <<queued, rx, fragments, frames, pings, onWire, cut, sends>>

(* The application drops the promise of a send. *)
CancelSend ==
  /\ call # Idle
  /\ call' = Idle /\ chain' = [chain EXCEPT !.local = NoChain]
  /\ Cut((call.at = "write" /\ ~sock.shut) \/ IsCut("local"))
  /\ Fails(HoldsClose("local"))
  /\ UNCHANGED <<sock, queued, fragments, frames, pings, onWire, sends>>

(* disconnect(), which must not be called during a send. *)
Disconnect ==
  /\ call = Idle /\ ~sock.disconnected
  /\ sock' = [sock EXCEPT !.disconnected = TRUE, !.shut = TRUE]
  /\ chain' = [chain EXCEPT !.own = NoChain]
  /\ Cut(IsCut("own")) /\ Fails(HoldsClose("own"))
  /\ UNCHANGED <<queued, call, fragments, frames, pings, onWire, sends>>

(* abort(), at any time.  A read of receive() fails, and so does every write. *)
Abort ==
  /\ ~(sock.disconnected /\ rx = "failed")
  /\ sock' = [sock EXCEPT !.disconnected = TRUE, !.shut = TRUE]
  /\ queued' = NoFrame /\ chain' = [chain EXCEPT !.own = NoChain]
  /\ Cut(IsCut("own"))
  /\ rx' = IF rx = "reading" \/ (rx = "closing" /\ (HoldsClose("own") \/ queued.kind = "error"))
           THEN "failed" ELSE rx
  /\ UNCHANGED <<call, fragments, frames, pings, onWire, sends>>

----------------------------------------------------------------------------
(* receive() *)

Receive ==
  /\ rx = "idle" /\ frames < MaxFrames
  /\ rx' = "reading"
  /\ UNCHANGED <<sock, queued, chain, call, fragments, frames, pings, onWire, cut,
                 sends>>

(* The end of the input, between frames or inside of one. *)
ReceiveEnds ==
  /\ rx = "reading"
  /\ rx' = "failed"
  /\ UNCHANGED <<sock, queued, chain, call, fragments, frames, pings, onWire, cut,
                 sends>>

(* The application drops receive() while it waits for its Close to be written,
   and may ask again. *)
DropReceive ==
  /\ rx = "closing"
  /\ rx' = "idle"
  /\ UNCHANGED <<sock, queued, chain, call, fragments, frames, pings, onWire, cut, sends>>

TakesFrame == rx = "reading" /\ frames < MaxFrames /\ frames' = frames + 1

(* A text or binary frame, or a continuation; fin: the last of its message. *)
DataFrame(first, fin) ==
  /\ TakesFrame
  /\ first = (fragments = 0)
  /\ fragments' = IF fin THEN 0 ELSE fragments + 1
  /\ rx' = IF fin THEN "idle" ELSE rx
  /\ UNCHANGED <<sock, queued, chain, call, pings, onWire, cut, sends>>

(* A Close of the peer is returned; a pong is ignored. *)
CloseFrame ==
  /\ TakesFrame /\ rx' = "idle"
  /\ UNCHANGED <<sock, queued, chain, call, fragments, pings, onWire, cut, sends>>
PongFrame ==
  /\ TakesFrame
  /\ UNCHANGED <<sock, queued, chain, call, rx, fragments, pings, onWire, cut, sends>>

(* A variant that forgets the send in progress. *)
IsLeftToPromise(q) == q # NoFrame

(* queuePong() only replaces the payload: a send in progress, or the promise
   that is to write the queued pong, will see to the rest. *)
IsLeftToOthers(q) == sock.currentlySending \/ q # NoFrame

(* A ping: its pong gives way to a queued Close. *)
PingFrame ==
  /\ TakesFrame /\ pings' = pings + 1
  /\ LET pong == Frame("pong", pings + 1)
     IN  \/ queued.kind = "error" /\ UNCHANGED <<queued, chain, onWire>>
         \/ /\ queued.kind # "error" /\ IsLeftToOthers(queued)
            /\ queued' = pong /\ UNCHANGED <<chain, onWire>>
         \/ queued.kind # "error" /\ ~IsLeftToOthers(queued) /\ SetUp(pong)
  /\ UNCHANGED <<sock, call, rx, fragments, cut, sends>>

(* A frame with reserved bits, too large, of unknown kind, or out of place
   among fragments: queueClose() replaces a queued pong, and receive() waits
   for the Close to be written.  It does not look at currentlySending.  The
   fragments are gone if it was the last frame that could not be inflated. *)
BadFrame ==
  /\ TakesFrame
  /\ LET close == Frame("error", 0)
     IN  IF queued # NoFrame
         THEN queued' = close /\ rx' = "closing" /\ UNCHANGED <<chain, onWire>>
         ELSE /\ SetUp(close)
              /\ rx' = IF chain.own = NoChain /\ Drops(close) THEN "failed" ELSE "closing"
  /\ fragments' \in {fragments, 0}
  /\ UNCHANGED <<sock, call, pings, cut, sends>>

----------------------------------------------------------------------------
FramesNext ==
  \/ \E c \in {"own", "local"} : WriteDone(c) \/ WriteFails(c) \/ RunQueued(c)
  \/ \E op \in Ops : Send(op)
  \/ SendProceeds \/ SendDone \/ SendFails \/ CancelSend \/ Disconnect \/ Abort
  \/ Receive \/ ReceiveEnds \/ DropReceive \/ CloseFrame \/ PongFrame \/ PingFrame \/ BadFrame
  \/ \E first, fin \in BOOLEAN : DataFrame(first, fin)

FramesSpec == FramesInit /\ [][FramesNext]_streamVars

----------------------------------------------------------------------------
(* Properties. *)

(* The variables hold what their declarations say. *)
Kinds == {"none", "handshake", "done", "failed", "pong", "error"}
TypeOK ==
  /\ sock \in [hasSentClose : BOOLEAN, disconnected : BOOLEAN,
               currentlySending : BOOLEAN, shut : BOOLEAN]
  /\ queued \in {NoFrame, Frame("error", 0)} \cup {Frame("pong", k) : k \in 1 .. pings}
  /\ \A c \in {"own", "local"} : chain[c].cur.kind \in Kinds /\ chain[c].more \in Nat
  /\ call = Idle \/ (call.op \in Ops /\ call.at \in {"wait", "write"})
  /\ rx \in {"idle", "reading", "closing", "failed"}

(* Writes of whole frames that are under way, a Close sent by receive() aside. *)
WritesWhole(c) == chain[c].cur.kind \in {"handshake", "pong"}
OneWriter ==
  /\ ~(WritesWhole("own") /\ WritesWhole("local"))
  /\ call.at = "write" => ~WritesWhole("own") /\ ~WritesWhole("local")

IsPong(i) == onWire[i].kind = "pong"
IsError(i) == onWire[i].kind = "error"
SaysClose(i) == onWire[i].kind \in {"close", "pump"}

(* After a frame that was cut short. *)
SecondError(i) == \E j, k \in 1 .. i - 1 : j < k /\ IsError(j) /\ IsError(k)
NoneAfterACut ==
  cut > 0 => \A i \in cut + 1 .. Len(onWire) : IsError(i) \/ (IsPong(i) /\ SecondError(i))

PongsInOrder ==
  \A i, j \in 1 .. Len(onWire) : i < j /\ IsPong(j) =>
    ~SaysClose(i) /\ (IsPong(i) => onWire[i].n < onWire[j].n)

PongIsNotForgotten ==
  queued.kind = "pong" =>
    \/ sock.currentlySending \/ sock.disconnected
    \/ chain.own.more > 0

(* Apart from a Close that reports an error, frames are written one at a time
   and none follows a frame that was cut short, whatever is cancelled, except
   that a pong may once receive() was called again and again and has reported
   a second error; no pong follows the application's Close or enters a pumped
   stream; pongs answer pings in order; and a queued pong is not forgotten: a
   promise or the send in progress will write it.  http.cc, 3322-3505, comments
   at 3341-3343 and 3465-3466. *)
FramesTakeTurns ==
  TypeOK /\ OneWriter /\ NoneAfterACut /\ PongsInOrder /\ PongIsNotForgotten

(* While a message or a pump is being written nothing else is begun: "There is
   a message-send in progress, so we cannot write to the stream now", http.cc,
   3465.  queueClose(), 3408-3418, does not wait. *)
WritesDoNotOverlap == call.at = "write" => ~IsWriting("own") /\ ~IsWriting("local")
=============================================================================
