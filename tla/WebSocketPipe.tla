---------------------------- MODULE WebSocketPipe ----------------------------
(***************************************************************************)
(* One direction of a WebSocket pipe (WebSocketPipeImpl in                 *)
(* libraries/zc/http/http.cc).  It holds no buffer: whichever end calls    *)
(* first blocks and becomes the pipe's state, and the other end's call is  *)
(* forwarded to it.  Either end may pump from or to another web socket     *)
(* instead of sending or receiving, drop its call, or be destroyed.        *)
(***************************************************************************)
EXTENDS Integers, Sequences, FiniteSets

CONSTANT MaxSent   \* bound: messages that enter the pipe

VARIABLES
  state,    \* the call that blocks: "none", "send", "pumpFrom", "receive",
            \*   "pumpTo", or the final "disconnected" and "aborted"
  inner,    \* what the state's canceler wraps: an operation on the other
            \*   web socket: "none", "send", "receive" or "pump"
  sender,   \* the sending end's call and how it stands
  receiver, \* the receiving end's call and how it stands
  entered,  \* history: the messages that entered, TRUE for a Close
  taken,    \* history: the numbers of those that came out
  lost,     \* history: those whose sender was told of a failure or gave up
  closedSource,  \* the web socket pumped from has delivered its Close
  ranOn          \* history: a pump that has passed on a Close went on

wsVars == <<state, inner, sender, receiver, entered, taken, lost,
            closedSource, ranOn>>

NoCall == [op |-> "none", how |-> "idle"]
Waits(op) == [op |-> op, how |-> "waiting"]
Ended(call, how) == [call EXCEPT !.how = how]

WsInit ==
  /\ state = "none" /\ inner = "none"
  /\ sender = NoCall /\ receiver = NoCall
  /\ entered = <<>> /\ taken = <<>> /\ lost = {}
  /\ closedSource = FALSE /\ ranOn = FALSE

IsWaiting(call) == call.how = "waiting"
LastIn == Len(entered)
Sends(call) == call.op \in {"send", "close"}

\* The sender's message, if it has one under way, will not arrive.
LostWith(call) == IF Sends(call) /\ IsWaiting(call) THEN lost \cup {LastIn} ELSE lost

-----------------------------------------------------------------------------
(* The sending end.                                                         *)

\* send() and close().
PipeSend(op) ==
  /\ ~IsWaiting(sender) /\ LastIn < MaxSent
  /\ entered' = Append(entered, op = "close")
  /\ \/ /\ state = "none"
        /\ state' = "send" /\ sender' = Waits(op)
        /\ UNCHANGED <<inner, receiver, taken, lost>>
     \/ /\ state = "receive"
        /\ state' = "none" /\ sender' = Ended(Waits(op), "ok")
        /\ receiver' = Ended(receiver, "ok")
        /\ taken' = Append(taken, LastIn + 1)
        /\ UNCHANGED <<inner, lost>>
     \/ /\ state = "pumpTo"
        /\ inner' = "send" /\ sender' = Waits(op)
        /\ UNCHANGED <<state, receiver, taken, lost>>
     \/ /\ state \notin {"none", "receive", "pumpTo"}
        /\ sender' = Ended(Waits(op), "failed")
        /\ lost' = lost \cup {LastIn + 1}
        /\ UNCHANGED <<state, inner, receiver, taken>>
  /\ UNCHANGED <<closedSource, ranOn>>

\* tryPumpFrom(): the other web socket's messages are to enter.
TryPumpFrom ==
  /\ ~IsWaiting(sender) /\ ~closedSource
  /\ \/ /\ state = "none"
        /\ state' = "pumpFrom" /\ sender' = Waits("pump") /\ UNCHANGED inner
     \/ /\ state = "receive"
        /\ inner' = "receive" /\ sender' = Waits("pump") /\ UNCHANGED state
     \/ /\ state = "pumpTo"
        /\ inner' = "pump" /\ sender' = Waits("pump") /\ UNCHANGED state
     \/ /\ state \notin {"none", "receive", "pumpTo"}
        /\ sender' = Ended(Waits("pump"), "failed") /\ UNCHANGED <<state, inner>>
  /\ UNCHANGED <<receiver, entered, taken, lost, closedSource, ranOn>>

PipeDisconnect ==
  /\ ~IsWaiting(sender) /\ state \notin {"disconnected", "aborted"}
  /\ state' = "disconnected"
  /\ receiver' = IF IsWaiting(receiver) THEN Ended(receiver, "failed") ELSE receiver
  /\ UNCHANGED <<inner, sender, entered, taken, lost, closedSource, ranOn>>

-----------------------------------------------------------------------------
(* The receiving end.                                                       *)

PipeReceive ==
  /\ ~IsWaiting(receiver)
  /\ \/ /\ state = "none"
        /\ state' = "receive" /\ receiver' = Waits("receive")
        /\ UNCHANGED <<inner, sender, taken>>
     \/ /\ state = "send"
        /\ state' = "none" /\ sender' = Ended(sender, "ok")
        /\ receiver' = Ended(Waits("receive"), "ok")
        /\ taken' = Append(taken, LastIn)
        /\ UNCHANGED inner
     \/ /\ state = "pumpFrom"
        /\ inner' = "receive" /\ receiver' = Waits("receive")
        /\ UNCHANGED <<state, sender, taken>>
     \/ /\ state \notin {"none", "send", "pumpFrom"}
        /\ receiver' = Ended(Waits("receive"), "failed")
        /\ UNCHANGED <<state, inner, sender, taken>>
  /\ UNCHANGED <<entered, lost, closedSource, ranOn>>

PumpTo ==
  /\ ~IsWaiting(receiver)
  /\ \/ /\ state = "none"
        /\ state' = "pumpTo" /\ receiver' = Waits("pump") /\ UNCHANGED inner
     \/ /\ state = "send"
        /\ inner' = "send" /\ receiver' = Waits("pump") /\ UNCHANGED state
     \/ /\ state = "pumpFrom"
        /\ inner' = "pump" /\ receiver' = Waits("pump") /\ UNCHANGED state
     \/ /\ state \notin {"none", "send", "pumpFrom"}
        /\ receiver' = Ended(Waits("pump"), IF state = "disconnected" THEN "ok" ELSE "failed")
        /\ UNCHANGED <<state, inner>>
  /\ UNCHANGED <<sender, entered, taken, lost, closedSource, ranOn>>

-----------------------------------------------------------------------------
(* The operation on the other web socket resolves.                          *)

\* A pump that is still waiting when a Close has come out.
Pumping(call) == call.op = "pump" /\ IsWaiting(call)
NotePump(close) ==
  ranOn' = (ranOn \/ (close /\ (Pumping(sender') \/ Pumping(receiver'))))

\* output.send() or output.close() has passed the sender's message on.  Found
\* by a pump, a blocked sender is released and the pump goes on; found by a
\* sender, the pump stays and ends only with a Close.
InnerSent ==
  /\ inner = "send"
  /\ inner' = "none"
  /\ taken' = Append(taken, LastIn)
  /\ sender' = Ended(sender, "ok")
  /\ IF state = "send" THEN state' = "pumpTo" /\ UNCHANGED receiver
     ELSE IF sender.op = "close"
          THEN state' = "none" /\ receiver' = Ended(receiver, "ok")
          ELSE UNCHANGED <<state, receiver>>
  /\ NotePump(sender.op = "close")
  /\ UNCHANGED <<entered, lost, closedSource>>

InnerSendFails ==
  /\ inner = "send"
  /\ inner' = "none"
  /\ sender' = Ended(sender, "failed")
  /\ lost' = LostWith(sender)
  /\ IF state = "send" \/ sender.op = "close"
     THEN state' = "none" /\ receiver' = Ended(receiver, "failed")
     ELSE UNCHANGED <<state, receiver>>
  /\ UNCHANGED <<entered, taken, closedSource, ranOn>>

\* input.receive() yields a message for the receiver.  A pump that blocks ends
\* at a Close; one that found the receiver blocked goes on as a new pump.
InnerReceived(close) ==
  /\ inner = "receive" /\ ~closedSource /\ LastIn < MaxSent
  /\ inner' = "none"
  /\ entered' = Append(entered, close)
  /\ taken' = Append(taken, LastIn + 1)
  /\ receiver' = Ended(receiver, "ok")
  /\ closedSource' = close
  /\ IF state = "receive"
     THEN state' = "pumpFrom" /\ UNCHANGED sender
     ELSE IF close THEN state' = "none" /\ sender' = Ended(sender, "ok")
                   ELSE UNCHANGED <<state, sender>>
  /\ NotePump(close)
  /\ UNCHANGED lost

\* input.pumpTo(output) moves a message without the pipe.
InnerPumps(close) ==
  /\ inner = "pump" /\ ~closedSource /\ LastIn < MaxSent
  /\ entered' = Append(entered, close)
  /\ taken' = Append(taken, LastIn + 1)
  /\ closedSource' = close
  /\ IF close
     THEN /\ inner' = "none" /\ state' = "none"
          /\ sender' = Ended(sender, "ok") /\ receiver' = Ended(receiver, "ok")
     ELSE UNCHANGED <<inner, state, sender, receiver>>
  /\ NotePump(close)
  /\ UNCHANGED lost

InnerReadFails ==
  /\ inner \in {"receive", "pump"}
  /\ inner' = "none" /\ state' = "none"
  /\ sender' = Ended(sender, "failed") /\ receiver' = Ended(receiver, "failed")
  /\ UNCHANGED <<entered, taken, lost, closedSource, ranOn>>

-----------------------------------------------------------------------------
(* A call is dropped, or an end is destroyed.                               *)

\* The state is an object that lives in the call that blocks: with it goes the
\* operation it wraps and the call that waits for that.
DropSender ==
  /\ IsWaiting(sender)
  /\ sender' = Ended(sender, "dropped")
  /\ lost' = LostWith(sender)
  /\ inner' = "none"
  /\ IF state \in {"send", "pumpFrom"}
     THEN /\ state' = "none"
          /\ receiver' = IF inner # "none" THEN Ended(receiver, "failed")
                                           ELSE receiver
     ELSE UNCHANGED <<state, receiver>>
  /\ UNCHANGED <<entered, taken, closedSource, ranOn>>

\* Mutant of DropReceiver: the sender that waits with it is not told.
DropReceiverOnly ==
  /\ IsWaiting(receiver)
  /\ receiver' = Ended(receiver, "dropped")
  /\ inner' = "none"
  /\ state' = IF state \in {"receive", "pumpTo"} THEN "none" ELSE state
  /\ UNCHANGED <<sender, entered, taken, lost, closedSource, ranOn>>

DropReceiver ==
  /\ IsWaiting(receiver)
  /\ receiver' = Ended(receiver, "dropped")
  /\ inner' = "none"
  /\ IF state \in {"receive", "pumpTo"}
     THEN /\ state' = "none"
          /\ sender' = IF inner # "none" THEN Ended(sender, "failed") ELSE sender
          /\ lost' = IF inner # "none" THEN LostWith(sender) ELSE lost
     ELSE UNCHANGED <<state, sender, lost>>
  /\ UNCHANGED <<entered, taken, closedSource, ranOn>>

\* abort(), by the destruction of either end.  A blocked pump ends normally.
PipeAbort ==
  /\ state \notin {"disconnected", "aborted"}
  /\ state' = "aborted"
  /\ inner' = "none"
  /\ sender' = IF IsWaiting(sender) THEN Ended(sender, "failed") ELSE sender
  /\ receiver' = IF ~IsWaiting(receiver) THEN receiver
                 ELSE Ended(receiver, IF state = "pumpTo" THEN "ok" ELSE "failed")
  /\ lost' = LostWith(sender)
  /\ UNCHANGED <<entered, taken, closedSource, ranOn>>

WsNext ==
  \/ \E op \in {"send", "close"} : PipeSend(op)
  \/ TryPumpFrom \/ PipeDisconnect \/ PipeReceive \/ PumpTo
  \/ InnerSent \/ InnerSendFails \/ InnerReadFails
  \/ \E close \in BOOLEAN : InnerReceived(close) \/ InnerPumps(close)
  \/ DropSender \/ DropReceiver \/ PipeAbort

WsSpec == WsInit /\ [][WsNext]_wsVars

-----------------------------------------------------------------------------
(* Properties.                                                              *)

\* Messages come out once each and in the order they went in; one that came
\* out was never reported as failed, one that was reported as sent came out,
\* and only the sender that waits now has a message of open fate.  Two ends
\* never wait for each other without an operation under way, and nobody waits
\* on a pipe that was disconnected or aborted (the states of
\* WebSocketPipeImpl, http.cc:3763-4208).
MessagesAreExact ==
  /\ \A i, j \in 1..Len(taken) : i < j => taken[i] < taken[j]
  /\ \A i \in 1..Len(taken) : taken[i] \notin lost
  /\ \A m \in 1..LastIn :
       \/ m \in lost \/ \E i \in 1..Len(taken) : taken[i] = m
       \/ m = LastIn /\ Sends(sender) /\ IsWaiting(sender)
  /\ IsWaiting(sender) /\ IsWaiting(receiver) => inner # "none"
  /\ state \in {"disconnected", "aborted"} => ~IsWaiting(sender) /\ ~IsWaiting(receiver)
  /\ inner # "none" => IsWaiting(sender) /\ IsWaiting(receiver)

\* A pump ends with the Close it passes on: neither the pump that fills the
\* pipe nor the one that empties it goes on after it.
PumpEndsAtClose == ~ranOn
=============================================================================
