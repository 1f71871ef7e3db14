------------------------------- MODULE MCHttp -------------------------------
(* The parts of libraries/zc/http side by side on small instances: the
   framing of messages on a connection, the client's pool, the loop of the
   server, a web socket and the web socket pipe.  One of them moves in each
   behaviour and the others rest in their initial states.  The modules that
   theorems are proved about are extended, so that the run checks the
   properties the theorems state. *)
EXTENDS
  Naturals, Sequences, TLC,
  HttpFraming, HttpPool, HttpServer, WebSocketStream, WebSocketPipe

CONSTANTS c1, c2   \* connections to the server

VARIABLE part  \* the component that moves

-----------------------------------------------------------------------------
\* One source keeps its promise of a length, the other ends a byte early.
PromisedAndThere == {<<1, 1>>, <<2, 1>>}

\* One connection sends two requests; the other is opened, to be drained.
SentByClients == (c1 :> 2) @@ (c2 :> 0)

-----------------------------------------------------------------------------
vars == <<part, httpVars, poolVars, wsVars, serverVars, streamVars>>

Init ==
  /\ part \in {"framing", "pool", "socket", "server", "stream"}
  /\ HttpInit /\ PoolInit /\ WsInit /\ ServerInit
  /\ FramesInit /\ (part # "stream" => chain.own = NoChain)

Only(name) == part = name /\ UNCHANGED part
Next ==
  \/ /\ Only("framing") /\ HttpNext
     /\ UNCHANGED <<poolVars, wsVars, serverVars, streamVars>>
  \/ /\ Only("pool") /\ PoolNext
     /\ UNCHANGED <<httpVars, wsVars, serverVars, streamVars>>
  \/ /\ Only("socket") /\ WsNext
     /\ UNCHANGED <<httpVars, poolVars, serverVars, streamVars>>
  \/ /\ Only("server") /\ ServerNext
     /\ UNCHANGED <<httpVars, poolVars, wsVars, streamVars>>
  \/ /\ Only("stream") /\ FramesNext
     /\ UNCHANGED <<httpVars, poolVars, wsVars, serverVars>>

(* Timers run out, the event loop runs what is ready, and the service ends its
   responses and resolves its promises. *)
Spec ==
  /\ Init /\ [][Next]_vars
  /\ WF_poolVars(part = "pool" /\ TimeOut)
  /\ \A c \in Clients :
       /\ WF_serverVars(part = "server" /\ Serves(c))
       /\ WF_serverVars(part = "server" /\ EndResponse(c))
       /\ WF_serverVars(part = "server" /\ ServiceReturns(c))

-----------------------------------------------------------------------------
(* The properties of the components, stated in their modules; the
   invariants are checked under their own names. *)

(* An emptied pool is reported; http.cc, applyTimeouts(). *)
DrainIsReported == part = "pool" => EmptiedIsReported

(* drain() ends, or waits for ever for a client that stopped reading; http.cc,
   HttpServer. *)
DrainEnds == part = "server" => DrainReturns
=============================================================================
