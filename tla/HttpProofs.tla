----------------------------- MODULE HttpProofs -----------------------------
(***************************************************************************)
(* Proofs about the two ends of HTTP, the client's pool (HttpPool) and the *)
(* server's loop (HttpServer), for any number of requests and connections. *)
(*                                                                         *)
(* The client.  LimitIsExact and IdleIsFree are invariants of the limiter  *)
(* and of the connection pool, for any limit.  LimitIsExact is inductive   *)
(* by itself: a counter that is returned goes to the first request of the  *)
(* queue that still waits, and all that wait after it stay in the queue.   *)
(* IdleIsFree is not: a connection is put back by its last handle, so the  *)
(* handles must be known.  HeldOnce says that a connection in use belongs  *)
(* to one request, and that its reference count is the number of handles   *)
(* that request has left.                                                  *)
(*                                                                         *)
(* The server.  Requests are taken in turn, and a connection that is       *)
(* handed back is one a new server can go on with, whatever the methods.   *)
(* The invariant follows the stream of each connection through the buffers *)
(* its pieces are in: a body that is left unread is never taken for a      *)
(* head.                                                                   *)
(***************************************************************************)
EXTENDS HttpPool, HttpServer, FiniteSetTheorems, SequenceTheorems, WellFoundedInduction, TLAPS

-----------------------------------------------------------------------------
(* The client's pool                                                        *)

Phases == {"new", "pending", "granted", "sent", "answered", "read", "over"}
Early == {"new", "pending", "granted"}                 \* without a connection
Served == {"sent", "answered", "read"}                 \* holds its response
Holding == {"granted", "sent", "answered", "read"}     \* holds a counter

Reqs == [phase : Phases, on : SUBSET Conns, body : BOOLEAN]
ClientStates == [live : BOOLEAN, refs : {0, 1, 2}, pendingMessageCount : Int,
            inBody : BOOLEAN, broken : BOOLEAN, closed : BOOLEAN,
            upgraded : BOOLEAN, watching : BOOLEAN, eof : BOOLEAN]
Idles == [conn : Conns, expires : Nat]

\* The variables hold what their declarations say.
PoolTypeOK ==
  /\ req \in [Requests -> Reqs]
  /\ conn \in [Conns -> ClientStates]
  /\ avail \in Seq(Idles)
  /\ now \in Nat
  /\ queue \in Seq(Requests)

\* The handles on its connection that a request has: its body and its response.
HandlesOf(s) == (IF s.body THEN 1 ELSE 0) + (IF s.phase \in Served THEN 1 ELSE 0)

\* A connection in use is open and one request's, which has no other; its
\* references are that request's handles.
HeldOnce ==
  /\ \A r \in Requests : \A c \in req[r].on :
       /\ conn[c].live /\ conn[c].refs = HandlesOf(req[r])
       /\ \A q \in Requests : c \in req[q].on => q = r
       /\ \A d \in req[r].on : d = c
  /\ \A r \in Requests : req[r].phase \in Early => req[r].on = {} /\ ~req[r].body

\* The inductive invariant.
PoolInv == PoolTypeOK /\ HeldOnce /\ IdleIsFree /\ LimitIsExact

-----------------------------------------------------------------------------
\* The CHOOSE of Chosen and of ServiceQueue have a value.
LEMMA SmallestExists ==
  ASSUME NEW S \in SUBSET Nat, S # {}
  PROVE  \E i \in S : \A j \in S : i <= j
<1> DEFINE R == OpToRel(<, Nat)
<1>1. IsWellFoundedOn(R, Nat)
  BY NatLessThanWellFounded
<1>2. PICK i \in S : \A j \in S : <<j, i>> \notin R
  <2> HIDE DEF R
  <2> QED BY <1>1, WFMin
<1>3. \A j \in S : ~(j < i)
  BY <1>2 DEF OpToRel
<1>4. \A j \in S : i \in Nat /\ j \in Nat
  BY <1>2
<1>5. \A j \in S : i <= j
  BY <1>3, <1>4
<1> QED BY <1>2, <1>5

\* A nonempty set of indices has a largest member, which the CHOOSEs of the
\* pool name.
LEMMA LargestExists ==
  ASSUME NEW n \in Nat, NEW S \in SUBSET (1 .. n), S # {}
  PROVE  \E i \in S : \A j \in S : j <= i
<1> DEFINE T == {n - i : i \in S}
<1>1. T \in SUBSET Nat /\ T # {}
  <2>1. PICK i \in S : TRUE
    OBVIOUS
  <2>2. n - i \in T
    BY <2>1
  <2>3. \A k \in S : n - k \in Nat
    OBVIOUS
  <2> QED BY <2>2, <2>3
<1>2. PICK m \in T : \A j \in T : m <= j
  BY <1>1, SmallestExists
<1>3. PICK i \in S : m = n - i
  BY <1>2
<1>4. \A j \in S : n - j \in T /\ n - i <= n - j
  BY <1>2, <1>3
<1> QED BY <1>3, <1>4

-----------------------------------------------------------------------------
(* The limiter. *)

\* The requests that hold a counter when they are in the states f.
Holders(f) == {r \in Requests : f[r].phase \in Holding}

\* What LimitIsExact says of the requests that hold a counter and those that
\* wait for one.
LEMMA LimitFacts ==
  ASSUME PoolInv, IsFiniteSet(Requests)
  PROVE  /\ IsFiniteSet(Holders(req)) /\ running = Cardinality(Holders(req))
         /\ running \in Nat /\ running <= MaxConcurrent
         /\ (\E r \in Requests : req[r].phase = "pending") => running = MaxConcurrent
         /\ \A r \in Requests : req[r].phase = "pending" => \E k \in 1 .. Len(queue) : queue[k] = r
<1>1. IsFiniteSet(Holders(req))
  BY FS_Subset DEF Holders
<1>2. running = Cardinality(Holders(req))
  BY DEF PoolInv, LimitIsExact, Holders, Holding
<1>3. running \in Nat
  BY <1>1, <1>2, FS_CardinalityType
<1> QED BY <1>1, <1>2, <1>3 DEF PoolInv, LimitIsExact, Waiting

\* LimitIsExact in the next state, in terms of the holders.
LEMMA LimitHolds ==
  ASSUME running' = Cardinality(Holders(req')), running' <= MaxConcurrent,
         (\E r \in Requests : req'[r].phase = "pending") => running' = MaxConcurrent,
         \A r \in Requests : req'[r].phase = "pending" => \E k \in 1 .. Len(queue') : queue'[k] = r
  PROVE  LimitIsExact'
<1>1. Holders(req') = {r \in Requests : req'[r].phase \in {"granted", "sent", "answered", "read"}}
  BY DEF Holders, Holding
<1> QED BY <1>1 DEF LimitIsExact, Waiting

\* No counter is given or returned; a request may stop to wait.
LEMMA LimitStays ==
  ASSUME PoolInv, IsFiniteSet(Requests), running' = running, queue' = queue,
         \A q \in Requests : /\ req'[q].phase \in Holding <=> req[q].phase \in Holding
                             /\ req'[q].phase = "pending" => req[q].phase = "pending"
  PROVE  LimitIsExact'
<1>1. Holders(req') = Holders(req)
  BY DEF Holders
<1> QED BY <1>1, LimitFacts, LimitHolds

\* request() below the limit.
LEMMA LimitGoes ==
  ASSUME PoolInv, IsFiniteSet(Requests), MaxConcurrent \in Nat, NEW r \in Requests,
         req[r].phase = "new", running < MaxConcurrent, running' = running + 1,
         queue' = queue, req'[r].phase = "sent",
         \A q \in Requests : q # r => req'[q] = req[q]
  PROVE  LimitIsExact'
<1>1. Holders(req') = Holders(req) \cup {r} /\ r \notin Holders(req)
  BY DEF Holders, Holding
<1>2. running' = Cardinality(Holders(req'))
  BY <1>1, LimitFacts, FS_AddElement
<1>3. \A q \in Requests : req'[q].phase # "pending"
  BY LimitFacts
<1> QED BY <1>2, <1>3, LimitFacts, LimitHolds

\* A request that finds the limit reached joins the queue: it is full, so one
\* may wait.
LEMMA LimitWaits ==
  ASSUME PoolInv, IsFiniteSet(Requests), MaxConcurrent \in Nat, NEW r \in Requests, RequestWaits(r)
  PROVE  LimitIsExact'
<1>1. /\ req[r].phase = "new" /\ running >= MaxConcurrent /\ running' = running
      /\ queue \in Seq(Requests) /\ queue' = Append(queue, r)
      /\ req'[r].phase = "pending"
      /\ \A q \in Requests : q # r => req'[q] = req[q]
  BY DEF RequestWaits, PoolInv, PoolTypeOK, Reqs
<1>2. running = MaxConcurrent
  BY <1>1, LimitFacts
<1>3. Holders(req') = Holders(req)
  BY <1>1 DEF Holders, Holding
<1>4. /\ Len(queue) \in Nat /\ Len(queue') = Len(queue) + 1
      /\ \A k \in 1 .. Len(queue) : queue'[k] = queue[k]
      /\ queue'[Len(queue) + 1] = r
  BY <1>1
<1>5. ASSUME NEW q \in Requests, req'[q].phase = "pending"
      PROVE  \E k \in 1 .. Len(queue') : queue'[k] = q
  <2>1. CASE q = r
    <3>1. Len(queue) + 1 \in 1 .. Len(queue')
      BY <1>4
    <3> QED BY <2>1, <3>1, <1>4
  <2>2. CASE q # r
    <3>1. PICK k \in 1 .. Len(queue) : queue[k] = q
      BY <1>1, <1>5, <2>2, LimitFacts
    <3>2. k \in 1 .. Len(queue') /\ queue'[k] = q
      BY <1>4, <3>1
    <3> QED BY <3>2
  <2> QED BY <2>1, <2>2
<1> QED BY <1>1, <1>2, <1>3, <1>5, LimitFacts, LimitHolds

\* What the limiter changes about a request: one that waits may be granted.
Unmoved(s, t) ==
  /\ t.on = s.on /\ t.body = s.body
  /\ t.phase = s.phase \/ (s.phase = "pending" /\ t.phase = "granted")

\* The destructor of a counter: request r leaves its holders, and the first
\* request that still waits, if there is one, takes its place.
LEMMA DropCounterKeeps ==
  ASSUME PoolInv, IsFiniteSet(Requests), MaxConcurrent \in Nat,
         NEW r \in Requests, NEW rs \in [Requests -> Reqs],
         req[r].phase \in Holding, rs[r].phase = "over",
         \A q \in Requests : q # r => rs[q].phase = req[q].phase,
         DropCounter(rs)
  PROVE  /\ LimitIsExact' /\ req' \in [Requests -> Reqs] /\ queue' \in Seq(Requests)
         /\ \A q \in Requests : Unmoved(rs[q], req'[q])
<1> DEFINE alive == {i \in 1 .. Len(queue) : rs[queue[i]].phase = "pending"}
           k == CHOOSE i \in alive : \A j \in alive : i <= j
           count == running - 1
<1>1. /\ queue \in Seq(Requests) /\ Len(queue) \in Nat
      /\ \A i \in 1 .. Len(queue) : queue[i] \in Requests
  BY DEF PoolInv, PoolTypeOK
<1>2. /\ Holders(rs) = Holders(req) \ {r} /\ r \in Holders(req)
      /\ IsFiniteSet(Holders(rs)) /\ Cardinality(Holders(rs)) = count
  <2>1. Holders(rs) = Holders(req) \ {r} /\ r \in Holders(req)
    BY DEF Holders, Holding
  <2> QED BY <2>1, LimitFacts, FS_RemoveElement
<1>3. /\ running \in Nat /\ count < MaxConcurrent /\ count \in Int
      /\ (\E q \in Requests : rs[q].phase = "pending") => running = MaxConcurrent
      /\ \A q \in Requests : rs[q].phase = "pending" => \E i \in alive : queue[i] = q
  BY LimitFacts
<1>4. CASE alive = {}
  <2>1. running' = count /\ queue' = <<>> /\ req' = rs
    BY <1>3, <1>4 DEF DropCounter, ServiceQueue
  <2>2. \A q \in Requests : req'[q].phase # "pending"
    BY <1>3, <1>4, <2>1
  <2>3. LimitIsExact'
    <3>1. running' = Cardinality(Holders(req')) /\ running' <= MaxConcurrent
      <4>1. Holders(req') = Holders(rs)
        BY <2>1 DEF Holders
      <4> HIDE DEF count
      <4>2. running' <= MaxConcurrent
        BY <1>3, <2>1
      <4>3. running' = Cardinality(Holders(rs))
        BY <1>2, <2>1
      <4>4. running' = Cardinality(Holders(req'))
        BY <4>1, <4>3
      <4> QED BY <4>2, <4>4
    <3> QED BY <2>2, <3>1, LimitHolds
  <2>4. queue' \in Seq(Requests) /\ \A q \in Requests : Unmoved(rs[q], req'[q])
    BY <2>1 DEF Unmoved
  <2> QED BY <2>1, <2>3, <2>4
<1>5. CASE alive # {}
  <2>1. k \in alive /\ \A j \in alive : k <= j
    <3>1. alive \in SUBSET Nat
      BY <1>1
    <3>2. \E i \in alive : \A j \in alive : i <= j
      <4> HIDE DEF alive
      <4> QED BY <3>1, <1>5, SmallestExists
    <3> HIDE DEF alive
    <3> QED BY <3>2
  <2>2. /\ running' = count + 1
        /\ queue' = SubSeq(queue, k + 1, Len(queue))
        /\ req' = [rs EXCEPT ![queue[k]].phase = "granted"]
    <3>1. ~(alive = {} \/ count >= MaxConcurrent)
      BY <1>3, <1>5
    <3> QED BY <3>1, Zenon DEF DropCounter, ServiceQueue
  <2>3. /\ k \in 1 .. Len(queue) /\ queue[k] \in Requests
        /\ rs[queue[k]].phase = "pending"
    BY <1>1, <2>1
  <2> HIDE DEF k
  <2>4. /\ req' \in [Requests -> Reqs]
        /\ \A q \in Requests : Unmoved(rs[q], req'[q])
        /\ req'[queue[k]].phase = "granted"
        /\ \A q \in Requests : q # queue[k] => req'[q] = rs[q]
    BY <2>2, <2>3 DEF Reqs, Phases, Unmoved
  <2>5. /\ queue' \in Seq(Requests) /\ Len(queue') = Len(queue) - k
        /\ \A i \in 1 .. Len(queue) - k : queue'[i] = queue[k + i]
    BY <1>1, <2>2, <2>3
  <2>6. running' = Cardinality(Holders(req'))
    <3>1. Holders(req') = Holders(rs) \cup {queue[k]} /\ queue[k] \notin Holders(rs)
      BY <2>3, <2>4 DEF Holders, Holding
    <3> QED BY <1>2, <2>2, <3>1, FS_AddElement
  <2>7. ASSUME NEW q \in Requests, req'[q].phase = "pending"
        PROVE  \E i \in 1 .. Len(queue') : queue'[i] = q
    <3>1. q # queue[k] /\ rs[q].phase = "pending"
      BY <2>4, <2>7
    <3>2. PICK i \in alive : queue[i] = q
      BY <1>3, <3>1
    <3>3. i \in 1 .. Len(queue) /\ i > k
      BY <2>1, <2>3, <3>1, <3>2
    <3>4. i - k \in 1 .. Len(queue') /\ queue'[i - k] = queue[k + (i - k)]
      BY <1>1, <2>3, <2>5, <3>3
    <3>5. k + (i - k) = i
      BY <2>3, <3>3
    <3> QED BY <3>2, <3>4, <3>5
  <2>8. running = MaxConcurrent /\ running' = MaxConcurrent
    BY <1>3, <2>2, <2>3
  <2> QED BY <2>4, <2>5, <2>6, <2>7, <2>8, LimitHolds
<1> QED BY <1>4, <1>5

-----------------------------------------------------------------------------
(* The pool. *)

\* What steps that concern another request, or none, may change about one.
Moves(s, t) ==
  /\ t.on = s.on /\ t.body = s.body
  /\ t.phase \in Served <=> s.phase \in Served
  /\ t.phase \in Early => s.phase \in Early

\* The types of the pool's state.
LEMMA PoolFacts ==
  ASSUME PoolInv
  PROVE  /\ req \in [Requests -> Reqs] /\ conn \in [Conns -> ClientStates]
         /\ avail \in Seq(Idles) /\ now \in Nat /\ queue \in Seq(Requests)
         /\ Len(avail) \in Nat
         /\ \A k \in 1 .. Len(avail) : avail[k] \in Idles /\ avail[k].conn \in Conns
<1>1. /\ req \in [Requests -> Reqs] /\ conn \in [Conns -> ClientStates]
      /\ avail \in Seq(Idles) /\ now \in Nat /\ queue \in Seq(Requests)
  BY DEF PoolInv, PoolTypeOK
<1>2. Len(avail) \in Nat /\ \A k \in 1 .. Len(avail) : avail[k] \in Idles
  BY <1>1
<1> QED BY <1>1, <1>2 DEF Idles

\* The connection a request is on is that request's alone, and its reference
\* count is the handles the request still has.
LEMMA HeldFacts ==
  ASSUME PoolInv, NEW r \in Requests, NEW c \in req[r].on
  PROVE  /\ c \in Conns /\ conn[c].live /\ conn[c].refs = HandlesOf(req[r])
         /\ \A q \in Requests : c \in req[q].on => q = r
         /\ \A d \in req[r].on : d = c
         /\ req[r].phase \notin Early
         /\ \A k \in 1 .. Len(avail) : avail[k].conn # c
BY DEF PoolInv, PoolTypeOK, HeldOnce, IdleIsFree, Reqs

\* A connection in the list of idle ones is open, between messages, held by
\* nobody and in the list once.
LEMMA IdleFacts ==
  ASSUME PoolInv, NEW k \in 1 .. Len(avail)
  PROVE  /\ avail[k].conn \in Conns /\ conn[avail[k].conn].live
         /\ conn[avail[k].conn].pendingMessageCount = 0 /\ ~conn[avail[k].conn].inBody
         /\ \A r \in Requests : avail[k].conn \notin req[r].on
         /\ \A j \in 1 .. Len(avail) : avail[j].conn = avail[k].conn => j = k
BY PoolFacts DEF PoolInv, IdleIsFree

\* No connection changes hands.
LEMMA ConnsStay ==
  ASSUME PoolInv, avail' = avail,
         \A q \in Requests : Moves(req[q], req'[q]),
         \A c \in Conns : conn'[c].live = conn[c].live /\ conn'[c].refs = conn[c].refs,
         \A c \in Conns : \/ \E r \in Requests : c \in req[r].on
                          \/ /\ conn'[c].pendingMessageCount = conn[c].pendingMessageCount
                             /\ conn'[c].inBody = conn[c].inBody
  PROVE  HeldOnce' /\ IdleIsFree'
<1>1. HeldOnce'
  <2>1. \A q \in Requests : /\ req'[q].on = req[q].on
                            /\ HandlesOf(req'[q]) = HandlesOf(req[q])
                            /\ req'[q].body = req[q].body
                            /\ req'[q].phase \in Early => req[q].phase \in Early
    BY DEF Moves, HandlesOf
  <2>2. ASSUME NEW r \in Requests, NEW c \in req'[r].on
        PROVE  /\ conn'[c].live /\ conn'[c].refs = HandlesOf(req'[r])
               /\ \A q \in Requests : c \in req'[q].on => q = r
               /\ \A d \in req'[r].on : d = c
    BY <2>1, HeldFacts
  <2>3. \A r \in Requests : req'[r].phase \in Early => req'[r].on = {} /\ ~req'[r].body
    BY <2>1 DEF PoolInv, HeldOnce
  <2> QED BY <2>2, <2>3 DEF HeldOnce
<1>2. IdleIsFree'
  <2>1. ASSUME NEW k \in 1 .. Len(avail)
        PROVE  LET c == avail[k].conn IN
                 /\ conn'[c].live /\ conn'[c].pendingMessageCount = 0 /\ ~conn'[c].inBody
                 /\ \A r \in Requests : c \notin req'[r].on
                 /\ \A j \in 1 .. Len(avail) : avail[j].conn = c => j = k
    BY IdleFacts DEF Moves
  <2> QED BY <2>1 DEF IdleIsFree
<1> QED BY <1>1, <1>2

\* Sending a request on a connection leaves a connection.
LEMMA SendTypes ==
  ASSUME NEW h \in ClientStates, NEW kind
  PROVE  SendOn(h, kind) \in ClientStates
<1> DEFINE n == h.pendingMessageCount + 1
           post == kind = "post"
           upgrade == kind = "upgrade"
<1>1. SendOn(h, kind) = [h EXCEPT !.pendingMessageCount = n, !.inBody = post,
                                !.upgraded = upgrade, !.watching = FALSE]
  BY DEF SendOn
<1>2. n \in Int /\ post \in BOOLEAN /\ upgrade \in BOOLEAN
  BY DEF ClientStates
<1> HIDE DEF n, post, upgrade
<1> QED BY <1>1, <1>2 DEF ClientStates

\* A request takes a connection, an idle one or a new one, and the idle ones
\* that were passed over are closed.
LEMMA InnerRequestKeeps ==
  ASSUME PoolInv, NEW r \in Requests, NEW kind \in RequestKinds, NEW c \in Conns,
         req[r].phase \in Early, InnerRequest(r, kind, c), now' = now, queue' = queue
  PROVE  /\ PoolTypeOK' /\ HeldOnce' /\ IdleIsFree'
         /\ req'[r].phase = "sent" /\ \A q \in Requests : q # r => req'[q] = req[q]
<1>1. /\ req' \in [Requests -> Reqs]
      /\ req'[r] = [phase |-> "sent", on |-> {c}, body |-> kind = "post"]
      /\ \A q \in Requests : q # r => req'[q] = req[q]
  BY PoolFacts DEF InnerRequest, Reqs, Phases
<1>2. Kept \in 0 .. Len(avail)
  /\ (Reusable = {} => Kept = 0 /\ \A k \in 1 .. Len(avail) : avail[k].conn \in Discarded)
  /\ (Reusable # {} => Chosen \in 1 .. Len(avail) /\ Kept = Chosen - 1 /\ avail[Chosen].conn = c)
  /\ \A d \in Discarded : \E k \in 1 .. Len(avail) : k > Kept /\ d = avail[k].conn
  /\ c \notin Discarded
  <2>0. Len(avail) \in Nat /\ Reusable \in SUBSET (1 .. Len(avail))
    BY PoolFacts DEF Reusable
  <2>1. CASE Reusable = {}
    <3>1. ~conn[c].live /\ Kept = 0
      BY <2>1 DEF InnerRequest, GetClient, Kept
    <3>2. Discarded = {avail[k].conn : k \in 1 .. Len(avail)}
      BY <2>0, <2>1, <3>1 DEF Discarded
    <3>3. \A k \in 1 .. Len(avail) : avail[k].conn # c
      BY <3>1, IdleFacts
    <3> QED BY <2>0, <2>1, <3>1, <3>2, <3>3
  <2>2. CASE Reusable # {}
    <3>1. Chosen \in Reusable
      <4>1. \E k \in Reusable : \A j \in Reusable : j <= k
        BY <2>0, <2>2, LargestExists
      <4> QED BY <4>1 DEF Chosen
    <3>2. c = avail[Chosen].conn /\ Kept = Chosen - 1 /\ Chosen \in 1 .. Len(avail)
      BY <2>0, <2>2, <3>1 DEF InnerRequest, GetClient, Kept
    <3>3. Discarded = {avail[k].conn : k \in (Chosen + 1) .. Len(avail)}
      <4>1. Kept + (IF Reusable = {} THEN 1 ELSE 2) = Chosen + 1
        <5>1. (IF Reusable = {} THEN 1 ELSE 2) = 2
          BY <2>2, Zenon
        <5>2. (Chosen - 1) + 2 = Chosen + 1
          BY <3>2
        <5> QED BY <3>2, <5>1, <5>2
      <4> QED BY <4>1, Zenon DEF Discarded
    <3>4. \A k \in (Chosen + 1) .. Len(avail) : avail[k].conn # c /\ k \in 1 .. Len(avail) /\ k > Kept
      BY <2>0, <3>2, IdleFacts
    <3>5. \A d \in Discarded : \E k \in (Chosen + 1) .. Len(avail) : d = avail[k].conn
      BY <3>3
    <3>6. /\ \A d \in Discarded : \E k \in 1 .. Len(avail) : k > Kept /\ d = avail[k].conn
          /\ c \notin Discarded
      BY <3>4, <3>5
    <3>7. Chosen - 1 \in 0 .. Len(avail)
      BY <2>0, <3>2
    <3> QED BY <2>2, <3>2, <3>6, <3>7, Zenon
  <2> QED BY <2>1, <2>2
<1>3. \A k \in 1 .. Kept : k \in 1 .. Len(avail) /\ avail[k].conn # c /\ avail[k].conn \notin Discarded
  <2> TAKE k \in 1 .. Kept
  <2>1. k \in 1 .. Len(avail) /\ k <= Kept /\ Kept \in Nat
    BY <1>2, PoolFacts
  <2>2. avail[k].conn \notin Discarded
    <3> SUFFICES ASSUME avail[k].conn \in Discarded PROVE FALSE
      OBVIOUS
    <3>1. PICK j \in 1 .. Len(avail) : j > Kept /\ avail[k].conn = avail[j].conn
      BY <1>2
    <3>2. j = k
      BY <2>1, <3>1, IdleFacts
    <3> QED BY <2>1, <3>1, <3>2
  <2>3. avail[k].conn # c
    <3> SUFFICES ASSUME avail[k].conn = c PROVE FALSE
      OBVIOUS
    <3>1. Reusable # {}
      BY <1>2, <2>1
    <3>2. Chosen \in 1 .. Len(avail) /\ Kept = Chosen - 1 /\ avail[Chosen].conn = c
      BY <1>2, <3>1
    <3>3. Chosen = k
      BY <2>1, <3>2, IdleFacts
    <3> QED BY <2>1, <3>2, <3>3
  <2> QED BY <2>1, <2>2, <2>3
<1>4. /\ conn' \in [Conns -> ClientStates]
      /\ conn'[c].live /\ conn'[c].refs = Handles(kind)
      /\ \A d \in Conns : d # c /\ d \notin Discarded => conn'[d] = conn[d]
  <2>1. conn' = [d \in Conns |-> IF d = c THEN [SendOn(conn[c], kind) EXCEPT
                                    !.live = TRUE, !.refs = Handles(kind)]
                                 ELSE IF d \in Discarded THEN NoConn ELSE conn[d]]
    BY DEF InnerRequest
  <2>2. /\ [SendOn(conn[c], kind) EXCEPT !.live = TRUE, !.refs = Handles(kind)] \in ClientStates
        /\ [SendOn(conn[c], kind) EXCEPT !.live = TRUE, !.refs = Handles(kind)].live
        /\ [SendOn(conn[c], kind) EXCEPT !.live = TRUE, !.refs = Handles(kind)].refs = Handles(kind)
    <3>1. /\ conn[c] \in ClientStates /\ Handles(kind) \in {0, 1, 2}
          /\ (kind = "post") \in BOOLEAN /\ (kind = "upgrade") \in BOOLEAN
      BY PoolFacts DEF Handles
    <3>2. SendOn(conn[c], kind) \in ClientStates
      BY <3>1, SendTypes
    <3> HIDE DEF SendOn, Handles
    <3> QED BY <3>1, <3>2 DEF ClientStates
  <2>3. NoConn \in ClientStates
    BY DEF NoConn, ClientStates
  <2> HIDE DEF SendOn, Handles
  <2> QED BY <2>1, <2>2, <2>3, PoolFacts
<1>5. /\ avail' = SubSeq(avail, 1, Kept) /\ avail' \in Seq(Idles) /\ Len(avail') = Kept
      /\ \A k \in 1 .. Kept : avail'[k] = avail[k]
  BY <1>2, PoolFacts DEF InnerRequest
<1>6. PoolTypeOK'
  BY <1>1, <1>4, <1>5, PoolFacts DEF PoolTypeOK
<1>7. \A q \in Requests : c \notin req[q].on
  <2>1. CASE Reusable = {}
    <3>1. ~conn[c].live
      BY <2>1 DEF InnerRequest, GetClient
    <3> QED BY <3>1, HeldFacts
  <2>2. CASE Reusable # {}
    <3>1. Chosen \in 1 .. Len(avail) /\ avail[Chosen].conn = c
      BY <1>2, <2>2
    <3> QED BY <3>1, IdleFacts
  <2> QED BY <2>1, <2>2
<1>8. HeldOnce'
  <2>1. HandlesOf(req'[r]) = Handles(kind) /\ req'[r].on = {c}
    <3>1. CASE kind = "post"
      <4>1. (kind = "post") = TRUE
        BY <3>1
      <4>2. req'[r] = [phase |-> "sent", on |-> {c}, body |-> TRUE]
        BY <1>1, <4>1, Zenon
      <4> QED BY <3>1, <4>2 DEF HandlesOf, Handles, Served
    <3>2. CASE kind # "post"
      <4>1. (kind = "post") = FALSE
        BY <3>2
      <4>2. req'[r] = [phase |-> "sent", on |-> {c}, body |-> FALSE]
        BY <1>1, <4>1, Zenon
      <4> QED BY <3>2, <4>2 DEF HandlesOf, Handles, Served
    <3> QED BY <3>1, <3>2
  <2>2. ASSUME NEW q \in Requests, q # r, NEW d \in req[q].on
        PROVE  d # c /\ d \in Conns /\ conn'[d] = conn[d]
    <3>1. d \in Conns /\ d # c /\ \A k \in 1 .. Len(avail) : avail[k].conn # d
      BY <1>7, <2>2, HeldFacts
    <3>2. d \notin Discarded
      BY <1>2, <3>1
    <3> QED BY <1>4, <3>1, <3>2
  <2>3. ASSUME NEW q \in Requests, NEW d \in req'[q].on
        PROVE  /\ conn'[d].live /\ conn'[d].refs = HandlesOf(req'[q])
               /\ \A p \in Requests : d \in req'[p].on => p = q
               /\ \A e \in req'[q].on : e = d
    <3>1. CASE q = r
      BY <1>1, <1>4, <1>7, <2>1, <2>3, <3>1
    <3>2. CASE q # r
      BY <1>1, <2>1, <2>2, <2>3, <3>2, HeldFacts
    <3> QED BY <3>1, <3>2
  <2>4. \A q \in Requests : req'[q].phase \in Early => req'[q].on = {} /\ ~req'[q].body
    BY <1>1 DEF Early, PoolInv, HeldOnce
  <2> QED BY <2>3, <2>4 DEF HeldOnce
<1>9. IdleIsFree'
  <2>1. ASSUME NEW k \in 1 .. Kept
        PROVE  LET d == avail'[k].conn IN
                 /\ conn'[d].live /\ conn'[d].pendingMessageCount = 0 /\ ~conn'[d].inBody
                 /\ \A q \in Requests : d \notin req'[q].on
                 /\ \A j \in 1 .. Kept : avail'[j].conn = d => j = k
    <3>1. k \in 1 .. Len(avail) /\ avail'[k] = avail[k] /\ avail[k].conn # c
      BY <1>3, <1>5
    <3>2. conn'[avail[k].conn] = conn[avail[k].conn]
      BY <1>3, <1>4, <3>1, PoolFacts
    <3>3. \A j \in 1 .. Kept : j \in 1 .. Len(avail) /\ avail'[j] = avail[j]
      BY <1>3, <1>5
    <3>4. \A q \in Requests : avail[k].conn \notin req'[q].on
      BY <1>1, <3>1, IdleFacts
    <3> QED BY <3>1, <3>2, <3>3, <3>4, IdleFacts
  <2> QED BY <1>5, <2>1 DEF IdleIsFree
<1> QED BY <1>1, <1>6, <1>8, <1>9

\* A handle is dropped: with the last one the connection goes back to the
\* pool, or is closed.
LEMMA ReleaseKeeps ==
  ASSUME PoolInv, NEW r \in Requests, NEW c \in req[r].on, NEW h \in ClientStates,
         h.live, h.refs = conn[c].refs, HandlesOf(req[r]) >= 1, Release(c, h),
         req' \in [Requests -> Reqs],
         \A q \in Requests : q # r => Moves(req[q], req'[q]),
         req'[r].phase \notin Early, HandlesOf(req'[r]) = HandlesOf(req[r]) - 1,
         req'[r].on = IF conn[c].refs = 1 THEN {} ELSE req[r].on,
         queue' \in Seq(Requests)
  PROVE  PoolTypeOK' /\ HeldOnce' /\ IdleIsFree'
<1>1. /\ c \in Conns /\ conn[c].live /\ conn[c].refs = HandlesOf(req[r])
      /\ \A q \in Requests : c \in req[q].on => q = r
      /\ \A d \in req[r].on : d = c
      /\ \A k \in 1 .. Len(avail) : avail[k].conn # c
      /\ conn[c].refs \in {1, 2}
  <2>1. conn[c].refs \in {0, 1, 2}
    BY PoolFacts, HeldFacts DEF ClientStates
  <2> QED BY <2>1, HeldFacts
<1>2. \A q \in Requests : q # r =>
        /\ req'[q].on = req[q].on /\ c \notin req'[q].on
        /\ req'[q].body = req[q].body /\ HandlesOf(req'[q]) = HandlesOf(req[q])
        /\ req'[q].phase \in Early => req[q].phase \in Early
  BY <1>1 DEF Moves, HandlesOf
<1>3. \A q \in Requests : req'[q].phase \in Early => req'[q].on = {} /\ ~req'[q].body
  BY <1>2 DEF PoolInv, HeldOnce
<1>4. CASE h.refs > 1
  <2>1. /\ avail' = avail /\ now' = now /\ conn[c].refs = 2
        /\ conn' = [conn EXCEPT ![c] = [h EXCEPT !.refs = @ - 1]]
    BY <1>1, <1>4 DEF Release
  <2>2. /\ [h EXCEPT !.refs = @ - 1] = [h EXCEPT !.refs = 1]
        /\ [h EXCEPT !.refs = 1] \in ClientStates /\ [h EXCEPT !.refs = 1].live
        /\ [h EXCEPT !.refs = 1].refs = 1
    BY <2>1 DEF ClientStates
  <2>3. /\ conn' \in [Conns -> ClientStates] /\ conn'[c].live /\ conn'[c].refs = 1
        /\ \A d \in Conns : d # c => conn'[d] = conn[d]
    BY <1>1, <2>1, <2>2, PoolFacts
  <2>4. PoolTypeOK'
    BY <2>1, <2>3, PoolFacts DEF PoolTypeOK
  <2>5. ASSUME NEW q \in Requests, NEW d \in req'[q].on
        PROVE  /\ conn'[d].live /\ conn'[d].refs = HandlesOf(req'[q])
               /\ \A p \in Requests : d \in req'[p].on => p = q
               /\ \A e \in req'[q].on : e = d
    <3>1. req'[r].on = req[r].on /\ HandlesOf(req'[r]) = 1 /\ \A p \in Requests : req'[p].on = req[p].on
      BY <1>1, <1>2, <2>1
    <3>2. CASE q = r
      BY <1>1, <2>3, <2>5, <3>1, <3>2
    <3>3. CASE q # r
      <4>1. d \in Conns /\ d # c
        BY <1>1, <2>5, <3>1, <3>3, HeldFacts
      <4> QED BY <1>2, <2>3, <2>5, <3>1, <3>3, <4>1, HeldFacts
    <3> QED BY <3>2, <3>3
  <2>6. ASSUME NEW k \in 1 .. Len(avail)
        PROVE  LET d == avail[k].conn IN
                 /\ conn'[d].live /\ conn'[d].pendingMessageCount = 0 /\ ~conn'[d].inBody
                 /\ \A q \in Requests : d \notin req'[q].on
                 /\ \A j \in 1 .. Len(avail) : avail[j].conn = d => j = k
    <3>1. conn'[avail[k].conn] = conn[avail[k].conn]
      BY <1>1, <2>3, IdleFacts
    <3>2. \A q \in Requests : req'[q].on = req[q].on
      BY <1>2, <2>1
    <3> QED BY <3>1, <3>2, IdleFacts
  <2>7. HeldOnce'
    BY <1>3, <2>5 DEF HeldOnce
  <2>8. IdleIsFree'
    BY <2>1, <2>6 DEF IdleIsFree
  <2> QED BY <2>4, <2>7, <2>8
<1>5. CASE ~(h.refs > 1)
  <2>1. conn[c].refs = 1 /\ ReturnClient(c, h) /\ req'[r].on = {}
    BY <1>1, <1>5 DEF Release
  <2>2. \A q \in Requests : c \notin req'[q].on
    BY <1>2, <2>1
  <2>3. ASSUME NEW q \in Requests, NEW d \in req'[q].on
        PROVE  q # r /\ d \in req[q].on /\ d \in Conns /\ d # c
    BY <1>1, <1>2, <2>1, <2>3, HeldFacts
  <2>4. conn' \in [Conns -> ClientStates] /\ \A d \in Conns : d # c => conn'[d] = conn[d]
    <3>1. NoConn \in ClientStates /\ [h EXCEPT !.refs = 0] \in ClientStates
      BY DEF NoConn, ClientStates
    <3>2. conn' = [conn EXCEPT ![c] = IF CanReuse(h) THEN [h EXCEPT !.refs = 0] ELSE NoConn]
      BY <2>1 DEF ReturnClient
    <3> QED BY <1>1, <3>1, <3>2, PoolFacts
  <2>5. HeldOnce'
    <3>1. ASSUME NEW q \in Requests, NEW d \in req'[q].on
          PROVE  /\ conn'[d].live /\ conn'[d].refs = HandlesOf(req'[q])
                 /\ \A p \in Requests : d \in req'[p].on => p = q
                 /\ \A e \in req'[q].on : e = d
      <4>1. q # r /\ d \in req[q].on /\ conn'[d] = conn[d]
        BY <2>3, <2>4, <3>1
      <4>2. \A p \in Requests : d \in req'[p].on => d \in req[p].on
        BY <2>3
      <4>3. \A e \in req'[q].on : e \in req[q].on
        BY <2>3
      <4> QED BY <1>2, <4>1, <4>2, <4>3, HeldFacts
    <3> QED BY <1>3, <3>1 DEF HeldOnce
  <2>6. ASSUME NEW k \in 1 .. Len(avail)
        PROVE  LET d == avail[k].conn IN
                 /\ d # c /\ conn'[d].live /\ conn'[d].pendingMessageCount = 0 /\ ~conn'[d].inBody
                 /\ \A q \in Requests : d \notin req'[q].on
                 /\ \A j \in 1 .. Len(avail) : avail[j].conn = d => j = k
    <3>1. conn'[avail[k].conn] = conn[avail[k].conn] /\ avail[k].conn # c
      BY <1>1, <2>4, IdleFacts
    <3>2. \A q \in Requests : avail[k].conn \notin req'[q].on
      BY <2>3, IdleFacts
    <3> QED BY <3>1, <3>2, IdleFacts
  <2>7. CASE ~CanReuse(h)
    <3>1. avail' = avail /\ now' = now
      BY <2>1, <2>7 DEF ReturnClient
    <3>2. PoolTypeOK'
      BY <2>4, <3>1, PoolFacts DEF PoolTypeOK
    <3>3. IdleIsFree'
      BY <2>6, <3>1 DEF IdleIsFree
    <3> QED BY <2>5, <3>2, <3>3
  <2>8. CASE CanReuse(h)
    <3> DEFINE last == [conn |-> c, expires |-> now + 1]
    <3>1. avail' = Append(avail, last) /\ now' = now + 1
          /\ conn' = [conn EXCEPT ![c] = [h EXCEPT !.refs = 0]]
      BY <2>1, <2>8 DEF ReturnClient
    <3>2. last \in Idles /\ last.conn = c
      BY <1>1, PoolFacts DEF Idles
    <3> HIDE DEF last
    <3>3. /\ avail' \in Seq(Idles) /\ Len(avail') = Len(avail) + 1 /\ Len(avail) \in Nat
          /\ \A k \in 1 .. Len(avail) : avail'[k] = avail[k]
          /\ avail'[Len(avail) + 1] = last
      BY <3>1, <3>2, PoolFacts
    <3>4. PoolTypeOK'
      BY <2>4, <3>1, <3>3, PoolFacts DEF PoolTypeOK
    <3>5. conn'[c].live /\ conn'[c].pendingMessageCount = 0 /\ ~conn'[c].inBody
      <4>1. conn'[c] = [h EXCEPT !.refs = 0]
        BY <1>1, <3>1, PoolFacts
      <4> QED BY <2>8, <4>1 DEF CanReuse, ClientStates
    <3>6. ASSUME NEW k \in 1 .. Len(avail')
          PROVE  LET d == avail'[k].conn IN
                   /\ conn'[d].live /\ conn'[d].pendingMessageCount = 0 /\ ~conn'[d].inBody
                   /\ \A q \in Requests : d \notin req'[q].on
                   /\ \A j \in 1 .. Len(avail') : avail'[j].conn = d => j = k
      <4>0. \A j \in 1 .. Len(avail') : j \in 1 .. Len(avail) \/ j = Len(avail) + 1
        BY <3>3
      <4>1. CASE k = Len(avail) + 1
        <5>1. avail'[k].conn = c
          BY <3>2, <3>3, <4>1
        <5>2. \A j \in 1 .. Len(avail') : avail'[j].conn = c => j = k
          BY <2>6, <3>3, <4>0, <4>1
        <5> QED BY <2>2, <3>5, <5>1, <5>2
      <4>2. CASE k \in 1 .. Len(avail)
        <5>1. avail'[k] = avail[k] /\ avail[k].conn # c
          BY <2>6, <3>3, <4>2
        <5>2. \A j \in 1 .. Len(avail') : avail'[j].conn = avail[k].conn => j = k
          BY <2>6, <3>2, <3>3, <4>0, <4>2, <5>1
        <5> QED BY <2>6, <4>2, <5>1, <5>2
      <4> QED BY <4>0, <4>1, <4>2
    <3>7. IdleIsFree'
      BY <3>6 DEF IdleIsFree
    <3> QED BY <2>5, <3>4, <3>7
  <2> QED BY <2>7, <2>8
<1> QED BY <1>4, <1>5

\* The timer closes a prefix of the idle connections.
LEMMA TimeOutKeeps ==
  ASSUME PoolInv, TimeOut
  PROVE  PoolTypeOK' /\ HeldOnce' /\ IdleIsFree'
<1> DEFINE n == Cardinality({k \in 1 .. Len(avail) : avail[k].expires <= alarm})
<1>1. /\ avail' = SubSeq(avail, n + 1, Len(avail))
      /\ conn' = [c \in Conns |-> IF \E k \in 1 .. n : avail[k].conn = c THEN NoConn ELSE conn[c]]
      /\ req' = req /\ now' = now /\ queue' = queue
  BY DEF TimeOut
<1>2. n \in 0 .. Len(avail)
  <2> DEFINE S == {k \in 1 .. Len(avail) : avail[k].expires <= alarm}
  <2>1. Len(avail) \in Nat
    BY PoolFacts
  <2>2. IsFiniteSet(1 .. Len(avail)) /\ Cardinality(1 .. Len(avail)) = Len(avail)
    <3>1. /\ IsFiniteSet(1 .. Len(avail))
          /\ Cardinality(1 .. Len(avail)) = IF 1 > Len(avail) THEN 0 ELSE Len(avail) - 1 + 1
      BY <2>1, FS_Interval
    <3> QED BY <2>1, <3>1
  <2>3. S \in SUBSET (1 .. Len(avail))
    OBVIOUS
  <2> HIDE DEF S
  <2>4. IsFiniteSet(S) /\ Cardinality(S) <= Len(avail)
    BY <2>2, <2>3, FS_Subset
  <2>5. Cardinality(S) \in Nat
    BY <2>4, FS_CardinalityType
  <2>6. Cardinality(S) \in 0 .. Len(avail)
    BY <2>1, <2>4, <2>5
  <2> QED BY <2>6 DEF S
<1> HIDE DEF n
<1>3. /\ avail' \in Seq(Idles) /\ Len(avail') = Len(avail) - n /\ Len(avail) \in Nat
      /\ \A k \in 1 .. Len(avail) - n : avail'[k] = avail[n + k] /\ n + k \in 1 .. Len(avail)
  BY <1>1, <1>2, PoolFacts
<1>4. conn' \in [Conns -> ClientStates]
  <2>1. NoConn \in ClientStates
    BY DEF NoConn, ClientStates
  <2> QED BY <1>1, <2>1, PoolFacts
<1>5. PoolTypeOK'
  BY <1>1, <1>3, <1>4, PoolFacts DEF PoolTypeOK
<1>6. HeldOnce'
  <2>1. ASSUME NEW r \in Requests, NEW c \in req[r].on
        PROVE  c \in Conns /\ conn'[c] = conn[c]
    <3>1. c \in Conns /\ \A k \in 1 .. n : avail[k].conn # c
      BY <1>2, <1>3, HeldFacts
    <3> QED BY <1>1, <3>1
  <2>2. \A r \in Requests : \A c \in req[r].on :
          /\ conn'[c].live /\ conn'[c].refs = HandlesOf(req[r])
          /\ \A q \in Requests : c \in req[q].on => q = r
          /\ \A d \in req[r].on : d = c
    BY <2>1, HeldFacts
  <2>3. \A r \in Requests : req[r].phase \in Early => req[r].on = {} /\ ~req[r].body
    BY DEF PoolInv, HeldOnce
  <2> QED BY <1>1, <2>2, <2>3 DEF HeldOnce
<1>7. IdleIsFree'
  <2>1. ASSUME NEW k \in 1 .. Len(avail')
        PROVE  LET d == avail'[k].conn IN
                 /\ conn'[d].live /\ conn'[d].pendingMessageCount = 0 /\ ~conn'[d].inBody
                 /\ \A q \in Requests : d \notin req'[q].on
                 /\ \A j \in 1 .. Len(avail') : avail'[j].conn = d => j = k
    <3>1. avail'[k] = avail[n + k] /\ n + k \in 1 .. Len(avail) /\ avail[n + k].conn \in Conns
      BY <1>3, IdleFacts
    <3>2. \A i \in 1 .. n : avail[i].conn # avail[n + k].conn
      BY <1>2, <1>3, <3>1, IdleFacts
    <3>3. conn'[avail[n + k].conn] = conn[avail[n + k].conn]
      BY <1>1, <3>1, <3>2
    <3>4. \A j \in 1 .. Len(avail') : avail'[j].conn = avail[n + k].conn => j = k
      <4> TAKE j \in 1 .. Len(avail')
      <4>1. avail'[j] = avail[n + j] /\ n + j \in 1 .. Len(avail)
        BY <1>3
      <4>2. avail[n + j].conn = avail[n + k].conn => n + j = n + k
        BY <3>1, <4>1, IdleFacts
      <4> QED BY <1>2, <4>1, <4>2
    <3> QED BY <1>1, <3>1, <3>3, <3>4, IdleFacts
  <2> QED BY <2>1 DEF IdleIsFree
<1> QED BY <1>5, <1>6, <1>7

-----------------------------------------------------------------------------
(* One lemma for each action. *)

\* request() below the limit, on a connection of the pool or a new one.
LEMMA RequestKeeps ==
  ASSUME PoolInv, IsFiniteSet(Requests), MaxConcurrent \in Nat,
         NEW r \in Requests, NEW kind \in RequestKinds, NEW c \in Conns, Request(r, kind, c)
  PROVE  PoolInv'
<1>1. /\ req[r].phase = "new" /\ running < MaxConcurrent /\ InnerRequest(r, kind, c)
      /\ running' = running + 1 /\ now' = now /\ queue' = queue
  BY DEF Request
<1>2. /\ PoolTypeOK' /\ HeldOnce' /\ IdleIsFree'
      /\ req'[r].phase = "sent" /\ \A q \in Requests : q # r => req'[q] = req[q]
  BY <1>1, InnerRequestKeeps DEF Early
<1>3. LimitIsExact'
  BY <1>1, <1>2, LimitGoes
<1> QED BY <1>2, <1>3 DEF PoolInv

\* A request whose counter was granted takes its connection.
LEMMA RequestGoesKeeps ==
  ASSUME PoolInv, IsFiniteSet(Requests),
         NEW r \in Requests, NEW kind \in RequestKinds, NEW c \in Conns, RequestGoes(r, kind, c)
  PROVE  PoolInv'
<1>1. /\ req[r].phase = "granted" /\ InnerRequest(r, kind, c)
      /\ running' = running /\ now' = now /\ queue' = queue
  BY DEF RequestGoes
<1>2. /\ PoolTypeOK' /\ HeldOnce' /\ IdleIsFree'
      /\ req'[r].phase = "sent" /\ \A q \in Requests : q # r => req'[q] = req[q]
  BY <1>1, InnerRequestKeeps DEF Early
<1>3. \A q \in Requests : /\ req'[q].phase \in Holding <=> req[q].phase \in Holding
                          /\ req'[q].phase = "pending" => req[q].phase = "pending"
  BY <1>1, <1>2 DEF Holding
<1>4. LimitIsExact'
  BY <1>1, <1>3, LimitStays
<1> QED BY <1>2, <1>4 DEF PoolInv

\* request() with the limit reached: nothing but the queue changes.
LEMMA RequestWaitsKeeps ==
  ASSUME PoolInv, IsFiniteSet(Requests), MaxConcurrent \in Nat,
         NEW r \in Requests, RequestWaits(r)
  PROVE  PoolInv'
<1>1. /\ req[r].phase = "new" /\ conn' = conn /\ avail' = avail /\ now' = now
      /\ queue' = Append(queue, r) /\ req' = [req EXCEPT ![r].phase = "pending"]
  BY DEF RequestWaits
<1>2. req' \in [Requests -> Reqs] /\ \A q \in Requests : Moves(req[q], req'[q])
  BY <1>1, PoolFacts DEF Reqs, Phases, Moves, Served, Early
<1>3. PoolTypeOK'
  BY <1>1, <1>2, PoolFacts DEF PoolTypeOK
<1>4. HeldOnce' /\ IdleIsFree'
  BY <1>1, <1>2, ConnsStay
<1>5. LimitIsExact'
  BY LimitWaits
<1> QED BY <1>3, <1>4, <1>5 DEF PoolInv

\* What the limiter does to requests is no concern of the pool.
LEMMA UnmovedMoves ==
  ASSUME NEW s, NEW t, Unmoved(s, t)
  PROVE  Moves(s, t) /\ (t.phase = "over" <=> s.phase = "over") /\ HandlesOf(t) = HandlesOf(s)
BY DEF Unmoved, Moves, Served, Early, HandlesOf

\* A request is dropped while it waits, or while it holds its counter and has
\* no connection yet.
LEMMA DropWaitingKeeps ==
  ASSUME PoolInv, IsFiniteSet(Requests), MaxConcurrent \in Nat,
         NEW r \in Requests, DropWaiting(r)
  PROVE  PoolInv'
<1> DEFINE rs == [req EXCEPT ![r].phase = "over"]
<1>1. conn' = conn /\ avail' = avail /\ now' = now
  BY DEF DropWaiting
<1>2. /\ rs \in [Requests -> Reqs] /\ rs[r].phase = "over"
      /\ \A q \in Requests : q # r => rs[q] = req[q]
      /\ req[r].phase \in Early => \A q \in Requests : Moves(req[q], rs[q])
  BY PoolFacts DEF Reqs, Phases, Moves, Served, Early
<1>3. CASE req[r].phase = "pending" /\ req' = rs /\ UNCHANGED <<running, queue>>
  <2>1. \A q \in Requests : Moves(req[q], req'[q])
    BY <1>2, <1>3 DEF Early
  <2>2. PoolTypeOK'
    BY <1>1, <1>2, <1>3, PoolFacts DEF PoolTypeOK
  <2>3. HeldOnce' /\ IdleIsFree'
    BY <1>1, <2>1, ConnsStay
  <2>4. \A q \in Requests : /\ req'[q].phase \in Holding <=> req[q].phase \in Holding
                            /\ req'[q].phase = "pending" => req[q].phase = "pending"
    <3> HIDE DEF rs
    <3> QED BY <1>2, <1>3 DEF Holding
  <2>5. LimitIsExact'
    BY <1>3, <2>4, LimitStays
  <2> QED BY <2>2, <2>3, <2>5 DEF PoolInv
<1>4. CASE req[r].phase = "granted" /\ DropCounter(rs)
  <2> HIDE DEF rs
  <2>1. /\ LimitIsExact' /\ req' \in [Requests -> Reqs] /\ queue' \in Seq(Requests)
        /\ \A q \in Requests : Unmoved(rs[q], req'[q])
    BY <1>2, <1>4, DropCounterKeeps DEF Holding
  <2>2. ASSUME NEW q \in Requests PROVE Moves(req[q], req'[q])
    <3>1. Moves(req[q], rs[q]) /\ Moves(rs[q], req'[q])
      BY <1>2, <1>4, <2>1, UnmovedMoves DEF Early
    <3> QED BY <3>1 DEF Moves
  <2>3. PoolTypeOK'
    BY <1>1, <2>1, PoolFacts DEF PoolTypeOK
  <2>4. HeldOnce' /\ IdleIsFree'
    BY <1>1, <2>2, ConnsStay
  <2> QED BY <2>1, <2>3, <2>4 DEF PoolInv
<1> QED BY <1>3, <1>4 DEF DropWaiting

\* The handle of the request body is dropped.
LEMMA DropBodyKeeps ==
  ASSUME PoolInv, IsFiniteSet(Requests), NEW r \in Requests, NEW c \in Conns,
         NEW whole \in BOOLEAN, DropBody(r, c, whole)
  PROVE  PoolInv'
<1> DEFINE b == conn[c].broken \/ ~whole
           h == [conn[c] EXCEPT !.inBody = FALSE, !.broken = b]
           on == IF conn[c].refs = 1 THEN {} ELSE req[r].on
<1>1. /\ req[r].body /\ c \in req[r].on /\ Release(c, h)
      /\ req' = [req EXCEPT ![r].body = FALSE, ![r].on = on]
      /\ running' = running /\ queue' = queue
  BY DEF DropBody
<1>2. b \in BOOLEAN /\ on \in SUBSET Conns
  BY PoolFacts DEF Reqs
<1>3. /\ h \in ClientStates /\ h.live /\ h.refs = conn[c].refs
  <2>1. conn[c] \in ClientStates /\ conn[c].live
    BY <1>1, PoolFacts, HeldFacts
  <2> HIDE DEF b
  <2> QED BY <1>2, <2>1 DEF ClientStates
<1> HIDE DEF h, b, on
<1>4. /\ req' \in [Requests -> Reqs]
      /\ \A q \in Requests : q # r => req'[q] = req[q]
      /\ req'[r].phase = req[r].phase /\ ~req'[r].body /\ req'[r].on = on
  BY <1>1, <1>2, PoolFacts DEF Reqs
<1>5. /\ HandlesOf(req[r]) >= 1 /\ HandlesOf(req'[r]) = HandlesOf(req[r]) - 1
      /\ req'[r].phase \notin Early
  BY <1>1, <1>4, HeldFacts DEF HandlesOf
<1>6. \A q \in Requests : q # r => Moves(req[q], req'[q])
  BY <1>4 DEF Moves
<1>7. req'[r].on = IF conn[c].refs = 1 THEN {} ELSE req[r].on
  BY <1>4 DEF on
<1>8. PoolTypeOK' /\ HeldOnce' /\ IdleIsFree'
  BY <1>1, <1>3, <1>4, <1>5, <1>6, <1>7, PoolFacts, ReleaseKeeps
<1>9. LimitIsExact'
  <2>1. \A q \in Requests : req'[q].phase = req[q].phase
    BY <1>4
  <2> QED BY <1>1, <2>1, LimitStays
<1> QED BY <1>8, <1>9 DEF PoolInv

\* The handle of the response is dropped; the last handle puts the connection
\* back, or closes it, and returns the counter.
LEMMA DropResponseKeeps ==
  ASSUME PoolInv, IsFiniteSet(Requests), MaxConcurrent \in Nat,
         NEW r \in Requests, NEW c \in Conns, DropResponse(r, c)
  PROVE  PoolInv'
<1> DEFINE b == conn[c].broken \/ req[r].phase = "answered"
           h == [conn[c] EXCEPT !.broken = b]
           on == IF req[r].body THEN req[r].on ELSE {}
           rs == [req EXCEPT ![r].phase = "over", ![r].on = on]
<1>1. /\ req[r].phase \in Served /\ c \in req[r].on /\ Release(c, h) /\ DropCounter(rs)
  BY DEF DropResponse, Served
<1>2. b \in BOOLEAN /\ on \in SUBSET Conns
  BY PoolFacts DEF Reqs
<1>3. /\ h \in ClientStates /\ h.live /\ h.refs = conn[c].refs
  <2>1. conn[c] \in ClientStates /\ conn[c].live
    BY <1>1, PoolFacts, HeldFacts
  <2> HIDE DEF b
  <2> QED BY <1>2, <2>1 DEF ClientStates
<1> HIDE DEF h, b, on
<1>4. /\ rs \in [Requests -> Reqs]
      /\ \A q \in Requests : q # r => rs[q] = req[q]
      /\ rs[r].phase = "over" /\ rs[r].body = req[r].body /\ rs[r].on = on
  BY <1>2, PoolFacts DEF Reqs, Phases
<1> HIDE DEF rs
<1>5. /\ LimitIsExact' /\ req' \in [Requests -> Reqs] /\ queue' \in Seq(Requests)
      /\ \A q \in Requests : Unmoved(rs[q], req'[q])
  BY <1>1, <1>4, DropCounterKeeps DEF Holding, Served
<1>6. /\ req'[r].phase = "over" /\ req'[r].body = req[r].body /\ req'[r].on = on
  BY <1>4, <1>5 DEF Unmoved
<1>7. \A q \in Requests : q # r => Moves(req[q], req'[q])
  BY <1>4, <1>5, UnmovedMoves
<1>8. /\ HandlesOf(req[r]) >= 1 /\ HandlesOf(req'[r]) = HandlesOf(req[r]) - 1
      /\ req'[r].phase \notin Early
      /\ HandlesOf(req[r]) = 1 <=> ~req[r].body
  BY <1>1, <1>6 DEF HandlesOf, Served, Early
<1>9. req'[r].on = IF conn[c].refs = 1 THEN {} ELSE req[r].on
  BY <1>1, <1>6, <1>8, HeldFacts DEF on
<1>10. PoolTypeOK' /\ HeldOnce' /\ IdleIsFree'
  BY <1>1, <1>3, <1>5, <1>7, <1>8, <1>9, ReleaseKeeps
<1> QED BY <1>5, <1>10 DEF PoolInv

\* A step on the connection c of request r, or of nobody, that leaves its
\* handles alone.
LEMMA ConnStepKeeps ==
  ASSUME PoolInv, IsFiniteSet(Requests), NEW c \in Conns, NEW h \in ClientStates,
         conn' = [conn EXCEPT ![c] = h],
         h.live = conn[c].live, h.refs = conn[c].refs,
         \/ \E r \in Requests : c \in req[r].on
         \/ /\ h.pendingMessageCount = conn[c].pendingMessageCount
            /\ h.inBody = conn[c].inBody,
         UNCHANGED <<avail, now, running, queue>>,
         req' \in [Requests -> Reqs],
         \A q \in Requests : /\ Moves(req[q], req'[q])
                             /\ req'[q].phase \in Holding <=> req[q].phase \in Holding
                             /\ req'[q].phase = "pending" => req[q].phase = "pending"
  PROVE  PoolInv'
<1>1. conn' \in [Conns -> ClientStates] /\ conn'[c] = h /\ \A d \in Conns : d # c => conn'[d] = conn[d]
  BY PoolFacts
<1>2. PoolTypeOK'
  BY <1>1, PoolFacts DEF PoolTypeOK
<1>3. /\ \A d \in Conns : conn'[d].live = conn[d].live /\ conn'[d].refs = conn[d].refs
      /\ \A d \in Conns : \/ \E r \in Requests : d \in req[r].on
                          \/ /\ conn'[d].pendingMessageCount = conn[d].pendingMessageCount
                             /\ conn'[d].inBody = conn[d].inBody
  BY <1>1
<1>4. HeldOnce' /\ IdleIsFree'
  BY <1>3, ConnsStay
<1>5. LimitIsExact'
  BY LimitStays
<1> QED BY <1>2, <1>4, <1>5 DEF PoolInv

\* The same when the request goes on from one phase of its service to another.
LEMMA ServedMoves ==
  ASSUME PoolInv, NEW r \in Requests, NEW phase \in Served, req[r].phase \in Served,
         req' = [req EXCEPT ![r].phase = phase]
  PROVE  /\ req' \in [Requests -> Reqs]
         /\ \A q \in Requests : /\ Moves(req[q], req'[q])
                                /\ req'[q].phase \in Holding <=> req[q].phase \in Holding
                                /\ req'[q].phase = "pending" => req[q].phase = "pending"
<1>1. /\ req' \in [Requests -> Reqs] /\ req'[r].phase = phase
      /\ req'[r].on = req[r].on /\ req'[r].body = req[r].body
      /\ \A q \in Requests : q # r => req'[q] = req[q]
  BY PoolFacts DEF Reqs, Phases, Served
<1> QED BY <1>1 DEF Moves, Holding, Served, Early

\* A response arrives on the connection: it goes on, closes or is upgraded.
LEMMA RespondKeeps ==
  ASSUME PoolInv, IsFiniteSet(Requests), NEW r \in Requests, NEW c \in Conns,
         NEW how \in {"plain", "close", "upgraded"}, Respond(r, c, how)
  PROVE  PoolInv'
<1> DEFINE x == conn[c].closed \/ how = "close"
           w == conn[c].watching \/ how = "plain"
           u == how = "upgraded"
           h == [conn[c] EXCEPT !.closed = x, !.watching = w, !.upgraded = u]
<1>1. /\ req[r].phase = "sent" /\ c \in req[r].on
      /\ req' = [req EXCEPT ![r].phase = "answered"]
      /\ conn' = [conn EXCEPT ![c] = h]
      /\ UNCHANGED <<avail, now, running, queue>>
  BY DEF Respond
<1>2. x \in BOOLEAN /\ w \in BOOLEAN /\ u \in BOOLEAN /\ conn[c] \in ClientStates
  BY PoolFacts
<1>3. h \in ClientStates /\ h.live = conn[c].live /\ h.refs = conn[c].refs
  <2> HIDE DEF x, w, u
  <2> QED BY <1>2 DEF ClientStates
<1> HIDE DEF h
<1>4. /\ req' \in [Requests -> Reqs]
      /\ \A q \in Requests : /\ Moves(req[q], req'[q])
                             /\ req'[q].phase \in Holding <=> req[q].phase \in Holding
                             /\ req'[q].phase = "pending" => req[q].phase = "pending"
  BY <1>1, ServedMoves DEF Served
<1> QED BY <1>1, <1>3, <1>4, ConnStepKeeps

\* The response body is read to its end.
LEMMA ReadAllKeeps ==
  ASSUME PoolInv, IsFiniteSet(Requests), NEW r \in Requests, NEW c \in Conns, ReadAll(r, c)
  PROVE  PoolInv'
<1> DEFINE n == conn[c].pendingMessageCount - 1
           h == [conn[c] EXCEPT !.pendingMessageCount = n]
<1>1. /\ req[r].phase = "answered" /\ c \in req[r].on
      /\ req' = [req EXCEPT ![r].phase = "read"]
      /\ conn' = [conn EXCEPT ![c] = h]
      /\ UNCHANGED <<avail, now, running, queue>>
  BY DEF ReadAll
<1>2. conn[c] \in ClientStates /\ n \in Int
  BY PoolFacts DEF ClientStates
<1>3. h \in ClientStates /\ h.live = conn[c].live /\ h.refs = conn[c].refs
  <2> HIDE DEF n
  <2> QED BY <1>2 DEF ClientStates
<1> HIDE DEF h
<1>4. /\ req' \in [Requests -> Reqs]
      /\ \A q \in Requests : /\ Moves(req[q], req'[q])
                             /\ req'[q].phase \in Holding <=> req[q].phase \in Holding
                             /\ req'[q].phase = "pending" => req[q].phase = "pending"
  BY <1>1, ServedMoves DEF Served
<1> QED BY <1>1, <1>3, <1>4, ConnStepKeeps

\* The server closes a connection, and the watch sees it.
LEMMA CloseKeeps ==
  ASSUME PoolInv, IsFiniteSet(Requests), NEW c \in Conns, ServerCloses(c) \/ SeeClose(c)
  PROVE  PoolInv'
<1>1. /\ UNCHANGED <<req, avail, now, running, queue>> /\ conn[c] \in ClientStates
      /\ req' \in [Requests -> Reqs]
      /\ \A q \in Requests : /\ Moves(req[q], req'[q])
                             /\ req'[q].phase \in Holding <=> req[q].phase \in Holding
                             /\ req'[q].phase = "pending" => req[q].phase = "pending"
  BY PoolFacts DEF ServerCloses, SeeClose, Moves
<1>2. ASSUME NEW h \in ClientStates, conn' = [conn EXCEPT ![c] = h],
             h.live = conn[c].live, h.refs = conn[c].refs,
             h.pendingMessageCount = conn[c].pendingMessageCount, h.inBody = conn[c].inBody
      PROVE  PoolInv'
  BY <1>1, <1>2, ConnStepKeeps
<1>3. CASE ServerCloses(c)
  <2> DEFINE h == [conn[c] EXCEPT !.eof = TRUE]
  <2>1. conn' = [conn EXCEPT ![c] = h]
    BY <1>3 DEF ServerCloses
  <2>2. /\ h \in ClientStates /\ h.live = conn[c].live /\ h.refs = conn[c].refs
        /\ h.pendingMessageCount = conn[c].pendingMessageCount /\ h.inBody = conn[c].inBody
    BY <1>1 DEF ClientStates
  <2> HIDE DEF h
  <2> QED BY <1>2, <2>1, <2>2
<1>4. CASE SeeClose(c)
  <2> DEFINE h == [conn[c] EXCEPT !.closed = TRUE, !.watching = FALSE]
  <2>1. conn' = [conn EXCEPT ![c] = h]
    BY <1>4 DEF SeeClose
  <2>2. /\ h \in ClientStates /\ h.live = conn[c].live /\ h.refs = conn[c].refs
        /\ h.pendingMessageCount = conn[c].pendingMessageCount /\ h.inBody = conn[c].inBody
    BY <1>1 DEF ClientStates
  <2> HIDE DEF h
  <2> QED BY <1>2, <2>1, <2>2
<1> QED BY <1>3, <1>4

\* Nothing that the invariant is about changes.
LEMMA PoolStays ==
  ASSUME PoolInv, IsFiniteSet(Requests), UNCHANGED <<req, conn, avail, now, running, queue>>
  PROVE  PoolInv'
<1>1. PoolTypeOK'
  BY PoolFacts DEF PoolTypeOK
<1>2. \A q \in Requests : Moves(req[q], req'[q])
  BY DEF Moves
<1>3. HeldOnce' /\ IdleIsFree'
  BY <1>2, ConnsStay
<1>4. LimitIsExact'
  BY LimitStays
<1> QED BY <1>1, <1>3, <1>4 DEF PoolInv

-----------------------------------------------------------------------------
\* A pool without connections or requests satisfies the invariant.
LEMMA PoolStart ==
  ASSUME MaxConcurrent \in Nat
  PROVE  PoolInit => PoolInv
<1> SUFFICES ASSUME PoolInit PROVE PoolInv
  OBVIOUS
<1> DEFINE fresh == [phase |-> "new", on |-> {}, body |-> FALSE]
<1>1. /\ req = [r \in Requests |-> fresh] /\ conn = [c \in Conns |-> NoConn]
      /\ avail = <<>> /\ now = 0 /\ running = 0 /\ queue = <<>>
  BY DEF PoolInit
<1>2. /\ fresh \in Reqs /\ fresh.phase = "new" /\ fresh.on = {} /\ fresh.body = FALSE
      /\ NoConn \in ClientStates
  BY DEF Reqs, Phases, NoConn, ClientStates
<1> HIDE DEF fresh
<1>3. PoolTypeOK
  BY <1>1, <1>2 DEF PoolTypeOK
<1>4. HeldOnce
  BY <1>1, <1>2 DEF HeldOnce
<1>5. IdleIsFree
  BY <1>1 DEF IdleIsFree
<1>6. LimitIsExact
  <2>1. {r \in Requests : req[r].phase \in {"granted", "sent", "answered", "read"}} = {}
    BY <1>1, <1>2
  <2>2. Cardinality({}) = 0
    BY FS_EmptySet
  <2>3. \A r \in Requests : ~Waiting(r)
    BY <1>1, <1>2 DEF Waiting
  <2>4. running = Cardinality({r \in Requests :
                    req[r].phase \in {"granted", "sent", "answered", "read"}})
    BY <1>1, <2>1, <2>2
  <2>5. running <= MaxConcurrent
    BY <1>1
  <2> QED BY <2>3, <2>4, <2>5 DEF LimitIsExact
<1> QED BY <1>3, <1>4, <1>5, <1>6 DEF PoolInv

\* Every step of the pool keeps the invariant.
LEMMA PoolStep ==
  ASSUME IsFiniteSet(Requests), MaxConcurrent \in Nat
  PROVE  PoolInv /\ [PoolNext]_poolVars => PoolInv'
<1> SUFFICES ASSUME PoolInv, [PoolNext]_poolVars PROVE PoolInv'
  OBVIOUS
<1>1. ASSUME NEW r \in Requests, NEW kind \in RequestKinds, NEW c \in Conns,
             Request(r, kind, c) \/ RequestGoes(r, kind, c)
      PROVE  PoolInv'
  BY <1>1, RequestKeeps, RequestGoesKeeps
<1>2. ASSUME NEW r \in Requests, RequestWaits(r) \/ DropWaiting(r)
      PROVE  PoolInv'
  BY <1>2, RequestWaitsKeeps, DropWaitingKeeps
<1>3. ASSUME NEW r \in Requests, NEW c \in Conns, NEW whole \in BOOLEAN, DropBody(r, c, whole)
      PROVE  PoolInv'
  BY <1>3, DropBodyKeeps
<1>4. ASSUME NEW r \in Requests, NEW c \in Conns,
             NEW how \in {"plain", "close", "upgraded"}, Respond(r, c, how)
      PROVE  PoolInv'
  BY <1>4, RespondKeeps
<1>5. ASSUME NEW r \in Requests, NEW c \in Conns, ReadAll(r, c) \/ DropResponse(r, c)
      PROVE  PoolInv'
  BY <1>5, ReadAllKeeps, DropResponseKeeps
<1>6. ASSUME NEW c \in Conns, ServerCloses(c) \/ SeeClose(c)
      PROVE  PoolInv'
  BY <1>6, CloseKeeps
<1>7. CASE TimeOut
  <2>1. PoolTypeOK' /\ HeldOnce' /\ IdleIsFree'
    BY <1>7, TimeOutKeeps
  <2>2. LimitIsExact'
    BY <1>7, LimitStays DEF TimeOut
  <2> QED BY <2>1, <2>2 DEF PoolInv
<1>8. CASE OnDrained \/ UNCHANGED poolVars
  BY <1>8, PoolStays DEF OnDrained, poolVars
<1> QED BY <1>1, <1>2, <1>3, <1>4, <1>5, <1>6, <1>7, <1>8 DEF PoolNext

\* The inductive invariant of the client's limiter and pool (http.cc 5623-5772,
\* 6114-6253): in whatever order requests are made, answered and dropped,
\* connections close and timers run out, counters, handles and idle
\* connections are as PoolInv says.
THEOREM PoolInvariant == PoolSpec => []PoolInv
<1>1. PoolInit => PoolInv
  BY PoolStart, PoolAssumption
<1>2. PoolInv /\ [PoolNext]_poolVars => PoolInv'
  BY PoolStep, PoolAssumption
<1> QED BY <1>1, <1>2, PTL DEF PoolSpec

\* The limiter counts exactly, for any limit and any number of requests
\* (ConnectionCounter and serviceQueue(), http.cc 6221-6253).
THEOREM LimitHoldsAlways == PoolSpec => []LimitIsExact
<1>1. PoolInv => LimitIsExact
  BY DEF PoolInv
<1> QED BY <1>1, PoolInvariant, PTL

\* An idle connection is nobody's, for any number of connections: no request
\* holds it and everything asked of it was answered (getClient(), canReuse(),
\* returnClientToAvailable(), http.cc 5057-5062, 5723-5753).
THEOREM IdleIsAlwaysFree == PoolSpec => []IdleIsFree
<1>1. PoolInv => IdleIsFree
  BY DEF PoolInv
<1> QED BY <1>1, PoolInvariant, PTL

-----------------------------------------------------------------------------
(* The server's loop                                                        *)

Piece == {"line", "rest", "body"} \X Methods
Loops == {"new", "await", "head", "serve", "flush", "grace", "error", "over"}
Connections ==
  [phase : Loops, watched : BOOLEAN, toSend : Int, half : Seq(Piece),
   wantCleanDrain : BOOLEAN, lineBreak : BOOLEAN,
   wire : Seq(Piece), eof : BOOLEAN, inflight : Seq(Piece), leftover : Seq(Piece),
   method : Methods \cup {"none"}, bodyLeft : BOOLEAN, unanswered : BOOLEAN,
   response : {"none", "open", "done", "aborted"}, queued : BOOLEAN,
   closeAfterSend : BOOLEAN, broken : BOOLEAN, upgraded : BOOLEAN,
   rejected : BOOLEAN, timedOut : BOOLEAN, lost : BOOLEAN, owed : Int,
   result : {"none", "ok", "err"}]

\* What the client has begun to send and the server has not parsed.
Unread(s) == (s.leftover \o s.inflight) \o (s.wire \o s.half)

\* Piece q may come after piece p; p may be the last.
Follows(p, q) ==
  IF p[1] = "line" THEN q = <<"rest", p[2]>>
  ELSE IF p[1] = "rest" /\ p[2] = "post" THEN q = <<"body", p[2]>>
  ELSE q[1] = "line"
IsEnd(p) == p[1] = "body" \/ (p[1] = "rest" /\ p[2] # "post")

Formed(q) ==
  /\ \A i \in 1 .. Len(q) - 1 : Follows(q[i], q[i + 1])
  /\ q # <<>> => IsEnd(q[Len(q)])

\* The stream begins with the body that is left, or else with a request.
InStep(s) ==
  s.phase \notin {"error", "over"} /\ s.method # "connect" =>
    /\ Formed(Unread(s))
    /\ s.bodyLeft => Unread(s) # <<>> /\ Unread(s)[1][1] = "body"
    /\ ~s.bodyLeft /\ Unread(s) # <<>> => Unread(s)[1][1] = "line"

\* Where the bytes that were read are, in each phase.
Buffers(s) ==
  /\ s.phase \notin {"await", "over"} => s.inflight = <<>>
  /\ s.phase \in {"new", "await"} => s.leftover = <<>>
  /\ s.phase = "head" => s.leftover # <<>>

\* Between requests everything is as it was at the start.
AtRest(s) ==
  /\ s.owed = 0 /\ ~s.queued /\ ~s.bodyLeft /\ ~s.broken /\ ~s.unanswered
  /\ ~s.upgraded /\ ~s.closeAfterSend /\ ~s.lost
  /\ s.response = "none" /\ s.method = "none"

Serving(s) ==
  /\ s.owed = 1
  /\ s.unanswered => s.response = "none" /\ ~s.queued /\ ~s.rejected /\ ~s.broken
  /\ s.response = "none" => s.unanswered \/ s.upgraded
  /\ s.response = "aborted" => s.broken
  /\ s.method = "connect" /\ s.response # "none" => s.rejected
  /\ s.lost => s.method = "connect"

Answered(s) ==
  /\ s.response = "done" /\ s.method # "connect"
  /\ ~s.broken /\ ~s.unanswered /\ ~s.upgraded /\ ~s.lost

InPhase(s) ==
  /\ s.rejected => s.method = "connect"
  /\ s.phase \in {"new", "await", "head"} => AtRest(s)
  /\ s.phase = "serve" => Serving(s)
  /\ s.phase = "flush" => Answered(s) /\ s.owed = 1
  /\ s.phase = "grace" => Answered(s) /\ s.owed = 0 /\ ~s.queued
  /\ s.phase # "over" => s.result = "none"

\* A connection handed back as usable is at rest, unless it was the rejection
\* of a CONNECT that ended its loop.
GivenBack(s) ==
  s.result = "ok" /\ ~s.rejected =>
    /\ draining
    /\ s.owed = 0 /\ ~s.queued /\ ~s.bodyLeft /\ ~s.closeAfterSend
    /\ s.leftover = <<>> /\ (s.lost => s.timedOut)

ConnectionInv(s) == s \in Connections /\ InStep(s) /\ Buffers(s) /\ InPhase(s) /\ GivenBack(s)
ServerInv ==
  /\ connection \in [Clients -> Connections]
  /\ \A c \in Clients : ConnectionInv(connection[c])

-----------------------------------------------------------------------------
(* Sequences of pieces.                                                     *)

\* The buffers of a connection, and what they hold together.
LEMMA Parts ==
  ASSUME NEW s \in Connections
  PROVE  /\ s.leftover \in Seq(Piece) /\ s.inflight \in Seq(Piece)
         /\ s.wire \in Seq(Piece) /\ s.half \in Seq(Piece)
         /\ Unread(s) \in Seq(Piece)
<1>1. /\ s.leftover \in Seq(Piece) /\ s.inflight \in Seq(Piece)
      /\ s.wire \in Seq(Piece) /\ s.half \in Seq(Piece)
  BY DEF Connections
<1> QED BY <1>1, ConcatProperties DEF Unread

\* A read takes the first n pieces of the wire.
LEMMA Divide ==
  ASSUME NEW w \in Seq(Piece), NEW n \in Nat, n <= Len(w)
  PROVE  /\ SubSeq(w, 1, n) \in Seq(Piece) /\ SubSeq(w, n + 1, Len(w)) \in Seq(Piece)
         /\ Len(SubSeq(w, 1, n)) = n
         /\ SubSeq(w, 1, n) \o SubSeq(w, n + 1, Len(w)) = w
<1>0. /\ Len(w) \in Nat /\ 1 \in 1 .. Len(w) + 1 /\ n \in 1 - 1 .. Len(w)
      /\ Len(w) \in n .. Len(w)
  BY LenProperties
<1>1. SubSeq(w, 1, n) \o SubSeq(w, n + 1, Len(w)) = SubSeq(w, 1, Len(w))
  BY <1>0, ConcatAdjacentSubSeq, Zenon
<1>2. SubSeq(w, 1, Len(w)) = w
  BY SubSeqFull
<1>3. /\ SubSeq(w, 1, n) \in Seq(Piece) /\ SubSeq(w, n + 1, Len(w)) \in Seq(Piece)
      /\ Len(SubSeq(w, 1, n)) = n
  BY <1>0
<1> QED BY <1>1, <1>2, <1>3

\* Concatenation of pieces is associative.
LEMMA Associates ==
  ASSUME NEW a \in Seq(Piece), NEW b \in Seq(Piece), NEW d \in Seq(Piece)
  PROVE  (a \o b) \o d = a \o (b \o d)
BY ConcatAssociative

\* Pieces are taken from the front.
LEMMA Behead ==
  ASSUME NEW a \in Seq(Piece), NEW b \in Seq(Piece), NEW k \in Nat, k <= Len(a)
  PROVE  /\ SubSeq(a, k + 1, Len(a)) \in Seq(Piece)
         /\ SubSeq(a, k + 1, Len(a)) \o b = SubSeq(a \o b, k + 1, Len(a \o b))
<1> DEFINE x == SubSeq(a, k + 1, Len(a))
           y == SubSeq(a \o b, k + 1, Len(a \o b))
<1>1. /\ Len(a) \in Nat /\ Len(b) \in Nat /\ a \o b \in Seq(Piece)
      /\ Len(a \o b) = Len(a) + Len(b)
      /\ \A i \in 1 .. Len(a) + Len(b) : (a \o b)[i] = IF i <= Len(a) THEN a[i] ELSE b[i - Len(a)]
  BY ConcatProperties
<1>2. /\ x \in Seq(Piece) /\ Len(x) = Len(a) - k
      /\ \A i \in 1 .. Len(a) - k : x[i] = a[k + i]
  BY <1>1
<1>3. /\ y \in Seq(Piece) /\ Len(y) = Len(a) + Len(b) - k
      /\ \A i \in 1 .. Len(a) + Len(b) - k : y[i] = (a \o b)[k + i]
  BY <1>1
<1> HIDE DEF x, y
<1>4. /\ x \o b \in Seq(Piece) /\ Len(x \o b) = Len(a) - k + Len(b)
      /\ \A i \in 1 .. Len(x) + Len(b) : (x \o b)[i] = IF i <= Len(x) THEN x[i] ELSE b[i - Len(x)]
  BY <1>2, ConcatProperties
<1>5. ASSUME NEW i \in 1 .. Len(a) + Len(b) - k
      PROVE  (x \o b)[i] = y[i]
  <2>1. y[i] = IF k + i <= Len(a) THEN a[k + i] ELSE b[k + i - Len(a)]
    BY <1>1, <1>3
  <2>2. (x \o b)[i] = IF i <= Len(a) - k THEN x[i] ELSE b[i - (Len(a) - k)]
    BY <1>1, <1>2, <1>4
  <2>3. CASE k + i <= Len(a)
    BY <1>1, <1>2, <2>1, <2>2, <2>3
  <2>4. CASE ~(k + i <= Len(a))
    <3>1. k + i - Len(a) = i - (Len(a) - k)
      BY <1>1
    <3> QED BY <1>1, <2>1, <2>2, <2>4, <3>1
  <2> QED BY <2>3, <2>4
<1>6. x \o b = y
  <2>1. Len(x \o b) = Len(y) /\ \A i \in 1 .. Len(x \o b) : (x \o b)[i] = y[i]
    BY <1>1, <1>3, <1>4, <1>5
  <2> QED BY <1>3, <1>4, <2>1, SeqEqual, Zenon
<1> QED BY <1>2, <1>6 DEF x, y

\* The tail of a sequence of pieces.
LEMMA TailIsBeheaded ==
  ASSUME NEW a \in Seq(Piece), a # <<>>
  PROVE  Tail(a) = SubSeq(a, 1 + 1, Len(a)) /\ 1 <= Len(a) /\ Tail(a) \in Seq(Piece)
BY TailIsSubSeq

\* A well-formed stream without its first pieces.
LEMMA FormedRest ==
  ASSUME NEW q \in Seq(Piece), NEW k \in Nat, k <= Len(q), Formed(q)
  PROVE  Formed(SubSeq(q, k + 1, Len(q)))
<1> DEFINE y == SubSeq(q, k + 1, Len(q))
<1>1. /\ Len(q) \in Nat /\ y \in Seq(Piece) /\ Len(y) = Len(q) - k
      /\ \A i \in 1 .. Len(q) - k : y[i] = q[k + i]
  BY LenProperties
<1> HIDE DEF y
<1>2. ASSUME NEW i \in 1 .. Len(y) - 1
      PROVE  Follows(y[i], y[i + 1])
  <2>1. y[i] = q[k + i] /\ y[i + 1] = q[k + (i + 1)] /\ k + (i + 1) = (k + i) + 1
    BY <1>1
  <2>2. k + i \in 1 .. Len(q) - 1
    BY <1>1
  <2>3. Follows(q[k + i], q[(k + i) + 1])
    BY <2>2 DEF Formed
  <2> QED BY <2>1, <2>3
<1>3. y # <<>> => IsEnd(y[Len(y)])
  <2> SUFFICES ASSUME y # <<>> PROVE IsEnd(y[Len(y)])
    OBVIOUS
  <2>1. Len(y) \in 1 .. Len(q) - k /\ q # <<>>
    BY <1>1
  <2>2. y[Len(y)] = q[Len(q)]
    BY <1>1, <2>1
  <2> QED BY <2>1, <2>2 DEF Formed
<1> QED BY <1>2, <1>3 DEF Formed, y

\* The client begins a request.
LEMMA FormedMore ==
  ASSUME NEW q \in Seq(Piece), NEW m \in Methods, Formed(q), q # <<>> => q[1][1] \in {"line", "body"}
  PROVE  LET t == q \o (<<<<"line", m>>>> \o Pieces(m)) IN
           /\ t \in Seq(Piece) /\ Formed(t) /\ t # <<>>
           /\ q # <<>> => t[1] = q[1]
           /\ q = <<>> => t[1] = <<"line", m>>
<1> DEFINE n == <<<<"line", m>>>> \o Pieces(m)
           t == q \o n
<1>1. /\ n \in Seq(Piece) /\ Len(n) \in {2, 3} /\ n[1] = <<"line", m>> /\ n[2] = <<"rest", m>>
      /\ IF m = "post" THEN Len(n) = 3 /\ n[3] = <<"body", m>> ELSE Len(n) = 2
  <2>1. /\ <<"line", m>> \in Piece /\ <<"rest", m>> \in Piece /\ <<"body", m>> \in Piece
    BY DEF Piece
  <2>2. CASE m = "post"
    <3>1. Pieces(m) = <<<<"rest", m>>, <<"body", m>>>>
      BY <2>2 DEF Pieces
    <3> DEFINE x == <<"line", m>>
               y == <<"rest", m>>
               z == <<"body", m>>
    <3>2. x \in Piece /\ y \in Piece /\ z \in Piece /\ n = <<x>> \o <<y, z>>
      BY <2>1, <3>1
    <3> HIDE DEF x, y, z, n
    <3>3. n \in Seq(Piece) /\ Len(n) = 3 /\ n[1] = x /\ n[2] = y /\ n[3] = z
      BY <3>2
    <3> QED BY <2>2, <3>3 DEF x, y, z
  <2>3. CASE m # "post"
    <3>1. Pieces(m) = <<<<"rest", m>>>>
      BY <2>3 DEF Pieces
    <3> QED BY <2>1, <2>3, <3>1
  <2> QED BY <2>2, <2>3
<1> HIDE DEF n
<1>2. /\ t \in Seq(Piece) /\ Len(q) \in Nat /\ Len(t) = Len(q) + Len(n)
      /\ \A i \in 1 .. Len(q) + Len(n) : t[i] = IF i <= Len(q) THEN q[i] ELSE n[i - Len(q)]
  BY <1>1, ConcatProperties, LenProperties
<1> HIDE DEF t
<1>3. /\ \A i \in 1 .. Len(q) : t[i] = q[i]
      /\ t[Len(q) + 1] = <<"line", m>> /\ t[Len(q) + 2] = <<"rest", m>>
      /\ m = "post" => Len(t) = Len(q) + 3 /\ t[Len(q) + 3] = <<"body", m>>
      /\ m # "post" => Len(t) = Len(q) + 2
  <2>1. \A i \in 1 .. Len(n) : Len(q) + i \in 1 .. Len(q) + Len(n) /\ ~(Len(q) + i <= Len(q))
    BY <1>1, <1>2
  <2>2. \A i \in 1 .. Len(n) : t[Len(q) + i] = n[i]
    <3> TAKE i \in 1 .. Len(n)
    <3>1. (Len(q) + i) - Len(q) = i
      BY <1>1, <1>2
    <3> QED BY <1>2, <2>1, <3>1
  <2>3. \A i \in 1 .. Len(q) : t[i] = q[i]
    BY <1>1, <1>2
  <2>4. 1 \in 1 .. Len(n) /\ 2 \in 1 .. Len(n) /\ (m = "post" => 3 \in 1 .. Len(n))
    BY <1>1
  <2>5. t[Len(q) + 1] = n[1] /\ t[Len(q) + 2] = n[2] /\ (m = "post" => t[Len(q) + 3] = n[3])
    BY <2>2, <2>4
  <2> QED BY <1>1, <1>2, <2>3, <2>5
<1>4. ASSUME NEW i \in 1 .. Len(t) - 1
      PROVE  Follows(t[i], t[i + 1])
  <2>1. CASE i < Len(q)
    <3>1. i \in 1 .. Len(q) - 1 /\ t[i] = q[i] /\ t[i + 1] = q[i + 1]
      BY <1>2, <1>3, <2>1
    <3> QED BY <3>1 DEF Formed
  <2>2. CASE i = Len(q)
    <3>1. q # <<>> /\ t[i] = q[Len(q)] /\ t[i + 1] = <<"line", m>>
      BY <1>2, <1>3, <2>2
    <3>2. IsEnd(t[i])
      BY <3>1 DEF Formed
    <3> QED BY <3>1, <3>2 DEF Follows, IsEnd
  <2>3. CASE i = Len(q) + 1
    <3>1. t[i] = <<"line", m>> /\ t[i + 1] = <<"rest", m>>
      BY <1>2, <1>3, <2>3
    <3> QED BY <3>1 DEF Follows
  <2>4. CASE i = Len(q) + 2
    <3>1. m = "post" /\ t[i] = <<"rest", m>> /\ t[i + 1] = <<"body", m>>
      BY <1>2, <1>3, <2>4
    <3> QED BY <3>1 DEF Follows
  <2>5. i < Len(q) \/ i = Len(q) \/ i = Len(q) + 1 \/ i = Len(q) + 2
    <3>1. Len(t) \in {Len(q) + 2, Len(q) + 3} /\ Len(q) \in Nat
      BY <1>1, <1>2
    <3> QED BY <3>1
  <2> QED BY <2>1, <2>2, <2>3, <2>4, <2>5
<1>5. IsEnd(t[Len(t)])
  BY <1>2, <1>3 DEF IsEnd
<1>6. t # <<>> /\ (q # <<>> => t[1] = q[1]) /\ (q = <<>> => t[1] = <<"line", m>>)
  BY <1>1, <1>2, <1>3
<1>7. Formed(t)
  BY <1>4, <1>5 DEF Formed
<1> QED BY <1>2, <1>6, <1>7 DEF t, n

\* A piece sent is one more at the end of the wire.
LEMMA Appended ==
  ASSUME NEW w \in Seq(Piece), NEW x \in Piece
  PROVE  /\ Append(w, x) \in Seq(Piece) /\ <<x>> \in Seq(Piece)
         /\ Append(w, x) = w \o <<x>>
<1>1. Append(w, x) = w \o <<x>>
  BY AppendIsConcat
<1>2. Append(w, x) \in Seq(Piece) /\ <<x>> \in Seq(Piece)
  OBVIOUS
<1> QED BY <1>1, <1>2

\* A piece the client goes on to send leaves the stream as it was.
LEMMA SentNext ==
  ASSUME NEW w \in Seq(Piece), NEW h \in Seq(Piece), h # <<>>
  PROVE  /\ Append(w, Head(h)) \in Seq(Piece) /\ Tail(h) \in Seq(Piece)
         /\ Append(w, Head(h)) \o Tail(h) = w \o h
<1> DEFINE x == Head(h)
           y == Tail(h)
           z == <<x>>
<1>1. x \in Piece /\ y \in Seq(Piece) /\ z \o y = h
  OBVIOUS
<1>2. Append(w, x) = w \o z /\ z \in Seq(Piece) /\ Append(w, x) \in Seq(Piece)
  <2> HIDE DEF x
  <2> QED BY <1>1, Appended
<1> HIDE DEF x, y, z
<1>3. (w \o z) \o y = w \o (z \o y)
  BY <1>1, <1>2, Associates
<1> QED BY <1>1, <1>2, <1>3 DEF x, y

\* The pieces of a request.
LEMMA PiecesTypes ==
  ASSUME NEW m \in Methods
  PROVE  <<"line", m>> \in Piece /\ Pieces(m) \in Seq(Piece)
<1>1. <<"line", m>> \in Piece /\ <<"rest", m>> \in Piece /\ <<"body", m>> \in Piece
  BY DEF Piece
<1> DEFINE x == <<"rest", m>>
           y == <<"body", m>>
<1>2. Pieces(m) = IF m = "post" THEN <<x, y>> ELSE <<x>>
  BY DEF Pieces
<1>3. x \in Piece /\ y \in Piece
  BY <1>1
<1> HIDE DEF x, y
<1>4. <<x, y>> \in Seq(Piece) /\ <<x>> \in Seq(Piece)
  BY <1>3
<1> QED BY <1>1, <1>2, <1>4

-----------------------------------------------------------------------------
(* Steps of a connection, and what the client does.                         *)

\* What the invariant says of connection c.
LEMMA ConnFacts ==
  ASSUME ServerInv, NEW c \in Clients
  PROVE  connection[c] \in Connections /\ ConnectionInv(connection[c])
BY DEF ServerInv

\* Connection c goes on as t.
LEMMA SetKeeps ==
  ASSUME ServerInv, NEW c \in Clients, NEW t, ConnectionInv(t), Set(c, t)
  PROVE  ServerInv'
<1>1. /\ connection' = [connection EXCEPT ![c] = t] /\ draining' = draining
      /\ t \in Connections /\ connection \in [Clients -> Connections]
  BY DEF Set, ServerInv, ConnectionInv
<1>2. /\ connection' \in [Clients -> Connections] /\ connection'[c] = t
      /\ \A d \in Clients : d # c => connection'[d] = connection[d]
  BY <1>1
<1>3. ASSUME NEW d \in Clients PROVE ConnectionInv(connection[d])'
  <2>1. ConnectionInv(connection'[d])
    BY <1>2 DEF ServerInv
  <2> QED BY <1>1, <2>1 DEF ConnectionInv, GivenBack
<1> QED BY <1>2, <1>3 DEF ServerInv

\* A connection that is given up.
LEMMA Ended ==
  ASSUME NEW s, ConnectionInv(s), NEW t \in Connections,
         t.phase = "over", t.result = "err", t.rejected = s.rejected, t.method = s.method
  PROVE  ConnectionInv(t)
BY DEF ConnectionInv, InStep, Buffers, InPhase, GivenBack

\* The end of a loop changes its phase and its result only.
LEMMA Broken ==
  ASSUME NEW s \in Connections, NEW result \in {"ok", "err"}
  PROVE  /\ Break(s, result) \in Connections
         /\ Break(s, result).phase = "over" /\ Break(s, result).result = result
         /\ Break(s, result).rejected = s.rejected /\ Break(s, result).method = s.method
         /\ Break(s, result).owed = s.owed /\ Break(s, result).queued = s.queued
         /\ Break(s, result).bodyLeft = s.bodyLeft
         /\ Break(s, result).closeAfterSend = s.closeAfterSend
         /\ Break(s, result).leftover = s.leftover
         /\ Break(s, result).lost = s.lost /\ Break(s, result).timedOut = s.timedOut
BY DEF Break, Connections, Loops

\* A loop may end in an error at any time.
LEMMA BrokenKeeps ==
  ASSUME NEW s, ConnectionInv(s)
  PROVE  ConnectionInv(Break(s, "err"))
<1>1. s \in Connections
  BY DEF ConnectionInv
<1>2. /\ Break(s, "err") \in Connections
      /\ Break(s, "err").phase = "over" /\ Break(s, "err").result = "err"
      /\ Break(s, "err").rejected = s.rejected /\ Break(s, "err").method = s.method
  BY <1>1, Broken
<1> QED BY <1>2, Ended

\* The fields that tell how far the answer is.
SameAnswer(s, t) ==
  /\ t.owed = s.owed /\ t.queued = s.queued /\ t.bodyLeft = s.bodyLeft
  /\ t.broken = s.broken /\ t.unanswered = s.unanswered /\ t.upgraded = s.upgraded
  /\ t.closeAfterSend = s.closeAfterSend /\ t.lost = s.lost /\ t.rejected = s.rejected
  /\ t.response = s.response /\ t.method = s.method /\ t.result = s.result

\* A step that moves pieces of the stream, or waits for some.
LEMMA StreamStepKeeps ==
  ASSUME NEW s, ConnectionInv(s), NEW t \in Connections, SameAnswer(s, t),
         s.phase # "over", t.phase # "over",
         t.phase = s.phase \/ {s.phase, t.phase} \subseteq {"new", "await", "head"},
         Buffers(t),
         s.phase # "error" /\ s.method # "connect" =>
           \/ Unread(t) = Unread(s)
           \/ /\ Formed(Unread(t)) /\ Unread(t) # <<>>
              /\ Unread(s) # <<>> => Unread(t)[1] = Unread(s)[1]
              /\ Unread(s) = <<>> => Unread(t)[1][1] = "line"
  PROVE  ConnectionInv(t)
<1>1. /\ s \in Connections /\ InStep(s) /\ InPhase(s) /\ s.result = "none"
  BY DEF ConnectionInv, InPhase
<1>2. InPhase(t)
  BY <1>1 DEF InPhase, AtRest, Serving, Answered, SameAnswer
<1>3. GivenBack(t)
  BY <1>1 DEF GivenBack, SameAnswer
<1>4. InStep(t)
  <2> SUFFICES ASSUME t.phase \notin {"error", "over"}, t.method # "connect"
               PROVE  /\ Formed(Unread(t))
                      /\ t.bodyLeft => Unread(t) # <<>> /\ Unread(t)[1][1] = "body"
                      /\ ~t.bodyLeft /\ Unread(t) # <<>> => Unread(t)[1][1] = "line"
    BY DEF InStep
  <2>1. s.phase \notin {"error", "over"} /\ s.method # "connect" /\ t.bodyLeft = s.bodyLeft
    BY DEF SameAnswer
  <2>2. /\ Formed(Unread(s))
        /\ s.bodyLeft => Unread(s) # <<>> /\ Unread(s)[1][1] = "body"
        /\ ~s.bodyLeft /\ Unread(s) # <<>> => Unread(s)[1][1] = "line"
    BY <1>1, <2>1 DEF InStep
  <2>3. CASE Unread(t) = Unread(s)
    BY <2>1, <2>2, <2>3
  <2>4. CASE /\ Formed(Unread(t)) /\ Unread(t) # <<>>
             /\ Unread(s) # <<>> => Unread(t)[1] = Unread(s)[1]
             /\ Unread(s) = <<>> => Unread(t)[1][1] = "line"
    BY <2>1, <2>2, <2>4
  <2> QED BY <2>1, <2>3, <2>4
<1> QED BY <1>2, <1>3, <1>4 DEF ConnectionInv

\* The first piece of a request, and those it announces, come last.
LEMMA UnreadGrows ==
  ASSUME NEW s \in Connections, NEW t, NEW l \in Piece, NEW h \in Seq(Piece), s.half = <<>>,
         t.leftover = s.leftover, t.inflight = s.inflight,
         t.wire = Append(s.wire, l), t.half = h
  PROVE  Unread(t) = Unread(s) \o (<<l>> \o h)
<1> DEFINE a == s.leftover \o s.inflight
           v == s.wire
           z == <<l>>
           y == z \o h
<1>1. v \in Seq(Piece) /\ a \in Seq(Piece) /\ v \o <<>> = v
  BY Parts, ConcatProperties, ConcatEmptySeq
<1>2. Unread(t) = a \o (Append(v, l) \o h) /\ Unread(s) = a \o (v \o <<>>)
  BY DEF Unread
<1> HIDE DEF a, v
<1>3. Append(v, l) = v \o z /\ z \in Seq(Piece)
  BY <1>1, Appended
<1> HIDE DEF z
<1>4. y \in Seq(Piece)
  BY <1>3, ConcatProperties
<1>5. (v \o z) \o h = v \o (z \o h)
  BY <1>1, <1>3, Associates
<1> HIDE DEF y
<1>6. (a \o v) \o y = a \o (v \o y)
  BY <1>1, <1>4, Associates
<1>7. Unread(t) = a \o (v \o y)
  BY <1>2, <1>3, <1>5 DEF y
<1>8. Unread(s) = a \o v
  BY <1>1, <1>2
<1>9. Unread(t) = Unread(s) \o y
  BY <1>6, <1>7, <1>8
<1> QED BY <1>9 DEF y, z

\* The client goes on with a request, or begins one.
LEMMA ClientSendsKeeps ==
  ASSUME ServerInv, NEW c \in Clients, ClientSends(c)
  PROVE  ServerInv'
<1> DEFINE s == connection[c]
<1>1. /\ s \in Connections /\ ConnectionInv(s) /\ Running(s) /\ Buffers(s)
      /\ s.phase \notin {"new", "over"}
  BY ConnFacts DEF ClientSends, Running, ConnectionInv
<1>2. /\ s.leftover \in Seq(Piece) /\ s.inflight \in Seq(Piece)
      /\ s.wire \in Seq(Piece) /\ s.half \in Seq(Piece) /\ Unread(s) \in Seq(Piece)
  BY <1>1, Parts
<1>3. ASSUME s.half # <<>>,
             Set(c, [s EXCEPT !.wire = Append(@, Head(s.half)), !.half = Tail(@)])
      PROVE  ServerInv'
  <2> DEFINE w == Append(s.wire, Head(s.half))
             h == Tail(s.half)
             t == [s EXCEPT !.wire = w, !.half = h]
  <2>1. /\ w \in Seq(Piece) /\ h \in Seq(Piece) /\ w \o h = s.wire \o s.half
    BY <1>2, <1>3, SentNext
  <2> HIDE DEF w, h
  <2>2. /\ t \in Connections /\ SameAnswer(s, t) /\ t.phase = s.phase
        /\ t.leftover = s.leftover /\ t.inflight = s.inflight
        /\ t.wire = w /\ t.half = h
    BY <1>1, <2>1 DEF Connections, SameAnswer
  <2> HIDE DEF s, t
  <2>3. Unread(t) = Unread(s) /\ Buffers(t)
    BY <1>1, <2>1, <2>2 DEF Unread, Buffers
  <2>4. ConnectionInv(t)
    BY <1>1, <2>2, <2>3, StreamStepKeeps
  <2>5. Set(c, t)
    BY <1>3 DEF t, w, h
  <2> QED BY <2>4, <2>5, SetKeeps
<1>4. ASSUME s.half = <<>>, NEW m \in Methods,
             Set(c, [s EXCEPT !.wire = Append(@, <<"line", m>>),
                              !.half = Pieces(m), !.toSend = @ - 1])
      PROVE  ServerInv'
  <2> DEFINE l == <<"line", m>>
             w == Append(s.wire, l)
             h == Pieces(m)
             k == s.toSend - 1
             t == [s EXCEPT !.wire = w, !.half = h, !.toSend = k]
  <2>1. l \in Piece /\ w \in Seq(Piece) /\ h \in Seq(Piece) /\ k \in Int
    <3>1. l \in Piece /\ h \in Seq(Piece)
      BY PiecesTypes
    <3>2. k \in Int
      BY <1>1 DEF Connections
    <3> HIDE DEF l, h, k
    <3> QED BY <1>2, <3>1, <3>2, Appended
  <2> HIDE DEF w, h, k, l
  <2>2. /\ t \in Connections /\ SameAnswer(s, t) /\ t.phase = s.phase
        /\ t.leftover = s.leftover /\ t.inflight = s.inflight
        /\ t.wire = w /\ t.half = h
    BY <1>1, <2>1 DEF Connections, SameAnswer
  <2>5. Unread(t) = Unread(s) \o (<<l>> \o h)
    <3>1. s.half = <<>> /\ t.wire = Append(s.wire, l)
      BY <1>4, <2>2 DEF w
    <3> HIDE DEF s, t
    <3> QED BY <1>1, <2>1, <2>2, <3>1, UnreadGrows, Zenon
  <2>6. Buffers(t)
    BY <1>1, <2>2 DEF Buffers
  <2>7. s.phase # "error" /\ s.method # "connect" =>
          /\ Formed(Unread(t)) /\ Unread(t) # <<>>
          /\ Unread(s) # <<>> => Unread(t)[1] = Unread(s)[1]
          /\ Unread(s) = <<>> => Unread(t)[1][1] = "line"
    <3> SUFFICES ASSUME s.phase # "error", s.method # "connect"
                 PROVE  /\ Formed(Unread(t)) /\ Unread(t) # <<>>
                        /\ Unread(s) # <<>> => Unread(t)[1] = Unread(s)[1]
                        /\ Unread(s) = <<>> => Unread(t)[1][1] = "line"
      OBVIOUS
    <3>1. Formed(Unread(s)) /\ (Unread(s) # <<>> => Unread(s)[1][1] \in {"line", "body"})
      BY <1>1 DEF ConnectionInv, InStep
    <3> DEFINE x == Unread(s)
    <3>2. x \in Seq(Piece) /\ Formed(x) /\ (x # <<>> => x[1][1] \in {"line", "body"})
      BY <1>2, <3>1
    <3> HIDE DEF x
    <3>3. LET y == x \o (<<<<"line", m>>>> \o Pieces(m)) IN
             /\ Formed(y) /\ y # <<>> /\ (x # <<>> => y[1] = x[1])
             /\ x = <<>> => y[1] = <<"line", m>>
      BY <3>2, FormedMore
    <3>4. x \o (<<<<"line", m>>>> \o Pieces(m)) = Unread(t)
      BY <2>5 DEF x, l, h
    <3>5. /\ Formed(Unread(t)) /\ Unread(t) # <<>>
          /\ x # <<>> => Unread(t)[1] = x[1]
          /\ x = <<>> => Unread(t)[1] = <<"line", m>>
      BY <3>3, <3>4
    <3> QED BY <3>5 DEF x
  <2>8. ConnectionInv(t)
    <3> HIDE DEF s, t
    <3> QED BY <1>1, <2>2, <2>6, <2>7, StreamStepKeeps
  <2>9. Set(c, t)
    BY <1>4 DEF t, w, h, k, l
  <2> QED BY <2>8, <2>9, SetKeeps
<1> QED BY <1>3, <1>4 DEF ClientSends

-----------------------------------------------------------------------------
(* Waiting for a request and reading its head.                              *)

\* The client closes its end.
LEMMA ClientClosesKeeps ==
  ASSUME ServerInv, NEW c \in Clients, ClientCloses(c)
  PROVE  ServerInv'
<1> DEFINE s == connection[c]
           t == [s EXCEPT !.eof = TRUE]
<1>1. /\ s \in Connections /\ ConnectionInv(s) /\ s.phase # "over" /\ Set(c, t) /\ Buffers(s)
  BY ConnFacts DEF ClientCloses, Running, ConnectionInv
<1>2. /\ t \in Connections /\ SameAnswer(s, t) /\ t.phase = s.phase
      /\ t.leftover = s.leftover /\ t.inflight = s.inflight
      /\ t.wire = s.wire /\ t.half = s.half
  BY <1>1 DEF Connections, SameAnswer
<1> HIDE DEF s, t
<1>3. Unread(t) = Unread(s) /\ Buffers(t)
  BY <1>1, <1>2 DEF Unread, Buffers
<1> QED BY <1>1, <1>2, <1>3, StreamStepKeeps, SetKeeps

\* listenHttp() and listenHttpCleanDrain() start the loop.
LEMMA AcceptKeeps ==
  ASSUME ServerInv, NEW c \in Clients, NEW clean \in BOOLEAN, Accept(c, clean)
  PROVE  ServerInv'
<1> DEFINE s == connection[c]
           t == [s EXCEPT !.phase = "await", !.wantCleanDrain = clean]
<1>1. /\ s \in Connections /\ ConnectionInv(s) /\ s.phase = "new" /\ Set(c, t) /\ Buffers(s)
  BY ConnFacts DEF Accept, ConnectionInv
<1>2. /\ t \in Connections /\ SameAnswer(s, t) /\ t.phase = "await"
      /\ t.leftover = s.leftover /\ t.inflight = s.inflight
      /\ t.wire = s.wire /\ t.half = s.half
  BY <1>1 DEF Connections, SameAnswer, Loops
<1> HIDE DEF s, t
<1>3. Unread(t) = Unread(s) /\ Buffers(t)
  BY <1>1, <1>2 DEF Unread, Buffers
<1>4. ConnectionInv(t)
  BY <1>1, <1>2, <1>3, StreamStepKeeps
<1> QED BY <1>1, <1>4, SetKeeps

\* The loop ends where it is.
LEMMA BreaksKeep ==
  ASSUME ServerInv, NEW c \in Clients, Set(c, Break(connection[c], "err"))
  PROVE  ServerInv'
<1>1. ConnectionInv(Break(connection[c], "err"))
  BY ConnFacts, BrokenKeeps
<1> QED BY <1>1, SetKeeps

\* awaitNextMessage(): the stream completes the read, and the pieces are on
\* their way to the loop.
LEMMA ReadCompletesKeeps ==
  ASSUME ServerInv, NEW c \in Clients, NEW n \in Nat, n >= 1, ReadCompletes(c, n)
  PROVE  ServerInv'
<1> DEFINE s == connection[c]
           a == SubSeq(s.wire, 1, n)
           b == SubSeq(s.wire, n + 1, Len(s.wire))
           t == [s EXCEPT !.inflight = a, !.wire = b]
<1>1. /\ s \in Connections /\ ConnectionInv(s) /\ s.phase = "await" /\ s.inflight = <<>>
      /\ n <= Len(s.wire) /\ Set(c, t) /\ s.leftover = <<>>
  BY ConnFacts DEF ReadCompletes, ConnectionInv, Buffers
<1>2. a \in Seq(Piece) /\ b \in Seq(Piece) /\ a \o b = s.wire
  BY <1>1, Parts, Divide
<1> HIDE DEF a, b
<1>3. /\ t \in Connections /\ SameAnswer(s, t) /\ t.phase = "await"
      /\ t.leftover = <<>> /\ t.inflight = a /\ t.wire = b /\ t.half = s.half
  BY <1>1, <1>2 DEF Connections, SameAnswer
<1> HIDE DEF t
<1>4. Unread(t) = Unread(s)
  <2> DEFINE h == s.half
             w == s.wire
  <2>1. h \in Seq(Piece) /\ w \in Seq(Piece)
    BY <1>1, Parts
  <2>2. Unread(s) = (<<>> \o <<>>) \o (w \o h) /\ Unread(t) = (<<>> \o a) \o (b \o h)
    BY <1>1, <1>3 DEF Unread
  <2>3. a \o b = w
    BY <1>2
  <2> HIDE DEF h, w
  <2>4. (a \o b) \o h = a \o (b \o h)
    BY <1>2, <2>1, Associates, Zenon
  <2>5. a \o (b \o h) = w \o h
    BY <2>3, <2>4
  <2>6. <<>> \o a = a
    BY <1>2, ConcatEmptySeq
  <2> DEFINE x == w \o h
  <2>7. x \in Seq(Piece)
    BY <2>1, ConcatProperties
  <2>8. Unread(s) = (<<>> \o <<>>) \o x
    BY <2>2 DEF x
  <2>9. Unread(t) = x
    BY <2>2, <2>5, <2>6 DEF x
  <2> HIDE DEF x
  <2>10. <<>> \o <<>> = <<>> /\ <<>> \o x = x
    BY <2>7, ConcatEmptySeq
  <2> QED BY <2>8, <2>9, <2>10
<1>5. Buffers(t)
  BY <1>3 DEF Buffers
<1>6. ConnectionInv(t)
  <2> HIDE DEF s
  <2> QED BY <1>1, <1>3, <1>4, <1>5, StreamStepKeeps
<1> QED BY <1>1, <1>6, SetKeeps

\* awaitNextMessage(): the loop learns of the read.
LEMMA FirstByteKeeps ==
  ASSUME ServerInv, NEW c \in Clients, FirstByte(c)
  PROVE  ServerInv'
<1> DEFINE s == connection[c]
           t == [s EXCEPT !.phase = "head", !.leftover = s.inflight, !.inflight = <<>>,
                          !.lineBreak = FALSE]
<1>1. /\ s \in Connections /\ ConnectionInv(s) /\ s.phase = "await" /\ s.inflight # <<>>
      /\ Set(c, t) /\ s.leftover = <<>>
  BY ConnFacts DEF FirstByte, ConnectionInv, Buffers
<1>2. /\ t \in Connections /\ SameAnswer(s, t) /\ t.phase = "head"
      /\ t.leftover = s.inflight /\ t.inflight = <<>> /\ t.wire = s.wire /\ t.half = s.half
  BY <1>1 DEF Connections, SameAnswer, Loops
<1> HIDE DEF t
<1>3. Unread(t) = Unread(s)
  <2>1. s.inflight \in Seq(Piece)
    BY <1>1, Parts
  <2>2. <<>> \o s.inflight = s.inflight /\ s.inflight \o <<>> = s.inflight
    BY <2>1, ConcatEmptySeq
  <2> QED BY <1>1, <1>2, <2>2 DEF Unread
<1>4. Buffers(t)
  BY <1>1, <1>2 DEF Buffers
<1>5. ConnectionInv(t)
  <2> HIDE DEF s
  <2> QED BY <1>1, <1>2, <1>3, <1>4, StreamStepKeeps
<1> QED BY <1>1, <1>5, SetKeeps

\* awaitNextMessage(): the line break of the last body is there, and no more.
LEMMA LineBreakReadKeeps ==
  ASSUME ServerInv, NEW c \in Clients, LineBreakRead(c)
  PROVE  ServerInv'
<1> DEFINE s == connection[c]
           t == [s EXCEPT !.lineBreak = FALSE]
<1>1. /\ s \in Connections /\ ConnectionInv(s) /\ s.phase = "await" /\ Set(c, t) /\ Buffers(s)
  BY ConnFacts DEF LineBreakRead, ConnectionInv
<1>2. /\ t \in Connections /\ SameAnswer(s, t) /\ t.phase = s.phase
      /\ t.leftover = s.leftover /\ t.inflight = s.inflight
      /\ t.wire = s.wire /\ t.half = s.half
  BY <1>1 DEF Connections, SameAnswer
<1> HIDE DEF s, t
<1>3. Unread(t) = Unread(s) /\ Buffers(t)
  BY <1>1, <1>2 DEF Unread, Buffers
<1>4. ConnectionInv(t)
  BY <1>1, <1>2, <1>3, StreamStepKeeps
<1> QED BY <1>1, <1>4, SetKeeps

\* More of the head is read, and what follows it.
LEMMA ReadHeadKeeps ==
  ASSUME ServerInv, NEW c \in Clients, NEW n \in Nat, ReadHead(c, n)
  PROVE  ServerInv'
<1> DEFINE s == connection[c]
           a == SubSeq(s.wire, 1, n)
           b == SubSeq(s.wire, n + 1, Len(s.wire))
           l == s.leftover \o a
           t == [s EXCEPT !.leftover = l, !.wire = b]
<1>1. /\ s \in Connections /\ ConnectionInv(s) /\ s.phase = "head" /\ s.inflight = <<>>
      /\ n <= Len(s.wire) /\ Set(c, t) /\ Len(s.leftover) = 1
  BY ConnFacts DEF ReadHead, ConnectionInv, Buffers
<1>2. a \in Seq(Piece) /\ b \in Seq(Piece) /\ a \o b = s.wire
  BY <1>1, Parts, Divide
<1> HIDE DEF a, b
<1>3. l \in Seq(Piece) /\ l # <<>>
  <2>1. s.leftover \in Seq(Piece)
    BY <1>1, Parts
  <2>2. l \in Seq(Piece) /\ Len(l) = Len(s.leftover) + Len(a) /\ Len(a) \in Nat
    BY <1>2, <2>1, ConcatProperties, LenProperties
  <2> QED BY <1>1, <2>2
<1> HIDE DEF l
<1>4. /\ t \in Connections /\ SameAnswer(s, t) /\ t.phase = "head"
      /\ t.leftover = l /\ t.inflight = <<>> /\ t.wire = b /\ t.half = s.half
  BY <1>1, <1>2, <1>3 DEF Connections, SameAnswer
<1> HIDE DEF t
<1>5. Unread(t) = Unread(s)
  <2> DEFINE h == s.half
             w == s.wire
             k == s.leftover
  <2>1. h \in Seq(Piece) /\ w \in Seq(Piece) /\ k \in Seq(Piece)
    BY <1>1, Parts
  <2>2. Unread(s) = (k \o <<>>) \o (w \o h) /\ Unread(t) = (l \o <<>>) \o (b \o h) /\ l = k \o a
    BY <1>1, <1>4 DEF Unread, l
  <2>3. w = a \o b
    BY <1>2
  <2> HIDE DEF h, w, k
  <2>4. (k \o a) \o (b \o h) = k \o ((a \o b) \o h)
    <3> DEFINE x == b \o h
    <3>1. x \in Seq(Piece)
      BY <1>2, <2>1, ConcatProperties
    <3>2. (a \o b) \o h = a \o x
      BY <1>2, <2>1, Associates DEF x
    <3> HIDE DEF x
    <3>3. (k \o a) \o x = k \o (a \o x)
      BY <1>2, <2>1, <3>1, Associates
    <3> QED BY <3>2, <3>3 DEF x
  <2>5. k \o <<>> = k /\ l \o <<>> = l
    BY <1>3, <2>1, ConcatEmptySeq
  <2> QED BY <2>2, <2>3, <2>4, <2>5
<1>6. Buffers(t)
  BY <1>3, <1>4 DEF Buffers
<1>7. ConnectionInv(t)
  <2> HIDE DEF s
  <2> QED BY <1>1, <1>4, <1>5, <1>6, StreamStepKeeps
<1> QED BY <1>1, <1>7, SetKeeps

\* The wait or the reading of a head ends: on a timeout, or through drain().
LEMMA TimedOutKeeps ==
  ASSUME NEW s, ConnectionInv(s), s.phase \in {"await", "head"},
         s.inflight = <<>> \/ s.timedOut
  PROVE  ConnectionInv(TimedOut(s))
<1> DEFINE lost == s.lost \/ s.inflight # <<>>
           result == IF draining /\ IsCleanDrain(s) THEN "ok" ELSE "err"
           r == [s EXCEPT !.lost = lost, !.inflight = <<>>]
           t == Break(r, result)
<1>1. /\ s \in Connections /\ AtRest(s) /\ (s.rejected => s.method = "connect")
  BY DEF ConnectionInv, InPhase
<1>2. lost \in BOOLEAN /\ result \in {"ok", "err"} /\ (lost => s.timedOut)
  BY <1>1 DEF AtRest
<1>3. result = "ok" => draining /\ s.leftover = <<>>
  BY DEF IsCleanDrain
<1> HIDE DEF lost, result
<1>4. /\ r \in Connections /\ r.lost = lost /\ r.timedOut = s.timedOut
      /\ r.rejected = s.rejected /\ r.method = s.method /\ r.owed = s.owed
      /\ r.queued = s.queued /\ r.bodyLeft = s.bodyLeft
      /\ r.closeAfterSend = s.closeAfterSend /\ r.leftover = s.leftover
  <2>1. s \in Connections /\ lost \in BOOLEAN /\ <<>> \in Seq(Piece)
    BY <1>1, <1>2
  <2> QED BY <2>1 DEF Connections
<1> HIDE DEF r
<1>5. /\ t \in Connections /\ t.phase = "over" /\ t.result = result
      /\ t.lost = lost /\ t.timedOut = s.timedOut
      /\ t.rejected = s.rejected /\ t.method = s.method /\ t.owed = s.owed
      /\ t.queued = s.queued /\ t.bodyLeft = s.bodyLeft
      /\ t.closeAfterSend = s.closeAfterSend /\ t.leftover = s.leftover
  BY <1>2, <1>4, Broken
<1>6. TimedOut(s) = t
  BY Zenon DEF TimedOut, r, lost, result
<1> HIDE DEF t
<1>7. ConnectionInv(t)
  <2>1. GivenBack(t)
    BY <1>1, <1>2, <1>3, <1>5 DEF GivenBack, AtRest
  <2>2. InStep(t) /\ Buffers(t) /\ InPhase(t)
    BY <1>1, <1>5 DEF InStep, Buffers, InPhase
  <2> QED BY <1>5, <2>1, <2>2 DEF ConnectionInv
<1> QED BY <1>6, <1>7

\* drain() ends the wait for a further request.
LEMMA DrainSeenKeeps ==
  ASSUME ServerInv, NEW c \in Clients, DrainSeen(c)
  PROVE  ServerInv'
<1>1. ConnectionInv(TimedOut(connection[c])) /\ Set(c, TimedOut(connection[c]))
  BY ConnFacts, TimedOutKeeps DEF DrainSeen
<1> QED BY <1>1, SetKeeps

\* A timer ends the wait for a request or for the rest of its head.
LEMMA TimeoutKeeps ==
  ASSUME ServerInv, NEW c \in Clients, Timeout(c)
  PROVE  ServerInv'
<1> DEFINE s == connection[c]
           t == [s EXCEPT !.timedOut = TRUE]
<1>1. /\ s \in Connections /\ ConnectionInv(s) /\ s.phase \in {"await", "head"}
      /\ Set(c, TimedOut(t)) /\ Buffers(s)
  BY ConnFacts DEF Timeout, ConnectionInv
<1>2. /\ t \in Connections /\ SameAnswer(s, t) /\ t.phase = s.phase /\ t.timedOut
      /\ t.leftover = s.leftover /\ t.inflight = s.inflight
      /\ t.wire = s.wire /\ t.half = s.half
  BY <1>1 DEF Connections, SameAnswer
<1> HIDE DEF s, t
<1>3. Unread(t) = Unread(s) /\ Buffers(t)
  BY <1>1, <1>2 DEF Unread, Buffers
<1>4. ConnectionInv(t)
  BY <1>1, <1>2, <1>3, StreamStepKeeps
<1>5. ConnectionInv(TimedOut(t))
  BY <1>1, <1>2, <1>4, TimedOutKeeps
<1> QED BY <1>1, <1>5, SetKeeps

-----------------------------------------------------------------------------
(* The service.                                                             *)

\* Steps that give the connection up as it is.
LEMMA GivesUpKeeps ==
  ASSUME ServerInv, NEW c \in Clients,
         Disconnected(c) \/ AwaitEnds(c) \/ HeadEnds(c) \/ Suspend(c) \/ GiveUp(c)
  PROVE  ServerInv'
<1>1. Set(c, Break(connection[c], "err"))
  BY Zenon DEF Disconnected, AwaitEnds, HeadEnds, Suspend, GiveUp
<1> QED BY <1>1, BreaksKeep

\* A step of the service that leaves the stream alone.
LEMMA ServeStepKeeps ==
  ASSUME NEW s, ConnectionInv(s), s.phase = "serve", NEW t \in Connections,
         t.phase \in {"serve", "flush"},
         t.leftover = s.leftover, t.inflight = s.inflight, t.wire = s.wire, t.half = s.half,
         t.method = s.method, t.bodyLeft = s.bodyLeft, t.result = s.result,
         t.rejected => t.method = "connect",
         t.phase = "serve" => Serving(t),
         t.phase = "flush" => Answered(t) /\ t.owed = 1
  PROVE  ConnectionInv(t)
<1>1. InStep(s) /\ Buffers(s) /\ InPhase(s)
  BY DEF ConnectionInv
<1>2. Unread(t) = Unread(s)
  BY DEF Unread
<1>3. InStep(t)
  BY <1>1, <1>2 DEF InStep
<1>4. Buffers(t)
  BY <1>1 DEF Buffers
<1>5. InPhase(t) /\ t.result = "none"
  BY <1>1 DEF InPhase
<1>6. GivenBack(t)
  BY <1>5 DEF GivenBack
<1> QED BY <1>3, <1>4, <1>5, <1>6 DEF ConnectionInv

\* sendError() leads out of the loop.
LEMMA SendErrorKeeps ==
  ASSUME NEW s, ConnectionInv(s), s.phase = "serve"
  PROVE  ConnectionInv(SendError(s))
<1> DEFINE q == s.queued \/ s.unanswered
           p == IF s.unanswered THEN "done" ELSE s.response
           t == [s EXCEPT !.phase = "error", !.closeAfterSend = TRUE, !.queued = q,
                          !.response = p, !.unanswered = FALSE]
<1>1. s \in Connections /\ Buffers(s) /\ InPhase(s)
  BY DEF ConnectionInv
<1>2. q \in BOOLEAN /\ p \in {"none", "open", "done", "aborted"}
  BY <1>1 DEF Connections
<1> HIDE DEF q, p
<1>3. /\ t \in Connections /\ t.phase = "error" /\ t.inflight = s.inflight
      /\ t.rejected = s.rejected /\ t.method = s.method /\ t.result = s.result
  BY <1>1, <1>2 DEF Connections, Loops
<1>4. SendError(s) = t
  BY Zenon DEF SendError, q, p
<1> HIDE DEF t
<1>5. InStep(t) /\ Buffers(t) /\ InPhase(t) /\ GivenBack(t)
  BY <1>1, <1>3 DEF InStep, Buffers, InPhase, GivenBack
<1> QED BY <1>3, <1>4, <1>5 DEF ConnectionInv

\* A rejected CONNECT may end the loop in any state (reject()).
LEMMA RejectedKeeps ==
  ASSUME NEW s, ConnectionInv(s), s.rejected
  PROVE  ConnectionInv(Break(s, "ok"))
<1> DEFINE t == Break(s, "ok")
<1>1. s \in Connections /\ s.method = "connect"
  BY DEF ConnectionInv, InPhase
<1>2. /\ t \in Connections /\ t.phase = "over" /\ t.rejected /\ t.method = "connect"
  BY <1>1, Broken
<1> HIDE DEF t
<1>3. InStep(t) /\ Buffers(t) /\ InPhase(t) /\ GivenBack(t)
  BY <1>2 DEF InStep, Buffers, InPhase, GivenBack
<1> QED BY <1>2, <1>3 DEF ConnectionInv, t

\* send(), or reject() for a CONNECT.
LEMMA SendResponseKeeps ==
  ASSUME ServerInv, NEW c \in Clients, SendResponse(c)
  PROVE  ServerInv'
<1> DEFINE s == connection[c]
           r == s.method = "connect"
           k == s.closeAfterSend \/ (draining /\ ~s.wantCleanDrain) \/ s.method = "connect"
           t == [s EXCEPT !.unanswered = FALSE, !.queued = TRUE, !.response = "open",
                          !.rejected = r, !.closeAfterSend = k]
<1>1. s \in Connections /\ ConnectionInv(s) /\ s.phase = "serve" /\ s.unanswered /\ Serving(s)
  BY ConnFacts DEF SendResponse, ConnectionInv, InPhase
<1>2. r \in BOOLEAN /\ k \in BOOLEAN /\ (r <=> s.method = "connect")
  BY Zenon
<1>3. Set(c, t)
  BY Zenon DEF SendResponse, t, r, k
<1> HIDE DEF r, k
<1>4. /\ t \in Connections /\ t.phase = "serve" /\ t.response = "open" /\ t.rejected = r
      /\ t.unanswered = FALSE /\ t.owed = s.owed /\ t.lost = s.lost
      /\ t.leftover = s.leftover /\ t.inflight = s.inflight /\ t.wire = s.wire /\ t.half = s.half
      /\ t.method = s.method /\ t.bodyLeft = s.bodyLeft /\ t.result = s.result
  <2>1. s \in Connections /\ s.phase = "serve" /\ r \in BOOLEAN /\ k \in BOOLEAN
    BY <1>1, <1>2
  <2> HIDE DEF s
  <2>2. t \in Connections
    BY <2>1 DEF Connections
  <2>3. /\ t.phase = "serve" /\ t.response = "open" /\ t.unanswered = FALSE
        /\ t.owed = s.owed /\ t.lost = s.lost /\ t.leftover = s.leftover
        /\ t.inflight = s.inflight /\ t.wire = s.wire /\ t.half = s.half
        /\ t.method = s.method /\ t.bodyLeft = s.bodyLeft /\ t.result = s.result
    BY <2>1 DEF Connections
  <2>4. t.rejected = r
    BY <2>1 DEF Connections
  <2> QED BY <2>2, <2>3, <2>4
<1> HIDE DEF s, t
<1>5. Serving(t) /\ (t.rejected => t.method = "connect")
  BY <1>1, <1>2, <1>4 DEF Serving
<1>6. ConnectionInv(t)
  BY <1>1, <1>4, <1>5, ServeStepKeeps
<1> QED BY <1>3, <1>6, SetKeeps

\* A response body that is dropped before its end.
Aborted(s) == [s EXCEPT !.response = "aborted", !.broken = TRUE, !.queued = FALSE]

\* A response that is broken off leaves its request unanswered.
LEMMA AbortedKeeps ==
  ASSUME NEW s, ConnectionInv(s), s.phase = "serve", s.response = "open"
  PROVE  ConnectionInv(Aborted(s)) /\ Aborted(s).phase = "serve" /\ Aborted(s).rejected = s.rejected
<1> DEFINE t == Aborted(s)
<1>1. s \in Connections /\ Serving(s) /\ InPhase(s)
  BY DEF ConnectionInv, InPhase
<1>2. /\ t \in Connections /\ t.phase = "serve" /\ t.response = "aborted" /\ t.broken
      /\ t.rejected = s.rejected
      /\ t.unanswered = s.unanswered /\ t.owed = s.owed /\ t.lost = s.lost
      /\ t.leftover = s.leftover /\ t.inflight = s.inflight /\ t.wire = s.wire /\ t.half = s.half
      /\ t.method = s.method /\ t.bodyLeft = s.bodyLeft /\ t.result = s.result
  BY <1>1 DEF Connections, Aborted
<1> HIDE DEF t
<1>3. Serving(t) /\ (t.rejected => t.method = "connect")
  BY <1>1, <1>2 DEF Serving, InPhase
<1>4. ConnectionInv(t)
  BY <1>2, <1>3, ServeStepKeeps
<1> QED BY <1>2, <1>4 DEF t

\* The response body is dropped, complete or not.
LEMMA EndResponseKeeps ==
  ASSUME ServerInv, NEW c \in Clients, EndResponse(c)
  PROVE  ServerInv'
<1> DEFINE s == connection[c]
           t == [s EXCEPT !.response = "done"]
<1>1. /\ s \in Connections /\ ConnectionInv(s) /\ s.phase = "serve" /\ s.response = "open"
      /\ Serving(s) /\ InPhase(s)
  BY ConnFacts DEF EndResponse, ConnectionInv, InPhase
<1>2. Set(c, t) \/ Set(c, Aborted(s))
  BY Zenon DEF EndResponse, Aborted
<1>3. /\ t \in Connections /\ t.phase = "serve" /\ t.response = "done" /\ t.rejected = s.rejected
      /\ t.unanswered = s.unanswered /\ t.owed = s.owed /\ t.lost = s.lost
      /\ t.leftover = s.leftover /\ t.inflight = s.inflight /\ t.wire = s.wire /\ t.half = s.half
      /\ t.method = s.method /\ t.bodyLeft = s.bodyLeft /\ t.result = s.result
  BY <1>1 DEF Connections
<1> HIDE DEF s, t
<1>4. Serving(t) /\ (t.rejected => t.method = "connect")
  BY <1>1, <1>3 DEF Serving, InPhase
<1>5. ConnectionInv(t)
  BY <1>1, <1>3, <1>4, ServeStepKeeps
<1>6. ConnectionInv(Aborted(s))
  BY <1>1, AbortedKeeps
<1> QED BY <1>2, <1>5, <1>6, SetKeeps

\* acceptWebSocket() and accept() take the stream over.
LEMMA AcceptUpgradeKeeps ==
  ASSUME ServerInv, NEW c \in Clients, AcceptUpgrade(c)
  PROVE  ServerInv'
<1> DEFINE s == connection[c]
           t == [s EXCEPT !.unanswered = FALSE, !.upgraded = TRUE, !.queued = TRUE]
<1>1. /\ s \in Connections /\ ConnectionInv(s) /\ s.phase = "serve" /\ s.unanswered
      /\ Serving(s) /\ InPhase(s) /\ Set(c, t)
  BY ConnFacts DEF AcceptUpgrade, ConnectionInv, InPhase
<1>3. /\ t \in Connections /\ t.phase = "serve" /\ t.response = s.response
      /\ t.rejected = s.rejected /\ t.upgraded
      /\ t.unanswered = FALSE /\ t.owed = s.owed /\ t.lost = s.lost
      /\ t.leftover = s.leftover /\ t.inflight = s.inflight /\ t.wire = s.wire /\ t.half = s.half
      /\ t.method = s.method /\ t.bodyLeft = s.bodyLeft /\ t.result = s.result
  <2>1. s \in Connections /\ s.phase = "serve"
    BY <1>1
  <2> HIDE DEF s
  <2>2. t \in Connections
    BY <2>1 DEF Connections
  <2> QED BY <2>1, <2>2 DEF Connections
<1> HIDE DEF s, t
<1>4. Serving(t) /\ (t.rejected => t.method = "connect")
  BY <1>1, <1>3 DEF Serving, InPhase
<1>5. ConnectionInv(t)
  BY <1>1, <1>3, <1>4, ServeStepKeeps
<1> QED BY <1>1, <1>5, SetKeeps

\* The service's promise resolves: only a complete response goes on to the
\* flush.
LEMMA ServiceReturnsKeeps ==
  ASSUME ServerInv, NEW c \in Clients, ServiceReturns(c)
  PROVE  ServerInv'
<1> DEFINE s == connection[c]
           t == [s EXCEPT !.phase = "flush"]
<1>1. /\ s \in Connections /\ ConnectionInv(s) /\ s.phase = "serve" /\ s.response # "open"
      /\ Serving(s) /\ InPhase(s)
  BY ConnFacts DEF ServiceReturns, ConnectionInv, InPhase
<1>2. CASE s.rejected
  <2>1. Set(c, Break(s, "ok"))
    BY <1>2 DEF ServiceReturns
  <2> QED BY <1>1, <1>2, <2>1, RejectedKeeps, SetKeeps
<1>6. CASE ~s.rejected /\ s.method = "connect"
  <2> DEFINE e == [s EXCEPT !.phase = "error"]
  <2>1. Set(c, e) \/ Set(c, Break(s, "err"))
    BY <1>6, Zenon DEF ServiceReturns
  <2>2. /\ e \in Connections /\ e.phase = "error" /\ e.inflight = s.inflight
        /\ e.rejected = s.rejected /\ e.method = s.method /\ e.result = s.result
    BY <1>1 DEF Connections, Loops
  <2> HIDE DEF e
  <2>3. InStep(e) /\ Buffers(e) /\ InPhase(e) /\ GivenBack(e)
    BY <1>1, <2>2 DEF InStep, ConnectionInv, Buffers, InPhase, GivenBack
  <2>4. ConnectionInv(e)
    BY <2>2, <2>3 DEF ConnectionInv
  <2> QED BY <2>1, <2>4, BreaksKeep, SetKeeps
<1>3. CASE ~s.rejected /\ s.method # "connect" /\ s.unanswered
  <2>1. Set(c, SendError(s))
    BY <1>3 DEF ServiceReturns
  <2> QED BY <1>1, <2>1, SendErrorKeeps, SetKeeps
<1>4. CASE ~s.rejected /\ s.method # "connect" /\ ~s.unanswered /\ (s.upgraded \/ s.broken)
  <2>1. Set(c, Break(s, "err"))
    BY <1>4 DEF ServiceReturns
  <2> QED BY <2>1, BreaksKeep
<1>5. CASE ~s.rejected /\ s.method # "connect" /\ ~s.unanswered /\ ~(s.upgraded \/ s.broken)
  <2>1. Set(c, t)
    BY <1>5 DEF ServiceReturns
  <2>2. s.response = "done" /\ s.method # "connect" /\ ~s.lost
    BY <1>1, <1>5 DEF Serving, Connections
  <2>3. /\ t \in Connections /\ t.phase = "flush" /\ t.response = s.response
        /\ t.rejected = s.rejected /\ t.upgraded = s.upgraded /\ t.broken = s.broken
        /\ t.unanswered = s.unanswered /\ t.owed = s.owed /\ t.lost = s.lost
        /\ t.leftover = s.leftover /\ t.inflight = s.inflight /\ t.wire = s.wire /\ t.half = s.half
        /\ t.method = s.method /\ t.bodyLeft = s.bodyLeft /\ t.result = s.result
    BY <1>1 DEF Connections, Loops
  <2> HIDE DEF s, t
  <2>4. Answered(t) /\ t.owed = 1 /\ (t.rejected => t.method = "connect")
    BY <1>1, <1>5, <2>2, <2>3 DEF Serving, Answered
  <2>5. ConnectionInv(t)
    BY <1>1, <2>3, <2>4, ServeStepKeeps
  <2> QED BY <2>1, <2>5, SetKeeps
<1> QED BY <1>2, <1>3, <1>4, <1>5, <1>6

\* The service's promise is rejected.
LEMMA ServiceThrowsKeeps ==
  ASSUME ServerInv, NEW c \in Clients, ServiceThrows(c)
  PROVE  ServerInv'
<1> DEFINE s == connection[c]
           t == IF s.response = "open" THEN Aborted(s) ELSE s
<1>1. s \in Connections /\ ConnectionInv(s) /\ s.phase = "serve"
  BY ConnFacts DEF ServiceThrows
<1>2. ConnectionInv(t) /\ t.phase = "serve" /\ t.rejected = s.rejected
  BY <1>1, AbortedKeeps
<1>3. \/ s.rejected /\ Set(c, Break(t, "ok"))
      \/ Set(c, SendError(t))
      \/ Set(c, Break(s, "err"))
  BY Zenon DEF ServiceThrows, Aborted
<1> HIDE DEF s, t
<1>4. s.rejected => ConnectionInv(Break(t, "ok"))
  BY <1>2, RejectedKeeps
<1>5. ConnectionInv(SendError(t))
  BY <1>2, SendErrorKeeps
<1>6. ConnectionInv(Break(s, "err"))
  BY <1>1, BrokenKeeps
<1> QED BY <1>3, <1>4, <1>5, <1>6, SetKeeps

\* What follows the first piece of a well-formed stream.
LEMMA SecondPiece ==
  ASSUME NEW q \in Seq(Piece), Formed(q), NEW k \in Nat, k >= 1, k <= Len(q), NEW y,
         y = SubSeq(q, k + 1, Len(q))
  PROVE  /\ y \in Seq(Piece) /\ Formed(y)
         /\ y # <<>> => y[1] = q[k + 1] /\ Follows(q[k], y[1])
         /\ y = <<>> => IsEnd(q[k])
<1>1. /\ Len(q) \in Nat /\ y \in Seq(Piece) /\ Len(y) = Len(q) - k
      /\ \A i \in 1 .. Len(q) - k : y[i] = q[k + i]
  BY LenProperties
<1>2. Formed(y)
  BY FormedRest
<1>3. ASSUME y # <<>> PROVE y[1] = q[k + 1] /\ Follows(q[k], y[1])
  <2>1. Len(y) >= 1
    BY <1>1, <1>3
  <2>2. 1 \in 1 .. Len(q) - k /\ k \in 1 .. Len(q) - 1
    BY <1>1, <2>1
  <2>3. y[1] = q[k + 1]
    BY <1>1, <2>2
  <2>4. Follows(q[k], q[k + 1])
    BY <2>2 DEF Formed
  <2> QED BY <2>3, <2>4
<1>4. ASSUME y = <<>> PROVE IsEnd(q[k])
  <2>1. Len(y) = 0
    BY <1>1, <1>4, EmptySeq, Zenon
  <2>2. Len(q) = k /\ q # <<>>
    BY <1>1, <2>1
  <2> QED BY <2>2 DEF Formed
<1> QED BY <1>1, <1>2, <1>3, <1>4

\* The server takes k pieces from what it has read.
LEMMA TakenFromLeftover ==
  ASSUME NEW s \in Connections, NEW t, NEW k \in Nat, k <= Len(s.leftover),
         t.leftover = SubSeq(s.leftover, k + 1, Len(s.leftover)),
         t.inflight = <<>>, s.inflight = <<>>, t.wire = s.wire, t.half = s.half
  PROVE  /\ Unread(t) = SubSeq(Unread(s), k + 1, Len(Unread(s)))
         /\ k <= Len(Unread(s))
         /\ \A i \in 1 .. Len(s.leftover) : Unread(s)[i] = s.leftover[i]
<1> DEFINE a == s.leftover
           b == s.wire \o s.half
           x == SubSeq(a, k + 1, Len(a))
<1>1. a \in Seq(Piece) /\ b \in Seq(Piece) /\ a \o <<>> = a
  BY Parts, ConcatProperties, ConcatEmptySeq
<1>2. x \in Seq(Piece) /\ x \o b = SubSeq(a \o b, k + 1, Len(a \o b))
  <2> HIDE DEF a, b
  <2>1. k <= Len(a)
    BY DEF a
  <2> QED BY <1>1, <2>1, Behead
<1>3. x \o <<>> = x
  BY <1>2, ConcatEmptySeq
<1>4. Unread(s) = a \o b
  BY <1>1 DEF Unread
<1>5. Unread(t) = x \o b
  BY <1>3 DEF Unread
<1>6. /\ Len(a) \in Nat /\ Len(b) \in Nat /\ Len(a \o b) = Len(a) + Len(b)
      /\ \A i \in 1 .. Len(a) : (a \o b)[i] = a[i]
  <2> HIDE DEF a, b
  <2>1. /\ Len(a) \in Nat /\ Len(b) \in Nat /\ Len(a \o b) = Len(a) + Len(b)
        /\ \A i \in 1 .. Len(a) + Len(b) : (a \o b)[i] = IF i <= Len(a) THEN a[i] ELSE b[i - Len(a)]
    BY <1>1, ConcatProperties, LenProperties
  <2> QED BY <2>1
<1>7. k <= Len(a \o b)
  <2>1. k <= Len(a)
    OBVIOUS
  <2> HIDE DEF a, b
  <2> QED BY <1>6, <2>1
<1>8. \A i \in 1 .. Len(s.leftover) : Unread(s)[i] = s.leftover[i]
  BY <1>4, <1>6
<1> HIDE DEF a, b, x
<1> QED BY <1>2, <1>4, <1>5, <1>7, <1>8

\* The server takes a piece from the stream.
LEMMA TakenFromWire ==
  ASSUME NEW s \in Connections, NEW t, s.wire # <<>>,
         s.leftover = <<>>, t.leftover = <<>>, t.inflight = <<>>, s.inflight = <<>>,
         t.wire = Tail(s.wire), t.half = s.half
  PROVE  /\ Unread(t) = SubSeq(Unread(s), 1 + 1, Len(Unread(s)))
         /\ 1 <= Len(Unread(s))
<1> DEFINE a == s.wire
           b == s.half
           x == SubSeq(a, 1 + 1, Len(a))
           y == a \o b
           z == x \o b
<1>1. a \in Seq(Piece) /\ b \in Seq(Piece)
  BY Parts
<1>2. Tail(a) = x /\ 1 <= Len(a)
  <2>1. a # <<>>
    OBVIOUS
  <2> HIDE DEF a
  <2> QED BY <1>1, <2>1, TailIsBeheaded
<1>3. x \in Seq(Piece) /\ x \o b = SubSeq(a \o b, 1 + 1, Len(a \o b))
  <2> HIDE DEF a, b
  <2> QED BY <1>1, <1>2, Behead
<1>4. y \in Seq(Piece) /\ z \in Seq(Piece) /\ Len(y) = Len(a) + Len(b) /\ Len(b) \in Nat /\ Len(a) \in Nat
  <2> HIDE DEF a, b, x
  <2> QED BY <1>1, <1>3, ConcatProperties, LenProperties
<1>5. Unread(s) = (<<>> \o <<>>) \o y /\ Unread(t) = (<<>> \o <<>>) \o z
  BY <1>2 DEF Unread
<1>6. z = SubSeq(y, 1 + 1, Len(y))
  BY <1>3
<1>7. 1 <= Len(y)
  <2> HIDE DEF a, b, y
  <2> QED BY <1>2, <1>4
<1> HIDE DEF a, b, x, y, z
<1>8. <<>> \o <<>> = <<>> /\ <<>> \o y = y /\ <<>> \o z = z
  BY <1>4, ConcatEmptySeq
<1> QED BY <1>5, <1>6, <1>7, <1>8

\* The service, or the server in its grace period, has read a body.
LEMMA BodyTakenKeeps ==
  ASSUME NEW s, ConnectionInv(s), s.phase \in {"serve", "grace"}, s.bodyLeft,
         NEW t \in Connections, t.phase = s.phase, ~t.bodyLeft, t.inflight = s.inflight,
         t.owed = s.owed, t.queued = s.queued, t.broken = s.broken,
         t.unanswered = s.unanswered, t.upgraded = s.upgraded, t.lost = s.lost,
         t.rejected = s.rejected, t.response = s.response, t.method = s.method,
         t.result = s.result,
         Unread(t) = SubSeq(Unread(s), 1 + 1, Len(Unread(s))), 1 <= Len(Unread(s))
  PROVE  ConnectionInv(t)
<1>1. s \in Connections /\ InStep(s) /\ Buffers(s) /\ InPhase(s)
  BY DEF ConnectionInv
<1>2. InStep(t)
  <2> SUFFICES ASSUME t.method # "connect"
               PROVE  /\ Formed(Unread(t))
                      /\ Unread(t) # <<>> => Unread(t)[1][1] = "line"
    BY DEF InStep
  <2> DEFINE u == Unread(s)
             y == Unread(t)
             k == 1
  <2>1. Formed(u) /\ u[1][1] = "body" /\ u \in Seq(Piece)
    BY <1>1, Parts DEF InStep
  <2>2. k \in Nat /\ k >= 1 /\ k <= Len(u) /\ y = SubSeq(u, k + 1, Len(u))
    OBVIOUS
  <2> HIDE DEF u, y, k
  <2>3. Formed(y) /\ (y # <<>> => Follows(u[k], y[1]))
    BY <2>1, <2>2, SecondPiece
  <2>4. y # <<>> => y[1][1] = "line"
    BY <2>1, <2>3 DEF Follows, k
  <2> QED BY <2>3, <2>4 DEF y
<1>3. Buffers(t)
  BY <1>1 DEF Buffers
<1>4. InPhase(t)
  BY <1>1 DEF InPhase, Serving, Answered
<1>5. GivenBack(t)
  BY <1>1 DEF GivenBack, InPhase
<1> QED BY <1>2, <1>3, <1>4, <1>5 DEF ConnectionInv

\* The request body is read, from the buffer or from the stream.
LEMMA ReadBodyKeeps ==
  ASSUME ServerInv, NEW c \in Clients, NEW breakLeft \in BOOLEAN,
         ReadBody(c, breakLeft)
  PROVE  ServerInv'
<1> DEFINE s == connection[c]
           l == Tail(s.leftover)
           w == Tail(s.wire)
<1>1. /\ s \in Connections /\ ConnectionInv(s) /\ s.phase \in {"serve", "grace"} /\ s.bodyLeft
      /\ s.inflight = <<>>
  BY ConnFacts DEF ReadBody, ConnectionInv, Buffers
<1>2. s.leftover \in Seq(Piece) /\ s.wire \in Seq(Piece)
  BY <1>1, Parts
<1>3. ASSUME s.leftover # <<>>, 
             Set(c, [s EXCEPT !.bodyLeft = FALSE, !.lineBreak = breakLeft, !.leftover = Tail(@)])
      PROVE  ServerInv'
  <2> DEFINE t == [s EXCEPT !.bodyLeft = FALSE, !.lineBreak = breakLeft, !.leftover = l]
  <2>1. l = SubSeq(s.leftover, 1 + 1, Len(s.leftover)) /\ 1 <= Len(s.leftover) /\ l \in Seq(Piece)
    BY <1>2, <1>3, TailIsBeheaded
  <2>2. Set(c, t)
    BY <1>3
  <2> HIDE DEF l
  <2>3. /\ t \in Connections /\ t.phase = s.phase /\ t.bodyLeft = FALSE /\ t.inflight = s.inflight
        /\ t.owed = s.owed /\ t.queued = s.queued /\ t.broken = s.broken
        /\ t.unanswered = s.unanswered /\ t.upgraded = s.upgraded /\ t.lost = s.lost
        /\ t.rejected = s.rejected /\ t.response = s.response /\ t.method = s.method
        /\ t.result = s.result
        /\ t.leftover = l /\ t.wire = s.wire /\ t.half = s.half
    <3>1. s \in Connections
      BY <1>1
    <3> HIDE DEF s
    <3> QED BY <2>1, <3>1 DEF Connections
  <2> HIDE DEF s, t
  <2>4. Unread(t) = SubSeq(Unread(s), 1 + 1, Len(Unread(s))) /\ 1 <= Len(Unread(s))
    BY <1>1, <2>1, <2>3, TakenFromLeftover
  <2>5. ConnectionInv(t)
    BY <1>1, <2>3, <2>4, BodyTakenKeeps
  <2> QED BY <2>2, <2>5, SetKeeps
<1>4. ASSUME s.leftover = <<>>, s.wire # <<>>,
             Set(c, [s EXCEPT !.bodyLeft = FALSE, !.lineBreak = breakLeft, !.wire = Tail(@)])
      PROVE  ServerInv'
  <2> DEFINE t == [s EXCEPT !.bodyLeft = FALSE, !.lineBreak = breakLeft, !.wire = w]
  <2>1. w \in Seq(Piece)
    BY <1>2, <1>4, TailIsBeheaded
  <2>2. Set(c, t)
    BY <1>4
  <2> HIDE DEF w
  <2>3. /\ t \in Connections /\ t.phase = s.phase /\ t.bodyLeft = FALSE /\ t.inflight = s.inflight
        /\ t.owed = s.owed /\ t.queued = s.queued /\ t.broken = s.broken
        /\ t.unanswered = s.unanswered /\ t.upgraded = s.upgraded /\ t.lost = s.lost
        /\ t.rejected = s.rejected /\ t.response = s.response /\ t.method = s.method
        /\ t.result = s.result
        /\ t.leftover = s.leftover /\ t.wire = w /\ t.half = s.half
    <3>1. s \in Connections
      BY <1>1
    <3> HIDE DEF s
    <3> QED BY <2>1, <3>1 DEF Connections
  <2>4. w = Tail(s.wire)
    BY DEF w
  <2> HIDE DEF s, t
  <2>5. Unread(t) = SubSeq(Unread(s), 1 + 1, Len(Unread(s))) /\ 1 <= Len(Unread(s))
    BY <1>1, <1>4, <2>3, <2>4, TakenFromWire
  <2>6. ConnectionInv(t)
    BY <1>1, <2>3, <2>5, BodyTakenKeeps
  <2> QED BY <2>2, <2>6, SetKeeps
<1> QED BY <1>3, <1>4 DEF ReadBody

-----------------------------------------------------------------------------
(* Parsing a head, and after the response.                                  *)

\* After an answer that was sent in full.
LEMMA AfterResponseKeeps ==
  ASSUME NEW s \in Connections, InStep(s), Answered(s), s.owed = 0, ~s.queued, ~s.bodyLeft,
         s.phase \in {"flush", "grace"}, s.inflight = <<>>, s.result = "none", ~s.rejected
  PROVE  ConnectionInv(AfterResponse(s))
<1>1. CASE s.closeAfterSend
  <2> DEFINE t == Break(s, "err")
  <2>1. AfterResponse(s) = t
    BY <1>1 DEF AfterResponse
  <2>2. t \in Connections /\ t.phase = "over" /\ t.result = "err" /\ t.rejected = s.rejected
    BY Broken
  <2> HIDE DEF t
  <2>3. InStep(t) /\ Buffers(t) /\ InPhase(t) /\ GivenBack(t)
    BY <2>2 DEF InStep, Buffers, InPhase, GivenBack
  <2> QED BY <2>1, <2>2, <2>3 DEF ConnectionInv
<1>2. CASE ~s.closeAfterSend
  <2> DEFINE w == s.leftover = <<>> /\ ~s.lineBreak
             r == [s EXCEPT !.phase = "await", !.method = "none", !.response = "none",
                            !.watched = w]
             o == Break(r, "ok")
             h == [r EXCEPT !.phase = "head"]
  <2>1. /\ r \in Connections /\ r.phase = "await" /\ r.method = "none" /\ r.response = "none"
        /\ r.leftover = s.leftover /\ r.inflight = <<>> /\ r.wire = s.wire /\ r.half = s.half
        /\ r.owed = 0 /\ ~r.queued /\ ~r.bodyLeft /\ ~r.broken /\ ~r.unanswered
        /\ ~r.upgraded /\ ~r.closeAfterSend /\ ~r.lost /\ ~r.rejected /\ r.result = "none"
    BY <1>2 DEF Connections, Loops, Answered
  <2>2. AfterResponse(s) = IF draining /\ IsCleanDrain(r) THEN o
                           ELSE IF r.leftover # <<>> THEN h ELSE r
    BY <1>2, Zenon DEF AfterResponse, Continue
  <2> HIDE DEF r
  <2>3. /\ h \in Connections /\ h.phase = "head" /\ h.method = "none" /\ h.response = "none"
        /\ h.leftover = s.leftover /\ h.inflight = <<>> /\ h.wire = s.wire /\ h.half = s.half
        /\ h.owed = 0 /\ ~h.queued /\ ~h.bodyLeft /\ ~h.broken /\ ~h.unanswered
        /\ ~h.upgraded /\ ~h.closeAfterSend /\ ~h.lost /\ ~h.rejected /\ h.result = "none"
    BY <2>1 DEF Connections, Loops
  <2> HIDE DEF h
  <2>4. Unread(r) = Unread(s) /\ Unread(h) = Unread(s)
    BY <2>1, <2>3 DEF Unread
  <2>5. /\ Formed(Unread(s))
        /\ Unread(s) # <<>> => Unread(s)[1][1] = "line"
    BY DEF InStep, Answered
  <2>6. InStep(r) /\ InStep(h)
    BY <2>1, <2>3, <2>4, <2>5 DEF InStep
  <2>7. CASE draining /\ IsCleanDrain(r)
    <3>1. r.leftover = <<>>
      BY <2>7 DEF IsCleanDrain
    <3>2. /\ o \in Connections /\ o.phase = "over" /\ o.result = "ok" /\ ~o.rejected
          /\ o.owed = 0 /\ ~o.queued /\ ~o.bodyLeft /\ ~o.closeAfterSend /\ o.leftover = <<>>
          /\ ~o.lost
      BY <2>1, <3>1, Broken
    <3> HIDE DEF o
    <3>3. InStep(o) /\ Buffers(o) /\ InPhase(o)
      BY <3>2 DEF InStep, Buffers, InPhase
    <3>4. GivenBack(o)
      BY <2>7, <3>2 DEF GivenBack
    <3> QED BY <2>2, <2>7, <3>2, <3>3, <3>4 DEF ConnectionInv
  <2>8. CASE ~(draining /\ IsCleanDrain(r)) /\ r.leftover # <<>>
    <3>1. Buffers(h) /\ InPhase(h) /\ GivenBack(h)
      BY <2>1, <2>3, <2>8 DEF Buffers, InPhase, AtRest, GivenBack
    <3> QED BY <2>2, <2>3, <2>6, <2>8, <3>1 DEF ConnectionInv
  <2>9. CASE ~(draining /\ IsCleanDrain(r)) /\ r.leftover = <<>>
    <3>1. Buffers(r) /\ InPhase(r) /\ GivenBack(r)
      BY <2>1, <2>9 DEF Buffers, InPhase, AtRest, GivenBack
    <3> QED BY <2>1, <2>2, <2>6, <2>9, <3>1 DEF ConnectionInv
  <2> QED BY <2>7, <2>8, <2>9
<1> QED BY <1>1, <1>2

\* The grace period ends: the next request is read only if the body is gone.
LEMMA GraceEndsKeeps ==
  ASSUME ServerInv, NEW c \in Clients, GraceEnds(c)
  PROVE  ServerInv'
<1> DEFINE s == connection[c]
<1>1. s \in Connections /\ ConnectionInv(s) /\ s.phase = "grace" /\ InStep(s)
  BY ConnFacts DEF GraceEnds, ConnectionInv
<1>2. /\ Answered(s) /\ s.owed = 0 /\ ~s.queued /\ s.inflight = <<>> /\ s.result = "none"
      /\ ~s.rejected
  BY <1>1 DEF ConnectionInv, InPhase, Buffers, Answered
<1>3. CASE s.bodyLeft
  <2>1. Set(c, Break(s, "err"))
    BY <1>3 DEF GraceEnds
  <2> QED BY <2>1, BreaksKeep
<1>4. CASE ~s.bodyLeft
  <2>1. Set(c, AfterResponse(s))
    BY <1>4 DEF GraceEnds
  <2> HIDE DEF s
  <2>2. ConnectionInv(AfterResponse(s))
    BY <1>1, <1>2, <1>4, AfterResponseKeeps
  <2> QED BY <2>1, <2>2, SetKeeps
<1> QED BY <1>3, <1>4

\* The response is flushed: the request is answered.
LEMMA FlushedFacts ==
  ASSUME NEW s \in Connections
  PROVE  LET t == Flushed(s) IN
           /\ t \in Connections /\ t.queued = FALSE
           /\ s.response = "done" => t.owed = s.owed - 1
           /\ t.phase = s.phase /\ t.leftover = s.leftover /\ t.inflight = s.inflight
           /\ t.wire = s.wire /\ t.half = s.half /\ t.method = s.method
           /\ t.bodyLeft = s.bodyLeft /\ t.unanswered = s.unanswered
           /\ t.response = s.response /\ t.broken = s.broken /\ t.upgraded = s.upgraded
           /\ t.rejected = s.rejected /\ t.lost = s.lost /\ t.result = s.result
<1> DEFINE o == IF s.response = "done" THEN s.owed - 1 ELSE s.owed
           t == [s EXCEPT !.queued = FALSE, !.owed = o]
<1>1. o \in Int /\ (s.response = "done" => o = s.owed - 1)
  BY DEF Connections
<1>2. Flushed(s) = t
  BY Zenon DEF Flushed
<1> HIDE DEF o
<1>3. /\ t \in Connections /\ t.queued = FALSE /\ t.owed = o
      /\ t.phase = s.phase /\ t.leftover = s.leftover /\ t.inflight = s.inflight
      /\ t.wire = s.wire /\ t.half = s.half /\ t.method = s.method
      /\ t.bodyLeft = s.bodyLeft /\ t.unanswered = s.unanswered
      /\ t.response = s.response /\ t.broken = s.broken /\ t.upgraded = s.upgraded
      /\ t.rejected = s.rejected /\ t.lost = s.lost /\ t.result = s.result
  BY <1>1 DEF Connections
<1> HIDE DEF t
<1> QED BY <1>1, <1>2, <1>3

\* After the flush the loop ends, goes into the grace period or goes on.
LEMMA FlushKeeps ==
  ASSUME ServerInv, NEW c \in Clients, Flush(c)
  PROVE  ServerInv'
<1> DEFINE s == connection[c]
           f == Flushed(s)
<1>1. s \in Connections /\ ConnectionInv(s) /\ s.phase \in {"flush", "error"}
  BY ConnFacts DEF Flush
<1>2. /\ f \in Connections /\ f.queued = FALSE
      /\ s.response = "done" => f.owed = s.owed - 1
      /\ f.phase = s.phase /\ f.leftover = s.leftover /\ f.inflight = s.inflight
      /\ f.wire = s.wire /\ f.half = s.half /\ f.method = s.method
      /\ f.bodyLeft = s.bodyLeft /\ f.unanswered = s.unanswered
      /\ f.response = s.response /\ f.broken = s.broken /\ f.upgraded = s.upgraded
      /\ f.rejected = s.rejected /\ f.lost = s.lost /\ f.result = s.result
  BY <1>1, FlushedFacts
<1>3. CASE s.phase = "error"
  <2> DEFINE t == Break(f, "err")
  <2>1. Set(c, t)
    BY <1>3 DEF Flush
  <2>3. /\ t \in Connections /\ t.phase = "over" /\ t.result = "err"
        /\ t.rejected = s.rejected /\ t.method = s.method
    BY <1>2, Broken
  <2> HIDE DEF s, t, f
  <2>4. ConnectionInv(t)
    BY <1>1, <2>3, Ended
  <2> QED BY <2>1, <2>4, SetKeeps
<1>4. CASE s.phase = "flush"
  <2>1. /\ Answered(s) /\ s.owed = 1 /\ s.inflight = <<>> /\ s.result = "none" /\ ~s.rejected
        /\ InStep(s)
    BY <1>1, <1>4 DEF ConnectionInv, InPhase, Buffers, Answered
  <2>2. Set(c, IF s.bodyLeft THEN [f EXCEPT !.phase = "grace"] ELSE AfterResponse(f))
    BY <1>4 DEF Flush
  <2> HIDE DEF s, f
  <2>3. /\ Answered(f) /\ f.owed = 0 /\ ~f.queued /\ f.inflight = <<>> /\ f.result = "none"
        /\ ~f.rejected
    BY <1>2, <2>1 DEF Answered
  <2>4. Unread(f) = Unread(s)
    BY <1>2 DEF Unread
  <2>5. InStep(f)
    BY <1>2, <1>4, <2>1, <2>4 DEF InStep
  <2>6. CASE s.bodyLeft
    <3> DEFINE t == [f EXCEPT !.phase = "grace"]
    <3>1. Set(c, t)
      BY <2>2, <2>6
    <3>2. /\ t \in Connections /\ t.phase = "grace"
          /\ t.queued = f.queued /\ t.owed = f.owed
          /\ t.leftover = f.leftover /\ t.inflight = f.inflight
          /\ t.wire = f.wire /\ t.half = f.half /\ t.method = f.method
          /\ t.bodyLeft = f.bodyLeft /\ t.unanswered = f.unanswered
          /\ t.response = f.response /\ t.broken = f.broken /\ t.upgraded = f.upgraded
          /\ t.rejected = f.rejected /\ t.lost = f.lost /\ t.result = f.result
      BY <1>2 DEF Connections, Loops
    <3> HIDE DEF t
    <3>3. Unread(t) = Unread(f)
      BY <3>2 DEF Unread
    <3>4. InStep(t)
      BY <1>2, <1>4, <2>5, <3>2, <3>3 DEF InStep
    <3>5. Buffers(t) /\ InPhase(t) /\ GivenBack(t)
      BY <2>3, <3>2 DEF Buffers, InPhase, GivenBack, Answered
    <3>6. ConnectionInv(t)
      BY <3>2, <3>4, <3>5 DEF ConnectionInv
    <3> QED BY <3>1, <3>6, SetKeeps
  <2>7. CASE ~s.bodyLeft
    <3>1. Set(c, AfterResponse(f))
      BY <2>2, <2>7
    <3>2. ~f.bodyLeft /\ f.phase \in {"flush", "grace"}
      BY <1>2, <1>4, <2>7
    <3>3. ConnectionInv(AfterResponse(f))
      BY <1>2, <2>3, <2>5, <3>2, AfterResponseKeeps
    <3> QED BY <3>1, <3>3, SetKeeps
  <2> QED BY <2>6, <2>7
<1> QED BY <1>1, <1>3, <1>4

\* onHeaders(): the head is taken from the stream, and what follows it is its
\* body or the next request.
LEMMA ParseHeadKeeps ==
  ASSUME ServerInv, NEW c \in Clients, ParseHead(c)
  PROVE  ServerInv'
<1> DEFINE s == connection[c]
           m == s.leftover[1][2]
           l == IF m = "connect" THEN <<>> ELSE SubSeq(s.leftover, 3, Len(s.leftover))
           x == s.lost \/ (m = "connect" /\ Len(s.leftover) > 2)
           o == s.owed + 1
           b == m = "post"
           t == [s EXCEPT !.leftover = l, !.lost = x, !.method = m, !.unanswered = TRUE,
                          !.owed = o, !.bodyLeft = b, !.phase = "serve"]
<1>1. /\ s \in Connections /\ ConnectionInv(s) /\ s.phase = "head" /\ Len(s.leftover) >= 2
      /\ InStep(s) /\ s.inflight = <<>> /\ AtRest(s) /\ ~s.rejected /\ s.result = "none"
  BY ConnFacts DEF ParseHead, ConnectionInv, InPhase, Buffers, AtRest
<1>2. s.leftover \in Seq(Piece)
  BY <1>1, Parts
<1>3. m \in Methods
  <2>1. s.leftover[1] \in Piece
    BY <1>1, <1>2
  <2> QED BY <2>1 DEF Piece
<1>4. l \in Seq(Piece) /\ (m # "connect" => l = SubSeq(s.leftover, 3, Len(s.leftover)))
  BY <1>1, <1>2
<1>5. x \in BOOLEAN /\ (x => m = "connect")
  BY <1>1 DEF AtRest
<1>6. o \in Int /\ o = 1 /\ b \in BOOLEAN /\ (b <=> m = "post")
  BY <1>1 DEF AtRest
<1>7. Set(c, IF m = "bad" THEN SendError(t) ELSE t)
  BY Zenon DEF ParseHead
<1> HIDE DEF m, l, x, o, b
<1>8. /\ t \in Connections
      /\ t.phase = "serve" /\ t.method = m /\ t.unanswered = TRUE
      /\ t.leftover = l /\ t.inflight = s.inflight /\ t.wire = s.wire /\ t.half = s.half
      /\ t.owed = o /\ t.response = s.response /\ t.queued = s.queued
      /\ t.rejected = s.rejected /\ t.broken = s.broken /\ t.result = s.result
  <2>1. s \in Connections /\ m \in Methods \cup {"none"} /\ l \in Seq(Piece)
        /\ x \in BOOLEAN /\ o \in Int /\ b \in BOOLEAN
    BY <1>1, <1>3, <1>4, <1>5, <1>6
  <2> HIDE DEF s
  <2>2. t \in Connections
    BY <2>1 DEF Connections, Loops
  <2> QED BY <2>1, <2>2 DEF Connections
<1>9. t.lost = x /\ t.bodyLeft = b
  <2>1. s \in Connections /\ x \in BOOLEAN /\ b \in BOOLEAN
    BY <1>1, <1>5, <1>6
  <2> HIDE DEF s
  <2> QED BY <2>1 DEF Connections
<1> HIDE DEF t
<1>10. Serving(t) /\ Buffers(t) /\ InPhase(t) /\ GivenBack(t)
  BY <1>1, <1>5, <1>6, <1>8, <1>9 DEF Serving, Buffers, InPhase, GivenBack, AtRest
<1>11. InStep(t)
  <2> SUFFICES ASSUME m # "connect"
               PROVE  /\ Formed(Unread(t))
                      /\ t.bodyLeft => Unread(t) # <<>> /\ Unread(t)[1][1] = "body"
                      /\ ~t.bodyLeft /\ Unread(t) # <<>> => Unread(t)[1][1] = "line"
    BY <1>8 DEF InStep
  <2> DEFINE u == Unread(s)
             y == Unread(t)
             k == 2
  <2>1. k \in Nat /\ k >= 1 /\ k <= Len(s.leftover) /\ l = SubSeq(s.leftover, k + 1, Len(s.leftover))
    BY <1>1, <1>4
  <2>2. 1 \in 1 .. Len(s.leftover) /\ k = 2
    BY <1>1, <1>2
  <2>3. m = s.leftover[1][2]
    BY DEF m
  <2> HIDE DEF s, k
  <2>4. /\ y = SubSeq(u, k + 1, Len(u)) /\ k <= Len(u)
        /\ \A i \in 1 .. Len(s.leftover) : u[i] = s.leftover[i]
    BY <1>1, <1>8, <2>1, TakenFromLeftover
  <2>5. u[1][2] = m
    BY <2>2, <2>3, <2>4
  <2>6. u \in Seq(Piece) /\ Formed(u) /\ (u # <<>> => u[1][1] = "line")
    BY <1>1, Parts DEF InStep, AtRest
  <2> HIDE DEF u, y
  <2>7. /\ Formed(y)
        /\ y # <<>> => Follows(u[k], y[1])
        /\ y = <<>> => IsEnd(u[k])
    BY <2>1, <2>4, <2>6, SecondPiece
  <2>8. u # <<>> /\ Follows(u[1], u[k])
    <3>1. Len(u) \in Nat /\ Len(u) >= 2
      BY <2>2, <2>4, <2>6
    <3>2. 1 \in 1 .. Len(u) - 1 /\ 1 + 1 = k
      BY <2>2, <3>1
    <3>3. Follows(u[1], u[1 + 1])
      BY <2>6, <3>2 DEF Formed
    <3> QED BY <2>6, <3>1, <3>2, <3>3
  <2>9. u[k] = <<"rest", m>>
    BY <2>5, <2>6, <2>8 DEF Follows
  <2>10. b => y # <<>> /\ y[1][1] = "body"
    BY <1>6, <2>7, <2>9 DEF Follows, IsEnd
  <2>11. ~b /\ y # <<>> => y[1][1] = "line"
    BY <1>6, <2>7, <2>9 DEF Follows
  <2> QED BY <1>9, <2>7, <2>10, <2>11 DEF y
<1>12. ConnectionInv(t)
  BY <1>8, <1>10, <1>11 DEF ConnectionInv
<1>13. ConnectionInv(SendError(t))
  BY <1>8, <1>12, SendErrorKeeps
<1> QED BY <1>7, <1>12, <1>13, SetKeeps

-----------------------------------------------------------------------------
(* The theorems.                                                            *)

\* drain() only makes it easier to hand a connection back.
LEMMA DrainKeeps ==
  ASSUME ServerInv, Drain
  PROVE  ServerInv'
<1>1. connection' = connection /\ draining' = TRUE
  BY DEF Drain
<1>2. ASSUME NEW c \in Clients PROVE ConnectionInv(connection[c])'
  <2>1. ConnectionInv(connection[c])
    BY ConnFacts
  <2> QED BY <1>1, <2>1 DEF ConnectionInv, GivenBack
<1> QED BY <1>1, <1>2 DEF ServerInv

\* Connections that were not accepted yet satisfy the invariant.
LEMMA ServerStart ==
  ASSUME MaxRequests \in [Clients -> Nat], ServerInit
  PROVE  ServerInv
<1>1. ASSUME NEW c \in Clients
      PROVE  connection[c] \in Connections /\ ConnectionInv(connection[c])
  <2> DEFINE k == MaxRequests[c]
             t == [Fresh EXCEPT !.toSend = k]
  <2>1. connection[c] = t /\ k \in Int /\ <<>> \in Seq(Piece)
    BY DEF ServerInit
  <2> HIDE DEF k
  <2>2. /\ t \in Connections /\ t.phase = "new" /\ t.result = "none" /\ ~t.rejected
        /\ t.leftover = <<>> /\ t.inflight = <<>> /\ t.wire = <<>> /\ t.half = <<>>
        /\ AtRest(t)
    <3>1. Fresh \in Connections
      BY <2>1 DEF Fresh, Connections, Loops
    <3>2. /\ Fresh.phase = "new" /\ Fresh.result = "none" /\ ~Fresh.rejected
          /\ Fresh.leftover = <<>> /\ Fresh.inflight = <<>> /\ Fresh.wire = <<>>
          /\ Fresh.half = <<>> /\ AtRest(Fresh)
      BY DEF Fresh, AtRest
    <3> HIDE DEF Fresh
    <3>3. /\ t \in Connections /\ t.phase = Fresh.phase /\ SameAnswer(Fresh, t)
          /\ t.leftover = Fresh.leftover /\ t.inflight = Fresh.inflight
          /\ t.wire = Fresh.wire /\ t.half = Fresh.half
      BY <2>1, <3>1 DEF Connections, SameAnswer
    <3> HIDE DEF t
    <3> QED BY <3>2, <3>3 DEF SameAnswer, AtRest
  <2> HIDE DEF t
  <2>3. <<>> \o <<>> = <<>>
    BY ConcatEmptySeq
  <2>4. Unread(t) = <<>>
    BY <2>2, <2>3 DEF Unread
  <2>5. Formed(<<>>)
    BY DEF Formed
  <2>6. InStep(t)
    BY <2>2, <2>4, <2>5 DEF InStep, AtRest
  <2>7. Buffers(t) /\ InPhase(t) /\ GivenBack(t)
    BY <2>2 DEF Buffers, InPhase, GivenBack
  <2>8. ConnectionInv(t)
    BY <2>2, <2>6, <2>7 DEF ConnectionInv
  <2> QED BY <2>1, <2>2, <2>8
<1>2. connection \in [Clients -> Connections]
  <2> DEFINE f(c) == [Fresh EXCEPT !.toSend = MaxRequests[c]]
  <2>1. connection = [c \in Clients |-> f(c)]
    BY Zenon DEF ServerInit
  <2> HIDE DEF f
  <2> QED BY <1>1, <2>1
<1> QED BY <1>1, <1>2 DEF ServerInv

\* Every step of the server, its service and its clients keeps the invariant.
LEMMA ServerStep ==
  ASSUME MaxRequests \in [Clients -> Nat], ServerInv, [ServerNext]_serverVars
  PROVE  ServerInv'
<1>1. CASE UNCHANGED serverVars
  BY <1>1 DEF serverVars, ServerInv, ConnectionInv, GivenBack
<1>2. ASSUME NEW c \in Clients, Serves(c) PROVE ServerInv'
  <2>1. ASSUME NEW n \in 1 .. (3 * MaxRequests[c]), ReadCompletes(c, n) \/ ReadHead(c, n)
        PROVE  ServerInv'
    <3>1. n \in Nat /\ n >= 1
      OBVIOUS
    <3> QED BY <2>1, <3>1, ReadCompletesKeeps, ReadHeadKeeps
  <2>2. CASE FirstByte(c) \/ DrainSeen(c) \/ Timeout(c) \/ ParseHead(c) \/ GraceEnds(c)
    BY <2>2, FirstByteKeeps, DrainSeenKeeps, TimeoutKeeps, ParseHeadKeeps, GraceEndsKeeps
  <2>3. CASE AwaitEnds(c) \/ HeadEnds(c) \/ GiveUp(c)
    BY <2>3, GivesUpKeeps
  <2> QED BY <1>2, <2>1, <2>2, <2>3 DEF Serves
<1>3. ASSUME NEW c \in Clients, NEW clean \in BOOLEAN, Accept(c, clean) PROVE ServerInv'
  BY <1>3, AcceptKeeps
<1>4. ASSUME NEW c \in Clients,
             \/ ClientSends(c) \/ ClientCloses(c) \/ Disconnected(c) \/ Suspend(c)
             \/ SendResponse(c) \/ EndResponse(c) \/ AcceptUpgrade(c)
             \/ ServiceReturns(c) \/ ServiceThrows(c) \/ LineBreakRead(c) \/ Flush(c)
      PROVE  ServerInv'
  BY <1>4, ClientSendsKeeps, ClientClosesKeeps, GivesUpKeeps, SendResponseKeeps, EndResponseKeeps,
     AcceptUpgradeKeeps, ServiceReturnsKeeps, ServiceThrowsKeeps, LineBreakReadKeeps, FlushKeeps
<1>6. ASSUME NEW c \in Clients, NEW breakLeft \in BOOLEAN, ReadBody(c, breakLeft) PROVE ServerInv'
  BY <1>6, ReadBodyKeeps
<1>5. CASE Drain
  BY <1>5, DrainKeeps
<1> QED BY <1>1, <1>2, <1>3, <1>4, <1>5, <1>6 DEF ServerNext

\* The inductive invariant of a server (Connection::loop(), http.cc): every
\* connection's unread stream is a sequence of whole requests in order,
\* beginning with the body that is left or else with a request, and its flags
\* are those of its phase; for any number of connections and requests.
THEOREM ServerInvariant == ServerSpec => []ServerInv
<1>1. ServerInit => ServerInv
  BY ServerStart, ServerAssumption
<1>2. ServerInv /\ [ServerNext]_serverVars => ServerInv'
  BY ServerStep, ServerAssumption
<1> QED BY <1>1, <1>2, PTL DEF ServerSpec

\* The invariant says that what comes next, the half that is not sent yet left
\* aside, is the first piece of a request.
LEMMA InTurn ==
  ASSUME ServerInv
  PROVE  RequestsAreTakenInTurn
<1> SUFFICES ASSUME NEW c \in Clients, connection[c].phase \in {"await", "head"}
             PROVE  LET s == connection[c] IN
                      /\ s.owed = 0 /\ ~s.queued /\ ~s.bodyLeft /\ ~s.broken
                      /\ LET next == s.leftover \o s.inflight \o s.wire
                         IN  next # <<>> => next[1][1] = "line"
  BY Zenon DEF RequestsAreTakenInTurn
<1> DEFINE s == connection[c]
           n == (s.leftover \o s.inflight) \o s.wire
           a == s.leftover \o s.inflight
           w == s.wire
           h == s.half
<1>1. s \in Connections /\ ConnectionInv(s) /\ AtRest(s) /\ InStep(s)
  BY ConnFacts DEF ConnectionInv, InPhase
<1>2. a \in Seq(Piece) /\ w \in Seq(Piece) /\ h \in Seq(Piece)
  BY <1>1, Parts, ConcatProperties
<1>3. Unread(s) = a \o (w \o h) /\ n = a \o w
  BY DEF Unread
<1>4. Unread(s) # <<>> => Unread(s)[1][1] = "line"
  BY <1>1 DEF InStep, AtRest
<1> HIDE DEF a, w, h, n, s
<1>5. n \in Seq(Piece)
  BY <1>2, <1>3, ConcatProperties
<1>6. (a \o w) \o h = a \o (w \o h)
  BY <1>2, Associates
<1>7. n \o h = Unread(s)
  BY <1>3, <1>6
<1>8. ASSUME n # <<>> PROVE n[1][1] = "line"
  <2>1. Len(n) \in Nat /\ Len(n) >= 1 /\ Len(h) \in Nat
    BY <1>2, <1>5, <1>8, LenProperties
  <2>2. /\ Len(n \o h) = Len(n) + Len(h)
        /\ \A i \in 1 .. Len(n) + Len(h) : (n \o h)[i] = IF i <= Len(n) THEN n[i] ELSE h[i - Len(n)]
    BY <1>2, <1>5, ConcatProperties
  <2>3. (n \o h)[1] = n[1] /\ Len(n \o h) >= 1
    BY <2>1, <2>2
  <2>4. n \o h # <<>>
    BY <2>3
  <2> QED BY <1>4, <1>7, <2>3, <2>4
<1> QED BY <1>1, <1>8 DEF AtRest, n, s

\* Requests are taken in turn (onRequest(), canReuse(), the grace period,
\* http.cc:7276-7404): while a server waits for a head, every earlier request
\* was answered in full and what comes next in the stream is the first piece
\* of a request.
THEOREM TakenInTurn == ServerSpec => []RequestsAreTakenInTurn
<1>1. ServerInv => RequestsAreTakenInTurn
  BY InTurn
<1> QED BY <1>1, ServerInvariant, PTL

\* A connection handed back as usable, but for the rejection of a CONNECT, is
\* one a new server can go on with (listenHttpCleanDrain()).
THEOREM HandedBackClean ==
  ServerSpec => [](\A c \in Clients : GivenBack(connection[c]))
<1>1. ServerInv => \A c \in Clients : GivenBack(connection[c])
  BY DEF ServerInv, ConnectionInv
<1> QED BY <1>1, ServerInvariant, PTL

\* With no CONNECT among the requests every connection handed back is clean:
\* a rejected CONNECT is the only way a loop ends in BREAK_LOOP_CONN_OK with
\* its connection not at rest.
THEOREM CleanWithoutConnect ==
  ASSUME "connect" \notin Methods
  PROVE  ServerSpec => []CleanDrainIsClean
<1>1. ServerInv => CleanDrainIsClean
  <2> SUFFICES ASSUME ServerInv, NEW c \in Clients, connection[c].result = "ok"
               PROVE  LET s == connection[c] IN
                        /\ draining
                        /\ s.owed = 0 /\ ~s.queued /\ ~s.bodyLeft /\ ~s.closeAfterSend
                        /\ s.leftover = <<>> /\ (s.lost => s.timedOut)
    BY Zenon DEF CleanDrainIsClean
  <2>1. connection[c] \in Connections /\ ConnectionInv(connection[c])
    BY ConnFacts
  <2>2. ~connection[c].rejected
    BY <2>1 DEF ConnectionInv, InPhase, Connections
  <2> QED BY <2>1, <2>2 DEF ConnectionInv, GivenBack
<1> QED BY <1>1, ServerInvariant, PTL
=============================================================================
