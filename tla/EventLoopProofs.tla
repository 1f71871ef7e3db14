-------------------------- MODULE EventLoopProofs --------------------------
(***************************************************************************)
(* Proofs about EventLoop, for any set of events, any turn limits and any  *)
(* way of arming: the types, the soundness of the pointers of the          *)
(* intrusive lists, and that the port always knows of queued work.         *)
(***************************************************************************)
EXTENDS EventLoop, TLAPS

Lists == {LoopHead, WouldSleepHead}

QueueType ==
  [at : [Links -> Events \cup {Null}], prev : [Events -> Links \cup {Null}],
   point : [Points -> Links]]

(* A strict partial order on the links. *)
IsOrder(order) ==
  /\ order \in SUBSET (Links \X Links)
  /\ \A a \in Links : <<a, a>> \notin order
  /\ \A a, b, c \in Links : <<a, b>> \in order /\ <<b, c>> \in order => <<a, c>> \in order

(* The inductive invariant on the pointers.  `home` names the list that a link
   belongs to: without it, disarm() might move a point of the queue to a link
   of the would-sleep list.  `order` follows the lists: without it, an event
   might be its own predecessor, and disarm() would leave a point behind. *)
Sound(q, home, order) ==
  /\ q \in QueueType
  /\ home \in [Links -> Lists]
  /\ home[LoopHead] = LoopHead /\ home[WouldSleepHead] = WouldSleepHead
  /\ IsOrder(order)
  /\ \A l \in Links : q.at[l] # Null => q.prev[q.at[l]] = l
  /\ \A e \in Events : q.prev[e] # Null =>
       q.at[q.prev[e]] = e /\ home[e] = home[q.prev[e]] /\ <<q.prev[e], e>> \in order
  /\ \A e \in Events : q.prev[e] = Null => q.at[e] = Null
  /\ \A p \in Points : q.point[p] \in Events => q.prev[q.point[p]] # Null
  /\ \A p \in Points : home[q.point[p]] = IF p = "wouldSleepTail" THEN WouldSleepHead ELSE LoopHead
  /\ q.at[q.point["tail"]] = Null /\ q.at[q.point["wouldSleepTail"]] = Null

SoundQueue(q) == \E home, order : Sound(q, home, order)

(* The types of the parts of a sound queue, as the proofs use them. *)
LEMMA SoundTypes ==
  ASSUME NEW q, NEW home, NEW order, Sound(q, home, order)
  PROVE  /\ q.at \in [Links -> Events \cup {Null}] /\ q.prev \in [Events -> Links \cup {Null}]
         /\ q.point \in [Points -> Links] /\ home \in [Links -> Lists]
  BY DEF Sound, QueueType

(* Putting e right after l in a strict partial order gives another one. *)
LEMMA OrderWithEvent ==
  ASSUME NEW order, IsOrder(order), NEW e \in Links, NEW l \in Links, e # l,
         NEW new,
         new = {p \in Links \X Links :
                  IF p[2] = e THEN p[1] # e /\ (p[1] = l \/ <<p[1], l>> \in order)
                  ELSE IF p[1] = e THEN <<l, p[2]>> \in order
                  ELSE p \in order}
  PROVE  /\ IsOrder(new) /\ <<l, e>> \in new
         /\ \A b \in Links \ {e} : <<l, b>> \in order => <<e, b>> \in new
         /\ \A a, b \in Links \ {e} : <<a, b>> \in order => <<a, b>> \in new
<1>1. \A a, b \in Links : <<a, b>> \in new <=>
        IF b = e THEN a # e /\ (a = l \/ <<a, l>> \in order)
        ELSE IF a = e THEN <<l, b>> \in order
        ELSE <<a, b>> \in order
  OBVIOUS
<1>2. new \in SUBSET (Links \X Links)
  OBVIOUS
<1>3. \A a \in Links : <<a, a>> \notin new
  BY <1>1 DEF IsOrder
<1>4. ASSUME NEW a \in Links, NEW b \in Links, NEW c \in Links,
             <<a, b>> \in new, <<b, c>> \in new
      PROVE  <<a, c>> \in new
  <2>1. CASE b = e
    BY <2>1, <1>1, <1>4 DEF IsOrder
  <2>2. CASE b # e /\ c = e
    BY <2>2, <1>1, <1>4 DEF IsOrder
  <2>3. CASE b # e /\ c # e
    BY <2>3, <1>1, <1>4 DEF IsOrder
  <2> QED BY <2>1, <2>2, <2>3
<1> QED BY <1>1, <1>2, <1>3, <1>4 DEF IsOrder

(* Linking an unarmed event behind a link of a list keeps the pointers sound,
   provided that a tail at that link moves. *)
LEMMA LinkIsSound ==
  ASSUME NEW q, SoundQueue(q),
         NEW e \in Events, q.prev[e] = Null,
         NEW l \in Links, l \in Events => q.prev[l] # Null,
         NEW moving \in SUBSET Points,
         \A p \in {"tail", "wouldSleepTail"} : q.point[p] = l => p \in moving
  PROVE  SoundQueue(Link(q, e, l, moving))
<1>0. PICK home, order : Sound(q, home, order)
  BY DEF SoundQueue
<1> DEFINE r == Link(q, e, l, moving)
           h == [home EXCEPT ![e] = home[l]]
           new == {p \in Links \X Links :
                  IF p[2] = e THEN p[1] # e /\ (p[1] = l \/ <<p[1], l>> \in order)
                  ELSE IF p[1] = e THEN <<l, p[2]>> \in order
                  ELSE p \in order}
<1> USE EventsAssumption DEF Links, Lists
<1>1. /\ q.at \in [Links -> Events \cup {Null}] /\ q.prev \in [Events -> Links \cup {Null}]
      /\ q.point \in [Points -> Links] /\ home \in [Links -> Lists]
  BY <1>0, SoundTypes
<1>2. /\ r.at = [q.at EXCEPT ![e] = q.at[l], ![l] = e]
      /\ r.prev = [x \in Events |-> CASE x = e -> l [] x # e /\ x = q.at[l] -> e [] OTHER -> q.prev[x]]
      /\ r.point = [p \in Points |-> IF p \in moving /\ q.point[p] = l THEN e ELSE q.point[p]]
  BY DEF Link
<1>3. l # e /\ q.at[e] = Null /\ \A p \in Points : q.point[p] # e
  BY <1>0, <1>1 DEF Sound
<1>4. /\ \A k \in Links : r.at[k] = IF k = l THEN e ELSE IF k = e THEN q.at[l] ELSE q.at[k]
      /\ \A x \in Events : r.prev[x] = IF x = e THEN l ELSE IF x = q.at[l] THEN e ELSE q.prev[x]
      /\ \A p \in Points : r.point[p] = IF p \in moving /\ q.point[p] = l THEN e ELSE q.point[p]
      /\ \A k \in Links : h[k] = IF k = e THEN home[l] ELSE home[k]
  BY <1>1, <1>2, <1>3
<1>5. r \in QueueType
  <2>1. r.at \in [Links -> Events \cup {Null}] BY <1>1, <1>2
  <2>2. r.prev \in [Events -> Links \cup {Null}] BY <1>1, <1>2
  <2>3. r.point \in [Points -> Links] BY <1>1, <1>2
  <2> QED BY <2>1, <2>2, <2>3 DEF QueueType, Link
<1>6. h \in [Links -> Lists] /\ h[LoopHead] = LoopHead /\ h[WouldSleepHead] = WouldSleepHead
  BY <1>0, <1>1 DEF Sound
<1>o. /\ IsOrder(new) /\ <<l, e>> \in new
      /\ \A b \in Links \ {e} : <<l, b>> \in order => <<e, b>> \in new
      /\ \A a, b \in Links \ {e} : <<a, b>> \in order => <<a, b>> \in new
  <2>1. IsOrder(order) BY <1>0 DEF Sound
  <2> HIDE DEF Links
  <2>2. e \in Links BY DEF Links
  <2> QED BY <2>1, <2>2, <1>3, OrderWithEvent
<1> HIDE DEF new
<1>7. \A k \in Links : r.at[k] # Null => r.prev[r.at[k]] = k
  BY <1>0, <1>1, <1>3, <1>4 DEF Sound
<1>8. ASSUME NEW x \in Events, r.prev[x] # Null
      PROVE  r.at[r.prev[x]] = x /\ h[x] = h[r.prev[x]] /\ <<r.prev[x], x>> \in new
  <2> x \in Links /\ e \in Links
    OBVIOUS
  <2>1. CASE x = e
    BY <2>1, <1>1, <1>3, <1>4, <1>o
  <2>2. CASE x # e /\ x = q.at[l]
    <3>1. q.prev[x] = l /\ l # Null
      BY <2>2, <1>0, <1>1 DEF Sound
    <3>2. home[x] = home[l] /\ <<l, x>> \in order
      BY <3>1, <1>0 DEF Sound
    <3>3. r.prev[x] = e /\ r.at[e] = x
      BY <2>2, <1>3, <1>4
    <3>4. h[x] = home[l] /\ h[e] = home[l]
      BY <2>2, <3>2, <1>4
    <3>5. <<e, x>> \in new
      BY <2>2, <3>2, <1>o
    <3> QED BY <3>3, <3>4, <3>5
  <2>3. CASE x # e /\ x # q.at[l]
    <3>1. r.prev[x] = q.prev[x] /\ q.prev[x] # Null
      BY <2>3, <1>4, <1>8
    <3>2. q.prev[x] \in Links
      BY <3>1, <1>1
    <3>3. q.at[q.prev[x]] = x /\ home[x] = home[q.prev[x]] /\ <<q.prev[x], x>> \in order
      BY <3>1, <1>0 DEF Sound
    <3>4. q.prev[x] # e /\ q.prev[x] # l
      BY <3>3, <2>3, <1>3
    <3>5. r.at[q.prev[x]] = x /\ h[x] = home[x] /\ h[q.prev[x]] = home[q.prev[x]]
      BY <3>2, <3>3, <3>4, <2>3, <1>4
    <3>6. <<q.prev[x], x>> \in new
      BY <3>2, <3>3, <3>4, <2>3, <1>o
    <3> QED BY <3>1, <3>3, <3>5, <3>6
  <2> QED BY <2>1, <2>2, <2>3
<1>9. \A x \in Events : r.prev[x] = Null => r.at[x] = Null
  BY <1>0, <1>1, <1>3, <1>4 DEF Sound
<1>10. \A p \in Points : r.point[p] \in Events => r.prev[r.point[p]] # Null
  BY <1>0, <1>1, <1>3, <1>4 DEF Sound
<1>11. \A p \in Points : h[r.point[p]] = IF p = "wouldSleepTail" THEN WouldSleepHead ELSE LoopHead
  BY <1>0, <1>1, <1>3, <1>4 DEF Sound
<1>12. r.at[r.point["tail"]] = Null /\ r.at[r.point["wouldSleepTail"]] = Null
  BY <1>0, <1>1, <1>3, <1>4 DEF Sound, Points
<1>13. Sound(r, h, new)
  BY <1>5, <1>6, <1>o, <1>7, <1>8, <1>9, <1>10, <1>11, <1>12 DEF Sound
<1> QED BY <1>13 DEF SoundQueue

(* Cancelling an event, with all points behind it, keeps the pointers sound. *)
LEMMA DisarmIsSound ==
  ASSUME NEW q, SoundQueue(q), NEW e \in Events
  PROVE  SoundQueue(disarm(q, e))
<1> USE EventsAssumption DEF Links, Lists
<1>1. CASE q.prev[e] = Null
  BY <1>1 DEF disarm
<1>2. CASE q.prev[e] # Null
  <2>0. PICK home, order : Sound(q, home, order)
    BY DEF SoundQueue
  <2> DEFINE l == q.prev[e]
             r == Unlink(q, e, l, Points)
  <2>1. /\ q.at \in [Links -> Events \cup {Null}] /\ q.prev \in [Events -> Links \cup {Null}]
        /\ q.point \in [Points -> Links] /\ home \in [Links -> Lists]
    BY <2>0, SoundTypes
  <2>2. /\ l \in Links /\ q.at[l] = e /\ home[l] = home[e] /\ <<l, e>> \in order
        /\ q.at[e] # Null => q.prev[q.at[e]] = e /\ <<e, q.at[e]>> \in order /\ home[q.at[e]] = home[e]
        /\ l \in Events => q.prev[l] # Null
    BY <2>0, <2>1, <1>2 DEF Sound
  <2>3. l # e /\ q.at[e] # e /\ (q.at[e] # Null => <<l, q.at[e]>> \in order)
    BY <2>0, <2>1, <2>2 DEF Sound, IsOrder
  <2>4. /\ r.at = [q.at EXCEPT ![l] = q.at[e], ![e] = Null]
        /\ r.prev = [x \in Events |-> CASE x = e -> Null [] x # e /\ x = q.at[e] -> l
                                        [] OTHER -> q.prev[x]]
        /\ r.point = [p \in Points |-> IF p \in Points /\ q.point[p] = e THEN l ELSE q.point[p]]
    BY DEF Unlink
  <2> HIDE DEF l, r
  <2>5. /\ \A k \in Links : r.at[k] = IF k = e THEN Null ELSE IF k = l THEN q.at[e] ELSE q.at[k]
        /\ \A x \in Events : r.prev[x] = IF x = e THEN Null ELSE IF x = q.at[e] THEN l ELSE q.prev[x]
        /\ \A p \in Points : r.point[p] = IF q.point[p] = e THEN l ELSE q.point[p]
    BY <2>1, <2>2, <2>3, <2>4
  <2>6. r \in QueueType
    <3>1. r.at \in [Links -> Events \cup {Null}] BY <2>1, <2>2, <2>4
    <3>2. r.prev \in [Events -> Links \cup {Null}] BY <2>1, <2>2, <2>4
    <3>3. r.point \in [Points -> Links] BY <2>1, <2>2, <2>4
    <3> QED BY <3>1, <3>2, <3>3 DEF QueueType, r, Unlink
  <2>7. \A k \in Links : r.at[k] # Null => r.prev[r.at[k]] = k
    BY <2>0, <2>1, <2>2, <2>3, <2>5 DEF Sound
  <2>8. ASSUME NEW x \in Events, r.prev[x] # Null
        PROVE  r.at[r.prev[x]] = x /\ home[x] = home[r.prev[x]] /\ <<r.prev[x], x>> \in order
    <3>1. CASE x = q.at[e]
      BY <3>1, <2>1, <2>2, <2>3, <2>5, <2>8
    <3>2. CASE x # q.at[e]
      <4>1. r.prev[x] = q.prev[x] /\ q.prev[x] # Null /\ x # e
        BY <3>2, <2>5, <2>8
      <4>2. q.prev[x] \in Links
        BY <4>1, <2>1
      <4>3. q.at[q.prev[x]] = x /\ home[x] = home[q.prev[x]] /\ <<q.prev[x], x>> \in order
        BY <4>1, <2>0 DEF Sound
      <4>4. q.prev[x] # e /\ q.prev[x] # l
        BY <4>1, <4>3, <3>2, <2>2
      <4>5. r.at[q.prev[x]] = x
        BY <4>2, <4>3, <4>4, <2>5
      <4> QED BY <4>1, <4>3, <4>5
    <3> QED BY <3>1, <3>2
  <2>9. \A x \in Events : r.prev[x] = Null => r.at[x] = Null
    BY <2>0, <2>1, <2>2, <2>3, <2>5 DEF Sound
  <2>10. \A p \in Points : r.point[p] \in Events => r.prev[r.point[p]] # Null
    BY <2>0, <2>1, <2>2, <2>3, <2>5 DEF Sound
  <2>11. \A p \in Points : home[r.point[p]] = IF p = "wouldSleepTail" THEN WouldSleepHead ELSE LoopHead
    BY <2>0, <2>1, <2>2, <2>3, <2>5 DEF Sound
  <2>12. r.at[r.point["tail"]] = Null /\ r.at[r.point["wouldSleepTail"]] = Null
    BY <2>0, <2>1, <2>2, <2>3, <2>5 DEF Sound, Points
  <2>13. Sound(r, home, order)
    BY <2>0, <2>6, <2>7, <2>8, <2>9, <2>10, <2>11, <2>12 DEF Sound
  <2>14. disarm(q, e) = r
    BY <1>2 DEF disarm, r, l
  <2> QED BY <2>13, <2>14 DEF SoundQueue
<1> QED BY <1>1, <1>2

(* After disarm() the event is not armed, and an empty queue is still empty. *)
LEMMA DisarmEffect ==
  ASSUME NEW q, SoundQueue(q), NEW e \in Events
  PROVE  /\ disarm(q, e).prev[e] = Null
         /\ q.at[LoopHead] = Null => disarm(q, e).at[LoopHead] = Null
<1>0. PICK home, order : Sound(q, home, order)
  BY DEF SoundQueue
<1>1. q.at \in [Links -> Events \cup {Null}] /\ q.prev \in [Events -> Links \cup {Null}]
  BY <1>0, SoundTypes
<1>2. CASE q.prev[e] = Null
  BY <1>2 DEF disarm
<1>3. CASE q.prev[e] # Null
  <2>1. disarm(q, e) = Unlink(q, e, q.prev[e], Points)
    BY <1>3 DEF disarm
  <2>2. disarm(q, e).prev[e] = Null
    BY <2>1 DEF Unlink
  <2>3. disarm(q, e).at = [q.at EXCEPT ![q.prev[e]] = q.at[e], ![e] = Null]
    BY <2>1 DEF Unlink
  <2>4. q.prev[e] = LoopHead => q.at[LoopHead] = e
    BY <1>0, <1>3 DEF Sound
  <2> QED BY <2>2, <2>3, <2>4, <1>1, EventsAssumption DEF Links
<1> QED BY <1>2, <1>3

(* The insert points of a sound queue are links of the right list. *)
LEMMA PointsOfSound ==
  ASSUME NEW q, SoundQueue(q)
  PROVE  /\ \A p \in Points : /\ q.point[p] \in Links
                              /\ q.point[p] \in Events => q.prev[q.point[p]] # Null
         /\ \A p \in Points \ {"wouldSleepTail"} :
              q.point[p] # WouldSleepHead /\ q.point[p] # q.point["wouldSleepTail"]
         /\ q.point["wouldSleepTail"] # LoopHead
<1>0. PICK home, order : Sound(q, home, order)
  BY DEF SoundQueue
<1>1. q.point \in [Points -> Links]
  BY <1>0, SoundTypes
<1>2. \A p \in Points : home[q.point[p]] = IF p = "wouldSleepTail" THEN WouldSleepHead ELSE LoopHead
  BY <1>0 DEF Sound
<1>3. home[LoopHead] = LoopHead /\ home[WouldSleepHead] = WouldSleepHead
  BY <1>0 DEF Sound
<1>4. \A p \in Points : q.point[p] \in Events => q.prev[q.point[p]] # Null
  BY <1>0 DEF Sound
<1>5. "wouldSleepTail" \in Points
  BY DEF Points
<1> QED BY <1>1, <1>2, <1>3, <1>4, <1>5, EventsAssumption

(* Each way of arming keeps the pointers sound. *)
LEMMA ArmIsSound ==
  ASSUME NEW q, SoundQueue(q), NEW e \in Events, q.prev[e] = Null,
         NEW kind \in {"depthFirst", "breadthFirst", "last", "wouldSleep"}
  PROVE  SoundQueue(arm(q, e, kind))
<1>1. CASE kind = "depthFirst"
  <2>1. arm(q, e, kind) = Link(q, e, q.point["depthFirst"], {"depthFirst", "breadthFirst", "tail"})
    BY <1>1 DEF arm, armDepthFirst
  <2> QED BY <2>1, PointsOfSound, LinkIsSound DEF Points
<1>2. CASE kind = "breadthFirst"
  <2>1. arm(q, e, kind) = Link(q, e, q.point["breadthFirst"], {"breadthFirst", "tail"})
    BY <1>2 DEF arm, armBreadthFirst
  <2> QED BY <2>1, PointsOfSound, LinkIsSound DEF Points
<1>3. CASE kind = "last"
  <2>1. arm(q, e, kind) = Link(q, e, q.point["breadthFirst"], {"tail"})
    BY <1>3 DEF arm, armLast
  <2> QED BY <2>1, PointsOfSound, LinkIsSound DEF Points
<1>4. CASE kind = "wouldSleep"
  <2>1. arm(q, e, kind) = Link(q, e, WouldSleepHead, {"wouldSleepTail"})
    BY <1>4 DEF arm, armWhenWouldSleep
  <2>2. WouldSleepHead \in Links /\ WouldSleepHead \notin Events
    BY EventsAssumption DEF Links
  <2> QED BY <2>1, <2>2, PointsOfSound, LinkIsSound DEF Points
<1> QED BY <1>1, <1>2, <1>3, <1>4

(* Resetting the depth-first insert point keeps the pointers sound. *)
LEMMA ResetIsSound ==
  ASSUME NEW q, SoundQueue(q)
  PROVE  SoundQueue([q EXCEPT !.point["depthFirst"] = LoopHead])
<1>0. PICK home, order : Sound(q, home, order)
  BY DEF SoundQueue
<1> DEFINE r == [q EXCEPT !.point["depthFirst"] = LoopHead]
<1>1. q \in QueueType /\ q.point \in [Points -> Links] /\ "depthFirst" \in Points
  BY <1>0 DEF Sound, QueueType, Points
<1>2. r \in QueueType /\ r.at = q.at /\ r.prev = q.prev
  BY <1>1 DEF QueueType, Links
<1>3. \A p \in Points : r.point[p] = IF p = "depthFirst" THEN LoopHead ELSE q.point[p]
  BY <1>1 DEF QueueType
<1>4. LoopHead \notin Events
  BY EventsAssumption
<1>5. Sound(r, home, order)
  BY <1>0, <1>2, <1>3, <1>4 DEF Sound, Points
<1> QED BY <1>5 DEF SoundQueue

(* Taking the first event from the queue keeps the pointers sound: it is a
   disarm() followed by a reset of the depth-first insert point. *)
LEMMA PopIsSound ==
  ASSUME NEW q, SoundQueue(q), q.at[LoopHead] # Null
  PROVE  SoundQueue(pop(q)) /\ q.at[LoopHead] \in Events
<1>0. PICK home, order : Sound(q, home, order)
  BY DEF SoundQueue
<1> DEFINE e == q.at[LoopHead]
           d == Unlink(q, e, LoopHead, Points)
           u == Unlink(q, e, LoopHead, {"breadthFirst", "tail"})
<1>1. LoopHead \in Links
  BY DEF Links
<1>2. e \in Events /\ q.prev[e] = LoopHead
  BY <1>0, <1>1, SoundTypes DEF Sound
<1>3. disarm(q, e) = d
  BY <1>1, <1>2, EventsAssumption DEF disarm
<1>4. q.point["wouldSleepTail"] # e
  BY <1>0, <1>1, <1>2, EventsAssumption DEF Sound, Points
<1>5. [d EXCEPT !.point["depthFirst"] = LoopHead] = [u EXCEPT !.point["depthFirst"] = LoopHead]
  <2>1. d.at = u.at /\ d.prev = u.prev
    BY DEF Unlink
  <2>2. [d.point EXCEPT !["depthFirst"] = LoopHead] = [u.point EXCEPT !["depthFirst"] = LoopHead]
    BY <1>4 DEF Unlink, Points
  <2> QED BY <2>1, <2>2 DEF Unlink
<1>6. pop(q) = [disarm(q, e) EXCEPT !.point["depthFirst"] = LoopHead]
  BY <1>3, <1>5 DEF pop
<1>7. SoundQueue(disarm(q, e))
  BY <1>2, DisarmIsSound
<1> QED BY <1>2, <1>6, <1>7, ResetIsSound

(* The types and counters besides the queue.  A turn has begun within the
   limit, which TurnEnds needs. *)
ControlInv ==
  /\ runnable \in BOOLEAN /\ wakeable \in BOOLEAN /\ fired \in BOOLEAN
  /\ pc \in {"app", "next", "fire", "turned", "polling", "waiting"}
  /\ call \in {"none", "run", "poll", "wait", "pollImpl"}
  /\ limit \in Nat /\ turns \in Nat /\ turns <= limit
  /\ limit <= MaxTurnCount + BusyPollInterval
  /\ pc \in {"fire", "turned"} /\ call \in {"run", "poll"} => turns < limit
  /\ pc # "app" => call # "none"
  /\ root \in Events \cup {Null} /\ currentlyFiring \in Events \cup {Null}
  /\ eventToDestroy \in Events \cup {Null}

LoopInv == SoundQueue(queue) /\ ControlInv /\ WorkIsReported

(* The empty queue is sound. *)
LEMMA InitIsSound == Init => LoopInv
<1> SUFFICES ASSUME Init PROVE LoopInv
  OBVIOUS
<1> USE EventsAssumption, LoopAssumption
<1>1. SoundQueue(queue)
  <2> DEFINE home == [l \in Links |-> IF l = WouldSleepHead THEN WouldSleepHead ELSE LoopHead]
  <2>1. queue.at = [l \in Links |-> Null] /\ queue.prev = [e \in Events |-> Null]
        /\ queue.point = [p \in Points |-> IF p = "wouldSleepTail" THEN WouldSleepHead ELSE LoopHead]
    BY DEF Init
  <2>2. LoopHead \in Links /\ WouldSleepHead \in Links
    BY DEF Links
  <2>3. queue \in QueueType
    BY <2>2 DEF Init, QueueType
  <2>4. IsOrder({})
    BY DEF IsOrder
  <2>5. home \in [Links -> Lists]
    BY <2>2 DEF Lists
  <2>6. /\ \A l \in Links : queue.at[l] = Null
        /\ \A e \in Events : queue.prev[e] = Null
        /\ \A p \in Points : queue.point[p] = IF p = "wouldSleepTail" THEN WouldSleepHead ELSE LoopHead
        /\ home[LoopHead] = LoopHead /\ home[WouldSleepHead] = WouldSleepHead
    BY <2>1, <2>2
  <2>7. Events \subseteq Links /\ "tail" \in Points /\ "wouldSleepTail" \in Points
    BY DEF Links, Points
  <2> HIDE DEF home
  <2>8. Sound(queue, home, {})
    BY <2>2, <2>3, <2>4, <2>5, <2>6, <2>7 DEF Sound
  <2> QED BY <2>8 DEF SoundQueue
<1>2. 0 \in Nat /\ 0 <= 0 /\ 0 <= MaxTurnCount + BusyPollInterval
  OBVIOUS
<1>3. ControlInv
  BY <1>2, Zenon DEF Init, ControlInv
<1>4. WorkIsReported
  BY DEF Init, WorkIsReported, isRunnable, Links
<1> QED BY <1>1, <1>3, <1>4 DEF LoopInv

(* A loop begins without touching the queue, or after arming its root event. *)
LEMMA EnterKeepsInv ==
  ASSUME LoopInv, NEW max \in 0..(MaxTurnCount + BusyPollInterval),
         NEW name \in {"run", "poll", "wait", "pollImpl"}, NEW event \in Events \cup {Null},
         Enter(name, max, event), UNCHANGED <<queue, runnable>> \/ AwaitRoot(event),
         event = Null => UNCHANGED <<queue, runnable>>
  PROVE  LoopInv'
<1> USE LoopAssumption
<1>1. ControlInv'
  <2>1. max \in Nat /\ 0 \in Nat /\ 0 <= max /\ max <= MaxTurnCount + BusyPollInterval
    OBVIOUS
  <2>2. runnable' \in BOOLEAN
    BY Zenon DEF LoopInv, ControlInv, AwaitRoot
  <2>3. name # "none" /\ name \in {"none", "run", "poll", "wait", "pollImpl"}
    OBVIOUS
  <2> QED BY <2>1, <2>2, <2>3, Zenon DEF LoopInv, ControlInv, Enter, turn
<1>2. CASE UNCHANGED <<queue, runnable>>
  BY <1>1, <1>2 DEF LoopInv, WorkIsReported, isRunnable
<1>3. CASE event \in Events /\ AwaitRoot(event) /\ ~UNCHANGED <<queue, runnable>>
  <2>1. PICK kind \in Kinds : queue' = arm(queue, event, kind) /\ runnable' = TRUE
    BY <1>3 DEF AwaitRoot
  <2>2. SoundQueue(arm(queue, event, kind))
    BY <1>3, ArmIsSound DEF LoopInv, AwaitRoot, Armed
  <2> QED BY <1>1, <2>1, <2>2 DEF LoopInv, WorkIsReported
<1> QED BY <1>2, <1>3

(* Every step keeps the invariant. *)
LEMMA StepKeepsInv == LoopInv /\ [Next]_vars => LoopInv'
<1> SUFFICES ASSUME LoopInv, [Next]_vars PROVE LoopInv'
  OBVIOUS
<1> USE LoopAssumption
<1>1. ASSUME NEW e \in Events, NEW kind \in Kinds, Arm(e, kind)
      PROVE  LoopInv'
  <2>1. SoundQueue(queue')
    BY <1>1, ArmIsSound DEF LoopInv, Arm, Armed
  <2>2. ControlInv'
    BY <1>1 DEF LoopInv, ControlInv, Arm, loop, turn
  <2> QED BY <1>1, <2>1, <2>2 DEF LoopInv, Arm, WorkIsReported
<1>2. ASSUME NEW e \in Events, Disarm(e)
      PROVE  LoopInv'
  <2>1. SoundQueue(queue') /\ (queue.at[LoopHead] = Null => queue'.at[LoopHead] = Null)
    BY <1>2, DisarmIsSound, DisarmEffect DEF LoopInv, Disarm
  <2>2. ControlInv'
    BY <1>2 DEF LoopInv, ControlInv, Disarm, loop, turn
  <2> QED BY <1>2, <2>1, <2>2 DEF LoopInv, Disarm, WorkIsReported, isRunnable
<1>3. ASSUME NEW e \in Events, waitImpl(e) \/ pollImpl(e)
      PROVE  LoopInv'
  <2>1. CASE waitImpl(e)
    BY <2>1, EnterKeepsInv, EventsAssumption DEF waitImpl, Links
  <2>2. CASE pollImpl(e)
    BY <2>2, EnterKeepsInv, EventsAssumption DEF pollImpl, Links
  <2> QED BY <1>3, <2>1, <2>2
<1>4. ASSUME NEW max \in 0..MaxTurnCount, run(max) \/ poll(max)
      PROVE  LoopInv'
  <2>1. max \in 0..(MaxTurnCount + BusyPollInterval)
    OBVIOUS
  <2>2. CASE run(max)
    BY <2>1, <2>2, EnterKeepsInv DEF run
  <2>3. CASE poll(max)
    BY <2>1, <2>3, EnterKeepsInv DEF poll
  <2> QED BY <1>4, <2>2, <2>3
<1>5. CASE Fire
  <2>1. SoundQueue(queue') /\ queue.at[LoopHead] \in Events
    BY <1>5, PopIsSound DEF LoopInv, Fire, isRunnable
  <2>2. ControlInv'
    BY <1>5, <2>1 DEF LoopInv, ControlInv, Fire, Continues, loop
  <2>3. WorkIsReported'
    BY <1>5 DEF LoopInv, Fire, WorkIsReported
  <2> QED BY <2>1, <2>2, <2>3 DEF LoopInv
<1>6. ASSUME NEW returned, FireEnds(returned)
      PROVE  LoopInv'
  <2>1. SoundQueue(queue')
    BY <1>6, ResetIsSound DEF LoopInv, FireEnds
  <2>2. queue'.at = queue.at
    BY <1>6 DEF LoopInv, SoundQueue, Sound, QueueType, FireEnds
  <2>3. ControlInv'
    BY <1>6 DEF LoopInv, ControlInv, FireEnds
  <2> QED BY <1>6, <2>1, <2>2, <2>3 DEF LoopInv, FireEnds, WorkIsReported, isRunnable
<1>7. CASE TurnEnds
  <2>1. SoundQueue(queue') /\ (queue.at[LoopHead] = Null => queue'.at[LoopHead] = Null)
    BY <1>7, DisarmIsSound, DisarmEffect DEF LoopInv, ControlInv, TurnEnds
  <2>2. ControlInv'
    BY <1>7 DEF LoopInv, ControlInv, TurnEnds
  <2> QED BY <1>7, <2>1, <2>2 DEF LoopInv, TurnEnds, WorkIsReported, isRunnable
<1>8. ASSUME NEW state \in BOOLEAN, Leave(state), pc # "app", UNCHANGED queue, isRunnable => state
      PROVE  LoopInv'
  <2>1. 0 \in Nat /\ 0 <= 0 /\ 0 <= MaxTurnCount + BusyPollInterval
    OBVIOUS
  <2>2. ControlInv'
    BY <1>8, <2>1, Zenon DEF LoopInv, ControlInv, Leave, turn
  <2> QED BY <1>8, <2>2 DEF LoopInv, Leave, WorkIsReported, isRunnable
<1>9. CASE Return
  BY <1>9, <1>8 DEF LoopInv, ControlInv, Return, isRunnable, WorkIsReported
<1>10. CASE RunOutOfEvents
  BY <1>10, <1>8 DEF LoopInv, ControlInv, RunOutOfEvents
<1>11. CASE EnterPort
  BY <1>11 DEF LoopInv, ControlInv, EnterPort, turn, WorkIsReported, isRunnable
<1>12. CASE WaitFails
  BY <1>12, <1>8 DEF LoopInv, ControlInv, WaitFails
<1>13. CASE PollEnds
  <2> DEFINE sleeper == queue.at[WouldSleepHead]
             awaken == ~isRunnable /\ sleeper # Null
  <2>1. CASE awaken
    <3>1. sleeper \in Events
      BY <2>1, SoundTypes DEF LoopInv, SoundQueue, Links
    <3>2. SoundQueue(disarm(queue, sleeper)) /\ disarm(queue, sleeper).prev[sleeper] = Null
      BY <3>1, DisarmIsSound, DisarmEffect DEF LoopInv
    <3>3. SoundQueue(arm(disarm(queue, sleeper), sleeper, "depthFirst"))
      BY <3>1, <3>2, ArmIsSound
    <3>4. queue' = armDepthFirst(disarm(queue, sleeper), sleeper) /\ runnable' = TRUE
      BY <1>13, <2>1 DEF PollEnds
    <3>5. SoundQueue(queue')
      BY <3>3, <3>4 DEF arm
    <3>6. ControlInv'
      BY <1>13, <2>1, <3>4 DEF PollEnds, LoopInv, ControlInv, loop, turn
    <3> QED BY <3>4, <3>5, <3>6 DEF LoopInv, WorkIsReported
  <2>2. CASE ~awaken /\ pc' = "next"
    <3>1. UNCHANGED <<queue, pc, loop, turn>> \/ (UNCHANGED <<queue, runnable, loop, turn>> /\ pc' = "next")
      BY <1>13, <2>2 DEF PollEnds, Leave, LoopInv, ControlInv
    <3> QED BY <1>13, <2>2, <3>1 DEF PollEnds, LoopInv, ControlInv, loop, turn, WorkIsReported, isRunnable
  <2>3. CASE ~awaken /\ pc' # "next"
    BY <1>13, <2>3, <1>8 DEF PollEnds, LoopInv, ControlInv
  <2> QED BY <2>1, <2>2, <2>3
<1>14. CASE WaitEnds
  BY <1>14 DEF LoopInv, ControlInv, WaitEnds, loop, turn, WorkIsReported, isRunnable
<1>16. CASE getExecutor
  BY <1>16 DEF LoopInv, ControlInv, getExecutor, turn, WorkIsReported, isRunnable
<1>15. CASE UNCHANGED vars
  BY <1>15 DEF LoopInv, ControlInv, vars, WorkIsReported, isRunnable
<1> QED
  BY <1>1, <1>2, <1>3, <1>4, <1>5, <1>6, <1>7, <1>9, <1>10, <1>11, <1>12, <1>13, <1>14, <1>15, <1>16
     DEF Next

(* The invariant holds throughout. *)
THEOREM LoopInvariant == Spec => []LoopInv
  BY InitIsSound, StepKeepsInv, PTL DEF Spec

(* The event loop is type correct (EventLoop in async.h:1235-1265). *)
THEOREM TypeCorrect == Spec => []TypeOK
<1>1. LoopInv => TypeOK
  <2> SUFFICES ASSUME LoopInv PROVE TypeOK
    OBVIOUS
  <2>1. queue \in QueueType
    BY DEF LoopInv, SoundQueue, Sound
  <2> QED BY <2>1, LoopAssumption DEF LoopInv, ControlInv, TypeOK, QueueType
<1> QED BY <1>1, LoopInvariant, PTL

(* The pointers of the intrusive lists agree and the insert points address
   live fields of their own list, whatever the program arms, cancels and
   destroys, and whenever (async.cc, Event::arm*, Event::disarm,
   EventLoop::turn, EventLoop::poll). *)
THEOREM PointersCorrect == Spec => []PointersAreSound
<1>1. LoopInv => PointersAreSound
  <2> SUFFICES ASSUME LoopInv PROVE PointersAreSound
    OBVIOUS
  <2>1. PICK home, order : Sound(queue, home, order)
    BY DEF LoopInv, SoundQueue
  <2>2. SoundQueue(queue)
    BY DEF LoopInv
  <2> QED BY <2>1, <2>2, PointsOfSound DEF Sound, PointersAreSound, Armed
<1> QED BY <1>1, LoopInvariant, PTL

(* Queued work is always reported to the port (EventLoop::setRunnable). *)
THEOREM WorkReported == Spec => []WorkIsReported
<1>1. LoopInv => WorkIsReported
  BY DEF LoopInv
<1> QED BY <1>1, LoopInvariant, PTL

=============================================================================
