--------------------------- MODULE EventSchedule ---------------------------
(***************************************************************************)
(* What Event promises about the order in which armed events fire          *)
(* (libraries/zc/async/async-inl.h, class Event; async.h, evalLater,       *)
(* evalLast, yieldUntilWouldSleep).                                        *)
(*                                                                         *)
(* The queue has three parts.  What the current callback arms depth-first  *)
(* runs next, in the order of arming; what is armed breadth-first runs     *)
(* after everything armed so before it; what is armed last runs when       *)
(* nothing else is left, the latest first.  A separate list waits for the  *)
(* moment when the thread would sleep.                                     *)
(***************************************************************************)
EXTENDS Sequences, SequencesExt

CONSTANTS Events, Null

VARIABLES
  deep,      \* armed depth-first since the current turn began
  wide,      \* the rest, up to the breadth-first insert point
  last,      \* armed last
  asleep,    \* armed for when the loop would sleep
  firing     \* the event whose callback runs, or Null

vars == <<deep, wide, last, asleep, firing>>

Armed(e) == \E s \in {deep, wide, last, asleep} : Contains(s, e)

Init == deep = <<>> /\ wide = <<>> /\ last = <<>> /\ asleep = <<>> /\ firing = Null

ArmDepthFirst(e) ==
  ~Armed(e) /\ deep' = Append(deep, e) /\ UNCHANGED <<wide, last, asleep, firing>>

ArmBreadthFirst(e) ==
  ~Armed(e) /\ wide' = Append(wide, e) /\ UNCHANGED <<deep, last, asleep, firing>>

ArmLast(e) ==
  ~Armed(e) /\ last' = <<e>> \o last /\ UNCHANGED <<deep, wide, asleep, firing>>

ArmWhenWouldSleep(e) ==
  ~Armed(e) /\ asleep' = <<e>> \o asleep /\ UNCHANGED <<deep, wide, last, firing>>

Without(s, e) == SelectSeq(s, LAMBDA x : x # e)

(* Cancels e; the order of the others stays as it is. *)
Disarm(e) ==
  /\ Armed(e)
  /\ deep' = Without(deep, e) /\ wide' = Without(wide, e)
  /\ last' = Without(last, e) /\ asleep' = Without(asleep, e)
  /\ UNCHANGED firing

(* The first event starts; an event armed last only if there is no other. *)
Fire ==
  LET ahead == deep \o wide IN
  /\ firing = Null
  /\ ahead \o last # <<>>
  /\ firing' = Head(ahead \o last)
  /\ deep' = <<>>
  /\ IF ahead # <<>> THEN wide' = Tail(ahead) /\ UNCHANGED last
                     ELSE wide' = <<>> /\ last' = Tail(last)
  /\ UNCHANGED asleep

(* Once the callback is over, what it armed depth-first is no longer put
   before by what is armed depth-first later: the next such event comes first. *)
FireEnds ==
  /\ firing # Null
  /\ firing' = Null
  /\ deep' = <<>> /\ wide' = deep \o wide
  /\ UNCHANGED <<last, asleep>>

(* With an empty queue the latest sleeper gets its turn. *)
Awaken ==
  /\ firing = Null
  /\ deep \o wide \o last = <<>> /\ asleep # <<>>
  /\ deep' = <<Head(asleep)>> /\ asleep' = Tail(asleep)
  /\ UNCHANGED <<wide, last, firing>>

Next ==
  \/ \E e \in Events : ArmDepthFirst(e) \/ ArmBreadthFirst(e) \/ ArmLast(e)
                       \/ ArmWhenWouldSleep(e) \/ Disarm(e)
  \/ Fire \/ FireEnds \/ Awaken

Spec == Init /\ [][Next]_vars
=============================================================================
