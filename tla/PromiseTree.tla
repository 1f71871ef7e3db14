---------------------------- MODULE PromiseTree ----------------------------
(***************************************************************************)
(* The promise nodes of zc/async (async-inl.h, async.cc): how joins,       *)
(* races, chains, forks, continuations and eager evaluation pass readiness *)
(* up and pull results down, and what each of them destroys on the way.    *)
(*                                                                         *)
(* An expression over promises is a graph of nodes.  A node owns its       *)
(* dependencies; a dependency pointer is a link <<n, i>> and setting it to *)
(* nullptr adds the link to `cut`.  A node that is an Event, or has one    *)
(* per branch, has its events on the same links.  The queue of the event   *)
(* loop is modelled by its set of armed events: any of them may fire next, *)
(* which covers every order EventLoop can produce.                         *)
(***************************************************************************)
EXTENDS Naturals, Sequences, FiniteSets

CONSTANTS
  \* The expressions considered: records [kind, kids], both functions on the
  \* nodes 1 .. k.  Node 1 is the root and a kid has a larger number.  Kinds:
  \*   leaf                    a promise fulfilled or rejected from outside
  \*   map, catch, throw       then() with a plain continuation, with an error
  \*                           handler that recovers, with a failing one
  \*   attach                  attach()
  \*   chain                   then() returning a promise: kid 1 yields kid 2
  \*   exclusive               exclusiveJoin(), two kids
  \*   all, failfast, race     joinPromises(), joinPromisesFailFast(),
  \*                           raceSuccessful()
  \*   eager                   eagerlyEvaluate()
  \*   hub, branch             fork() and addBranch(); branches share a hub
  Trees

VARIABLES
  tree,    \* the expression
  leaf,    \* what became of each leaf: "pending", "ok", "fail"
  cut,     \* links whose OwnPromiseNode is null
  armed,   \* links whose Event is in the queue
  ready,   \* nodes whose OnReadyEvent is _kJ_ALREADY_READY
  order,   \* the links of a node whose Event has fired, in that order
  out,     \* output, result or resultRef of a node that stores one
  part,    \* branch.output of an ArrayJoinPromiseNode's branches, by link
  ran,     \* how often the continuation of a node was called
  got,     \* the result the consumer of the root received
  broken   \* an assertion of the code failed or a null pointer was followed

promiseVars == <<tree, leaf, cut, armed, ready, order, out, part, ran, got, broken>>

Nodes == DOMAIN tree.kind
Kind(n) == tree.kind[n]
Kids(n) == tree.kids[n]
Links == UNION {{<<n, i>> : i \in DOMAIN Kids(n)} : n \in Nodes}
Kid(l) == Kids(l[1])[l[2]]
Root == 1

\* ExceptionOrValue: a value (the leaves it was made of), an exception (the
\* node that raised it), or neither.
None == 0
Empty == [val |-> << >>, exc |-> None]
Value(v) == [val |-> v, exc |-> None]
Failure(e) == [val |-> << >>, exc |-> e]
\* addException(): the first exception stays.
AddException(o, e) == [o EXCEPT !.exc = IF o.exc = None THEN e ELSE o.exc]

Continuations == {"map", "catch", "throw"}
Passing == Continuations \cup {"attach"}
Joins == {"exclusive", "all", "failfast", "race"}

-----------------------------------------------------------------------------
\* Ownership: the nodes that exist are those reachable over links that are not
\* cut.  A hub lives as long as one of its branches.
Alive(cuts) ==
  LET owned[n \in Nodes] ==
        \/ n = Root
        \/ \E l \in Links \ cuts : Kid(l) = n /\ owned[l[1]]
  IN  {n \in Nodes : owned[n]}

\* The links that carry an Event: the branches of a join, and the single
\* dependency of a node that is itself an Event.  A chain's is on its first
\* link only; the second is adopted without one.
EventLinks == {l \in Links : \/ Kind(l[1]) \in Joins \cup {"eager", "hub"}
                             \/ Kind(l[1]) = "chain" /\ l[2] = 1}

\* A chain in STEP2: its event has fired.
Step2(n, fired) == fired[n] # << >>

\* Whether onReady() of a node arms the event it is given at once.
IsReady(leaves, rdy, fired, outs) ==
  LET f[n \in Nodes] ==
        CASE Kind(n) = "leaf" -> leaves[n] # "pending"
          [] Kind(n) \in Passing -> f[Kids(n)[1]]
          [] Kind(n) = "chain" ->
               Step2(n, fired) /\ (outs[n].exc # None \/ f[Kids(n)[2]])
          [] Kind(n) = "branch" -> Kids(n)[1] \in rdy
          [] OTHER -> n \in rdy
  IN  {n \in Nodes : f[n]}

ReadyNow == IsReady(leaf, ready, order, out)

\* Events follow readiness: one is armed when what it waits for becomes ready,
\* or is built ready, and dies with its owner.
Rearm(rest) ==
  LET alive == Alive(cut')
      was   == Alive(cut)
      now   == IsReady(leaf', ready', order', out')
      then  == ReadyNow
  IN  armed' = {l \in rest \cup {l \in EventLinks \ cut' :
                                   /\ Kid(l) \in now
                                   /\ Kid(l) \notin then \/ l[1] \notin was
                                   /\ \A i \in DOMAIN order'[l[1]] : order'[l[1]][i] # l[2]} :
                  l[1] \in alive}

-----------------------------------------------------------------------------
\* PromiseNode::get(): what node n leaves in an output that held `in`, the
\* continuations it runs, the links it cuts, and whether it followed a null
\* pointer.  Nodes that assign the whole output forget `in`; joins and races
\* only add to it.
Yields(o) == [out |-> o, runs |-> << >>, cuts |-> {}, bad |-> FALSE]

RECURSIVE Get(_, _)
\* TransformPromiseNode::getImpl(): the dependency's result, then its
\* destruction, then the continuation.
GetContinuation(n) ==
  LET d == Get(Kids(n)[1], Empty)
      e == d.out.exc
      o == CASE Kind(n) = "throw" /\ e = None -> Failure(n)
             [] Kind(n) = "catch" /\ e # None -> Value(<<n>>)
             [] OTHER -> d.out
  IN  IF <<n, 1>> \in cut THEN [Yields(Empty) EXCEPT !.bad = TRUE]
      ELSE [d EXCEPT !.out = o, !.cuts = @ \cup {<<n, 1>>},
                     !.runs = IF e = None \/ Kind(n) = "catch" THEN Append(@, n) ELSE @]

\* The parts of an array join, in the order of its branches: LAZY pulls each
\* dependency now, EAGER pulled it when the branch fired.
Parts(n) == [i \in DOMAIN Kids(n) |->
               IF Kind(n) = "all" THEN Get(Kids(n)[i], part[<<n, i>>])
               ELSE Yields(part[<<n, i>>])]

RECURSIVE Flat(_)
Flat(s) == IF s = << >> THEN << >> ELSE Head(s) \o Flat(Tail(s))

FirstException(in, parts) ==
  LET failed == {i \in DOMAIN parts : parts[i].out.exc # None}
  IN  CASE in.exc # None -> in.exc
        [] in.exc = None /\ failed = {} -> None
        [] OTHER -> parts[CHOOSE i \in failed : \A j \in failed : i <= j].out.exc

GetArrayJoin(n, in) ==
  LET p == Parts(n)
      e == FirstException(in, p)
  IN  [out  |-> IF e # None THEN [in EXCEPT !.exc = e]
                ELSE Value(Flat([i \in DOMAIN p |-> p[i].out.val])),
       runs |-> Flat([i \in DOMAIN p |-> p[i].runs]),
       cuts |-> UNION {p[i].cuts : i \in DOMAIN p},
       bad  |-> \/ \E i \in DOMAIN p : p[i].bad
                \/ e = None /\ \E i \in DOMAIN p : p[i].out.val = << >>]

\* RaceSuccessfulPromiseNode<T>::get() and getNoError(), which sets .value.
GetRace(n, in) ==
  Yields(IF out[n].exc # None THEN AddException(in, out[n].exc)
         ELSE [in EXCEPT !.val = out[n].val])

\* ExclusiveJoinPromiseNode::get(): the branch that was not cancelled.
GetExclusive(n, in) ==
  LET left == {i \in DOMAIN Kids(n) : <<n, i>> \notin cut}
  IN  IF left = {} THEN [Yields(in) EXCEPT !.bad = TRUE]
      ELSE Get(Kids(n)[CHOOSE i \in left : \A j \in left : i <= j], in)

Get(n, in) ==
  CASE Kind(n) = "leaf" -> Yields(IF leaf[n] = "ok" THEN Value(<<n>>) ELSE Failure(n))
    [] Kind(n) \in Continuations -> GetContinuation(n)
    [] Kind(n) = "attach" -> Get(Kids(n)[1], in)
    [] Kind(n) = "chain" -> IF out[n].exc # None THEN Yields([in EXCEPT !.exc = out[n].exc])
                            ELSE Get(Kids(n)[2], in)
    [] Kind(n) \in {"all", "failfast"} -> GetArrayJoin(n, in)
    [] Kind(n) = "race" -> GetRace(n, in)
    [] Kind(n) = "exclusive" -> GetExclusive(n, in)
    [] Kind(n) = "branch" -> [Yields(out[Kids(n)[1]]) EXCEPT !.cuts = {<<n, 1>>}]
    [] OTHER -> Yields(out[n])

-----------------------------------------------------------------------------
PromiseInit ==
  /\ tree \in Trees
  /\ leaf = [n \in Nodes |-> "pending"]
  /\ cut = {<<n, 2>> : n \in {m \in Nodes : Kind(m) = "chain"}}
  /\ armed = {} /\ ready = {}
  /\ order = [n \in Nodes |-> << >>]
  /\ out = [n \in Nodes |-> Empty]
  /\ part = [l \in Links |-> Empty]
  /\ ran = [n \in Nodes |-> 0]
  /\ got = Empty
  /\ broken = FALSE

\* What a call of get() leaves behind.
Ran(g) == ran' = [n \in Nodes |-> ran[n] + Cardinality({i \in DOMAIN g.runs : g.runs[i] = n})]

\* OnReadyEvent::arm() of the nodes in `who`, which may happen once to each.
Arm(who, bad) ==
  /\ ready' = ready \cup who
  /\ broken' = (broken \/ bad \/ who \cap ready # {})

\* AdapterPromiseNode::fulfill() and reject(): the first answer counts.
Settle(n, how) ==
  /\ Kind(n) = "leaf" /\ leaf[n] = "pending"
  /\ leaf' = [leaf EXCEPT ![n] = how]
  /\ UNCHANGED <<tree, cut, ready, order, out, part, ran, got, broken>>
  /\ Rearm(armed)

\* An event leaves the queue; the rest of the step is its fire().
Fires(n, i) ==
  /\ <<n, i>> \in armed
  /\ order' = [order EXCEPT ![n] = Append(@, i)]
  /\ UNCHANGED <<tree, leaf, got>>

Siblings(n, i) == {<<n, j>> : j \in DOMAIN Kids(n) \ {i}}

\* Mutant of FireExclusive: the winner drops its own dependency.
FireExclusiveCutsSelf(n, i) ==
  /\ Kind(n) = "exclusive" /\ Fires(n, i)
  /\ IF <<n, i>> \in cut
     THEN UNCHANGED <<cut, ready, broken>>
     ELSE cut' = cut \cup {<<n, i>>} /\ Arm({n}, FALSE)
  /\ UNCHANGED <<out, part, ran>>
  /\ Rearm(armed \ {<<n, i>>})

\* ExclusiveJoinPromiseNode::Branch::fire()
FireExclusive(n, i) ==
  /\ Kind(n) = "exclusive" /\ Fires(n, i)
  /\ IF <<n, i>> \in cut
     THEN UNCHANGED <<cut, ready, broken>>
     ELSE cut' = cut \cup Siblings(n, i) /\ Arm({n}, FALSE)
  /\ UNCHANGED <<out, part, ran>>
  /\ Rearm(armed \ {<<n, i>>})

\* countLeft after the branch that is firing, and the branches that still arm
CountLeft(n) == Len(Kids(n)) - Len(order'[n])

\* ArrayJoinPromiseNodeBase::Branch::fire(), LAZY
FireAll(n, i) ==
  /\ Kind(n) = "all" /\ Fires(n, i)
  /\ Arm(IF CountLeft(n) = 0 /\ n \notin ready THEN {n} ELSE {}, FALSE)
  /\ UNCHANGED <<cut, out, part, ran>>
  /\ Rearm(armed \ {<<n, i>>})

\* ArrayJoinPromiseNodeBase::Branch::fire(), EAGER: armed by the last branch,
\* or by the first that failed.
FireFailFast(n, i) ==
  /\ Kind(n) = "failfast" /\ Fires(n, i)
  /\ LET g == Get(Kids(n)[i], part[<<n, i>>])
     IN  /\ part' = [part EXCEPT ![<<n, i>>] = g.out]
         /\ Arm(IF (CountLeft(n) = 0 \/ g.out.exc # None) /\ n \notin ready THEN {n} ELSE {}, g.bad)
         /\ cut' = cut \cup g.cuts
         /\ Ran(g)
  /\ UNCHANGED out
  /\ Rearm(armed \ {<<n, i>>})

\* Mutant of FireRace: only a success ends the race.
FireRaceOnSuccess(n, i) ==
  /\ Kind(n) = "race" /\ Fires(n, i)
  /\ IF n \in ready THEN UNCHANGED <<cut, ready, out, ran, broken>>
     ELSE LET g  == Get(Kids(n)[i], out[n])
              ok == g.out.exc = None
          IN  /\ out' = [out EXCEPT ![n] = g.out]
              /\ cut' = cut \cup g.cuts \cup (IF ok THEN Siblings(n, i) ELSE {})
              /\ Arm(IF ok THEN {n} ELSE {}, g.bad)
              /\ Ran(g)
  /\ UNCHANGED part
  /\ Rearm(armed \ {<<n, i>>})

\* RaceSuccessfulPromiseNodeBase::Branch::fire(): every branch pulls into the
\* same output.
FireRace(n, i) ==
  /\ Kind(n) = "race" /\ Fires(n, i)
  /\ IF n \in ready THEN UNCHANGED <<cut, ready, out, ran, broken>>
     ELSE LET g  == Get(Kids(n)[i], out[n])
              ok == g.out.exc = None
          IN  /\ out' = [out EXCEPT ![n] = g.out]
              /\ cut' = cut \cup g.cuts \cup (IF ok THEN Siblings(n, i) ELSE {})
              /\ Arm(IF ok \/ CountLeft(n) = 0 THEN {n} ELSE {}, g.bad)
              /\ Ran(g)
  /\ UNCHANGED part
  /\ Rearm(armed \ {<<n, i>>})

\* ChainPromiseNode::fire(): pull the inner promise's promise, drop the inner
\* node, adopt what it returned or a broken promise.
FireChain(n) ==
  /\ Kind(n) = "chain" /\ Fires(n, 1)
  /\ LET g == Get(Kids(n)[1], Empty)
     IN  /\ out' = [out EXCEPT ![n] = [g.out EXCEPT !.val = << >>]]
         /\ cut' = (cut \cup g.cuts \cup {<<n, 1>>}) \ (IF g.out.exc = None THEN {<<n, 2>>} ELSE {})
         /\ Arm({}, g.bad)
         /\ Ran(g)
  /\ UNCHANGED part
  /\ Rearm(armed \ {<<n, 1>>})

\* EagerPromiseNodeBase::fire() and ForkHubBase::fire(): store the result,
\* drop the dependency, tell whoever listens.
FireStored(n) ==
  /\ Kind(n) \in {"eager", "hub"} /\ Fires(n, 1)
  /\ LET g == Get(Kids(n)[1], out[n])
     IN  /\ out' = [out EXCEPT ![n] = g.out]
         /\ cut' = cut \cup g.cuts \cup {<<n, 1>>}
         /\ Arm({n}, g.bad)
         /\ Ran(g)
  /\ UNCHANGED part
  /\ Rearm(armed \ {<<n, 1>>})

Fire == \E l \in armed :
  \/ FireExclusive(l[1], l[2]) \/ FireAll(l[1], l[2]) \/ FireFailFast(l[1], l[2])
  \/ FireRace(l[1], l[2]) \/ FireChain(l[1]) \/ FireStored(l[1])

\* The consumer of the root pulls its result, then destroys it.
Take ==
  /\ got = Empty /\ Root \in ReadyNow
  /\ LET g == Get(Root, Empty)
     IN  /\ got' = g.out
         /\ broken' = (broken \/ g.bad \/ g.out = Empty)
         /\ Ran(g)
  /\ armed' = {} /\ cut' = Links
  /\ UNCHANGED <<tree, leaf, ready, order, out, part>>

PromiseNext ==
  \/ \E n \in Nodes, how \in {"ok", "fail"} : Settle(n, how)
  \/ Fire
  \/ Take

\* The loop fires every event that stays armed; the consumer waits.
PromiseFairness == WF_promiseVars(Fire) /\ WF_promiseVars(Take)
PromiseSpec == PromiseInit /\ [][PromiseNext]_promiseVars /\ PromiseFairness

-----------------------------------------------------------------------------
\* What the documentation in async.h promises of each combinator, as a function
\* of what the leaves did and of the order in which branches came in.
Documented ==
  LET Ok(d) == d # "fail"
      f[n \in Nodes] ==
        LET k == Kids(n)
            firsts == SelectSeq(order[n], LAMBDA i : Ok(f[k[i]]))
        IN  CASE Kind(n) = "leaf" -> IF leaf[n] = "ok" THEN <<n>> ELSE "fail"
              [] Kind(n) = "throw" -> "fail"
              [] Kind(n) = "catch" -> IF Ok(f[k[1]]) THEN f[k[1]] ELSE <<n>>
              [] Kind(n) = "chain" -> IF Ok(f[k[1]]) THEN f[k[2]] ELSE "fail"
              [] Kind(n) = "exclusive" -> f[k[order[n][1]]]
              [] Kind(n) = "all" -> IF \E i \in DOMAIN k : ~Ok(f[k[i]]) THEN "fail"
                                    ELSE Flat([i \in DOMAIN k |-> f[k[i]]])
              [] Kind(n) = "failfast" ->
                   IF \E i \in DOMAIN order[n] : ~Ok(f[k[order[n][i]]]) THEN "fail"
                   ELSE Flat([i \in DOMAIN k |-> f[k[i]]])
              [] Kind(n) = "race" -> IF firsts = << >> THEN "fail" ELSE f[k[firsts[1]]]
              [] OTHER -> f[k[1]]
  IN  f

\* The consumer receives exactly what the documentation of the combinators
\* says: the values of a join in order, the winner of an exclusive join, the
\* first success of a race, an exception when and only when one is due, however
\* the branches interleave; and no assertion in the nodes fails on the way.
ResultIsAsDocumented ==
  /\ ~broken
  /\ got # Empty => IF got.exc = None THEN Documented[Root] = got.val
                    ELSE Documented[Root] = "fail"

\* A continuation is called at most once, and one that trails a branch of
\* joinPromises() not before every branch has settled.
ContinuationsRunOnce ==
  \A n \in Nodes :
    /\ ran[n] <= 1
    /\ Kind(n) = "all" => \A i, j \in DOMAIN Kids(n) :
         ran[Kids(n)[i]] > 0 => Kids(n)[j] \in ReadyNow \/ got # Empty

\* Once every leaf has settled, the consumer gets an answer.
PromiseSettles == (\A n \in Nodes : Kind(n) = "leaf" => leaf[n] # "pending") ~> got # Empty
=============================================================================
