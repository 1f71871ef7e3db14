----------------------------- MODULE AsyncTee ------------------------------
(***************************************************************************)
(* The tee of async-io.cc: class AsyncTee reads one input stream and gives *)
(* every byte to each of its branches.  A branch with an operation under   *)
(* way has a sink (ReadSink or PumpSink); the pull loop fills the sinks    *)
(* from the branches' buffers, waits for the pumps' outputs, reads the     *)
(* input for as long as a sink is left, and appends what it gets to the    *)
(* buffer of every branch.  Operations start, and are dropped, between any *)
(* two steps of the loop.                                                  *)
(*                                                                         *)
(* The input is the bytes 1, 2, ..., Source.                               *)
(***************************************************************************)
EXTENDS Integers, Sequences, FiniteSets, FiniteSetsExt

CONSTANTS Branches,          \* branches that may come to exist
          First,             \* the branches that newTee() makes
          Source,            \* length of the input
          Limit,             \* bufferSizeLimit
          TeeReads,          \* what tryRead() is called with: <<minBytes, maxBytes>>
          TeeAmounts,        \* what pumpTo() is called with
          MaxOps             \* bound on the operations of a branch

ASSUME TeeAssumption ==
  /\ IsFiniteSet(Branches) /\ First \subseteq Branches /\ Source \in Nat /\ Limit \in Nat
  /\ TeeReads \subseteq Nat \X Nat /\ TeeAmounts \subseteq Nat

VARIABLES alive,     \* branches in the tee's list
          buffer,    \* branch.buffer, as the sequence of bytes it holds
          sink,      \* branch.sink and the operation it serves
          flight,    \* bytes given to a pump's output that it has not accepted yet
          seen,      \* bytes that the branch's operations have got, in order
          base,      \* number of the input's bytes that the branch was never to get
          ops,       \* operations the branch has started
          loop,      \* the pull loop: "idle" (not pulling), "fill", "join" or "read"
          need,      \* the bounds of the inner read
          stoppage,  \* "none", "eof" or "error"
          pulled     \* number of bytes read from the input

teeVars == <<alive, buffer, sink, flight, seen, base, ops, loop, need, stoppage, pulled>>

NoSink == [kind |-> "none"]

TeeInit ==
  /\ alive = First
  /\ buffer = [b \in Branches |-> <<>>]
  /\ sink = [b \in Branches |-> NoSink]
  /\ flight = [b \in Branches |-> <<>>]
  /\ seen = [b \in Branches |-> <<>>]
  /\ base = [b \in Branches |-> 0]
  /\ ops = [b \in Branches |-> 0]
  /\ loop = "idle" /\ need = <<0, 0>> /\ stoppage = "none" /\ pulled = 0

Least(a, b) == IF a < b THEN a ELSE b
Most(a, b)  == IF a > b THEN a ELSE b
Prefix(s, n) == SubSeq(s, 1, Least(n, Len(s)))
Beyond(s, n) == SubSeq(s, n + 1, Len(s))
---------------------------------------------------------------------------
(* Operations of a branch                                                  *)

\* ensurePulling(): the loop is started if it is not running.
EnsurePulling == loop' = IF loop = "idle" THEN "fill" ELSE loop

\* tryRead(): take what is buffered; if that is not enough, and more may come,
\* leave a ReadSink.  A stopped tee answers at once, an exception only if the
\* read has got nothing.
TryRead(b, lo, hi) ==
  LET got == Prefix(buffer[b], hi)
      n   == Len(got)
  IN  /\ b \in alive /\ sink[b] = NoSink /\ ops[b] < MaxOps
      /\ ops' = [ops EXCEPT ![b] = @ + 1]
      /\ buffer' = [buffer EXCEPT ![b] = Beyond(@, n)]
      /\ seen' = [seen EXCEPT ![b] = @ \o got]
      /\ IF n >= lo \/ (n = Len(buffer[b]) /\ stoppage # "none")
         THEN UNCHANGED <<sink, loop>>
         ELSE /\ sink' = [sink EXCEPT ![b] = [kind |-> "read", min |-> lo - n, max |-> hi - n, got |-> n]]
              /\ EnsurePulling
      /\ UNCHANGED <<alive, flight, base, need, stoppage, pulled>>

\* pumpTo(): leave a PumpSink, unless the tee has stopped and nothing is buffered.
PumpTo(b, amount) ==
  /\ b \in alive /\ sink[b] = NoSink /\ ops[b] < MaxOps
  /\ ops' = [ops EXCEPT ![b] = @ + 1]
  /\ IF buffer[b] = <<>> /\ stoppage # "none"
     THEN UNCHANGED <<sink, loop>>
     ELSE /\ sink' = [sink EXCEPT ![b] = [kind |-> "pump", min |-> 1, max |-> amount, got |-> 0]]
          /\ EnsurePulling
  /\ UNCHANGED <<alive, buffer, flight, seen, base, need, stoppage, pulled>>

\* The promise is dropped: the sink detaches and a pump's write is cancelled.
\* What the output had been given is lost to the branch.
DropOp(b) ==
  /\ sink[b] # NoSink
  /\ sink' = [sink EXCEPT ![b] = NoSink]
  /\ seen' = [seen EXCEPT ![b] = @ \o flight[b]]
  /\ flight' = [flight EXCEPT ![b] = <<>>]
  /\ UNCHANGED <<alive, buffer, base, ops, loop, need, stoppage, pulled>>

\* ~Branch(), which must not have an operation under way.
DropBranch(b) ==
  /\ b \in alive /\ sink[b] = NoSink
  /\ alive' = alive \ {b}
  /\ buffer' = [buffer EXCEPT ![b] = <<>>]
  /\ UNCHANGED <<sink, flight, seen, base, ops, loop, need, stoppage, pulled>>

\* Mutant of Clone: the new branch starts with what is read next.
CloneEmpty(b, c) ==
  /\ b \in alive /\ c \notin alive /\ ops[c] = 0 /\ c \notin First
  /\ alive' = alive \cup {c}
  /\ base' = [base EXCEPT ![c] = pulled - Len(buffer[b])]
  /\ UNCHANGED <<buffer, sink, flight, seen, ops, loop, need, stoppage, pulled>>

\* tryTee(): a new branch of the same tee starts with a copy of this one's buffer.
Clone(b, c) ==
  /\ b \in alive /\ c \notin alive /\ ops[c] = 0 /\ c \notin First
  /\ alive' = alive \cup {c}
  /\ buffer' = [buffer EXCEPT ![c] = buffer[b]]
  /\ base' = [base EXCEPT ![c] = pulled - Len(buffer[b])]
  /\ UNCHANGED <<sink, flight, seen, ops, loop, need, stoppage, pulled>>
---------------------------------------------------------------------------
(* The pull loop                                                           *)

\* ReadSink::fill(), for a branch b: what the sink is afterwards.
ReadFilled(b) ==
  LET n == Least(sink[b].max, Len(buffer[b]))
      s == [sink[b] EXCEPT !.min = Most(@ - n, 0), !.max = @ - n, !.got = @ + n]
  IN  IF s.min = 0 \/ (n = 0 /\ stoppage # "none") THEN NoSink ELSE s

\* PumpSink::fill(): it is over if nothing was buffered and the tee has stopped.
PumpFilled(b) == IF buffer[b] = <<>> /\ stoppage # "none" THEN NoSink ELSE sink[b]

\* The first part of pullLoop(): fill every sink.
Fill ==
  LET readers == {b \in alive : sink[b].kind = "read"}
      pumps   == {b \in alive : sink[b].kind = "pump"}
      moved   == [b \in Branches |-> IF b \in readers \cup pumps
                                     THEN Prefix(buffer[b], sink[b].max) ELSE <<>>]
  IN  /\ loop = "fill"
      /\ sink' = [b \in Branches |-> IF b \in readers THEN ReadFilled(b)
                                     ELSE IF b \in pumps THEN PumpFilled(b) ELSE sink[b]]
      /\ buffer' = [b \in Branches |-> Beyond(buffer[b], Len(moved[b]))]
      /\ seen' = [b \in Branches |-> IF b \in readers THEN seen[b] \o moved[b] ELSE seen[b]]
      /\ flight' = [b \in Branches |-> IF b \in pumps THEN moved[b] ELSE <<>>]
      /\ loop' = "join"
      /\ UNCHANGED <<alive, base, ops, need, stoppage, pulled>>

\* What is left to pump when the output has accepted k bytes.
PumpedOn(s, k) == IF k = s.max THEN NoSink ELSE [s EXCEPT !.max = @ - k, !.got = @ + k]

\* The output of a pump accepts the bytes, or throws, which rejects the pump.
PumpWritten(b) ==
  /\ flight[b] # <<>>
  /\ seen' = [seen EXCEPT ![b] = @ \o flight[b]]
  /\ flight' = [flight EXCEPT ![b] = <<>>]
  /\ \E after \in {PumpedOn(sink[b], Len(flight[b])), NoSink} : sink' = [sink EXCEPT ![b] = after]
  /\ UNCHANGED <<alive, buffer, base, ops, loop, need, stoppage, pulled>>

\* analyzeSinks(): the largest minimum, and the smallest maximum of the sinks.
Sinks == {b \in alive : sink[b] # NoSink}
NeedMin == Max({sink[b].min : b \in Sinks})
NeedMax == Most(NeedMin, Min({sink[b].max : b \in Sinks}))

\* The second part of pullLoop(), when every output has answered: stop, go round
\* again, give up because a buffer would outgrow the limit, or read the input.
Analyze ==
  LET hi == Most(NeedMin, Least(NeedMax, Limit))
  IN  /\ loop = "join" /\ \A b \in Branches : flight[b] = <<>>
      /\ IF Sinks = {} THEN loop' = "idle" /\ UNCHANGED <<need, stoppage>>
         ELSE IF stoppage # "none" THEN loop' = "fill" /\ UNCHANGED <<need, stoppage>>
         ELSE IF \E b \in alive : Len(buffer[b]) + hi > Limit
         THEN loop' = "fill" /\ stoppage' = "error" /\ UNCHANGED need
         ELSE loop' = "read" /\ need' = <<NeedMin, hi>> /\ UNCHANGED stoppage
      /\ UNCHANGED <<alive, buffer, sink, flight, seen, base, ops, pulled>>

\* The inner read answers; a short answer is the end of the input.
InnerRead(n) ==
  /\ loop = "read"
  /\ n <= Least(need[2], Source - pulled)
  /\ n >= need[1] \/ n = Source - pulled
  /\ buffer' = [b \in Branches |-> IF b \in alive THEN buffer[b] \o [i \in 1..n |-> pulled + i]
                                   ELSE buffer[b]]
  /\ pulled' = pulled + n
  /\ stoppage' = IF n < need[1] THEN "eof" ELSE stoppage
  /\ loop' = "fill"
  /\ UNCHANGED <<alive, sink, flight, seen, base, ops, need>>

InnerThrows ==
  /\ loop = "read"
  /\ stoppage' = "error" /\ loop' = "fill"
  /\ UNCHANGED <<alive, buffer, sink, flight, seen, base, ops, need, pulled>>

Pull == Fill \/ Analyze \/ InnerThrows \/ \E n \in 0..Source : InnerRead(n)

TeeNext ==
  \/ \E b \in Branches :
       \/ \E rd \in TeeReads : TryRead(b, rd[1], rd[2])
       \/ \E a \in TeeAmounts : PumpTo(b, a)
       \/ DropOp(b)
       \/ DropBranch(b)
       \/ PumpWritten(b)
       \/ \E c \in Branches : Clone(b, c)
  \/ Pull

TeeSpec == TeeInit /\ [][TeeNext]_teeVars
---------------------------------------------------------------------------
(* Properties                                                              *)

\* Each branch sees the bytes of the input from the point where it began, each
\* once and in order, whatever the other branches do; what it has not seen is in
\* its buffer or on the way to its output; no buffer exceeds the limit; and while
\* an operation waits, the pull loop is running for it.
BranchesSeeTheInput ==
  /\ \A b \in alive :
       /\ seen[b] \o flight[b] \o buffer[b] = [i \in 1..(pulled - base[b]) |-> base[b] + i]
       /\ Len(buffer[b]) <= Limit
  /\ \A b \in Branches : sink[b] # NoSink => b \in alive /\ loop # "idle"
=============================================================================
