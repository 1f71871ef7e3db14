----------------------------- MODULE AsyncPipe -----------------------------
(***************************************************************************)
(* The in-process pipe of async-io.cc: class AsyncPipe, its state objects  *)
(* BlockedWrite, BlockedPumpFrom, BlockedRead, BlockedPumpTo, AbortedRead  *)
(* and ShutdownedWrite, and the two ends that own it.                      *)
(*                                                                         *)
(* The pipe has no buffer.  The first of two matching operations installs  *)
(* a Blocked object as the pipe's `state` and waits; the second finds that *)
(* object and moves the bytes.  A pump makes the transfer asynchronous:    *)
(* the bytes come from an input stream, or go to an output stream, that    *)
(* answers later, and until it does the second operation is wrapped in the *)
(* first one's Canceler (`sub` below).  Any operation may be dropped, and  *)
(* either end closed, at any moment in between.                            *)
(*                                                                         *)
(* Bytes are numbered in the order in which the write end offers them.  A  *)
(* read of (minBytes, maxBytes) and a pumpTo() of `amount` differ only in  *)
(* where the bytes go, so both are a record with min and max; for a pump   *)
(* min = max = amount.                                                     *)
(***************************************************************************)
EXTENDS Integers, Sequences, SequencesExt, FiniteSetsExt

CONSTANTS Shapes,    \* what write() is called with: sequences of piece lengths
          Pumps,     \* what tryPumpFrom() is called with: <<amount, length of the input>>
          Reads,     \* what tryRead() is called with: <<minBytes, maxBytes>>
          Amounts,   \* what pumpTo() is called with
          MaxBytes   \* bound on the bytes offered in a behaviour

\* A call for nothing is answered before the pipe's state is looked at.
ASSUME PipeAssumption ==
  /\ Shapes \subseteq Seq(Nat) /\ \A shape \in Shapes : \E k \in 1..Len(shape) : shape[k] > 0
  /\ Pumps \subseteq (Nat \ {0}) \X Nat
  /\ Reads \subseteq (Nat \ {0}) \X Nat /\ \A rd \in Reads : rd[1] <= rd[2]
  /\ Amounts \subseteq Nat \ {0} /\ MaxBytes \in Nat

VARIABLES st,      \* class of the object that `state` refers to, "none" when empty
          r,       \* the read end's operation (tryRead or pumpTo)
          w,       \* the write end's operation (write or tryPumpFrom)
          sub,     \* the call to the input or output of a pump that is under way
          taken,   \* bytes that have reached the read buffer or the pump's output
          next,    \* number of the next byte that the write end will offer
          watch    \* whenWriteDisconnected(): "no", "waiting" or "fired"

pipeVars == <<st, r, w, sub, taken, next, watch>>

NoSub  == [kind |-> "none"]
IdleR  == [op |-> "none", at |-> "idle", min |-> 0, max |-> 0, got |-> 0, res |-> "none", start |-> 0]
IdleW  == [op |-> "none", at |-> "idle", todo |-> <<>>, later |-> <<>>, bytes |-> <<>>,
           amount |-> 0, got |-> 0, uncounted |-> 0, res |-> "none", start |-> 0]

ReadStates  == {"BlockedRead", "BlockedPumpTo"}
WriteStates == {"BlockedWrite", "BlockedPumpFrom"}

PipeInit == /\ st = "none" /\ r = IdleR /\ w = IdleW /\ sub = NoSub
        /\ taken = <<>> /\ next = 1 /\ watch = "no"

---------------------------------------------------------------------------
(* Pieces of a write                                                       *)

Size(ps) == Len(FlattenSeq(ps))

\* The sum of the first k numbers of a sequence.
SumSeqTo(ns, k) ==
  LET sum[j \in 0..Len(ns)] == IF j = 0 THEN 0 ELSE sum[j - 1] + ns[j]
  IN  sum[k]

\* The number of leading pieces that fit into n bytes.
Whole(ps, n) == Max({k \in 0..Len(ps) : Size(SubSeq(ps, 1, k)) <= n})

\* TRUE if n bytes end inside a piece rather than between two.
Splits(ps, n) == n > Size(SubSeq(ps, 1, Whole(ps, n)))

\* The pieces left once n bytes have been consumed.
After(ps, n) ==
  LET k == Whole(ps, n)
  IN  IF k = Len(ps) THEN <<>>
      ELSE <<SubSeq(ps[k + 1], n - Size(SubSeq(ps, 1, k)) + 1, Len(ps[k + 1]))>>
           \o SubSeq(ps, k + 2, Len(ps))

\* A promise is resolved once: a second fulfill() or reject() is ignored.
Resolve(x, res) == [x EXCEPT !.at = "done", !.res = IF x.res = "none" THEN res ELSE @]

\* The write() of the pieces in w.todo is over.  Pieces that were set aside for
\* a `.then()` are written in a later turn of the event loop.
WritePartDone(x) == IF x.later = <<>> \/ x.res # "none" THEN Resolve([x EXCEPT !.todo = <<>>], "ok")
                    ELSE [x EXCEPT !.todo = <<>>, !.at = "later"]

\* pipe.tryRead() or pipe.pumpTo() of what is still missing, in a pipe without
\* state: nothing to do, or a new BlockedRead or BlockedPumpTo.
RestOfRead(x)  == IF x.got >= x.min THEN Resolve(x, "ok") ELSE [x EXCEPT !.at = "blocked"]
RestOfReadSt(x) == IF x.got >= x.min THEN "none"
                   ELSE IF x.op = "read" THEN "BlockedRead" ELSE "BlockedPumpTo"
---------------------------------------------------------------------------
(* The read end                                                            *)

NewRead(op, lo, hi) == [IdleR EXCEPT !.op = op, !.min = lo, !.max = hi, !.start = Len(taken)]

\* An operation on an empty pipe waits for the write end.
ReadBlocks(x) ==
  /\ st = "none"
  /\ st' = RestOfReadSt(x)
  /\ r' = RestOfRead(x)
  /\ UNCHANGED <<w, sub, taken, next, watch>>

\* BlockedWrite::tryReadImpl(): copy what fits; a write that is used up is
\* fulfilled, and the read goes on with the pipe if it wants more.
ReadFromWrite(x) ==
  LET n    == Min({x.max, Size(w.todo)})
      left == After(w.todo, n)
      x1   == [x EXCEPT !.got = n]
  IN  /\ st = "BlockedWrite" /\ x.op = "read" /\ sub = NoSub
      /\ taken' = taken \o SubSeq(FlattenSeq(w.todo), 1, n)
      /\ IF left = <<>>
         THEN /\ w' = WritePartDone(w)
              /\ st' = RestOfReadSt(x1)
              /\ r' = RestOfRead(x1)
         ELSE /\ w' = [w EXCEPT !.todo = left]
              /\ r' = Resolve(x1, "ok")
              /\ UNCHANGED st
      /\ UNCHANGED <<sub, next, watch>>

\* BlockedWrite::pumpTo(): offer the bytes to the output; they leave the write
\* buffer when it has accepted them.
PumpFromWrite(x) ==
  /\ st = "BlockedWrite" /\ x.op = "pumpTo" /\ sub = NoSub
  /\ sub' = [kind |-> "outputForRead", n |-> Min({x.max, Size(w.todo)})]
  /\ r' = [x EXCEPT !.at = "sub"]
  /\ UNCHANGED <<st, w, taken, next, watch>>

PumpFromWriteDone ==
  LET left == After(w.todo, sub.n)
      x    == [r EXCEPT !.got = @ + sub.n]
  IN  /\ sub.kind = "outputForRead"
      /\ taken' = taken \o SubSeq(FlattenSeq(w.todo), 1, sub.n)
      /\ IF left = <<>>
         THEN /\ w' = WritePartDone(w)
              /\ st' = RestOfReadSt(x)
              /\ r' = RestOfRead(x)
         ELSE /\ w' = [w EXCEPT !.todo = left]
              /\ r' = Resolve(x, "ok")
              /\ UNCHANGED st
      /\ sub' = NoSub
      /\ UNCHANGED <<next, watch>>

\* BlockedPumpFrom::tryRead() and pumpTo(): ask the pump's input, for no more
\* than the pump has left.
ReadFromPump(x) ==
  LET pumpLeft == w.amount - w.got
  IN  /\ st = "BlockedPumpFrom" /\ sub = NoSub
      /\ sub' = [kind |-> "inputForRead", lo |-> Min({pumpLeft, x.min}), hi |-> Min({pumpLeft, x.max})]
      /\ r' = [x EXCEPT !.at = "sub"]
      /\ UNCHANGED <<st, w, taken, next, watch>>

\* What an input stream may answer to a read of lo..hi bytes: fewer than lo only at EOF.
Answers(input, lo, hi) == {k \in 0..Min({hi, Len(input)}) : k >= lo \/ k = Len(input)}

ReadFromPumpDone(k) ==
  LET x     == [r EXCEPT !.got = @ + k]
      y     == [w EXCEPT !.got = @ + k, !.todo = <<SubSeq(@[1], k + 1, Len(@[1]))>>]
      ended == y.got = y.amount \/ k < sub.lo
  IN  /\ sub.kind = "inputForRead"
      /\ k \in Answers(w.todo[1], sub.lo, sub.hi)
      /\ taken' = taken \o SubSeq(w.todo[1], 1, k)
      /\ w' = IF ended THEN Resolve(y, "ok") ELSE y
      /\ st' = IF ended THEN RestOfReadSt(x) ELSE st
      /\ r' = RestOfRead(x)
      /\ sub' = NoSub
      /\ UNCHANGED <<next, watch>>

\* AbortedRead answers with DISCONNECTED, ShutdownedWrite with the end of file.
ReadFromClosed(x) ==
  /\ st \in {"AbortedRead", "ShutdownedWrite"}
  /\ r' = Resolve(x, IF st = "AbortedRead" THEN "disconnected" ELSE "ok")
  /\ UNCHANGED <<st, w, sub, taken, next, watch>>

Read(x) ==
  \/ ReadBlocks(x)
  \/ ReadFromWrite(x)
  \/ PumpFromWrite(x)
  \/ ReadFromPump(x)
  \/ ReadFromClosed(x)

PipeRead(lo, hi) == r.at = "idle" /\ Read(NewRead("read", lo, hi))
PipePump(amount) == r.at = "idle" /\ Read(NewRead("pumpTo", amount, amount))

---------------------------------------------------------------------------
(* The write end                                                           *)

\* The bytes of a write() or of a pump's input are the next ones to be numbered.
Fresh(n)       == [i \in 1..n |-> next + i - 1]
Offer(shape)   == [k \in DOMAIN shape |->
                     [i \in 1..shape[k] |-> next + SumSeqTo(shape, k - 1) + i - 1]]
\* AsyncPipe::write(pieces) skips leading empty pieces.
Stripped(ps)   == After(ps, 0)

NewWrite(shape) == [IdleW EXCEPT !.op = "write", !.todo = Stripped(Offer(shape)),
                                 !.bytes = Fresh(SumSeqTo(shape, Len(shape))), !.start = Len(taken)]
NewPump(amount, len) == [IdleW EXCEPT !.op = "pumpFrom", !.todo = <<Fresh(len)>>, !.bytes = Fresh(len),
                                      !.amount = amount, !.start = Len(taken)]

\* A write of the pieces `left` that remain when a read or a pump is satisfied,
\* in the pipe it has just left empty.  The rest of a split piece is written
\* first; the pieces behind it follow when that write is over.
RestOfWrite(y, left, split) ==
  IF left = <<>> THEN Resolve([y EXCEPT !.todo = <<>>], "ok")
  ELSE IF split THEN [y EXCEPT !.at = "blocked", !.todo = <<Head(left)>>, !.later = Tail(left) \o @]
  ELSE [y EXCEPT !.at = "blocked", !.todo = left]
RestOfWriteSt(left) == IF left = <<>> THEN "none" ELSE "BlockedWrite"

\* An operation on an empty pipe waits for the read end.
WriteBlocks(y) ==
  /\ st = "none"
  /\ st' = IF y.op = "write" THEN "BlockedWrite" ELSE "BlockedPumpFrom"
  /\ w' = [y EXCEPT !.at = "blocked"]
  /\ UNCHANGED <<r, sub, taken, watch>>

\* BlockedRead::write(): fill the read buffer; the read ends when it has its
\* minimum and the write has no more, or when the buffer is full.
WriteToRead(y) ==
  LET n    == Min({r.max - r.got, Size(y.todo)})
      left == After(y.todo, n)
      x    == [r EXCEPT !.got = @ + n]
  IN  /\ st = "BlockedRead" /\ y.op = "write" /\ sub = NoSub
      /\ taken' = taken \o SubSeq(FlattenSeq(y.todo), 1, n)
      /\ w' = RestOfWrite(y, left, Splits(y.todo, n))
      /\ IF x.got >= x.min
         THEN r' = Resolve(x, "ok") /\ st' = RestOfWriteSt(left)
         ELSE r' = x /\ UNCHANGED st
      /\ UNCHANGED <<sub, watch>>

\* BlockedPumpTo::write(): offer the pump's share of the bytes to its output.
WriteToPump(y) ==
  /\ st = "BlockedPumpTo" /\ y.op = "write" /\ sub = NoSub
  /\ sub' = [kind |-> "outputForWrite", n |-> Min({r.max - r.got, Size(y.todo)})]
  /\ w' = [y EXCEPT !.at = "sub"]
  /\ UNCHANGED <<st, r, taken, watch>>

\* A pump that ends between two pieces leaves the others to a `.then()`.
WriteToPumpDone ==
  LET left == After(w.todo, sub.n)
      x    == [r EXCEPT !.got = @ + sub.n]
      atEdge == left # <<>> /\ ~Splits(w.todo, sub.n)
  IN  /\ sub.kind = "outputForWrite"
      /\ taken' = taken \o SubSeq(FlattenSeq(w.todo), 1, sub.n)
      /\ w' = IF left = <<>> THEN WritePartDone(w)
              ELSE IF atEdge THEN [w EXCEPT !.at = "later", !.todo = <<>>, !.later = left \o @]
              ELSE RestOfWrite(w, left, TRUE)
      /\ IF x.got = x.max
         THEN r' = Resolve(x, "ok") /\ st' = IF atEdge THEN "none" ELSE RestOfWriteSt(left)
         ELSE r' = x /\ UNCHANGED st
      /\ sub' = NoSub
      /\ UNCHANGED <<next, watch>>

\* BlockedRead::tryPumpFrom() and BlockedPumpTo::tryPumpFrom(): ask the input,
\* for no more than the read end can take.
PumpToReader(y) ==
  /\ st \in ReadStates /\ y.op = "pumpFrom" /\ sub = NoSub
  /\ sub' = [kind |-> "inputForWrite", lo |-> Min({y.amount, r.min - r.got}),
                                       hi |-> Min({y.amount, r.max - r.got})]
  /\ w' = [y EXCEPT !.at = "sub"]
  /\ UNCHANGED <<st, r, taken, watch>>

\* A satisfied read end goes, and a pump that wants more becomes the state; an
\* unsatisfied one stays, because a pump does not pass on the end of its input.
PumpToReaderDone(k, uncounted) ==
  LET x == [r EXCEPT !.got = @ + k]
      y == [w EXCEPT !.got = @ + k, !.todo = <<SubSeq(@[1], k + 1, Len(@[1]))>>]
  IN  /\ sub.kind = "inputForWrite"
      /\ k \in Answers(w.todo[1], sub.lo, sub.hi)
      /\ taken' = taken \o SubSeq(w.todo[1], 1, k)
      /\ IF x.got >= x.min
         THEN /\ r' = Resolve(x, "ok")
              /\ IF y.got < y.amount
                 THEN /\ w' = [y EXCEPT !.at = "blocked", !.uncounted = uncounted]
                      /\ st' = "BlockedPumpFrom"
                 ELSE w' = Resolve(y, "ok") /\ st' = "none"
         ELSE r' = x /\ w' = Resolve(y, "ok") /\ UNCHANGED st
      /\ sub' = NoSub
      /\ UNCHANGED <<next, watch>>

\* BlockedRead adds what it took to the count of a pump that goes on.
PumpToReadDone(k) == st = "BlockedRead" /\ PumpToReaderDone(k, 0)

\* BlockedPumpTo does not: the count starts again behind it.
PumpToPumpDone(k) == st = "BlockedPumpTo" /\ PumpToReaderDone(k, k)

\* AbortedRead refuses a write, but a pump only after a look at its input, which
\* may be empty; ShutdownedWrite refuses both as a misuse.
WriteToClosed(y) ==
  /\ st \in {"AbortedRead", "ShutdownedWrite"}
  /\ IF st = "AbortedRead" /\ y.op = "pumpFrom"
     THEN w' = [y EXCEPT !.at = "sub"] /\ sub' = [kind |-> "eof"]
     ELSE /\ w' = Resolve(y, IF st = "AbortedRead" THEN "disconnected" ELSE "failed")
          /\ UNCHANGED sub
  /\ UNCHANGED <<st, r, taken, watch>>

WriteOp(y) ==
  \/ WriteBlocks(y)
  \/ WriteToRead(y)
  \/ WriteToPump(y)
  \/ PumpToReader(y)
  \/ WriteToClosed(y)

Write(shape) ==
  /\ w.at = "idle" /\ next + SumSeqTo(shape, Len(shape)) <= MaxBytes + 1
  /\ next' = next + SumSeqTo(shape, Len(shape))
  /\ WriteOp(NewWrite(shape))
TryPumpFrom(amount, len) ==
  /\ w.at = "idle" /\ next + len <= MaxBytes + 1
  /\ next' = next + len
  /\ WriteOp(NewPump(amount, len))

\* The `.then()` that writes the pieces behind a split one.
WriteLater ==
  LET y == [w EXCEPT !.todo = Stripped(w.later), !.later = <<>>]
  IN  /\ w.at = "later"
      /\ UNCHANGED next
      /\ IF y.todo = <<>>
         THEN w' = Resolve(y, "ok") /\ UNCHANGED <<st, r, sub, taken, watch>>
         ELSE WriteOp(y)

---------------------------------------------------------------------------
(* Failure, closing and cancellation                                       *)

ForRead  == {"outputForRead", "inputForRead"}     \* wrapped in the write end's Canceler
ForWrite == {"outputForWrite", "inputForWrite"}   \* wrapped in the read end's Canceler

\* The stream of a pump throws.  teeException*() rejects both operations, and
\* leaves the Blocked object in place until its owner lets go of its promise.
SubFails ==
  /\ sub # NoSub
  /\ r' = IF sub.kind = "eof" THEN r ELSE Resolve(r, "failed")
  /\ w' = Resolve(w, "failed")
  /\ sub' = NoSub
  /\ UNCHANGED <<st, taken, next, watch>>

\* The byte that abortRead() asks of a pump's input decides how the pump ends.
EofChecked ==
  /\ sub.kind = "eof"
  /\ w' = Resolve(w, IF w.todo[1] = <<>> THEN "ok" ELSE "disconnected")
  /\ sub' = NoSub
  /\ UNCHANGED <<st, r, taken, next, watch>>

\* abortRead(), which the destructor of the read end calls.
AbortRead ==
  /\ st \notin {"AbortedRead", "ShutdownedWrite"}
  /\ st' = "AbortedRead"
  /\ watch' = IF watch = "waiting" THEN "fired" ELSE watch
  /\ r' = IF st \in ReadStates THEN Resolve(r, "disconnected")
          ELSE IF sub.kind \in ForRead THEN Resolve(r, "canceled") ELSE r
  /\ LET checks == st = "BlockedPumpFrom" /\ w.res = "none"
     IN  /\ w' = IF checks THEN [w EXCEPT !.at = "sub"]
                 ELSE IF st = "BlockedWrite" THEN Resolve(w, "disconnected")
                 ELSE IF sub.kind \in ForWrite THEN Resolve(w, "canceled") ELSE w
         /\ sub' = IF checks THEN [kind |-> "eof"] ELSE NoSub
  /\ UNCHANGED <<taken, next>>

\* shutdownWrite(), which the destructor of the write end calls.  A write or a
\* pump that is still blocked makes it throw and change nothing.
ShutdownWrite ==
  /\ st \in ReadStates \cup {"none"}
  /\ st' = "ShutdownedWrite"
  /\ r' = IF st \in ReadStates THEN Resolve(r, "ok") ELSE r
  /\ w' = IF sub.kind \in ForWrite THEN Resolve(w, "canceled") ELSE w
  /\ sub' = IF sub.kind \in ForWrite THEN NoSub ELSE sub
  /\ UNCHANGED <<taken, next, watch>>

\* whenWriteDisconnected() resolves when the read end aborts.
WhenWriteDisconnected ==
  /\ watch = "no"
  /\ watch' = IF st = "AbortedRead" THEN "fired" ELSE "waiting"
  /\ UNCHANGED <<st, r, w, sub, taken, next>>

\* Mutant of ReleaseRead: the destructor does not cancel what it has wrapped.
ReleaseReadOnly ==
  /\ r.at # "idle"
  /\ r' = IdleR
  /\ st' = IF st \in ReadStates THEN "none" ELSE st
  /\ UNCHANGED <<w, sub, taken, next, watch>>

\* The promise of the read end's operation is consumed, or dropped early.  The
\* destructor of a Blocked object ends the state and cancels what it has wrapped.
ReleaseRead ==
  /\ r.at # "idle"
  /\ r' = IdleR
  /\ IF st \in ReadStates
     THEN /\ st' = "none"
          /\ w' = IF sub.kind \in ForWrite THEN Resolve(w, "canceled") ELSE w
          /\ sub' = NoSub
     ELSE /\ sub' = IF r.at = "sub" THEN NoSub ELSE sub
          /\ UNCHANGED <<st, w>>
  /\ UNCHANGED <<taken, next, watch>>

ReleaseWrite ==
  /\ w.at # "idle"
  /\ w' = IdleW
  /\ IF st \in WriteStates
     THEN /\ st' = "none"
          /\ r' = IF sub.kind \in ForRead THEN Resolve(r, "canceled") ELSE r
          /\ sub' = NoSub
     ELSE /\ sub' = IF w.at = "sub" THEN NoSub ELSE sub
          /\ UNCHANGED <<st, r>>
  /\ UNCHANGED <<taken, next, watch>>

PipeNext ==
  \/ \E rd \in Reads : PipeRead(rd[1], rd[2])
  \/ \E a \in Amounts : PipePump(a)
  \/ \E shape \in Shapes : Write(shape)
  \/ \E p \in Pumps : TryPumpFrom(p[1], p[2])
  \/ PumpFromWriteDone
  \/ WriteToPumpDone
  \/ \E k \in 0..MaxBytes : ReadFromPumpDone(k) \/ PumpToReadDone(k) \/ PumpToPumpDone(k)
  \/ WriteLater
  \/ SubFails
  \/ EofChecked
  \/ AbortRead
  \/ ShutdownWrite
  \/ WhenWriteDisconnected
  \/ ReleaseRead
  \/ ReleaseWrite

PipeSpec == PipeInit /\ [][PipeNext]_pipeVars
---------------------------------------------------------------------------
(* Properties                                                              *)

\* What the write end's operation has moved, and the count that the promise of a
\* pump reports.
Moved == SubSeq(taken, w.start + 1, Len(taken))
Count == w.got - w.uncounted

\* What a promise of the pipe reports is what happened to the bytes: they go
\* across once and in order; a fulfilled write has delivered all its bytes; the
\* count of a fulfilled pump or read is the number of bytes it has moved, but for
\* what a pumpTo() took of a pump that went on after it; a pump is short only if
\* its input ran dry, a read only if the write end was shut down.
TransfersAreExact ==
  /\ \A i \in 1..(Len(taken) - 1) : taken[i] < taken[i + 1]
  /\ w.res = "ok" =>
       IF w.op = "write" THEN Moved = w.bytes
       ELSE /\ IsPrefix(Moved, w.bytes)
            /\ Len(Moved) = w.amount \/ Len(Moved) = Len(w.bytes)
            /\ Count = Len(Moved) - w.uncounted
  /\ r.res = "ok" =>
       /\ r.got = Len(taken) - r.start
       /\ r.got <= r.max
       /\ r.got >= r.min \/ st = "ShutdownedWrite"

\* `state` refers to the object of an operation that waits, and an operation that
\* waits can be reached: through `state`, or through the stream it has called.
\* Hence the two ends never wait for each other, closing one end leaves nobody
\* waiting, and a watcher of an aborted pipe has been told.
NobodyIsStranded ==
  /\ r.at = "blocked" => st = IF r.op = "read" THEN "BlockedRead" ELSE "BlockedPumpTo"
  /\ w.at = "blocked" => st = IF w.op = "write" THEN "BlockedWrite" ELSE "BlockedPumpFrom"
  /\ st \in ReadStates => (r.at = "blocked" /\ r.got < r.min) \/ r.res = "failed"
  /\ st \in WriteStates => w.at = "blocked" \/ w.res = "failed"
  /\ r.at = "sub" <=> sub.kind \in ForRead
  /\ sub.kind \in ForRead => st \in WriteStates
  /\ w.at = "sub" <=> sub.kind \in ForWrite \cup {"eof"}
  /\ sub.kind \in ForWrite => st \in ReadStates
  /\ watch = "waiting" => st # "AbortedRead"

\* async-io.h:74-75: a pump returns "the total bytes actually pumped".
PumpsCountTheirBytes ==
  w.op = "pumpFrom" /\ w.res = "ok" => Count = Len(Moved)

\* Whatever is asked of the two ends, dropped or closed, in whatever order: no
\* promise of the pipe misreports its bytes, but for that count, and none is left
\* waiting for nobody.
PipesAreExact == TransfersAreExact /\ NobodyIsStranded
=============================================================================
