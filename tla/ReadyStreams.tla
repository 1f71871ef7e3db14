---------------------------- MODULE ReadyStreams ---------------------------
(***************************************************************************)
(* The readiness adapters of tls/readiness-io.cc, through which a library  *)
(* that wants non-blocking read() and write() uses asynchronous streams.   *)
(* ReadyOutputStreamWrapper keeps the bytes it has accepted in a ring, and *)
(* hands the filled part of the ring, not a copy, to output.write(); more  *)
(* bytes may be accepted before that call answers.  ReadyInputStreamWrapper *)
(* reads ahead into one buffer.                                            *)
(*                                                                         *)
(* Bytes are numbered in the order in which the caller writes them.        *)
(***************************************************************************)
EXTENDS Integers, Sequences

CONSTANTS Ring,       \* sizeof(buffer)
          WriteSizes, \* sizes of the data that write() is called with
          ReadSizes,  \* sizes of the destination that read() is called with
          MaxData     \* bound on the bytes accepted, and on those of the input

ASSUME ReadyAssumption ==
  /\ Ring \in Nat \ {0} /\ WriteSizes \subseteq Nat /\ ReadSizes \subseteq Nat

VARIABLES cell,      \* buffer: the byte in each cell
          start, filled, isPumping, corked,
          given,     \* the cells handed to output.write() by the pump under way, in order
          written,   \* number of bytes accepted by write()
          sent,      \* bytes that the output has taken
          failed,    \* a write of the output has failed
          content, atEnd, reading,   \* the input side: content, eof and isPumping
          received,  \* number of bytes that the input has yielded
          returned   \* bytes that read() has returned

readyVars == <<cell, start, filled, isPumping, corked, given, written, sent, failed,
               content, atEnd, reading, received, returned>>
outVars   == <<cell, start, filled, isPumping, corked, given, written, sent, failed>>
inVars    == <<content, atEnd, reading, received, returned>>

ReadyInit ==
  /\ cell = [i \in 0..(Ring - 1) |-> 0]
  /\ start = 0 /\ filled = 0 /\ isPumping = FALSE /\ corked = FALSE
  /\ given = <<>> /\ written = 0 /\ sent = <<>> /\ failed = FALSE
  /\ content = <<>> /\ atEnd = FALSE /\ reading = FALSE /\ received = 0 /\ returned = <<>>
---------------------------------------------------------------------------
(* ReadyOutputStreamWrapper                                                *)

\* The cells from a up to b, which is not one of them.
Cells(a, b) == [i \in 1..(b - a) |-> a + i - 1]

\* The cells that write() may copy into, in the order in which it fills them.
Space(s, n) ==
  LET end == s + n
  IN  IF end < Ring THEN Cells(end, Ring) \o Cells(0, s) ELSE Cells(end % Ring, s)

\* pump(): the segments given to output.write(), as a sequence of cells.
Segments(s, n) ==
  LET end == s + n
  IN  IF end <= Ring THEN Cells(s, end) ELSE Cells(s, Ring) \o Cells(0, end % Ring)

PumpEnd(s, n) == IF s + n <= Ring THEN s + n ELSE (s + n) % Ring

\* write(): copy what fits, and start the pump unless it runs or is corked.
WriteSome(n) ==
  LET room == Space(start, filled)
      m    == IF n < Len(room) THEN n ELSE Len(room)
  IN  /\ n > 0 /\ filled < Ring /\ written + n <= MaxData
      /\ cell' = [i \in DOMAIN cell |->
                    IF \E k \in 1..m : room[k] = i
                    THEN written + (CHOOSE k \in 1..m : room[k] = i) ELSE cell[i]]
      /\ written' = written + m
      /\ filled' = filled + m
      /\ IF ~isPumping /\ (~corked \/ filled + m = Ring)
         THEN isPumping' = TRUE /\ given' = Segments(start, filled + m)
         ELSE UNCHANGED <<isPumping, given>>
      /\ UNCHANGED <<start, corked, sent, failed, inVars>>

Cork == /\ ~corked /\ corked' = TRUE
        /\ UNCHANGED <<cell, start, filled, isPumping, given, written, sent, failed, inVars>>

\* uncork(), from the destructor of the Cork.
Uncork ==
  /\ corked /\ corked' = FALSE
  /\ IF ~isPumping /\ filled > 0
     THEN isPumping' = TRUE /\ given' = Segments(start, filled)
     ELSE UNCHANGED <<isPumping, given>>
  /\ UNCHANGED <<cell, start, filled, written, sent, failed, inVars>>

\* Mutant of PumpDone: the ring is reset although more has come in meanwhile.
PumpDoneAndReset ==
  /\ isPumping /\ ~failed
  /\ sent' = sent \o [k \in DOMAIN given |-> cell[given[k]]]
  /\ filled' = 0 /\ start' = 0 /\ given' = <<>> /\ isPumping' = FALSE
  /\ UNCHANGED <<cell, corked, written, failed, inVars>>

\* The output has taken the bytes that the cells hold by now: pump() goes on with
\* what has come in meanwhile, or stops and resets an empty ring.
PumpDone ==
  LET left == filled - Len(given)
      end  == PumpEnd(start, Len(given))
  IN  /\ isPumping /\ ~failed
      /\ sent' = sent \o [k \in DOMAIN given |-> cell[given[k]]]
      /\ filled' = left
      /\ IF left > 0
         THEN start' = end /\ given' = Segments(end, left) /\ UNCHANGED isPumping
         ELSE start' = 0 /\ given' = <<>> /\ isPumping' = FALSE
      /\ UNCHANGED <<cell, corked, written, failed, inVars>>

\* The output throws: isPumping stays set, and whenReady() passes the exception on.
PumpFails ==
  /\ isPumping /\ ~failed /\ failed' = TRUE
  /\ UNCHANGED <<cell, start, filled, isPumping, corked, given, written, sent, inVars>>
---------------------------------------------------------------------------
(* ReadyInputStreamWrapper                                                 *)

\* read(): take from the content, or start a read of the input if there is none.
ReadSome(n) ==
  LET m == IF n < Len(content) THEN n ELSE Len(content)
  IN  /\ ~atEnd /\ n > 0
      /\ IF content = <<>>
         THEN ~reading /\ reading' = TRUE /\ UNCHANGED <<content, returned>>
         ELSE /\ returned' = returned \o SubSeq(content, 1, m)
              /\ content' = SubSeq(content, m + 1, Len(content))
              /\ UNCHANGED reading
      /\ UNCHANGED <<outVars, atEnd, received>>

\* The input answers with n bytes, none at its end.
InputAnswers(n) ==
  /\ reading /\ received + n <= MaxData
  /\ reading' = FALSE
  /\ IF n = 0 THEN atEnd' = TRUE /\ UNCHANGED content
     ELSE content' = [i \in 1..n |-> received + i] /\ UNCHANGED atEnd
  /\ received' = received + n
  /\ UNCHANGED <<outVars, returned>>

ReadyNext ==
  \/ \E n \in WriteSizes : WriteSome(n)
  \/ Cork
  \/ Uncork
  \/ PumpDone
  \/ PumpFails
  \/ \E n \in ReadSizes : ReadSome(n)
  \/ \E n \in 0..Ring : InputAnswers(n)

ReadySpec == ReadyInit /\ [][ReadyNext]_readyVars
---------------------------------------------------------------------------
(* Properties                                                              *)

\* The output gets the bytes that were written, in order, although the ring wraps
\* and is written to while a part of it is on its way; whatever is in the ring and
\* not held back by a cork is on its way; and the input's bytes are not lost to
\* the next read-ahead.
ReadinessKeepsBytes ==
  /\ sent = [i \in 1..Len(sent) |-> i]
  /\ Len(sent) + filled = written
  /\ filled > 0 /\ (~corked \/ filled = Ring) => isPumping
  /\ returned \o content = [i \in 1..received |-> i]
=============================================================================
