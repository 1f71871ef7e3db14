--------------------------- MODULE FramingProofs ---------------------------
(***************************************************************************)
(* The proofs that FramingIsAgreed and ReuseStartsClean are invariants of  *)
(* HttpFraming: the two ends of an HTTP/1.1 connection agree on where each *)
(* message begins and ends, for any lengths, any writes and pumps, and any *)
(* split of the stream into reads.                                         *)
(*                                                                         *)
(* The argument.  The characters of a connection lead through places: a    *)
(* place says which message, what of it comes next, how many bytes of its  *)
(* body came before and how many the chunk or the body still has (Takes).  *)
(* The writer is at a place, after all that it has queued; the reader is   *)
(* at one, before all that it has buffered; and InStep says that what is   *)
(* between them (InFlight: the reader's buffer and leftover characters,    *)
(* the wire, the writer's queue and the write under way) leads from the    *)
(* one to the other.  When a write was lost half way, the stream was       *)
(* broken or the connection closed, it leads to some place of a message    *)
(* that was really sent.  The writer's steps make the run longer at its    *)
(* end, and the reader's make it shorter at its beginning: what the reader *)
(* takes for a header, a size or data is what the place where it is        *)
(* expects.                                                                *)
(*                                                                         *)
(* The hypothesis NoEmptyPump.  A source whose length is known to be 0     *)
(* makes the chunked writer send the chunk that ends the body; the run     *)
(* http_zero_chunk shows that then the ends do not agree.                  *)
(***************************************************************************)
EXTENDS HttpFraming, SequenceTheorems, WellFoundedInduction, TLAPS

Characters == {"head", "cr", "lf", "size", "byte"} \X Int

Points ==
  {"start", "headCR", "headLF", "blankCR", "blankLF", "body",
   "size", "sizeCR", "sizeLF", "dataCR", "dataLF", "endCR", "endLF"}

Places == [at : Points, m : Nat, f : Int, got : Nat, left : Nat]

(* Where a message head, or a chunk of n bytes, leads to. *)
AfterHead(f) == IF f = Chunked THEN "size" ELSE IF f = 0 THEN "start" ELSE "body"
AfterByte(p) == IF p.left > 1 THEN "body" ELSE IF p.f = Chunked THEN "dataCR" ELSE "start"
AfterSize(n) == IF n = 0 THEN "endCR" ELSE "body"

(* The place at, in the same message. *)
Within(p, at, got, left) ==
  [at |-> at, m |-> p.m, f |-> p.f, got |-> got, left |-> left]
At(p, at) == Within(p, at, p.got, p.left)

(* From place p the character c leads to place q. *)
Takes(p, c, q) ==
  \/ /\ p.at = "start"
     /\ \E f \in Framings :
          /\ c = <<"head", f>>
          /\ q = [at |-> "headCR", m |-> p.m + 1, f |-> f, got |-> 0,
                  left |-> IF f = Chunked THEN 0 ELSE f]
  \/ p.at = "headCR" /\ c = CR /\ q = At(p, "headLF")
  \/ p.at = "headLF" /\ c = LF /\ q = At(p, "blankCR")
  \/ p.at = "blankCR" /\ c = CR /\ q = At(p, "blankLF")
  \/ p.at = "blankLF" /\ c = LF /\ q = At(p, AfterHead(p.f))
  \/ /\ p.at = "body" /\ c = <<"byte", p.got + 1>>
     /\ q = Within(p, AfterByte(p), p.got + 1, p.left - 1)
  \/ /\ p.at = "size"
     /\ \E n \in Nat : c = <<"size", n>> /\ q = Within(p, "sizeCR", p.got, n)
  \/ p.at = "sizeCR" /\ c = CR /\ q = At(p, "sizeLF")
  \/ p.at = "sizeLF" /\ c = LF /\ q = At(p, AfterSize(p.left))
  \/ p.at = "dataCR" /\ c = CR /\ q = At(p, "dataLF")
  \/ p.at = "dataLF" /\ c = LF /\ q = At(p, "size")
  \/ p.at = "endCR" /\ c = CR /\ q = At(p, "endLF")
  \/ p.at = "endLF" /\ c = LF /\ q = At(p, "start")

InHead == {"headCR", "headLF", "blankCR", "blankLF"}
InChunks == {"size", "sizeCR", "sizeLF", "dataCR", "dataLF", "endCR", "endLF"}
NothingLeft == {"size", "dataCR", "dataLF", "endCR", "endLF", "start"}

IsEnd(p) == \/ p.at \in {"start", "endCR", "endLF"}
            \/ p.at \in {"sizeCR", "sizeLF"} /\ p.left = 0

(* A place is one that the messages in the log have: *)
Fits(p, log) ==
  /\ p.m <= Len(log)
  /\ p.m = 0 => p.at = "start" /\ p.got = 0
  /\ p.m > 0 => p.f = log[p.m].framing /\ p.got <= log[p.m].bytes
  /\ p.m > 0 /\ IsEnd(p) => /\ p.got = log[p.m].bytes
                            /\ p.f = Chunked => log[p.m].ended
                            /\ p.f # Chunked => p.got = p.f
  /\ p.at \in InChunks => p.f = Chunked
  /\ p.at \in InHead => p.got = 0 /\ p.left = IF p.f = Chunked THEN 0 ELSE p.f
  /\ p.at \in NothingLeft => p.left = 0
  /\ p.at = "body" => p.left > 0 /\ (p.f # Chunked => p.got + p.left = p.f)

(* The places that the characters of s lead through. *)
IsRun(run, s, log) ==
  /\ run \in [0..Len(s) -> Places]
  /\ \A i \in 1..Len(s) : Takes(run[i - 1], s[i], run[i])
  /\ \A i \in 0..Len(s) : Fits(run[i], log)
  /\ \A i, j \in 0..Len(s) : i <= j => run[i].m <= run[j].m

Leads(p, s, q, log) == \E run : IsRun(run, s, log) /\ run[0] = p /\ run[Len(s)] = q

-----------------------------------------------------------------------------

(* A set of numbers with 0 and with the successor of each of its members has
   all of them. *)
LEMMA CountingUp ==
  ASSUME NEW S \in SUBSET Nat, 0 \in S, \A n \in S : n + 1 \in S
  PROVE  S = Nat
<1> DEFINE R == OpToRel(<, Nat)
<1>1. SUFFICES ASSUME Nat \ S # {} PROVE FALSE
  BY <1>1
<1>2. PICK n \in Nat \ S : \A m \in Nat \ S : <<m, n>> \notin R
  <2>1. IsWellFoundedOn(R, Nat)
    BY NatLessThanWellFounded
  <2>2. Nat \ S \subseteq Nat
    OBVIOUS
  <2> HIDE DEF R
  <2> QED BY <1>1, <2>1, <2>2, WFMin
<1>3. \A m \in Nat \ S : ~(m < n)
  BY <1>2 DEF OpToRel
<1> HIDE DEF R
<1>4. n # 0 /\ n - 1 \in Nat /\ n - 1 < n
  BY <1>2
<1>5. n - 1 \in S
  BY <1>3, <1>4
<1>6. (n - 1) + 1 \in S
  BY <1>5
<1> QED BY <1>2, <1>4, <1>6

(* Nothing leads nowhere. *)
LEMMA LeadsNowhere ==
  ASSUME NEW p \in Places, NEW log, Fits(p, log)
  PROVE  Leads(p, <<>>, p, log)
<1>1. ASSUME NEW s, Len(s) = 0 PROVE Leads(p, s, p, log)
  <2> DEFINE run == [i \in 0..0 |-> p]
  <2>1. run \in [0..0 -> Places] /\ run[0] = p /\ \A i \in 0..0 : i = 0
    OBVIOUS
  <2>2. p.m <= p.m
    BY DEF Places
  <2> HIDE DEF run
  <2>3. /\ \A i \in 0..0 : Fits(run[i], log)
        /\ \A i, j \in 0..0 : i <= j => run[i].m <= run[j].m
    BY <2>1, <2>2
  <2>4. \A i \in 1..0 : Takes(run[i - 1], s[i], run[i])
    OBVIOUS
  <2>5. IsRun(run, s, log)
    BY <1>1, <2>1, <2>3, <2>4 DEF IsRun
  <2> QED BY <1>1, <2>1, <2>5 DEF Leads
<1>2. Len(<<>>) = 0
  OBVIOUS
<1> QED BY <1>1, <1>2

(* No characters lead only to where they start. *)
LEMMA NowhereElse ==
  ASSUME NEW p, NEW q, NEW log, Leads(p, <<>>, q, log)
  PROVE  p = q
BY DEF Leads, IsRun

(* Both ends of a run are places, the first no later than the last. *)
LEMMA LeadsAhead ==
  ASSUME NEW p, NEW s \in Seq(Characters), NEW q, NEW log, Leads(p, s, q, log)
  PROVE  /\ p \in Places /\ q \in Places
         /\ Fits(p, log) /\ Fits(q, log)
         /\ p.m <= q.m
<1>1. PICK run : IsRun(run, s, log) /\ run[0] = p /\ run[Len(s)] = q
  BY DEF Leads
<1>2. Len(s) \in Nat
  OBVIOUS
<1> QED BY <1>1, <1>2 DEF IsRun

(* One character leads one step. *)
LEMMA LeadsOn ==
  ASSUME NEW p \in Places, NEW c, NEW q \in Places, NEW log,
         Takes(p, c, q), Fits(p, log), Fits(q, log)
  PROVE  Leads(p, <<c>>, q, log)
<1> DEFINE run == [i \in 0..1 |-> IF i = 0 THEN p ELSE q]
<1>1. p.m <= q.m /\ p.m \in Nat /\ q.m \in Nat
  <2>1. \A at, got, left : Within(p, at, got, left).m = p.m
    BY DEF Within
  <2>2. p.m \in Nat /\ q.m \in Nat
    BY DEF Places
  <2>3. q.m = p.m \/ q.m = p.m + 1
    <3>1. CASE p.at = "start"
      BY <3>1 DEF Takes
    <3>2. CASE p.at # "start"
      BY <3>2, <2>1 DEF Takes, At
    <3> QED BY <3>1, <3>2
  <2> QED BY <2>2, <2>3
<1>2. Len(<<c>>) = 1 /\ <<c>>[1] = c
  OBVIOUS
<1>3. /\ run \in [0..1 -> Places] /\ run[0] = p /\ run[1] = q
  OBVIOUS
<1> HIDE DEF run
<1>4. \A i \in 1..1 : i = 1
  OBVIOUS
<1>5. \A i \in 0..1 : i = 0 \/ i = 1
  OBVIOUS
<1>6. \A i \in 1..1 : Takes(run[i - 1], <<c>>[i], run[i])
  BY <1>2, <1>3, <1>4
<1>7. \A i \in 0..1 : Fits(run[i], log)
  BY <1>3, <1>5
<1>8. \A i, j \in 0..1 : i <= j => run[i].m <= run[j].m
  BY <1>1, <1>3, <1>5
<1>9. IsRun(run, <<c>>, log)
  BY <1>2, <1>3, <1>6, <1>7, <1>8 DEF IsRun
<1> QED BY <1>2, <1>3, <1>9 DEF Leads

(* Runs are joined. *)
LEMMA LeadsThrough ==
  ASSUME NEW p, NEW q, NEW r, NEW log,
         NEW s \in Seq(Characters), NEW t \in Seq(Characters),
         Leads(p, s, q, log), Leads(q, t, r, log)
  PROVE  Leads(p, s \o t, r, log)
<1>1. PICK a : IsRun(a, s, log) /\ a[0] = p /\ a[Len(s)] = q
  BY DEF Leads
<1>2. PICK b : IsRun(b, t, log) /\ b[0] = q /\ b[Len(t)] = r
  BY DEF Leads
<1> DEFINE n == Len(s)
           k == Len(t)
           run == [i \in 0..(n + k) |-> IF i <= n THEN a[i] ELSE b[i - n]]
<1>3. n \in Nat /\ k \in Nat /\ Len(s \o t) = n + k
  OBVIOUS
<1>4. /\ \A i \in 1..n : (s \o t)[i] = s[i]
      /\ \A i \in 1..k : (s \o t)[n + i] = t[i]
  OBVIOUS
<1>5. /\ a \in [0..n -> Places] /\ b \in [0..k -> Places]
      /\ \A i \in 1..n : Takes(a[i - 1], s[i], a[i])
      /\ \A i \in 1..k : Takes(b[i - 1], t[i], b[i])
      /\ \A i \in 0..n : Fits(a[i], log)
      /\ \A i \in 0..k : Fits(b[i], log)
      /\ \A i, j \in 0..n : i <= j => a[i].m <= a[j].m
      /\ \A i, j \in 0..k : i <= j => b[i].m <= b[j].m
  BY <1>1, <1>2 DEF IsRun
<1> HIDE DEF n, k
<1>6. /\ \A i \in 0..n : run[i] = a[i]
      /\ \A i \in 0..k : run[n + i] = b[i]
  <2>1. \A i \in 0..n : run[i] = a[i]
    BY <1>3
  <2>2. ASSUME NEW i \in 0..k PROVE run[n + i] = b[i]
    <3>1. CASE i = 0
      BY <3>1, <1>1, <1>2, <1>3 DEF n
    <3>2. CASE i > 0
      BY <3>2, <1>3
    <3> QED BY <3>1, <3>2
  <2> QED BY <2>1, <2>2
<1>7. \A i \in 0..(n + k) : i \in 0..n \/ (i - n \in 1..k /\ n + (i - n) = i)
  BY <1>3
<1>8. run \in [0..(n + k) -> Places]
  <2>1. ASSUME NEW i \in 0..(n + k) PROVE (IF i <= n THEN a[i] ELSE b[i - n]) \in Places
    <3>1. CASE i <= n
      <4>1. i \in 0..n
        BY <3>1, <1>3
      <4> QED BY <3>1, <4>1, <1>5
    <3>2. CASE ~(i <= n)
      <4>1. i - n \in 0..k
        BY <3>2, <1>3
      <4> QED BY <3>2, <4>1, <1>5
    <3> QED BY <3>1, <3>2
  <2> QED BY <2>1
<1>9. ASSUME NEW i \in 1..(n + k) PROVE Takes(run[i - 1], (s \o t)[i], run[i])
  <2>1. CASE i \in 1..n
    <3>0. i - 1 \in 0..n /\ i \in 0..n
      BY <2>1, <1>3
    <3>1. run[i - 1] = a[i - 1] /\ run[i] = a[i]
      BY <3>0, <1>6
    <3> QED BY <2>1, <3>1, <1>4, <1>5
  <2>2. CASE i \notin 1..n
    <3> DEFINE j == i - n
    <3> HIDE DEF run
    <3>1. j \in 1..k /\ j - 1 \in 0..k /\ j \in 0..k /\ n + j = i /\ n + (j - 1) = i - 1
      BY <2>2, <1>3
    <3>2. run[i - 1] = b[j - 1] /\ run[i] = b[j] /\ (s \o t)[i] = t[j]
      BY <3>1, <1>4, <1>6
    <3> HIDE DEF j
    <3> QED BY <3>1, <3>2, <1>5
  <2> QED BY <2>1, <2>2
<1>10. \A i \in 0..(n + k) : Fits(run[i], log)
  <2> SUFFICES ASSUME NEW i \in 0..(n + k) PROVE Fits(run[i], log)
    OBVIOUS
  <2>1. CASE i \in 0..n
    BY <2>1, <1>5, <1>6
  <2>2. CASE i - n \in 1..k /\ n + (i - n) = i
    <3>1. run[i] = b[i - n] /\ i - n \in 0..k
      BY <2>2, <1>6, <1>3
    <3> QED BY <3>1, <1>5
  <2> QED BY <2>1, <2>2, <1>7
<1>11. \A i, j \in 0..(n + k) : i <= j => run[i].m <= run[j].m
  <2> SUFFICES ASSUME NEW i \in 0..(n + k), NEW j \in 0..(n + k), i <= j
               PROVE  run[i].m <= run[j].m
    OBVIOUS
  <2>1. CASE i \in 0..n /\ j \in 0..n
    BY <2>1, <1>5, <1>6
  <2>2. CASE i \in 0..n /\ j \notin 0..n
    <3>1. j - n \in 0..k /\ n + (j - n) = j /\ 0 \in 0..k /\ n \in 0..n
      BY <2>2, <1>3
    <3>2. run[i] = a[i] /\ run[j] = b[j - n] /\ a[n] = b[0]
      BY <2>2, <3>1, <1>6, <1>1, <1>2 DEF n
    <3>3. a[i].m <= a[n].m /\ b[0].m <= b[j - n].m
      BY <2>2, <3>1, <1>5, <1>3
    <3>4. a[i] \in Places /\ a[n] \in Places /\ b[j - n] \in Places
      BY <2>2, <3>1, <1>5
    <3>5. a[i].m \in Nat /\ a[n].m \in Nat /\ b[j - n].m \in Nat
      BY <3>4 DEF Places
    <3> QED BY <3>2, <3>3, <3>5
  <2>3. CASE i \notin 0..n
    <3>1. i - n \in 0..k /\ j - n \in 0..k /\ i - n <= j - n
          /\ n + (i - n) = i /\ n + (j - n) = j
      BY <2>3, <1>3
    <3>2. run[i] = b[i - n] /\ run[j] = b[j - n]
      BY <3>1, <1>6
    <3> QED BY <3>1, <3>2, <1>5
  <2> QED BY <2>1, <2>2, <2>3
<1>12. run[0] = p /\ run[n + k] = r
  BY <1>1, <1>2, <1>3, <1>6 DEF k
<1>13. IsRun(run, s \o t, log)
  BY <1>3, <1>8, <1>9, <1>10, <1>11 DEF IsRun
<1> QED BY <1>3, <1>12, <1>13 DEF Leads

(* A run is split anywhere. *)
LEMMA LeadsHalfway ==
  ASSUME NEW p, NEW r, NEW log,
         NEW s \in Seq(Characters), NEW t \in Seq(Characters),
         Leads(p, s \o t, r, log)
  PROVE  \E q \in Places : Leads(p, s, q, log) /\ Leads(q, t, r, log)
<1>1. PICK run : IsRun(run, s \o t, log) /\ run[0] = p /\ run[Len(s \o t)] = r
  BY DEF Leads
<1> DEFINE n == Len(s)
           k == Len(t)
           a == [i \in 0..n |-> run[i]]
           b == [i \in 0..k |-> run[n + i]]
<1>2. n \in Nat /\ k \in Nat /\ Len(s \o t) = n + k
  OBVIOUS
<1>3. /\ \A i \in 1..n : (s \o t)[i] = s[i]
      /\ \A i \in 1..k : (s \o t)[n + i] = t[i]
  OBVIOUS
<1>4. /\ run \in [0..(n + k) -> Places]
      /\ \A i \in 1..(n + k) : Takes(run[i - 1], (s \o t)[i], run[i])
      /\ \A i \in 0..(n + k) : Fits(run[i], log)
      /\ \A i, j \in 0..(n + k) : i <= j => run[i].m <= run[j].m
  BY <1>1, <1>2 DEF IsRun
<1> HIDE DEF n, k
<1>5. IsRun(a, s, log)
  <2>1. a \in [0..n -> Places]
    BY <1>2, <1>4
  <2>2. \A i \in 0..n : a[i] = run[i] /\ i \in 0..(n + k)
    BY <1>2
  <2>3. \A i \in 1..n : i \in 0..n /\ i - 1 \in 0..n /\ i \in 1..(n + k)
    BY <1>2
  <2> HIDE DEF a
  <2>4. \A i \in 1..n : Takes(a[i - 1], s[i], a[i])
    BY <2>2, <2>3, <1>3, <1>4
  <2>5. \A i \in 0..n : Fits(a[i], log)
    BY <2>2, <1>4
  <2>6. \A i, j \in 0..n : i <= j => a[i].m <= a[j].m
    BY <2>2, <1>4
  <2> QED BY <2>1, <2>4, <2>5, <2>6 DEF IsRun, n
<1>6. IsRun(b, t, log)
  <2>1. b \in [0..k -> Places]
    BY <1>2, <1>4
  <2>2. \A i \in 0..k : b[i] = run[n + i] /\ n + i \in 0..(n + k)
    BY <1>2
  <2>3. \A i \in 1..k : i \in 0..k /\ i - 1 \in 0..k /\ n + i \in 1..(n + k)
                        /\ (n + i) - 1 = n + (i - 1)
    BY <1>2
  <2> HIDE DEF b
  <2>4. \A i \in 1..k : Takes(b[i - 1], t[i], b[i])
    <3> TAKE i \in 1..k
    <3>1. b[i - 1] = run[n + (i - 1)] /\ b[i] = run[n + i]
      BY <2>2, <2>3
    <3>2. Takes(run[(n + i) - 1], (s \o t)[n + i], run[n + i])
      BY <2>3, <1>4
    <3>3. (s \o t)[n + i] = t[i] /\ (n + i) - 1 = n + (i - 1)
      BY <2>3, <1>3
    <3> QED BY <3>1, <3>2, <3>3
  <2>5. \A i \in 0..k : Fits(b[i], log)
    BY <2>2, <1>4
  <2>6. \A i, j \in 0..k : i <= j => b[i].m <= b[j].m
    BY <2>2, <1>4, <1>2
  <2> QED BY <2>1, <2>4, <2>5, <2>6 DEF IsRun, k
<1>7. a[0] = p /\ a[n] = run[n] /\ b[0] = run[n] /\ b[k] = r /\ run[n] \in Places
  BY <1>1, <1>2, <1>4 
<1> HIDE DEF a, b
<1>8. Leads(p, s, run[n], log) /\ Leads(run[n], t, r, log)
  BY <1>5, <1>6, <1>7 DEF Leads, n, k
<1> QED BY <1>7, <1>8

-----------------------------------------------------------------------------
(* The places of a message                                                  *)

(* The head of the next message leads to its body. *)
Begun(p, f) ==
  [at |-> AfterHead(f), m |-> p.m + 1, f |-> f, got |-> 0,
   left |-> IF f = Chunked THEN 0 ELSE f]

(* k bytes lead on in the body, or to its end. *)
AfterBytes(p, k) ==
  Within(p, IF k < p.left THEN "body" ELSE IF p.f = Chunked THEN "dataCR" ELSE "start",
         p.got + k, p.left - k)

(* What a place expects, and where it leads to. *)
LEMMA Steps ==
  ASSUME NEW p, NEW c, NEW q, Takes(p, c, q)
  PROVE  /\ p.at = "start" =>
              \E f \in Framings :
                c = <<"head", f>> /\ q = [Begun(p, f) EXCEPT !.at = "headCR"]
         /\ p.at = "headCR" => c = CR /\ q = At(p, "headLF")
         /\ p.at = "headLF" => c = LF /\ q = At(p, "blankCR")
         /\ p.at = "blankCR" => c = CR /\ q = At(p, "blankLF")
         /\ p.at = "blankLF" => c = LF /\ q = At(p, AfterHead(p.f))
         /\ p.at = "body" => c = <<"byte", p.got + 1>> /\ q = AfterBytes(p, 1)
         /\ p.at = "size" => \E n \in Nat : c = <<"size", n>> /\ q = Within(p, "sizeCR", p.got, n)
         /\ p.at = "sizeCR" => c = CR /\ q = At(p, "sizeLF")
         /\ p.at = "sizeLF" => c = LF /\ q = At(p, AfterSize(p.left))
         /\ p.at = "dataCR" => c = CR /\ q = At(p, "dataLF")
         /\ p.at = "dataLF" => c = LF /\ q = At(p, "size")
         /\ p.at = "endCR" => c = CR /\ q = At(p, "endLF")
         /\ p.at = "endLF" => c = LF /\ q = At(p, "start")
<1>1. CASE p.at = "start"
  BY <1>1 DEF Takes, Begun
<1>2. CASE p.at = "body"
  BY <1>2 DEF Takes, AfterBytes, AfterByte
<1>3. CASE p.at \notin {"start", "body"}
  BY <1>3 DEF Takes
<1> QED BY <1>1, <1>2, <1>3

(* A character is taken by one step. *)
LEMMA OneStep ==
  ASSUME NEW p, NEW c, NEW q, NEW log, Leads(p, <<c>>, q, log)
  PROVE  Takes(p, c, q)
<1>1. PICK run : IsRun(run, <<c>>, log) /\ run[0] = p /\ run[Len(<<c>>)] = q
  BY DEF Leads
<1>2. Len(<<c>>) = 1 /\ <<c>>[1] = c /\ 1 \in 1..1 /\ 1 - 1 = 0
  OBVIOUS
<1>3. \A i \in 1..Len(<<c>>) : Takes(run[i - 1], <<c>>[i], run[i])
  BY <1>1 DEF IsRun
<1>4. Takes(run[1 - 1], <<c>>[1], run[1])
  BY <1>2, <1>3
<1> QED BY <1>1, <1>2, <1>4

(* The first character of a run. *)
LEMMA FirstStep ==
  ASSUME NEW p, NEW s \in Seq(Characters), s # <<>>, NEW q, NEW log, Leads(p, s, q, log)
  PROVE  \E r \in Places : Takes(p, s[1], r) /\ Leads(r, Tail(s), q, log)
<1>1. s = <<s[1]>> \o Tail(s) /\ Tail(s) \in Seq(Characters) /\ s[1] \in Characters
  BY SMTT(30)
<1>2. <<s[1]>> \in Seq(Characters)
  BY <1>1
<1>3. PICK r \in Places : Leads(p, <<s[1]>>, r, log) /\ Leads(r, Tail(s), q, log)
  BY <1>1, <1>2, LeadsHalfway
<1> QED BY <1>3, OneStep

(* A message head takes five characters. *)
LEMMA HeadTaken ==
  ASSUME NEW p \in Places, p.at = "start", NEW h \in Seq(Characters), Len(h) = 5,
         NEW q, NEW log, Leads(p, h, q, log)
  PROVE  \E f \in Framings :
           /\ h[1] = <<"head", f>> /\ h[2] = CR /\ h[3] = LF /\ h[4] = CR /\ h[5] = LF
           /\ q = Begun(p, f)
<1>1. PICK run : IsRun(run, h, log) /\ run[0] = p /\ run[Len(h)] = q
  BY DEF Leads
<1>2. \A i \in 1..5 : Takes(run[i - 1], h[i], run[i])
  BY <1>1 DEF IsRun
<1>3. /\ Takes(p, h[1], run[1]) /\ Takes(run[1], h[2], run[2]) /\ Takes(run[2], h[3], run[3])
      /\ Takes(run[3], h[4], run[4]) /\ Takes(run[4], h[5], q)
  <2>1. Takes(run[1 - 1], h[1], run[1]) /\ Takes(run[2 - 1], h[2], run[2])
    BY <1>2
  <2>2. Takes(run[3 - 1], h[3], run[3]) /\ Takes(run[4 - 1], h[4], run[4])
        /\ Takes(run[5 - 1], h[5], run[5])
    BY <1>2
  <2> QED BY <1>1, <2>1, <2>2
<1>4. PICK f \in Framings : h[1] = <<"head", f>> /\ run[1] = [Begun(p, f) EXCEPT !.at = "headCR"]
  BY <1>3, Steps
<1>5. run[1] = [at |-> "headCR", m |-> p.m + 1, f |-> f, got |-> 0,
                left |-> IF f = Chunked THEN 0 ELSE f]
  BY <1>4 DEF Begun
<1>6. h[2] = CR /\ run[2] = [at |-> "headLF", m |-> p.m + 1, f |-> f, got |-> 0,
                             left |-> IF f = Chunked THEN 0 ELSE f]
  <2>1. run[1].at = "headCR"
    BY <1>5
  <2> QED BY <2>1, <1>3, <1>5, Steps DEF At, Within
<1>7. h[3] = LF /\ run[3] = [at |-> "blankCR", m |-> p.m + 1, f |-> f, got |-> 0,
                             left |-> IF f = Chunked THEN 0 ELSE f]
  <2>1. run[2].at = "headLF"
    BY <1>6
  <2> QED BY <2>1, <1>3, <1>6, Steps DEF At, Within
<1>8. h[4] = CR /\ run[4] = [at |-> "blankLF", m |-> p.m + 1, f |-> f, got |-> 0,
                             left |-> IF f = Chunked THEN 0 ELSE f]
  <2>1. run[3].at = "blankCR"
    BY <1>7
  <2> QED BY <2>1, <1>3, <1>7, Steps DEF At, Within
<1>9. h[5] = LF /\ q = Begun(p, f)
  <2>1. run[4].at = "blankLF" /\ run[4].f = f
    BY <1>8
  <2>2. h[5] = LF /\ q = At(run[4], AfterHead(f))
    BY <2>1, <1>3, Steps
  <2> QED BY <2>2, <1>8 DEF At, Within, Begun
<1> QED BY <1>4, <1>6, <1>7, <1>8, <1>9

(* The header of a chunk takes three. *)
LEMMA SizeTaken ==
  ASSUME NEW p \in Places, p.at = "size", NEW h \in Seq(Characters), Len(h) = 3,
         NEW q, NEW log, Leads(p, h, q, log)
  PROVE  \E n \in Nat :
           /\ h[1] = <<"size", n>> /\ h[2] = CR /\ h[3] = LF
           /\ q = Within(p, AfterSize(n), p.got, n)
<1>1. PICK run : IsRun(run, h, log) /\ run[0] = p /\ run[Len(h)] = q
  BY DEF Leads
<1>2. \A i \in 1..3 : Takes(run[i - 1], h[i], run[i])
  BY <1>1 DEF IsRun
<1>3. Takes(p, h[1], run[1]) /\ Takes(run[1], h[2], run[2]) /\ Takes(run[2], h[3], q)
  <2>1. Takes(run[1 - 1], h[1], run[1]) /\ Takes(run[2 - 1], h[2], run[2])
        /\ Takes(run[3 - 1], h[3], run[3])
    BY <1>2
  <2> QED BY <1>1, <2>1
<1>4. PICK n \in Nat : h[1] = <<"size", n>> /\ run[1] = Within(p, "sizeCR", p.got, n)
  BY <1>3, Steps
<1>5. run[1].at = "sizeCR"
  BY <1>4 DEF Within
<1>6. h[2] = CR /\ run[2] = Within(p, "sizeLF", p.got, n)
  BY <1>3, <1>4, <1>5, Steps DEF At, Within
<1>7. run[2].at = "sizeLF" /\ run[2].left = n
  BY <1>6 DEF Within
<1>8. h[3] = LF /\ q = At(run[2], AfterSize(n))
  BY <1>3, <1>7, Steps
<1>9. q = Within(p, AfterSize(n), p.got, n)
  BY <1>6, <1>8 DEF At, Within
<1> QED BY <1>4, <1>6, <1>8, <1>9

(* A sequence is empty if its length is 0. *)
LEMMA EmptyOrNot == \A s \in Seq(Characters) : (Len(s) = 0) <=> (s = <<>>)
  OBVIOUS

(* It does not end before its third. *)
LEMMA SizeNotYet ==
  ASSUME NEW p \in Places, p.at = "size", NEW s \in Seq(Characters),
         NEW q, NEW log, Leads(p, s, q, log), Len(s) <= 2
  PROVE  \A i \in 1..Len(s) : s[i] # LF
<1>1. CASE s = <<>>
  BY <1>1
<1>2. CASE s # <<>>
  <2>1. PICK r \in Places : Takes(p, s[1], r) /\ Leads(r, Tail(s), q, log)
    BY <1>2, FirstStep
  <2>2. PICK n \in Nat : s[1] = <<"size", n>> /\ r = Within(p, "sizeCR", p.got, n)
    BY <2>1, Steps
  <2>3. s[1] # LF
    BY <2>2 DEF LF
  <2>4. CASE Len(s) = 1
    BY <2>3, <2>4
  <2>5. CASE Len(s) = 2
    <3>1. Tail(s) \in Seq(Characters) /\ Tail(s) # <<>> /\ Tail(s)[1] = s[2]
      <4>1. /\ Tail(s) \in Seq(Characters) /\ Len(Tail(s)) = Len(s) - 1
            /\ \A i \in 1..Len(Tail(s)) : Tail(s)[i] = s[i + 1]
        BY <1>2, HeadTailProperties
      <4>2. Len(Tail(s)) = 1
        BY <2>5, <4>1
      <4>3. Tail(s) # <<>>
        <5>1. ASSUME NEW t, Len(t) = 1 PROVE t # <<>>
          BY <5>1
        <5> QED BY <4>2, <5>1
      <4>4. Tail(s)[1] = s[1 + 1]
        BY <4>1, <4>2
      <4> QED BY <4>1, <4>3, <4>4
    <3>2. PICK u \in Places : Takes(r, s[2], u)
      BY <2>1, <3>1, FirstStep
    <3>3. r.at = "sizeCR"
      BY <2>2 DEF Within
    <3>4. s[2] # LF
      BY <3>2, <3>3, Steps DEF CR, LF
    <3> QED BY <2>3, <3>4, <2>5
  <2>6. Len(s) \in Nat /\ Len(s) # 0
    BY <1>2, EmptyOrNot
  <2>7. Len(s) = 1 \/ Len(s) = 2
    <3>1. \A x \in Nat : x # 0 /\ x <= 2 => x = 1 \/ x = 2
      OBVIOUS
    <3> QED BY <2>6, <3>1
  <2> QED BY <2>4, <2>5, <2>7
<1> QED BY <1>1, <1>2

-----------------------------------------------------------------------------
(* Bytes                                                                    *)

(* The bytes that a write of n bytes sends. *)
LEMMA BytesAre ==
  \A from, n \in Nat : /\ Bytes(from, n) \in Seq(Characters)
                       /\ Len(Bytes(from, n)) = n
                       /\ \A i \in 1..n : Bytes(from, n)[i] = <<"byte", from + i>>
<1> SUFFICES ASSUME NEW from \in Nat, NEW n \in Nat
             PROVE  /\ Bytes(from, n) \in Seq(Characters)
                    /\ Len(Bytes(from, n)) = n
                    /\ \A i \in 1..n : Bytes(from, n)[i] = <<"byte", from + i>>
  OBVIOUS
<1>1. \A i \in 1..n : <<"byte", from + i>> \in Characters
  BY DEF Characters
<1>2. [i \in 1..n |-> <<"byte", from + i>>] \in [1..n -> Characters]
  BY <1>1
<1> DEFINE b == [i \in 1..n |-> <<"byte", from + i>>]
<1>3. Bytes(from, n) = b
  BY DEF Bytes
<1>4. b \in Seq(Characters) /\ Len(b) = n
  BY <1>2
<1> QED BY <1>3, <1>4

(* Where bytes lead to, they lead through the body. *)
LEMMA BytesTaken ==
  ASSUME NEW p \in Places, p.at = "body", p.left > 0,
         NEW d \in Seq(Characters), Len(d) <= p.left,
         NEW q, NEW log, Leads(p, d, q, log)
  PROVE  d = Bytes(p.got, Len(d)) /\ q = AfterBytes(p, Len(d))
<1>1. PICK run : IsRun(run, d, log) /\ run[0] = p /\ run[Len(d)] = q
  BY DEF Leads
<1>2. \A i \in 1..Len(d) : Takes(run[i - 1], d[i], run[i])
  BY <1>1 DEF IsRun
<1>3. p.got \in Nat /\ p.left \in Nat /\ Len(d) \in Nat
  BY DEF Places
<1> DEFINE S == {i \in Nat : i <= Len(d) => run[i] = AfterBytes(p, i)}
<1>4. 0 \in S
  <2>1. AfterBytes(p, 0) = p
    BY <1>3 DEF AfterBytes, Within, Places
  <2> QED BY <1>1, <2>1
<1>5. ASSUME NEW i \in S PROVE i + 1 \in S
  <2>1. SUFFICES ASSUME i + 1 <= Len(d) PROVE run[i + 1] = AfterBytes(p, i + 1)
    BY <1>3
  <2>2. i \in Nat /\ i < p.left /\ run[i] = AfterBytes(p, i)
    BY <1>3, <2>1
  <2>3. run[i] = Within(p, "body", p.got + i, p.left - i)
    BY <2>2 DEF AfterBytes
  <2>4. i + 1 \in 1..Len(d) /\ (i + 1) - 1 = i
    BY <1>3, <2>1, <2>2
  <2>5. Takes(run[i], d[i + 1], run[i + 1])
    BY <1>2, <2>4
  <2>6. run[i].at = "body" /\ run[i].f = p.f /\ run[i].m = p.m
        /\ run[i].got = p.got + i /\ run[i].left = p.left - i
    BY <2>3 DEF Within
  <2>7. run[i + 1] = AfterBytes(run[i], 1)
    BY <2>5, <2>6, Steps
  <2>8. /\ 1 < p.left - i <=> i + 1 < p.left
        /\ (p.got + i) + 1 = p.got + (i + 1) /\ (p.left - i) - 1 = p.left - (i + 1)
    BY <1>3, <2>2
  <2>9. AfterBytes(run[i], 1) =
          Within(p, IF i + 1 < p.left THEN "body" ELSE IF p.f = Chunked THEN "dataCR" ELSE "start",
                 p.got + (i + 1), p.left - (i + 1))
    BY <2>6, <2>8 DEF AfterBytes, Within
  <2> QED BY <2>7, <2>9 DEF AfterBytes
<1>6. S = Nat
  <2>1. S \in SUBSET Nat
    OBVIOUS
  <2> HIDE DEF S
  <2> QED BY <1>4, <1>5, <2>1, CountingUp
<1>7. \A i \in 0..Len(d) : run[i] = AfterBytes(p, i)
  BY <1>3, <1>6
<1>8. q = AfterBytes(p, Len(d))
  BY <1>1, <1>3, <1>7
<1>9. ASSUME NEW i \in 1..Len(d) PROVE d[i] = <<"byte", p.got + i>>
  <2>1. i - 1 \in 0..Len(d) /\ i - 1 < p.left /\ p.got + (i - 1) + 1 = p.got + i
    BY <1>3
  <2>2. run[i - 1] = Within(p, "body", p.got + (i - 1), p.left - (i - 1))
    BY <1>7, <2>1 DEF AfterBytes
  <2>3. run[i - 1].at = "body" /\ run[i - 1].got = p.got + (i - 1)
    BY <2>2 DEF Within
  <2> QED BY <1>2, <2>1, <2>3, Steps
<1>10. d = Bytes(p.got, Len(d))
  <2> DEFINE b == Bytes(p.got, Len(d))
  <2>1. b \in Seq(Characters) /\ Len(b) = Len(d) /\ \A i \in 1..Len(d) : b[i] = d[i]
    BY <1>3, <1>9, BytesAre
  <2> HIDE DEF b
  <2>2. b = d
    BY <2>1
  <2> QED BY <2>2 DEF b
<1> QED BY <1>8, <1>10

(* The bytes that a body expects lead through it. *)
LEMMA BytesLead ==
  ASSUME NEW p \in Places, p.at = "body", NEW k \in Nat, k <= p.left, p.left > 0,
         NEW log, \A i \in 0..k : Fits(AfterBytes(p, i), log)
  PROVE  Leads(p, Bytes(p.got, k), AfterBytes(p, k), log)
<1> DEFINE run == [i \in 0..k |-> AfterBytes(p, i)]
           b == Bytes(p.got, k)
<1>1. p.got \in Nat /\ p.left \in Nat
  BY DEF Places
<1>2. Len(b) = k /\ \A i \in 1..k : b[i] = <<"byte", p.got + i>>
  BY <1>1, BytesAre
<1>3. \A i \in 0..k : run[i] = AfterBytes(p, i)
  OBVIOUS
<1>4. run \in [0..k -> Places]
  <2>1. ASSUME NEW i \in 0..k PROVE AfterBytes(p, i) \in Places
    <3>1. p.got + i \in Nat /\ p.left - i \in Nat /\ p.m \in Nat /\ p.f \in Int
      BY <1>1 DEF Places
    <3> QED BY <3>1 DEF AfterBytes, Within, Places, Points
  <2> QED BY <2>1
<1> HIDE DEF run, b
<1>5. ASSUME NEW i \in 1..k PROVE Takes(run[i - 1], b[i], run[i])
  <2>1. i - 1 \in 0..k /\ i \in 0..k /\ i - 1 < p.left
    BY <1>1
  <2>2. run[i - 1] = Within(p, "body", p.got + (i - 1), p.left - (i - 1))
    BY <1>3, <2>1 DEF AfterBytes
  <2> DEFINE r == Within(p, "body", p.got + (i - 1), p.left - (i - 1))
  <2>3. r.at = "body" /\ r.m = p.m /\ r.f = p.f
        /\ r.got = p.got + (i - 1) /\ r.left = p.left - (i - 1)
    BY DEF Within
  <2> HIDE DEF r
  <2>4. r.got + 1 = p.got + i /\ r.left - 1 = p.left - i /\ (r.left > 1 <=> i < p.left)
    BY <1>1, <2>3
  <2>5. Within(r, AfterByte(r), r.got + 1, r.left - 1) = AfterBytes(p, i)
    BY <2>3, <2>4 DEF Within, AfterByte, AfterBytes
  <2>6. Takes(r, b[i], AfterBytes(p, i))
    BY <1>2, <2>3, <2>4, <2>5 DEF Takes
  <2> QED BY <1>3, <2>1, <2>2, <2>6 DEF r
<1>6. \A i \in 0..k : Fits(run[i], log)
  BY <1>3
<1>7. \A i \in 0..k : run[i].m = p.m
  <2>1. \A at, got, left : Within(p, at, got, left).m = p.m
    BY DEF Within
  <2> QED BY <1>3, <2>1 DEF AfterBytes
<1>8. \A i, j \in 0..k : i <= j => run[i].m <= run[j].m
  <2>1. p.m \in Nat
    BY DEF Places
  <2> QED BY <1>7, <2>1
<1>9. run[0] = p
  <2>1. AfterBytes(p, 0) = p
    BY <1>1 DEF AfterBytes, Within, Places
  <2> QED BY <1>3, <2>1
<1>10. run[k] = AfterBytes(p, k)
  BY <1>3
<1>11. IsRun(run, b, log)
  BY <1>2, <1>4, <1>5, <1>6, <1>8 DEF IsRun
<1> QED BY <1>2, <1>9, <1>10, <1>11 DEF Leads, b

-----------------------------------------------------------------------------
(* What the writers send                                                    *)

Messages == [framing : Framings, bytes : Nat, ended : BOOLEAN]

(* A message whose last byte was written. *)
Complete(e) == IF e.framing = Chunked THEN e.ended ELSE e.bytes = e.framing

(* Later there are more messages, and more of each that is not complete. *)
Grows(a, b) ==
  /\ Len(a) <= Len(b)
  /\ \A m \in 1..Len(a) :
       /\ b[m].framing = a[m].framing /\ a[m].bytes <= b[m].bytes
       /\ a[m].ended => b[m].ended
       /\ Complete(a[m]) => b[m].bytes = a[m].bytes

(* A place in the messages is a place in them when there are more. *)
LEMMA FitsLater ==
  ASSUME NEW p \in Places, NEW a \in Seq(Messages), NEW b \in Seq(Messages),
         Grows(a, b), Fits(p, a)
  PROVE  Fits(p, b)
<1>1. p.m \in Nat /\ p.got \in Nat /\ Len(a) \in Nat /\ Len(b) \in Nat
  BY DEF Places
<1>2. p.m <= Len(a) /\ p.m <= Len(b)
  BY <1>1 DEF Fits, Grows
<1>3. CASE p.m = 0
  BY <1>1, <1>2, <1>3 DEF Fits
<1>4. CASE p.m > 0
  <2>1. p.m \in 1..Len(a) /\ p.m \in 1..Len(b)
    BY <1>1, <1>2, <1>4
  <2>2. /\ b[p.m].framing = a[p.m].framing /\ a[p.m].bytes <= b[p.m].bytes
        /\ a[p.m].ended => b[p.m].ended
        /\ Complete(a[p.m]) => b[p.m].bytes = a[p.m].bytes
    BY <2>1 DEF Grows
  <2>3. a[p.m].bytes \in Nat /\ b[p.m].bytes \in Nat
    <3>1. a[p.m] \in Messages /\ b[p.m] \in Messages
      BY <2>1
    <3> QED BY <3>1 DEF Messages
  <2>4. p.f = a[p.m].framing /\ p.got <= a[p.m].bytes
    BY <1>4 DEF Fits
  <2>5. p.f = b[p.m].framing /\ p.got <= b[p.m].bytes
    BY <1>1, <2>2, <2>3, <2>4
  <2>6. ASSUME IsEnd(p)
        PROVE  /\ p.got = b[p.m].bytes
               /\ p.f = Chunked => b[p.m].ended
               /\ p.f # Chunked => p.got = p.f
    <3>1. /\ p.got = a[p.m].bytes
          /\ p.f = Chunked => a[p.m].ended
          /\ p.f # Chunked => p.got = p.f
      BY <1>4, <2>6 DEF Fits
    <3>2. Complete(a[p.m])
      BY <2>4, <3>1 DEF Complete
    <3> QED BY <2>2, <3>1, <3>2
  <2> QED BY <1>2, <1>4, <2>5, <2>6 DEF Fits
<1> QED BY <1>1, <1>3, <1>4

(* What was sent still leads where it led when more is sent. *)
LEMMA LeadsLater ==
  ASSUME NEW p, NEW q, NEW s \in Seq(Characters),
         NEW a \in Seq(Messages), NEW b \in Seq(Messages), Grows(a, b), Leads(p, s, q, a)
  PROVE  Leads(p, s, q, b)
<1>1. PICK run : IsRun(run, s, a) /\ run[0] = p /\ run[Len(s)] = q
  BY DEF Leads
<1>2. \A i \in 0..Len(s) : Fits(run[i], b)
  <2>1. \A i \in 0..Len(s) : run[i] \in Places /\ Fits(run[i], a)
    BY <1>1 DEF IsRun
  <2> QED BY <2>1, FitsLater
<1>3. IsRun(run, s, b)
  BY <1>1, <1>2 DEF IsRun
<1> QED BY <1>1, <1>3 DEF Leads

(* The line end and its two characters. *)
LEMMA CharactersAre ==
  /\ CR \in Characters /\ LF \in Characters
  /\ CRLF \in Seq(Characters) /\ CRLF = <<CR>> \o <<LF>>
  /\ <<CR>> \in Seq(Characters) /\ <<LF>> \in Seq(Characters)
<1>1. CR \in Characters /\ LF \in Characters
  BY DEF CR, LF, Characters
<1>2. CRLF \in Seq(Characters)
  <2>1. \A c, d \in Characters : <<c, d>> \in Seq(Characters)
    OBVIOUS
  <2> QED BY <1>1, <2>1 DEF CRLF
<1>3. CRLF = <<CR>> \o <<LF>>
  <2>1. <<CR>> \in Seq(Characters)
    BY <1>1
  <2>2. Append(<<CR>>, LF) = <<CR>> \o <<LF>>
    BY <1>1, <2>1, AppendIsConcat
  <2> DEFINE s == Append(<<CR>>, LF)
             t == <<CR, LF>>
  <2>3. s \in Seq(Characters) /\ Len(s) = 2 /\ s[1] = CR /\ s[2] = LF
    BY <1>1, <2>1, AppendProperties
  <2>4. t \in Seq(Characters) /\ Len(t) = 2 /\ t[1] = CR /\ t[2] = LF
    BY <1>2 DEF CRLF
  <2> HIDE DEF s, t
  <2>5. \A i \in 1..2 : s[i] = t[i]
    <3>1. \A i \in 1..2 : i = 1 \/ i = 2
      OBVIOUS
    <3> QED BY <2>3, <2>4, <3>1
  <2>6. s = t
    BY <2>3, <2>4, <2>5, SeqEqual
  <2> QED BY <2>2, <2>6 DEF CRLF, s, t
<1>4. \A c \in Characters : <<c>> \in Seq(Characters)
  OBVIOUS
<1> QED BY <1>1, <1>2, <1>3, <1>4

(* A line end. *)
LEMMA LineLeads ==
  ASSUME NEW p \in Places, NEW q \in Places, NEW r \in Places, NEW log,
         Takes(p, CR, q), Takes(q, LF, r), Fits(p, log), Fits(q, log), Fits(r, log)
  PROVE  Leads(p, CRLF, r, log)
<1>1. Leads(p, <<CR>>, q, log) /\ Leads(q, <<LF>>, r, log)
  BY LeadsOn
<1> QED BY <1>1, LeadsThrough, CharactersAre

(* The header of a chunk; of the last one only when the message has ended. *)
LEMMA SizeLeads ==
  ASSUME NEW p \in Places, p.at = "size", NEW log, Fits(p, log), NEW n \in Nat,
         n = 0 => log[p.m].ended /\ log[p.m].bytes = p.got
  PROVE  /\ ChunkSize(n) \in Seq(Characters)
         /\ Leads(p, ChunkSize(n), Within(p, AfterSize(n), p.got, n), log)
<1> DEFINE c == <<"size", n>>
           q == Within(p, "sizeCR", p.got, n)
           r == Within(p, "sizeLF", p.got, n)
           t == Within(p, AfterSize(n), p.got, n)
<1>1. p.m \in Nat /\ p.f \in Int /\ p.got \in Nat
  BY DEF Places
<1>2. q \in Places /\ r \in Places /\ t \in Places
  BY <1>1 DEF Within, AfterSize, Places, Points
<1>3. p.f = Chunked /\ p.m # 0
  BY DEF Fits, InChunks
<1>4. Fits(q, log) /\ Fits(r, log) /\ Fits(t, log)
  <2>1. /\ p.m <= Len(log) /\ p.m > 0
        /\ p.f = log[p.m].framing /\ p.got <= log[p.m].bytes
    BY <1>1, <1>3 DEF Fits
  <2> QED BY <1>1, <1>3, <2>1
        DEF Fits, Within, AfterSize, IsEnd, InChunks, InHead, NothingLeft
<1>5. Takes(p, c, q)
  BY DEF Takes
<1>6. Takes(q, CR, r) /\ Takes(r, LF, t)
  <2>1. Takes(q, CR, r)
    BY DEF Takes, Within, At
  <2>2. Takes(r, LF, t)
    BY DEF Takes, Within, At, AfterSize
  <2> QED BY <2>1, <2>2
<1>7. c \in Characters
  BY DEF Characters
<1> HIDE DEF c, q, r, t
<1>8. Leads(p, <<c>>, q, log) /\ Leads(q, CRLF, t, log)
  BY <1>2, <1>4, <1>5, <1>6, LeadsOn, LineLeads
<1>9. <<c>> \in Seq(Characters)
  BY <1>7
<1>10. ChunkSize(n) = <<c>> \o CRLF
  BY DEF ChunkSize, c
<1>11. Leads(p, <<c>> \o CRLF, t, log)
  BY <1>8, <1>9, CharactersAre, LeadsThrough
<1>12. <<c>> \o CRLF \in Seq(Characters)
  BY <1>9, CharactersAre
<1> QED BY <1>10, <1>11, <1>12 DEF t

(* The head of a message that has begun. *)
LEMMA HeadLeads ==
  ASSUME NEW p \in Places, p.at = "start", NEW log, Fits(p, log), NEW f \in Framings,
         p.m + 1 <= Len(log), log[p.m + 1].framing = f, log[p.m + 1].bytes = 0
  PROVE  /\ MessageHead(f) \in Seq(Characters)
         /\ Leads(p, MessageHead(f), Begun(p, f), log)
<1>1. p.m \in Nat /\ f \in Int /\ (f = Chunked \/ f \in Nat)
  BY FramingAssumption DEF Places, Framings, Chunked
<1> DEFINE left == IF f = Chunked THEN 0 ELSE f
           B(at) == [at |-> at, m |-> p.m + 1, f |-> f, got |-> 0, left |-> left]
           c == <<"head", f>>
           t == Begun(p, f)
<1>2. t = B(AfterHead(f))
  BY DEF Begun
<1>3. left \in Nat
  BY <1>1
<1>4. \A at \in Points : B(at) \in Places
  BY <1>1, <1>3 DEF Places
<1>5. AfterHead(f) \in Points
  BY DEF AfterHead, Points
<1>6. \A at \in InHead : at \in Points /\ Fits(B(at), log)
  <2> SUFFICES ASSUME NEW at \in InHead PROVE at \in Points /\ Fits(B(at), log)
    OBVIOUS
  <2> QED BY <1>1 DEF InHead, Points, Fits, IsEnd, InChunks, NothingLeft
<1>7. Fits(t, log)
  BY <1>1, <1>2 DEF AfterHead, InHead, Points, Fits, IsEnd, InChunks, NothingLeft
<1>8. Takes(p, c, B("headCR"))
  BY DEF Takes
<1>9. /\ Takes(B("headCR"), CR, B("headLF")) /\ Takes(B("headLF"), LF, B("blankCR"))
      /\ Takes(B("blankCR"), CR, B("blankLF"))
  BY DEF Takes, At, Within
<1>10. Takes(B("blankLF"), LF, t)
  BY <1>2 DEF Takes, At, Within
<1>11. c \in Characters
  BY <1>1 DEF Characters
<1>12. /\ B("headCR") \in Places /\ B("headLF") \in Places /\ B("blankCR") \in Places
       /\ B("blankLF") \in Places /\ t \in Places
  BY <1>2, <1>4, <1>5, <1>6 DEF InHead
<1>13. /\ Fits(B("headCR"), log) /\ Fits(B("headLF"), log) /\ Fits(B("blankCR"), log)
       /\ Fits(B("blankLF"), log)
  BY <1>6 DEF InHead
<1> HIDE DEF B, c, t, left
<1>14. /\ Leads(p, <<c>>, B("headCR"), log)
       /\ Leads(B("headCR"), CRLF, B("blankCR"), log)
       /\ Leads(B("blankCR"), CRLF, t, log)
  BY <1>7, <1>8, <1>9, <1>10, <1>12, <1>13, LeadsOn, LineLeads
<1>15. <<c>> \in Seq(Characters) /\ <<c>> \o CRLF \in Seq(Characters)
       /\ (<<c>> \o CRLF) \o CRLF \in Seq(Characters)
  <2>1. <<c>> \in Seq(Characters)
    BY <1>11
  <2>2. <<c>> \o CRLF \in Seq(Characters)
    BY <2>1, CharactersAre
  <2> QED BY <2>1, <2>2, CharactersAre
<1>16. Leads(p, <<c>> \o CRLF, B("blankCR"), log)
  BY <1>14, <1>15, CharactersAre, LeadsThrough
<1>17. Leads(p, (<<c>> \o CRLF) \o CRLF, t, log)
  BY <1>14, <1>15, <1>16, CharactersAre, LeadsThrough
<1>18. MessageHead(f) = (<<c>> \o CRLF) \o CRLF
  BY DEF MessageHead, c
<1> QED BY <1>15, <1>17, <1>18 DEF t

-----------------------------------------------------------------------------
(* The invariant                                                            *)

Ops == [kind : {"none", "write", "pump"}, promised : Nat, count : Nat]

FramingTypeOK ==
  /\ out \in [queue : Seq(Characters), text : Seq(Characters), op : Ops, inBody : BOOLEAN,
              writeInProgress : BOOLEAN, broken : BOOLEAN, framing : Int, length : Int,
              finished : BOOLEAN]
  /\ wire \in Seq(Characters) /\ eof \in BOOLEAN
  /\ in \in [phase : {"idle", "head", "body", "failed"}, asked : Nat,
             pendingMessageCount : Int, leftover : Seq(Characters),
             buffer : Seq(Characters), lineBreak : BOOLEAN, left : Nat, busy : BOOLEAN,
             clean : BOOLEAN, broken : BOOLEAN, bad : BOOLEAN]
  /\ sent \in Seq(Messages)
  /\ rcvd \in Seq([framing : Framings, data : Seq(Characters), ended : BOOLEAN])

(* What nobody will send any more of. *)
WriteLost == out.writeInProgress /\ out.op.kind = "none"
Cut == out.broken \/ eof \/ WriteLost

LastSent == sent[Len(sent)]
LastRead == rcvd[Len(rcvd)]
Short == out.op.promised - out.op.count

(* The writer's flags, and what it counts, fit the message it is at. *)
WriterOK ==
  /\ out.op.kind # "none" => out.writeInProgress /\ out.inBody
  /\ out.op.kind # "pump" => out.op.promised = 0 /\ out.op.count = 0
  /\ out.op.count <= out.op.promised
  /\ out.op.kind = "none" => out.text = <<>>
  /\ out.finished => ~out.inBody
  /\ out.finished \/ out.inBody \/ out.broken
  /\ out.broken => out.queue = <<>>
  /\ sent = <<>> => out.finished
  /\ sent # <<>> => out.framing = LastSent.framing
  /\ sent # <<>> /\ out.framing # Chunked =>
       /\ LastSent.bytes <= out.framing
       /\ ~WriteLost => out.length + LastSent.bytes + Short = out.framing
       /\ out.finished /\ ~out.broken => LastSent.bytes = out.framing
  /\ sent # <<>> /\ out.framing = Chunked /\ LastSent.ended => out.finished

(* The reader's flags fit the message it is at, and its buffer holds no header
   that has ended. *)
NoHeader(n) ==
  IF in.lineBreak THEN in.buffer \in {<<>>, <<CR>>} ELSE Len(in.buffer) <= n

ReaderOK ==
  /\ in.pendingMessageCount = in.asked + (IF in.phase = "idle" THEN 0 ELSE 1)
  /\ in.phase = "idle" => in.buffer = <<>> /\ ~in.busy /\ in.left = 0
  /\ in.phase = "head" => NoHeader(4) /\ ~in.busy /\ in.left = 0
  /\ in.phase = "body" =>
       /\ rcvd # <<>> /\ ~LastRead.ended
       /\ in.clean => in.buffer = <<>> /\ ~in.busy
       /\ in.busy => IF in.left > 0 THEN in.buffer = <<>> ELSE NoHeader(2)
       /\ LastRead.framing # Chunked => in.left > 0 /\ ~in.lineBreak
       /\ LastRead.framing = Chunked /\ in.left > 0 => in.lineBreak

(* What was read was written. *)
ReadWasWritten ==
  /\ ~in.bad
  /\ Len(rcvd) <= Len(sent)
  /\ \A m \in 1..Len(rcvd) :
       /\ rcvd[m].framing = sent[m].framing
       /\ rcvd[m].data = Bytes(0, Len(rcvd[m].data))
       /\ Len(rcvd[m].data) <= sent[m].bytes
       /\ rcvd[m].ended => Len(rcvd[m].data) = sent[m].bytes /\ Complete(sent[m])

Pending == IF out.broken \/ eof THEN <<>> ELSE out.queue \o out.text
InFlight == (in.buffer \o in.leftover) \o (wire \o Pending)

(* Where the reader is, before what it has buffered. *)
ReaderPlace(at) ==
  [at |-> at, m |-> Len(rcvd), f |-> IF rcvd = <<>> THEN 0 ELSE LastRead.framing,
   got |-> IF rcvd = <<>> THEN 0 ELSE Len(LastRead.data), left |-> in.left]

ReaderPoints ==
  IF in.phase = "body"
  THEN IF in.left > 0 THEN {"body"} ELSE IF in.lineBreak THEN {"dataCR"} ELSE {"size"}
  ELSE IF in.lineBreak THEN {"endCR", "endLF"} ELSE {"start"}

(* Where the writer is, after what it waits to hand over. *)
WriterPoint ==
  IF out.framing # Chunked
  THEN IF LastSent.bytes = out.framing THEN "start" ELSE "body"
  ELSE IF out.finished THEN "start"
  ELSE IF out.op.kind # "pump" THEN "size" ELSE IF Short = 0 THEN "dataCR" ELSE "body"

WriterPlace ==
  IF sent = <<>> THEN [at |-> "start", m |-> 0, f |-> 0, got |-> 0, left |-> 0]
  ELSE [at |-> WriterPoint, m |-> Len(sent), f |-> out.framing, got |-> LastSent.bytes,
        left |-> IF out.framing = Chunked THEN Short ELSE out.framing - LastSent.bytes]

(* What is under way leads from the reader's place to the writer's, or it was
   cut. *)
InStep ==
  in.phase # "failed" =>
    \E at \in ReaderPoints, q \in Places :
      Leads(ReaderPlace(at), InFlight, q, sent) /\ (~Cut => q = WriterPlace)

FramingInv == FramingTypeOK /\ WriterOK /\ ReaderOK /\ ReadWasWritten /\ InStep

(* A pump whose source is known to be empty would send the last chunk. *)
NoEmptyPump == \A p \in Pumps : p[1] > 0

-----------------------------------------------------------------------------
(* The log                                                                  *)

(* The last message sent, and the last one read. *)
LEMMA LastIs ==
  /\ sent # <<>> => Last(sent) = LastSent
  /\ rcvd # <<>> => Last(rcvd) = LastRead
BY DEF Last, LastSent, LastRead

(* The last message sent is a message. *)
LEMMA LogLast ==
  ASSUME sent \in Seq(Messages), sent # <<>>
  PROVE  /\ Len(sent) \in Nat /\ Len(sent) > 0 /\ Len(sent) \in 1..Len(sent)
         /\ LastSent \in Messages
         /\ LastSent.framing \in Framings /\ LastSent.bytes \in Nat /\ LastSent.ended \in BOOLEAN
<1>1. Len(sent) \in Nat /\ Len(sent) > 0
  BY EmptySeq
<1>2. LastSent \in Messages
  BY <1>1 DEF LastSent
<1> QED BY <1>1, <1>2 DEF Messages

(* Each message of the log is one. *)
LEMMA LogHas ==
  ASSUME NEW a \in Seq(Messages), NEW m \in 1..Len(a)
  PROVE  /\ a[m] \in Messages /\ a[m].framing \in Framings
         /\ a[m].bytes \in Nat /\ a[m].ended \in BOOLEAN
<1>1. a[m] \in Messages
  OBVIOUS
<1>2. \A e \in Messages : e.framing \in Framings /\ e.bytes \in Nat /\ e.ended \in BOOLEAN
  BY DEF Messages
<1> QED BY <1>1, <1>2

(* A log grows into itself. *)
LEMMA SameLog ==
  ASSUME NEW a \in Seq(Messages)
  PROVE  Grows(a, a)
<1>1. \A m \in 1..Len(a) : a[m].bytes \in Nat
  BY LogHas
<1> QED BY <1>1 DEF Grows

(* One entry of the log is written anew. *)
LEMMA Overwritten ==
  ASSUME NEW a \in Seq(Messages), NEW k \in 1..Len(a), NEW e \in Messages
  PROVE  /\ [a EXCEPT ![k] = e] \in Seq(Messages)
         /\ Len([a EXCEPT ![k] = e]) = Len(a)
         /\ [a EXCEPT ![k] = e][k] = e
         /\ \A m \in 1..Len(a) : m # k => [a EXCEPT ![k] = e][m] = a[m]
BY ExceptSeq

(* More of the last message. *)
LEMMA LogWrites ==
  ASSUME FramingTypeOK, sent # <<>>, NEW n \in Nat,
         Complete(LastSent) => n = 0,
         sent' = [sent EXCEPT ![Len(sent)].bytes = @ + n]
  PROVE  /\ sent' \in Seq(Messages) /\ Len(sent') = Len(sent) /\ sent' # <<>>
         /\ \A m \in 1..(Len(sent) - 1) : sent'[m] = sent[m]
         /\ LastSent' = [LastSent EXCEPT !.bytes = @ + n]
         /\ LastSent'.framing = LastSent.framing /\ LastSent'.ended = LastSent.ended
         /\ LastSent'.bytes = LastSent.bytes + n
         /\ Grows(sent, sent')
<1> DEFINE e == [LastSent EXCEPT !.bytes = @ + n]
           k == Len(sent)
<1>1. /\ sent \in Seq(Messages) /\ k \in 1..k /\ k \in Nat /\ k > 0 /\ LastSent \in Messages
      /\ LastSent.bytes \in Nat /\ LastSent = sent[k]
  BY LogLast DEF FramingTypeOK, LastSent
<1>2. e \in Messages /\ e.framing = LastSent.framing /\ e.ended = LastSent.ended
      /\ e.bytes = LastSent.bytes + n
  <2>1. PICK b : b = LastSent.bytes + n
    OBVIOUS
  <2>2. b \in Nat
    BY <1>1, <2>1
  <2>3. e = [LastSent EXCEPT !.bytes = b]
    BY ONLY <2>1
  <2>4. LastSent \in Messages
    BY <1>1
  <2> HIDE DEF e
  <2> QED BY ONLY <2>1, <2>2, <2>3, <2>4 DEF Messages
<1>3. sent' = [sent EXCEPT ![k] = e]
  BY <1>1
<1> HIDE DEF e, k
<1>4. sent' \in Seq(Messages) /\ Len(sent') = k /\ sent'[k] = e
      /\ \A m \in 1..k : m # k => sent'[m] = sent[m]
  <2>1. sent \in Seq(Messages) /\ k \in 1..Len(sent)
    BY <1>1 DEF k
  <2>2. e \in Messages
    BY <1>2
  <2>3. /\ [sent EXCEPT ![k] = e] \in Seq(Messages)
        /\ Len([sent EXCEPT ![k] = e]) = Len(sent)
        /\ [sent EXCEPT ![k] = e][k] = e
        /\ \A m \in 1..Len(sent) : m # k => [sent EXCEPT ![k] = e][m] = sent[m]
    BY ONLY <2>1, <2>2, Overwritten
  <2>4. k = Len(sent)
    BY DEF k
  <2> QED BY ONLY <1>3, <2>3, <2>4, Zenon
<1>5. LastSent' = e /\ sent' # <<>>
  BY <1>1, <1>4 DEF LastSent, k
<1>6. \A m \in 1..k : sent[m].bytes \in Nat
  BY <1>1, LogHas DEF k
<1>7. ASSUME NEW m \in 1..k
      PROVE  /\ sent'[m].framing = sent[m].framing /\ sent[m].bytes <= sent'[m].bytes
             /\ sent[m].ended => sent'[m].ended
             /\ Complete(sent[m]) => sent'[m].bytes = sent[m].bytes
  <2>1. CASE m = k
    BY <1>1, <1>2, <1>4, <2>1
  <2>2. CASE m # k
    BY <1>4, <1>6, <2>2
  <2> QED BY <2>1, <2>2
<1>8. Grows(sent, sent')
  BY <1>1, <1>4, <1>7 DEF Grows, k
<1>9. \A m \in 1..(k - 1) : sent'[m] = sent[m]
  BY <1>1, <1>4
<1> QED BY <1>1, <1>2, <1>4, <1>5, <1>8, <1>9 DEF e, k

(* The last message may be declared to have ended. *)
LEMMA LogEnds ==
  ASSUME FramingTypeOK, sent # <<>>, NEW b \in BOOLEAN,
         sent' = [sent EXCEPT ![Len(sent)].ended = @ \/ b]
  PROVE  /\ sent' \in Seq(Messages) /\ Len(sent') = Len(sent) /\ sent' # <<>>
         /\ \A m \in 1..(Len(sent) - 1) : sent'[m] = sent[m]
         /\ LastSent'.framing = LastSent.framing /\ LastSent'.bytes = LastSent.bytes
         /\ LastSent'.ended = (LastSent.ended \/ b)
         /\ Grows(sent, sent')
<1> DEFINE e == [LastSent EXCEPT !.ended = @ \/ b]
           k == Len(sent)
<1>1. /\ sent \in Seq(Messages) /\ k \in 1..k /\ k \in Nat /\ k > 0 /\ LastSent \in Messages
      /\ LastSent.ended \in BOOLEAN /\ LastSent = sent[k]
  BY LogLast DEF FramingTypeOK, LastSent
<1>2. e \in Messages /\ e.framing = LastSent.framing /\ e.bytes = LastSent.bytes
      /\ e.ended = (LastSent.ended \/ b)
  BY <1>1 DEF Messages
<1>3. sent' = [sent EXCEPT ![k] = e]
  BY <1>1
<1> HIDE DEF e, k
<1>4. sent' \in Seq(Messages) /\ Len(sent') = k /\ sent'[k] = e
      /\ \A m \in 1..k : m # k => sent'[m] = sent[m]
  <2>1. sent \in Seq(Messages) /\ k \in 1..Len(sent)
    BY <1>1 DEF k
  <2>2. e \in Messages
    BY <1>2
  <2>3. /\ [sent EXCEPT ![k] = e] \in Seq(Messages)
        /\ Len([sent EXCEPT ![k] = e]) = Len(sent)
        /\ [sent EXCEPT ![k] = e][k] = e
        /\ \A m \in 1..Len(sent) : m # k => [sent EXCEPT ![k] = e][m] = sent[m]
    BY ONLY <2>1, <2>2, Overwritten
  <2>4. k = Len(sent)
    BY DEF k
  <2> QED BY ONLY <1>3, <2>3, <2>4, Zenon
<1>5. LastSent' = e /\ sent' # <<>>
  BY <1>1, <1>4 DEF LastSent, k
<1>6. \A m \in 1..k : sent[m].bytes \in Nat
  BY <1>1, LogHas DEF k
<1>7. ASSUME NEW m \in 1..k
      PROVE  /\ sent'[m].framing = sent[m].framing /\ sent[m].bytes <= sent'[m].bytes
             /\ sent[m].ended => sent'[m].ended
             /\ Complete(sent[m]) => sent'[m].bytes = sent[m].bytes
  <2>1. CASE m = k
    BY <1>1, <1>2, <1>4, <1>6, <2>1
  <2>2. CASE m # k
    BY <1>4, <1>6, <2>2
  <2> QED BY <2>1, <2>2
<1>8. Grows(sent, sent')
  BY <1>1, <1>4, <1>7 DEF Grows, k
<1>9. \A m \in 1..(k - 1) : sent'[m] = sent[m]
  BY <1>1, <1>4
<1> QED BY <1>1, <1>2, <1>4, <1>5, <1>8, <1>9 DEF e, k

(* A message begins. *)
LEMMA LogBegins ==
  ASSUME FramingTypeOK, NEW f \in Framings, NEW b \in BOOLEAN,
         sent' = Append(sent, [framing |-> f, bytes |-> 0, ended |-> b])
  PROVE  /\ sent' \in Seq(Messages) /\ Len(sent') = Len(sent) + 1 /\ sent' # <<>>
         /\ \A m \in 1..Len(sent) : sent'[m] = sent[m]
         /\ LastSent' = [framing |-> f, bytes |-> 0, ended |-> b]
         /\ sent'[Len(sent) + 1] = LastSent'
         /\ Grows(sent, sent')
<1> DEFINE e == [framing |-> f, bytes |-> 0, ended |-> b]
           k == Len(sent)
<1>1. sent \in Seq(Messages) /\ k \in Nat /\ e \in Messages
  BY DEF FramingTypeOK, Messages
<1> HIDE DEF e, k
<1>2. sent' \in Seq(Messages) /\ Len(sent') = k + 1 /\ sent'[k + 1] = e
      /\ \A m \in 1..k : sent'[m] = sent[m]
  BY <1>1, AppendProperties DEF e, k
<1>3. LastSent' = e /\ sent' # <<>>
  BY <1>1, <1>2 DEF LastSent
<1>4. \A m \in 1..k : sent[m].bytes \in Nat
  BY <1>1, LogHas DEF k
<1>5. Grows(sent, sent')
  BY <1>1, <1>2, <1>4 DEF Grows, k
<1> QED BY <1>2, <1>3, <1>5 DEF e, k

-----------------------------------------------------------------------------
(* Sending                                                                  *)

(* Everything in flight is made of characters. *)
LEMMA FlightIs ==
  ASSUME FramingTypeOK
  PROVE  /\ wire \in Seq(Characters) /\ Pending \in Seq(Characters)
         /\ wire \o Pending \in Seq(Characters)
         /\ in.buffer \in Seq(Characters) /\ in.leftover \in Seq(Characters)
         /\ in.buffer \o in.leftover \in Seq(Characters)
         /\ InFlight \in Seq(Characters)
         /\ out.queue \in Seq(Characters) /\ out.text \in Seq(Characters)
<1>1. /\ wire \in Seq(Characters) /\ in.buffer \in Seq(Characters)
      /\ in.leftover \in Seq(Characters)
      /\ out.queue \in Seq(Characters) /\ out.text \in Seq(Characters)
  BY DEF FramingTypeOK
<1>2. \A x, y \in Seq(Characters) : x \o y \in Seq(Characters)
  BY ConcatProperties
<1>3. Pending \in Seq(Characters)
  <2>1. <<>> \in Seq(Characters)
    BY EmptySeq
  <2> QED BY <1>1, <1>2, <2>1 DEF Pending
<1> QED BY <1>1, <1>2, <1>3 DEF InFlight

(* So it is after a step. *)
LEMMA FlightLater ==
  ASSUME FramingTypeOK'
  PROVE  /\ wire' \o Pending' \in Seq(Characters) /\ InFlight' \in Seq(Characters)
         /\ wire' \in Seq(Characters) /\ Pending' \in Seq(Characters)
<1>1. /\ wire' \in Seq(Characters) /\ in'.buffer \in Seq(Characters)
      /\ in'.leftover \in Seq(Characters)
      /\ out'.queue \in Seq(Characters) /\ out'.text \in Seq(Characters)
  BY DEF FramingTypeOK
<1>2. \A x, y \in Seq(Characters) : x \o y \in Seq(Characters)
  BY ConcatProperties
<1>3. Pending' \in Seq(Characters)
  <2>1. <<>> \in Seq(Characters)
    BY EmptySeq
  <2> QED BY <1>1, <1>2, <2>1 DEF Pending
<1> QED BY <1>1, <1>2, <1>3 DEF InFlight

(* Texts are joined in any order. *)
LEMMA Rejoined ==
  ASSUME NEW x \in Seq(Characters), NEW y \in Seq(Characters), NEW z \in Seq(Characters)
  PROVE  (x \o y) \o z = x \o (y \o z)
BY ConcatAssociative

(* More is sent: it leads from where the writer was to where it is. *)
LEMMA StepsOn ==
  ASSUME FramingTypeOK, FramingTypeOK', InStep, Grows(sent, sent'),
         in' = in, rcvd' = rcvd, ~Cut,
         NEW t \in Seq(Characters), wire' \o Pending' = (wire \o Pending) \o t,
         WriterPlace \in Places /\ Fits(WriterPlace, sent) /\ Fits(WriterPlace, sent') =>
           Leads(WriterPlace, t, WriterPlace', sent')
  PROVE  InStep'
<1>1. SUFFICES ASSUME in.phase # "failed"
               PROVE  \E at \in ReaderPoints, q \in Places :
                        /\ Leads(ReaderPlace(at), InFlight', q, sent')
                        /\ q = WriterPlace'
  BY DEF InStep, ReaderPoints, ReaderPlace, LastRead
<1>2. PICK at \in ReaderPoints : Leads(ReaderPlace(at), InFlight, WriterPlace, sent)
  BY <1>1 DEF InStep
<1>3. sent \in Seq(Messages) /\ sent' \in Seq(Messages)
  BY DEF FramingTypeOK
<1>4. WriterPlace \in Places /\ Fits(WriterPlace, sent)
  BY <1>2, LeadsAhead, FlightIs
<1>5. Fits(WriterPlace, sent')
  BY <1>3, <1>4, FitsLater
<1>6. Leads(ReaderPlace(at), InFlight, WriterPlace, sent')
  BY <1>2, <1>3, LeadsLater, FlightIs
<1>7. Leads(ReaderPlace(at), InFlight \o t, WriterPlace', sent')
  BY <1>4, <1>5, <1>6, LeadsThrough, FlightIs
<1>8. InFlight' = InFlight \o t
  <2> DEFINE x == in.buffer \o in.leftover
             y == wire \o Pending
  <2>1. x \in Seq(Characters) /\ y \in Seq(Characters)
    BY FlightIs
  <2>2. InFlight' = x \o (y \o t) /\ InFlight = x \o y
    BY DEF InFlight
  <2> HIDE DEF x, y
  <2>3. x \o (y \o t) = (x \o y) \o t
    BY ONLY <2>1, t \in Seq(Characters), Rejoined
  <2> QED BY ONLY <2>2, <2>3
<1>9. WriterPlace' \in Places
  BY <1>7, <1>8, FlightLater, LeadsAhead
<1> QED BY <1>7, <1>8, <1>9

(* Characters are only passed on. *)
LEMMA StepsStill ==
  ASSUME FramingTypeOK, FramingTypeOK', InStep, Grows(sent, sent'),
         in' = in, rcvd' = rcvd, wire' \o Pending' = wire \o Pending,
         Cut => Cut', ~Cut' => WriterPlace' = WriterPlace
  PROVE  InStep'
<1>1. SUFFICES ASSUME in.phase # "failed"
               PROVE  \E at \in ReaderPoints, q \in Places :
                        /\ Leads(ReaderPlace(at), InFlight', q, sent')
                        /\ ~Cut' => q = WriterPlace'
  BY DEF InStep, ReaderPoints, ReaderPlace, LastRead
<1>2. PICK at \in ReaderPoints, q \in Places :
        Leads(ReaderPlace(at), InFlight, q, sent) /\ (~Cut => q = WriterPlace)
  BY <1>1 DEF InStep
<1>3. sent \in Seq(Messages) /\ sent' \in Seq(Messages)
  BY DEF FramingTypeOK
<1>4. Leads(ReaderPlace(at), InFlight, q, sent')
  BY <1>2, <1>3, LeadsLater, FlightIs
<1>5. InFlight' = InFlight
  BY DEF InFlight
<1> QED BY <1>2, <1>4, <1>5

(* What nobody will hand over any more is lost, and nothing follows. *)
LEMMA StepsLost ==
  ASSUME FramingTypeOK, FramingTypeOK', InStep, Grows(sent, sent'),
         in' = in, rcvd' = rcvd, Cut',
         NEW t \in Seq(Characters), wire \o Pending = (wire' \o Pending') \o t
  PROVE  InStep'
<1>1. SUFFICES ASSUME in.phase # "failed"
               PROVE  \E at \in ReaderPoints, q \in Places :
                        Leads(ReaderPlace(at), InFlight', q, sent')
  BY DEF InStep, ReaderPoints, ReaderPlace, LastRead
<1>2. PICK at \in ReaderPoints, q \in Places : Leads(ReaderPlace(at), InFlight, q, sent)
  BY <1>1 DEF InStep
<1>3. sent \in Seq(Messages) /\ sent' \in Seq(Messages)
  BY DEF FramingTypeOK
<1>4. Leads(ReaderPlace(at), InFlight, q, sent')
  BY <1>2, <1>3, LeadsLater, FlightIs
<1> DEFINE x == in.buffer \o in.leftover
           y == wire' \o Pending'
<1>5. x \in Seq(Characters) /\ y \in Seq(Characters) /\ InFlight' \in Seq(Characters)
  BY FlightIs, FlightLater
<1>6. InFlight' = x \o y /\ InFlight = x \o (y \o t)
  BY DEF InFlight
<1> HIDE DEF x, y
<1>7. InFlight = InFlight' \o t
  <2>1. (x \o y) \o t = x \o (y \o t)
    BY ONLY <1>5, t \in Seq(Characters), Rejoined
  <2> QED BY ONLY <1>6, <2>1
<1>8. \E r \in Places : Leads(ReaderPlace(at), InFlight', r, sent')
  BY <1>4, <1>5, <1>7, LeadsHalfway
<1> QED BY <1>8

Outs == [queue : Seq(Characters), text : Seq(Characters), op : Ops, inBody : BOOLEAN,
         writeInProgress : BOOLEAN, broken : BOOLEAN, framing : Int, length : Int,
         finished : BOOLEAN]

(* The fields of HttpOutputStream and of its entity writer. *)
LEMMA OutIs ==
  ASSUME FramingTypeOK
  PROVE  /\ out \in Outs
         /\ out.op \in Ops /\ out.op.promised \in Nat /\ out.op.count \in Nat
         /\ out.op.kind \in {"none", "write", "pump"}
         /\ out.framing \in Int /\ out.length \in Int
         /\ out.queue \in Seq(Characters) /\ out.text \in Seq(Characters)
         /\ out.inBody \in BOOLEAN /\ out.writeInProgress \in BOOLEAN
         /\ out.broken \in BOOLEAN /\ out.finished \in BOOLEAN
         /\ NoOp \in Ops /\ NoOp.kind = "none" /\ NoOp.promised = 0 /\ NoOp.count = 0
BY DEF FramingTypeOK, Outs, Ops, NoOp

(* A framing is a Content-Length or chunked. *)
LEMMA FramingsAre ==
  \A f \in Framings : f \in Int /\ (f = Chunked \/ f \in Nat)
BY FramingAssumption DEF Framings, Chunked

(* What the reader has is still what was written. *)
LEMMA ReadStays ==
  ASSUME FramingTypeOK, FramingTypeOK', ReadWasWritten, Grows(sent, sent'), in' = in, rcvd' = rcvd
  PROVE  ReadWasWritten'
<1>1. sent \in Seq(Messages) /\ sent' \in Seq(Messages) /\ Len(sent) <= Len(sent')
      /\ Len(sent) \in Nat /\ Len(sent') \in Nat /\ Len(rcvd) \in Nat /\ Len(rcvd) <= Len(sent)
  <2>1. sent \in Seq(Messages) /\ sent' \in Seq(Messages)
    BY DEF FramingTypeOK
  <2>2. Len(sent) \in Nat /\ Len(sent') \in Nat
    BY ONLY <2>1, LenProperties
  <2>3. Len(rcvd) \in Nat
    BY DEF FramingTypeOK
  <2>4. Len(sent) <= Len(sent')
    BY DEF Grows
  <2>5. Len(rcvd) <= Len(sent)
    BY DEF ReadWasWritten
  <2> QED BY ONLY <2>1, <2>2, <2>3, <2>4, <2>5
<1>2. ASSUME NEW m \in 1..Len(rcvd)
      PROVE  /\ rcvd[m].framing = sent'[m].framing
             /\ Len(rcvd[m].data) <= sent'[m].bytes
             /\ rcvd[m].ended => Len(rcvd[m].data) = sent'[m].bytes /\ Complete(sent'[m])
  <2>1. m \in 1..Len(sent) /\ m \in 1..Len(sent')
    BY <1>1
  <2>2. /\ sent'[m].framing = sent[m].framing /\ sent[m].bytes <= sent'[m].bytes
        /\ sent[m].ended => sent'[m].ended
        /\ Complete(sent[m]) => sent'[m].bytes = sent[m].bytes
    BY <2>1 DEF Grows
  <2>3. /\ rcvd[m].framing = sent[m].framing /\ Len(rcvd[m].data) <= sent[m].bytes
        /\ rcvd[m].ended => Len(rcvd[m].data) = sent[m].bytes /\ Complete(sent[m])
    BY DEF ReadWasWritten
  <2>4. sent[m].bytes \in Nat /\ sent'[m].bytes \in Nat /\ Len(rcvd[m].data) \in Nat
    <3>1. rcvd[m] \in [framing : Framings, data : Seq(Characters), ended : BOOLEAN]
      BY ElementOfSeq DEF FramingTypeOK
    <3>2. rcvd[m].data \in Seq(Characters)
      BY <3>1
    <3> QED BY <1>1, <2>1, <3>2, LogHas
  <2>5. Complete(sent[m]) => Complete(sent'[m])
    BY <2>2 DEF Complete
  <2> QED BY <2>2, <2>3, <2>4, <2>5
<1> QED BY <1>1, <1>2 DEF ReadWasWritten

(* What a step of the writer has to show. *)
LEMMA WriterSteps ==
  ASSUME FramingInv, FramingTypeOK', WriterOK', InStep', Grows(sent, sent'),
         in' = in, rcvd' = rcvd
  PROVE  FramingInv'
<1>1. ReadWasWritten'
  BY ReadStays DEF FramingInv
<1>2. ReaderOK'
  BY DEF FramingInv, ReaderOK, NoHeader, LastRead
<1> QED BY <1>1, <1>2 DEF FramingInv

(* A writer that has ended its message is at the start of the next. *)
LEMMA FinishedAtStart ==
  ASSUME FramingTypeOK, WriterOK, out.finished, ~out.broken, out.op.kind = "none"
  PROVE  /\ WriterPlace.at = "start" /\ WriterPlace.m = Len(sent)
<1>1. CASE sent = <<>>
  BY <1>1 DEF WriterPlace
<1>2. CASE sent # <<>>
  <2>1. WriterPoint = "start"
    BY <1>2 DEF WriterOK, WriterPoint
  <2> QED BY <1>2, <2>1 DEF WriterPlace
<1> QED BY <1>1, <1>2

(* writeHeaders() (http.cc, HttpOutputStream): the head of the next message
   goes into the queue, behind everything that is sent before it. *)
LEMMA WriteHeadersSteps ==
  ASSUME FramingInv, NEW f \in Framings, WriteHeaders(f)
  PROVE  FramingInv'
<1>1. /\ FramingTypeOK /\ WriterOK /\ InStep /\ out.op.kind = "none" /\ out.text = <<>>
      /\ out.op.promised = 0 /\ out.op.count = 0
      /\ out.finished /\ ~out.writeInProgress /\ ~eof
      /\ wire' = wire /\ eof' = eof /\ in' = in /\ rcvd' = rcvd
  BY OutIs DEF FramingInv, WriterOK, WriteHeaders
<1>2. f \in Int /\ (f = Chunked \/ f \in Nat)
  BY FramingsAre
<1>3. /\ out'.queue = IF out.broken THEN <<>> ELSE out.queue \o MessageHead(f)
      /\ out'.text = out.text /\ out'.op = out.op
      /\ out'.writeInProgress = FALSE /\ out'.broken = out.broken
      /\ out'.framing = f /\ out'.length = f
      /\ out'.finished = (f = 0) /\ out'.inBody = (f # 0)
  BY <1>1, OutIs DEF WriteHeaders, QueueWrite, DoneWriting, FinishBody, Outs
<1>4. /\ sent' \in Seq(Messages) /\ Len(sent') = Len(sent) + 1 /\ sent' # <<>>
      /\ LastSent' = [framing |-> f, bytes |-> 0, ended |-> f = 0]
      /\ sent'[Len(sent) + 1] = LastSent'
      /\ Grows(sent, sent')
  BY <1>1, LogBegins DEF WriteHeaders
<1>5. MessageHead(f) \in Seq(Characters)
  <2>1. <<"head", f>> \in Characters
    BY <1>2 DEF Characters
  <2>2. <<<<"head", f>>>> \in Seq(Characters)
    BY <2>1
  <2> QED BY <2>2, CharactersAre, ConcatProperties DEF MessageHead
<1>6. FramingTypeOK'
  <2>1. out' \in Outs
    <3>1. out'.queue \in Seq(Characters)
      BY <1>3, <1>5, OutIs, ConcatProperties, EmptySeq, <1>1
    <3> DEFINE b == f # 0
               c == f = 0
               d == FALSE
    <3>2. out' = [queue |-> out'.queue, text |-> out.text, op |-> out.op, inBody |-> b,
                  writeInProgress |-> d, broken |-> out.broken, framing |-> f,
                  length |-> f, finished |-> c]
      BY <1>1, OutIs DEF WriteHeaders, QueueWrite, DoneWriting, FinishBody, Outs
    <3>3. /\ out.text \in Seq(Characters) /\ out.op \in Ops /\ out.broken \in BOOLEAN
          /\ b \in BOOLEAN /\ c \in BOOLEAN /\ d \in BOOLEAN
      BY <1>1, OutIs
    <3> HIDE DEF b, c, d
    <3>4. \A q, t \in Seq(Characters), op \in Ops, b1, b2, b3, b4 \in BOOLEAN, n1, n2 \in Int :
            [queue |-> q, text |-> t, op |-> op, inBody |-> b1, writeInProgress |-> b2,
             broken |-> b3, framing |-> n1, length |-> n2, finished |-> b4] \in Outs
      BY DEF Outs
    <3> QED BY <1>2, <3>1, <3>2, <3>3, <3>4
  <2> QED BY <1>1, <1>4, <2>1 DEF FramingTypeOK, Outs
<1>7. WriterOK'
  <2>1. LastSent'.framing = f /\ LastSent'.bytes = 0 /\ LastSent'.ended = (f = 0)
    BY <1>4
  <2>2. Short' = 0 /\ ~WriteLost'
    BY <1>1, <1>3 DEF Short, WriteLost
  <2>3. out.broken => out.queue = <<>>
    BY <1>1 DEF WriterOK
  <2>4. f = Chunked => f # 0
    BY DEF Chunked
  <2>5. /\ out'.finished => ~out'.inBody
        /\ out'.finished \/ out'.inBody \/ out'.broken
        /\ out'.broken => out'.queue = <<>>
    BY <1>3, <2>3
  <2>6. out'.framing # Chunked =>
          /\ LastSent'.bytes <= out'.framing
          /\ out'.length + LastSent'.bytes + Short' = out'.framing
          /\ out'.finished /\ ~out'.broken => LastSent'.bytes = out'.framing
    <3>1. (f # Chunked => 0 <= f) /\ f + 0 + 0 = f
      BY <1>2
    <3>2. out'.framing = f /\ out'.length = f /\ (out'.finished => f = 0)
      BY <1>3
    <3> QED BY <2>1, <2>2, <3>1, <3>2
  <2>7. out'.framing = Chunked /\ LastSent'.ended => out'.finished
    BY <1>3, <2>1
  <2>8. /\ out'.op.kind = "none" /\ out'.op.promised = 0 /\ out'.op.count = 0
        /\ out'.text = <<>> /\ sent' # <<>> /\ out'.framing = LastSent'.framing
        /\ out'.op.count <= out'.op.promised
    BY <1>1, <1>3, <1>4, <2>1
  <2>9. /\ out'.op.kind # "none" => out'.writeInProgress /\ out'.inBody
        /\ out'.op.kind # "pump" => out'.op.promised = 0 /\ out'.op.count = 0
        /\ out'.op.count <= out'.op.promised
        /\ out'.op.kind = "none" => out'.text = <<>>
    BY <2>8
  <2>10. /\ sent' = <<>> => out'.finished
         /\ sent' # <<>> => out'.framing = LastSent'.framing
         /\ sent' # <<>> /\ out'.framing # Chunked =>
            /\ LastSent'.bytes <= out'.framing
            /\ ~WriteLost' => out'.length + LastSent'.bytes + Short' = out'.framing
            /\ out'.finished /\ ~out'.broken => LastSent'.bytes = out'.framing
    BY <2>6, <2>8
  <2>11. sent' # <<>> /\ out'.framing = Chunked /\ LastSent'.ended => out'.finished
    BY <2>7
  <2> QED BY <2>5, <2>9, <2>10, <2>11 DEF WriterOK
<1>8. InStep'
  <2>1. CASE out.broken
    <3>1. Cut' /\ Pending' = Pending
      BY <1>1, <1>3, <2>1 DEF Cut, Pending
    <3> QED BY <1>1, <1>4, <1>6, <3>1, StepsStill
  <2>2. CASE ~out.broken
    <3>1. ~Cut /\ Pending = out.queue \o <<>> /\ Pending' = (out.queue \o MessageHead(f)) \o <<>>
      BY <1>1, <1>3, <2>2 DEF Cut, WriteLost, Pending
    <3>2. wire' \o Pending' = (wire \o Pending) \o MessageHead(f)
      <4>1. out.queue \in Seq(Characters) /\ wire \in Seq(Characters)
        BY <1>1, FlightIs
      <4>2. out.queue \o MessageHead(f) \in Seq(Characters)
        BY <4>1, <1>5, ConcatProperties
      <4>3. Pending = out.queue /\ Pending' = out.queue \o MessageHead(f)
        BY <3>1, <4>1, <4>2, ConcatEmptySeq
      <4>4. (wire \o out.queue) \o MessageHead(f) = wire \o (out.queue \o MessageHead(f))
        <5>1. \A x, y, z \in Seq(Characters) : (x \o y) \o z = x \o (y \o z)
          BY ConcatAssociative
        <5> QED BY <1>5, <4>1, <5>1
      <4> QED BY <1>1, <4>3, <4>4
    <3>3. ASSUME WriterPlace \in Places, Fits(WriterPlace, sent')
          PROVE  Leads(WriterPlace, MessageHead(f), WriterPlace', sent')
      <4>1. WriterPlace.at = "start" /\ WriterPlace.m = Len(sent)
        BY <1>1, <2>2, FinishedAtStart
      <4>2. Len(sent) \in Nat
        BY <1>1 DEF FramingTypeOK
      <4>3. Leads(WriterPlace, MessageHead(f), Begun(WriterPlace, f), sent')
        <5>1. WriterPlace.m + 1 <= Len(sent') /\ sent'[WriterPlace.m + 1].framing = f
              /\ sent'[WriterPlace.m + 1].bytes = 0
          BY <1>4, <4>1, <4>2
        <5> QED BY <3>3, <4>1, <5>1, HeadLeads
      <4>4. WriterPlace' = Begun(WriterPlace, f)
        <5>1. LastSent'.bytes = 0 /\ Short' = 0
          BY <1>1, <1>3, <1>4 DEF Short
        <5>2. WriterPoint' = AfterHead(f)
          <6>1. out'.framing = f /\ out'.finished = (f = 0) /\ out'.op.kind # "pump"
            BY <1>1, <1>3
          <6>2. Chunked # 0
            BY DEF Chunked
          <6> QED BY <5>1, <6>1, <6>2 DEF WriterPoint, AfterHead
        <5>3. (IF f = Chunked THEN 0 ELSE f - 0) = IF f = Chunked THEN 0 ELSE f
          BY <1>2
        <5> QED BY <1>3, <1>4, <4>1, <5>1, <5>2, <5>3 DEF WriterPlace, Begun
      <4> QED BY <4>3, <4>4
    <3> QED BY <1>1, <1>4, <1>5, <1>6, <3>1, <3>2, <3>3, StepsOn
  <2> QED BY <2>1, <2>2
<1> QED BY <1>1, <1>4, <1>6, <1>7, <1>8, WriterSteps

(* The joints of what is passed on. *)
LEMMA Joints ==
  \A x, y, z \in Seq(Characters) :
    /\ x \o y \in Seq(Characters)
    /\ (x \o y) \o z = x \o (y \o z)
    /\ x \o <<>> = x /\ <<>> \o x = x
    /\ <<>> \in Seq(Characters)
<1>1. <<>> \in Seq(Characters)
  BY EmptySeq
<1> QED BY <1>1, ConcatProperties, ConcatAssociative, ConcatEmptySeq

(* Places in a body, and at its end. *)
LEMMA FitsBody ==
  ASSUME NEW p, NEW log, p.at = "body", p.m > 0, p.m # 0, p.m <= Len(log),
         p.f = log[p.m].framing, p.got <= log[p.m].bytes,
         p.left > 0, p.f # Chunked => p.got + p.left = p.f
  PROVE  Fits(p, log)
BY DEF Fits, IsEnd, InChunks, InHead, NothingLeft

(* Behind a message that is complete. *)
LEMMA FitsStart ==
  ASSUME NEW p, NEW log, p.at = "start", p.m > 0, p.m # 0, p.m <= Len(log),
         p.f = log[p.m].framing, p.got <= log[p.m].bytes, p.got = log[p.m].bytes,
         p.left = 0, p.f = Chunked => log[p.m].ended, p.f # Chunked => p.got = p.f
  PROVE  Fits(p, log)
BY DEF Fits, IsEnd, InChunks, InHead, NothingLeft

(* The application writes text, n bytes of which belong to the body. *)
Writes(o, queue, k, text, op) ==
  StartWrite([o EXCEPT !.length = @ - k, !.queue = queue], text, op)

(* The stream once a write of the body has begun: it was at rest before. *)
LEMMA OutWrites ==
  ASSUME FramingInv, MayWrite, NEW k \in Int, NEW text \in Seq(Characters), NEW op \in Ops,
         NEW queue \in Seq(Characters),
         out' = Writes(out, queue, k, text, op)
  PROVE  /\ out' \in Outs
         /\ out'.queue = queue /\ out'.text = text /\ out'.op = op /\ out'.writeInProgress
         /\ out'.inBody /\ ~out'.finished
         /\ out'.broken = out.broken /\ out'.framing = out.framing
         /\ out'.length = out.length - k
         /\ sent # <<>> /\ ~out.finished /\ ~out.writeInProgress /\ out.inBody
         /\ out.op.kind = "none" /\ out.text = <<>> /\ Short = 0 /\ ~WriteLost
         /\ (Cut <=> out.broken \/ eof)
<1>1. /\ FramingTypeOK /\ WriterOK
      /\ ~out.finished /\ ~out.writeInProgress /\ out.inBody
  BY DEF FramingInv, MayWrite, CanWriteBodyData
<1>2. out.op.kind = "none"
  BY <1>1 DEF WriterOK
<1>3. out.text = <<>> /\ Short = 0 /\ ~WriteLost /\ sent # <<>>
  BY <1>1, <1>2 DEF WriterOK, Short, WriteLost
<1>4. out \in Outs /\ out.length \in Int
  BY <1>1, OutIs
<1> DEFINE yes == TRUE
           len == out.length - k
<1>5. out' = [queue |-> queue, text |-> text, op |-> op, inBody |-> out.inBody,
              writeInProgress |-> yes, broken |-> out.broken, framing |-> out.framing,
              length |-> len, finished |-> out.finished]
  BY <1>4 DEF Writes, StartWrite, Outs
<1>6. yes \in BOOLEAN /\ len \in Int
      /\ out.framing \in Int /\ out.inBody \in BOOLEAN /\ out.broken \in BOOLEAN
      /\ out.finished \in BOOLEAN
  BY <1>1, OutIs
<1> HIDE DEF yes, len
<1>7. /\ out'.queue = queue /\ out'.text = text /\ out'.op = op /\ out'.writeInProgress = yes
      /\ out'.inBody = out.inBody /\ out'.finished = out.finished
      /\ out'.broken = out.broken /\ out'.framing = out.framing
      /\ out'.length = len
  BY <1>5
<1>8. out' \in Outs
  BY <1>5, <1>6 DEF Outs
<1>9. Cut <=> out.broken \/ eof
  BY <1>3 DEF Cut
<1> QED BY <1>1, <1>2, <1>3, <1>7, <1>8, <1>9 DEF yes, len

(* Of a body of f bytes, b are behind and l ahead: where i more bytes lead. *)
LEMMA Counted ==
  ASSUME NEW b \in Nat, NEW n \in Nat, NEW i \in 0..n, NEW l \in Int, NEW f \in Int,
         n <= l, l + b = f
  PROVE  /\ b + i <= b + n /\ b + i + (l - i) = f
         /\ (i < l => l - i > 0)
         /\ (~(i < l) => i = n /\ l - i = 0 /\ b + i = f)
OBVIOUS

(* Bytes of a body whose length was announced, k of it for n that are there. *)
LEMMA FixedSends ==
  ASSUME FramingInv, MayWrite, out.framing # Chunked,
         NEW k \in Nat, k <= out.length, NEW n \in Nat, n <= k,
         NEW op \in Ops, op.kind # "none", op.promised - op.count = k - n,
         op.count <= op.promised,
         op.kind # "pump" => op.promised = 0 /\ op.count = 0,
         out' = StartWrite([out EXCEPT !.length = @ - k], Bytes(Body, n), op),
         WroteBytes(n), UNCHANGED <<wire, eof, in, rcvd>>
  PROVE  FramingInv'
<1>1. FramingTypeOK /\ WriterOK /\ InStep /\ out \in Outs
      /\ wire' = wire /\ eof' = eof /\ in' = in /\ rcvd' = rcvd
      /\ out.length \in Int /\ out.framing \in Int
  BY OutIs DEF FramingInv
<1> DEFINE text == Bytes(Body, n)
<1>2. sent # <<>>
  BY <1>1 DEF MayWrite, WriterOK
<1>3. /\ LastSent \in Messages /\ LastSent.framing = out.framing /\ LastSent.bytes \in Nat
      /\ Body = LastSent.bytes /\ sent \in Seq(Messages) /\ Len(sent) \in Nat /\ Len(sent) > 0
  <2>1. sent \in Seq(Messages)
    BY <1>1 DEF FramingTypeOK
  <2> QED BY <1>1, <1>2, <2>1, LogLast, LastIs DEF WriterOK, Body
<1>4. text \in Seq(Characters) /\ Len(text) = n
  BY <1>3, BytesAre
<1>5. /\ out' \in Outs
      /\ out'.queue = out.queue /\ out'.text = text /\ out'.op = op /\ out'.writeInProgress
      /\ out'.inBody /\ ~out'.finished
      /\ out'.broken = out.broken /\ out'.framing = out.framing
      /\ out'.length = out.length - k
      /\ ~out.finished /\ ~out.writeInProgress /\ out.inBody
      /\ out.op.kind = "none" /\ out.text = <<>> /\ Short = 0 /\ ~WriteLost
      /\ (Cut <=> out.broken \/ eof)
  <2>1. out.queue \in Seq(Characters)
    BY <1>1, OutIs
  <2>2. [out EXCEPT !.length = @ - k, !.queue = out.queue] = [out EXCEPT !.length = @ - k]
    BY <1>1 DEF Outs
  <2>3. out' = Writes(out, out.queue, k, text, op)
    BY <2>2 DEF Writes
  <2> HIDE DEF text
  <2>4. k \in Int /\ text \in Seq(Characters)
    BY <1>4
  <2> QED BY ONLY FramingInv, MayWrite, op \in Ops, <2>1, <2>3, <2>4, OutWrites, SMTT(30)
<1>6. LastSent.bytes <= out.framing /\ out.length + LastSent.bytes = out.framing
  <2>1. out.length + LastSent.bytes + Short = out.framing /\ LastSent.bytes <= out.framing
    BY <1>2, <1>5 DEF WriterOK, FramingInv
  <2> QED BY <1>1, <1>3, <1>5, <2>1
<1>7. /\ sent' \in Seq(Messages) /\ Len(sent') = Len(sent) /\ sent' # <<>>
      /\ LastSent'.framing = out.framing /\ LastSent'.ended = LastSent.ended
      /\ LastSent'.bytes = LastSent.bytes + n /\ LastSent' = sent'[Len(sent')]
      /\ Grows(sent, sent')
  <2>1. Complete(LastSent) => n = 0
    BY <1>1, <1>3, <1>6 DEF Complete
  <2>2. sent' = [sent EXCEPT ![Len(sent)].bytes = @ + n]
    BY DEF WroteBytes
  <2>3. LastSent' = sent'[Len(sent')]
    BY DEF LastSent
  <2> QED BY <1>1, <1>2, <1>3, <2>1, <2>2, <2>3, LogWrites
<1>8. FramingTypeOK'
  BY <1>1, <1>5, <1>7 DEF FramingTypeOK, Outs
<1>9. WriterOK'
  <2>1. Short' = k - n /\ ~WriteLost'
    BY <1>5 DEF Short, WriteLost
  <2>2. /\ LastSent'.bytes <= out'.framing
        /\ out'.length + LastSent'.bytes + Short' = out'.framing
    BY <1>1, <1>3, <1>5, <1>6, <1>7, <2>1
  <2>3. out.broken => out.queue = <<>>
    BY <1>1 DEF WriterOK
  <2>4. /\ out'.op.kind # "none" /\ out'.op.count <= out'.op.promised
        /\ out'.op.kind # "pump" => out'.op.promised = 0 /\ out'.op.count = 0
        /\ out'.broken => out'.queue = <<>>
        /\ out'.framing = LastSent'.framing /\ out'.framing # Chunked
    BY <1>5, <1>7, <2>3
  <2> QED BY <1>5, <1>7, <2>2, <2>4 DEF WriterOK
<1>10. InStep'
  <2>1. CASE out.broken \/ eof
    <3>1. Pending' = Pending /\ Cut' /\ Cut
      BY <1>1, <1>5, <2>1 DEF Pending, Cut
    <3> QED BY <1>1, <1>7, <1>8, <3>1, StepsStill
  <2>2. CASE ~(out.broken \/ eof)
    <3> HIDE DEF text
    <3>0. ~out.broken /\ ~eof /\ ~out'.broken /\ ~eof'
      BY <1>1, <1>5, <2>2
    <3>1. ~Cut /\ ~Cut'
      BY <1>5, <3>0 DEF Cut, WriteLost
    <3>2. out.queue \in Seq(Characters) /\ wire \in Seq(Characters)
      BY <1>1, FlightIs
    <3>9. Pending = out.queue /\ Pending' = out.queue \o text
      BY <1>5, <3>0, <3>2, Joints DEF Pending
    <3>3. wire' \o Pending' = (wire \o Pending) \o text
      <4>1. text \in Seq(Characters)
        BY <1>4
      <4>2. (wire \o out.queue) \o text = wire \o (out.queue \o text)
        BY ONLY <3>2, <4>1, Rejoined
      <4>3. wire' = wire
        BY <1>1
      <4> QED BY ONLY <3>9, <4>2, <4>3
    <3>4. CASE n = 0
      <4>1. text = <<>>
        BY <1>4, <3>4, EmptySeq
      <4>2. WriterPlace' = WriterPlace
        BY <1>2, <1>3, <1>5, <1>7, <3>4 DEF WriterPlace, WriterPoint
      <4>3. wire' \o Pending' = wire \o Pending
        BY <1>1, <3>2, <3>9, <4>1, Joints
      <4> QED BY <1>1, <1>7, <1>8, <3>1, <4>2, <4>3, StepsStill
    <3>5. CASE n > 0
      <4>1. ASSUME WriterPlace \in Places, Fits(WriterPlace, sent), Fits(WriterPlace, sent')
            PROVE  Leads(WriterPlace, text, WriterPlace', sent')
        <5> DEFINE p == WriterPlace
        <5>1. /\ p.at = "body" /\ p.left = out.length /\ p.left > 0 /\ n <= p.left
              /\ p.got = LastSent.bytes /\ p.f = out.framing /\ p.m = Len(sent)
          <6>1. out.length > 0 /\ n <= out.length /\ out.framing - LastSent.bytes = out.length
                /\ LastSent.bytes # out.framing
            BY <1>1, <1>3, <1>6, <3>5
          <6> QED BY <1>2, <6>1 DEF WriterPlace, WriterPoint
        <5> HIDE DEF p
        <5>2. ASSUME NEW i \in 0..n PROVE Fits(AfterBytes(p, i), sent')
          <6> DEFINE q == AfterBytes(p, i)
          <6>1. /\ q.at = IF i < p.left THEN "body" ELSE "start"
                /\ q.m = Len(sent) /\ q.f = out.framing /\ q.got = LastSent.bytes + i
                /\ q.left = out.length - i
            BY <5>1 DEF AfterBytes, Within
          <6>2. /\ LastSent.bytes + i <= LastSent.bytes + n
                /\ LastSent.bytes + i + (out.length - i) = out.framing
                /\ (i < p.left => out.length - i > 0)
                /\ (~(i < p.left) => i = n /\ out.length - i = 0
                                     /\ LastSent.bytes + i = out.framing)
            <7>1. out.length \in Int /\ out.framing \in Int
              BY <1>1
            <7>2. LastSent.bytes \in Nat
              BY <1>3
            <7>3. p.left = out.length /\ n <= p.left
              BY <5>1
            <7>4. n <= out.length /\ out.length + LastSent.bytes = out.framing
              BY <1>6, <7>3
            <7>5. /\ LastSent.bytes + i <= LastSent.bytes + n
                  /\ LastSent.bytes + i + (out.length - i) = out.framing
                  /\ (i < out.length => out.length - i > 0)
                  /\ (~(i < out.length) => i = n /\ out.length - i = 0
                                           /\ LastSent.bytes + i = out.framing)
              BY ONLY <7>1, <7>2, <7>4, n \in Nat, i \in 0..n, Counted
            <7> QED BY ONLY <7>3, <7>5
          <6> HIDE DEF q
          <6>3. /\ sent'[q.m].framing = out.framing /\ sent'[q.m].bytes = LastSent.bytes + n
                /\ q.m > 0 /\ q.m # 0 /\ q.m <= Len(sent')
            BY <1>3, <1>7, <6>1
          <6>4. CASE i < p.left
            <7>1. /\ q.at = "body"
                  /\ q.f = sent'[q.m].framing /\ q.got <= sent'[q.m].bytes
                  /\ q.left > 0 /\ q.got + q.left = q.f
              BY <6>1, <6>2, <6>3, <6>4
            <7> QED BY <6>3, <7>1, FitsBody DEF q
          <6>5. CASE ~(i < p.left)
            <7>1. /\ q.at = "start"
                  /\ q.f = sent'[q.m].framing /\ q.got <= sent'[q.m].bytes
                  /\ q.left = 0 /\ q.f # Chunked /\ q.got = q.f
              BY <6>1, <6>2, <6>3, <6>5
            <7>2. q.got = sent'[q.m].bytes
              BY <6>1, <6>2, <6>3, <6>5
            <7> QED BY <6>3, <7>1, <7>2, FitsStart DEF q
          <6> QED BY <6>4, <6>5
        <5>3. Leads(p, Bytes(p.got, n), AfterBytes(p, n), sent')
          BY <4>1, <5>1, <5>2, BytesLead DEF p
        <5>4. Bytes(p.got, n) = text
          BY <1>3, <5>1 DEF text
        <5>5. WriterPlace' = AfterBytes(p, n)
          <6>1. LastSent'.bytes = LastSent.bytes + n /\ out'.framing = out.framing
                /\ out.framing - (LastSent.bytes + n) = out.length - n
                /\ (LastSent.bytes + n = out.framing <=> ~(n < out.length))
            BY <1>1, <1>3, <1>5, <1>6, <1>7, <5>1
          <6> QED BY <1>5, <1>7, <5>1, <6>1 DEF WriterPlace, WriterPoint, AfterBytes, Within
        <5> QED BY <5>3, <5>4, <5>5 DEF p
      <4> QED BY <1>1, <1>4, <1>7, <1>8, <3>1, <3>3, <4>1, StepsOn
    <3> QED BY <3>4, <3>5
  <2> QED BY <2>1, <2>2
<1> QED BY <1>1, <1>7, <1>8, <1>9, <1>10, WriterSteps

(* write() of the Content-Length writer: no more than is left of the body. *)
LEMMA FixedWriteSteps ==
  ASSUME FramingInv, NEW n \in WriteSizes, FixedWrite(n)
  PROVE  FramingInv'
<1> DEFINE op == [NoOp EXCEPT !.kind = "write"]
<1>1. n \in Nat
  BY FramingAssumption
<1>2. op \in Ops /\ op.kind = "write" /\ op.promised = 0 /\ op.count = 0
  BY DEF NoOp, Ops
<1>3. /\ MayWrite /\ out.framing # Chunked /\ n <= out.length /\ n <= n
      /\ out' = StartWrite([out EXCEPT !.length = @ - n], Bytes(Body, n), op)
      /\ WroteBytes(n) /\ UNCHANGED <<wire, eof, in, rcvd>>
  BY <1>1 DEF FixedWrite
<1> HIDE DEF op
<1>4. op.kind # "none" /\ op.promised - op.count = n - n /\ op.count <= op.promised
      /\ (op.kind # "pump" => op.promised = 0 /\ op.count = 0)
  BY <1>1, <1>2
<1> QED BY ONLY FramingInv, <1>1, <1>2, <1>3, <1>4, FixedSends, SMTT(30)

(* pumpFrom() of the Content-Length writer: what the source has promised. *)
LEMMA FixedPumpSteps ==
  ASSUME FramingInv, NEW p \in Pumps, FixedPump(p)
  PROVE  FramingInv'
<1> DEFINE op == [kind |-> "pump", promised |-> p[1], count |-> p[2]]
<1>1. p[1] \in Nat /\ p[2] \in Nat /\ p[2] <= p[1]
  BY FramingAssumption
<1>2. op \in Ops /\ op.kind = "pump" /\ op.promised = p[1] /\ op.count = p[2]
  BY <1>1 DEF Ops
<1>3. /\ MayWrite /\ out.framing # Chunked /\ p[1] <= out.length
      /\ out' = StartWrite([out EXCEPT !.length = @ - p[1]], Bytes(Body, p[2]), op)
      /\ WroteBytes(p[2]) /\ UNCHANGED <<wire, eof, in, rcvd>>
  BY DEF FixedPump
<1> HIDE DEF op
<1>4. op.kind # "none" /\ op.promised - op.count = p[1] - p[2] /\ op.count <= op.promised
      /\ (op.kind # "pump" => op.promised = 0 /\ op.count = 0)
  BY <1>1, <1>2
<1> QED BY ONLY FramingInv, <1>1, <1>2, <1>3, <1>4, FixedSends, SMTT(30)

(* Places between the chunks of a body. *)
LEMMA FitsChunks ==
  ASSUME NEW p, NEW log, p.at \in {"size", "dataCR", "dataLF"}, p.m > 0, p.m # 0, p.m <= Len(log),
         p.f = Chunked, p.f = log[p.m].framing, p.got <= log[p.m].bytes, p.left = 0
  PROVE  Fits(p, log)
BY DEF Fits, IsEnd, InChunks, InHead, NothingLeft

(* A chunk of k bytes, of which n are there. *)
LEMMA ChunkLeads ==
  ASSUME NEW p \in Places, p.at = "size", NEW log \in Seq(Messages), Fits(p, log),
         NEW k \in Nat, k > 0, NEW n \in Nat, n <= k, p.got + n <= log[p.m].bytes
  PROVE  /\ ChunkSize(k) \in Seq(Characters) /\ Bytes(p.got, n) \in Seq(Characters)
         /\ Leads(p, ChunkSize(k) \o Bytes(p.got, n),
                  AfterBytes(Within(p, "body", p.got, k), n), log)
<1> DEFINE b == Within(p, "body", p.got, k)
<1>1. p.m \in Nat /\ p.f \in Int /\ p.got \in Nat /\ Len(log) \in Nat
  BY DEF Places
<1>2. p.f = Chunked /\ p.m # 0 /\ p.m > 0 /\ p.m <= Len(log) /\ p.f = log[p.m].framing
      /\ p.got <= log[p.m].bytes /\ log[p.m].bytes \in Nat
  <2>1. p.f = Chunked /\ p.m # 0 /\ p.m <= Len(log)
    BY DEF Fits, InChunks
  <2>2. p.m > 0 /\ p.m \in 1..Len(log)
    BY <1>1, <2>1
  <2> QED BY <2>1, <2>2, LogHas DEF Fits
<1>3. b.at = "body" /\ b.m = p.m /\ b.f = p.f /\ b.got = p.got /\ b.left = k
  BY DEF Within
<1>4. b \in Places
  BY <1>1 DEF Within, Places, Points
<1>5. ChunkSize(k) \in Seq(Characters) /\ Leads(p, ChunkSize(k), b, log)
  <2>1. AfterSize(k) = "body" /\ k # 0
    BY DEF AfterSize
  <2> QED BY <2>1, SizeLeads
<1>6. ASSUME NEW i \in 0..n PROVE Fits(AfterBytes(b, i), log)
  <2> DEFINE q == AfterBytes(b, i)
  <2>1. /\ q.at = IF i < k THEN "body" ELSE "dataCR"
        /\ q.m = p.m /\ q.f = p.f /\ q.got = p.got + i /\ q.left = k - i
    BY <1>2, <1>3 DEF AfterBytes, Within
  <2> HIDE DEF q
  <2>2. q.got <= log[q.m].bytes
    BY <1>1, <1>2, <2>1
  <2>3. CASE i < k
    <3>1. q.at = "body" /\ q.left > 0
      BY <2>1, <2>3
    <3> QED BY <1>2, <2>1, <2>2, <3>1, FitsBody DEF q
  <2>4. CASE ~(i < k)
    <3>1. q.at = "dataCR" /\ q.left = 0
      BY <2>1, <2>4
    <3> QED BY <1>2, <2>1, <2>2, <3>1, FitsChunks DEF q
  <2> QED BY <2>3, <2>4
<1>7. Bytes(p.got, n) \in Seq(Characters)
  BY <1>1, BytesAre
<1> HIDE DEF b
<1>8. Leads(b, Bytes(p.got, n), AfterBytes(b, n), log)
  BY <1>3, <1>4, <1>6, BytesLead
<1> QED BY <1>5, <1>7, <1>8, LeadsThrough DEF b

(* The line end after the data of a chunk. *)
LEMMA DataEnds ==
  ASSUME NEW p \in Places, p.at = "dataCR", NEW log, Fits(p, log)
  PROVE  Leads(p, CRLF, At(p, "size"), log)
<1> DEFINE q == At(p, "dataLF")
           r == At(p, "size")
<1>1. p.m \in Nat /\ p.f \in Int /\ p.got \in Nat /\ p.left \in Nat
  BY DEF Places
<1>2. p.f = Chunked /\ p.m # 0 /\ p.m > 0 /\ p.m <= Len(log) /\ p.f = log[p.m].framing
      /\ p.got <= log[p.m].bytes /\ p.left = 0
  <2>1. p.f = Chunked /\ p.m # 0 /\ p.m <= Len(log) /\ p.left = 0
    BY DEF Fits, InChunks, NothingLeft
  <2> QED BY <1>1, <2>1 DEF Fits
<1>3. q \in Places /\ r \in Places
  BY <1>1 DEF At, Within, Places, Points
<1>4. /\ q.at = "dataLF" /\ q.m = p.m /\ q.f = p.f /\ q.got = p.got /\ q.left = p.left
      /\ r.at = "size" /\ r.m = p.m /\ r.f = p.f /\ r.got = p.got /\ r.left = p.left
  BY DEF At, Within
<1>5. Takes(p, CR, q)
  BY DEF Takes
<1>6. Takes(q, LF, r)
  <2>1. r = At(q, "size")
    BY DEF At, Within
  <2> HIDE DEF q, r
  <2> QED BY <1>4, <2>1 DEF Takes
<1> HIDE DEF q, r
<1>7. Fits(q, log) /\ Fits(r, log)
  BY <1>2, <1>4, FitsChunks
<1> QED BY <1>3, <1>5, <1>6, <1>7, LineLeads DEF r

(* Where a chunked writer is after a write of n bytes. *)
Wrote(p, n, op) ==
  [at |-> IF op.kind # "pump" THEN "size"
          ELSE IF op.promised - op.count = 0 THEN "dataCR" ELSE "body",
   m |-> p.m, f |-> p.f, got |-> p.got + n, left |-> op.promised - op.count]

(* Characters that take a chunked writer on from between two chunks. *)
TakesOn(more, n, op) ==
  \A p \in Places, log \in Seq(Messages) :
    p.at = "size" /\ Fits(p, log) /\ p.got = Body /\ p.got + n <= log[p.m].bytes =>
      Leads(p, more, Wrote(p, n, op), log)

(* A write or a pump of the chunked writer puts a chunk on its way, or only
   the beginning of one. *)
LEMMA ChunkedSends ==
  ASSUME FramingInv, MayWrite, out.framing = Chunked,
         NEW n \in Nat, NEW op \in Ops, op.kind # "none", op.count <= op.promised,
         op.kind # "pump" => op.promised = 0 /\ op.count = 0,
         NEW queue \in Seq(Characters), NEW text \in Seq(Characters),
         NEW more \in Seq(Characters),
         out.broken => queue = <<>>, ~out.broken => queue \o text = out.queue \o more,
         TakesOn(more, n, op),
         out' = Writes(out, queue, 0, text, op),
         WroteBytes(n), UNCHANGED <<wire, eof, in, rcvd>>
  PROVE  FramingInv'
<1>1. FramingTypeOK /\ WriterOK /\ InStep /\ out \in Outs
      /\ wire' = wire /\ eof' = eof /\ in' = in /\ rcvd' = rcvd
      /\ out.length \in Int /\ out.framing \in Int
  BY OutIs DEF FramingInv
<1>2. sent # <<>>
  BY <1>1 DEF MayWrite, WriterOK
<1>3. /\ LastSent \in Messages /\ LastSent.framing = out.framing /\ LastSent.bytes \in Nat
      /\ Body = LastSent.bytes /\ sent \in Seq(Messages) /\ Len(sent) \in Nat /\ Len(sent) > 0
  <2>1. sent \in Seq(Messages)
    BY <1>1 DEF FramingTypeOK
  <2> QED BY <1>1, <1>2, <2>1, LogLast, LastIs DEF WriterOK, Body
<1>5. /\ out' \in Outs
      /\ out'.queue = queue /\ out'.text = text /\ out'.op = op /\ out'.writeInProgress
      /\ out'.inBody /\ ~out'.finished
      /\ out'.broken = out.broken /\ out'.framing = out.framing
      /\ ~out.finished /\ ~out.writeInProgress /\ out.inBody
      /\ out.op.kind = "none" /\ out.text = <<>> /\ Short = 0 /\ ~WriteLost
      /\ (Cut <=> out.broken \/ eof)
  <2>1. 0 \in Int
    OBVIOUS
  <2> QED BY ONLY FramingInv, MayWrite, op \in Ops, queue \in Seq(Characters),
                  text \in Seq(Characters), out' = Writes(out, queue, 0, text, op),
                  <2>1, OutWrites, SMTT(30)
<1>6. ~LastSent.ended
  BY <1>2, <1>1, <1>5 DEF WriterOK
<1>7. /\ sent' \in Seq(Messages) /\ Len(sent') = Len(sent) /\ sent' # <<>>
      /\ LastSent'.framing = out.framing /\ LastSent'.ended = LastSent.ended
      /\ LastSent'.bytes = LastSent.bytes + n /\ LastSent' = sent'[Len(sent')]
      /\ Grows(sent, sent')
  <2>1. ~Complete(LastSent)
    BY <1>3, <1>6 DEF Complete
  <2>2. sent' = [sent EXCEPT ![Len(sent)].bytes = @ + n]
    BY DEF WroteBytes
  <2>3. LastSent' = sent'[Len(sent')]
    BY DEF LastSent
  <2> QED BY <1>1, <1>2, <1>3, <2>1, <2>2, <2>3, LogWrites
<1>8. FramingTypeOK'
  BY <1>1, <1>5, <1>7 DEF FramingTypeOK, Outs
<1>9. WriterOK'
  <2>1. /\ out'.op.kind # "none" /\ out'.op.count <= out'.op.promised
        /\ out'.op.kind # "pump" => out'.op.promised = 0 /\ out'.op.count = 0
        /\ out'.broken => out'.queue = <<>>
        /\ out'.framing = LastSent'.framing /\ out'.framing = Chunked
        /\ ~LastSent'.ended
    BY <1>5, <1>6, <1>7
  <2> QED BY <1>5, <1>7, <2>1 DEF WriterOK
<1>10. InStep'
  <2>1. CASE out.broken \/ eof
    <3>1. Pending' = Pending /\ Cut' /\ Cut
      BY <1>1, <1>5, <2>1 DEF Pending, Cut
    <3> QED BY <1>1, <1>7, <1>8, <3>1, StepsStill
  <2>2. CASE ~(out.broken \/ eof)
    <3>0. ~out.broken /\ ~eof /\ ~out'.broken /\ ~eof'
      BY <1>1, <1>5, <2>2
    <3>1. ~Cut
      BY <1>5, <3>0 DEF Cut
    <3>2. out.queue \in Seq(Characters) /\ wire \in Seq(Characters)
      BY <1>1, FlightIs
    <3>9. Pending = out.queue /\ Pending' = out.queue \o more
      <4>1. Pending = out.queue \o <<>> /\ Pending' = queue \o text
        <5>1. out.text = <<>> /\ out'.queue = queue /\ out'.text = text
          BY <1>5
        <5> QED BY ONLY <3>0, <5>1 DEF Pending
      <4>2. out.queue \o <<>> = out.queue
        BY ONLY <3>2, Joints
      <4> QED BY <3>0, <4>1, <4>2
    <3>3. wire' \o Pending' = (wire \o Pending) \o more
      <4>2. (wire \o out.queue) \o more = wire \o (out.queue \o more)
        <5>1. more \in Seq(Characters)
          OBVIOUS
        <5> QED BY ONLY <5>1, <3>2, Rejoined
      <4>3. wire' = wire
        BY <1>1
      <4> QED BY ONLY <3>9, <4>2, <4>3
    <3>4. ASSUME WriterPlace \in Places, Fits(WriterPlace, sent')
          PROVE  Leads(WriterPlace, more, WriterPlace', sent')
      <4> DEFINE p == WriterPlace
      <4>1. p.at = "size" /\ p.got = LastSent.bytes /\ p.f = Chunked /\ p.m = Len(sent)
        BY <1>2, <1>5 DEF WriterPlace, WriterPoint
      <4>2. WriterPlace' = Wrote(p, n, op)
        BY <1>5, <1>7, <4>1 DEF WriterPlace, WriterPoint, Wrote, Short
      <4> HIDE DEF p
      <4>3. p.got = Body /\ p.got + n <= sent'[p.m].bytes
        BY <1>3, <1>7, <4>1
      <4>4. Leads(p, more, Wrote(p, n, op), sent')
        BY <1>7, <3>4, <4>1, <4>3 DEF p, TakesOn
      <4> QED BY <4>2, <4>4 DEF p
    <3> QED BY <1>1, <1>7, <1>8, <3>1, <3>3, <3>4, StepsOn
  <2> QED BY <2>1, <2>2
<1> QED BY <1>1, <1>7, <1>8, <1>9, <1>10, WriterSteps

(* write() of the chunked writer: a whole chunk. *)
LEMMA ChunkedWriteSteps ==
  ASSUME FramingInv, NEW n \in WriteSizes, ChunkedWrite(n)
  PROVE  FramingInv'
<1> DEFINE op == [NoOp EXCEPT !.kind = "write"]
           bytes == Bytes(Body, n)
           text == ChunkSize(n) \o bytes \o CRLF
<1>1. n \in Nat /\ n > 0 /\ n <= n /\ n - n = 0
  BY FramingAssumption
<1>2. op \in Ops /\ op.kind = "write" /\ op.promised = 0 /\ op.count = 0
      /\ op.promised - op.count = 0
  BY DEF NoOp, Ops
<1>3. /\ MayWrite /\ out.framing = Chunked /\ out' = StartWrite(out, text, op)
      /\ WroteBytes(n) /\ UNCHANGED <<wire, eof, in, rcvd>>
  BY DEF ChunkedWrite
<1> HIDE DEF op
<1>4. op.kind # "none" /\ op.count <= op.promised
      /\ (op.kind # "pump" => op.promised = 0 /\ op.count = 0)
  BY <1>2
<1>5. /\ FramingTypeOK /\ out \in Outs /\ out.queue \in Seq(Characters)
      /\ (out.broken => out.queue = <<>>)
  BY OutIs DEF FramingInv, WriterOK
<1>6. Body \in Nat
  <2>1. sent \in Seq(Messages) /\ sent # <<>>
    BY <1>3 DEF FramingInv, FramingTypeOK, MayWrite, WriterOK
  <2> QED BY <2>1, LogLast, LastIs DEF Body
<1>7. /\ ChunkSize(n) \in Seq(Characters) /\ bytes \in Seq(Characters)
      /\ ChunkSize(n) \o bytes \in Seq(Characters) /\ text \in Seq(Characters)
  <2>1. <<"size", n>> \in Characters
    BY <1>1 DEF Characters
  <2>2. <<<<"size", n>>>> \in Seq(Characters)
    BY <2>1
  <2>3. ChunkSize(n) \in Seq(Characters)
    BY <2>2, CharactersAre, Joints DEF ChunkSize
  <2>4. bytes \in Seq(Characters)
    BY <1>1, <1>6, BytesAre
  <2> QED BY <2>3, <2>4, CharactersAre, Joints
<1>8. out' = Writes(out, out.queue, 0, text, op)
  <2> DEFINE len == out.length - 0
  <2>1. len = out.length
    BY <1>5 DEF Outs
  <2> HIDE DEF text, len
  <2>2. [out EXCEPT !.length = len, !.queue = out.queue] = out
    BY <1>5, <2>1 DEF Outs
  <2> QED BY <1>3, <2>2 DEF Writes, len
<1>9. ASSUME NEW p \in Places, NEW log \in Seq(Messages),
             p.at = "size", Fits(p, log), p.got = Body, p.got + n <= log[p.m].bytes
      PROVE  Leads(p, text, Wrote(p, n, op), log)
  <2> DEFINE q == AfterBytes(Within(p, "body", p.got, n), n)
             r == Wrote(p, n, op)
  <2>1. Leads(p, ChunkSize(n) \o bytes, q, log)
    BY <1>1, <1>9, ChunkLeads
  <2>2. q \in Places /\ Fits(q, log)
    BY <1>7, <2>1, LeadsAhead
  <2>3. p.f = Chunked
    BY <1>9 DEF Fits, InChunks
  <2>4. /\ q.at = "dataCR" /\ q.m = p.m /\ q.f = p.f /\ q.got = p.got + n /\ q.left = 0
    BY <1>1, <2>3 DEF AfterBytes, Within
  <2>5. r = At(q, "size")
    <3> HIDE DEF q
    <3> QED BY <1>2, <2>4 DEF Wrote, At, Within
  <2> HIDE DEF q, r, bytes
  <2>6. Leads(q, CRLF, r, log)
    BY <2>2, <2>4, <2>5, DataEnds
  <2>7. Leads(p, (ChunkSize(n) \o bytes) \o CRLF, r, log)
    BY <1>7, <2>1, <2>6, CharactersAre, LeadsThrough
  <2> QED BY <2>7 DEF r
<1>10. TakesOn(text, n, op)
  BY <1>9 DEF TakesOn
<1> HIDE DEF text
<1> QED BY ONLY FramingInv, <1>1, <1>2, <1>3, <1>4, <1>5, <1>7, <1>8, <1>10, ChunkedSends, Zenon

(* pumpFrom() of the chunked writer: the size that the source promises and
   what it has; an empty promise would be the last chunk. *)
LEMMA ChunkedPumpSteps ==
  ASSUME FramingInv, NoEmptyPump, NEW p \in Pumps, ChunkedPump(p)
  PROVE  FramingInv'
<1> DEFINE k == p[1]
           n == p[2]
           op == [kind |-> "pump", promised |-> k, count |-> n]
           text == Bytes(Body, n)
           more == ChunkSize(k) \o text
           queue == IF out.broken THEN <<>> ELSE out.queue \o ChunkSize(k)
<1>1. k \in Nat /\ k > 0 /\ n \in Nat /\ n <= k
  BY FramingAssumption DEF NoEmptyPump
<1>2. op \in Ops /\ op.kind = "pump" /\ op.promised = k /\ op.count = n
  BY <1>1 DEF Ops
<1>3. /\ MayWrite /\ out.framing = Chunked
      /\ out' = StartWrite(QueueWrite(out, ChunkSize(k)), text, op)
      /\ WroteBytes(n) /\ UNCHANGED <<wire, eof, in, rcvd>>
  BY DEF ChunkedPump
<1> HIDE DEF op, k, n
<1>4. op.kind # "none" /\ op.count <= op.promised
      /\ (op.kind # "pump" => op.promised = 0 /\ op.count = 0)
  BY <1>1, <1>2
<1>5. /\ FramingTypeOK /\ out \in Outs /\ out.queue \in Seq(Characters)
  BY OutIs DEF FramingInv
<1>6. Body \in Nat
  <2>1. sent \in Seq(Messages) /\ sent # <<>>
    BY <1>3 DEF FramingInv, FramingTypeOK, MayWrite, WriterOK
  <2> QED BY <2>1, LogLast, LastIs DEF Body
<1>7. /\ ChunkSize(k) \in Seq(Characters) /\ text \in Seq(Characters)
      /\ more \in Seq(Characters) /\ queue \in Seq(Characters)
  <2>1. <<"size", k>> \in Characters
    BY <1>1 DEF Characters
  <2>2. <<<<"size", k>>>> \in Seq(Characters)
    BY <2>1
  <2>3. ChunkSize(k) \in Seq(Characters)
    BY <2>2, CharactersAre, Joints DEF ChunkSize
  <2>4. text \in Seq(Characters)
    BY <1>1, <1>6, BytesAre
  <2> QED BY <1>5, <2>3, <2>4, Joints
<1> HIDE DEF text
<1>8. out' = Writes(out, queue, 0, text, op)
  <2>1. out.length - 0 = out.length
    BY <1>5 DEF Outs
  <2>2. [out EXCEPT !.length = @ - 0, !.queue = queue] = QueueWrite(out, ChunkSize(k))
    <3> DEFINE len == out.length - 0
    <3> HIDE DEF len
    <3>1. [out EXCEPT !.length = len, !.queue = queue] = [out EXCEPT !.queue = queue]
      BY <1>5, <2>1 DEF Outs, len
    <3> QED BY <3>1 DEF QueueWrite, len
  <2> HIDE DEF queue
  <2> QED BY <1>3, <2>2 DEF Writes
<1>9. ASSUME NEW q \in Places, NEW log \in Seq(Messages),
             q.at = "size", Fits(q, log), q.got = Body, q.got + n <= log[q.m].bytes
      PROVE  Leads(q, more, Wrote(q, n, op), log)
  <2> DEFINE r == AfterBytes(Within(q, "body", q.got, k), n)
  <2>1. Leads(q, more, r, log)
    BY <1>1, <1>9, ChunkLeads DEF text
  <2>2. q.f = Chunked
    BY <1>9 DEF Fits, InChunks
  <2>3. n < k <=> ~(k - n = 0)
    BY <1>1
  <2>4. r = Wrote(q, n, op)
    BY <1>2, <2>2, <2>3 DEF AfterBytes, Within, Wrote
  <2> QED BY <2>1, <2>4
<1>10. /\ out.broken => queue = <<>>
       /\ ~out.broken => queue \o text = out.queue \o more
  <2>1. (out.queue \o ChunkSize(k)) \o text = out.queue \o (ChunkSize(k) \o text)
    BY <1>5, <1>7, Rejoined
  <2> QED BY <2>1
<1>11. TakesOn(more, n, op)
  BY <1>9 DEF TakesOn
<1> HIDE DEF more, queue
<1> QED BY ONLY FramingInv, <1>1, <1>2, <1>3, <1>4, <1>5, <1>7, <1>8, <1>10, <1>11, ChunkedSends, Zenon

(* A sequence is what is taken of it and what is left. *)
LEMMA Taken ==
  ASSUME NEW s \in Seq(Characters), NEW n \in Nat, n <= Len(s)
  PROVE  /\ SubSeq(s, 1, n) \in Seq(Characters) /\ Len(SubSeq(s, 1, n)) = n
         /\ SubSeq(s, n + 1, Len(s)) \in Seq(Characters)
         /\ Len(SubSeq(s, n + 1, Len(s))) = Len(s) - n
         /\ SubSeq(s, 1, n) \o SubSeq(s, n + 1, Len(s)) = s
         /\ \A i \in 1..n : SubSeq(s, 1, n)[i] = s[i]
<1>1. Len(s) \in Nat /\ \A i \in 1..Len(s) : s[i] \in Characters
  BY ElementOfSeq
<1>2. SubSeq(s, 1, n) \in Seq(Characters) /\ Len(SubSeq(s, 1, n)) = n
      /\ \A i \in 1..n : SubSeq(s, 1, n)[i] = s[i]
  <2>1. \A i \in 1..n : s[i] \in Characters
    BY <1>1
  <2>2. /\ SubSeq(s, 1, n) \in Seq(Characters)
        /\ Len(SubSeq(s, 1, n)) = IF 1 <= n THEN n - 1 + 1 ELSE 0
        /\ \A i \in 1..(n - 1 + 1) : SubSeq(s, 1, n)[i] = s[1 + i - 1]
    BY <2>1, SubSeqProperties
  <2> QED BY <2>2
<1>3. SubSeq(s, n + 1, Len(s)) \in Seq(Characters)
      /\ Len(SubSeq(s, n + 1, Len(s))) = Len(s) - n
  <2>1. \A i \in (n + 1)..Len(s) : s[i] \in Characters
    BY <1>1
  <2>2. n + 1 \in Int /\ Len(s) \in Int
    BY <1>1
  <2>3. /\ SubSeq(s, n + 1, Len(s)) \in Seq(Characters)
        /\ Len(SubSeq(s, n + 1, Len(s))) =
             IF n + 1 <= Len(s) THEN Len(s) - (n + 1) + 1 ELSE 0
    BY <2>1, <2>2, SubSeqProperties
  <2> QED BY <1>1, <2>3
<1>4. SubSeq(s, 1, n) \o SubSeq(s, n + 1, Len(s)) = s
  <2>1. 1 \in 1..(Len(s) + 1) /\ n \in (1 - 1)..Len(s) /\ Len(s) \in n..Len(s)
    BY <1>1
  <2>2. SubSeq(s, 1, n) \o SubSeq(s, n + 1, Len(s)) = SubSeq(s, 1, Len(s))
    BY <2>1, ConcatAdjacentSubSeq
  <2> QED BY <2>2, SubSeqFull
<1> QED BY <1>2, <1>3, <1>4

(* Only the characters not yet taken over differ. *)
LEMMA PassedOn ==
  ASSUME FramingInv, FramingTypeOK', wire' \o Pending' = wire \o Pending,
         out'.op = out.op, out'.inBody = out.inBody, out'.broken = out.broken,
         out'.writeInProgress = out.writeInProgress, out'.framing = out.framing,
         out'.length = out.length, out'.finished = out.finished,
         out.op.kind = "none" => out'.text = out.text, ~out.broken,
         UNCHANGED <<eof, in, sent, rcvd>>
  PROVE  FramingInv'
<1>1. FramingTypeOK /\ WriterOK /\ InStep /\ sent \in Seq(Messages)
      /\ eof' = eof /\ in' = in /\ rcvd' = rcvd /\ sent' = sent
  BY DEF FramingInv, FramingTypeOK
<1>2. LastSent' = LastSent /\ Short' = Short /\ (WriteLost' <=> WriteLost) /\ (Cut' <=> Cut)
  BY <1>1 DEF LastSent, Short, WriteLost, Cut
<1>3. WriterPlace' = WriterPlace
  BY <1>1, <1>2 DEF WriterPlace, WriterPoint
<1>4. WriterOK'
  BY <1>1, <1>2 DEF WriterOK
<1>5. Grows(sent, sent')
  BY <1>1, SameLog
<1>6. InStep'
  BY <1>1, <1>2, <1>3, <1>5, StepsStill
<1> QED BY <1>1, <1>4, <1>5, <1>6, WriterSteps

(* The inner stream takes over what is queued, then what is being written. *)
LEMMA InnerAcceptsSteps ==
  ASSUME FramingInv, NEW n \in 1..MaxRead, InnerAccepts(n)
  PROVE  FramingInv'
<1>1. /\ FramingTypeOK /\ out \in Outs /\ ~eof /\ ~out.broken /\ n \in Nat
      /\ UNCHANGED <<eof, in, sent, rcvd>>
  BY OutIs DEF FramingInv, InnerAccepts
<1>2. wire \in Seq(Characters) /\ out.queue \in Seq(Characters) /\ out.text \in Seq(Characters)
  BY <1>1, FlightIs
<1>3. CASE /\ out.queue # <<>> /\ n <= Len(out.queue)
           /\ wire' = wire \o SubSeq(out.queue, 1, n)
           /\ out' = [out EXCEPT !.queue = SubSeq(@, n + 1, Len(@))]
  <2> DEFINE t == SubSeq(out.queue, 1, n)
             r == SubSeq(out.queue, n + 1, Len(out.queue))
  <2>1. t \in Seq(Characters) /\ r \in Seq(Characters) /\ t \o r = out.queue
    BY <1>1, <1>2, <1>3, Taken
  <2>2. out' = [out EXCEPT !.queue = r] /\ wire' = wire \o t
    BY <1>3
  <2> HIDE DEF t, r
  <2>3. /\ out' \in Outs /\ out'.queue = r /\ out'.text = out.text
        /\ out'.op = out.op /\ out'.inBody = out.inBody /\ out'.broken = out.broken
        /\ out'.writeInProgress = out.writeInProgress /\ out'.framing = out.framing
        /\ out'.length = out.length /\ out'.finished = out.finished
    BY <1>1, <2>1, <2>2 DEF Outs
  <2>4. FramingTypeOK'
    BY <1>1, <1>2, <2>1, <2>2, <2>3, Joints DEF FramingTypeOK, Outs
  <2>5. wire' \o Pending' = wire \o Pending
    <3>1. Pending = (t \o r) \o out.text /\ Pending' = r \o out.text
      BY <1>1, <2>1, <2>3 DEF Pending
    <3>2. (t \o r) \o out.text = t \o (r \o out.text) /\ r \o out.text \in Seq(Characters)
      <4>1. (t \o r) \o out.text = t \o (r \o out.text)
        BY <1>2, <2>1, Rejoined
      <4>2. r \o out.text \in Seq(Characters)
        BY <1>2, <2>1, ConcatProperties
      <4> QED BY <4>1, <4>2
    <3>3. (wire \o t) \o (r \o out.text) = wire \o (t \o (r \o out.text))
      BY <1>2, <2>1, <3>2, Rejoined
    <3> QED BY <2>2, <3>1, <3>2, <3>3
  <2> QED BY <1>1, <2>3, <2>4, <2>5, PassedOn
<1>4. CASE /\ out.queue = <<>> /\ out.op.kind # "none"
           /\ out.text # <<>> /\ n <= Len(out.text)
           /\ wire' = wire \o SubSeq(out.text, 1, n)
           /\ out' = [out EXCEPT !.text = SubSeq(@, n + 1, Len(@))]
  <2> DEFINE t == SubSeq(out.text, 1, n)
             r == SubSeq(out.text, n + 1, Len(out.text))
  <2>1. t \in Seq(Characters) /\ r \in Seq(Characters) /\ t \o r = out.text
    BY <1>1, <1>2, <1>4, Taken
  <2>2. out' = [out EXCEPT !.text = r] /\ wire' = wire \o t
    BY <1>4
  <2> HIDE DEF t, r
  <2>3. /\ out' \in Outs /\ out'.queue = out.queue /\ out'.text = r
        /\ out'.op = out.op /\ out'.inBody = out.inBody /\ out'.broken = out.broken
        /\ out'.writeInProgress = out.writeInProgress /\ out'.framing = out.framing
        /\ out'.length = out.length /\ out'.finished = out.finished
    BY <1>1, <2>1, <2>2 DEF Outs
  <2>4. FramingTypeOK'
    BY <1>1, <1>2, <2>1, <2>2, <2>3, Joints DEF FramingTypeOK, Outs
  <2>5. wire' \o Pending' = wire \o Pending
    <3>1. Pending = <<>> \o (t \o r) /\ Pending' = <<>> \o r
      BY <1>1, <1>4, <2>1, <2>3 DEF Pending
    <3>2. Pending = t \o r /\ Pending' = r
      <4>1. t \o r \in Seq(Characters)
        BY <2>1, Joints
      <4>2. \A s \in Seq(Characters) : <<>> \o s = s
        BY Joints
      <4> QED BY <2>1, <3>1, <4>1, <4>2
    <3>3. (wire \o t) \o r = wire \o (t \o r)
      BY <1>2, <2>1, Rejoined
    <3> QED BY <2>2, <3>2, <3>3
  <2> QED BY <1>1, <1>4, <2>3, <2>4, <2>5, PassedOn
<1> QED BY <1>3, <1>4 DEF InnerAccepts

(* A write whose characters nobody waits to hand over any more. *)
LEMMA CancelWriteSteps ==
  ASSUME FramingInv, CancelWrite
  PROVE  FramingInv'
<1>1. /\ FramingTypeOK /\ WriterOK /\ InStep /\ out \in Outs /\ out.op.kind # "none"
      /\ sent \in Seq(Messages)
      /\ wire' = wire /\ eof' = eof /\ in' = in /\ rcvd' = rcvd /\ sent' = sent
      /\ out' = [out EXCEPT !.op = NoOp, !.text = <<>>]
  BY OutIs DEF FramingInv, FramingTypeOK, CancelWrite
<1>2. /\ out' \in Outs /\ out'.queue = out.queue /\ out'.text = <<>>
      /\ out'.op = NoOp /\ out'.inBody = out.inBody /\ out'.broken = out.broken
      /\ out'.writeInProgress = out.writeInProgress /\ out'.framing = out.framing
      /\ out'.length = out.length /\ out'.finished = out.finished
  BY <1>1, OutIs, EmptySeq DEF Outs
<1>3. /\ out.writeInProgress /\ out.inBody /\ ~out.finished
      /\ NoOp.kind = "none" /\ NoOp.promised = 0 /\ NoOp.count = 0
  BY <1>1 DEF WriterOK, NoOp
<1>4. FramingTypeOK'
  BY <1>1, <1>2 DEF FramingTypeOK, Outs
<1>5. WriteLost' /\ Cut' /\ LastSent' = LastSent
  BY <1>1, <1>2, <1>3 DEF WriteLost, Cut, LastSent
<1>6. WriterOK'
  BY <1>1, <1>2, <1>3, <1>5 DEF WriterOK
<1>7. Grows(sent, sent')
  BY <1>1, SameLog
<1>8. InStep'
  <2>1. wire \in Seq(Characters) /\ out.queue \in Seq(Characters) /\ out.text \in Seq(Characters)
        /\ <<>> \in Seq(Characters)
    BY <1>1, FlightIs, Joints
  <2>2. CASE out.broken \/ eof
    <3>1. Pending = <<>> /\ Pending' = <<>>
      BY <1>1, <1>2, <2>2 DEF Pending
    <3>2. wire \o Pending = (wire' \o Pending') \o <<>>
      BY <1>1, <2>1, <3>1, Joints
    <3> QED BY <1>1, <1>4, <1>5, <1>7, <2>1, <3>2, StepsLost
  <2>3. CASE ~(out.broken \/ eof)
    <3>1. Pending = out.queue \o out.text /\ Pending' = out.queue
      BY <1>1, <1>2, <2>1, <2>3, Joints DEF Pending
    <3>2. wire \o Pending = (wire' \o Pending') \o out.text
      <4>1. (wire \o out.queue) \o out.text = wire \o (out.queue \o out.text)
        BY <2>1, Rejoined
      <4> QED BY <1>1, <3>1, <4>1
    <3> QED BY <1>1, <1>4, <1>5, <1>7, <2>1, <3>2, StepsLost
  <2> QED BY <2>2, <2>3
<1> QED BY <1>1, <1>4, <1>6, <1>7, <1>8, WriterSteps

(* The connection ends: what nobody has handed over is lost. *)
LEMMA CloseWireSteps ==
  ASSUME FramingInv, CloseWire
  PROVE  FramingInv'
<1>1. /\ FramingTypeOK /\ WriterOK /\ InStep /\ out \in Outs /\ sent \in Seq(Messages)
      /\ wire' = wire /\ eof' = TRUE /\ in' = in /\ rcvd' = rcvd /\ sent' = sent
      /\ out' = [out EXCEPT !.queue = <<>>, !.text = <<>>, !.op = NoOp]
  BY OutIs DEF FramingInv, FramingTypeOK, CloseWire
<1>2. /\ out' \in Outs /\ out'.queue = <<>> /\ out'.text = <<>>
      /\ out'.op = NoOp /\ out'.inBody = out.inBody /\ out'.broken = out.broken
      /\ out'.writeInProgress = out.writeInProgress /\ out'.framing = out.framing
      /\ out'.length = out.length /\ out'.finished = out.finished
  BY <1>1, OutIs, EmptySeq DEF Outs
<1>3. /\ NoOp.kind = "none" /\ NoOp.promised = 0 /\ NoOp.count = 0
      /\ (out.op.kind = "none" => out.op.promised = 0 /\ out.op.count = 0)
      /\ (out.op.kind # "none" => out.writeInProgress)
  BY <1>1 DEF WriterOK, NoOp
<1>4. FramingTypeOK'
  BY <1>1, <1>2 DEF FramingTypeOK, Outs
<1>5. Cut' /\ LastSent' = LastSent /\ Pending' = <<>> /\ Short' = 0
      /\ (~WriteLost' => ~WriteLost /\ Short = 0)
  BY <1>1, <1>2, <1>3 DEF WriteLost, Cut, LastSent, Pending, Short
<1>6. WriterOK'
  <2>1. sent # <<>> /\ out.framing # Chunked /\ ~WriteLost' =>
          out.length + LastSent.bytes + Short' = out.framing
    BY <1>1, <1>5 DEF WriterOK
  <2> QED BY <1>1, <1>2, <1>3, <1>5, <2>1 DEF WriterOK
<1>7. Grows(sent, sent')
  BY <1>1, SameLog
<1>8. wire \o Pending = (wire' \o Pending') \o Pending
  BY <1>1, <1>5, FlightIs, Joints
<1>9. Pending \in Seq(Characters)
  BY <1>1, FlightIs
<1>10. InStep'
  BY <1>1, <1>4, <1>5, <1>7, <1>8, <1>9, StepsLost
<1> QED BY <1>1, <1>4, <1>6, <1>7, <1>10, WriterSteps

(* What the log says once a write or a message has ended. *)
LEMMA Noted ==
  ASSUME FramingTypeOK, out' \in Outs, sent # <<>>, sent' = Note(out')
  PROVE  /\ sent' \in Seq(Messages) /\ Len(sent') = Len(sent) /\ sent' # <<>>
         /\ LastSent'.framing = LastSent.framing /\ LastSent'.bytes = LastSent.bytes
         /\ LastSent'.ended = (LastSent.ended \/ (out'.finished /\ ~out'.broken))
         /\ LastSent' = sent'[Len(sent')]
         /\ Grows(sent, sent')
<1> DEFINE b == out'.finished /\ ~out'.broken
<1>1. b \in BOOLEAN
  OBVIOUS
<1>2. sent' = [sent EXCEPT ![Len(sent)].ended = @ \/ b]
  BY DEF Note
<1>3. LastSent' = sent'[Len(sent')]
  BY DEF LastSent
<1> HIDE DEF b
<1>4. /\ sent' \in Seq(Messages) /\ Len(sent') = Len(sent) /\ sent' # <<>>
      /\ LastSent'.framing = LastSent.framing /\ LastSent'.bytes = LastSent.bytes
      /\ LastSent'.ended = (LastSent.ended \/ b)
      /\ Grows(sent, sent')
  BY <1>1, <1>2, LogEnds
<1> QED BY <1>3, <1>4 DEF b

(* A write ends: the Content-Length writer ends its body at the last byte, the
   chunked one ends its chunk, or gives up a message that its source cut short. *)
LEMMA WriteReturnsSteps ==
  ASSUME FramingInv, WriteReturns
  PROVE  FramingInv'
<1> DEFINE short == out.op.promised - out.op.count
           o == [out EXCEPT !.writeInProgress = FALSE]
           p == [IF out.framing = Chunked THEN AfterChunked(o, short) ELSE AfterFixed(o, short)
                 EXCEPT !.op = NoOp]
<1>1. /\ FramingTypeOK /\ WriterOK /\ InStep /\ out \in Outs /\ sent \in Seq(Messages)
      /\ out.op.kind # "none" /\ ~out.broken /\ out.queue = <<>> /\ out.text = <<>>
      /\ wire' = wire /\ eof' = eof /\ in' = in /\ rcvd' = rcvd
      /\ wire \in Seq(Characters)
  BY OutIs DEF FramingInv, FramingTypeOK, WriteReturns
<1>2. out' = p /\ sent' = Note(out')
  BY DEF WriteReturns
<1>3. /\ out.writeInProgress /\ out.inBody /\ ~out.finished /\ sent # <<>>
      /\ short \in Nat /\ Short = short /\ ~WriteLost
      /\ out.length \in Int /\ out.framing \in Int
      /\ NoOp.kind = "none" /\ NoOp.promised = 0 /\ NoOp.count = 0 /\ NoOp \in Ops
  BY <1>1, OutIs DEF WriterOK, Short, WriteLost
<1>4. out.framing = LastSent.framing /\ LastSent.bytes \in Nat /\ Len(sent) \in Nat /\ Len(sent) > 0
  BY <1>1, <1>3, LogLast DEF WriterOK
<1> HIDE DEF short
<1>5. o \in Outs /\ o.writeInProgress = FALSE /\ o.queue = <<>> /\ o.text = <<>>
      /\ o.op = out.op /\ o.inBody = out.inBody /\ o.broken = out.broken
      /\ o.framing = out.framing /\ o.length = out.length /\ o.finished = out.finished
  BY <1>1 DEF Outs
<1> HIDE DEF o
<1>6. Pending = <<>> /\ (Cut <=> eof)
  <2>1. <<>> \o <<>> = <<>>
    BY Joints
  <2> QED BY <1>1, <1>3, <2>1 DEF Pending, Cut
<1>7. CASE out.framing # Chunked
  <2> DEFINE len == out.length + short
             done == len = 0
             going == ~done
  <2>1. len \in Int /\ done \in BOOLEAN /\ going \in BOOLEAN
    BY <1>3
  <2>2. /\ out' \in Outs /\ out'.writeInProgress = FALSE /\ out'.queue = <<>> /\ out'.text = <<>>
        /\ out'.op = NoOp /\ out'.inBody = going /\ out'.broken = out.broken
        /\ out'.framing = out.framing /\ out'.length = len /\ out'.finished = done
    <3> DEFINE a == [o EXCEPT !.length = @ + short]
    <3>1. a = [o EXCEPT !.length = len]
      BY <1>5
    <3> HIDE DEF a, len
    <3>2. a \in Outs /\ a.writeInProgress = FALSE /\ a.queue = <<>> /\ a.text = <<>>
          /\ a.op = out.op /\ a.inBody = out.inBody /\ a.broken = out.broken
          /\ a.framing = out.framing /\ a.length = len /\ a.finished = out.finished
      BY <1>5, <2>1, <3>1 DEF Outs
    <3>3. out' = [IF len = 0 THEN DoneWriting(a) ELSE a EXCEPT !.op = NoOp]
      BY <1>2, <1>7, <3>2 DEF AfterFixed, a
    <3>4. CASE done
      <4>1. DoneWriting(a) = [a EXCEPT !.finished = TRUE, !.inBody = FALSE]
        BY <3>2 DEF DoneWriting, FinishBody, Outs
      <4>2. out' = [a EXCEPT !.finished = TRUE, !.inBody = FALSE, !.op = NoOp]
        BY <3>2, <3>3, <3>4, <4>1 DEF Outs
      <4> QED BY <1>3, <3>2, <3>4, <4>2 DEF Outs
    <3>5. CASE ~done
      <4>1. out' = [a EXCEPT !.op = NoOp]
        BY <3>3, <3>5
      <4> QED BY <1>3, <3>2, <3>5, <4>1 DEF Outs
    <3> QED BY <3>4, <3>5
  <2> HIDE DEF p
  <2>3. /\ sent' \in Seq(Messages) /\ Len(sent') = Len(sent) /\ sent' # <<>>
        /\ LastSent'.framing = LastSent.framing /\ LastSent'.bytes = LastSent.bytes
        /\ Grows(sent, sent')
    BY <1>1, <1>2, <1>3, <2>2, Noted
  <2>4. FramingTypeOK'
    BY <1>1, <2>2, <2>3 DEF FramingTypeOK, Outs
  <2>5. Short' = 0 /\ ~WriteLost' /\ (Cut' <=> eof) /\ Pending' = <<>>
    <3>1. <<>> \o <<>> = <<>>
      BY Joints
    <3> QED BY <1>1, <1>3, <2>2, <3>1 DEF Short, WriteLost, Cut, Pending
  <2>6. WriterOK'
    <3>1. LastSent.bytes <= out.framing /\ out.length + LastSent.bytes + short = out.framing
      BY <1>1, <1>3, <1>7 DEF WriterOK
    <3>2. len + LastSent.bytes = out.framing /\ (done => LastSent.bytes = out.framing)
      BY <1>3, <1>4, <3>1
    <3> HIDE DEF len
    <3>3. /\ LastSent'.bytes <= out'.framing
          /\ out'.length + LastSent'.bytes + Short' = out'.framing
          /\ (out'.finished => LastSent'.bytes = out'.framing)
      <4>1. out'.framing = out.framing /\ out'.length = len /\ (out'.finished => done)
        BY <2>2
      <4>2. LastSent'.bytes = LastSent.bytes /\ Short' = 0
        BY <2>3, <2>5
      <4>3. len + LastSent.bytes + 0 = len + LastSent.bytes
        BY <1>4, <2>1
      <4> HIDE DEF done
      <4> QED BY <3>1, <3>2, <4>1, <4>2, <4>3
    <3>4. /\ out'.op.kind = "none" /\ out'.op.promised = 0 /\ out'.op.count = 0
          /\ out'.text = <<>> /\ (out'.finished => ~out'.inBody)
          /\ (out'.finished \/ out'.inBody) /\ out'.queue = <<>>
          /\ out'.framing = LastSent'.framing /\ out'.framing # Chunked
      BY <1>3, <1>4, <1>7, <2>2, <2>3
    <3> QED BY <2>3, <3>3, <3>4 DEF WriterOK
  <2>7. WriterPlace' = WriterPlace
    BY <1>3, <1>4, <1>7, <2>2, <2>3 DEF WriterPlace, WriterPoint
  <2>8. InStep'
    BY <1>1, <1>6, <2>3, <2>4, <2>5, <2>7, StepsStill
  <2> QED BY <1>1, <2>3, <2>4, <2>6, <2>8, WriterSteps
<1>8. CASE out.framing = Chunked /\ out.op.kind = "write"
  <2>1. out' = [o EXCEPT !.op = NoOp]
    BY <1>2, <1>5, <1>8 DEF AfterChunked
  <2> HIDE DEF p
  <2>2. /\ out' \in Outs /\ out'.writeInProgress = FALSE /\ out'.queue = <<>> /\ out'.text = <<>>
        /\ out'.op = NoOp /\ out'.inBody = out.inBody /\ out'.broken = out.broken
        /\ out'.framing = out.framing /\ out'.length = out.length /\ out'.finished = out.finished
    BY <1>3, <1>5, <2>1 DEF Outs
  <2>3. /\ sent' \in Seq(Messages) /\ Len(sent') = Len(sent) /\ sent' # <<>>
        /\ LastSent'.framing = LastSent.framing /\ LastSent'.bytes = LastSent.bytes
        /\ LastSent'.ended = LastSent.ended
        /\ Grows(sent, sent')
    <3>1. /\ sent' \in Seq(Messages) /\ Len(sent') = Len(sent) /\ sent' # <<>>
          /\ LastSent'.framing = LastSent.framing /\ LastSent'.bytes = LastSent.bytes
          /\ LastSent'.ended = (LastSent.ended \/ (out'.finished /\ ~out'.broken))
          /\ Grows(sent, sent')
      BY <1>1, <1>2, <1>3, <2>2, Noted
    <3>2. LastSent.ended \in BOOLEAN
      BY <1>1, <1>3, LogLast
    <3> QED BY <1>3, <2>2, <3>1, <3>2
  <2>4. FramingTypeOK'
    BY <1>1, <2>2, <2>3 DEF FramingTypeOK, Outs
  <2>5. Short' = 0 /\ ~WriteLost' /\ (Cut' <=> eof) /\ Pending' = <<>>
    <3>1. <<>> \o <<>> = <<>>
      BY Joints
    <3> QED BY <1>1, <1>3, <2>2, <3>1 DEF Short, WriteLost, Cut, Pending
  <2>6. WriterOK'
    <3>1. ~LastSent.ended
      BY <1>1, <1>3, <1>8 DEF WriterOK
    <3> QED BY <1>1, <1>3, <1>4, <1>8, <2>2, <2>3, <3>1 DEF WriterOK
  <2>7. WriterPlace' = WriterPlace
    <3>1. Short = 0
      BY <1>1, <1>8 DEF WriterOK, Short
    <3> QED BY <1>3, <1>4, <1>8, <2>2, <2>3, <2>5, <3>1 DEF WriterPlace, WriterPoint
  <2>8. InStep'
    BY <1>1, <1>6, <2>3, <2>4, <2>5, <2>7, StepsStill
  <2> QED BY <1>1, <2>3, <2>4, <2>6, <2>8, WriterSteps
<1>9. CASE out.framing = Chunked /\ out.op.kind # "write" /\ short > 0
  <2>1. out' = [o EXCEPT !.inBody = FALSE, !.broken = TRUE, !.queue = <<>>, !.op = NoOp]
    <3>1. AfterChunked(o, short) = [o EXCEPT !.inBody = FALSE, !.broken = TRUE, !.queue = <<>>]
      BY <1>3, <1>5, <1>9 DEF AfterChunked, AbortBody
    <3> QED BY <1>2, <1>5, <1>9, <3>1 DEF Outs
  <2> HIDE DEF p
  <2>2. /\ out' \in Outs /\ out'.writeInProgress = FALSE /\ out'.queue = <<>> /\ out'.text = <<>>
        /\ out'.op = NoOp /\ out'.inBody = FALSE /\ out'.broken = TRUE
        /\ out'.framing = out.framing /\ out'.length = out.length /\ out'.finished = out.finished
    BY <1>3, <1>5, <2>1, Joints DEF Outs
  <2>3. /\ sent' \in Seq(Messages) /\ Len(sent') = Len(sent) /\ sent' # <<>>
        /\ LastSent'.framing = LastSent.framing /\ LastSent'.bytes = LastSent.bytes
        /\ LastSent'.ended = LastSent.ended
        /\ Grows(sent, sent')
    <3>1. /\ sent' \in Seq(Messages) /\ Len(sent') = Len(sent) /\ sent' # <<>>
          /\ LastSent'.framing = LastSent.framing /\ LastSent'.bytes = LastSent.bytes
          /\ LastSent'.ended = (LastSent.ended \/ (out'.finished /\ ~out'.broken))
          /\ Grows(sent, sent')
      BY <1>1, <1>2, <1>3, <2>2, Noted
    <3>2. LastSent.ended \in BOOLEAN
      BY <1>1, <1>3, LogLast
    <3> QED BY <1>3, <2>2, <3>1, <3>2
  <2>4. FramingTypeOK'
    BY <1>1, <2>2, <2>3 DEF FramingTypeOK, Outs
  <2>5. Cut' /\ Pending' = <<>>
    BY <2>2 DEF Cut, Pending
  <2>6. WriterOK'
    <3>1. ~LastSent.ended
      BY <1>1, <1>3, <1>9 DEF WriterOK
    <3>2. /\ out'.op.kind = "none" /\ out'.op.promised = 0 /\ out'.op.count = 0
          /\ out'.text = <<>> /\ ~out'.finished /\ (out'.inBody \/ out'.broken)
          /\ (out'.broken => out'.queue = <<>>)
          /\ out'.framing = LastSent'.framing /\ out'.framing = Chunked
      BY <1>1, <1>3, <1>4, <1>9, <2>2, <2>3
    <3>3. ~LastSent'.ended
      BY <2>3, <3>1
    <3> QED BY <2>3, <3>2, <3>3 DEF WriterOK
  <2>7. wire \o Pending = (wire' \o Pending') \o <<>> /\ <<>> \in Seq(Characters)
    BY <1>1, <1>6, <2>5, Joints
  <2>8. InStep'
    BY <1>1, <2>3, <2>4, <2>5, <2>7, StepsLost
  <2> QED BY <1>1, <2>3, <2>4, <2>6, <2>8, WriterSteps
<1>10. CASE out.framing = Chunked /\ out.op.kind # "write" /\ ~(short > 0)
  <2>1. out' = [o EXCEPT !.queue = CRLF, !.op = NoOp]
    <3>1. <<>> \o CRLF = CRLF
      BY CharactersAre, Joints
    <3>2. AfterChunked(o, short) = [o EXCEPT !.queue = CRLF]
      BY <1>1, <1>5, <1>10, <3>1 DEF AfterChunked, QueueWrite
    <3> QED BY <1>2, <1>5, <1>10, <3>2 DEF Outs
  <2> HIDE DEF p
  <2>2. /\ out' \in Outs /\ out'.writeInProgress = FALSE /\ out'.queue = CRLF /\ out'.text = <<>>
        /\ out'.op = NoOp /\ out'.inBody = out.inBody /\ out'.broken = out.broken
        /\ out'.framing = out.framing /\ out'.length = out.length /\ out'.finished = out.finished
    BY <1>3, <1>5, <2>1, CharactersAre DEF Outs
  <2>3. /\ sent' \in Seq(Messages) /\ Len(sent') = Len(sent) /\ sent' # <<>>
        /\ LastSent'.framing = LastSent.framing /\ LastSent'.bytes = LastSent.bytes
        /\ LastSent'.ended = LastSent.ended
        /\ Grows(sent, sent')
    <3>1. /\ sent' \in Seq(Messages) /\ Len(sent') = Len(sent) /\ sent' # <<>>
          /\ LastSent'.framing = LastSent.framing /\ LastSent'.bytes = LastSent.bytes
          /\ LastSent'.ended = (LastSent.ended \/ (out'.finished /\ ~out'.broken))
          /\ Grows(sent, sent')
      BY <1>1, <1>2, <1>3, <2>2, Noted
    <3>2. LastSent.ended \in BOOLEAN
      BY <1>1, <1>3, LogLast
    <3> QED BY <1>3, <2>2, <3>1, <3>2
  <2>4. FramingTypeOK'
    BY <1>1, <2>2, <2>3 DEF FramingTypeOK, Outs
  <2>5. Short' = 0 /\ ~WriteLost' /\ (Cut' <=> eof)
    BY <1>1, <1>3, <2>2 DEF Short, WriteLost, Cut
  <2>6. WriterOK'
    <3>1. ~LastSent.ended
      BY <1>1, <1>3, <1>10 DEF WriterOK
    <3>2. /\ out'.op.kind = "none" /\ out'.op.promised = 0 /\ out'.op.count = 0
          /\ out'.text = <<>> /\ ~out'.finished /\ (out'.inBody \/ out'.broken)
          /\ (out'.broken => out'.queue = <<>>)
          /\ out'.framing = LastSent'.framing /\ out'.framing = Chunked
      BY <1>1, <1>3, <1>4, <1>10, <2>2, <2>3
    <3>3. ~LastSent'.ended
      BY <2>3, <3>1
    <3> QED BY <2>3, <3>2, <3>3 DEF WriterOK
  <2>7. CASE eof
    <3>1. Pending' = <<>> /\ Cut' /\ Cut
      BY <1>1, <1>6, <2>5, <2>7 DEF Pending
    <3>2. InStep'
      BY <1>1, <1>6, <2>3, <2>4, <3>1, StepsStill
    <3> QED BY <1>1, <2>3, <2>4, <2>6, <3>2, WriterSteps
  <2>8. CASE ~eof
    <3>1. Pending' = CRLF
      BY <1>1, <2>2, <2>8, CharactersAre, Joints DEF Pending
    <3>2. wire' \o Pending' = (wire \o Pending) \o CRLF
      <4>1. wire \o <<>> = wire
        BY <1>1, Joints
      <4> QED BY <1>1, <1>6, <3>1, <4>1
    <3>3. ASSUME WriterPlace \in Places, Fits(WriterPlace, sent')
          PROVE  Leads(WriterPlace, CRLF, WriterPlace', sent')
      <4> DEFINE w == WriterPlace
      <4>1. out.op.kind = "pump" /\ Short = 0
        BY <1>1, <1>3, <1>10, OutIs
      <4>2. w.at = "dataCR" /\ w.m = Len(sent) /\ w.f = Chunked
            /\ w.got = LastSent.bytes /\ w.left = 0
        BY <1>3, <1>10, <4>1 DEF WriterPlace, WriterPoint
      <4>3. WriterPlace' = [at |-> "size", m |-> Len(sent), f |-> Chunked,
                            got |-> LastSent.bytes, left |-> 0]
        BY <1>3, <1>4, <1>10, <2>2, <2>3, <2>5 DEF WriterPlace, WriterPoint
      <4> HIDE DEF w
      <4>4. WriterPlace' = At(w, "size")
        BY <4>2, <4>3 DEF At, Within
      <4>5. Leads(w, CRLF, At(w, "size"), sent')
        BY <3>3, <4>2, DataEnds DEF w
      <4> QED BY <4>4, <4>5 DEF w
    <3>4. InStep'
      BY <1>1, <1>6, <2>3, <2>4, <2>8, <3>2, <3>3, CharactersAre, StepsOn
    <3> QED BY <1>1, <2>3, <2>4, <2>6, <3>4, WriterSteps
  <2> QED BY <2>7, <2>8
<1> QED BY <1>7, <1>8, <1>9, <1>10

(* Places after the last chunk. *)
LEMMA FitsEnd ==
  ASSUME NEW p, NEW log, p.at \in {"endCR", "endLF", "start"}, p.m > 0, p.m # 0,
         p.m <= Len(log), p.f = Chunked, p.f = log[p.m].framing,
         p.got <= log[p.m].bytes, p.got = log[p.m].bytes, p.left = 0, log[p.m].ended
  PROVE  Fits(p, log)
BY DEF Fits, IsEnd, InChunks, InHead, NothingLeft

(* The last chunk and the line end after it. *)
LEMMA LastChunkLeads ==
  ASSUME NEW p \in Places, p.at = "size", NEW log \in Seq(Messages), Fits(p, log),
         log[p.m].ended, log[p.m].bytes = p.got
  PROVE  /\ ChunkSize(0) \o CRLF \in Seq(Characters)
         /\ Leads(p, ChunkSize(0) \o CRLF, At(p, "start"), log)
<1> DEFINE q == Within(p, "endCR", p.got, 0)
           r == At(q, "endLF")
           t == At(q, "start")
<1>1. p.m \in Nat /\ p.f \in Int /\ p.got \in Nat /\ Len(log) \in Nat
  BY DEF Places
<1>2. p.f = Chunked /\ p.m # 0 /\ p.m > 0 /\ p.m <= Len(log) /\ p.f = log[p.m].framing
      /\ p.got <= log[p.m].bytes /\ p.left = 0
  <2>1. p.f = Chunked /\ p.m # 0 /\ p.m <= Len(log) /\ p.left = 0
    BY DEF Fits, InChunks, NothingLeft
  <2> QED BY <1>1, <2>1 DEF Fits
<1>3. ChunkSize(0) \in Seq(Characters) /\ Leads(p, ChunkSize(0), q, log)
  <2>1. AfterSize(0) = "endCR" /\ 0 \in Nat
    BY DEF AfterSize
  <2> QED BY <2>1, SizeLeads
<1>4. q \in Places /\ r \in Places /\ t \in Places
  BY <1>1 DEF At, Within, Places, Points
<1>5. /\ q.at = "endCR" /\ q.m = p.m /\ q.f = p.f /\ q.got = p.got /\ q.left = 0
      /\ r.at = "endLF" /\ r.m = p.m /\ r.f = p.f /\ r.got = p.got /\ r.left = 0
      /\ t.at = "start" /\ t.m = p.m /\ t.f = p.f /\ t.got = p.got /\ t.left = 0
  BY DEF At, Within
<1>6. Takes(q, CR, r)
  BY DEF Takes, Within
<1>7. Takes(r, LF, t)
  <2>1. t = At(r, "start")
    BY DEF At, Within
  <2> HIDE DEF r, t
  <2> QED BY <1>5, <2>1 DEF Takes
<1>8. t = At(p, "start")
  BY <1>2 DEF At, Within
<1> HIDE DEF q, r, t
<1>9. Fits(q, log) /\ Fits(r, log) /\ Fits(t, log)
  <2>1. Fits(q, log)
    BY <1>2, <1>5, FitsEnd
  <2>2. Fits(r, log)
    BY <1>2, <1>5, FitsEnd
  <2>3. Fits(t, log)
    BY <1>2, <1>5, FitsEnd
  <2> QED BY <2>1, <2>2, <2>3
<1>10. Leads(q, CRLF, t, log)
  BY <1>4, <1>6, <1>7, <1>9, LineLeads
<1>11. Leads(p, ChunkSize(0) \o CRLF, t, log)
  BY <1>3, <1>10, CharactersAre, LeadsThrough
<1>12. ChunkSize(0) \o CRLF \in Seq(Characters)
  BY <1>3, CharactersAre, Joints
<1> QED BY <1>8, <1>11, <1>12

(* The destructor of the entity writer: the chunked one declares the end of a
   body between two writes, every other cuts the message off. *)
LEMMA DropWriterSteps ==
  ASSUME FramingInv, DropWriter
  PROVE  FramingInv'
<1> DEFINE t == ChunkSize(0) \o CRLF
<1>1. /\ FramingTypeOK /\ WriterOK /\ InStep /\ out \in Outs /\ sent \in Seq(Messages)
      /\ out.op.kind = "none" /\ ~out.finished /\ out.queue \in Seq(Characters)
      /\ wire' = wire /\ eof' = eof /\ in' = in /\ rcvd' = rcvd
      /\ wire \in Seq(Characters)
  BY OutIs DEF FramingInv, FramingTypeOK, DropWriter
<1>2. sent' = Note(out')
  BY DEF DropWriter
<1>3. /\ out.text = <<>> /\ out.op.promised = 0 /\ out.op.count = 0 /\ Short = 0
      /\ sent # <<>> /\ (out.inBody \/ out.broken)
  <2>1. out.op.promised = 0 /\ out.op.count = 0
    BY <1>1 DEF WriterOK
  <2> QED BY <1>1, <2>1 DEF WriterOK, Short
<1>4. out.framing = LastSent.framing /\ LastSent.bytes \in Nat /\ Len(sent) \in Nat
      /\ Len(sent) > 0 /\ LastSent.ended \in BOOLEAN
  BY <1>1, <1>3, LogLast DEF WriterOK
<1>5. t \in Seq(Characters)
  <2>1. <<"size", 0>> \in Characters
    BY DEF Characters
  <2>2. <<<<"size", 0>>>> \in Seq(Characters)
    BY <2>1
  <2>3. ChunkSize(0) \in Seq(Characters)
    BY <2>2, CharactersAre, Joints DEF ChunkSize
  <2> QED BY <2>3, CharactersAre, Joints
<1> HIDE DEF t
<1>6. CASE out.framing = Chunked /\ CanWriteBodyData(out)
  <2> DEFINE queue == IF out.broken THEN <<>> ELSE out.queue \o t
  <2>1. queue \in Seq(Characters)
    BY <1>1, <1>5, Joints
  <2>2. ~out.writeInProgress /\ out.inBody
    BY <1>6 DEF CanWriteBodyData
  <2>3. out' = [out EXCEPT !.queue = queue, !.finished = TRUE, !.inBody = FALSE]
    <3> DEFINE o == [out EXCEPT !.queue = queue]
    <3>1. out' = DoneWriting(o)
      BY <1>6 DEF DropWriter, QueueWrite, t
    <3> HIDE DEF queue
    <3>2. ~o.writeInProgress
      BY <1>1, <2>2 DEF Outs
    <3>3. DoneWriting(o) = [o EXCEPT !.finished = TRUE, !.inBody = FALSE]
      BY <1>1, <2>1, <3>2 DEF DoneWriting, FinishBody, Outs
    <3> QED BY <1>1, <2>1, <3>1, <3>3 DEF Outs
  <2> HIDE DEF queue
  <2>4. /\ out' \in Outs /\ out'.queue = queue /\ out'.text = <<>>
        /\ out'.op = out.op /\ ~out'.inBody /\ out'.broken = out.broken
        /\ out'.writeInProgress = out.writeInProgress
        /\ out'.framing = out.framing /\ out'.length = out.length /\ out'.finished
    BY <1>1, <1>3, <2>1, <2>3 DEF Outs
  <2>5. /\ sent' \in Seq(Messages) /\ Len(sent') = Len(sent) /\ sent' # <<>>
        /\ LastSent'.framing = LastSent.framing /\ LastSent'.bytes = LastSent.bytes
        /\ LastSent'.ended = (LastSent.ended \/ (out'.finished /\ ~out'.broken))
        /\ LastSent' = sent'[Len(sent')]
        /\ Grows(sent, sent')
    BY <1>1, <1>2, <1>3, <2>4, Noted
  <2>6. FramingTypeOK'
    BY <1>1, <2>4, <2>5 DEF FramingTypeOK, Outs
  <2>7. WriterOK'
    <3>1. /\ out'.op.kind = "none" /\ out'.op.promised = 0 /\ out'.op.count = 0
          /\ out'.text = <<>> /\ out'.finished /\ ~out'.inBody
          /\ out'.framing = LastSent'.framing /\ out'.framing = Chunked
      BY <1>1, <1>3, <1>4, <1>6, <2>4, <2>5
    <3>2. out'.broken => out'.queue = <<>>
      BY <2>4 DEF queue
    <3> QED BY <2>5, <3>1, <3>2 DEF WriterOK
  <2>8. InStep'
    <3>1. CASE out.broken \/ eof
      <4>1. Pending' = Pending /\ Cut' /\ Cut
        BY <1>1, <2>4, <3>1 DEF Pending, Cut
      <4> QED BY <1>1, <2>5, <2>6, <4>1, StepsStill
    <3>2. CASE ~(out.broken \/ eof)
      <4>1. ~Cut
        BY <1>1, <2>2, <3>2 DEF Cut, WriteLost
      <4>2. Pending = out.queue /\ Pending' = out.queue \o t
        <5>1. Pending = out.queue \o <<>> /\ Pending' = (out.queue \o t) \o <<>>
          BY <1>1, <1>3, <2>4, <3>2 DEF Pending, queue
        <5>2. out.queue \o t \in Seq(Characters)
          BY <1>1, <1>5, Joints
        <5>3. (out.queue \o t) \o <<>> = out.queue \o t
          BY <5>2, Joints
        <5>4. out.queue \o <<>> = out.queue
          BY <1>1, Joints
        <5> QED BY <5>1, <5>3, <5>4
      <4>3. wire' \o Pending' = (wire \o Pending) \o t
        <5>1. (wire \o out.queue) \o t = wire \o (out.queue \o t)
          BY <1>1, <1>5, Rejoined
        <5> QED BY <1>1, <4>2, <5>1
      <4>4. ASSUME WriterPlace \in Places, Fits(WriterPlace, sent')
            PROVE  Leads(WriterPlace, t, WriterPlace', sent')
        <5> DEFINE w == WriterPlace
        <5>1. w.at = "size" /\ w.m = Len(sent) /\ w.f = Chunked
              /\ w.got = LastSent.bytes /\ w.left = 0
          BY <1>1, <1>3, <1>6 DEF WriterPlace, WriterPoint
        <5>2. Short' = 0
          BY <1>3, <2>4 DEF Short
        <5>3. WriterPlace' = [at |-> "start", m |-> Len(sent), f |-> Chunked,
                              got |-> LastSent.bytes, left |-> 0]
          BY <1>6, <2>4, <2>5, <5>2 DEF WriterPlace, WriterPoint
        <5> HIDE DEF w
        <5>4. WriterPlace' = At(w, "start")
          BY <5>1, <5>3 DEF At, Within
        <5>5. sent'[w.m].ended /\ sent'[w.m].bytes = w.got
          <6>1. sent'[w.m] = LastSent' /\ LastSent'.bytes = w.got
            BY <2>5, <5>1
          <6>2. LastSent'.ended
            BY <2>4, <2>5, <3>2
          <6> QED BY <6>1, <6>2
        <5>6. Leads(w, t, At(w, "start"), sent')
          BY <2>5, <4>4, <5>1, <5>5, LastChunkLeads DEF w, t
        <5> QED BY <5>4, <5>6 DEF w
      <4> QED BY <1>1, <1>5, <2>5, <2>6, <4>1, <4>3, <4>4, StepsOn
    <3> QED BY <3>1, <3>2
  <2> QED BY <1>1, <2>5, <2>6, <2>7, <2>8, WriterSteps
<1>7. CASE ~(out.framing = Chunked /\ CanWriteBodyData(out))
  <2>1. out' = [AbortBody(out) EXCEPT !.finished = TRUE]
    BY <1>7 DEF DropWriter
  <2>2. /\ out' \in Outs /\ out'.queue = <<>> /\ out'.text = <<>>
        /\ out'.op = out.op /\ ~out'.inBody /\ out'.broken
        /\ out'.writeInProgress = out.writeInProgress
        /\ out'.framing = out.framing /\ out'.length = out.length /\ out'.finished
    <3>1. CASE out.inBody
      <4>1. out' = [out EXCEPT !.inBody = FALSE, !.broken = TRUE, !.queue = <<>>, !.finished = TRUE]
        BY <1>1, <2>1, <3>1 DEF AbortBody, Outs
      <4> QED BY <1>1, <1>3, <4>1, Joints DEF Outs
    <3>2. CASE ~out.inBody
      <4>1. out' = [out EXCEPT !.finished = TRUE]
        BY <2>1, <3>2 DEF AbortBody
      <4>2. out.broken /\ out.queue = <<>>
        BY <1>1, <1>3, <3>2 DEF WriterOK
      <4> QED BY <1>1, <1>3, <3>2, <4>1, <4>2 DEF Outs
    <3> QED BY <3>1, <3>2
  <2>3. /\ sent' \in Seq(Messages) /\ Len(sent') = Len(sent) /\ sent' # <<>>
        /\ LastSent'.framing = LastSent.framing /\ LastSent'.bytes = LastSent.bytes
        /\ Grows(sent, sent')
    BY <1>1, <1>2, <1>3, <2>2, Noted
  <2>4. FramingTypeOK'
    BY <1>1, <2>2, <2>3 DEF FramingTypeOK, Outs
  <2>5. Cut' /\ Pending' = <<>> /\ (WriteLost' <=> WriteLost) /\ Short' = 0
    BY <1>3, <2>2 DEF Cut, Pending, WriteLost, Short
  <2>6. WriterOK'
    <3>1. /\ out'.op.kind = "none" /\ out'.op.promised = 0 /\ out'.op.count = 0
          /\ out'.text = <<>> /\ out'.finished /\ ~out'.inBody /\ out'.broken /\ out'.queue = <<>>
          /\ out'.framing = LastSent'.framing
      BY <1>1, <1>3, <1>4, <2>2, <2>3
    <3>2. out.framing # Chunked =>
            /\ LastSent.bytes <= out.framing
            /\ ~WriteLost => out.length + LastSent.bytes + Short = out.framing
      BY <1>1, <1>3 DEF WriterOK
    <3>3. out'.framing # Chunked =>
            /\ LastSent'.bytes <= out'.framing
            /\ ~WriteLost' => out'.length + LastSent'.bytes + Short' = out'.framing
      BY <1>3, <2>2, <2>3, <2>5, <3>2
    <3> QED BY <2>3, <3>1, <3>3 DEF WriterOK
  <2>7. Pending \in Seq(Characters) /\ wire \o Pending = (wire' \o Pending') \o Pending
    BY <1>1, <2>5, FlightIs, Joints
  <2>8. InStep'
    BY <1>1, <2>3, <2>4, <2>5, <2>7, StepsLost
  <2> QED BY <1>1, <2>3, <2>4, <2>6, <2>8, WriterSteps
<1> QED BY <1>6, <1>7

-----------------------------------------------------------------------------
(* Receiving                                                                *)

Ins == [phase : {"idle", "head", "body", "failed"}, asked : Nat,
        pendingMessageCount : Int, leftover : Seq(Characters),
        buffer : Seq(Characters), lineBreak : BOOLEAN, left : Nat, busy : BOOLEAN,
        clean : BOOLEAN, broken : BOOLEAN, bad : BOOLEAN]
Read == [framing : Framings, data : Seq(Characters), ended : BOOLEAN]

(* The fields of HttpInputStreamImpl and of its entity reader. *)
LEMMA InIs ==
  ASSUME FramingTypeOK
  PROVE  /\ in \in Ins /\ in.phase \in {"idle", "head", "body", "failed"}
         /\ in.asked \in Nat /\ in.pendingMessageCount \in Int /\ in.left \in Nat
         /\ in.leftover \in Seq(Characters) /\ in.buffer \in Seq(Characters)
         /\ in.lineBreak \in BOOLEAN /\ in.busy \in BOOLEAN /\ in.clean \in BOOLEAN
         /\ in.broken \in BOOLEAN /\ in.bad \in BOOLEAN
         /\ rcvd \in Seq(Read) /\ sent \in Seq(Messages) /\ wire \in Seq(Characters)
BY DEF FramingTypeOK, Ins, Read

(* The reader does not touch the writer. *)
LEMMA WriterStays ==
  ASSUME out' = out, eof' = eof, sent' = sent
  PROVE  /\ WriterPlace' = WriterPlace /\ (Cut' <=> Cut) /\ Pending' = Pending
         /\ (WriterOK => WriterOK')
<1>1. LastSent' = LastSent /\ Short' = Short /\ (WriteLost' <=> WriteLost)
  BY DEF LastSent, Short, WriteLost
<1>2. WriterPlace' = WriterPlace /\ (Cut' <=> Cut) /\ Pending' = Pending
  BY <1>1 DEF WriterPlace, WriterPoint, Cut, Pending
<1>3. WriterOK => WriterOK'
  BY <1>1 DEF WriterOK
<1> QED BY <1>2, <1>3

(* What a step of the reader has to show. *)
LEMMA ReaderSteps ==
  ASSUME FramingInv, out' = out, eof' = eof, sent' = sent,
         in' \in Ins, rcvd' \in Seq(Read), wire' \in Seq(Characters),
         ReaderOK', ReadWasWritten', InStep'
  PROVE  FramingInv'
<1>1. FramingTypeOK'
  BY DEF FramingInv, FramingTypeOK, Ins, Read
<1>2. WriterOK'
  BY WriterStays DEF FramingInv
<1> QED BY <1>1, <1>2 DEF FramingInv

(* What is under way, split anywhere. *)
LEMMA Underway ==
  ASSUME FramingInv, in.phase # "failed",
         NEW t \in Seq(Characters), NEW u \in Seq(Characters), InFlight = t \o u
  PROVE  \E at \in ReaderPoints, r \in Places, q \in Places :
           /\ Leads(ReaderPlace(at), t, r, sent) /\ Leads(r, u, q, sent)
           /\ ~Cut => q = WriterPlace
<1>1. PICK at \in ReaderPoints, q \in Places :
        Leads(ReaderPlace(at), InFlight, q, sent) /\ (~Cut => q = WriterPlace)
  BY DEF FramingInv, InStep
<1>2. PICK r \in Places : Leads(ReaderPlace(at), t, r, sent) /\ Leads(r, u, q, sent)
  BY <1>1, LeadsHalfway
<1> QED BY <1>1, <1>2

(* The reader has arrived at a place from which the rest leads on. *)
LEMMA ReaderArrives ==
  ASSUME out' = out, eof' = eof, sent' = sent,
         NEW r, NEW q \in Places, Leads(r, InFlight', q, sent), ~Cut => q = WriterPlace,
         NEW at \in ReaderPoints', r = ReaderPlace(at)'
  PROVE  InStep'
<1>1. WriterPlace' = WriterPlace /\ (Cut' <=> Cut)
  BY WriterStays
<1>2. Leads(ReaderPlace(at)', InFlight', q, sent') /\ (~Cut' => q = WriterPlace')
  BY <1>1
<1> QED BY <1>2 DEF InStep

(* A step that leaves the reader where it was. *)
LEMMA ReaderWaits ==
  ASSUME FramingInv, out' = out, eof' = eof, sent' = sent, rcvd' = rcvd,
         InFlight' = InFlight, in'.left = in.left, in'.lineBreak = in.lineBreak,
         in'.phase = "body" <=> in.phase = "body",
         in.phase = "failed" => in'.phase = "failed"
  PROVE  InStep'
<1>1. CASE in'.phase = "failed"
  BY <1>1 DEF InStep
<1>2. CASE in'.phase # "failed"
  <2>1. PICK at \in ReaderPoints, q \in Places :
          Leads(ReaderPlace(at), InFlight, q, sent) /\ (~Cut => q = WriterPlace)
    BY <1>2 DEF FramingInv, InStep
  <2>2. at \in ReaderPoints'
    BY DEF ReaderPoints
  <2>3. ReaderPlace(at) = ReaderPlace(at)'
    BY DEF ReaderPlace, LastRead
  <2> QED BY <2>1, <2>2, <2>3, ReaderArrives
<1> QED BY <1>1, <1>2

(* A step that reads nothing leaves what was read as it was. *)
LEMMA SameRead ==
  ASSUME FramingInv, sent' = sent, rcvd' = rcvd, in'.bad = in.bad
  PROVE  ReadWasWritten'
BY DEF FramingInv, ReadWasWritten

(* readMessageHeaders() queues behind the message being read. *)
LEMMA ReadMessageSteps ==
  ASSUME FramingInv, ReadMessage
  PROVE  FramingInv'
<1>1. FramingTypeOK /\ ReaderOK /\ out' = out /\ wire' = wire /\ eof' = eof /\ sent' = sent
      /\ rcvd' = rcvd /\ in' = [in EXCEPT !.asked = @ + 1, !.pendingMessageCount = @ + 1]
  BY DEF FramingInv, ReadMessage
<1>2. /\ in' \in Ins /\ in'.asked = in.asked + 1
      /\ in'.pendingMessageCount = in.pendingMessageCount + 1
      /\ in'.phase = in.phase /\ in'.leftover = in.leftover /\ in'.buffer = in.buffer
      /\ in'.lineBreak = in.lineBreak /\ in'.left = in.left /\ in'.busy = in.busy
      /\ in'.clean = in.clean /\ in'.broken = in.broken /\ in'.bad = in.bad
  <2> DEFINE a == in.asked + 1
             c == in.pendingMessageCount + 1
  <2>1. a \in Nat /\ c \in Int /\ in \in Ins
    BY <1>1, InIs
  <2>2. in' = [in EXCEPT !.asked = a, !.pendingMessageCount = c]
    BY <1>1
  <2> HIDE DEF a, c
  <2> QED BY <2>1, <2>2 DEF Ins, a, c
<1>3. InFlight' = InFlight
  BY <1>1, <1>2, WriterStays DEF InFlight
<1>4. ReaderOK'
  <2>1. in'.pendingMessageCount = in'.asked + (IF in'.phase = "idle" THEN 0 ELSE 1)
    <3>1. in.pendingMessageCount = in.asked + (IF in.phase = "idle" THEN 0 ELSE 1)
      BY <1>1 DEF ReaderOK
    <3> QED BY <1>1, <1>2, <3>1, InIs
  <2> QED BY <1>1, <1>2, <2>1 DEF ReaderOK, NoHeader, LastRead
<1>5. InStep' /\ ReadWasWritten'
  BY <1>1, <1>2, <1>3, ReaderWaits, SameRead
<1> QED BY <1>1, <1>2, <1>4, <1>5, InIs, ReaderSteps

(* The next of the queued reads begins. *)
LEMMA NextMessageSteps ==
  ASSUME FramingInv, NextMessage
  PROVE  FramingInv'
<1>1. FramingTypeOK /\ ReaderOK /\ out' = out /\ wire' = wire /\ eof' = eof /\ sent' = sent
      /\ rcvd' = rcvd /\ in.phase = "idle" /\ in.asked > 0
      /\ in' = [in EXCEPT !.phase = "head", !.asked = @ - 1, !.buffer = <<>>]
  BY DEF FramingInv, NextMessage
<1>2. /\ in' \in Ins /\ in'.asked = in.asked - 1
      /\ in'.pendingMessageCount = in.pendingMessageCount
      /\ in'.phase = "head" /\ in'.leftover = in.leftover /\ in'.buffer = <<>>
      /\ in'.lineBreak = in.lineBreak /\ in'.left = in.left /\ in'.busy = in.busy
      /\ in'.clean = in.clean /\ in'.broken = in.broken /\ in'.bad = in.bad
  <2>1. in.asked - 1 \in Nat /\ <<>> \in Seq(Characters)
    BY <1>1, InIs, Joints
  <2> QED BY <1>1, <2>1, InIs DEF Ins
<1>3. in.buffer = <<>> /\ ~in.busy /\ in.left = 0 /\ in.pendingMessageCount = in.asked + 0
  BY <1>1 DEF ReaderOK
<1>4. InFlight' = InFlight
  BY <1>1, <1>2, <1>3, WriterStays DEF InFlight
<1>5. ReaderOK'
  <2>1. in'.pendingMessageCount = in'.asked + (IF in'.phase = "idle" THEN 0 ELSE 1)
    BY <1>1, <1>2, <1>3, InIs
  <2>2. Len(<<>>) <= 4
    OBVIOUS
  <2> QED BY <1>2, <1>3, <2>1, <2>2 DEF ReaderOK, NoHeader
<1>6. InStep' /\ ReadWasWritten'
  BY <1>1, <1>2, <1>4, ReaderWaits, SameRead
<1> QED BY <1>1, <1>2, <1>5, <1>6, InIs, ReaderSteps

(* tryRead() of an entity reader begins. *)
LEMMA TryReadSteps ==
  ASSUME FramingInv, TryRead
  PROVE  FramingInv'
<1>1. FramingTypeOK /\ ReaderOK /\ out' = out /\ wire' = wire /\ eof' = eof /\ sent' = sent
      /\ rcvd' = rcvd /\ in.phase = "body" /\ in.clean
      /\ in' = [in EXCEPT !.busy = TRUE, !.clean = FALSE, !.buffer = <<>>]
  BY DEF FramingInv, TryRead
<1>2. /\ in' \in Ins /\ in'.asked = in.asked
      /\ in'.pendingMessageCount = in.pendingMessageCount
      /\ in'.phase = in.phase /\ in'.leftover = in.leftover /\ in'.buffer = <<>>
      /\ in'.lineBreak = in.lineBreak /\ in'.left = in.left /\ in'.busy
      /\ ~in'.clean /\ in'.broken = in.broken /\ in'.bad = in.bad
  <2>1. <<>> \in Seq(Characters)
    BY Joints
  <2> QED BY <1>1, <2>1, InIs DEF Ins
<1>3. in.buffer = <<>>
  BY <1>1 DEF ReaderOK
<1>4. InFlight' = InFlight
  BY <1>1, <1>2, <1>3, WriterStays DEF InFlight
<1>5. ReaderOK'
  <2>1. Len(<<>>) <= 2
    OBVIOUS
  <2>2. /\ rcvd # <<>> /\ ~LastRead.ended /\ LastRead' = LastRead
        /\ (LastRead.framing # Chunked => in.left > 0 /\ ~in.lineBreak)
        /\ (LastRead.framing = Chunked /\ in.left > 0 => in.lineBreak)
        /\ in.pendingMessageCount = in.asked + 1
    BY <1>1 DEF ReaderOK, LastRead
  <2> QED BY <1>1, <1>2, <2>1, <2>2 DEF ReaderOK, NoHeader
<1>6. InStep' /\ ReadWasWritten'
  BY <1>1, <1>2, <1>4, ReaderWaits, SameRead
<1> QED BY <1>1, <1>2, <1>5, <1>6, InIs, ReaderSteps

(* A read of the body is dropped half way: the reader stays where it was. *)
LEMMA CancelReadSteps ==
  ASSUME FramingInv, CancelRead
  PROVE  FramingInv'
<1>1. FramingTypeOK /\ ReaderOK /\ out' = out /\ wire' = wire /\ eof' = eof /\ sent' = sent
      /\ rcvd' = rcvd /\ in.busy /\ in' = [in EXCEPT !.busy = FALSE]
  BY DEF FramingInv, CancelRead
<1>2. /\ in' \in Ins /\ in'.asked = in.asked
      /\ in'.pendingMessageCount = in.pendingMessageCount
      /\ in'.phase = in.phase /\ in'.leftover = in.leftover /\ in'.buffer = in.buffer
      /\ in'.lineBreak = in.lineBreak /\ in'.left = in.left /\ ~in'.busy
      /\ in'.clean = in.clean /\ in'.broken = in.broken /\ in'.bad = in.bad
  BY <1>1, InIs DEF Ins
<1>3. InFlight' = InFlight
  BY <1>1, <1>2, WriterStays DEF InFlight
<1>4. ReaderOK'
  <2>1. in.phase = "head" => ~in.busy
    BY <1>1 DEF ReaderOK
  <2>2. in.phase # "head" /\ in.phase # "idle" /\ LastRead' = LastRead
    BY <1>1, <2>1 DEF ReaderOK, LastRead
  <2>3. in'.pendingMessageCount = in'.asked + (IF in'.phase = "idle" THEN 0 ELSE 1)
    BY <1>1, <1>2 DEF ReaderOK
  <2>4. in.phase = "body" =>
          /\ rcvd # <<>> /\ ~LastRead.ended /\ ~in.clean
          /\ LastRead.framing # Chunked => in.left > 0 /\ ~in.lineBreak
          /\ LastRead.framing = Chunked /\ in.left > 0 => in.lineBreak
    BY <1>1 DEF ReaderOK
  <2> QED BY <1>1, <1>2, <2>2, <2>3, <2>4 DEF ReaderOK
<1>5. InStep' /\ ReadWasWritten'
  BY <1>1, <1>2, <1>3, ReaderWaits, SameRead
<1> QED BY <1>1, <1>2, <1>4, <1>5, InIs, ReaderSteps

(* The destructor of an entity reader that has not come to its end. *)
LEMMA DropReaderSteps ==
  ASSUME FramingInv, DropReader
  PROVE  FramingInv'
<1>1. FramingTypeOK /\ ReaderOK /\ out' = out /\ wire' = wire /\ eof' = eof /\ sent' = sent
      /\ rcvd' = rcvd /\ in.phase # "idle"
      /\ in' = [in EXCEPT !.phase = "failed", !.broken = TRUE, !.busy = FALSE]
  BY DEF FramingInv, DropReader
<1>2. /\ in' \in Ins /\ in'.asked = in.asked
      /\ in'.pendingMessageCount = in.pendingMessageCount
      /\ in'.phase = "failed" /\ in'.bad = in.bad
  BY <1>1, InIs DEF Ins
<1>3. ReaderOK'
  BY <1>1, <1>2 DEF ReaderOK
<1>4. InStep' /\ ReadWasWritten'
  BY <1>1, <1>2, SameRead DEF InStep
<1> QED BY <1>1, <1>2, <1>3, <1>4, InIs, ReaderSteps

(* The next bytes of a body join those before them. *)
LEMMA BytesJoin ==
  ASSUME NEW a \in Nat, NEW b \in Nat
  PROVE  Bytes(0, a) \o Bytes(a, b) = Bytes(0, a + b)
<1> DEFINE s == Bytes(0, a)
           t == Bytes(a, b)
           u == Bytes(0, a + b)
<1>1. /\ s \in Seq(Characters) /\ Len(s) = a /\ \A i \in 1..a : s[i] = <<"byte", 0 + i>>
      /\ t \in Seq(Characters) /\ Len(t) = b /\ \A i \in 1..b : t[i] = <<"byte", a + i>>
      /\ u \in Seq(Characters) /\ Len(u) = a + b
      /\ \A i \in 1..(a + b) : u[i] = <<"byte", 0 + i>>
  <2>1. 0 \in Nat /\ a + b \in Nat
    OBVIOUS
  <2>2. s \in Seq(Characters) /\ Len(s) = a /\ \A i \in 1..a : s[i] = <<"byte", 0 + i>>
    BY <2>1, BytesAre
  <2>3. t \in Seq(Characters) /\ Len(t) = b /\ \A i \in 1..b : t[i] = <<"byte", a + i>>
    BY BytesAre
  <2> DEFINE c == a + b
  <2>4. c \in Nat
    OBVIOUS
  <2> HIDE DEF c
  <2>5. /\ Bytes(0, c) \in Seq(Characters) /\ Len(Bytes(0, c)) = c
        /\ \A i \in 1..c : Bytes(0, c)[i] = <<"byte", 0 + i>>
    BY <2>1, <2>4, BytesAre
  <2> QED BY <2>2, <2>3, <2>5 DEF c
<1> HIDE DEF s, t, u
<1>2. /\ s \o t \in Seq(Characters) /\ Len(s \o t) = a + b
      /\ \A i \in 1..(a + b) : (s \o t)[i] = IF i <= a THEN s[i] ELSE t[i - a]
  BY <1>1, ConcatProperties
<1>3. ASSUME NEW i \in 1..(a + b) PROVE (s \o t)[i] = u[i]
  <2>1. CASE i <= a
    <3>1. i \in 1..a
      BY <2>1
    <3> QED BY <1>1, <1>2, <2>1, <3>1
  <2>2. CASE ~(i <= a)
    <3>1. i - a \in 1..b /\ a + (i - a) = 0 + i
      BY <2>2
    <3>2. t[i - a] = <<"byte", a + (i - a)>>
      BY <1>1, <3>1
    <3> QED BY <1>1, <1>2, <2>2, <3>1, <3>2
  <2> QED BY <2>1, <2>2
<1>4. s \o t = u
  <2> DEFINE w == s \o t
  <2>1. w \in Seq(Characters) /\ Len(w) = Len(u) /\ \A i \in 1..Len(w) : w[i] = u[i]
    BY <1>1, <1>2, <1>3
  <2> HIDE DEF w
  <2>2. w = u
    BY <1>1, <2>1, SeqEqual
  <2> QED BY <2>2 DEF w
<1> QED BY <1>4 DEF s, t, u

(* What a read takes is what follows the buffer. *)
LEMMA ArrivalIs ==
  ASSUME FramingTypeOK, NEW n \in Nat, n > 0, Arrives(n)
  PROVE  /\ Arrived(n) \in Seq(Characters) /\ Arrived(n) # <<>> /\ Len(Arrived(n)) = n
         /\ WireAfter(n) \in Seq(Characters)
         /\ InFlight = (in.buffer \o Arrived(n)) \o (WireAfter(n) \o Pending)
<1>1. in.leftover \in Seq(Characters) /\ in.buffer \in Seq(Characters)
      /\ wire \in Seq(Characters) /\ Pending \in Seq(Characters)
  BY FlightIs
<1>2. CASE in.leftover # <<>>
  <2>1. Arrived(n) = in.leftover /\ WireAfter(n) = wire /\ n = Len(in.leftover)
    BY <1>2 DEF Arrived, WireAfter, Arrives
  <2> QED BY <1>1, <1>2, <2>1 DEF InFlight
<1>3. CASE in.leftover = <<>>
  <2> DEFINE a == SubSeq(wire, 1, n)
             r == SubSeq(wire, n + 1, Len(wire))
  <2>1. Arrived(n) = a /\ WireAfter(n) = r /\ n <= Len(wire)
    BY <1>3 DEF Arrived, WireAfter, Arrives
  <2>2. a \in Seq(Characters) /\ r \in Seq(Characters) /\ a \o r = wire /\ Len(a) = n
    BY <1>1, <2>1, Taken
  <2> HIDE DEF a, r
  <2>3. a # <<>>
    BY <2>2, EmptyOrNot
  <2>4. InFlight = in.buffer \o ((a \o r) \o Pending)
    <3>1. in.buffer \o <<>> = in.buffer
      BY <1>1, Joints
    <3> QED BY <1>3, <2>2, <3>1 DEF InFlight
  <2>5. (a \o r) \o Pending = a \o (r \o Pending) /\ r \o Pending \in Seq(Characters)
    <3>1. (a \o r) \o Pending = a \o (r \o Pending)
      <4>1. a \in Seq(Characters) /\ r \in Seq(Characters)
        BY <2>2
      <4>2. Pending \in Seq(Characters)
        BY <1>1
      <4> QED BY ONLY <4>1, <4>2, Rejoined
    <3>2. r \o Pending \in Seq(Characters)
      BY <1>1, <2>2, ConcatProperties
    <3> QED BY <3>1, <3>2
  <2>6. in.buffer \o (a \o (r \o Pending)) = (in.buffer \o a) \o (r \o Pending)
    <3>1. PICK w \in Seq(Characters) : w = r \o Pending
      BY <2>5
    <3>2. a \in Seq(Characters) /\ in.buffer \in Seq(Characters)
      BY <1>1, <2>2
    <3>3. (in.buffer \o a) \o w = in.buffer \o (a \o w)
      BY ONLY <3>2, w \in Seq(Characters), Rejoined
    <3> QED BY ONLY <3>1, <3>3
  <2> QED BY <2>1, <2>2, <2>3, <2>4, <2>5, <2>6
<1> QED BY <1>2, <1>3

(* The end of the stream ends the reader. *)
LEMMA ReaderFails ==
  ASSUME FramingInv, out' = out, eof' = eof, sent' = sent, rcvd' = rcvd,
         wire' \in Seq(Characters), in.phase # "idle", in' = Fail(in)
  PROVE  FramingInv'
<1>1. FramingTypeOK /\ ReaderOK
  BY DEF FramingInv
<1>2. /\ in' \in Ins /\ in'.phase = "failed" /\ in'.asked = in.asked
      /\ in'.pendingMessageCount = in.pendingMessageCount /\ in'.bad = in.bad
  BY <1>1, InIs DEF Fail, Ins
<1>3. ReaderOK'
  BY <1>1, <1>2 DEF ReaderOK
<1>4. InStep' /\ ReadWasWritten'
  BY <1>2, SameRead DEF InStep
<1> QED BY <1>1, <1>2, <1>3, <1>4, InIs, ReaderSteps

(* The end of the stream arrives when nothing else can. *)
LEMMA NoMore ==
  ASSUME FramingTypeOK, Arrives(0)
  PROVE  in.leftover = <<>> /\ wire = <<>> /\ WireAfter(0) = <<>>
<1>1. in.leftover \in Seq(Characters) /\ wire \in Seq(Characters)
  BY FlightIs
<1>2. in.leftover = <<>>
  <2>1. in.leftover # <<>> => Len(in.leftover) # 0
    BY <1>1, EmptyOrNot
  <2> QED BY <2>1 DEF Arrives
<1>3. wire = <<>>
  BY <1>2 DEF Arrives
<1>4. SubSeq(<<>>, 0 + 1, Len(<<>>)) = <<>>
  <2>1. Len(<<>>) = 0
    OBVIOUS
  <2>2. 0 + 1 \in Int /\ Len(<<>>) \in Int /\ Len(<<>>) < 0 + 1
    BY <2>1
  <2> QED BY <2>2, SubSeqEmpty
<1> QED BY <1>2, <1>3, <1>4 DEF WireAfter

(* The last message read. *)
LEMMA ReadLast ==
  ASSUME FramingTypeOK, rcvd # <<>>
  PROVE  /\ Len(rcvd) \in Nat /\ Len(rcvd) > 0 /\ Len(rcvd) \in 1..Len(rcvd)
         /\ LastRead \in Read /\ LastRead = rcvd[Len(rcvd)] /\ Last(rcvd) = LastRead
         /\ LastRead.framing \in Framings /\ LastRead.framing \in Int
         /\ LastRead.data \in Seq(Characters) /\ LastRead.ended \in BOOLEAN
<1>1. rcvd \in Seq(Read)
  BY InIs
<1>2. Len(rcvd) \in Nat /\ Len(rcvd) > 0
  BY <1>1, EmptySeq
<1>3. LastRead \in Read /\ LastRead = rcvd[Len(rcvd)]
  BY <1>1, <1>2, ElementOfSeq DEF LastRead
<1>4. LastRead.framing \in Framings /\ LastRead.data \in Seq(Characters) /\ LastRead.ended \in BOOLEAN
  BY <1>3 DEF Read
<1> QED BY <1>2, <1>3, <1>4, LastIs, FramingsAre

(* More of the message that is being read. *)
LEMMA ReadMore ==
  ASSUME FramingTypeOK, rcvd # <<>>, NEW e \in Read, e.framing = LastRead.framing,
         rcvd' = [rcvd EXCEPT ![Len(rcvd)] = e]
  PROVE  /\ rcvd' \in Seq(Read) /\ Len(rcvd') = Len(rcvd) /\ rcvd' # <<>>
         /\ LastRead' = e /\ rcvd'[Len(rcvd)] = e
         /\ \A m \in 1..Len(rcvd) : m # Len(rcvd) => rcvd'[m] = rcvd[m]
<1>1. rcvd \in Seq(Read) /\ Len(rcvd) \in Nat /\ Len(rcvd) > 0 /\ Len(rcvd) \in 1..Len(rcvd)
  BY InIs, ReadLast
<1>2. /\ rcvd' \in Seq(Read) /\ Len(rcvd') = Len(rcvd) /\ rcvd'[Len(rcvd)] = e
      /\ \A m \in 1..Len(rcvd) : m # Len(rcvd) => rcvd'[m] = rcvd[m]
  BY <1>1, ExceptSeq
<1>3. LastRead' = e
  BY <1>1, <1>2 DEF LastRead
<1>4. rcvd' # <<>>
  <2>1. \A s : Len(s) > 0 => s # <<>>
    OBVIOUS
  <2>2. Len(rcvd') > 0
    BY <1>1, <1>2
  <2> QED BY ONLY <2>1, <2>2
<1> QED BY <1>2, <1>3, <1>4

(* It is still what was written. *)
LEMMA MoreWasWritten ==
  ASSUME FramingInv, rcvd # <<>>, sent' = sent, ~in'.bad, NEW e \in Read,
         e.framing = LastRead.framing, rcvd' = [rcvd EXCEPT ![Len(rcvd)] = e],
         e.data = Bytes(0, Len(e.data)), Len(e.data) <= sent[Len(rcvd)].bytes,
         e.ended => Len(e.data) = sent[Len(rcvd)].bytes /\ Complete(sent[Len(rcvd)])
  PROVE  ReadWasWritten'
<1>1. FramingTypeOK /\ ReadWasWritten
  BY DEF FramingInv
<1> DEFINE k == Len(rcvd)
<1>2. /\ Len(rcvd') = k /\ rcvd'[k] = e /\ k \in 1..k /\ LastRead = rcvd[k]
      /\ \A m \in 1..k : m # k => rcvd'[m] = rcvd[m]
  BY <1>1, ReadMore, ReadLast
<1>3. ASSUME NEW m \in 1..k
      PROVE  /\ rcvd'[m].framing = sent[m].framing
             /\ rcvd'[m].data = Bytes(0, Len(rcvd'[m].data))
             /\ Len(rcvd'[m].data) <= sent[m].bytes
             /\ rcvd'[m].ended => Len(rcvd'[m].data) = sent[m].bytes /\ Complete(sent[m])
  <2>1. /\ rcvd[m].framing = sent[m].framing
        /\ rcvd[m].data = Bytes(0, Len(rcvd[m].data))
        /\ Len(rcvd[m].data) <= sent[m].bytes
        /\ rcvd[m].ended => Len(rcvd[m].data) = sent[m].bytes /\ Complete(sent[m])
    BY <1>1 DEF ReadWasWritten
  <2>2. CASE m = k
    BY <1>2, <2>1, <2>2
  <2>3. CASE m # k
    BY <1>2, <2>1, <2>3
  <2> QED BY <2>2, <2>3
<1>4. Len(rcvd') <= Len(sent)
  BY <1>1, <1>2 DEF ReadWasWritten
<1>5. ASSUME NEW m \in 1..Len(rcvd')
      PROVE  /\ rcvd'[m].framing = sent'[m].framing
             /\ rcvd'[m].data = Bytes(0, Len(rcvd'[m].data))
             /\ Len(rcvd'[m].data) <= sent'[m].bytes
             /\ rcvd'[m].ended => Len(rcvd'[m].data) = sent'[m].bytes /\ Complete(sent'[m])
  <2>1. m \in 1..k /\ sent' = sent
    BY <1>2
  <2> QED BY <1>3, <2>1
<1> HIDE DEF k
<1> QED BY ONLY ~in'.bad, sent' = sent, <1>4, <1>5 DEF ReadWasWritten

(* The reader's place in a body. *)
LEMMA PlaceInBody ==
  ASSUME FramingTypeOK, in.phase = "body", rcvd # <<>>, NEW at \in Points
  PROVE  /\ ReaderPlace(at) = [at |-> at, m |-> Len(rcvd), f |-> LastRead.framing,
                               got |-> Len(LastRead.data), left |-> in.left]
         /\ ReaderPlace(at) \in Places
<1>1. ReaderPlace(at) = [at |-> at, m |-> Len(rcvd), f |-> LastRead.framing,
                         got |-> Len(LastRead.data), left |-> in.left]
  BY DEF ReaderPlace
<1>2. Len(rcvd) \in Nat /\ LastRead.framing \in Int /\ Len(LastRead.data) \in Nat /\ in.left \in Nat
  BY ReadLast, InIs
<1> QED BY <1>1, <1>2 DEF Places

(* tryRead() of a body, Content-Length or within a chunk: what arrives are its
   next bytes, and the Content-Length body ends at its last one. *)
LEMMA ReadDataSteps ==
  ASSUME FramingInv, NEW n \in 0..MaxRead, NEW max \in WriteSizes, ReadData(n, max)
  PROVE  FramingInv'
<1> DEFINE limit == IF max < in.left THEN max ELSE in.left
           part == IF limit < Len(in.leftover) THEN limit ELSE Len(in.leftover)
           d == IF in.leftover # <<>> THEN SubSeq(in.leftover, 1, part) ELSE SubSeq(wire, 1, n)
           done == LastRead.framing # Chunked /\ in.left = Len(d)
           rest == SubSeq(in.leftover, Len(d) + 1, Len(in.leftover))
           i == [in EXCEPT !.left = @ - Len(d), !.busy = FALSE, !.clean = TRUE,
                           !.leftover = SubSeq(@, Len(d) + 1, Len(@))]
<1>1. /\ FramingTypeOK /\ ReaderOK /\ ReadWasWritten /\ InStep
      /\ in.phase = "body" /\ in.busy /\ in.left > 0
      /\ out' = out /\ eof' = eof /\ sent' = sent /\ in \in Ins
      /\ in.left \in Nat /\ in.leftover \in Seq(Characters) /\ wire \in Seq(Characters)
      /\ n \in Nat /\ max \in Nat /\ in.pendingMessageCount \in Int
      /\ Pending \in Seq(Characters)
  BY InIs, FlightIs, FramingAssumption DEF FramingInv, ReadData
<1>2. /\ rcvd # <<>> /\ ~LastRead.ended /\ in.buffer = <<>> /\ ~in.clean
      /\ LastRead.framing # Chunked => ~in.lineBreak
      /\ LastRead.framing = Chunked => in.lineBreak
      /\ in.pendingMessageCount = in.asked + 1
  BY <1>1 DEF ReaderOK
<1>3. /\ Last(rcvd) = LastRead /\ LastRead \in Read /\ LastRead.framing \in Framings
      /\ LastRead.data \in Seq(Characters) /\ rcvd \in Seq(Read) /\ Len(rcvd) \in Nat
      /\ Len(rcvd) > 0 /\ LastRead = rcvd[Len(rcvd)] /\ Len(rcvd) \in 1..Len(rcvd)
  BY <1>1, <1>2, ReadLast, InIs
<1>4. /\ Arrives(n) /\ (in.leftover = <<>> => n <= limit) /\ wire' = WireAfter(n)
      /\ in' = (IF n = 0 THEN Fail(in) ELSE IF done THEN FinishRead(i) ELSE i)
      /\ rcvd' = [rcvd EXCEPT ![Len(rcvd)].data = @ \o d, ![Len(rcvd)].ended = done]
  BY <1>3 DEF ReadData
<1>5. limit \in Nat /\ limit <= in.left
  BY <1>1
<1>6. d \in Seq(Characters) /\ Len(d) <= in.left
  <2>1. CASE in.leftover # <<>>
    <3>1. part \in Nat /\ part <= Len(in.leftover) /\ part <= in.left
      BY <1>1, <1>5
    <3> HIDE DEF part
    <3>2. d = SubSeq(in.leftover, 1, part)
      BY <2>1
    <3> QED BY <1>1, <3>1, <3>2, Taken
  <2>2. CASE in.leftover = <<>>
    <3>1. d = SubSeq(wire, 1, n)
      BY <2>2
    <3>2. n <= Len(wire)
      BY <1>1, <1>4, <2>2 DEF Arrives
    <3> QED BY <1>1, <1>4, <1>5, <2>2, <3>1, <3>2, Taken
  <2> QED BY <2>1, <2>2
<1>7. Len(d) \in Nat
  BY <1>6
<1> DEFINE ended == done
           e == [framing |-> LastRead.framing, data |-> LastRead.data \o d, ended |-> ended]
<1>8. rcvd' = [rcvd EXCEPT ![Len(rcvd)] = e] /\ e \in Read /\ e.framing = LastRead.framing
      /\ e.data = LastRead.data \o d /\ e.ended = ended
  <2>1. ended \in BOOLEAN /\ LastRead.data \o d \in Seq(Characters)
    BY <1>3, <1>6, Joints
  <2> HIDE DEF done, d
  <2>2. e \in Read /\ e.framing = LastRead.framing /\ e.data = LastRead.data \o d /\ e.ended = ended
    <3> HIDE DEF ended
    <3> QED BY <1>3, <2>1 DEF Read
  <2>3. rcvd' = [rcvd EXCEPT ![Len(rcvd)] = [LastRead EXCEPT !.data = @ \o d, !.ended = ended]]
    <3> DEFINE b == rcvd[Len(rcvd)].data \o d
    <3>1. rcvd' = [rcvd EXCEPT ![Len(rcvd)].data = b, ![Len(rcvd)].ended = ended]
      BY <1>4
    <3>2. b = LastRead.data \o d
      BY <1>3
    <3> HIDE DEF b, ended
    <3>3. rcvd' = [rcvd EXCEPT ![Len(rcvd)] = [LastRead EXCEPT !.data = b, !.ended = ended]]
      BY <1>3, <3>1 DEF Read
    <3> QED BY <3>2, <3>3
  <2>4. [LastRead EXCEPT !.data = @ \o d, !.ended = ended] = e
    <3>1. ASSUME NEW x \in Read, NEW a \in Seq(Characters), NEW b \in BOOLEAN
          PROVE  [x EXCEPT !.data = a, !.ended = b]
                   = [framing |-> x.framing, data |-> a, ended |-> b]
      <4> DEFINE y == [x EXCEPT !.data = a, !.ended = b]
                 z == [framing |-> x.framing, data |-> a, ended |-> b]
      <4>1. y \in Read /\ y.framing = x.framing /\ y.data = a /\ y.ended = b
        BY DEF Read
      <4>2. z \in Read /\ z.framing = x.framing /\ z.data = a /\ z.ended = b
        BY DEF Read
      <4>3. \A u, v \in Read :
              u.framing = v.framing /\ u.data = v.data /\ u.ended = v.ended => u = v
        BY DEF Read
      <4> HIDE DEF y, z
      <4>4. y = z
        BY <4>1, <4>2, <4>3
      <4> QED BY <4>4 DEF y, z
    <3> HIDE DEF ended
    <3> QED BY <1>3, <2>1, <3>1
  <2> QED BY <2>2, <2>3, <2>4
<1>9. CASE n = 0
  <2>1. in.leftover = <<>> /\ wire = <<>> /\ wire' = <<>>
    BY <1>1, <1>4, <1>9, NoMore
  <2>2. d = <<>> /\ Len(d) = 0
    <3>1. Len(d) = 0
      BY <1>1, <1>9, <2>1, Taken
    <3> QED BY <1>6, <3>1, EmptyOrNot
  <2>3. ~ended
    BY <1>1, <2>2
  <2> HIDE DEF d, ended
  <2>4. e = LastRead
    <3>1. LastRead.data \o d = LastRead.data
      BY <1>3, <2>2, Joints
    <3>2. LastRead.ended = FALSE /\ ended = FALSE
      BY <1>2, <1>3, <2>3, ReadLast, <1>1, <1>8
    <3> QED BY <1>3, <3>1, <3>2 DEF Read
  <2> HIDE DEF e
  <2>5. rcvd' = rcvd
    BY <1>3, <1>8, <2>4
  <2>6. in' = Fail(in)
    <3> HIDE DEF done, i
    <3> QED BY <1>4, <1>9
  <2>7. wire' \in Seq(Characters)
    BY <2>1, EmptySeq
  <2> QED BY <1>1, <2>5, <2>6, <2>7, ReaderFails
<1>10. CASE n # 0
  <2>1. n > 0
    BY <1>1, <1>10
  <2>2. wire' \in Seq(Characters)
    BY <1>1, <1>4, <2>1, ArrivalIs
  <2>3. /\ rest \in Seq(Characters)
        /\ in.buffer \o in.leftover = in.leftover
        /\ \/ in.leftover = d \o rest /\ wire' = wire
           \/ in.leftover = <<>> /\ rest = <<>> /\ wire = d \o wire'
    <3>1. in.buffer \o in.leftover = in.leftover
      BY <1>1, <1>2, Joints
    <3>2. CASE in.leftover # <<>>
      <4>1. part \in Nat /\ part <= Len(in.leftover) /\ part <= in.left
        BY <1>1, <1>5
      <4> HIDE DEF part
      <4>2. d = SubSeq(in.leftover, 1, part)
        BY <3>2
      <4>3. Len(d) = part
        BY <1>1, <4>1, <4>2, Taken
      <4>4. rest = SubSeq(in.leftover, part + 1, Len(in.leftover))
        BY <4>3
      <4> HIDE DEF d, rest
      <4>5. rest \in Seq(Characters) /\ in.leftover = d \o rest
        BY <1>1, <4>1, <4>2, <4>4, Taken
      <4>6. wire' = wire
        BY <1>4, <3>2 DEF WireAfter
      <4> QED BY <3>1, <4>5, <4>6
    <3>3. CASE in.leftover = <<>>
      <4>1. d = SubSeq(wire, 1, n) /\ wire' = SubSeq(wire, n + 1, Len(wire)) /\ n <= Len(wire)
        BY <1>1, <1>4, <2>1, <3>3 DEF WireAfter, Arrives
      <4>2. rest = <<>>
        <5>2. Len(in.leftover) = 0
          BY <3>3
        <5> HIDE DEF d
        <5>1. Len(d) + 1 \in Int /\ 0 \in Int /\ 0 < Len(d) + 1
          BY <1>7
        <5> QED BY <5>1, <5>2, SubSeqEmpty
      <4> HIDE DEF d, rest
      <4>3. wire = d \o wire'
        BY <1>1, <4>1, Taken
      <4> QED BY <3>1, <3>3, <4>2, <4>3, Joints
    <3> QED BY <3>2, <3>3
  <2> DEFINE left == in.left - Len(d)
             idle == IF ended THEN "idle" ELSE "body"
             pending == IF ended THEN in.pendingMessageCount - 1 ELSE in.pendingMessageCount
  <2>4. left \in Nat /\ pending \in Int
    BY <1>1, <1>6, <1>7
  <2>5. /\ in' \in Ins /\ in'.phase = idle /\ in'.asked = in.asked
        /\ in'.pendingMessageCount = pending /\ in'.leftover = rest
        /\ in'.buffer = in.buffer /\ in'.lineBreak = in.lineBreak /\ in'.left = left
        /\ ~in'.busy /\ in'.clean /\ in'.bad = in.bad
    <3>1. i = [in EXCEPT !.left = left, !.busy = FALSE, !.clean = TRUE, !.leftover = rest]
      OBVIOUS
    <3>2. in' = IF ended THEN FinishRead(i) ELSE i
      BY <1>4, <1>10
    <3> HIDE DEF i, left, rest, d, ended
    <3>3. /\ i \in Ins /\ i.phase = in.phase /\ i.asked = in.asked
          /\ i.pendingMessageCount = in.pendingMessageCount /\ i.leftover = rest
          /\ i.buffer = in.buffer /\ i.lineBreak = in.lineBreak /\ i.left = left
          /\ ~i.busy /\ i.clean /\ i.bad = in.bad
      BY <1>1, <2>3, <2>4, <3>1 DEF Ins
    <3>4. CASE ended
      <4>1. in' = [i EXCEPT !.phase = "idle", !.pendingMessageCount = pending, !.busy = FALSE]
        BY <3>2, <3>3, <3>4 DEF FinishRead
      <4> HIDE DEF pending
      <4> QED BY <2>4, <3>3, <3>4, <4>1 DEF Ins
    <3>5. CASE ~ended
      BY <1>1, <3>2, <3>3, <3>5
    <3> QED BY <3>4, <3>5
  <2> HIDE DEF d, i, rest, e
  <2>6. InFlight = d \o InFlight' /\ InFlight' \in Seq(Characters)
    <3>1. Pending' = Pending
      BY <1>1, WriterStays
    <3>2. InFlight' = rest \o (wire' \o Pending)
      <4>1. in'.buffer \o in'.leftover = rest
        BY <1>2, <2>3, <2>5, Joints
      <4> QED BY <3>1, <4>1 DEF InFlight
    <3>3. InFlight = in.leftover \o (wire \o Pending)
      BY <2>3 DEF InFlight
    <3>4. wire' \o Pending \in Seq(Characters)
      BY <1>1, <2>2, Joints
    <3>5. rest \o (wire' \o Pending) \in Seq(Characters)
      BY <2>3, <3>4, Joints
    <3>6. CASE in.leftover = d \o rest /\ wire' = wire
      <4>1. rest \in Seq(Characters)
        BY <2>3
      <4>2. (d \o rest) \o (wire' \o Pending) = d \o (rest \o (wire' \o Pending))
        <5>1. PICK w \in Seq(Characters) : w = wire' \o Pending
          BY <3>4
        <5>2. d \in Seq(Characters)
          BY <1>6
        <5>3. (d \o rest) \o w = d \o (rest \o w)
          BY ONLY <4>1, <5>2, w \in Seq(Characters), Rejoined
        <5> QED BY ONLY <5>1, <5>3
      <4> QED BY <3>2, <3>3, <3>5, <3>6, <4>2
    <3>7. CASE in.leftover = <<>> /\ rest = <<>> /\ wire = d \o wire'
      <4>1. (d \o wire') \o Pending = d \o (wire' \o Pending)
        <5>1. d \in Seq(Characters) /\ wire' \in Seq(Characters) /\ Pending \in Seq(Characters)
          BY <1>1, <1>6, <2>2
        <5> QED BY ONLY <5>1, Rejoined
      <4>2. <<>> \o (wire' \o Pending) = wire' \o Pending
        BY <3>4, Joints
      <4>3. d \o (wire' \o Pending) \in Seq(Characters)
        BY <1>6, <3>4, Joints
      <4>4. <<>> \o (d \o (wire' \o Pending)) = d \o (wire' \o Pending)
        BY <4>3, Joints
      <4> QED BY <3>2, <3>3, <3>5, <3>7, <4>1, <4>2, <4>4
    <3> QED BY <2>3, <3>6, <3>7
  <2>7. PICK at \in ReaderPoints, r \in Places, q \in Places :
          /\ Leads(ReaderPlace(at), d, r, sent) /\ Leads(r, InFlight', q, sent)
          /\ ~Cut => q = WriterPlace
    <3>1. in.phase # "failed"
      BY <1>1
    <3> QED BY <1>6, <2>6, <3>1, Underway
  <2> DEFINE p == ReaderPlace("body")
  <2>8. /\ at = "body" /\ p \in Places /\ p.at = "body" /\ p.m = Len(rcvd)
        /\ p.f = LastRead.framing /\ p.got = Len(LastRead.data) /\ p.left = in.left
        /\ Leads(p, d, r, sent)
    <3>1. at = "body"
      BY <1>1 DEF ReaderPoints
    <3>2. "body" \in Points
      BY DEF Points
    <3> QED BY <1>1, <1>2, <2>7, <3>1, <3>2, PlaceInBody
  <2> HIDE DEF p
  <2>9. d = Bytes(p.got, Len(d)) /\ r = AfterBytes(p, Len(d)) /\ Fits(r, sent)
    <3>1. p.left > 0 /\ Len(d) <= p.left
      BY <1>1, <1>6, <2>8
    <3> QED BY <1>6, <2>8, <3>1, BytesTaken, LeadsAhead
  <2>10. Len(LastRead.data) \in Nat /\ Len(e.data) = Len(LastRead.data) + Len(d)
    BY <1>3, <1>6, <1>8, ConcatProperties
  <2>11. /\ r.m = Len(rcvd) /\ r.f = LastRead.framing /\ r.got = Len(e.data) /\ r.left = left
         /\ r.at = IF Len(d) < in.left THEN "body"
                   ELSE IF LastRead.framing = Chunked THEN "dataCR" ELSE "start"
    BY <2>8, <2>9, <2>10 DEF AfterBytes, Within
  <2>12. LastRead' = e /\ Len(rcvd') = Len(rcvd) /\ rcvd' \in Seq(Read) /\ rcvd' # <<>>
    BY <1>1, <1>2, <1>8, ReadMore
  <2>13. ReadWasWritten'
    <3>1. e.data = Bytes(0, Len(e.data))
      <4>1. LastRead.data = Bytes(0, Len(LastRead.data))
        BY <1>1, <1>3 DEF ReadWasWritten
      <4>2. d = Bytes(Len(LastRead.data), Len(d))
        BY <2>8, <2>9
      <4>3. Bytes(0, Len(LastRead.data)) \o Bytes(Len(LastRead.data), Len(d))
              = Bytes(0, Len(LastRead.data) + Len(d))
        BY <1>7, <2>10, BytesJoin
      <4> QED BY <1>8, <2>10, <4>1, <4>2, <4>3
    <3>2. /\ r.got <= sent[r.m].bytes
          /\ IsEnd(r) => /\ r.got = sent[r.m].bytes
                         /\ r.f # Chunked => r.got = r.f
      BY <1>3, <2>9, <2>11 DEF Fits
    <3>3. Len(e.data) <= sent[Len(rcvd)].bytes
      BY <2>11, <3>2
    <3>4. e.ended => Len(e.data) = sent[Len(rcvd)].bytes /\ Complete(sent[Len(rcvd)])
      <4>1. SUFFICES ASSUME ended PROVE Len(e.data) = sent[Len(rcvd)].bytes /\ Complete(sent[Len(rcvd)])
        BY <1>8
      <4>2. r.at = "start" /\ r.f # Chunked
        BY <1>1, <4>1, <2>11
      <4>3. r.got = sent[r.m].bytes /\ r.got = r.f
        BY <3>2, <4>2 DEF IsEnd
      <4>4. LastRead.framing = sent[Len(rcvd)].framing
        BY <1>1, <1>3 DEF ReadWasWritten
      <4> QED BY <2>11, <4>2, <4>3, <4>4 DEF Complete
    <3>5. ~in'.bad
      BY <1>1, <2>5 DEF ReadWasWritten
    <3> HIDE DEF ended
    <3> QED BY <1>1, <1>2, <1>8, <3>1, <3>3, <3>4, <3>5, MoreWasWritten
  <2>14. left = 0 <=> ~(Len(d) < in.left)
    BY <1>1, <1>6, <1>7
  <2>15. ended <=> LastRead.framing # Chunked /\ left = 0
    BY <1>1, <1>6, <1>7
  <2> HIDE DEF ended, left
  <2>16. ReaderOK'
    <3>1. CASE ended
      <4>1. in'.phase = "idle" /\ in'.left = 0 /\ in'.pendingMessageCount = in'.asked
        BY <1>1, <1>2, <2>5, <2>15, <3>1, InIs
      <4> QED BY <1>2, <2>5, <4>1, InIs, <1>1 DEF ReaderOK
    <3>2. CASE ~ended
      <4>1. /\ in'.phase = "body" /\ in'.pendingMessageCount = in'.asked + 1
            /\ in'.buffer = <<>>
        BY <1>2, <2>5, <3>2
      <4>2. /\ LastRead'.framing = LastRead.framing /\ ~LastRead'.ended
        BY <1>8, <2>12, <3>2
      <4>3. LastRead.framing # Chunked => left > 0
        BY <2>4, <2>15, <3>2
      <4> QED BY <1>2, <2>5, <2>12, <4>1, <4>2, <4>3 DEF ReaderOK
    <3> QED BY <3>1, <3>2
  <2>17. InStep'
    <3>1. PICK to : to = IF ended THEN "start" ELSE IF left > 0 THEN "body" ELSE "dataCR"
      OBVIOUS
    <3>2. to \in ReaderPoints'
      <4>1. ended => ~in.lineBreak
        BY <1>2, <2>15
      <4>2. ~ended /\ ~(left > 0) => in.lineBreak
        BY <1>2, <2>4, <2>15
      <4> QED BY <2>5, <3>1, <4>1, <4>2 DEF ReaderPoints
    <3>3. r.at = to
      BY <2>4, <2>11, <2>14, <2>15, <3>1
    <3>4. r = [at |-> to, m |-> Len(rcvd), f |-> LastRead.framing, got |-> Len(e.data), left |-> left]
      BY <2>11, <3>3 DEF Places
    <3>5. ReaderPlace(to)' = [at |-> to, m |-> Len(rcvd), f |-> LastRead.framing,
                              got |-> Len(e.data), left |-> left]
      BY <1>8, <2>5, <2>12 DEF ReaderPlace
    <3>6. r = ReaderPlace(to)'
      BY <3>4, <3>5
    <3>7. out' = out /\ eof' = eof /\ sent' = sent
      BY <1>1
    <3> QED BY ONLY <2>7, <3>2, <3>6, <3>7, ReaderArrives
  <2> QED BY <1>1, <2>2, <2>5, <2>12, <2>13, <2>16, <2>17, ReaderSteps
<1> QED BY <1>9, <1>10

(* The first character of a text is taken by one step. *)
LEMMA OneTaken ==
  ASSUME NEW p, NEW a \in Seq(Characters), NEW u \in Seq(Characters), a # <<>>,
         NEW q, NEW log, Leads(p, a \o u, q, log)
  PROVE  /\ Head(a) \in Characters /\ Tail(a) \in Seq(Characters)
         /\ \E r \in Places : Takes(p, Head(a), r) /\ Leads(r, Tail(a) \o u, q, log)
<1> DEFINE h == <<Head(a)>>
           t == Tail(a)
<1>1. Head(a) \in Characters /\ t \in Seq(Characters) /\ a = h \o t
  BY SMTT(30)
<1>2. h \in Seq(Characters)
  BY <1>1
<1> HIDE DEF h, t
<1>3. (h \o t) \o u = h \o (t \o u)
  BY ONLY <1>1, <1>2, Rejoined
<1>4. t \o u \in Seq(Characters)
  BY <1>1, Joints
<1>5. Leads(p, h \o (t \o u), q, log)
  <2>1. a \o u = h \o (t \o u)
    BY <1>1, <1>3
  <2> QED BY <2>1
<1>6. PICK r \in Places : Leads(p, h, r, log) /\ Leads(r, t \o u, q, log)
  BY ONLY <1>2, <1>4, <1>5, LeadsHalfway
<1>7. Takes(p, Head(a), r)
  BY <1>6, OneStep DEF h
<1> QED BY <1>1, <1>6, <1>7 DEF t

(* Where the line break after data, or after the last chunk, leads to. *)
AfterBreak(p) == At(p, IF p.at = "dataCR" THEN "size" ELSE "start")

Broken(i) == [i EXCEPT !.lineBreak = FALSE, !.buffer = <<>>]

(* A line feed after what is expected before it is skipped. *)
LEMMA FeedSkipped ==
  ASSUME NEW i, i.lineBreak, NEW a \in Seq(Characters), a # <<>>
  PROVE  /\ i.buffer = <<>> /\ Head(a) = CR /\ Tail(a) = <<>> =>
              SkipLineBreak(i, a) = [i |-> [i EXCEPT !.buffer = <<CR>>], new |-> <<>>]
         /\ i.buffer = <<>> /\ Head(a) = CR /\ Tail(a) # <<>> /\ Head(Tail(a)) = LF =>
              SkipLineBreak(i, a) = [i |-> Broken(i), new |-> Tail(Tail(a))]
         /\ Head(a) = LF =>
              SkipLineBreak(i, a) = [i |-> Broken(i), new |-> Tail(a)]
<1>1. CASE Head(a) = CR
  <2>1. CR # LF
    BY DEF CR, LF
  <2> QED BY <1>1, <2>1 DEF SkipLineBreak, Broken
<1>2. CASE Head(a) = LF
  <2>1. CR # LF
    BY DEF CR, LF
  <2>2. Head(a) # CR
    BY <1>2, <2>1
  <2> QED BY <1>2, <2>1, <2>2 DEF SkipLineBreak, Broken
<1> QED BY <1>1, <1>2

(* The expected line break is skipped, or only its first half has arrived. *)
LEMMA BreakSkipped ==
  ASSUME NEW p \in Places, p.at \in {"dataCR", "endCR", "endLF"},
         NEW i, i.lineBreak, i.buffer \in {<<>>, <<CR>>},
         NEW a \in Seq(Characters), a # <<>>, NEW u \in Seq(Characters),
         NEW q, NEW log, Leads(p, i.buffer \o (a \o u), q, log)
  PROVE  \/ /\ i.buffer = <<>> /\ a = <<CR>>
            /\ SkipLineBreak(i, a) = [i |-> [i EXCEPT !.buffer = <<CR>>], new |-> <<>>]
         \/ \E new \in Seq(Characters) :
              /\ SkipLineBreak(i, a) = [i |-> Broken(i), new |-> new]
              /\ Leads(AfterBreak(p), new \o u, q, log)
<1>1. a \o u \in Seq(Characters) /\ CR # LF
  BY Joints DEF CR, LF
<1>2. CASE i.buffer = <<CR>>
  <2>1. PICK r \in Places : Leads(p, <<CR>>, r, log) /\ Leads(r, a \o u, q, log)
    <3>1. Leads(p, <<CR>> \o (a \o u), q, log)
      BY <1>2
    <3>2. <<CR>> \in Seq(Characters)
      BY CharactersAre
    <3> QED BY ONLY <1>1, <3>1, <3>2, LeadsHalfway
  <2>2. Takes(p, CR, r)
    BY <2>1, OneStep
  <2>3. /\ p.at = "dataCR" => r = At(p, "dataLF")
        /\ p.at = "endCR" => r = At(p, "endLF")
        /\ p.at # "endLF"
    BY <1>1, <2>2, Steps
  <2>4. /\ Tail(a) \in Seq(Characters)
        /\ \E t \in Places : Takes(r, Head(a), t) /\ Leads(t, Tail(a) \o u, q, log)
    BY <2>1, OneTaken
  <2>5. PICK t \in Places : Takes(r, Head(a), t) /\ Leads(t, Tail(a) \o u, q, log)
    BY <2>4
  <2>6. Head(a) = LF /\ t = AfterBreak(p)
    <3>1. CASE p.at = "dataCR"
      <4>1. r.at = "dataLF"
        BY <2>3, <3>1 DEF At, Within
      <4>2. Head(a) = LF /\ t = At(r, "size")
        BY <2>5, <4>1, Steps
      <4> QED BY <2>3, <3>1, <4>2 DEF At, Within, AfterBreak
    <3>2. CASE p.at = "endCR"
      <4>1. r.at = "endLF"
        BY <2>3, <3>2 DEF At, Within
      <4>2. Head(a) = LF /\ t = At(r, "start")
        BY <2>5, <4>1, Steps
      <4> QED BY <2>3, <3>2, <4>2 DEF At, Within, AfterBreak
    <3> QED BY <2>3, <3>1, <3>2
  <2>7. SkipLineBreak(i, a) = [i |-> Broken(i), new |-> Tail(a)]
    BY <2>6, FeedSkipped
  <2> QED BY <2>4, <2>5, <2>6, <2>7
<1>3. CASE i.buffer = <<>>
  <2>1. Leads(p, a \o u, q, log)
    <3>1. <<>> \o (a \o u) = a \o u
      BY <1>1, Joints
    <3> QED BY <1>3, <3>1
  <2>2. /\ Head(a) \in Characters /\ Tail(a) \in Seq(Characters)
        /\ \E r \in Places : Takes(p, Head(a), r) /\ Leads(r, Tail(a) \o u, q, log)
    BY <2>1, OneTaken
  <2>3. PICK r \in Places : Takes(p, Head(a), r) /\ Leads(r, Tail(a) \o u, q, log)
    BY <2>2
  <2>4. CASE p.at = "endLF"
    <3>1. Head(a) = LF /\ r = AfterBreak(p)
      BY <2>3, <2>4, Steps DEF AfterBreak
    <3>2. SkipLineBreak(i, a) = [i |-> Broken(i), new |-> Tail(a)]
      BY <3>1, FeedSkipped
    <3> QED BY <2>2, <2>3, <3>1, <3>2
  <2>5. CASE p.at # "endLF"
    <3>1. /\ Head(a) = CR
          /\ p.at = "dataCR" => r = At(p, "dataLF")
          /\ p.at = "endCR" => r = At(p, "endLF")
      BY <2>3, <2>5, Steps
    <3>2. CASE Tail(a) = <<>>
      <4>1. a = <<CR>>
        <5>1. a = <<Head(a)>> \o Tail(a) /\ <<Head(a)>> \in Seq(Characters)
          BY SMTT(30)
        <5>2. <<Head(a)>> \o <<>> = <<Head(a)>>
          BY <5>1, Joints
        <5> QED BY <3>1, <3>2, <5>1, <5>2
      <4> QED BY <1>3, <3>1, <3>2, <4>1, FeedSkipped
    <3>3. CASE Tail(a) # <<>>
      <4> DEFINE b == Tail(a)
      <4>1. b \in Seq(Characters) /\ b # <<>> /\ Leads(r, b \o u, q, log)
        BY <2>2, <2>3, <3>3
      <4> HIDE DEF b
      <4>2. /\ Tail(b) \in Seq(Characters)
            /\ \E t \in Places : Takes(r, Head(b), t) /\ Leads(t, Tail(b) \o u, q, log)
        BY <4>1, OneTaken
      <4>3. PICK t \in Places : Takes(r, Head(b), t) /\ Leads(t, Tail(b) \o u, q, log)
        BY <4>2
      <4>4. Head(b) = LF /\ t = AfterBreak(p)
        <5>1. CASE p.at = "dataCR"
          <6>1. r.at = "dataLF"
            BY <3>1, <5>1 DEF At, Within
          <6>2. Head(b) = LF /\ t = At(r, "size")
            BY <4>3, <6>1, Steps
          <6> QED BY <3>1, <5>1, <6>2 DEF At, Within, AfterBreak
        <5>2. CASE p.at = "endCR"
          <6>1. r.at = "endLF"
            BY <3>1, <5>2 DEF At, Within
          <6>2. Head(b) = LF /\ t = At(r, "start")
            BY <4>3, <6>1, Steps
          <6> QED BY <3>1, <5>2, <6>2 DEF At, Within, AfterBreak
        <5> QED BY <2>5, <5>1, <5>2
      <4>5. SkipLineBreak(i, a) = [i |-> Broken(i), new |-> Tail(b)]
        BY <1>3, <3>1, <3>3, <4>4, FeedSkipped DEF b
      <4> QED BY <4>2, <4>3, <4>4, <4>5
    <3> QED BY <3>2, <3>3
  <2> QED BY <2>4, <2>5
<1> QED BY <1>2, <1>3

(* The first of several ends. *)
FirstEnd(ends) == CHOOSE p \in ends : \A q \in ends : p <= q

(* The first end is found. *)
LEMMA FirstEndIs ==
  ASSUME NEW ends \in SUBSET Int, NEW e \in ends, \A x \in ends : e <= x
  PROVE  FirstEnd(ends) = e
<1>1. \A x \in ends : (\A y \in ends : x <= y) => x = e
  <2> SUFFICES ASSUME NEW x \in ends, \A y \in ends : x <= y
               PROVE  x = e
    OBVIOUS
  <2>1. x <= e /\ e <= x /\ x \in Int /\ e \in Int
    OBVIOUS
  <2> QED BY <2>1
<1> QED BY <1>1 DEF FirstEnd

(* The characters of a text, and of what precedes them in a run. *)
LEMMA TextTaken ==
  ASSUME NEW p, NEW s \in Seq(Characters), NEW u \in Seq(Characters),
         NEW k \in Nat, k <= Len(s), NEW q, NEW log, Leads(p, s \o u, q, log)
  PROVE  /\ SubSeq(s, 1, k) \in Seq(Characters) /\ Len(SubSeq(s, 1, k)) = k
         /\ \A i \in 1..k : SubSeq(s, 1, k)[i] = s[i]
         /\ SubSeq(s, k + 1, Len(s)) \in Seq(Characters)
         /\ \E r \in Places : /\ Leads(p, SubSeq(s, 1, k), r, log)
                              /\ Leads(r, SubSeq(s, k + 1, Len(s)) \o u, q, log)
<1> DEFINE h == SubSeq(s, 1, k)
           t == SubSeq(s, k + 1, Len(s))
<1>1. /\ h \in Seq(Characters) /\ Len(h) = k /\ \A i \in 1..k : h[i] = s[i]
      /\ t \in Seq(Characters) /\ h \o t = s
  BY Taken
<1> HIDE DEF h, t
<1>2. (h \o t) \o u = h \o (t \o u)
  <2>1. h \in Seq(Characters) /\ t \in Seq(Characters)
    BY <1>1
  <2> QED BY ONLY <2>1, u \in Seq(Characters), Rejoined
<1>3. t \o u \in Seq(Characters)
  BY <1>1, Joints
<1>4. Leads(p, h \o (t \o u), q, log)
  <2>1. s \o u = h \o (t \o u)
    BY <1>1, <1>2
  <2> QED BY <2>1
<1>5. \E r \in Places : Leads(p, h, r, log) /\ Leads(r, t \o u, q, log)
  <2>1. h \in Seq(Characters)
    BY <1>1
  <2> QED BY ONLY <2>1, <1>3, <1>4, LeadsHalfway
<1> QED BY <1>1, <1>5 DEF h, t

(* A line that ends with CR LF is read without them. *)
LEMMA LineRead ==
  ASSUME NEW h \in Seq(Characters), NEW k \in Nat, Len(h) = k + 2, h[k + 1] = CR
  PROVE  /\ Unterminated(h) \in Seq(Characters) /\ Len(Unterminated(h)) = k
         /\ \A i \in 1..k : Unterminated(h)[i] = h[i]
<1>1. Len(h) - 1 = k + 1 /\ Len(h) > 1 /\ Len(h) - 2 = k
  OBVIOUS
<1>2. Unterminated(h) = SubSeq(h, 1, k)
  BY <1>1 DEF Unterminated
<1>3. k <= Len(h)
  OBVIOUS
<1> QED BY <1>2, <1>3, Taken

(* A message's head ends at its fifth character. *)
LEMMA HeadNotYet ==
  ASSUME NEW s, NEW from \in Nat, Len(s) \in Nat, Len(s) < 5
  PROVE  Ends("message", s, from) = {}
BY DEF Ends

(* The head of a message ends with its fifth character, however much of what
   follows has arrived with it, and is read for what was written. *)
LEMMA HeadEnds ==
  ASSUME NEW p \in Places, p.at = "start", NEW s \in Seq(Characters), Len(s) >= 5,
         NEW from \in Nat, from <= 4, NEW u \in Seq(Characters),
         NEW q, NEW log, Leads(p, s \o u, q, log)
  PROVE  /\ 5 \in Ends("message", s, from) /\ FirstEnd(Ends("message", s, from)) = 5
         /\ SubSeq(s, 6, Len(s)) \in Seq(Characters)
         /\ \E f \in Framings :
              /\ Len(Unterminated(SubSeq(s, 1, 5))) = 3
              /\ Unterminated(SubSeq(s, 1, 5))[1] = <<"head", f>>
              /\ Tail(Unterminated(SubSeq(s, 1, 5))) = CRLF
              /\ Leads(Begun(p, f), SubSeq(s, 6, Len(s)) \o u, q, log)
<1> DEFINE h == SubSeq(s, 1, 5)
           ends == Ends("message", s, from)
           t == Unterminated(h)
<1>1. 5 \in Nat /\ 5 <= Len(s) /\ 5 + 1 = 6 /\ Len(s) \in Nat
  OBVIOUS
<1>2. /\ h \in Seq(Characters) /\ Len(h) = 5 /\ \A i \in 1..5 : h[i] = s[i]
      /\ SubSeq(s, 5 + 1, Len(s)) \in Seq(Characters)
      /\ \E r \in Places : Leads(p, h, r, log) /\ Leads(r, SubSeq(s, 5 + 1, Len(s)) \o u, q, log)
  <2>1. PICK k \in Nat : k = 5
    OBVIOUS
  <2>3. k <= Len(s)
    BY <1>1, <2>1
  <2>2. /\ SubSeq(s, 1, k) \in Seq(Characters) /\ Len(SubSeq(s, 1, k)) = k
        /\ \A i \in 1..k : SubSeq(s, 1, k)[i] = s[i]
        /\ SubSeq(s, k + 1, Len(s)) \in Seq(Characters)
        /\ \E r \in Places : /\ Leads(p, SubSeq(s, 1, k), r, log)
                             /\ Leads(r, SubSeq(s, k + 1, Len(s)) \o u, q, log)
    BY <2>3, TextTaken
  <2> QED BY <2>1, <2>2
<1>3. PICK r \in Places : Leads(p, h, r, log) /\ Leads(r, SubSeq(s, 6, Len(s)) \o u, q, log)
  BY <1>1, <1>2
<1> HIDE DEF h
<1>4. PICK f \in Framings :
        /\ h[1] = <<"head", f>> /\ h[2] = CR /\ h[3] = LF /\ h[4] = CR /\ h[5] = LF
        /\ r = Begun(p, f)
  BY <1>2, <1>3, HeadTaken
<1>5. s[5] = LF /\ s[4] = CR /\ s[3] = LF
  <2>1. 3 \in 1..5 /\ 4 \in 1..5 /\ 5 \in 1..5
    OBVIOUS
  <2> QED BY <1>2, <1>4, <2>1
<1>6. 5 \in ends
  <2>1. 5 \in (from + 1)..Len(s) /\ 5 - 1 = 4 /\ 5 - 2 = 3
    BY <1>1
  <2> QED BY <1>5, <2>1 DEF Ends
<1>7. ends \in SUBSET Int /\ \A x \in ends : 5 <= x
  BY <1>1 DEF Ends
<1> HIDE DEF ends
<1>8. FirstEnd(ends) = 5
  BY <1>6, <1>7, FirstEndIs
<1>9. t \in Seq(Characters) /\ Len(t) = 3 /\ \A i \in 1..3 : t[i] = h[i]
  <2>1. 3 \in Nat /\ Len(h) = 3 + 2 /\ h[3 + 1] = CR
    BY <1>2, <1>4
  <2> QED BY <1>2, <2>1, LineRead
<1> HIDE DEF t
<1>10. t[1] = <<"head", f>> /\ t[2] = CR /\ t[3] = LF
  <2>1. 1 \in 1..3 /\ 2 \in 1..3 /\ 3 \in 1..3
    OBVIOUS
  <2> QED BY <1>4, <1>9, <2>1
<1>11. Tail(t) = CRLF
  <2> DEFINE v == Tail(t)
  <2>1. t # <<>>
    <3>1. Len(t) # 0 /\ t \in Seq(Characters)
      BY <1>9
    <3> QED BY <3>1, EmptyOrNot
  <2>2. v \in Seq(Characters) /\ Len(v) = 2 /\ \A i \in 1..2 : v[i] = t[i + 1]
    <3>1. v \in Seq(Characters) /\ Len(v) = Len(t) - 1 /\ \A i \in 1..Len(v) : v[i] = t[i + 1]
      BY <1>9, <2>1, HeadTailProperties
    <3> HIDE DEF v
    <3> QED BY <1>9, <3>1
  <2> HIDE DEF v
  <2>3. v[1] = CR /\ v[2] = LF
    <3>1. 1 \in 1..2 /\ 2 \in 1..2 /\ 1 + 1 = 2 /\ 2 + 1 = 3
      OBVIOUS
    <3> QED BY <1>10, <2>2, <3>1
  <2>4. CRLF \in Seq(Characters) /\ Len(CRLF) = 2 /\ CRLF[1] = CR /\ CRLF[2] = LF
    BY CharactersAre DEF CRLF
  <2>5. \A i \in 1..Len(v) : v[i] = CRLF[i]
    <3>1. \A i \in 1..2 : i = 1 \/ i = 2
      OBVIOUS
    <3> QED BY <2>2, <2>3, <2>4, <3>1
  <2>6. v = CRLF
    BY <2>2, <2>4, <2>5, SeqEqual
  <2> QED BY <2>6 DEF v
<1> QED BY <1>1, <1>2, <1>3, <1>4, <1>6, <1>8, <1>9, <1>10, <1>11 DEF t, h, ends

(* A chunk's header ends at its third. *)
LEMMA ChunkHeaderNotYet ==
  ASSUME NEW p \in Places, p.at = "size", NEW s \in Seq(Characters), Len(s) <= 2,
         NEW from \in Nat, NEW u \in Seq(Characters),
         NEW q, NEW log, Leads(p, s \o u, q, log)
  PROVE  Ends("chunk", s, from) = {}
<1>1. PICK r \in Places : Leads(p, s, r, log)
  BY LeadsHalfway
<1>2. \A i \in 1..Len(s) : s[i] # LF
  BY <1>1, SizeNotYet
<1>3. \A i \in (from + 1)..Len(s) : i \in 1..Len(s)
  OBVIOUS
<1> QED BY <1>2, <1>3 DEF Ends

(* A chunk header ends with its third character and gives the size that was
   written. *)
LEMMA ChunkHeaderEnds ==
  ASSUME NEW p \in Places, p.at = "size", NEW s \in Seq(Characters), Len(s) >= 3,
         NEW from \in Nat, from <= 2, NEW u \in Seq(Characters),
         NEW q, NEW log, Leads(p, s \o u, q, log)
  PROVE  /\ 3 \in Ends("chunk", s, from) /\ FirstEnd(Ends("chunk", s, from)) = 3
         /\ SubSeq(s, 4, Len(s)) \in Seq(Characters)
         /\ \E n \in Nat :
              /\ Len(Unterminated(SubSeq(s, 1, 3))) = 1
              /\ Unterminated(SubSeq(s, 1, 3))[1] = <<"size", n>>
              /\ Leads(Within(p, AfterSize(n), p.got, n), SubSeq(s, 4, Len(s)) \o u, q, log)
<1> DEFINE h == SubSeq(s, 1, 3)
           ends == Ends("chunk", s, from)
           t == Unterminated(h)
<1>1. 3 \in Nat /\ 3 <= Len(s) /\ 3 + 1 = 4 /\ Len(s) \in Nat
  OBVIOUS
<1>2. /\ h \in Seq(Characters) /\ Len(h) = 3 /\ \A i \in 1..3 : h[i] = s[i]
      /\ SubSeq(s, 3 + 1, Len(s)) \in Seq(Characters)
      /\ \E r \in Places : Leads(p, h, r, log) /\ Leads(r, SubSeq(s, 3 + 1, Len(s)) \o u, q, log)
  <2>1. PICK k \in Nat : k = 3
    OBVIOUS
  <2>3. k <= Len(s)
    BY <1>1, <2>1
  <2>2. /\ SubSeq(s, 1, k) \in Seq(Characters) /\ Len(SubSeq(s, 1, k)) = k
        /\ \A i \in 1..k : SubSeq(s, 1, k)[i] = s[i]
        /\ SubSeq(s, k + 1, Len(s)) \in Seq(Characters)
        /\ \E r \in Places : /\ Leads(p, SubSeq(s, 1, k), r, log)
                             /\ Leads(r, SubSeq(s, k + 1, Len(s)) \o u, q, log)
    BY <2>3, TextTaken
  <2> QED BY <2>1, <2>2
<1>3. PICK r \in Places : Leads(p, h, r, log) /\ Leads(r, SubSeq(s, 4, Len(s)) \o u, q, log)
  BY <1>1, <1>2
<1> HIDE DEF h
<1>4. PICK n \in Nat : /\ h[1] = <<"size", n>> /\ h[2] = CR /\ h[3] = LF
                       /\ r = Within(p, AfterSize(n), p.got, n)
  BY <1>2, <1>3, SizeTaken
<1>5. s[3] = LF /\ s[2] # LF /\ s[1] # LF
  <2>1. 1 \in 1..3 /\ 2 \in 1..3 /\ 3 \in 1..3
    OBVIOUS
  <2>2. CR # LF /\ <<"size", n>> # LF
    BY DEF CR, LF
  <2> QED BY <1>2, <1>4, <2>1, <2>2
<1>6. 3 \in ends
  <2>1. 3 \in (from + 1)..Len(s)
    BY <1>1
  <2> QED BY <1>5, <2>1 DEF Ends
<1>7. ends \in SUBSET Int /\ \A x \in ends : 3 <= x
  <2>1. ends \in SUBSET Int /\ \A x \in ends : s[x] = LF /\ x \in Int /\ x >= 1
    BY <1>1 DEF Ends
  <2> HIDE DEF ends
  <2>2. \A x \in Int : x >= 1 => x = 1 \/ x = 2 \/ 3 <= x
    OBVIOUS
  <2> QED BY <1>5, <2>1, <2>2
<1> HIDE DEF ends
<1>8. FirstEnd(ends) = 3
  BY <1>6, <1>7, FirstEndIs
<1>9. Len(t) = 1 /\ \A i \in 1..1 : t[i] = h[i]
  <2>1. 1 \in Nat /\ Len(h) = 1 + 2 /\ h[1 + 1] = CR
    BY <1>2, <1>4
  <2> QED BY <1>2, <2>1, LineRead
<1> HIDE DEF t
<1>10. t[1] = <<"size", n>>
  <2>1. 1 \in 1..1
    OBVIOUS
  <2> QED BY <1>4, <1>9, <2>1
<1> QED BY <1>1, <1>2, <1>3, <1>4, <1>6, <1>8, <1>9, <1>10 DEF t, h, ends

(* The reader with other characters at hand. *)
Opened(b, c, rest) == [in EXCEPT !.leftover = rest, !.lineBreak = b, !.buffer = c]

(* The fields of the reader with other characters at hand. *)
LEMMA OpenedIs ==
  ASSUME FramingTypeOK, NEW b \in BOOLEAN, NEW c \in Seq(Characters), NEW rest \in Seq(Characters)
  PROVE  /\ Opened(b, c, rest) \in Ins
         /\ Opened(b, c, rest).leftover = rest /\ (Opened(b, c, rest).lineBreak <=> b)
         /\ Opened(b, c, rest).buffer = c
         /\ Opened(b, c, rest).phase = in.phase /\ Opened(b, c, rest).asked = in.asked
         /\ Opened(b, c, rest).pendingMessageCount = in.pendingMessageCount
         /\ Opened(b, c, rest).left = in.left /\ Opened(b, c, rest).busy = in.busy
         /\ Opened(b, c, rest).clean = in.clean /\ Opened(b, c, rest).broken = in.broken
         /\ Opened(b, c, rest).bad = in.bad
<1> DEFINE o == [in EXCEPT !.leftover = rest, !.lineBreak = b, !.buffer = c]
<1>1. in \in Ins
  BY InIs
<1>2. o \in Ins
  BY <1>1 DEF Ins
<1>3. /\ o.leftover = rest /\ (o.lineBreak <=> b) /\ o.buffer = c
      /\ o.phase = in.phase /\ o.asked = in.asked
      /\ o.pendingMessageCount = in.pendingMessageCount
      /\ o.left = in.left /\ o.busy = in.busy
      /\ o.clean = in.clean /\ o.broken = in.broken /\ o.bad = in.bad
  BY <1>1 DEF Ins
<1>4. Opened(b, c, rest) = o
  BY DEF Opened
<1> HIDE DEF o
<1> QED BY <1>2, <1>3, <1>4

(* The ways readHeader() changes the reader on its way to a header. *)
LEMMA OpenedTwice ==
  ASSUME FramingTypeOK, NEW b \in BOOLEAN, NEW c \in Seq(Characters), NEW d \in Seq(Characters),
         NEW rest \in Seq(Characters)
  PROVE  /\ [in EXCEPT !.leftover = <<>>] = Opened(in.lineBreak, in.buffer, <<>>)
         /\ Broken([in EXCEPT !.leftover = <<>>]) = Opened(FALSE, <<>>, <<>>)
         /\ [[in EXCEPT !.leftover = <<>>] EXCEPT !.buffer = c] = Opened(in.lineBreak, c, <<>>)
         /\ [Opened(b, c, <<>>) EXCEPT !.buffer = d] = Opened(b, d, <<>>)
         /\ [Opened(b, c, <<>>) EXCEPT !.buffer = <<>>, !.leftover = rest] = Opened(b, <<>>, rest)
         /\ [Opened(b, c, rest) EXCEPT !.lineBreak = TRUE] = Opened(TRUE, c, rest)
<1>1. in \in Ins /\ <<>> \in Seq(Characters)
  BY InIs, EmptySeq
<1>2. \A x \in Ins : x = [x EXCEPT !.buffer = x.buffer] /\ x = [x EXCEPT !.lineBreak = x.lineBreak]
  BY DEF Ins
<1>3. [in EXCEPT !.leftover = <<>>] = Opened(in.lineBreak, in.buffer, <<>>)
  BY <1>1 DEF Opened, Ins
<1>4. Broken([in EXCEPT !.leftover = <<>>]) = Opened(FALSE, <<>>, <<>>)
  BY <1>1 DEF Opened, Ins, Broken
<1>5. [[in EXCEPT !.leftover = <<>>] EXCEPT !.buffer = c] = Opened(in.lineBreak, c, <<>>)
  BY <1>1 DEF Opened, Ins
<1>6. [Opened(b, c, <<>>) EXCEPT !.buffer = d] = Opened(b, d, <<>>)
  BY <1>1 DEF Opened, Ins
<1>7. [Opened(b, c, <<>>) EXCEPT !.buffer = <<>>, !.leftover = rest] = Opened(b, <<>>, rest)
  BY <1>1 DEF Opened, Ins
<1>8. [Opened(b, c, rest) EXCEPT !.lineBreak = TRUE] = Opened(TRUE, c, rest)
  BY <1>1 DEF Opened, Ins
<1> QED BY <1>3, <1>4, <1>5, <1>6, <1>7, <1>8

(* Where a header is read from. *)
HeaderPoint == IF ReadingHead THEN "start" ELSE "size"
HeaderRest == IF ReadingHead THEN 4 ELSE 2

(* Where a reader is that waits for a header. *)
LEMMA AtHeader ==
  ASSUME FramingInv, ReadingHead \/ ReadingChunkHeader
  PROVE  /\ FramingTypeOK /\ in.phase \notin {"idle", "failed"} /\ in.left = 0
         /\ NoHeader(HeaderRest)
         /\ ReaderPoints = IF ~in.lineBreak THEN {HeaderPoint}
                           ELSE IF ReadingHead THEN {"endCR", "endLF"} ELSE {"dataCR"}
         /\ ReadingHead <=> in.phase = "head"
         /\ ReadingHead => ~in.busy
         /\ ~ReadingHead => /\ in.phase = "body" /\ in.busy /\ ~in.clean /\ rcvd # <<>>
                            /\ ~LastRead.ended /\ LastRead.framing = Chunked
         /\ in.pendingMessageCount = in.asked + 1
<1>1. FramingTypeOK /\ ReaderOK
  BY DEF FramingInv
<1>2. CASE ReadingHead
  BY <1>1, <1>2 DEF ReadingHead, ReaderOK, ReaderPoints, HeaderPoint, HeaderRest
<1>3. CASE ~ReadingHead
  <2>1. in.phase = "body" /\ in.busy /\ in.left = 0 /\ Last(rcvd).framing = Chunked
    BY <1>3 DEF ReadingChunkHeader
  <2>2. rcvd # <<>> /\ ~LastRead.ended /\ ~in.clean /\ NoHeader(2)
    BY <1>1, <2>1 DEF ReaderOK
  <2>3. LastRead.framing = Chunked
    BY <2>1, <2>2, LastIs
  <2>4. HeaderRest = 2 /\ HeaderPoint = "size"
    BY <1>3 DEF HeaderRest, HeaderPoint
  <2> QED BY <1>1, <1>3, <2>1, <2>2, <2>3, <2>4 DEF ReaderOK, ReaderPoints, ReadingHead
<1> QED BY <1>2, <1>3

(* What a read of a header starts from: the expected line break has been
   skipped, or its second half is still to come. *)
LEMMA HeaderBegins ==
  ASSUME FramingInv, ReadingHead \/ ReadingChunkHeader, NEW n \in Nat, n > 0, Arrives(n)
  PROVE  \/ /\ in.lineBreak /\ in.buffer = <<>> /\ Arrived(n) = <<CR>>
            /\ SkipLineBreak([in EXCEPT !.leftover = <<>>], Arrived(n))
                 = [i |-> Opened(in.lineBreak, <<CR>>, <<>>), new |-> <<>>]
         \/ \E c, new \in Seq(Characters), q \in Places :
              /\ Len(c) <= HeaderRest
              /\ SkipLineBreak([in EXCEPT !.leftover = <<>>], Arrived(n))
                   = [i |-> Opened(FALSE, c, <<>>), new |-> new]
              /\ Leads(ReaderPlace(HeaderPoint), (c \o new) \o (WireAfter(n) \o Pending), q, sent)
              /\ ~Cut => q = WriterPlace
<1> DEFINE i == [in EXCEPT !.leftover = <<>>]
           a == Arrived(n)
           u == WireAfter(n) \o Pending
<1>1. /\ FramingTypeOK /\ in.phase \notin {"idle", "failed"} /\ NoHeader(HeaderRest)
      /\ ReaderPoints = IF ~in.lineBreak THEN {HeaderPoint}
                        ELSE IF ReadingHead THEN {"endCR", "endLF"} ELSE {"dataCR"}
  BY AtHeader
<1>2. /\ a \in Seq(Characters) /\ a # <<>> /\ WireAfter(n) \in Seq(Characters)
      /\ InFlight = (in.buffer \o a) \o u
  BY <1>1, ArrivalIs
<1>3. in.buffer \in Seq(Characters) /\ u \in Seq(Characters) /\ in.lineBreak \in BOOLEAN
  BY <1>1, <1>2, FlightIs, InIs, Joints
<1>4. PICK at \in ReaderPoints, q \in Places :
        Leads(ReaderPlace(at), InFlight, q, sent) /\ (~Cut => q = WriterPlace)
  BY <1>1 DEF FramingInv, InStep
<1>5. /\ i.lineBreak = in.lineBreak /\ i.buffer = in.buffer
      /\ i = Opened(in.lineBreak, in.buffer, <<>>)
      /\ Broken(i) = Opened(FALSE, <<>>, <<>>)
      /\ [i EXCEPT !.buffer = <<CR>>] = Opened(in.lineBreak, <<CR>>, <<>>)
  <2>1. i.lineBreak = in.lineBreak /\ i.buffer = in.buffer
    BY <1>1, InIs DEF Ins
  <2>2. <<CR>> \in Seq(Characters) /\ <<>> \in Seq(Characters)
    BY CharactersAre, EmptySeq
  <2> QED BY <1>1, <1>3, <2>1, <2>2, OpenedTwice
<1> HIDE DEF i, a, u
<1>6. CASE ~in.lineBreak
  <2>1. at = HeaderPoint /\ Len(in.buffer) <= HeaderRest
    BY <1>1, <1>4, <1>6 DEF NoHeader
  <2>2. SkipLineBreak(i, a) = [i |-> i, new |-> a]
    BY <1>5, <1>6 DEF SkipLineBreak
  <2>3. i = Opened(FALSE, in.buffer, <<>>)
    <3>1. in.lineBreak = FALSE
      BY <1>3, <1>6
    <3> QED BY <1>5, <3>1
  <2>4. Leads(ReaderPlace(HeaderPoint), (in.buffer \o a) \o u, q, sent)
    BY <1>2, <1>4, <2>1
  <2> QED BY <1>2, <1>3, <1>4, <2>1, <2>2, <2>3, <2>4 DEF i, a, u
<1>7. CASE in.lineBreak
  <2> DEFINE p == ReaderPlace(at)
  <2>1. p \in Places
    BY <1>1, <1>4, LeadsAhead, FlightIs
  <2>2. p.at = at /\ at \in {"dataCR", "endCR", "endLF"}
        /\ (at = "dataCR" <=> ~ReadingHead)
    BY <1>1, <1>4, <1>7 DEF ReaderPlace
  <2>3. AfterBreak(p) = ReaderPlace(HeaderPoint)
    BY <2>2 DEF AfterBreak, HeaderPoint, At, Within, ReaderPlace
  <2>4. in.buffer \in {<<>>, <<CR>>}
    BY <1>1, <1>7 DEF NoHeader
  <2> HIDE DEF p
  <2>5. Leads(p, i.buffer \o (a \o u), q, sent)
    <3>1. (in.buffer \o a) \o u = in.buffer \o (a \o u)
      <4>1. a \in Seq(Characters)
        BY <1>2
      <4> QED BY ONLY <1>3, <4>1, Rejoined
    <3>2. Leads(p, (in.buffer \o a) \o u, q, sent)
      BY <1>2, <1>4 DEF p
    <3> QED BY <1>5, <3>1, <3>2
  <2>6. \/ /\ i.buffer = <<>> /\ a = <<CR>>
           /\ SkipLineBreak(i, a) = [i |-> [i EXCEPT !.buffer = <<CR>>], new |-> <<>>]
        \/ \E new \in Seq(Characters) :
             /\ SkipLineBreak(i, a) = [i |-> Broken(i), new |-> new]
             /\ Leads(AfterBreak(p), new \o u, q, sent)
    <3>1. i.lineBreak /\ i.buffer \in {<<>>, <<CR>>} /\ p.at \in {"dataCR", "endCR", "endLF"}
      BY <1>5, <1>7, <2>2, <2>4 DEF p
    <3>2. a \in Seq(Characters) /\ a # <<>>
      BY <1>2
    <3> QED BY ONLY <1>3, <2>1, <2>5, <3>1, <3>2, BreakSkipped
  <2>7. CASE /\ i.buffer = <<>> /\ a = <<CR>>
             /\ SkipLineBreak(i, a) = [i |-> [i EXCEPT !.buffer = <<CR>>], new |-> <<>>]
    BY <1>5, <1>7, <2>7 DEF i, a
  <2>8. ASSUME NEW new \in Seq(Characters),
               SkipLineBreak(i, a) = [i |-> Broken(i), new |-> new],
               Leads(AfterBreak(p), new \o u, q, sent)
        PROVE  \E c, x \in Seq(Characters), r \in Places :
                 /\ Len(c) <= HeaderRest
                 /\ SkipLineBreak(i, a) = [i |-> Opened(FALSE, c, <<>>), new |-> x]
                 /\ Leads(ReaderPlace(HeaderPoint), (c \o x) \o u, r, sent)
                 /\ ~Cut => r = WriterPlace
    <3>1. <<>> \in Seq(Characters) /\ Len(<<>>) <= HeaderRest
      BY EmptySeq DEF HeaderRest
    <3>2. SkipLineBreak(i, a) = [i |-> Opened(FALSE, <<>>, <<>>), new |-> new]
      BY <1>5, <2>8
    <3>3. Leads(ReaderPlace(HeaderPoint), (<<>> \o new) \o u, q, sent)
      <4>1. <<>> \o new = new
        BY Joints
      <4> QED BY <2>3, <2>8, <4>1
    <3> QED BY <1>4, <3>1, <3>2, <3>3
  <2> QED BY <2>6, <2>7, <2>8 DEF i, a, u
<1> QED BY <1>6, <1>7

(* No header has ended yet. *)
LEMMA HeaderWaits ==
  ASSUME FramingInv, ReadingHead \/ ReadingChunkHeader,
         out' = out, eof' = eof, sent' = sent, rcvd' = rcvd, wire' \in Seq(Characters),
         NEW b \in BOOLEAN, NEW s \in Seq(Characters), in' = Opened(b, s, <<>>),
         b => s \in {<<>>, <<CR>>}, ~b => Len(s) <= HeaderRest, InStep'
  PROVE  FramingInv'
<1>1. /\ FramingTypeOK /\ in.left = 0 /\ in.pendingMessageCount = in.asked + 1
      /\ in.phase \notin {"idle", "failed"}
      /\ ReadingHead <=> in.phase = "head"
      /\ ReadingHead => ~in.busy
      /\ ~ReadingHead => /\ in.phase = "body" /\ in.busy /\ ~in.clean /\ rcvd # <<>>
                         /\ ~LastRead.ended /\ LastRead.framing = Chunked
  BY AtHeader
<1>2. /\ in' \in Ins /\ in'.buffer = s /\ (in'.lineBreak <=> b)
      /\ in'.phase = in.phase /\ in'.asked = in.asked
      /\ in'.pendingMessageCount = in.pendingMessageCount
      /\ in'.left = in.left /\ in'.busy = in.busy /\ in'.clean = in.clean /\ in'.bad = in.bad
  <2>1. PICK z \in Seq(Characters) : z = <<>>
    BY EmptySeq
  <2>2. FramingTypeOK
    BY <1>1
  <2>3. /\ Opened(b, s, z) \in Ins /\ (Opened(b, s, z).lineBreak <=> b)
        /\ Opened(b, s, z).buffer = s
        /\ Opened(b, s, z).phase = in.phase /\ Opened(b, s, z).asked = in.asked
        /\ Opened(b, s, z).pendingMessageCount = in.pendingMessageCount
        /\ Opened(b, s, z).left = in.left /\ Opened(b, s, z).busy = in.busy
        /\ Opened(b, s, z).clean = in.clean /\ Opened(b, s, z).bad = in.bad
    BY <2>2, OpenedIs
  <2>4. in' = Opened(b, s, z)
    BY <2>1
  <2> QED BY ONLY <2>3, <2>4
<1>3. LastRead' = LastRead
  BY DEF LastRead
<1>4. ReaderOK'
  <2>1. CASE ReadingHead
    BY <1>1, <1>2, <2>1 DEF ReaderOK, NoHeader, HeaderRest
  <2>2. CASE ~ReadingHead
    BY <1>1, <1>2, <1>3, <2>2 DEF ReaderOK, NoHeader, HeaderRest
  <2> QED BY <2>1, <2>2
<1>5. ReadWasWritten'
  BY <1>2, SameRead
<1> QED BY <1>1, <1>2, <1>4, <1>5, InIs, ReaderSteps

(* A message begins to be read. *)
LEMMA HeadIsRead ==
  ASSUME FramingInv, ReadingHead, out' = out, eof' = eof, sent' = sent,
         wire' \in Seq(Characters), NEW f \in Framings, NEW rest \in Seq(Characters),
         in' = StartBody(Opened(FALSE, <<>>, rest), f),
         NEW e \in Read, e.framing = f, e.data = <<>>, e.ended <=> f = 0,
         rcvd' = Append(rcvd, e),
         NEW q \in Places, ~Cut => q = WriterPlace,
         Leads(Begun(ReaderPlace("start"), f), rest \o (wire' \o Pending), q, sent)
  PROVE  FramingInv'
<1>1. /\ FramingTypeOK /\ in.left = 0 /\ in.phase = "head" /\ ~in.busy
      /\ in.pendingMessageCount = in.asked + 1 /\ in \in Ins /\ ReadWasWritten
      /\ in.asked \in Nat /\ in.pendingMessageCount \in Int /\ Pending \in Seq(Characters)
      /\ rcvd \in Seq(Read) /\ Len(rcvd) \in Nat /\ sent \in Seq(Messages)
  BY AtHeader, InIs, FlightIs DEF FramingInv
<1>2. f \in Int /\ (f = Chunked \/ f \in Nat) /\ 0 # Chunked
  BY FramingsAre DEF Chunked
<1> DEFINE o == Opened(FALSE, <<>>, rest)
           left == IF f = Chunked THEN 0 ELSE f
           r == Begun(ReaderPlace("start"), f)
<1>3. /\ o \in Ins /\ o.leftover = rest /\ ~o.lineBreak /\ o.buffer = <<>>
      /\ o.phase = in.phase /\ o.asked = in.asked
      /\ o.pendingMessageCount = in.pendingMessageCount /\ o.bad = in.bad
  <2>1. PICK z \in Seq(Characters), b \in BOOLEAN : z = <<>> /\ ~b
    BY EmptySeq
  <2>2. FramingTypeOK
    BY <1>1
  <2>3. /\ Opened(b, z, rest) \in Ins /\ Opened(b, z, rest).leftover = rest
        /\ (Opened(b, z, rest).lineBreak <=> b) /\ Opened(b, z, rest).buffer = z
        /\ Opened(b, z, rest).phase = in.phase /\ Opened(b, z, rest).asked = in.asked
        /\ Opened(b, z, rest).pendingMessageCount = in.pendingMessageCount
        /\ Opened(b, z, rest).bad = in.bad
    BY <2>2, OpenedIs
  <2>4. o = Opened(b, z, rest)
    <3>1. b = FALSE
      BY <2>1
    <3> QED BY <2>1, <3>1 DEF o
  <2> QED BY ONLY <2>1, <2>3, <2>4
<1>4. left \in Nat
  BY <1>2
<1> HIDE DEF o
<1>5. /\ in' \in Ins /\ in'.phase = (IF f = 0 THEN "idle" ELSE "body")
      /\ in'.asked = in.asked /\ in'.leftover = rest /\ ~in'.lineBreak
      /\ in'.buffer = <<>> /\ in'.left = left /\ ~in'.busy /\ in'.clean
      /\ in'.bad = in.bad
      /\ in'.pendingMessageCount = in.pendingMessageCount - (IF f = 0 THEN 1 ELSE 0)
  <2> DEFINE j == [o EXCEPT !.phase = "body", !.left = left, !.busy = FALSE, !.clean = TRUE]
  <2>1. in' = IF f = 0 THEN FinishRead(j) ELSE j
    BY DEF StartBody, o
  <2>2. /\ j \in Ins /\ j.phase = "body" /\ j.asked = in.asked /\ j.leftover = rest
        /\ ~j.lineBreak /\ j.buffer = <<>> /\ j.left = left /\ ~j.busy
        /\ j.clean /\ j.bad = in.bad /\ j.pendingMessageCount = in.pendingMessageCount
    <3> HIDE DEF left
    <3> QED BY <1>1, <1>3, <1>4 DEF Ins
  <2> HIDE DEF j, left
  <2>3. CASE f = 0
    <3> DEFINE c == j.pendingMessageCount - 1
    <3>1. c \in Int
      BY <1>1, <2>2
    <3>2. in' = [j EXCEPT !.phase = "idle", !.pendingMessageCount = c, !.busy = FALSE]
      BY <2>1, <2>3 DEF FinishRead
    <3>3. c = in.pendingMessageCount - (IF f = 0 THEN 1 ELSE 0)
      BY <2>2, <2>3
    <3> HIDE DEF c
    <3> QED BY <2>2, <2>3, <3>1, <3>2, <3>3 DEF Ins
  <2>4. CASE f # 0
    BY ONLY <1>1, <2>1, <2>2, <2>4
  <2> QED BY <2>3, <2>4
<1>7. /\ rcvd' \in Seq(Read) /\ Len(rcvd') = Len(rcvd) + 1 /\ rcvd'[Len(rcvd) + 1] = e
      /\ \A m \in 1..Len(rcvd) : rcvd'[m] = rcvd[m]
  BY <1>1, AppendProperties
<1>8. rcvd' # <<>> /\ LastRead' = e
  <2>1. Len(rcvd') # 0
    BY <1>1, <1>7
  <2>2. rcvd' # <<>>
    BY <2>1
  <2> QED BY <1>7, <2>2 DEF LastRead
<1>9. /\ r.at = AfterHead(f) /\ r.m = Len(rcvd) + 1 /\ r.f = f /\ r.got = 0 /\ r.left = left
      /\ r = [at |-> AfterHead(f), m |-> Len(rcvd) + 1, f |-> f, got |-> 0, left |-> left]
  BY DEF Begun, ReaderPlace
<1>10. r \in Places /\ Fits(r, sent)
  <2>1. rest \o (wire' \o Pending) \in Seq(Characters)
    BY <1>1, Joints
  <2> QED BY <2>1, LeadsAhead
<1> HIDE DEF r
<1>11. /\ Len(rcvd) + 1 <= Len(sent) /\ sent[Len(rcvd) + 1].framing = f
       /\ sent[Len(rcvd) + 1].bytes \in Nat
       /\ f = 0 => sent[Len(rcvd) + 1].bytes = 0
  <2>1. /\ r.m <= Len(sent) /\ r.m > 0 /\ r.f = sent[r.m].framing
    BY <1>1, <1>9, <1>10 DEF Fits
  <2>2. f = 0 => r.got = sent[r.m].bytes
    <3>1. f = 0 => IsEnd(r)
      BY <1>2, <1>9 DEF IsEnd, AfterHead
    <3> QED BY <1>10, <2>1, <3>1 DEF Fits
  <2>3. Len(rcvd) + 1 \in 1..Len(sent)
    BY <1>1, <1>9, <2>1
  <2>4. sent[Len(rcvd) + 1].bytes \in Nat
    BY <1>1, <2>3, LogHas
  <2> QED BY <1>9, <2>1, <2>2, <2>4
<1>12. ReadWasWritten'
  <2>1. ASSUME NEW m \in 1..Len(rcvd')
        PROVE  /\ rcvd'[m].framing = sent'[m].framing
               /\ rcvd'[m].data = Bytes(0, Len(rcvd'[m].data))
               /\ Len(rcvd'[m].data) <= sent'[m].bytes
               /\ rcvd'[m].ended => Len(rcvd'[m].data) = sent'[m].bytes /\ Complete(sent'[m])
    <3>1. CASE m = Len(rcvd) + 1
      <4>1. Len(<<>>) = 0 /\ Bytes(0, 0) = <<>>
        <5>1. Bytes(0, 0) \in Seq(Characters) /\ Len(Bytes(0, 0)) = 0
          BY BytesAre
        <5> QED BY <5>1, EmptyOrNot
      <4>2. f = 0 => Complete(sent[Len(rcvd) + 1])
        BY <1>2, <1>11 DEF Complete
      <4> QED BY <1>7, <1>11, <3>1, <4>1, <4>2
    <3>2. CASE m # Len(rcvd) + 1
      <4>1. m \in 1..Len(rcvd)
        BY <1>1, <1>7, <3>2
      <4>2. rcvd'[m] = rcvd[m]
        BY <1>7, <4>1
      <4>3. /\ rcvd[m].framing = sent[m].framing
            /\ rcvd[m].data = Bytes(0, Len(rcvd[m].data))
            /\ Len(rcvd[m].data) <= sent[m].bytes
            /\ rcvd[m].ended => Len(rcvd[m].data) = sent[m].bytes /\ Complete(sent[m])
        BY <1>1, <4>1 DEF ReadWasWritten
      <4> QED BY ONLY <4>2, <4>3, sent' = sent
    <3> QED BY <3>1, <3>2
  <2>2. Len(rcvd') <= Len(sent') /\ ~in'.bad
    BY <1>1, <1>5, <1>7, <1>11 DEF ReadWasWritten
  <2> QED BY <2>1, <2>2 DEF ReadWasWritten
<1>13. ReaderOK'
  <2>1. CASE f = 0
    <3>1. in'.phase = "idle" /\ in'.left = 0 /\ in'.pendingMessageCount = in'.asked
      BY ONLY <1>1, <1>2, <1>5, <2>1
    <3> QED BY ONLY <1>1, <1>5, <3>1 DEF ReaderOK
  <2>2. CASE f # 0
    <3>1. /\ in'.phase = "body" /\ in'.pendingMessageCount = in'.asked + 1
      BY ONLY <1>1, <1>5, <2>2
    <3>2. LastRead'.framing = f /\ ~LastRead'.ended
      BY <1>8, <2>2
    <3>3. f # Chunked => in'.left > 0
      <4>1. in'.left = left
        BY <1>5
      <4> QED BY ONLY <1>2, <2>2, <4>1
    <3>4. f = Chunked => ~(in'.left > 0)
      BY ONLY <1>2, <1>5, <2>2
    <3>5. ~in'.busy /\ in'.buffer = <<>> /\ ~in'.lineBreak /\ rcvd' # <<>>
      BY ONLY <1>5, <1>8
    <3>6. in'.phase # "idle" /\ in'.phase # "head"
      BY ONLY <3>1
    <3> QED BY ONLY <3>1, <3>2, <3>3, <3>4, <3>5, <3>6 DEF ReaderOK
  <2> QED BY <2>1, <2>2
<1>14. InFlight' = rest \o (wire' \o Pending)
  <2>1. Pending' = Pending
    BY WriterStays
  <2>2. in'.buffer \o in'.leftover = rest
    BY <1>5, Joints
  <2> QED BY ONLY <2>1, <2>2 DEF InFlight
<1>15. InStep'
  <2>1. PICK to : to = AfterHead(f)
    OBVIOUS
  <2>2. to \in ReaderPoints'
    BY ONLY <1>2, <1>5, <2>1 DEF ReaderPoints, AfterHead
  <2>3. ReaderPlace(to)' = [at |-> to, m |-> Len(rcvd) + 1, f |-> f, got |-> 0, left |-> left]
    <3>1. Len(<<>>) = 0
      OBVIOUS
    <3> QED BY <1>5, <1>7, <1>8, <3>1 DEF ReaderPlace
  <2>4. r = ReaderPlace(to)'
    BY <1>9, <2>1, <2>3
  <2>5. Leads(r, InFlight', q, sent)
    BY <1>14 DEF r
  <2> QED BY <2>2, <2>4, <2>5, ReaderArrives
<1> QED BY <1>1, <1>5, <1>7, <1>12, <1>13, <1>15, ReaderSteps

(* The reader with a line break to come. *)
LEMMA LineBreakToCome ==
  ASSUME FramingTypeOK, NEW rest \in Seq(Characters)
  PROVE  LET o == Opened(TRUE, <<>>, rest)
         IN  /\ o \in Ins /\ o.leftover = rest /\ o.lineBreak /\ o.buffer = <<>>
             /\ o.phase = in.phase /\ o.asked = in.asked /\ o.left = in.left
             /\ o.pendingMessageCount = in.pendingMessageCount
             /\ o.busy = in.busy /\ o.clean = in.clean /\ o.bad = in.bad
<1>1. PICK z \in Seq(Characters), b \in BOOLEAN : z = <<>> /\ b
  BY EmptySeq
<1>2. /\ Opened(b, z, rest) \in Ins /\ Opened(b, z, rest).leftover = rest
      /\ (Opened(b, z, rest).lineBreak <=> b) /\ Opened(b, z, rest).buffer = z
      /\ Opened(b, z, rest).phase = in.phase /\ Opened(b, z, rest).asked = in.asked
      /\ Opened(b, z, rest).left = in.left
      /\ Opened(b, z, rest).pendingMessageCount = in.pendingMessageCount
      /\ Opened(b, z, rest).busy = in.busy /\ Opened(b, z, rest).clean = in.clean
      /\ Opened(b, z, rest).bad = in.bad
  BY OpenedIs
<1>3. Opened(TRUE, <<>>, rest) = Opened(b, z, rest)
  <2>1. b = TRUE
    BY <1>1
  <2> QED BY <1>1, <2>1
<1> QED BY <1>1, <1>2, <1>3

(* The header of a chunk was read. *)
LEMMA ChunkIsRead ==
  ASSUME FramingInv, ReadingChunkHeader, out' = out, eof' = eof, sent' = sent, rcvd' = rcvd,
         wire' \in Seq(Characters), NEW n \in Nat, n # 0, NEW rest \in Seq(Characters),
         in' = [Opened(TRUE, <<>>, rest) EXCEPT !.left = n],
         NEW q \in Places, ~Cut => q = WriterPlace,
         Leads(Within(ReaderPlace("size"), "body", ReaderPlace("size").got, n),
               rest \o (wire' \o Pending), q, sent)
  PROVE  FramingInv'
<1>1. /\ FramingTypeOK /\ in.phase = "body" /\ in.busy /\ ~in.clean /\ rcvd # <<>>
      /\ ~LastRead.ended /\ LastRead.framing = Chunked /\ in.left = 0
      /\ in.pendingMessageCount = in.asked + 1
  <2>1. ~ReadingHead
    BY DEF ReadingChunkHeader, ReadingHead
  <2> QED BY <2>1, AtHeader
<1> DEFINE o == Opened(TRUE, <<>>, rest)
           r == Within(ReaderPlace("size"), "body", ReaderPlace("size").got, n)
<1>2. /\ o \in Ins /\ o.leftover = rest /\ o.lineBreak /\ o.buffer = <<>>
      /\ o.phase = in.phase /\ o.asked = in.asked
      /\ o.pendingMessageCount = in.pendingMessageCount
      /\ o.busy = in.busy /\ o.clean = in.clean /\ o.bad = in.bad
  BY <1>1, LineBreakToCome
<1> HIDE DEF o
<1>3. /\ in' \in Ins /\ in'.leftover = rest /\ in'.lineBreak /\ in'.buffer = <<>>
      /\ in'.phase = "body" /\ in'.asked = in.asked
      /\ in'.pendingMessageCount = in.pendingMessageCount
      /\ in'.busy /\ ~in'.clean /\ in'.bad = in.bad /\ in'.left = n
  <2>1. in' = [o EXCEPT !.left = n]
    BY DEF o
  <2> QED BY ONLY n \in Nat, <1>1, <1>2, <2>1 DEF Ins
<1>4. LastRead' = LastRead
  BY DEF LastRead
<1>5. ReaderOK'
  <2>1. in'.left > 0 /\ in'.pendingMessageCount = in'.asked + 1 /\ rcvd' # <<>>
    BY ONLY n \in Nat, n # 0, rcvd' = rcvd, <1>1, <1>3
  <2> QED BY ONLY <1>1, <1>3, <1>4, <2>1 DEF ReaderOK
<1>6. InFlight' = rest \o (wire' \o Pending)
  <2>1. Pending' = Pending
    BY WriterStays
  <2>2. in'.buffer \o in'.leftover = rest
    BY <1>3, Joints
  <2> QED BY <2>1, <2>2 DEF InFlight
<1>7. InStep'
  <2>1. PICK to : to = "body"
    OBVIOUS
  <2>2. to \in ReaderPoints'
    <3>1. in'.left > 0
      BY <1>3
    <3> QED BY ONLY <1>3, <2>1, <3>1 DEF ReaderPoints
  <2>3. ReaderPlace(to)' = [at |-> to, m |-> Len(rcvd), f |-> LastRead.framing,
                            got |-> Len(LastRead.data), left |-> n]
    BY ONLY <1>1, <1>3, <1>4, rcvd' = rcvd DEF ReaderPlace
  <2>4. "size" \in Points
    BY DEF Points
  <2>5. ReaderPlace("size") = [at |-> "size", m |-> Len(rcvd), f |-> LastRead.framing,
                               got |-> Len(LastRead.data), left |-> in.left]
    BY <1>1, <2>4, PlaceInBody
  <2>6. r = [at |-> to, m |-> Len(rcvd), f |-> LastRead.framing,
             got |-> Len(LastRead.data), left |-> n]
    BY ONLY <2>1, <2>5 DEF Within
  <2>7. Leads(r, InFlight', q, sent)
    BY <1>6
  <2>8. r = ReaderPlace(to)'
    BY ONLY <2>3, <2>6
  <2> HIDE DEF r
  <2> QED BY <2>2, <2>7, <2>8, ReaderArrives
<1>8. ReadWasWritten'
  BY <1>3, SameRead
<1> QED BY <1>1, <1>3, <1>5, <1>7, <1>8, InIs, ReaderSteps

(* The header of the last chunk was read: it ends the body. *)
LEMMA LastChunkIsRead ==
  ASSUME FramingInv, ReadingChunkHeader, out' = out, eof' = eof, sent' = sent,
         rcvd' = [rcvd EXCEPT ![Len(rcvd)].ended = TRUE],
         wire' \in Seq(Characters), NEW rest \in Seq(Characters),
         in' = FinishRead(Opened(TRUE, <<>>, rest)),
         NEW q \in Places, ~Cut => q = WriterPlace,
         Leads(Within(ReaderPlace("size"), "endCR", ReaderPlace("size").got, 0),
               rest \o (wire' \o Pending), q, sent)
  PROVE  FramingInv'
<1>1. /\ FramingTypeOK /\ in.phase = "body" /\ in.busy /\ rcvd # <<>>
      /\ LastRead.framing = Chunked /\ in.left = 0
      /\ in.pendingMessageCount = in.asked + 1 /\ ReadWasWritten
  <2>1. ~ReadingHead
    BY DEF ReadingChunkHeader, ReadingHead
  <2> QED BY <2>1, AtHeader DEF FramingInv
<1>2. /\ Len(rcvd) \in Nat /\ Len(rcvd) > 0 /\ Len(rcvd) \in 1..Len(rcvd)
      /\ LastRead \in Read /\ LastRead = rcvd[Len(rcvd)] /\ LastRead.data \in Seq(Characters)
      /\ rcvd \in Seq(Read) /\ in.asked \in Nat /\ Pending \in Seq(Characters)
  BY <1>1, ReadLast, InIs, FlightIs
<1> DEFINE o == Opened(TRUE, <<>>, rest)
           r == Within(ReaderPlace("size"), "endCR", ReaderPlace("size").got, 0)
           e == [LastRead EXCEPT !.ended = TRUE]
<1>3. /\ o \in Ins /\ o.leftover = rest /\ o.lineBreak /\ o.buffer = <<>>
      /\ o.phase = in.phase /\ o.asked = in.asked /\ o.left = in.left
      /\ o.pendingMessageCount = in.pendingMessageCount /\ o.bad = in.bad
  BY <1>1, LineBreakToCome
<1> HIDE DEF o
<1>4. /\ in' \in Ins /\ in'.leftover = rest /\ in'.lineBreak /\ in'.buffer = <<>>
      /\ in'.phase = "idle" /\ in'.asked = in.asked
      /\ in'.pendingMessageCount = in.pendingMessageCount - 1
      /\ ~in'.busy /\ in'.bad = in.bad /\ in'.left = in.left
  <2> DEFINE c == o.pendingMessageCount - 1
  <2>1. c \in Int
    BY ONLY <1>1, <1>2, <1>3
  <2>2. in' = [o EXCEPT !.phase = "idle", !.pendingMessageCount = c, !.busy = FALSE]
    BY DEF o, FinishRead
  <2>3. c = in.pendingMessageCount - 1
    BY ONLY <1>3
  <2> HIDE DEF c
  <2> QED BY ONLY <1>3, <2>1, <2>2, <2>3 DEF Ins
<1>5. e \in Read /\ e.framing = Chunked /\ e.data = LastRead.data /\ e.ended
  BY ONLY <1>1, <1>2 DEF Read
<1>6. rcvd' = [rcvd EXCEPT ![Len(rcvd)] = e]
  BY ONLY <1>2, rcvd' = [rcvd EXCEPT ![Len(rcvd)].ended = TRUE] DEF Read
<1> HIDE DEF e
<1>7. LastRead' = e /\ Len(rcvd') = Len(rcvd) /\ rcvd' \in Seq(Read) /\ rcvd' # <<>>
  BY ONLY <1>1, <1>5, <1>6, ReadMore
<1>8. r = [at |-> "endCR", m |-> Len(rcvd), f |-> Chunked, got |-> Len(e.data), left |-> 0]
  <2>1. "size" \in Points
    BY DEF Points
  <2>2. ReaderPlace("size") = [at |-> "size", m |-> Len(rcvd), f |-> LastRead.framing,
                               got |-> Len(LastRead.data), left |-> in.left]
    BY <1>1, <2>1, PlaceInBody
  <2> QED BY ONLY <1>1, <1>5, <2>2 DEF Within
<1>9. /\ r.at = "endCR" /\ r.m = Len(rcvd) /\ r.f = Chunked /\ r.got = Len(e.data)
  BY ONLY <1>8
<1>10. Fits(r, sent)
  <2>1. rest \o (wire' \o Pending) \in Seq(Characters)
    BY <1>2, Joints
  <2> QED BY <2>1, LeadsAhead
<1> HIDE DEF r
<1>11. /\ LastRead.framing = sent[Len(rcvd)].framing
       /\ LastRead.data = Bytes(0, Len(LastRead.data))
       /\ Len(LastRead.data) <= sent[Len(rcvd)].bytes
  BY ONLY <1>1, <1>2 DEF ReadWasWritten
<1>12. Len(e.data) = sent[Len(rcvd)].bytes /\ Complete(sent[Len(rcvd)])
  <2>1. IsEnd(r) /\ r.m > 0
    BY ONLY <1>2, <1>9 DEF IsEnd
  <2>2. r.got = sent[r.m].bytes /\ (r.f = Chunked => sent[r.m].ended)
    BY ONLY <1>10, <2>1 DEF Fits
  <2> QED BY ONLY <1>1, <1>9, <1>11, <2>2 DEF Complete
<1>13. ReadWasWritten'
  <2>1. ~in'.bad
    BY ONLY <1>1, <1>4 DEF ReadWasWritten
  <2>2. /\ e.framing = LastRead.framing /\ e.data = Bytes(0, Len(e.data))
        /\ Len(e.data) <= sent[Len(rcvd)].bytes
    BY ONLY <1>1, <1>5, <1>11
  <2>3. FramingInv /\ sent' = sent
    OBVIOUS
  <2> QED BY ONLY <1>1, <1>5, <1>6, <1>12, <2>1, <2>2, <2>3, MoreWasWritten
<1>14. ReaderOK'
  <2>1. in'.pendingMessageCount = in'.asked + 0
    BY ONLY <1>1, <1>2, <1>4
  <2> QED BY ONLY <1>1, <1>4, <2>1 DEF ReaderOK
<1>15. InFlight' = rest \o (wire' \o Pending)
  <2>1. Pending' = Pending
    BY WriterStays
  <2>2. in'.buffer \o in'.leftover = rest
    BY <1>4, Joints
  <2> QED BY <2>1, <2>2 DEF InFlight
<1>16. InStep'
  <2>1. PICK to : to = "endCR"
    OBVIOUS
  <2>2. to \in ReaderPoints'
    BY ONLY <1>4, <2>1 DEF ReaderPoints
  <2>3. ReaderPlace(to)' = [at |-> to, m |-> Len(rcvd), f |-> Chunked,
                            got |-> Len(e.data), left |-> 0]
    BY ONLY <1>1, <1>4, <1>5, <1>7 DEF ReaderPlace
  <2>4. r = ReaderPlace(to)'
    BY ONLY <1>8, <2>1, <2>3
  <2>5. Leads(r, InFlight', q, sent)
    BY <1>15 DEF r
  <2> QED BY <2>2, <2>4, <2>5, ReaderArrives
<1> QED BY <1>1, <1>4, <1>7, <1>13, <1>14, <1>16, ReaderSteps

(* The reader before and after a header. *)
LEMMA OpenedOnce ==
  ASSUME FramingTypeOK, NEW c \in Seq(Characters), NEW d \in Seq(Characters),
         NEW rest \in Seq(Characters)
  PROVE  /\ [Opened(FALSE, c, <<>>) EXCEPT !.buffer = d] = Opened(FALSE, d, <<>>)
         /\ [Opened(FALSE, c, <<>>) EXCEPT !.buffer = <<>>, !.leftover = rest]
              = Opened(FALSE, <<>>, rest)
         /\ [Opened(FALSE, <<>>, rest) EXCEPT !.lineBreak = TRUE] = Opened(TRUE, <<>>, rest)
<1>1. in \in Ins
  BY InIs
<1>2. [Opened(FALSE, c, <<>>) EXCEPT !.buffer = d] = Opened(FALSE, d, <<>>)
  BY <1>1 DEF Opened, Ins
<1>3. [Opened(FALSE, c, <<>>) EXCEPT !.buffer = <<>>, !.leftover = rest]
        = Opened(FALSE, <<>>, rest)
  BY <1>1 DEF Opened, Ins
<1>4. [Opened(FALSE, <<>>, rest) EXCEPT !.lineBreak = TRUE] = Opened(TRUE, <<>>, rest)
  BY <1>1 DEF Opened, Ins
<1> QED BY <1>2, <1>3, <1>4

(* The reader with nothing left over. *)
LEMMA NothingLeftOver ==
  ASSUME FramingTypeOK, NEW b \in BOOLEAN, NEW s \in Seq(Characters)
  PROVE  LET o == Opened(b, s, <<>>)
         IN  /\ o \in Ins /\ o.leftover = <<>> /\ (o.lineBreak <=> b) /\ o.buffer = s
             /\ o.phase = in.phase /\ o.asked = in.asked /\ o.left = in.left
             /\ o.pendingMessageCount = in.pendingMessageCount
             /\ o.busy = in.busy /\ o.clean = in.clean /\ o.bad = in.bad
<1>1. PICK z \in Seq(Characters) : z = <<>>
  BY EmptySeq
<1>2. /\ Opened(b, s, z) \in Ins /\ Opened(b, s, z).leftover = z
      /\ (Opened(b, s, z).lineBreak <=> b) /\ Opened(b, s, z).buffer = s
      /\ Opened(b, s, z).phase = in.phase /\ Opened(b, s, z).asked = in.asked
      /\ Opened(b, s, z).left = in.left
      /\ Opened(b, s, z).pendingMessageCount = in.pendingMessageCount
      /\ Opened(b, s, z).busy = in.busy /\ Opened(b, s, z).clean = in.clean
      /\ Opened(b, s, z).bad = in.bad
  BY OpenedIs
<1>3. Opened(b, s, <<>>) = Opened(b, s, z)
  BY <1>1
<1> QED BY <1>1, <1>2, <1>3

(* What a parsed header does. *)
LEMMA HeadParsed ==
  ASSUME NEW j, NEW text, NEW f \in Framings, HeadRead(j, text),
         Len(text) = 3, text[1] = <<"head", f>>, Tail(text) = CRLF
  PROVE  /\ in' = StartBody(j, f)
         /\ \E e \in Read : /\ e.framing = f /\ e.data = <<>> /\ (e.ended <=> f = 0)
                            /\ rcvd' = Append(rcvd, e)
<1>1. text[1][1] = "head" /\ text[1][2] = f
  OBVIOUS
<1>2. /\ in' = StartBody(j, text[1][2])
      /\ rcvd' = Append(rcvd, [framing |-> text[1][2], data |-> <<>>, ended |-> text[1][2] = 0])
  BY <1>1 DEF HeadRead
<1>3. PICK g : g = text[1][2]
  OBVIOUS
<1>4. g = f
  BY <1>1, <1>3
<1> DEFINE b == f = 0
           e == [framing |-> f, data |-> <<>>, ended |-> b]
<1>5. in' = StartBody(j, f) /\ rcvd' = Append(rcvd, e)
  BY ONLY <1>2, <1>3, <1>4
<1>6. b \in BOOLEAN /\ <<>> \in Seq(Characters)
  BY EmptySeq
<1>7. e \in Read /\ e.framing = f /\ e.data = <<>> /\ (e.ended <=> b)
  <2> HIDE DEF b
  <2> QED BY ONLY f \in Framings, <1>6 DEF Read
<1> HIDE DEF e
<1> QED BY ONLY <1>5, <1>7

(* What a parsed chunk header does. *)
LEMMA ChunkHeaderParsed ==
  ASSUME NEW i, NEW text, NEW n \in Nat, ChunkHeaderRead(i, text),
         Len(text) = 1, text[1] = <<"size", n>>
  PROVE  /\ n = 0 => /\ in' = FinishRead([i EXCEPT !.lineBreak = TRUE])
                     /\ rcvd' = [rcvd EXCEPT ![Len(rcvd)].ended = TRUE]
         /\ n # 0 => in' = [[i EXCEPT !.lineBreak = TRUE] EXCEPT !.left = n] /\ rcvd' = rcvd
<1>1. text[1][1] = "size" /\ text[1][2] = n
  OBVIOUS
<1> DEFINE j == [i EXCEPT !.lineBreak = TRUE]
<1>2. IF text[1][2] = 0
      THEN in' = FinishRead(j) /\ rcvd' = [rcvd EXCEPT ![Len(rcvd)].ended = TRUE]
      ELSE in' = [j EXCEPT !.left = text[1][2]] /\ rcvd' = rcvd
  BY <1>1 DEF ChunkHeaderRead
<1>3. PICK g : g = text[1][2]
  OBVIOUS
<1>4. g = n
  BY <1>1, <1>3
<1> HIDE DEF j
<1>5. IF n = 0
      THEN in' = FinishRead(j) /\ rcvd' = [rcvd EXCEPT ![Len(rcvd)].ended = TRUE]
      ELSE in' = [j EXCEPT !.left = n] /\ rcvd' = rcvd
  BY ONLY <1>2, <1>3, <1>4
<1> QED BY ONLY <1>5 DEF j

(* readHeader() (http.cc, HttpInputStreamImpl), one read of its loop: the line
   break before the header is skipped, the header has not ended, or it ends
   and is parsed as the one that the writer sent. *)
LEMMA ReadHeaderSteps ==
  ASSUME FramingInv, NEW n \in 0..MaxRead, ReadHeader(n)
  PROVE  FramingInv'
<1> DEFINE i == [in EXCEPT !.leftover = <<>>]
           a == Arrived(n)
           u == WireAfter(n) \o Pending
           k == SkipLineBreak(i, a)
           s == k.i.buffer \o k.new
           type == IF ReadingHead THEN "message" ELSE "chunk"
           ends == IF k.i.lineBreak /\ k.new = <<>> THEN {} ELSE Ends(type, s, Len(k.i.buffer))
           e == FirstEnd(ends)
           j == [k.i EXCEPT !.buffer = <<>>, !.leftover = SubSeq(s, e + 1, Len(s))]
           text == Unterminated(SubSeq(s, 1, e))
<1>1. /\ FramingTypeOK /\ (ReadingHead \/ ReadingChunkHeader) /\ Arrives(n)
      /\ out' = out /\ eof' = eof /\ sent' = sent /\ wire' = WireAfter(n)
      /\ n \in Nat /\ wire \in Seq(Characters) /\ Pending \in Seq(Characters)
      /\ in.buffer \in Seq(Characters)
  BY FlightIs, FramingAssumption DEF FramingInv, ReadHeader
<1>2. /\ n = 0 => in' = Fail(in) /\ rcvd' = rcvd
      /\ n # 0 => IF ends = {} THEN in' = [k.i EXCEPT !.buffer = s] /\ rcvd' = rcvd
                  ELSE IF ReadingHead THEN HeadRead(j, text) ELSE ChunkHeaderRead(j, text)
  BY Zenon DEF ReadHeader, FirstEnd
<1>3. CASE n = 0
  <2>1. wire' = <<>> /\ <<>> \in Seq(Characters)
    BY <1>1, <1>3, NoMore, EmptySeq
  <2>2. in.phase # "idle"
    BY <1>1, AtHeader
  <2> QED BY <1>1, <1>2, <1>3, <2>1, <2>2, ReaderFails
<1>4. CASE n # 0
  <2>1. n > 0
    BY <1>1, <1>4
  <2>2. /\ a \in Seq(Characters) /\ wire' \in Seq(Characters)
        /\ InFlight = (in.buffer \o a) \o u
    BY <1>1, <2>1, ArrivalIs
  <2>3. \/ /\ in.lineBreak /\ in.buffer = <<>> /\ a = <<CR>>
           /\ k = [i |-> Opened(in.lineBreak, <<CR>>, <<>>), new |-> <<>>]
        \/ \E c, new \in Seq(Characters), q \in Places :
             /\ Len(c) <= HeaderRest
             /\ k = [i |-> Opened(FALSE, c, <<>>), new |-> new]
             /\ Leads(ReaderPlace(HeaderPoint), (c \o new) \o u, q, sent)
             /\ ~Cut => q = WriterPlace
    BY <1>1, <2>1, HeaderBegins
  <2>4. Pending' = Pending
    BY <1>1, WriterStays
  <2> HIDE DEF k, a, u
  <2>5. CASE /\ in.lineBreak /\ in.buffer = <<>> /\ a = <<CR>>
             /\ k = [i |-> Opened(in.lineBreak, <<CR>>, <<>>), new |-> <<>>]
     <3>1. in.lineBreak \in BOOLEAN /\ <<CR>> \in Seq(Characters) /\ in.lineBreak = TRUE
      BY <1>1, <2>5, InIs, CharactersAre
    <3> DEFINE o == Opened(in.lineBreak, <<CR>>, <<>>)
    <3>2. /\ o \in Ins /\ o.leftover = <<>> /\ o.lineBreak /\ o.buffer = <<CR>>
          /\ o.phase = in.phase /\ o.left = in.left
      BY <1>1, <2>5, <3>1, NothingLeftOver
    <3>3. k.i = o /\ k.new = <<>>
      BY <2>5
    <3>4. <<CR>> \o <<>> = <<CR>> /\ <<>> \o <<CR>> = <<CR>>
      BY <3>1, Joints
    <3>5. s = <<CR>> /\ ends = {}
      BY <3>2, <3>3, <3>4
    <3>6. in' = [o EXCEPT !.buffer = <<CR>>] /\ rcvd' = rcvd
      <4> HIDE DEF ends, s, o
      <4> QED BY <1>2, <1>4, <3>3, <3>5
    <3>7. in' = o
      BY <1>1, <3>1, <3>6, OpenedTwice
    <3> HIDE DEF o
    <3>8. InFlight' = InFlight
      <4>1. in'.buffer \o in'.leftover = <<CR>>
        BY <3>2, <3>4, <3>7
      <4>2. wire' \o Pending' = u
        BY <1>1, <2>4 DEF u
      <4>3. in.buffer \o a = <<CR>>
        BY <2>5, <3>4
      <4> QED BY ONLY <2>2, <4>1, <4>2, <4>3 DEF InFlight
    <3>9. InStep'
      <4>1. in'.left = in.left /\ in'.phase = in.phase /\ (in'.lineBreak = in.lineBreak)
        <5>1. in'.lineBreak = TRUE
          BY <3>2, <3>7 DEF Ins
        <5> QED BY <3>1, <3>2, <3>7, <5>1
      <4> QED BY <1>1, <3>6, <3>8, <4>1, ReaderWaits
    <3>10. in' = Opened(TRUE, <<CR>>, <<>>)
      BY <3>1, <3>7 DEF o
    <3> QED BY <1>1, <2>2, <3>1, <3>6, <3>9, <3>10, HeaderWaits
  <2>6. CASE \E c, new \in Seq(Characters), q \in Places :
               /\ Len(c) <= HeaderRest
               /\ k = [i |-> Opened(FALSE, c, <<>>), new |-> new]
               /\ Leads(ReaderPlace(HeaderPoint), (c \o new) \o u, q, sent)
               /\ ~Cut => q = WriterPlace
    <3>1. PICK c \in Seq(Characters), new \in Seq(Characters), q \in Places :
            /\ Len(c) <= HeaderRest
            /\ k = [i |-> Opened(FALSE, c, <<>>), new |-> new]
            /\ Leads(ReaderPlace(HeaderPoint), (c \o new) \o u, q, sent)
            /\ ~Cut => q = WriterPlace
      BY <2>6
    <3> DEFINE o == Opened(FALSE, c, <<>>)
               t == c \o new
               p == ReaderPlace(HeaderPoint)
    <3>2. PICK b \in BOOLEAN : ~b
      OBVIOUS
    <3>3. /\ o \in Ins /\ o.leftover = <<>> /\ ~o.lineBreak /\ o.buffer = c
          /\ o.phase = in.phase /\ o.left = in.left
      <4>1. Opened(b, c, <<>>) = o
        <5>1. b = FALSE
          BY <3>2
        <5> QED BY <5>1
      <4>2. /\ Opened(b, c, <<>>) \in Ins /\ Opened(b, c, <<>>).leftover = <<>>
            /\ (Opened(b, c, <<>>).lineBreak <=> b) /\ Opened(b, c, <<>>).buffer = c
            /\ Opened(b, c, <<>>).phase = in.phase /\ Opened(b, c, <<>>).left = in.left
        BY <1>1, NothingLeftOver
      <4> HIDE DEF o
      <4> QED BY ONLY <3>2, <4>1, <4>2
    <3>4. k.i = o /\ k.new = new
      BY <3>1
    <3>5. /\ t \in Seq(Characters) /\ Len(t) \in Nat /\ Len(c) \in Nat
          /\ u \in Seq(Characters) /\ wire' \o Pending = u
      <4>1. wire' \o Pending = u
        BY <1>1 DEF u
      <4>2. wire' \o Pending \in Seq(Characters)
        BY <1>1, <2>2, Joints
      <4>3. t \in Seq(Characters)
        BY Joints
      <4> HIDE DEF t
      <4> QED BY <4>1, <4>2, <4>3
    <3>6. s = t /\ ends = Ends(type, t, Len(c))
      BY <3>3, <3>4
    <3>7. p \in Places /\ p.at = HeaderPoint /\ Leads(p, t \o u, q, sent)
      <4>1. t \o u \in Seq(Characters)
        BY <3>5, Joints
      <4>2. p.at = HeaderPoint
        BY DEF ReaderPlace
      <4> QED BY <3>1, <4>1, <4>2, LeadsAhead
    <3>8. IF ends = {} THEN in' = [k.i EXCEPT !.buffer = s] /\ rcvd' = rcvd
          ELSE IF ReadingHead THEN HeadRead(j, text) ELSE ChunkHeaderRead(j, text)
      BY <1>2, <1>4
    <3>9. ASSUME ends = {}, Len(t) <= HeaderRest
          PROVE  FramingInv'
      <4>1. in' = [o EXCEPT !.buffer = t] /\ rcvd' = rcvd
        <5> HIDE DEF ends, s, o, t
        <5> QED BY <3>4, <3>6, <3>8, <3>9
      <4>2. in' = Opened(FALSE, t, <<>>)
        <5>2. [Opened(FALSE, c, <<>>) EXCEPT !.buffer = t] = Opened(FALSE, t, <<>>)
          BY <1>1, <3>5, OpenedOnce
        <5> QED BY <4>1, <5>2
      <4> HIDE DEF o, t, ends
      <4>3. in' = Opened(b, t, <<>>)
        <5>1. b = FALSE
          BY <3>2
        <5> QED BY ONLY <4>2, <5>1
      <4>4. /\ in' \in Ins /\ in'.leftover = <<>> /\ (in'.lineBreak <=> b) /\ in'.buffer = t
            /\ in'.phase = in.phase /\ in'.left = in.left
        <5>1. LET x == Opened(b, t, <<>>)
              IN  /\ x \in Ins /\ x.leftover = <<>> /\ (x.lineBreak <=> b) /\ x.buffer = t
                  /\ x.phase = in.phase /\ x.left = in.left
          BY <1>1, <3>5, NothingLeftOver
        <5> QED BY ONLY <4>3, <5>1
      <4>5. InFlight' = t \o u
        <5>1. in'.buffer \o in'.leftover = t
          BY <3>5, <4>4, Joints
        <5> QED BY ONLY <2>4, <3>5, <5>1 DEF InFlight
      <4>6. InStep'
        <5>1. PICK at : at = HeaderPoint
          OBVIOUS
        <5>2. /\ ReadingHead <=> in.phase = "head"
              /\ ~ReadingHead => in.phase = "body"
              /\ in.left = 0
          BY <1>1, AtHeader
        <5>3. at \in ReaderPoints'
          BY ONLY <3>2, <4>4, <5>1, <5>2 DEF ReaderPoints, HeaderPoint
        <5>4. p = ReaderPlace(at)'
          BY <4>1, <4>4, <5>1 DEF p, ReaderPlace, LastRead
        <5>5. Leads(p, InFlight', q, sent)
          BY <3>7, <4>5
        <5> HIDE DEF p
        <5> QED BY <1>1, <3>1, <5>3, <5>4, <5>5, ReaderArrives
      <4>7. ~b => Len(t) <= HeaderRest
        BY <3>9
      <4> QED BY <1>1, <2>2, <3>2, <3>5, <3>9, <4>1, <4>3, <4>6, <4>7, HeaderWaits
    <3> HIDE DEF o, t, p, ends, s, text, j
    <3>10. CASE ReadingHead
      <4>1. HeaderPoint = "start" /\ HeaderRest = 4 /\ type = "message"
        BY <3>10 DEF HeaderPoint, HeaderRest
      <4>2. CASE Len(t) < 5
        <5>1. ends = {}
          BY <3>5, <3>6, <4>1, <4>2, HeadNotYet
        <5>2. Len(t) <= HeaderRest
          BY <3>5, <4>1, <4>2
        <5> QED BY <3>9, <5>1, <5>2
      <4>3. CASE ~(Len(t) < 5)
        <5> DEFINE rest == SubSeq(t, 6, Len(t))
                   h == Unterminated(SubSeq(t, 1, 5))
        <5>1. p.at = "start" /\ Len(t) >= 5 /\ Len(c) <= 4
          BY <3>1, <3>5, <3>7, <4>1, <4>3
        <5>2. /\ 5 \in Ends("message", t, Len(c)) /\ FirstEnd(Ends("message", t, Len(c))) = 5
              /\ rest \in Seq(Characters)
              /\ \E f \in Framings : /\ Len(h) = 3 /\ h[1] = <<"head", f>> /\ Tail(h) = CRLF
                                     /\ Leads(Begun(p, f), rest \o u, q, sent)
          BY <3>5, <3>7, <5>1, HeadEnds
        <5>3. PICK f \in Framings : /\ Len(h) = 3 /\ h[1] = <<"head", f>> /\ Tail(h) = CRLF
                                    /\ Leads(Begun(p, f), rest \o u, q, sent)
          BY <5>2
        <5>4. ends # {} /\ e = 5
          BY <3>6, <4>1, <5>2
        <5> HIDE DEF e
        <5>5. text = h
          BY <3>6, <5>4 DEF text
        <5>6. j = Opened(FALSE, <<>>, rest)
          <6>1. j = [o EXCEPT !.buffer = <<>>, !.leftover = SubSeq(t, 5 + 1, Len(t))]
            BY <3>4, <3>6, <5>4 DEF j
          <6>2. 5 + 1 = 6
            OBVIOUS
          <6>3. j = [o EXCEPT !.buffer = <<>>, !.leftover = rest]
            BY <6>1, <6>2
          <6> HIDE DEF rest
          <6>5. [Opened(FALSE, c, <<>>) EXCEPT !.buffer = <<>>, !.leftover = rest]
                  = Opened(FALSE, <<>>, rest)
            BY <1>1, <5>2, OpenedOnce
          <6> QED BY <6>3, <6>5 DEF o
        <5>7. HeadRead(j, h)
          BY <3>8, <3>10, <5>4, <5>5
        <5> HIDE DEF rest, h
        <5>8. /\ in' = StartBody(j, f)
              /\ \E x \in Read : /\ x.framing = f /\ x.data = <<>> /\ (x.ended <=> f = 0)
                                 /\ rcvd' = Append(rcvd, x)
          BY <5>3, <5>7, HeadParsed
        <5>9. PICK x \in Read : /\ x.framing = f /\ x.data = <<>> /\ (x.ended <=> f = 0)
                                /\ rcvd' = Append(rcvd, x)
          BY <5>8
        <5>10. in' = StartBody(Opened(FALSE, <<>>, rest), f)
          BY <5>6, <5>8
        <5>11. Leads(Begun(ReaderPlace("start"), f), rest \o (wire' \o Pending), q, sent)
          BY <3>5, <4>1, <5>3 DEF p
        <5> QED BY <1>1, <2>2, <3>1, <3>10, <5>2, <5>9, <5>10, <5>11, HeadIsRead
      <4> QED BY <4>2, <4>3
    <3>11. CASE ~ReadingHead
      <4>1. HeaderPoint = "size" /\ HeaderRest = 2 /\ type = "chunk" /\ ReadingChunkHeader
        BY <1>1, <3>11 DEF HeaderPoint, HeaderRest
      <4>2. CASE Len(t) <= 2
        <5>1. ends = {}
          BY <3>5, <3>6, <3>7, <4>1, <4>2, ChunkHeaderNotYet
        <5> QED BY <3>9, <4>1, <4>2, <5>1
      <4>3. CASE ~(Len(t) <= 2)
        <5> DEFINE rest == SubSeq(t, 4, Len(t))
                   h == Unterminated(SubSeq(t, 1, 3))
        <5>1. p.at = "size" /\ Len(t) >= 3 /\ Len(c) <= 2
          BY <3>1, <3>5, <3>7, <4>1, <4>3
        <5>2. /\ 3 \in Ends("chunk", t, Len(c)) /\ FirstEnd(Ends("chunk", t, Len(c))) = 3
              /\ rest \in Seq(Characters)
              /\ \E z \in Nat :
                   /\ Len(h) = 1 /\ h[1] = <<"size", z>>
                   /\ Leads(Within(p, AfterSize(z), p.got, z), rest \o u, q, sent)
          BY <3>5, <3>7, <5>1, ChunkHeaderEnds
        <5>3. PICK z \in Nat :
                /\ Len(h) = 1 /\ h[1] = <<"size", z>>
                /\ Leads(Within(p, AfterSize(z), p.got, z), rest \o u, q, sent)
          BY <5>2
        <5>4. ends # {} /\ e = 3
          BY <3>6, <4>1, <5>2
        <5> HIDE DEF e
        <5>5. text = h
          BY <3>6, <5>4 DEF text
        <5>6. j = Opened(FALSE, <<>>, rest)
          <6>1. j = [o EXCEPT !.buffer = <<>>, !.leftover = SubSeq(t, 3 + 1, Len(t))]
            BY <3>4, <3>6, <5>4 DEF j
          <6>2. 3 + 1 = 4
            OBVIOUS
          <6>3. j = [o EXCEPT !.buffer = <<>>, !.leftover = rest]
            BY <6>1, <6>2
          <6> HIDE DEF rest
          <6>5. [Opened(FALSE, c, <<>>) EXCEPT !.buffer = <<>>, !.leftover = rest]
                  = Opened(FALSE, <<>>, rest)
            BY <1>1, <5>2, OpenedOnce
          <6> QED BY <6>3, <6>5 DEF o
        <5>7. ChunkHeaderRead(j, h)
          BY <3>8, <3>11, <5>4, <5>5
        <5> HIDE DEF rest, h
        <5>8. [j EXCEPT !.lineBreak = TRUE] = Opened(TRUE, <<>>, rest)
          <6>2. [Opened(FALSE, <<>>, rest) EXCEPT !.lineBreak = TRUE] = Opened(TRUE, <<>>, rest)
            BY <1>1, <5>2, OpenedOnce
          <6> QED BY <5>6, <6>2
        <5>9. /\ z = 0 => /\ in' = FinishRead(Opened(TRUE, <<>>, rest))
                          /\ rcvd' = [rcvd EXCEPT ![Len(rcvd)].ended = TRUE]
              /\ z # 0 => in' = [Opened(TRUE, <<>>, rest) EXCEPT !.left = z] /\ rcvd' = rcvd
          <6>1. /\ z = 0 => /\ in' = FinishRead([j EXCEPT !.lineBreak = TRUE])
                            /\ rcvd' = [rcvd EXCEPT ![Len(rcvd)].ended = TRUE]
                /\ z # 0 => in' = [[j EXCEPT !.lineBreak = TRUE] EXCEPT !.left = z] /\ rcvd' = rcvd
            BY <5>3, <5>7, ChunkHeaderParsed
          <6> QED BY ONLY <5>8, <6>1
        <5>10. Leads(Within(ReaderPlace("size"), AfterSize(z), ReaderPlace("size").got, z),
                     rest \o (wire' \o Pending), q, sent)
          BY <3>5, <4>1, <5>3 DEF p
        <5>11. CASE z = 0
          <6>1. Leads(Within(ReaderPlace("size"), "endCR", ReaderPlace("size").got, 0),
                      rest \o (wire' \o Pending), q, sent)
            BY <5>10, <5>11 DEF AfterSize
          <6> QED BY <1>1, <2>2, <3>1, <4>1, <5>2, <5>9, <5>11, <6>1, LastChunkIsRead
        <5>12. CASE z # 0
          <6>1. Leads(Within(ReaderPlace("size"), "body", ReaderPlace("size").got, z),
                      rest \o (wire' \o Pending), q, sent)
            BY <5>10, <5>12 DEF AfterSize
          <6> QED BY <1>1, <2>2, <3>1, <4>1, <5>2, <5>9, <5>12, <6>1, ChunkIsRead
        <5> QED BY <5>11, <5>12
      <4> QED BY <4>2, <4>3
    <3> QED BY <3>10, <3>11
  <2> QED BY <2>3, <2>5, <2>6
<1> QED BY <1>3, <1>4

(* What is left of the leftover characters when the expected line break has
   been taken off them. *)
LEMMA SnarfTakes ==
  ASSUME NEW i, NEW s \in Seq(Characters), i.leftover = s
  PROVE  /\ ~i.lineBreak \/ s = <<>> => Snarf(i) = i
         /\ i.lineBreak /\ s # <<>> /\ Head(s) = LF =>
              Snarf(i) = [i EXCEPT !.lineBreak = FALSE, !.leftover = Tail(s)]
         /\ i.lineBreak /\ s # <<>> /\ Head(s) = CR /\ Tail(s) = <<>> =>
              Snarf(i) = [i EXCEPT !.leftover = <<>>]
         /\ i.lineBreak /\ s # <<>> /\ Head(s) = CR /\ Tail(s) # <<>> /\ Head(Tail(s)) = LF =>
              Snarf(i) = [i EXCEPT !.lineBreak = FALSE, !.leftover = Tail(Tail(s))]
<1> DEFINE Q(k) == (\A j \in 1..k : s[j] = CR) /\ (k = Len(s) \/ s[k + 1] # CR)
           crs == CHOOSE k \in 0..Len(s) : Q(k)
           t == SubSeq(s, crs + 1, Len(s))
<1>1. Snarf(i) = IF ~i.lineBreak \/ s = <<>> THEN i
                 ELSE IF t = <<>> THEN [i EXCEPT !.leftover = <<>>]
                 ELSE [i EXCEPT !.lineBreak = FALSE,
                                !.leftover = IF Head(t) = LF THEN Tail(t) ELSE t]
  BY DEF Snarf
<1>2. CR # LF /\ Len(s) \in Nat
  BY DEF CR, LF
<1>3. CASE s = <<>>
  BY <1>1, <1>3
<1>4. CASE s # <<>> /\ Head(s) = LF
  <2>1. s[1] = LF /\ Len(s) > 0 /\ SubSeq(s, 1, Len(s)) = s
    BY <1>2, <1>4, EmptyOrNot
  <2>2. Q(0) /\ 0 \in 0..Len(s)
    BY <1>2, <2>1
  <2>3. ASSUME NEW k \in 0..Len(s), \A j \in 1..k : s[j] = CR PROVE k = 0
    <3>1. ASSUME k # 0 PROVE FALSE
      <4>1. 1 \in 1..k
        BY <1>2, <3>1
      <4>2. s[1] = CR
        BY <2>3, <4>1
      <4> QED BY <1>2, <2>1, <4>2
    <3> QED BY <3>1
  <2>4. crs = 0
    BY <2>2, <2>3
  <2> HIDE DEF crs
  <2>5. t = s
    <3>1. 0 + 1 = 1
      OBVIOUS
    <3> QED BY <2>1, <2>4, <3>1
  <2> HIDE DEF t
  <2> QED BY <1>1, <1>2, <1>4, <2>5
<1>5. CASE s # <<>> /\ Head(s) = CR /\ (Tail(s) # <<>> => Head(Tail(s)) = LF)
  <2>1. /\ s[1] = CR /\ Len(s) > 0 /\ Tail(s) = SubSeq(s, 2, Len(s))
        /\ Tail(s) \in Seq(Characters) /\ Len(Tail(s)) = Len(s) - 1
    BY <1>2, <1>5, EmptyOrNot
  <2>2. Len(s) > 1 => s[2] = LF
    <3>1. ASSUME Len(s) > 1 PROVE s[2] = LF
      <4>1. Tail(s) # <<>>
        <5> DEFINE x == Tail(s)
        <5>1. Len(x) # 0 /\ x \in Seq(Characters)
          BY <1>2, <2>1, <3>1
        <5> HIDE DEF x
        <5>2. x # <<>>
          BY <5>1, EmptyOrNot
        <5> QED BY <5>2 DEF x
      <4>2. Tail(s)[1] = LF
        BY <1>5, <4>1
      <4>3. Tail(s)[1] = s[2]
        BY <2>1, <3>1
      <4> QED BY <4>2, <4>3
    <3> QED BY <3>1
  <2>3. Q(1) /\ 1 \in 0..Len(s)
    <3>1. 1 \in 0..Len(s) /\ \A j \in 1..1 : j = 1
      BY <1>2, <2>1
    <3>2. 1 = Len(s) \/ Len(s) > 1
      BY <1>2, <2>1
    <3>3. 1 + 1 = 2
      OBVIOUS
    <3> QED BY <1>2, <2>1, <2>2, <3>1, <3>2, <3>3
  <2>4. ASSUME NEW k \in 0..Len(s), \A j \in 1..k : s[j] = CR, k = Len(s) \/ s[k + 1] # CR
        PROVE  k = 1
    <3>1. ASSUME k = 0 PROVE FALSE
      <4>1. k + 1 = 1 /\ k # Len(s)
        BY <1>2, <2>1, <3>1
      <4>2. s[k + 1] = CR
        BY <2>1, <4>1
      <4> QED BY <2>4, <4>1, <4>2
    <3>2. ASSUME k > 1 PROVE FALSE
      <4>1. 2 \in 1..k /\ Len(s) > 1
        BY <1>2, <3>2
      <4>2. s[2] = CR
        BY <2>4, <4>1
      <4> QED BY <1>2, <2>2, <4>1, <4>2
    <3> QED BY <1>2, <3>1, <3>2
  <2>5. crs = 1
    BY <2>3, <2>4
  <2> HIDE DEF crs
  <2>6. t = Tail(s)
    <3>1. 1 + 1 = 2
      OBVIOUS
    <3> QED BY <2>1, <2>5, <3>1
  <2> HIDE DEF t
  <2>7. Head(s) # LF
    BY <1>2, <1>5
  <2> QED BY <1>1, <1>2, <1>5, <2>6, <2>7
<1>6. ~i.lineBreak => Snarf(i) = i
  BY <1>1
<1> QED BY <1>2, <1>3, <1>4, <1>5, <1>6

(* The line break after the last chunk is taken as far as it is there, and
   the rest leads on from behind it. *)
LEMMA SnarfLeads ==
  ASSUME FramingInv, in.phase = "idle", in.lineBreak, in.leftover # <<>>,
         NEW at \in {"endCR", "endLF"}, NEW u \in Seq(Characters), NEW q, NEW log,
         Leads(ReaderPlace(at), in.leftover \o u, q, log)
  PROVE  \/ /\ Snarf(in) = Opened(TRUE, <<>>, <<>>)
            /\ Leads(ReaderPlace("endLF"), u, q, log)
         \/ \E rest \in Seq(Characters) :
              /\ Snarf(in) = Opened(FALSE, <<>>, rest)
              /\ Leads(ReaderPlace("start"), rest \o u, q, log)
<1> DEFINE s == in.leftover
           p == ReaderPlace(at)
<1>1. /\ in \in Ins /\ s \in Seq(Characters) /\ in.buffer = <<>> /\ CR # LF
      /\ FramingTypeOK
  BY InIs DEF FramingInv, ReaderOK, CR, LF
<1>2. /\ Tail(s) \in Seq(Characters)
      /\ \E r \in Places : Takes(p, Head(s), r) /\ Leads(r, Tail(s) \o u, q, log)
  BY <1>1, OneTaken
<1>3. PICK r \in Places : Takes(p, Head(s), r) /\ Leads(r, Tail(s) \o u, q, log)
  BY <1>2
<1>4. /\ p.at = at /\ At(p, "start") = ReaderPlace("start")
      /\ At(p, "endLF") = ReaderPlace("endLF")
  BY DEF ReaderPlace, At, Within
<1>5. \A rest \in Seq(Characters) :
        [in EXCEPT !.lineBreak = FALSE, !.leftover = rest] = Opened(FALSE, <<>>, rest)
  BY <1>1 DEF Opened, Ins
<1>6. [in EXCEPT !.leftover = <<>>] = Opened(TRUE, <<>>, <<>>)
  BY <1>1 DEF Opened, Ins
<1>7. CASE at = "endLF"
  <2>1. Head(s) = LF /\ r = At(p, "start")
    BY <1>3, <1>4, <1>7, Steps
  <2>2. Snarf(in) = [in EXCEPT !.lineBreak = FALSE, !.leftover = Tail(s)]
    BY <1>1, <2>1, SnarfTakes
  <2> QED BY <1>2, <1>3, <1>4, <1>5, <2>1, <2>2
<1>8. CASE at = "endCR"
  <2>1. Head(s) = CR /\ r = At(p, "endLF")
    BY <1>3, <1>4, <1>8, Steps
  <2>2. CASE Tail(s) = <<>>
    <3>1. Snarf(in) = [in EXCEPT !.leftover = <<>>]
      BY <1>1, <2>1, <2>2, SnarfTakes
    <3>2. Tail(s) \o u = u
      BY <2>2, Joints
    <3> QED BY <1>3, <1>4, <1>6, <2>1, <3>1, <3>2
  <2>3. CASE Tail(s) # <<>>
    <3> DEFINE b == Tail(s)
    <3>1. b \in Seq(Characters) /\ b # <<>> /\ Leads(ReaderPlace("endLF"), b \o u, q, log)
      BY <1>2, <1>3, <1>4, <2>1, <2>3
    <3> HIDE DEF b
    <3>2. /\ Tail(b) \in Seq(Characters)
          /\ \E t \in Places : /\ Takes(ReaderPlace("endLF"), Head(b), t)
                               /\ Leads(t, Tail(b) \o u, q, log)
      BY <3>1, OneTaken
    <3>3. PICK t \in Places : /\ Takes(ReaderPlace("endLF"), Head(b), t)
                              /\ Leads(t, Tail(b) \o u, q, log)
      BY <3>2
    <3>4. Head(b) = LF /\ t = At(ReaderPlace("endLF"), "start")
      <4>1. ReaderPlace("endLF").at = "endLF"
        BY DEF ReaderPlace
      <4> QED BY <3>3, <4>1, Steps
    <3>5. t = ReaderPlace("start")
      BY <3>4 DEF ReaderPlace, At, Within
    <3>6. Snarf(in) = [in EXCEPT !.lineBreak = FALSE, !.leftover = Tail(b)]
      BY <1>1, <2>1, <2>3, <3>4, SnarfTakes DEF b
    <3> QED BY <1>5, <3>2, <3>3, <3>5, <3>6
  <2> QED BY <2>2, <2>3
<1> QED BY <1>7, <1>8

(* Between messages. *)
LEMMA AwaitNextMessageSteps ==
  ASSUME FramingInv, NEW n, AwaitNextMessage(n)
  PROVE  FramingInv'
<1> DEFINE i == Snarf(in)
           s == in.leftover
<1>1. /\ FramingTypeOK /\ ReaderOK /\ in.phase = "idle" /\ in \in Ins
      /\ out' = out /\ eof' = eof /\ sent' = sent /\ rcvd' = rcvd
      /\ s \in Seq(Characters) /\ wire \in Seq(Characters) /\ Pending \in Seq(Characters)
      /\ in.buffer = <<>>
  BY InIs, FlightIs DEF FramingInv, ReaderOK, AwaitNextMessage
<1>2. \/ (i.leftover # <<>> \/ i # in) /\ in' = i /\ wire' = wire
      \/ /\ i.leftover = <<>> /\ i = in /\ n \in 1..Len(wire)
         /\ in' = [i EXCEPT !.leftover = SubSeq(wire, 1, n)]
         /\ wire' = SubSeq(wire, n + 1, Len(wire))
  BY DEF AwaitNextMessage
<1>3. Pending' = Pending
  BY <1>1, WriterStays
<1>4. ASSUME in' \in Ins, in'.phase = "idle", in'.asked = in.asked,
             in'.pendingMessageCount = in.pendingMessageCount, in'.left = in.left,
             in'.buffer = <<>>, in'.busy = in.busy, in'.bad = in.bad,
             wire' \in Seq(Characters), InStep'
      PROVE  FramingInv'
  <2>1. ReaderOK'
    BY <1>1, <1>4 DEF ReaderOK
  <2>2. ReadWasWritten'
    BY <1>1, <1>4, SameRead
  <2> QED BY <1>1, <1>4, <2>1, <2>2, InIs, ReaderSteps
<1>5. CASE in' = in /\ wire' = wire
  <2>1. InFlight' = InFlight
    BY <1>3, <1>5 DEF InFlight
  <2>2. InStep'
    BY <1>1, <1>5, <2>1, ReaderWaits
  <2> QED BY <1>1, <1>4, <1>5, <2>2
<1>6. CASE in.lineBreak /\ s # <<>> /\ in' = i /\ wire' = wire
  <2> DEFINE u == wire \o Pending
  <2>1. u \in Seq(Characters) /\ InFlight = s \o u
    BY <1>1, Joints DEF InFlight
  <2>2. PICK at \in ReaderPoints, q \in Places :
          Leads(ReaderPlace(at), s \o u, q, sent) /\ (~Cut => q = WriterPlace)
    BY <1>1, <2>1 DEF FramingInv, InStep
  <2>3. at \in {"endCR", "endLF"}
    BY <1>1, <1>6, <2>2 DEF ReaderPoints
  <2> HIDE DEF i
  <2>4. \/ i = Opened(TRUE, <<>>, <<>>) /\ Leads(ReaderPlace("endLF"), u, q, sent)
        \/ \E rest \in Seq(Characters) :
             /\ i = Opened(FALSE, <<>>, rest)
             /\ Leads(ReaderPlace("start"), rest \o u, q, sent)
    BY <1>1, <1>6, <2>1, <2>2, <2>3, SnarfLeads DEF i
  <2>5. PICK z \in Seq(Characters) : z = <<>>
    BY EmptySeq
  <2>6. ASSUME NEW b \in BOOLEAN, NEW rest \in Seq(Characters), in' = Opened(b, z, rest),
               NEW to, to = IF b THEN "endLF" ELSE "start",
               Leads(ReaderPlace(to), rest \o u, q, sent)
        PROVE  FramingInv'
    <3>1. /\ in' \in Ins /\ in'.leftover = rest /\ (in'.lineBreak <=> b) /\ in'.buffer = z
          /\ in'.phase = in.phase /\ in'.asked = in.asked
          /\ in'.pendingMessageCount = in.pendingMessageCount /\ in'.left = in.left
          /\ in'.busy = in.busy /\ in'.bad = in.bad
      BY <1>1, <2>6, OpenedIs
    <3>2. InFlight' = rest \o u
      <4>1. in'.buffer \o in'.leftover = rest
        BY <2>5, <3>1, Joints
      <4> QED BY ONLY <1>3, <1>6, <4>1 DEF InFlight
    <3>3. to \in ReaderPoints'
      BY <1>1, <2>6, <3>1 DEF ReaderPoints
    <3>4. ReaderPlace(to) = ReaderPlace(to)'
      BY ONLY <1>1, <3>1 DEF ReaderPlace, LastRead
    <3>5. Leads(ReaderPlace(to), InFlight', q, sent)
      BY <2>6, <3>2
    <3>6. InStep'
      BY ONLY <1>1, <2>2, <3>3, <3>4, <3>5, ReaderArrives
    <3> QED BY <1>1, <1>4, <1>6, <2>5, <3>1, <3>6
  <2>7. CASE i = Opened(TRUE, <<>>, <<>>) /\ Leads(ReaderPlace("endLF"), u, q, sent)
    <3>1. PICK b \in BOOLEAN, to \in {"start", "endLF"} : b = TRUE /\ to = "endLF"
      OBVIOUS
    <3>2. in' = Opened(b, z, z)
      BY <1>6, <2>5, <2>7, <3>1
    <3>3. Leads(ReaderPlace(to), z \o u, q, sent)
      <4>1. z \o u = u
        BY <2>1, <2>5, Joints
      <4> QED BY ONLY <2>7, <3>1, <4>1
    <3>4. to = IF b THEN "endLF" ELSE "start"
      BY <3>1
    <3> QED BY ONLY <2>6, <3>2, <3>3, <3>4
  <2>8. CASE \E rest \in Seq(Characters) :
               /\ i = Opened(FALSE, <<>>, rest)
               /\ Leads(ReaderPlace("start"), rest \o u, q, sent)
    <3>1. PICK b \in BOOLEAN, to \in {"start", "endLF"} : b = FALSE /\ to = "start"
      OBVIOUS
    <3>2. PICK rest \in Seq(Characters) :
            i = Opened(FALSE, <<>>, rest) /\ Leads(ReaderPlace("start"), rest \o u, q, sent)
      BY <2>8
    <3>3. in' = Opened(b, z, rest) /\ Leads(ReaderPlace(to), rest \o u, q, sent)
      BY <1>6, <2>5, <3>1, <3>2
    <3>4. to = IF b THEN "endLF" ELSE "start"
      BY <3>1
    <3> QED BY ONLY <2>6, <3>3, <3>4
  <2> QED BY <2>4, <2>7, <2>8
<1>7. CASE /\ s = <<>> /\ n \in 1..Len(wire)
           /\ in' = [in EXCEPT !.leftover = SubSeq(wire, 1, n)]
           /\ wire' = SubSeq(wire, n + 1, Len(wire))
  <2> DEFINE a == SubSeq(wire, 1, n)
             r == SubSeq(wire, n + 1, Len(wire))
  <2>1. a \in Seq(Characters) /\ r \in Seq(Characters) /\ a \o r = wire
    <3>1. Len(wire) \in Nat
      BY <1>1
    <3>2. n \in Nat /\ n <= Len(wire)
      BY <1>7, <3>1
    <3> QED BY <1>1, <3>2, Taken
  <2> HIDE DEF a, r
  <2>2. /\ in' \in Ins /\ in'.leftover = a /\ in'.lineBreak = in.lineBreak
        /\ in'.buffer = in.buffer /\ in'.phase = in.phase /\ in'.asked = in.asked
        /\ in'.pendingMessageCount = in.pendingMessageCount /\ in'.left = in.left
        /\ in'.busy = in.busy /\ in'.bad = in.bad
    <3>1. in' = [in EXCEPT !.leftover = a]
      BY <1>7 DEF a
    <3> QED BY <1>1, <2>1, <3>1 DEF Ins
  <2>3. InFlight' = InFlight
    <3>1. a \in Seq(Characters) /\ r \in Seq(Characters) /\ Pending \in Seq(Characters)
      BY <1>1, <2>1
    <3>2. InFlight = wire \o Pending
      <4>1. in.buffer \o in.leftover = <<>> /\ wire \o Pending \in Seq(Characters)
        BY <1>1, <1>7, Joints
      <4> QED BY <4>1, Joints DEF InFlight
    <3>3. InFlight' = a \o (r \o Pending)
      <4>1. in'.buffer \o in'.leftover = a
        BY <1>1, <2>2, <3>1, Joints
      <4>2. wire' = r
        BY <1>7 DEF r
      <4> QED BY ONLY <1>3, <4>1, <4>2 DEF InFlight
    <3>4. (a \o r) \o Pending = a \o (r \o Pending)
      BY ONLY <3>1, Rejoined
    <3> QED BY ONLY <2>1, <3>2, <3>3, <3>4
  <2>4. InStep'
    BY <1>1, <2>2, <2>3, ReaderWaits
  <2>5. wire' \in Seq(Characters)
    BY <1>7, <2>1 DEF r
  <2> QED BY <1>1, <1>4, <2>2, <2>4, <2>5
<1>8. ~in.lineBreak \/ s = <<>> => i = in
  BY <1>1, SnarfTakes
<1> HIDE DEF i
<1> QED BY <1>2, <1>5, <1>6, <1>7, <1>8

-----------------------------------------------------------------------------
(* The theorems                                                             *)

(* Nothing has been sent: both ends are at the start. *)
LEMMA FramingBegins == HttpInit => FramingInv
<1> SUFFICES ASSUME HttpInit PROVE FramingInv
  OBVIOUS
<1> DEFINE p == [at |-> "start", m |-> 0, f |-> 0, got |-> 0, left |-> 0]
<1>1. PICK z \in Seq(Characters) : z = <<>>
  BY EmptySeq
<1>2. /\ out = [queue |-> z, text |-> z, op |-> NoOp, inBody |-> FALSE,
                writeInProgress |-> FALSE, broken |-> FALSE, framing |-> 0,
                length |-> 0, finished |-> TRUE]
      /\ wire = z /\ ~eof /\ eof \in BOOLEAN
      /\ in = [phase |-> "idle", asked |-> 0, pendingMessageCount |-> 0,
               leftover |-> z, buffer |-> z, lineBreak |-> FALSE,
               left |-> 0, busy |-> FALSE, clean |-> TRUE, broken |-> FALSE,
               bad |-> FALSE]
      /\ sent = <<>> /\ rcvd = <<>>
  BY <1>1 DEF HttpInit
<1>3. /\ out \in Outs /\ out.queue = z /\ out.text = z /\ out.op = NoOp /\ ~out.inBody
      /\ ~out.writeInProgress /\ ~out.broken /\ out.finished
  <2>1. NoOp \in Ops /\ 0 \in Int
    BY DEF NoOp, Ops
  <2> QED BY <1>2, <2>1 DEF Outs
<1>4. /\ in \in Ins /\ in.phase = "idle" /\ in.asked = 0 /\ in.pendingMessageCount = 0
      /\ in.leftover = z /\ in.buffer = z /\ ~in.lineBreak /\ in.left = 0 /\ ~in.busy
      /\ ~in.bad
  <2>1. 0 \in Int /\ 0 \in Nat
    OBVIOUS
  <2> QED BY <1>2, <2>1 DEF Ins
<1>5. FramingTypeOK
  <2>1. sent \in Seq(Messages) /\ rcvd \in Seq(Read)
    BY <1>2, EmptySeq
  <2> QED BY <1>2, <1>3, <1>4, <2>1 DEF FramingTypeOK, Outs, Ins, Read
<1>6. NoOp.kind = "none" /\ NoOp.promised = 0 /\ NoOp.count = 0
  BY DEF NoOp
<1>7. WriterOK
  BY <1>1, <1>2, <1>3, <1>6 DEF WriterOK
<1>8. ReaderOK
  BY <1>1, <1>4 DEF ReaderOK
<1>9. Len(<<>>) = 0 /\ 1..0 = {}
  OBVIOUS
<1>10. ReadWasWritten
  BY <1>2, <1>4, <1>9 DEF ReadWasWritten
<1>11. InStep
  <2>1. "start" \in ReaderPoints
    BY <1>4 DEF ReaderPoints
  <2>2. ReaderPlace("start") = p /\ WriterPlace = p
    BY <1>2, <1>4, <1>9 DEF ReaderPlace, WriterPlace
  <2>3. InFlight = <<>>
    <3>1. Pending = z /\ <<>> \o <<>> = <<>>
      BY <1>1, <1>3, Joints DEF Pending
    <3> QED BY <1>1, <1>2, <1>4, <3>1 DEF InFlight
  <2>4. p \in Places
    BY DEF Places, Points
  <2>5. Fits(p, sent)
    BY <1>2, <1>9 DEF Fits, IsEnd, InChunks, InHead, NothingLeft
  <2>6. Leads(p, <<>>, p, sent)
    BY ONLY <2>4, <2>5, LeadsNowhere
  <2> HIDE DEF p
  <2> QED BY <2>1, <2>2, <2>3, <2>4, <2>6 DEF InStep
<1> QED BY <1>5, <1>7, <1>8, <1>10, <1>11 DEF FramingInv

(* A step of nobody. *)
LEMMA FramingStays ==
  ASSUME FramingInv, UNCHANGED httpVars
  PROVE  FramingInv'
<1>1. /\ out' = out /\ wire' = wire /\ eof' = eof /\ in' = in /\ sent' = sent /\ rcvd' = rcvd
      /\ FramingTypeOK /\ ReaderOK
  BY DEF httpVars, FramingInv
<1>2. InFlight' = InFlight
  BY <1>1, WriterStays DEF InFlight
<1>3. InStep' /\ ReadWasWritten'
  BY <1>1, <1>2, ReaderWaits, SameRead
<1>4. ReaderOK'
  BY <1>1 DEF ReaderOK, NoHeader, LastRead
<1> QED BY <1>1, <1>3, <1>4, InIs, ReaderSteps

(* Every step of either end. *)
LEMMA FramingGoesOn ==
  ASSUME NoEmptyPump, FramingInv, HttpNext
  PROVE  FramingInv'
<1>1. CASE \E f \in Framings : WriteHeaders(f)
  BY <1>1, WriteHeadersSteps
<1>2. CASE \E n \in WriteSizes : FixedWrite(n) \/ ChunkedWrite(n)
  BY <1>2, FixedWriteSteps, ChunkedWriteSteps
<1>3. CASE \E p \in Pumps : FixedPump(p) \/ ChunkedPump(p)
  BY <1>3, FixedPumpSteps, ChunkedPumpSteps
<1>4. CASE \E n \in 1..MaxRead : InnerAccepts(n)
  BY <1>4, InnerAcceptsSteps
<1>5. CASE WriteReturns \/ CancelWrite \/ DropWriter \/ CloseWire
  BY <1>5, WriteReturnsSteps, CancelWriteSteps, DropWriterSteps, CloseWireSteps
<1>6. CASE ReadMessage \/ NextMessage \/ TryRead \/ CancelRead \/ DropReader
  BY <1>6, ReadMessageSteps, NextMessageSteps, TryReadSteps, CancelReadSteps, DropReaderSteps
<1>7. CASE \E n \in 0..MaxRead : ReadHeader(n)
  BY <1>7, ReadHeaderSteps
<1>8. CASE \E n \in 0..MaxRead, max \in WriteSizes : ReadData(n, max)
  BY <1>8, ReadDataSteps
<1>9. CASE \E n \in 0..MaxRead : AwaitNextMessage(n)
  BY <1>9, AwaitNextMessageSteps
<1> QED BY <1>1, <1>2, <1>3, <1>4, <1>5, <1>6, <1>7, <1>8, <1>9 DEF HttpNext

(* The inductive invariant of one direction of a connection (HttpOutputStream
   and HttpInputStreamImpl with their entity writers and readers, http.cc
   1297-1813 and 1814-2503): what is in flight leads from where the reader is to
   where the writer is, or to where it was cut off, and everything behind the
   reader was read as it was written. *)
THEOREM FramingInvariant ==
  ASSUME NoEmptyPump
  PROVE  HttpSpec => []FramingInv
<1>1. FramingInv /\ [HttpNext]_httpVars => FramingInv'
  BY FramingGoesOn, FramingStays
<1> QED BY <1>1, FramingBegins, PTL DEF HttpSpec

(* Bytes begin with fewer bytes. *)
LEMMA BytesBegin ==
  ASSUME NEW k \in Nat, NEW n \in Nat, k <= n
  PROVE  IsPrefix(Bytes(0, k), Bytes(0, n))
<1> DEFINE a == Bytes(0, k)
           b == Bytes(0, n)
<1>1. /\ a \in Seq(Characters) /\ Len(a) = k /\ \A i \in 1..k : a[i] = <<"byte", 0 + i>>
      /\ b \in Seq(Characters) /\ Len(b) = n /\ \A i \in 1..n : b[i] = <<"byte", 0 + i>>
  BY BytesAre
<1> HIDE DEF a, b
<1>2. /\ SubSeq(a, 1, k) \in Seq(Characters) /\ Len(SubSeq(a, 1, k)) = k
      /\ \A i \in 1..k : SubSeq(a, 1, k)[i] = a[i]
  BY <1>1, Taken
<1>3. /\ SubSeq(b, 1, k) \in Seq(Characters) /\ Len(SubSeq(b, 1, k)) = k
      /\ \A i \in 1..k : SubSeq(b, 1, k)[i] = b[i]
  BY <1>1, Taken
<1>4. ASSUME NEW i \in 1..k PROVE a[i] = b[i]
  <2>1. i \in 1..n /\ i \in 1..k
    OBVIOUS
  <2>2. a[i] = <<"byte", 0 + i>> /\ b[i] = <<"byte", 0 + i>>
    BY <1>1, <2>1
  <2> QED BY ONLY <2>2
<1> DEFINE x == SubSeq(a, 1, k)
           y == SubSeq(b, 1, k)
<1>5. x = y
  <2> HIDE DEF x, y
  <2>1. x \in Seq(Characters) /\ y \in Seq(Characters) /\ Len(x) = Len(y)
        /\ \A i \in 1..Len(x) : x[i] = y[i]
    BY <1>2, <1>3, <1>4 DEF x, y
  <2> QED BY <2>1, SeqEqual
<1> QED BY <1>1, <1>5 DEF IsPrefix, a, b

(* What the invariant says of the messages read is that the ends agree. *)
LEMMA AgreesInStep == FramingInv => FramingIsAgreed
<1> SUFFICES ASSUME FramingInv PROVE FramingIsAgreed
  OBVIOUS
<1>1. FramingTypeOK /\ ReadWasWritten /\ sent \in Seq(Messages) /\ rcvd \in Seq(Read)
  BY InIs DEF FramingInv
<1>2. ~in.bad /\ Len(rcvd) <= Len(sent) /\ Len(rcvd) \in Nat /\ Len(sent) \in Nat
  BY <1>1 DEF ReadWasWritten
<1>3. ASSUME NEW m \in 1..Len(rcvd)
      PROVE  /\ rcvd[m].framing = sent[m].framing
             /\ IsPrefix(rcvd[m].data, Bytes(0, sent[m].bytes))
             /\ rcvd[m].ended => /\ Len(rcvd[m].data) = sent[m].bytes
                                 /\ IF sent[m].framing = Chunked THEN sent[m].ended
                                    ELSE sent[m].bytes = sent[m].framing
  <2>1. /\ rcvd[m].framing = sent[m].framing
        /\ rcvd[m].data = Bytes(0, Len(rcvd[m].data)) /\ Len(rcvd[m].data) <= sent[m].bytes
        /\ rcvd[m].ended => Len(rcvd[m].data) = sent[m].bytes /\ Complete(sent[m])
    BY <1>1 DEF ReadWasWritten
  <2>2. m \in 1..Len(sent)
    BY <1>2
  <2>3. sent[m].bytes \in Nat
    BY <1>1, <2>2, LogHas
  <2>4. Len(rcvd[m].data) \in Nat
    <3>1. rcvd[m] \in Read
      BY <1>1
    <3>2. rcvd[m].data \in Seq(Characters)
      BY <3>1 DEF Read
    <3> QED BY <3>2
  <2>5. IsPrefix(rcvd[m].data, Bytes(0, sent[m].bytes))
    <3>1. IsPrefix(Bytes(0, Len(rcvd[m].data)), Bytes(0, sent[m].bytes))
      BY <2>1, <2>3, <2>4, BytesBegin
    <3> QED BY ONLY <2>1, <3>1
  <2> QED BY <2>1, <2>5 DEF Complete
<1> QED BY <1>2, <1>3 DEF FramingIsAgreed

(* FramingIsAgreed holds for any Content-Lengths, sizes of writes and of reads,
   and any number of messages: however the connection splits what is written
   and wherever a write, a read, a body or the connection ends too early, the
   entity readers of http.cc hand over what the entity writers were given, and
   report the end of a body only when it has come. *)
THEOREM FramingIsAlwaysAgreed ==
  ASSUME NoEmptyPump
  PROVE  HttpSpec => []FramingIsAgreed
BY FramingInvariant, AgreesInStep, PTL

(* Where nothing but the next message can begin, and has not, nothing is
   left. *)
LEMMA NothingBegins ==
  ASSUME NEW p, p.at = "start", NEW s \in Seq(Characters), NEW q, NEW log,
         Leads(p, s, q, log), q.m = p.m, p.m \in Nat
  PROVE  s = <<>>
<1> SUFFICES ASSUME s # <<>> PROVE FALSE
  OBVIOUS
<1>1. PICK r \in Places : Takes(p, s[1], r) /\ Leads(r, Tail(s), q, log)
  BY FirstStep
<1>2. Tail(s) \in Seq(Characters)
  BY SMTT(30)
<1>3. r.m = p.m + 1
  <2>1. PICK f \in Framings : r = [Begun(p, f) EXCEPT !.at = "headCR"]
    BY <1>1, Steps
  <2> QED BY <2>1 DEF Begun
<1>4. r.m <= q.m
  BY <1>1, <1>2, LeadsAhead
<1> QED BY <1>3, <1>4

(* A writer between messages is at their start, so a reader that has read them
   all has at most the line break of the last chunk before it. *)
LEMMA ReusableIsClean == FramingInv => ReuseStartsClean
<1> SUFFICES ASSUME FramingInv, CanReuseOutput, CanReuseInput, out.queue = <<>>, wire = <<>>,
                    ~eof, Len(rcvd) = Len(sent)
             PROVE  DrainsClean
  BY DEF ReuseStartsClean
<1> DEFINE s == in.leftover
<1>1. /\ FramingTypeOK /\ WriterOK /\ ReaderOK /\ in \in Ins /\ s \in Seq(Characters)
      /\ out.op.kind \in {"none", "write", "pump"}
      /\ in.pendingMessageCount = 0 /\ in.asked \in Nat
  BY InIs, OutIs DEF FramingInv, CanReuseInput
<1>2. /\ out.op.kind = "none" /\ out.finished /\ ~out.broken /\ ~Cut /\ out.text = <<>>
  BY <1>1 DEF CanReuseOutput, WriterOK, Cut, WriteLost
<1>3. in.phase = "idle" /\ in.buffer = <<>>
  BY <1>1 DEF ReaderOK
<1>4. WriterPlace.at = "start" /\ WriterPlace.m = Len(sent)
  BY <1>1, <1>2, FinishedAtStart
<1>5. InFlight = s
  <2>1. Pending = <<>> /\ <<>> \o <<>> = <<>>
    BY <1>2, Joints DEF Pending
  <2>2. in.buffer \o in.leftover = s /\ s \o <<>> = s
    BY <1>1, <1>3, Joints
  <2> QED BY <2>1, <2>2 DEF InFlight
<1>6. PICK at \in ReaderPoints, q \in Places :
        Leads(ReaderPlace(at), s, q, sent) /\ q = WriterPlace
  BY <1>2, <1>3, <1>5 DEF FramingInv, InStep
<1>7. /\ at \in IF in.lineBreak THEN {"endCR", "endLF"} ELSE {"start"}
      /\ \A x : ReaderPlace(x).at = x /\ ReaderPlace(x).m = Len(rcvd)
      /\ q.at = "start" /\ q.m = Len(rcvd) /\ Len(rcvd) \in Nat
  BY <1>1, <1>3, <1>4, <1>6, InIs DEF ReaderPoints, ReaderPlace
<1>8. ASSUME NEW rest \in Seq(Characters), Leads(ReaderPlace("start"), rest, q, sent)
      PROVE  rest = <<>>
  BY <1>7, <1>8, NothingBegins
<1>9. CASE ~in.lineBreak
  <2>1. s = <<>>
    BY <1>1, <1>6, <1>7, <1>8, <1>9
  <2>2. Snarf(in) = in
    BY <1>1, <1>9, SnarfTakes
  <2> QED BY <1>3, <1>9, <2>1, <2>2 DEF DrainsClean
<1>10. CASE in.lineBreak /\ s = <<>>
  <2>1. ReaderPlace(at) = q
    BY <1>6, <1>10, NowhereElse
  <2> QED BY <1>7, <1>10, <2>1
<1>11. CASE in.lineBreak /\ s # <<>>
  <2>1. PICK u \in Seq(Characters) : u = <<>>
    BY EmptySeq
  <2>2. Leads(ReaderPlace(at), s \o u, q, sent)
    <3>1. s \o u = s
      BY <1>1, <2>1, Joints
    <3> QED BY <1>6, <3>1
  <2>3. at \in {"endCR", "endLF"}
    BY <1>7, <1>11
  <2>4. \/ Leads(ReaderPlace("endLF"), u, q, sent)
        \/ \E rest \in Seq(Characters) :
             Snarf(in) = Opened(FALSE, <<>>, rest) /\ Leads(ReaderPlace("start"), rest \o u, q, sent)
    BY <1>3, <1>11, <2>2, <2>3, SnarfLeads
  <2>5. CASE Leads(ReaderPlace("endLF"), u, q, sent)
    <3>1. ReaderPlace("endLF") = q
      BY <2>1, <2>5, NowhereElse
    <3> QED BY <1>7, <3>1
  <2>6. CASE \E rest \in Seq(Characters) :
               Snarf(in) = Opened(FALSE, <<>>, rest) /\ Leads(ReaderPlace("start"), rest \o u, q, sent)
    <3>1. PICK rest \in Seq(Characters) :
            Snarf(in) = Opened(FALSE, <<>>, rest) /\ Leads(ReaderPlace("start"), rest \o u, q, sent)
      BY <2>6
    <3>2. rest \o u = rest
      BY <2>1, Joints
    <3>3. rest = <<>>
      BY <1>8, <3>1, <3>2
    <3>4. Snarf(in) = [in EXCEPT !.leftover = <<>>, !.lineBreak = FALSE, !.buffer = <<>>]
      BY <3>1, <3>3 DEF Opened
    <3>5. ~Snarf(in).lineBreak /\ Snarf(in).leftover = <<>>
      BY <1>1, <3>4 DEF Ins
    <3> QED BY <1>3, <3>5 DEF DrainsClean
  <2> QED BY <2>4, <2>5, <2>6
<1> QED BY <1>9, <1>10, <1>11

(* ReuseStartsClean holds of every such connection: when canReuse() is true at
   both ends and nothing is in flight, isCleanDrain() is true, and the next
   message starts where the reader looks for it. *)
THEOREM ReuseAlwaysStartsClean ==
  ASSUME NoEmptyPump
  PROVE  HttpSpec => []ReuseStartsClean
BY FramingInvariant, ReusableIsClean, PTL
=============================================================================
