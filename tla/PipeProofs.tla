----------------------------- MODULE PipeProofs -----------------------------
(***************************************************************************)
(* Proofs about AsyncPipe: for any pieces, pumps, reads and amounts, and   *)
(* whatever is dropped or closed while it waits, the two ends are told the *)
(* truth about their bytes, and neither waits for nobody.                  *)
(*                                                                         *)
(* TransfersAreExact speaks of operations that have succeeded.  PipeInv    *)
(* adds what holds before: what has gone across since a write or a pump    *)
(* began, followed by the pieces still on offer and those set aside, is    *)
(* what was offered, in order; a read has counted what has come since it   *)
(* began; and what was asked of the stream of a pump fits both ends when   *)
(* it answers.  NobodyIsStranded is inductive only with the rest: a step   *)
(* that ends one wait must know how far the other operation is.            *)
(*                                                                         *)
(* Pieces are cut and joined by recursive functions, whose values are      *)
(* found by induction over the number of pieces: a set that contains 0 and *)
(* with each number the next one is Nat.                                   *)
(***************************************************************************)
EXTENDS AsyncPipe, SequenceTheorems, WellFoundedInduction, TLAPS

-----------------------------------------------------------------------------
(* Sequences of pieces                                                     *)

\* A set that contains 0 and the successor of each of its members is Nat.
LEMMA CountingUp ==
  ASSUME NEW S \in SUBSET Nat, 0 \in S, \A n \in S : n + 1 \in S
  PROVE  S = Nat
<1> DEFINE R == OpToRel(<, Nat)
<1>1. SUFFICES ASSUME Nat \ S # {} PROVE FALSE
  BY <1>1
<1>2. PICK n \in Nat \ S : \A m \in Nat \ S : <<m, n>> \notin R
  <2>1. IsWellFoundedOn(R, Nat)
    BY NatLessThanWellFounded
  <2>2. Nat \ S \subseteq Nat
    OBVIOUS
  <2> HIDE DEF R
  <2> QED BY <1>1, <2>1, <2>2, WFMin
<1>3. \A m \in Nat \ S : ~(m < n)
  BY <1>2 DEF OpToRel
<1> HIDE DEF R
<1>4. n # 0 /\ n - 1 \in Nat /\ n - 1 < n
  BY <1>2
<1>5. n - 1 \in S
  BY <1>3, <1>4
<1>6. (n - 1) + 1 \in S
  BY <1>5
<1> QED BY <1>2, <1>4, <1>6

\* The order in which sequences are joined does not matter.
LEMMA Joined == \A x, y, z \in Seq(Nat) : x \o (y \o z) = (x \o y) \o z
<1> SUFFICES ASSUME NEW x \in Seq(Nat), NEW y \in Seq(Nat), NEW z \in Seq(Nat)
             PROVE  x \o (y \o z) = (x \o y) \o z
  OBVIOUS
<1> QED BY SMTT(30)

\* What the recursive function in FlattenSeq() is, for the first n pieces.
Flattens(f, ps, n) ==
  f = [i \in 1..n |-> IF i = 1 THEN ps[i] ELSE f[i - 1] \o ps[i]]

\* There is such a function for every list of pieces.
LEMMA FlattensExists == ASSUME NEW ps PROVE \A n \in Nat : \E f : Flattens(f, ps, n)
<1> DEFINE S == {n \in Nat : \E f : Flattens(f, ps, n)}
<1>1. 0 \in S
  <2>1. Flattens([i \in 1..0 |-> 0], ps, 0)
    BY DEF Flattens
  <2> QED BY <2>1
<1>2. ASSUME NEW n \in S PROVE n + 1 \in S
  <2>1. PICK f : Flattens(f, ps, n)
    BY <1>2
  <2> DEFINE g == [i \in 1..(n + 1) |-> IF i = 1 THEN ps[i] ELSE f[i - 1] \o ps[i]]
  <2>2. \A i \in 1..n : f[i] = IF i = 1 THEN ps[i] ELSE f[i - 1] \o ps[i]
    BY <2>1 DEF Flattens
  <2>3. \A i \in 1..n : g[i] = f[i]
    BY <2>2
  <2>4. g = [i \in 1..(n + 1) |-> IF i = 1 THEN ps[i] ELSE g[i - 1] \o ps[i]]
    <3>1. \A i \in 1..(n + 1) : i # 1 => i - 1 \in 1..n
      OBVIOUS
    <3>2. \A i \in 1..(n + 1) : i # 1 => g[i - 1] = f[i - 1]
      BY <2>3, <3>1
    <3> HIDE DEF g
    <3>3. \A i \in 1..(n + 1) : (IF i = 1 THEN ps[i] ELSE f[i - 1] \o ps[i])
                                = (IF i = 1 THEN ps[i] ELSE g[i - 1] \o ps[i])
      BY <3>2
    <3> QED BY <3>3 DEF g
  <2>5. Flattens(g, ps, n + 1)
    <3> HIDE DEF g
    <3> QED BY <2>4 DEF Flattens
  <2> HIDE DEF g
  <2> QED BY <1>2, <2>5
<1> HIDE DEF S
<1>3. S = Nat
  <2>1. S \in SUBSET Nat
    BY DEF S
  <2> QED BY <1>1, <1>2, <2>1, CountingUp
<1> QED BY <1>3 DEF S

\* There is only one such function.
LEMMA FlattensIsOne ==
  ASSUME NEW ps, NEW n \in Nat, NEW f, NEW g, Flattens(f, ps, n), Flattens(g, ps, n)
  PROVE  \A i \in 1..n : f[i] = g[i]
<1> DEFINE S == {k \in Nat : k \in 1..n => f[k] = g[k]}
<1>1. \A i \in 1..n : f[i] = IF i = 1 THEN ps[i] ELSE f[i - 1] \o ps[i]
  BY DEF Flattens
<1>2. \A i \in 1..n : g[i] = IF i = 1 THEN ps[i] ELSE g[i - 1] \o ps[i]
  BY DEF Flattens
<1>3. 0 \in S
  OBVIOUS
<1>4. ASSUME NEW k \in S PROVE k + 1 \in S
  <2> SUFFICES ASSUME k + 1 \in 1..n PROVE f[k + 1] = g[k + 1]
    BY <1>4
  <2>1. CASE k = 0
    BY <1>1, <1>2, <2>1
  <2>2. CASE k # 0
    <3>1. k \in 1..n /\ (k + 1) - 1 = k /\ k + 1 # 1
      BY <1>4, <2>2
    <3>2. f[k] = g[k]
      BY <1>4, <3>1
    <3>3. f[k + 1] = f[k] \o ps[k + 1] /\ g[k + 1] = g[k] \o ps[k + 1]
      BY <1>1, <1>2, <3>1
    <3> QED BY <3>2, <3>3
  <2> QED BY <2>1, <2>2
<1> HIDE DEF S
<1>5. S = Nat
  <2>1. S \in SUBSET Nat
    BY DEF S
  <2> QED BY <1>3, <1>4, <2>1, CountingUp
<1> QED BY <1>5 DEF S

\* So FlattenSeq() is its last value.
LEMMA FlattenIs ==
  ASSUME NEW ps, Len(ps) \in Nat \ {0}, NEW f, Flattens(f, ps, Len(ps))
  PROVE  FlattenSeq(ps) = f[Len(ps)]
<1> DEFINE n == Len(ps)
           h == CHOOSE h : h = [i \in 1..n |-> IF i = 1 THEN ps[i] ELSE h[i - 1] \o ps[i]]
<1>1. Flattens(h, ps, n)
  BY Zenon DEF Flattens
<1>2. FlattenSeq(ps) = h[n]
  BY DEF FlattenSeq
<1> HIDE DEF h
<1> QED BY <1>1, <1>2, FlattensIsOne

\* One more piece at the end.
LEMMA FlattenAppend ==
  ASSUME NEW ps \in Seq(Seq(Nat)), NEW x \in Seq(Nat), FlattenSeq(ps) \in Seq(Nat)
  PROVE  FlattenSeq(Append(ps, x)) = FlattenSeq(ps) \o x
<1> DEFINE n == Len(ps)
           qs == Append(ps, x)
<1>0. n \in Nat /\ qs \in Seq(Seq(Nat)) /\ Len(qs) = n + 1 /\ qs[n + 1] = x /\ \A i \in 1..n : qs[i] = ps[i]
  OBVIOUS
<1>1. PICK f : Flattens(f, ps, n)
  BY <1>0, FlattensExists
<1> DEFINE g == [i \in 1..(n + 1) |-> IF i = 1 THEN qs[i] ELSE f[i - 1] \o qs[i]]
<1> HIDE DEF n, qs
<1>2. \A i \in 1..n : f[i] = IF i = 1 THEN ps[i] ELSE f[i - 1] \o ps[i]
  BY <1>1 DEF Flattens
<1>3. \A i \in 1..n : g[i] = f[i]
  BY <1>0, <1>2
<1>4. Flattens(g, qs, n + 1)
  <2>1. \A i \in 1..(n + 1) : i # 1 => i - 1 \in 1..n
    BY <1>0
  <2>2. \A i \in 1..(n + 1) : i # 1 => g[i - 1] = f[i - 1]
    BY <1>3, <2>1
  <2> HIDE DEF g
  <2>3. \A i \in 1..(n + 1) : (IF i = 1 THEN qs[i] ELSE f[i - 1] \o qs[i])
                              = (IF i = 1 THEN qs[i] ELSE g[i - 1] \o qs[i])
    BY <2>2
  <2> QED BY <2>3 DEF g, Flattens
<1>5. FlattenSeq(qs) = g[n + 1]
  <2>1. Len(qs) \in Nat \ {0}
    BY <1>0
  <2> HIDE DEF g
  <2> QED BY <1>0, <1>4, <2>1, FlattenIs
<1>6. CASE n = 0
  <2>1. ps = <<>>
    BY <1>6 DEF n
  <2>2. FlattenSeq(ps) = <<>>
    BY <2>1 DEF FlattenSeq
  <2>3. g[n + 1] = x
    BY <1>0, <1>6
  <2>4. <<>> \o x = x
    OBVIOUS
  <2> QED BY <1>5, <2>2, <2>3, <2>4 DEF qs
<1>7. CASE n # 0
  <2>1. Len(ps) \in Nat \ {0}
    BY <1>0, <1>7 DEF n
  <2>2. FlattenSeq(ps) = f[n]
    BY <1>1, <2>1, FlattenIs DEF n
  <2>3. n + 1 # 1 /\ n + 1 \in 1..(n + 1) /\ (n + 1) - 1 = n
    BY <1>0, <1>7
  <2>4. g[n + 1] = f[n] \o x
    BY <1>0, <2>3
  <2> QED BY <1>5, <2>2, <2>4 DEF qs
<1> QED BY <1>6, <1>7

\* A nonempty sequence is an Append.
LEMMA LastPiece ==
  ASSUME NEW T, NEW qs \in Seq(T), Len(qs) # 0
  PROVE  \E rs \in Seq(T), x \in T : qs = Append(rs, x) /\ Len(rs) = Len(qs) - 1
<1> DEFINE n == Len(qs)
           rs == SubSeq(qs, 1, n - 1)
<1>1. n \in Nat /\ n - 1 \in 0..n /\ n \in 1..n
  BY LenProperties
<1>2. rs \in Seq(T) /\ Len(rs) = n - 1 /\ \A i \in 1..(n - 1) : rs[i] = qs[i]
  <2>1. \A i \in 1..(n - 1) : qs[i] \in T
    BY <1>1
  <2>2. \A i \in 1..(n - 1) : (1 + i) - 1 = i
    OBVIOUS
  <2> HIDE DEF n
  <2>3. 1 \in Int /\ n - 1 \in Int /\ (n - 1) - 1 + 1 = n - 1 /\ (~(1 <= n - 1) => n - 1 = 0)
    BY <1>1
  <2>4. /\ rs \in Seq(T) /\ Len(rs) = IF 1 <= n - 1 THEN (n - 1) - 1 + 1 ELSE 0
        /\ \A i \in 1..((n - 1) - 1 + 1) : rs[i] = qs[1 + i - 1]
    BY <2>1, <2>3, SubSeqProperties
  <2> HIDE DEF rs
  <2> QED BY <1>1, <2>3, <2>4
<1>3. qs[n] \in T
  BY <1>1
<1> HIDE DEF rs
<1>4. Append(rs, qs[n]) \in Seq(T) /\ Len(Append(rs, qs[n])) = n
  BY <1>1, <1>2, <1>3
<1>5. \A i \in 1..n : Append(rs, qs[n])[i] = qs[i]
  BY <1>1, <1>2, <1>3
<1>6. qs = Append(rs, qs[n])
  BY <1>4, <1>5, SeqEqual
<1> QED BY <1>2, <1>3, <1>6

\* FlattenSeq() yields a sequence of bytes.
LEMMA FlattenType == \A ps \in Seq(Seq(Nat)) : FlattenSeq(ps) \in Seq(Nat)
<1> DEFINE S == {n \in Nat : \A ps \in Seq(Seq(Nat)) : Len(ps) = n => FlattenSeq(ps) \in Seq(Nat)}
<1>1. 0 \in S
  <2>1. \A ps \in Seq(Seq(Nat)) : Len(ps) = 0 => FlattenSeq(ps) = ps /\ ps = <<>>
    BY DEF FlattenSeq
  <2>2. <<>> \in Seq(Nat)
    OBVIOUS
  <2> QED BY <2>1, <2>2
<1>2. ASSUME NEW n \in S PROVE n + 1 \in S
  <2>1. ASSUME NEW qs \in Seq(Seq(Nat)), Len(qs) = n + 1 PROVE FlattenSeq(qs) \in Seq(Nat)
    <3>1. Len(qs) # 0
      BY <1>2, <2>1
    <3>2. PICK ps \in Seq(Seq(Nat)), x \in Seq(Nat) : qs = Append(ps, x) /\ Len(ps) = Len(qs) - 1
      BY <3>1, LastPiece
    <3>3. Len(ps) = n
      BY <1>2, <2>1, <3>2
    <3>4. FlattenSeq(ps) \in Seq(Nat)
      BY <1>2, <3>3
    <3>5. FlattenSeq(qs) = FlattenSeq(ps) \o x
      BY <3>2, <3>4, FlattenAppend
    <3>6. \A y, z \in Seq(Nat) : y \o z \in Seq(Nat)
      OBVIOUS
    <3> QED BY <3>4, <3>5, <3>6
  <2> QED BY <1>2, <2>1
<1> HIDE DEF S
<1>3. S = Nat
  <2>1. S \in SUBSET Nat
    BY DEF S
  <2> QED BY <1>1, <1>2, <2>1, CountingUp
<1> QED BY <1>3, LenProperties DEF S

\* The bytes of two lists of pieces, one behind the other.
LEMMA FlattenConcat ==
  \A ps, qs \in Seq(Seq(Nat)) : FlattenSeq(ps \o qs) = FlattenSeq(ps) \o FlattenSeq(qs)
<1> SUFFICES ASSUME NEW ps \in Seq(Seq(Nat))
             PROVE  \A qs \in Seq(Seq(Nat)) : FlattenSeq(ps \o qs) = FlattenSeq(ps) \o FlattenSeq(qs)
  OBVIOUS
<1> DEFINE S == {n \in Nat : \A qs \in Seq(Seq(Nat)) : Len(qs) = n =>
                   FlattenSeq(ps \o qs) = FlattenSeq(ps) \o FlattenSeq(qs)}
<1>0. FlattenSeq(ps) \in Seq(Nat)
  BY FlattenType
<1>1. 0 \in S
  <2>1. ASSUME NEW qs \in Seq(Seq(Nat)), Len(qs) = 0
        PROVE  FlattenSeq(ps \o qs) = FlattenSeq(ps) \o FlattenSeq(qs)
    <3>1. qs = <<>>
      BY <2>1
    <3>2. FlattenSeq(qs) = <<>>
      BY <2>1, <3>1 DEF FlattenSeq
    <3>3. ps \o <<>> = ps
      OBVIOUS
    <3>4. FlattenSeq(ps) \o <<>> = FlattenSeq(ps)
      <4> DEFINE y == FlattenSeq(ps)
      <4> HIDE DEF y
      <4>1. y \in Seq(Nat)
        BY <1>0 DEF y
      <4>2. y \o <<>> = y
        BY <4>1
      <4> QED BY <4>2 DEF y
    <3> QED BY <3>1, <3>2, <3>3, <3>4
  <2> QED BY <2>1
<1>2. ASSUME NEW n \in S PROVE n + 1 \in S
  <2>1. ASSUME NEW qs \in Seq(Seq(Nat)), Len(qs) = n + 1
        PROVE  FlattenSeq(ps \o qs) = FlattenSeq(ps) \o FlattenSeq(qs)
    <3>1. Len(qs) # 0
      BY <1>2, <2>1
    <3>2. PICK rs \in Seq(Seq(Nat)), x \in Seq(Nat) : qs = Append(rs, x) /\ Len(rs) = Len(qs) - 1
      BY <3>1, LastPiece
    <3>3. Len(rs) = n
      BY <1>2, <2>1, <3>2
    <3>4. FlattenSeq(ps \o rs) = FlattenSeq(ps) \o FlattenSeq(rs)
      BY <1>2, <3>3
    <3>5. ps \o rs \in Seq(Seq(Nat))
      <4>1. \A y, z \in Seq(Seq(Nat)) : y \o z \in Seq(Seq(Nat))
        OBVIOUS
      <4> QED BY <4>1
    <3>6. ps \o Append(rs, x) = Append(ps \o rs, x)
      <4> DEFINE T == Seq(Nat)
      <4> HIDE DEF T
      <4>1. ASSUME NEW y \in Seq(T), NEW z \in Seq(T), NEW e \in T
            PROVE  y \o Append(z, e) = Append(y \o z, e)
        <5>1. y \o Append(z, e) \in Seq(T) /\ Append(y \o z, e) \in Seq(T)
          BY <4>1
        <5>2. Len(y \o Append(z, e)) = Len(Append(y \o z, e))
          BY <4>1
        <5>3. \A i \in 1..Len(Append(y \o z, e)) : (y \o Append(z, e))[i] = Append(y \o z, e)[i]
          BY <4>1
        <5> QED BY <5>1, <5>2, <5>3, SeqEqual
      <4> QED BY <4>1 DEF T
    <3>7. FlattenSeq(rs) \in Seq(Nat) /\ FlattenSeq(ps \o rs) \in Seq(Nat)
      BY <3>5, FlattenType
    <3>8. FlattenSeq(Append(ps \o rs, x)) = FlattenSeq(ps \o rs) \o x
      BY <3>5, <3>7, FlattenAppend
    <3>9. FlattenSeq(Append(rs, x)) = FlattenSeq(rs) \o x
      BY <3>7, FlattenAppend
    <3>10. (FlattenSeq(ps) \o FlattenSeq(rs)) \o x = FlattenSeq(ps) \o (FlattenSeq(rs) \o x)
      <4> DEFINE u == FlattenSeq(ps)
                 v == FlattenSeq(rs)
      <4>1. u \in Seq(Nat) /\ v \in Seq(Nat)
        BY <1>0, <3>7
      <4> HIDE DEF u, v
      <4>2. u \o (v \o x) = (u \o v) \o x
        BY <3>2, <4>1, Joined
      <4> QED BY <4>2 DEF u, v
    <3> QED BY <3>2, <3>4, <3>6, <3>8, <3>9, <3>10, Zenon
  <2> QED BY <1>2, <2>1
<1> HIDE DEF S
<1>3. S = Nat
  <2>1. S \in SUBSET Nat
    BY DEF S
  <2> QED BY <1>1, <1>2, <2>1, CountingUp
<1> QED BY <1>3, LenProperties DEF S

\* No piece, and one piece.
LEMMA FlattenShort ==
  FlattenSeq(<<>>) = <<>> /\ \A x \in Seq(Nat) : FlattenSeq(<<x>>) = x
<1>1. FlattenSeq(<<>>) = <<>>
  BY DEF FlattenSeq
<1>2. ASSUME NEW x \in Seq(Nat) PROVE FlattenSeq(<<x>>) = x
  <2>1. <<>> \in Seq(Seq(Nat)) /\ <<>> \in Seq(Nat)
    OBVIOUS
  <2>2. Append(<<>>, x) = <<x>>
    OBVIOUS
  <2>3. FlattenSeq(Append(<<>>, x)) = <<>> \o x
    BY <1>1, <2>1, FlattenAppend
  <2>4. <<>> \o x = x
    OBVIOUS
  <2> QED BY <2>2, <2>3, <2>4
<1> QED BY <1>1, <1>2

\* The least of two numbers, and the greatest of a bounded set of numbers.
LEMMA LeastOfTwo ==
  \A a, b \in Nat : /\ Min({a, b}) \in Nat /\ Min({a, b}) <= a /\ Min({a, b}) <= b
                    /\ Min({a, b}) = a \/ Min({a, b}) = b
<1> SUFFICES ASSUME NEW a \in Nat, NEW b \in Nat
             PROVE  /\ Min({a, b}) \in Nat /\ Min({a, b}) <= a /\ Min({a, b}) <= b
                    /\ Min({a, b}) = a \/ Min({a, b}) = b
  OBVIOUS
<1>1. \E x \in {a, b} : \A y \in {a, b} : x <= y
  OBVIOUS
<1>2. Min({a, b}) \in {a, b} /\ \A y \in {a, b} : Min({a, b}) <= y
  <2> DEFINE m == CHOOSE x \in {a, b} : \A y \in {a, b} : x <= y
  <2>1. m \in {a, b} /\ \A y \in {a, b} : m <= y
    BY <1>1, Zenon
  <2> QED BY <2>1, Zenon DEF Min
<1> QED BY <1>2

\* A set of numbers up to n that has a member has a greatest one.
LEMMA Greatest ==
  ASSUME NEW n \in Nat, NEW S \in SUBSET (0..n), 0 \in S
  PROVE  Max(S) \in S /\ \A y \in S : y <= Max(S)
<1> DEFINE G == {k \in Nat : k \in 0..n => \E x \in S : \A y \in S : y <= k => y <= x}
<1>1. 0 \in G
  OBVIOUS
<1>2. ASSUME NEW k \in G PROVE k + 1 \in G
  <2> SUFFICES ASSUME k + 1 \in 0..n PROVE \E x \in S : \A y \in S : y <= k + 1 => y <= x
    BY <1>2
  <2>1. k \in Nat /\ k \in 0..n
    BY <1>2
  <2>2. PICK x \in S : \A y \in S : y <= k => y <= x
    BY <1>2, <2>1
  <2>3. CASE k + 1 \in S
    BY <2>3
  <2>4. CASE k + 1 \notin S
    <3>1. \A y \in S : y <= k + 1 => y <= k
      BY <2>1, <2>4
    <3> QED BY <2>2, <3>1
  <2> QED BY <2>3, <2>4
<1> HIDE DEF G
<1>3. G = Nat
  <2>1. G \in SUBSET Nat
    BY DEF G
  <2> QED BY <1>1, <1>2, <2>1, CountingUp
<1>4. \E x \in S : \A y \in S : x >= y
  <2>1. n \in G
    BY <1>3
  <2>2. PICK x \in S : \A y \in S : y <= n => y <= x
    BY <2>1 DEF G
  <2>3. \A y \in S : x >= y
    BY <2>2
  <2> QED BY <2>3
<1>5. Max(S) \in S /\ \A y \in S : Max(S) >= y
  <2> DEFINE m == CHOOSE x \in S : \A y \in S : x >= y
  <2>1. m \in S /\ \A y \in S : m >= y
    BY <1>4, Zenon
  <2> QED BY <2>1, Zenon DEF Max
<1> QED BY <1>5

\* A list of pieces is cut in two.
LEMMA PiecesCut ==
  ASSUME NEW T, NEW ps \in Seq(T), NEW k \in 0..Len(ps)
  PROVE  /\ SubSeq(ps, 1, k) \in Seq(T) /\ Len(SubSeq(ps, 1, k)) = k
         /\ SubSeq(ps, k + 1, Len(ps)) \in Seq(T) /\ Len(SubSeq(ps, k + 1, Len(ps))) = Len(ps) - k
         /\ SubSeq(ps, 1, k) \o SubSeq(ps, k + 1, Len(ps)) = ps
<1> DEFINE n == Len(ps)
<1>0. n \in Nat /\ k \in Nat /\ k <= n
  BY LenProperties
<1>1. \A i \in 1..n : ps[i] \in T
  OBVIOUS
<1> DEFINE a == SubSeq(ps, 1, k)
           b == SubSeq(ps, k + 1, n)
<1>2. a \in Seq(T) /\ Len(a) = k /\ \A i \in 1..k : a[i] = ps[i]
  BY <1>0, <1>1
<1>3. b \in Seq(T) /\ Len(b) = n - k /\ \A i \in 1..(n - k) : b[i] = ps[k + i]
  BY <1>0, <1>1
<1>4. a \o b = ps
  <2> HIDE DEF a, b
  <2>1. a \o b \in Seq(T) /\ Len(a \o b) = n
    BY <1>0, <1>2, <1>3
  <2>2. \A i \in 1..n : (a \o b)[i] = ps[i]
    <3> SUFFICES ASSUME NEW i \in 1..n PROVE (a \o b)[i] = ps[i]
      OBVIOUS
    <3>1. CASE i <= k
      BY <1>0, <1>2, <1>3, <3>1
    <3>2. CASE ~(i <= k)
      <4>1. i - k \in 1..(n - k) /\ k + (i - k) = i
        BY <1>0, <3>2
      <4>2. (a \o b)[i] = b[i - k]
        BY <1>0, <1>2, <1>3, <3>2
      <4> QED BY <1>3, <4>1, <4>2
    <3> QED BY <3>1, <3>2
  <2> QED BY <2>1, <2>2, SeqEqual
<1> QED BY <1>2, <1>3, <1>4

\* Bytes: the first n pieces, the piece n + 1 and the pieces behind it.
LEMMA ThreeParts ==
  ASSUME NEW ps \in Seq(Seq(Nat)), NEW k \in 0..Len(ps), k # Len(ps)
  PROVE  /\ ps[k + 1] \in Seq(Nat)
         /\ SubSeq(ps, k + 2, Len(ps)) \in Seq(Seq(Nat))
         /\ FlattenSeq(SubSeq(ps, 1, k + 1)) = FlattenSeq(SubSeq(ps, 1, k)) \o ps[k + 1]
         /\ FlattenSeq(ps) = (FlattenSeq(SubSeq(ps, 1, k)) \o ps[k + 1])
                               \o FlattenSeq(SubSeq(ps, k + 2, Len(ps)))
<1> DEFINE T == Seq(Nat)
           a == SubSeq(ps, 1, k)
           b == SubSeq(ps, 1, k + 1)
           c == SubSeq(ps, k + 2, Len(ps))
           x == ps[k + 1]
<1>0. Len(ps) \in Nat /\ k \in Nat /\ k + 1 \in 0..Len(ps) /\ k + 1 \in 1..Len(ps) /\ (k + 1) + 1 = k + 2
  BY LenProperties
<1> HIDE DEF T
<1>1. a \in Seq(T) /\ Len(a) = k
  BY PiecesCut DEF T
<1>2. b \in Seq(T) /\ Len(b) = k + 1 /\ c \in Seq(T) /\ b \o c = ps
  BY <1>0, PiecesCut DEF T
<1>3. x \in T
  BY <1>0 DEF T
<1>4. b = Append(a, x)
  <2>1. Append(a, x) \in Seq(T) /\ Len(Append(a, x)) = k + 1
    BY <1>0, <1>1, <1>3
  <2>2. \A i \in 1..(k + 1) : b[i] = Append(a, x)[i]
    BY <1>0, <1>1, <1>3, SMTT(30)
  <2> HIDE DEF a, b, x
  <2> QED BY <1>0, <1>2, <2>1, <2>2, SeqEqual
<1> HIDE DEF a, b, c, x
<1>5. FlattenSeq(b) = FlattenSeq(a) \o x
  <2>1. FlattenSeq(a) \in Seq(Nat)
    BY <1>1, FlattenType DEF T
  <2> QED BY <1>1, <1>3, <1>4, <2>1, FlattenAppend DEF T
<1>6. FlattenSeq(ps) = FlattenSeq(b) \o FlattenSeq(c)
  BY <1>2, FlattenConcat DEF T
<1> QED BY <1>2, <1>3, <1>5, <1>6 DEF T, a, b, c, x

\* After() leaves the bytes that have not been consumed.
LEMMA Consumed ==
  ASSUME NEW ps \in Seq(Seq(Nat)), NEW n \in 0..Size(ps)
  PROVE  /\ After(ps, n) \in Seq(Seq(Nat))
         /\ SubSeq(FlattenSeq(ps), 1, n) \in Seq(Nat)
         /\ Len(SubSeq(FlattenSeq(ps), 1, n)) = n
         /\ SubSeq(FlattenSeq(ps), 1, n) \o FlattenSeq(After(ps, n)) = FlattenSeq(ps)
         /\ After(ps, n) = <<>> <=> n = Size(ps)
<1> DEFINE all == FlattenSeq(ps)
           head(k) == FlattenSeq(SubSeq(ps, 1, k))
           fits == {k \in 0..Len(ps) : Size(SubSeq(ps, 1, k)) <= n}
           k == Whole(ps, n)
<1>0. Len(ps) \in Nat /\ all \in Seq(Nat) /\ Size(ps) = Len(all) /\ Size(ps) \in Nat /\ n \in Nat /\ n <= Len(all)
  <2>1. all \in Seq(Nat)
    BY FlattenType
  <2>2. Size(ps) = Len(all)
    BY DEF Size
  <2> HIDE DEF all
  <2>3. Len(ps) \in Nat /\ Len(all) \in Nat
    BY <2>1
  <2> QED BY <2>1, <2>2, <2>3
<1>1. k \in fits /\ \A j \in fits : j <= k
  <2>1. 0 \in fits
    <3>1. SubSeq(ps, 1, 0) = <<>>
      OBVIOUS
    <3>2. FlattenSeq(<<>>) = <<>> /\ Len(<<>>) = 0
      BY FlattenShort
    <3>3. Size(<<>>) = 0
      BY <3>2, Zenon DEF Size
    <3>4. Size(SubSeq(ps, 1, 0)) = 0
      BY <3>1, <3>3, Zenon
    <3> QED BY <1>0, <3>4
  <2>2. fits \in SUBSET (0..Len(ps))
    OBVIOUS
  <2>3. k = Max(fits)
    BY DEF Whole
  <2> HIDE DEF fits, k
  <2> QED BY <1>0, <2>1, <2>2, <2>3, Greatest
<1>2. k \in 0..Len(ps) /\ Len(head(k)) <= n
  BY <1>1 DEF Size
<1>3. SubSeq(ps, 1, k) \in Seq(Seq(Nat)) /\ head(k) \in Seq(Nat)
  <2>1. SubSeq(ps, 1, k) \in Seq(Seq(Nat))
    BY <1>2, PiecesCut
  <2> QED BY <2>1, FlattenType
<1>4. SubSeq(all, 1, n) \in Seq(Nat) /\ Len(SubSeq(all, 1, n)) = n
  <2> HIDE DEF all
  <2> QED BY <1>0, PiecesCut
<1>5. CASE k = Len(ps)
  <2>1. After(ps, n) = <<>>
    BY <1>5 DEF After
  <2>2. SubSeq(ps, 1, Len(ps)) = ps
    BY SubSeqFull
  <2>3. n = Len(all)
    <3>1. head(k) = all
      BY <1>5, <2>2, Zenon
    <3>2. Len(all) <= n
      BY <1>2, <3>1, Zenon
    <3> HIDE DEF all
    <3>3. Len(all) \in Nat
      BY <1>0
    <3> QED BY <1>0, <3>2, <3>3
  <2>4. SubSeq(all, 1, n) = all
    <3> HIDE DEF all
    <3> QED BY <1>0, <2>3, SubSeqFull
  <2>5. FlattenSeq(<<>>) = <<>> /\ all \o <<>> = all
    <3> HIDE DEF all
    <3> QED BY <1>0, FlattenShort
  <2>6. <<>> \in Seq(Seq(Nat))
    OBVIOUS
  <2> QED BY <1>0, <1>4, <2>1, <2>3, <2>4, <2>5, <2>6
<1>6. CASE k # Len(ps)
  <2> DEFINE x == ps[k + 1]
             c == SubSeq(ps, k + 2, Len(ps))
             h == head(k)
             tail == FlattenSeq(c)
             rest == SubSeq(x, n - Len(h) + 1, Len(x))
  <2>1. /\ x \in Seq(Nat) /\ c \in Seq(Seq(Nat)) /\ head(k + 1) = h \o x
        /\ all = (h \o x) \o tail
    BY <1>2, <1>6, ThreeParts
  <2>2. h \in Seq(Nat) /\ tail \in Seq(Nat) /\ Len(h) \in Nat /\ Len(h) <= n
    <3>1. tail \in Seq(Nat)
      BY <2>1, FlattenType
    <3> HIDE DEF tail
    <3> QED BY <1>2, <1>3, <3>1
  <2>3. ~(Len(h) + Len(x) <= n)
    <3>1. k + 1 \in 0..Len(ps) /\ ~(k + 1 <= k)
      BY <1>0, <1>2, <1>6
    <3>2. k + 1 \notin fits
      BY <1>1, <3>1
    <3>3. ~(Len(head(k + 1)) <= n)
      BY <3>1, <3>2 DEF Size
    <3>4. Len(h \o x) = Len(h) + Len(x)
      <4> HIDE DEF h, x
      <4> QED BY <2>1, <2>2
    <3> QED BY <2>1, <3>3, <3>4
  <2>4. After(ps, n) = <<rest>> \o c
    BY <1>6 DEF After, Size
  <2> HIDE DEF all, head, k, x, c, h, tail
  <2> DEFINE m == n - Len(h)
  <2>5. m \in 0..Len(x) /\ Len(x) \in Nat /\ m \in Nat /\ m # Len(x)
    BY <1>0, <2>1, <2>2, <2>3
  <2>6. /\ SubSeq(x, 1, m) \in Seq(Nat) /\ Len(SubSeq(x, 1, m)) = m
        /\ rest \in Seq(Nat) /\ Len(rest) = Len(x) - m
        /\ SubSeq(x, 1, m) \o rest = x
    BY <2>1, <2>5, PiecesCut
  <2> HIDE DEF rest, m
  <2>7. After(ps, n) \in Seq(Seq(Nat)) /\ FlattenSeq(After(ps, n)) = rest \o tail
    <3>1. <<rest>> \in Seq(Seq(Nat))
      BY <2>6
    <3>2. FlattenSeq(<<rest>> \o c) = FlattenSeq(<<rest>>) \o FlattenSeq(c)
      BY <2>1, <3>1, FlattenConcat
    <3>3. FlattenSeq(<<rest>>) = rest
      BY <2>6, FlattenShort
    <3>4. <<rest>> \o c \in Seq(Seq(Nat))
      BY <2>1, <3>1
    <3> QED BY <2>4, <3>2, <3>3, <3>4 DEF tail
  <2>8. SubSeq(all, 1, n) = h \o SubSeq(x, 1, m)
    <3> DEFINE y == SubSeq(x, 1, m)
    <3>1. y \in Seq(Nat) /\ Len(y) = m /\ \A i \in 1..m : y[i] = x[i]
      <4>1. \A i \in 1..m : y[i] = x[i]
        BY <2>1, <2>5
      <4> QED BY <2>6, <4>1
    <3> HIDE DEF y
    <3>2. h \o y \in Seq(Nat) /\ Len(h \o y) = n
      BY <1>0, <2>2, <3>1 DEF m
    <3>3. \A i \in 1..n : (h \o y)[i] = ((h \o x) \o tail)[i]
      BY <1>0, <2>1, <2>2, <2>5, <3>1, SMTT(30) DEF m
    <3>4. \A i \in 1..n : SubSeq(all, 1, n)[i] = all[i]
      BY <1>0
    <3>5. \A i \in 1..n : SubSeq(all, 1, n)[i] = (h \o y)[i]
      BY <2>1, <3>3, <3>4
    <3>6. SubSeq(all, 1, n) = h \o y
      BY <1>4, <3>2, <3>5, SeqEqual
    <3> QED BY <3>6 DEF y
  <2>9. (h \o SubSeq(x, 1, m)) \o (rest \o tail) = all
    <3> DEFINE y == SubSeq(x, 1, m)
    <3>1. y \in Seq(Nat) /\ y \o rest = x
      BY <2>6
    <3> HIDE DEF y
    <3>2. h \o y \in Seq(Nat)
      BY <2>2, <3>1
    <3>3. (h \o y) \o (rest \o tail) = ((h \o y) \o rest) \o tail
      BY <2>2, <2>6, <3>2, Joined
    <3>4. (h \o y) \o rest = h \o (y \o rest)
      <4>1. h \in Seq(Nat) /\ rest \in Seq(Nat)
        BY <2>2, <2>6
      <4> QED BY <3>1, <4>1, Joined, Zenon
    <3> QED BY <2>1, <3>1, <3>3, <3>4 DEF y
  <2>10. After(ps, n) # <<>> /\ n # Len(all)
    <3>1. Len(After(ps, n)) = 1 + Len(c)
      <4>1. Len(<<rest>>) = 1 /\ <<rest>> \in Seq(Seq(Nat))
        BY <2>6
      <4> QED BY <2>1, <2>4, <4>1
    <3>2. Len(c) \in Nat
      BY <2>1
    <3>3. Len(all) = (Len(h) + Len(x)) + Len(tail)
      BY <2>1, <2>2
    <3>4. Len(tail) \in Nat
      BY <2>2
    <3>5. Len(<<>>) = 0
      OBVIOUS
    <3> QED BY <1>0, <2>2, <2>3, <2>5, <3>1, <3>2, <3>3, <3>4, <3>5
  <2>11. SubSeq(all, 1, n) \o FlattenSeq(After(ps, n)) = all
    BY <2>7, <2>8, <2>9
  <2> QED BY <1>0, <1>4, <2>7, <2>10, <2>11 DEF all
<1> QED BY <1>5, <1>6

\* What the recursive function in SumSeqTo() is.
Adds(f, ns, n) == f = [j \in 0..n |-> IF j = 0 THEN 0 ELSE f[j - 1] + ns[j]]

\* There is such a function for every sequence of numbers.
LEMMA AddsExists == ASSUME NEW ns PROVE \A n \in Nat : \E f : Adds(f, ns, n)
<1> DEFINE S == {n \in Nat : \E f : Adds(f, ns, n)}
<1>1. 0 \in S
  <2> DEFINE g == [j \in 0..0 |-> 0]
  <2>1. g = [j \in 0..0 |-> IF j = 0 THEN 0 ELSE g[j - 1] + ns[j]]
    OBVIOUS
  <2> HIDE DEF g
  <2>2. Adds(g, ns, 0)
    BY <2>1 DEF Adds
  <2> QED BY <2>2
<1>2. ASSUME NEW n \in S PROVE n + 1 \in S
  <2>1. PICK f : Adds(f, ns, n)
    BY <1>2
  <2> DEFINE g == [j \in 0..(n + 1) |-> IF j = 0 THEN 0 ELSE f[j - 1] + ns[j]]
  <2>2. \A j \in 0..n : f[j] = IF j = 0 THEN 0 ELSE f[j - 1] + ns[j]
    BY <2>1 DEF Adds
  <2>3. \A j \in 0..n : g[j] = f[j]
    BY <2>2
  <2>4. \A j \in 0..(n + 1) : j # 0 => g[j - 1] = f[j - 1]
    <3>1. \A j \in 0..(n + 1) : j # 0 => j - 1 \in 0..n
      OBVIOUS
    <3> HIDE DEF g
    <3> QED BY <2>3, <3>1
  <2>5. Adds(g, ns, n + 1)
    <3> HIDE DEF g
    <3>1. \A j \in 0..(n + 1) : (IF j = 0 THEN 0 ELSE f[j - 1] + ns[j])
                                = (IF j = 0 THEN 0 ELSE g[j - 1] + ns[j])
      BY <2>4
    <3> QED BY <3>1 DEF g, Adds
  <2> HIDE DEF g
  <2> QED BY <1>2, <2>5
<1> HIDE DEF S
<1>3. S = Nat
  <2>1. S \in SUBSET Nat
    BY DEF S
  <2> QED BY <1>1, <1>2, <2>1, CountingUp
<1> QED BY <1>3 DEF S

\* SumSeqTo() adds one number at a time.
LEMMA SumsAdd ==
  ASSUME NEW ns \in Seq(Nat)
  PROVE  /\ SumSeqTo(ns, 0) = 0
         /\ \A k \in 1..Len(ns) : SumSeqTo(ns, k) = SumSeqTo(ns, k - 1) + ns[k]
         /\ \A k \in 0..Len(ns) : SumSeqTo(ns, k) \in Nat
<1> DEFINE n == Len(ns)
           h == CHOOSE h : h = [j \in 0..n |-> IF j = 0 THEN 0 ELSE h[j - 1] + ns[j]]
<1>0. n \in Nat
  OBVIOUS
<1>1. Adds(h, ns, n)
  <2>1. \E f : Adds(f, ns, n)
    BY <1>0, AddsExists
  <2> HIDE DEF n
  <2> QED BY <2>1, Zenon DEF Adds
<1>2. \A k : SumSeqTo(ns, k) = h[k]
  BY Zenon DEF SumSeqTo
<1> HIDE DEF h
<1>3. \A j \in 0..n : h[j] = IF j = 0 THEN 0 ELSE h[j - 1] + ns[j]
  BY <1>1 DEF Adds
<1>4. h[0] = 0 /\ \A k \in 1..n : h[k] = h[k - 1] + ns[k]
  BY <1>0, <1>3
<1>5. \A k \in 0..n : h[k] \in Nat
  <2> DEFINE S == {k \in Nat : k \in 0..n => h[k] \in Nat}
  <2>1. 0 \in S
    BY <1>4
  <2>2. ASSUME NEW k \in S PROVE k + 1 \in S
    <3> SUFFICES ASSUME k + 1 \in 0..n PROVE h[k + 1] \in Nat
      BY <2>2
    <3>1. k \in 0..n /\ k + 1 \in 1..n /\ (k + 1) - 1 = k
      BY <2>2
    <3>2. ns[k + 1] \in Nat /\ h[k] \in Nat
      BY <2>2, <3>1
    <3> QED BY <1>4, <3>1, <3>2
  <2> HIDE DEF S
  <2>3. S = Nat
    <3>1. S \in SUBSET Nat
      BY DEF S
    <3> QED BY <2>1, <2>2, <3>1, CountingUp
  <2> QED BY <2>3 DEF S
<1> HIDE DEF n
<1> QED BY <1>2, <1>4, <1>5 DEF n

\* n bytes from number b on.
Numbers(b, n) == [i \in 1..n |-> b + i - 1]

\* The bytes after the first m of them have the next numbers.
LEMMA NumbersJoin ==
  ASSUME NEW b \in Nat \ {0}, NEW m \in Nat, NEW n \in Nat
  PROVE  /\ Numbers(b, m) \in Seq(Nat) /\ Len(Numbers(b, m)) = m
         /\ Numbers(b, m) \o Numbers(b + m, n) = Numbers(b, m + n)
<1>1. /\ Numbers(b, m) \in Seq(Nat) /\ Len(Numbers(b, m)) = m
      /\ \A i \in 1..m : Numbers(b, m)[i] = b + i - 1
  BY DEF Numbers
<1>2. /\ Numbers(b + m, n) \in Seq(Nat) /\ Len(Numbers(b + m, n)) = n
      /\ \A i \in 1..n : Numbers(b + m, n)[i] = (b + m) + i - 1
  BY DEF Numbers
<1>3. /\ Numbers(b, m + n) \in Seq(Nat) /\ Len(Numbers(b, m + n)) = m + n
      /\ \A i \in 1..(m + n) : Numbers(b, m + n)[i] = b + i - 1
  BY DEF Numbers
<1> DEFINE x == Numbers(b, m)
           y == Numbers(b + m, n)
           z == Numbers(b, m + n)
<1> HIDE DEF x, y, z
<1>4. x \o y \in Seq(Nat) /\ Len(x \o y) = m + n
  <2>1. x \in Seq(Nat) /\ Len(x) = m
    BY <1>1 DEF x
  <2>2. y \in Seq(Nat) /\ Len(y) = n
    BY <1>2 DEF y
  <2> QED BY <2>1, <2>2, SMTT(30)
<1>5. \A i \in 1..(m + n) : (x \o y)[i] = z[i]
  <2> SUFFICES ASSUME NEW i \in 1..(m + n) PROVE (x \o y)[i] = z[i]
    OBVIOUS
  <2>1. CASE i <= m
    <3>1. (x \o y)[i] = x[i]
      BY <1>1, <1>2, <2>1 DEF x, y
    <3>2. i \in 1..m
      BY <2>1
    <3> QED BY <1>1, <1>3, <3>1, <3>2 DEF x, z
  <2>2. CASE ~(i <= m)
    <3>1. i - m \in 1..n
      BY <2>2
    <3>2. (x \o y)[i] = y[i - m]
      BY <1>1, <1>2, <2>2, SMTT(30) DEF x, y
    <3>3. y[i - m] = (b + m) + (i - m) - 1
      BY <1>2, <3>1 DEF y
    <3>4. (b + m) + (i - m) - 1 = b + i - 1
      OBVIOUS
    <3> QED BY <1>3, <3>2, <3>3, <3>4 DEF z
  <2> QED BY <2>1, <2>2
<1>6. x \o y = z
  BY <1>3, <1>4, <1>5, SeqEqual DEF z
<1> QED BY <1>1, <1>6 DEF x, y, z

\* The pieces of a write() hold the next bytes.
LEMMA Offered ==
  ASSUME next \in Nat \ {0}, NEW shape \in Seq(Nat)
  PROVE  /\ SumSeqTo(shape, Len(shape)) \in Nat
         /\ Offer(shape) \in Seq(Seq(Nat))
         /\ FlattenSeq(Offer(shape)) = Fresh(SumSeqTo(shape, Len(shape)))
<1> DEFINE n == Len(shape)
           piece(k) == [i \in 1..shape[k] |-> next + SumSeqTo(shape, k - 1) + i - 1]
           pieces(k) == [j \in 1..k |-> piece(j)]
           S == {k \in Nat : k \in 0..n => FlattenSeq(pieces(k)) = Numbers(next, SumSeqTo(shape, k))}
<1>0. n \in Nat /\ DOMAIN shape = 1..n /\ \A k \in 1..n : shape[k] \in Nat
  OBVIOUS
<1>1. /\ SumSeqTo(shape, 0) = 0
      /\ \A k \in 1..n : SumSeqTo(shape, k) = SumSeqTo(shape, k - 1) + shape[k]
      /\ \A k \in 0..n : SumSeqTo(shape, k) \in Nat
  BY SumsAdd
<1>2. \A k \in 1..n : piece(k) \in Seq(Nat) /\ piece(k) = Numbers(next + SumSeqTo(shape, k - 1), shape[k])
  <2> SUFFICES ASSUME NEW k \in 1..n
               PROVE  piece(k) \in Seq(Nat) /\ piece(k) = Numbers(next + SumSeqTo(shape, k - 1), shape[k])
    OBVIOUS
  <2> DEFINE s == SumSeqTo(shape, k - 1)
  <2>1. s \in Nat /\ shape[k] \in Nat
    <3>1. k - 1 \in 0..n
      BY <1>0
    <3> QED BY <1>0, <1>1, <3>1
  <2> HIDE DEF s
  <2>2. piece(k) = Numbers(next + s, shape[k])
    BY Zenon DEF s, Numbers
  <2>3. next + s \in Nat \ {0}
    BY <2>1
  <2>4. Numbers(next + s, shape[k]) \in Seq(Nat)
    BY <2>1, <2>3, NumbersJoin, Zenon
  <2> QED BY <2>2, <2>4, Zenon DEF s
<1> HIDE DEF piece
<1>3. \A k \in 0..n : pieces(k) \in Seq(Seq(Nat)) /\ Len(pieces(k)) = k /\ \A j \in 1..k : pieces(k)[j] = piece(j)
  BY <1>0, <1>2
<1> HIDE DEF pieces
<1>4. 0 \in S
  <2>1. pieces(0) = <<>>
    BY <1>0, <1>3
  <2>2. Numbers(next, 0) = <<>>
    BY DEF Numbers
  <2> QED BY <1>1, <2>1, <2>2, FlattenShort
<1>5. ASSUME NEW k \in S PROVE k + 1 \in S
  <2> SUFFICES ASSUME k + 1 \in 0..n
               PROVE  FlattenSeq(pieces(k + 1)) = Numbers(next, SumSeqTo(shape, k + 1))
    BY <1>5
  <2>0. k \in Nat /\ k \in 0..n /\ k + 1 \in 1..n /\ (k + 1) - 1 = k
    BY <1>5
  <2>1. FlattenSeq(pieces(k)) = Numbers(next, SumSeqTo(shape, k))
    BY <1>5, <2>0
  <2>2. pieces(k + 1) = Append(pieces(k), piece(k + 1))
    <3> DEFINE a == pieces(k)
               c == pieces(k + 1)
               T == Seq(Nat)
    <3> HIDE DEF a, c, T
    <3>1. /\ a \in Seq(T) /\ Len(a) = k /\ \A j \in 1..k : a[j] = piece(j)
          /\ c \in Seq(T) /\ Len(c) = k + 1 /\ \A j \in 1..(k + 1) : c[j] = piece(j)
      BY <1>3, <2>0 DEF a, c, T
    <3>2. piece(k + 1) \in T
      BY <1>2, <2>0 DEF T
    <3>3. Append(a, piece(k + 1)) \in Seq(T) /\ Len(Append(a, piece(k + 1))) = k + 1
      BY <3>1, <3>2
    <3>4. \A j \in 1..(k + 1) : c[j] = Append(a, piece(k + 1))[j]
      BY <2>0, <3>1, <3>2
    <3>5. c = Append(a, piece(k + 1))
      BY <3>1, <3>3, <3>4, SeqEqual
    <3> QED BY <3>5 DEF a, c
  <2>3. FlattenSeq(pieces(k + 1)) = FlattenSeq(pieces(k)) \o piece(k + 1)
    <3>1. FlattenSeq(pieces(k)) \in Seq(Nat) /\ pieces(k) \in Seq(Seq(Nat)) /\ piece(k + 1) \in Seq(Nat)
      BY <1>2, <1>3, <2>0, FlattenType
    <3> QED BY <2>2, <3>1, FlattenAppend
  <2>4. /\ SumSeqTo(shape, k) \in Nat /\ shape[k + 1] \in Nat
        /\ SumSeqTo(shape, k + 1) = SumSeqTo(shape, k) + shape[k + 1]
    BY <1>0, <1>1, <2>0
  <2>5. piece(k + 1) = Numbers(next + SumSeqTo(shape, k), shape[k + 1])
    BY <1>2, <2>0
  <2>6. Numbers(next, SumSeqTo(shape, k)) \o Numbers(next + SumSeqTo(shape, k), shape[k + 1])
          = Numbers(next, SumSeqTo(shape, k) + shape[k + 1])
    BY <2>4, NumbersJoin
  <2>7. SumSeqTo(shape, k) + shape[k + 1] = SumSeqTo(shape, k + 1)
    BY <2>4
  <2> QED BY <2>1, <2>3, <2>5, <2>6, <2>7, Zenon
<1> HIDE DEF S
<1>6. S = Nat
  <2>1. S \in SUBSET Nat
    BY DEF S
  <2> QED BY <1>4, <1>5, <2>1, CountingUp
<1>7. Offer(shape) = pieces(n)
  BY <1>0, Zenon DEF Offer, pieces, piece
<1>8. n \in 0..n
  BY <1>0
<1>9. Fresh(SumSeqTo(shape, n)) = Numbers(next, SumSeqTo(shape, n))
  BY DEF Fresh, Numbers
<1> QED BY <1>1, <1>3, <1>6, <1>7, <1>8, <1>9 DEF S

-----------------------------------------------------------------------------
(* The invariant                                                           *)

States == {"none", "AbortedRead", "ShutdownedWrite"} \cup ReadStates \cup WriteStates
Places == {"idle", "blocked", "sub", "later", "done"}
Results == {"none", "ok", "failed", "disconnected", "canceled"}
Readers == [op : {"none", "read", "pumpTo"}, at : Places, min : Nat, max : Nat,
            got : Nat, res : Results, start : Nat]
Writers == [op : {"none", "write", "pumpFrom"}, at : Places, todo : Seq(Seq(Nat)),
            later : Seq(Seq(Nat)), bytes : Seq(Nat), amount : Nat, got : Nat,
            uncounted : Nat, res : Results, start : Nat]
Subs == {NoSub, [kind |-> "eof"]} \cup [kind : {"outputForRead", "outputForWrite"}, n : Nat]
          \cup [kind : {"inputForRead", "inputForWrite"}, lo : Nat, hi : Nat]

\* A read or a pump at the read end, when n bytes have gone across: it has counted
\* those that have arrived since it began.
ReaderOK(x, n, s) ==
  /\ x \in Readers
  /\ x.at # "later"
  /\ x.at = "idle" <=> x.op = "none"
  /\ x.res = "none" <=> x.at # "done"
  /\ x.min <= x.max /\ x.got <= x.max /\ (x.op = "pumpTo" => x.min = x.max)
  /\ x.at # "idle" => x.start + x.got = n
  /\ x.res = "ok" => x.got >= x.min \/ s = "ShutdownedWrite"

\* The bytes b, the last before number nx, are those that have gone across since
\* there were s of them, followed by the rest; the others had lower numbers.
Placed(rest, b, s, t, nx) ==
  /\ rest \in Seq(Nat) /\ b \in Seq(Nat) /\ t \in Seq(Nat)
  /\ nx \in Nat /\ s \in 0..Len(t) /\ Len(b) < nx
  /\ b = Numbers(nx - Len(b), Len(b))
  /\ \A i \in 1..s : t[i] < nx - Len(b)
  /\ SubSeq(t, s + 1, Len(t)) \o rest = b

Rest(y) == FlattenSeq(y.todo) \o FlattenSeq(y.later)

\* A write or a pump at the write end.
WriterOK(y, t, nx) ==
  /\ y \in Writers
  /\ y.at = "idle" <=> y.op = "none"
  /\ y.res = "none" <=> y.at # "done"
  /\ y.at = "later" => y.op = "write" /\ y.todo = <<>>
  /\ y.at # "idle" => Placed(Rest(y), y.bytes, y.start, t, nx)
  /\ y.op = "pumpFrom" => /\ y.later = <<>> /\ Len(y.todo) = 1
                          /\ y.got <= y.amount /\ y.start + y.got = Len(t)
  /\ y.res = "ok" => IF y.op = "write" THEN y.todo = <<>> /\ y.later = <<>>
                     ELSE y.got = y.amount \/ y.todo[1] = <<>>

\* Who waits for whom.
ReaderFits(s, x, u) ==
  /\ s \in ReadStates =>
       /\ x.op = (IF s = "BlockedRead" THEN "read" ELSE "pumpTo") /\ x.got < x.min
       /\ x.at = "blocked" \/ (x.at = "done" /\ x.res = "failed")
  /\ x.at = "blocked" => s \in ReadStates
  /\ x.at = "sub" <=> u.kind \in ForRead
  /\ x.at = "sub" => x.got = 0
WriterFits(s, y, u) ==
  /\ s \in WriteStates =>
       /\ y.op = (IF s = "BlockedWrite" THEN "write" ELSE "pumpFrom")
       /\ y.at = "blocked" \/ (y.at = "done" /\ y.res = "failed")
  /\ y.at = "blocked" => s \in WriteStates
  /\ y.at = "sub" <=> u.kind \in ForWrite \cup {"eof"}

\* What has been asked of the stream of a pump.
SubFits(s, x, y, u) ==
  /\ u.kind = "eof" => s = "AbortedRead" /\ y.op = "pumpFrom"
  /\ u.kind = "outputForRead" =>
       /\ s = "BlockedWrite" /\ x.op = "pumpTo" /\ u.n = Min({x.max, Size(y.todo)})
  /\ u.kind = "outputForWrite" =>
       /\ s = "BlockedPumpTo" /\ y.op = "write"
       /\ u.n = Min({x.max - x.got, Size(y.todo)})
  /\ u.kind = "inputForRead" =>
       /\ s = "BlockedPumpFrom"
       /\ u.lo = Min({y.amount - y.got, x.min}) /\ u.hi = Min({y.amount - y.got, x.max})
  /\ u.kind = "inputForWrite" =>
       /\ s \in ReadStates /\ y.op = "pumpFrom" /\ y.got = 0
       /\ u.lo = Min({y.amount, x.min - x.got}) /\ u.hi = Min({y.amount, x.max - x.got})

Rising(t) == \A i \in 1..(Len(t) - 1) : t[i] < t[i + 1]
Below(t, nx) == \A i \in 1..Len(t) : t[i] < nx

PipeInv ==
  /\ st \in States /\ sub \in Subs /\ next \in Nat \ {0}
  /\ taken \in Seq(Nat) /\ Rising(taken) /\ Below(taken, next)
  /\ ReaderOK(r, Len(taken), st)
  /\ WriterOK(w, taken, next)
  /\ ReaderFits(st, r, sub)
  /\ WriterFits(st, w, sub)
  /\ SubFits(st, r, w, sub)
  /\ watch = "waiting" => st # "AbortedRead"

-----------------------------------------------------------------------------
(* Bytes on their way                                                      *)

\* The bytes that have gone across are in order, and below the next to be offered.
LEMMA PlacedInOrder ==
  ASSUME NEW rest, NEW b, NEW s, NEW t, NEW nx, Placed(rest, b, s, t, nx),
         \A i \in 1..(s - 1) : t[i] < t[i + 1]
  PROVE  /\ Rising(t) /\ Below(t, nx)
         /\ Len(SubSeq(t, s + 1, Len(t))) = Len(t) - s
         /\ Len(t) - s <= Len(b)
         /\ \A i \in 1..(Len(t) - s) : SubSeq(t, s + 1, Len(t))[i] = b[i]
<1> DEFINE m == SubSeq(t, s + 1, Len(t))
           base == nx - Len(b)
<1>1. /\ rest \in Seq(Nat) /\ b \in Seq(Nat) /\ t \in Seq(Nat) /\ nx \in Nat
      /\ s \in 0..Len(t) /\ Len(b) < nx /\ b = Numbers(base, Len(b))
      /\ \A i \in 1..s : t[i] < base
      /\ m \o rest = b
  BY DEF Placed
<1>2. Len(t) \in Nat /\ Len(b) \in Nat /\ s \in Nat /\ s <= Len(t) /\ base \in Nat \ {0} /\ \A i \in 1..Len(t) : t[i] \in Nat
  <2>1. t \in Seq(Nat) /\ b \in Seq(Nat) /\ nx \in Nat /\ s \in 0..Len(t) /\ Len(b) < nx
    BY <1>1, Zenon
  <2>2. Len(t) \in Nat /\ Len(b) \in Nat
    BY <2>1
  <2>3. \A i \in 1..Len(t) : t[i] \in Nat
    BY <2>1
  <2> QED BY <2>1, <2>2, <2>3
<1>3. m \in Seq(Nat) /\ Len(m) = Len(t) - s
  BY <1>1, PiecesCut
<1>4. \A i \in 1..(Len(t) - s) : m[i] = t[s + i]
  BY <1>1, <1>2
<1> HIDE DEF m
<1>5. Len(b) = (Len(t) - s) + Len(rest) /\ \A i \in 1..(Len(t) - s) : b[i] = m[i]
  <2>1. m \in Seq(Nat) /\ rest \in Seq(Nat)
    BY <1>1, <1>3
  <2>2. Len(m \o rest) = Len(m) + Len(rest) /\ \A i \in 1..Len(m) : (m \o rest)[i] = m[i]
    BY <2>1
  <2> QED BY <1>1, <1>3, <2>2
<1>6. Len(t) - s <= Len(b)
  BY <1>1, <1>2, <1>5
<1>7. \A i \in 1..Len(b) : b[i] = base + i - 1
  <2> HIDE DEF base
  <2>1. \A i \in 1..Len(b) : Numbers(base, Len(b))[i] = base + i - 1
    BY DEF Numbers
  <2> QED BY <1>1, <2>1
<1>8. \A i \in 1..Len(t) : ~(i <= s) => t[i] = base + (i - s) - 1 /\ t[i] < nx
  <2> SUFFICES ASSUME NEW i \in 1..Len(t), ~(i <= s)
               PROVE  t[i] = base + (i - s) - 1 /\ t[i] < nx
    OBVIOUS
  <2>1. i - s \in 1..(Len(t) - s) /\ s + (i - s) = i /\ i - s \in 1..Len(b)
    BY <1>2, <1>6
  <2>2. t[i] = b[i - s] /\ b[i - s] = base + (i - s) - 1
    BY <1>4, <1>5, <1>7, <2>1
  <2> QED BY <1>1, <1>2, <2>1, <2>2
<1>9. Below(t, nx)
  BY <1>1, <1>2, <1>8 DEF Below
<1>10. Rising(t)
  <2> SUFFICES ASSUME NEW i \in 1..(Len(t) - 1) PROVE t[i] < t[i + 1]
    BY DEF Rising
  <2>0. i \in 1..Len(t) /\ i + 1 \in 1..Len(t)
    BY <1>2
  <2>1. CASE i < s
    BY <1>2, <2>1
  <2>2. CASE i = s
    <3>1. t[i] < base
      BY <1>1, <2>2
    <3>2. t[i + 1] = base + ((i + 1) - s) - 1
      BY <1>2, <1>8, <2>0, <2>2
    <3> QED BY <1>2, <2>0, <2>2, <3>1, <3>2
  <2>3. CASE s < i
    <3>1. t[i] = base + (i - s) - 1 /\ t[i + 1] = base + ((i + 1) - s) - 1
      BY <1>2, <1>8, <2>0, <2>3
    <3> QED BY <1>2, <3>1
  <2> QED BY <1>2, <2>1, <2>2, <2>3
<1> QED BY <1>3, <1>5, <1>6, <1>9, <1>10 DEF m

\* The next part of the bytes that are left goes across.
LEMMA Moves ==
  ASSUME NEW x \in Seq(Nat), NEW z \in Seq(Nat), NEW b, NEW s, NEW t, NEW nx,
         Placed(x \o z, b, s, t, nx), Rising(t)
  PROVE  /\ t \o x \in Seq(Nat) /\ Len(t \o x) = Len(t) + Len(x)
         /\ Placed(z, b, s, t \o x, nx)
         /\ Rising(t \o x) /\ Below(t \o x, nx)
<1> DEFINE m == SubSeq(t, s + 1, Len(t))
           u == t \o x
           n == SubSeq(u, s + 1, Len(u))
<1>1. /\ b \in Seq(Nat) /\ t \in Seq(Nat) /\ nx \in Nat
      /\ s \in 0..Len(t) /\ Len(b) < nx /\ b = Numbers(nx - Len(b), Len(b))
      /\ \A i \in 1..s : t[i] < nx - Len(b)
      /\ m \o (x \o z) = b
  BY DEF Placed
<1>2. u \in Seq(Nat) /\ Len(u) = Len(t) + Len(x) /\ \A i \in 1..Len(t) : u[i] = t[i]
  BY <1>1
<1>3. \A i \in 1..Len(x) : u[Len(t) + i] = x[i]
  BY <1>1
<1>4. Len(t) \in Nat /\ Len(x) \in Nat /\ s \in Nat /\ s <= Len(t) /\ s \in 0..Len(u)
  BY <1>1, <1>2
<1> HIDE DEF u
<1>5. m \in Seq(Nat) /\ Len(m) = Len(t) - s /\ \A i \in 1..(Len(t) - s) : m[i] = t[s + i]
  <2>1. m \in Seq(Nat) /\ Len(m) = Len(t) - s
    BY <1>1, PiecesCut
  <2>2. \A i \in 1..(Len(t) - s) : m[i] = t[s + i]
    BY <1>1, <1>4
  <2> QED BY <2>1, <2>2
<1>6. n \in Seq(Nat) /\ Len(n) = Len(u) - s /\ \A i \in 1..(Len(u) - s) : n[i] = u[s + i]
  <2>1. n \in Seq(Nat) /\ Len(n) = Len(u) - s
    BY <1>2, <1>4, PiecesCut
  <2>2. Len(u) \in Nat
    BY <1>2
  <2>3. \A i \in 1..(Len(u) - s) : n[i] = u[s + i]
    BY <1>2, <1>4, <2>2
  <2> QED BY <2>1, <2>3
<1> HIDE DEF m, n
<1>7. n = m \o x
  <2>1. m \o x \in Seq(Nat) /\ Len(m \o x) = Len(u) - s
    BY <1>2, <1>4, <1>5
  <2>2. \A i \in 1..(Len(u) - s) : n[i] = (m \o x)[i]
    <3> SUFFICES ASSUME NEW i \in 1..(Len(u) - s) PROVE n[i] = (m \o x)[i]
      OBVIOUS
    <3>0. n[i] = u[s + i]
      BY <1>6
    <3>1. CASE i <= Len(t) - s
      <4>1. (m \o x)[i] = m[i] /\ i \in 1..(Len(t) - s)
        BY <1>4, <1>5, <3>1
      <4>2. s + i \in 1..Len(t)
        BY <1>4, <3>1
      <4> QED BY <1>2, <1>5, <3>0, <4>1, <4>2
    <3>2. CASE ~(i <= Len(t) - s)
      <4> DEFINE j == i - (Len(t) - s)
      <4>1. j \in 1..Len(x) /\ s + i = Len(t) + j
        BY <1>2, <1>4, <3>2
      <4>2. (m \o x)[i] = x[j]
        <5>1. i \in 1..(Len(m) + Len(x)) /\ ~(i <= Len(m)) /\ j = i - Len(m)
          BY <1>2, <1>4, <1>5, <3>2
        <5>2. m \in Seq(Nat) /\ x \in Seq(Nat)
          BY <1>5
        <5>3. (m \o x)[i] = x[i - Len(m)]
          BY <5>1, <5>2
        <5> QED BY <5>1, <5>3
      <4> HIDE DEF j
      <4> QED BY <1>3, <3>0, <4>1, <4>2
    <3> QED BY <3>1, <3>2
  <2> QED BY <1>6, <2>1, <2>2, SeqEqual
<1>8. n \o z = b
  <2>1. m \in Seq(Nat)
    BY <1>5
  <2>2. m \o (x \o z) = (m \o x) \o z
    BY <2>1, Joined, Zenon
  <2> QED BY <1>1, <1>7, <2>2, Zenon
<1>9. Placed(z, b, s, u, nx)
  <2>1. \A i \in 1..s : u[i] < nx - Len(b)
    <3>1. \A i \in 1..s : u[i] = t[i]
      <4>1. \A i \in 1..s : i \in 1..Len(t)
        BY <1>4
      <4> QED BY <1>2, <4>1
    <3> QED BY <1>1, <3>1
  <2> QED BY <1>1, <1>2, <1>4, <1>8, <2>1 DEF Placed, n
<1>10. \A i \in 1..(s - 1) : u[i] < u[i + 1]
  <2> SUFFICES ASSUME NEW i \in 1..(s - 1) PROVE u[i] < u[i + 1]
    OBVIOUS
  <2>1. i \in 1..(Len(t) - 1) /\ i \in 1..Len(t) /\ i + 1 \in 1..Len(t)
    BY <1>4
  <2>2. t[i] < t[i + 1]
    BY <2>1 DEF Rising
  <2> QED BY <1>2, <2>1, <2>2
<1>11. Rising(u) /\ Below(u, nx)
  BY <1>9, <1>10, PlacedInOrder
<1> QED BY <1>2, <1>9, <1>11 DEF u

\* An operation that begins has all its bytes before it.
LEMMA Begins ==
  ASSUME NEW t \in Seq(Nat), NEW b \in Nat \ {0}, NEW n \in Nat, Below(t, b)
  PROVE  Placed(Numbers(b, n), Numbers(b, n), Len(t), t, b + n)
<1> DEFINE x == Numbers(b, n)
<1>1. x \in Seq(Nat) /\ Len(x) = n
  BY NumbersJoin
<1>2. x = Numbers((b + n) - Len(x), Len(x))
  BY <1>1
<1> HIDE DEF x
<1>3. SubSeq(t, Len(t) + 1, Len(t)) \o x = x
  <2>1. SubSeq(t, Len(t) + 1, Len(t)) = <<>>
    OBVIOUS
  <2> QED BY <1>1, <2>1
<1>4. \A i \in 1..Len(t) : t[i] < (b + n) - Len(x)
  BY <1>1 DEF Below
<1>5. b + n \in Nat /\ Len(t) \in 0..Len(t) /\ Len(x) < b + n
  BY <1>1
<1> QED BY <1>1, <1>2, <1>3, <1>4, <1>5 DEF Placed, x

-----------------------------------------------------------------------------
(* Operations that end or go on                                            *)

ReadData(x, n) ==
  /\ x \in Readers /\ x.op # "none"
  /\ x.min <= x.max /\ x.got <= x.max /\ (x.op = "pumpTo" => x.min = x.max)
  /\ x.start + x.got = n

WriteData(y, t, nx) ==
  /\ y \in Writers /\ y.op # "none"
  /\ Placed(Rest(y), y.bytes, y.start, t, nx)
  /\ y.op = "pumpFrom" => /\ y.later = <<>> /\ Len(y.todo) = 1
                          /\ y.got <= y.amount /\ y.start + y.got = Len(t)

\* Resolve() changes how far an operation is, and its result if it has none.
LEMMA ResolvedRead ==
  ASSUME NEW x \in Readers, NEW c \in Results
  PROVE  /\ Resolve(x, c) \in Readers
         /\ Resolve(x, c).op = x.op /\ Resolve(x, c).min = x.min /\ Resolve(x, c).max = x.max
         /\ Resolve(x, c).got = x.got /\ Resolve(x, c).start = x.start
         /\ Resolve(x, c).at = "done" /\ (x.res = "none" => Resolve(x, c).res = c)
         /\ (x.res # "none" => Resolve(x, c).res = x.res)
BY DEF Resolve, Readers, Places

\* The same of an operation of the write end.
LEMMA ResolvedWrite ==
  ASSUME NEW y \in Writers, NEW c \in Results
  PROVE  /\ Resolve(y, c) \in Writers
         /\ Resolve(y, c).op = y.op /\ Resolve(y, c).todo = y.todo /\ Resolve(y, c).later = y.later
         /\ Resolve(y, c).bytes = y.bytes /\ Resolve(y, c).amount = y.amount
         /\ Resolve(y, c).got = y.got /\ Resolve(y, c).start = y.start
         /\ Resolve(y, c).at = "done" /\ (y.res = "none" => Resolve(y, c).res = c)
         /\ (y.res # "none" => Resolve(y, c).res = y.res)
BY DEF Resolve, Writers, Places

\* An operation of the read end is over.
LEMMA ReadEnds ==
  ASSUME NEW x, NEW n, NEW s, NEW c \in Results \ {"none"}, ReadData(x, n), x.res # "ok",
         c = "ok" => x.got >= x.min \/ s = "ShutdownedWrite"
  PROVE  /\ ReaderOK(Resolve(x, c), n, s) /\ Resolve(x, c).at = "done"
         /\ s \notin ReadStates => \A u : u.kind \notin ForRead => ReaderFits(s, Resolve(x, c), u)
<1> DEFINE z == Resolve(x, c)
<1>1. /\ z \in Readers /\ z.op = x.op /\ z.min = x.min /\ z.max = x.max
      /\ z.got = x.got /\ z.start = x.start /\ z.at = "done"
      /\ (x.res = "none" => z.res = c) /\ (x.res # "none" => z.res = x.res)
  BY ResolvedRead DEF ReadData
<1> HIDE DEF z
<1>2. ReaderOK(z, n, s)
  BY <1>1 DEF ReaderOK, ReadData
<1>3. s \notin ReadStates => \A u : u.kind \notin ForRead => ReaderFits(s, z, u)
  BY <1>1 DEF ReaderFits
<1> QED BY <1>1, <1>2, <1>3 DEF z

\* An operation of the read end is over, or waits for more.
LEMMA ReadGoesOn ==
  ASSUME NEW x, NEW n, ReadData(x, n), x.res = "none"
  PROVE  /\ \A s : ReaderOK(RestOfRead(x), n, s)
         /\ RestOfReadSt(x) \in {"none"} \cup ReadStates
         /\ ReaderFits(RestOfReadSt(x), RestOfRead(x), NoSub)
         /\ x.got >= x.min => /\ RestOfReadSt(x) = "none"
                              /\ \A s : s \notin ReadStates => ReaderFits(s, RestOfRead(x), NoSub)
<1>0. x \in Readers /\ x.got \in Nat /\ x.min \in Nat
  BY DEF ReadData, Readers
<1>1. CASE x.got >= x.min
  <2>1. RestOfRead(x) = Resolve(x, "ok") /\ RestOfReadSt(x) = "none"
    BY <1>1 DEF RestOfRead, RestOfReadSt
  <2>2. \A s : ReaderOK(Resolve(x, "ok"), n, s)
    <3> TAKE s
    <3>1. "ok" \in Results \ {"none"}
      BY DEF Results
    <3> QED BY <1>1, <3>1, ReadEnds
  <2>3. Resolve(x, "ok").at = "done"
    BY <1>0, ResolvedRead DEF Results
  <2>4. \A s : s \notin ReadStates => ReaderFits(s, Resolve(x, "ok"), NoSub)
    BY <2>3 DEF ReaderFits, NoSub, ForRead
  <2> QED BY <2>1, <2>2, <2>4 DEF ReadStates
<1>2. CASE ~(x.got >= x.min)
  <2> DEFINE z == [x EXCEPT !.at = "blocked"]
  <2>1. RestOfRead(x) = z /\ RestOfReadSt(x) = (IF x.op = "read" THEN "BlockedRead" ELSE "BlockedPumpTo")
    BY <1>2 DEF RestOfRead, RestOfReadSt
  <2>2. z \in Readers /\ z.op = x.op /\ z.min = x.min /\ z.max = x.max
        /\ z.got = x.got /\ z.start = x.start /\ z.at = "blocked" /\ z.res = x.res
    BY <1>0 DEF Readers, Places
  <2> HIDE DEF z
  <2>3. \A s : ReaderOK(z, n, s)
    BY <2>2 DEF ReaderOK, ReadData
  <2>4. ReaderFits(RestOfReadSt(x), z, NoSub)
    <3>1. x.op = "read" \/ x.op = "pumpTo"
      BY DEF ReadData, Readers
    <3>2. z.got < z.min
      BY <1>0, <1>2, <2>2
    <3>3. NoSub.kind \notin ForRead
      BY DEF NoSub, ForRead
    <3> QED BY <2>1, <2>2, <3>1, <3>2, <3>3 DEF ReaderFits, ReadStates
  <2> QED BY <1>2, <2>1, <2>3, <2>4 DEF ReadStates
<1> QED BY <1>1, <1>2

\* An operation of the write end is over.
LEMMA WriteEnds ==
  ASSUME NEW y, NEW t, NEW nx, NEW c \in Results \ {"none"}, WriteData(y, t, nx), y.res # "ok",
         c = "ok" => IF y.op = "write" THEN y.todo = <<>> /\ y.later = <<>>
                     ELSE y.got = y.amount \/ y.todo[1] = <<>>
  PROVE  /\ WriterOK(Resolve(y, c), t, nx) /\ Resolve(y, c).at = "done"
         /\ \A s, u : s \notin WriteStates /\ u.kind \notin ForWrite \cup {"eof"}
                        => WriterFits(s, Resolve(y, c), u)
<1> DEFINE z == Resolve(y, c)
<1>1. /\ z \in Writers /\ z.op = y.op /\ z.todo = y.todo /\ z.later = y.later
      /\ z.bytes = y.bytes /\ z.amount = y.amount
      /\ z.got = y.got /\ z.start = y.start /\ z.at = "done"
      /\ (y.res = "none" => z.res = c) /\ (y.res # "none" => z.res = y.res)
  BY ResolvedWrite DEF WriteData
<1> HIDE DEF z
<1>2. Rest(z) = Rest(y)
  BY <1>1 DEF Rest
<1>3. WriterOK(z, t, nx)
  BY <1>1, <1>2 DEF WriterOK, WriteData
<1>4. \A s, u : s \notin WriteStates /\ u.kind \notin ForWrite \cup {"eof"} => WriterFits(s, z, u)
  BY <1>1 DEF WriterFits
<1> QED BY <1>1, <1>3, <1>4 DEF z

\* The pieces of a write() that are on offer have gone across.
LEMMA PartEnds ==
  ASSUME NEW y \in Writers, NEW t, NEW nx, y.op = "write", y.res # "ok",
         y.res = "none" <=> y.at # "done",
         Placed(FlattenSeq(y.later), y.bytes, y.start, t, nx)
  PROVE  /\ WriterOK(WritePartDone(y), t, nx)
         /\ \A s, u : s \notin WriteStates /\ u.kind \notin ForWrite \cup {"eof"}
                        => WriterFits(s, WritePartDone(y), u)
<1> DEFINE x == [y EXCEPT !.todo = <<>>]
           z == [y EXCEPT !.todo = <<>>, !.at = "later"]
<1>0. <<>> \in Seq(Seq(Nat)) /\ y.later \in Seq(Seq(Nat)) /\ y.at \in Places
  BY DEF Writers
<1>1. /\ x \in Writers /\ x.op = y.op /\ x.todo = <<>> /\ x.later = y.later
      /\ x.bytes = y.bytes /\ x.start = y.start /\ x.at = y.at /\ x.res = y.res
  BY <1>0 DEF Writers
<1>2. /\ z \in Writers /\ z.op = y.op /\ z.todo = <<>> /\ z.later = y.later
      /\ z.bytes = y.bytes /\ z.start = y.start /\ z.at = "later" /\ z.res = y.res
  BY <1>0 DEF Writers, Places
<1> HIDE DEF x, z
<1>3. Rest(x) = FlattenSeq(y.later) /\ Rest(z) = FlattenSeq(y.later)
  <2> DEFINE f == FlattenSeq(y.later)
  <2>1. f \in Seq(Nat) /\ FlattenSeq(<<>>) = <<>>
    BY <1>0, FlattenType, FlattenShort
  <2> HIDE DEF f
  <2>2. <<>> \o f = f
    BY <2>1
  <2>3. Rest(x) = <<>> \o f /\ Rest(z) = <<>> \o f
    BY <1>1, <1>2, <2>1 DEF Rest, f
  <2> QED BY <2>2, <2>3 DEF f
<1>4. CASE y.later = <<>> \/ y.res # "none"
  <2>1. WritePartDone(y) = Resolve(x, "ok")
    BY <1>4 DEF WritePartDone, x
  <2>2. WriteData(x, t, nx)
    BY <1>1, <1>3 DEF WriteData
  <2>3. CASE y.res = "none"
    <3>1. x.todo = <<>> /\ x.later = <<>> /\ x.res # "ok" /\ "ok" \in Results \ {"none"}
      BY <1>1, <1>4, <2>3 DEF Results
    <3> QED BY <1>1, <2>1, <2>2, <3>1, WriteEnds
  <2>4. CASE y.res # "none"
    <3> DEFINE v == Resolve(x, "ok")
    <3>1. /\ v \in Writers /\ v.op = "write" /\ v.todo = <<>> /\ v.later = y.later
          /\ v.bytes = y.bytes /\ v.start = y.start /\ v.at = "done" /\ v.res = y.res
      BY <1>1, <2>4, ResolvedWrite DEF Results
    <3> HIDE DEF v
    <3>2. Rest(v) = FlattenSeq(y.later)
      BY <1>1, <1>3, <3>1 DEF Rest
    <3>3. WriterOK(v, t, nx)
      BY <2>4, <3>1, <3>2 DEF WriterOK
    <3>4. \A s, u : s \notin WriteStates /\ u.kind \notin ForWrite \cup {"eof"} => WriterFits(s, v, u)
      BY <3>1 DEF WriterFits
    <3> QED BY <2>1, <3>3, <3>4 DEF v
  <2> QED BY <2>3, <2>4
<1>5. CASE ~(y.later = <<>> \/ y.res # "none")
  <2>1. WritePartDone(y) = z
    BY <1>5 DEF WritePartDone, z
  <2>2. WriterOK(z, t, nx)
    BY <1>2, <1>3, <1>5 DEF WriterOK
  <2>3. \A s, u : s \notin WriteStates /\ u.kind \notin ForWrite \cup {"eof"} => WriterFits(s, z, u)
    BY <1>2 DEF WriterFits
  <2> QED BY <2>1, <2>2, <2>3
<1> QED BY <1>4, <1>5

\* A write() has ended the wait of the read end, or waits with the pieces left.
LEMMA WriteGoesOn ==
  ASSUME NEW y \in Writers, NEW t, NEW nx, y.op = "write", y.res = "none",
         NEW left \in Seq(Seq(Nat)), NEW split \in BOOLEAN, left = <<>> => y.later = <<>>,
         Placed(FlattenSeq(left) \o FlattenSeq(y.later), y.bytes, y.start, t, nx)
  PROVE  /\ WriterOK(RestOfWrite(y, left, split), t, nx)
         /\ WriterFits(RestOfWriteSt(left), RestOfWrite(y, left, split), NoSub)
         /\ left = <<>> => \A s : s \notin WriteStates => WriterFits(s, RestOfWrite(y, left, split), NoSub)
<1> DEFINE z == RestOfWrite(y, left, split)
<1>0. y.later \in Seq(Seq(Nat)) /\ NoSub.kind = "none" /\ NoSub.kind \notin ForWrite \cup {"eof"}
  BY DEF Writers, NoSub, ForWrite
<1>1. CASE left = <<>>
  <2> DEFINE x == [y EXCEPT !.todo = <<>>]
  <2>1. /\ x \in Writers /\ x.op = y.op /\ x.todo = <<>> /\ x.later = y.later
        /\ x.bytes = y.bytes /\ x.start = y.start /\ x.res = y.res
    BY <1>1 DEF Writers
  <2>2. z = Resolve(x, "ok")
    BY <1>1 DEF RestOfWrite
  <2> HIDE DEF x
  <2>3. WriteData(x, t, nx)
    BY <1>1, <2>1 DEF WriteData, Rest
  <2>4. WriterOK(Resolve(x, "ok"), t, nx)
        /\ \A s, u : s \notin WriteStates /\ u.kind \notin ForWrite \cup {"eof"}
                        => WriterFits(s, Resolve(x, "ok"), u)
    <3>1. "ok" \in Results \ {"none"} /\ x.res # "ok" /\ x.todo = <<>> /\ x.later = <<>>
      BY <1>1, <2>1 DEF Results
    <3> QED BY <2>1, <2>3, <3>1, WriteEnds
  <2>5. RestOfWriteSt(left) \notin WriteStates
    BY <1>1 DEF RestOfWriteSt, WriteStates
  <2> QED BY <1>0, <2>2, <2>4, <2>5
<1>2. CASE left # <<>>
  <2>1. RestOfWriteSt(left) = "BlockedWrite"
    BY <1>2 DEF RestOfWriteSt
  <2>2. CASE ~split
    <3>1. z = [y EXCEPT !.at = "blocked", !.todo = left]
      BY <1>2, <2>2 DEF RestOfWrite
    <3>2. /\ z \in Writers /\ z.op = y.op /\ z.todo = left /\ z.later = y.later
          /\ z.bytes = y.bytes /\ z.start = y.start /\ z.at = "blocked" /\ z.res = y.res
      BY <3>1 DEF Writers, Places
    <3> HIDE DEF z
    <3>3. WriterOK(z, t, nx)
      BY <3>2 DEF WriterOK, Rest
    <3>4. WriterFits(RestOfWriteSt(left), z, NoSub)
      BY <1>0, <2>1, <3>2 DEF WriterFits, WriteStates
    <3> QED BY <1>2, <3>3, <3>4 DEF z
  <2>3. CASE split
    <3> DEFINE h == Head(left)
               l == Tail(left)
               T == Seq(Nat)
    <3> HIDE DEF T
    <3>1. h \in T /\ l \in Seq(T) /\ <<h>> \o l = left
      <4>1. left \in Seq(T)
        BY DEF T
      <4> QED BY <1>2, <4>1
    <3> HIDE DEF h, l
    <3>2. <<h>> \in Seq(T) /\ y.later \in Seq(T) /\ l \o y.later \in Seq(T)
      <4>1. y.later \in Seq(T)
        BY <1>0 DEF T
      <4> QED BY <3>1, <4>1
    <3>3. z = [y EXCEPT !.at = "blocked", !.todo = <<h>>, !.later = l \o @]
      BY <1>2, <2>3 DEF RestOfWrite, h, l
    <3>4. /\ z \in Writers /\ z.op = y.op /\ z.todo = <<h>> /\ z.later = l \o y.later
          /\ z.bytes = y.bytes /\ z.start = y.start /\ z.at = "blocked" /\ z.res = y.res
      BY <3>2, <3>3 DEF Writers, Places, T
    <3> HIDE DEF z
    <3>5. Rest(z) = FlattenSeq(left) \o FlattenSeq(y.later)
      <4> DEFINE a == FlattenSeq(<<h>>)
                 b == FlattenSeq(l)
                 c == FlattenSeq(y.later)
      <4>1. a \in Seq(Nat) /\ b \in Seq(Nat) /\ c \in Seq(Nat)
        BY <3>1, <3>2, FlattenType DEF T
      <4>2. FlattenSeq(left) = a \o b
        BY <3>1, <3>2, FlattenConcat DEF T
      <4>3. FlattenSeq(l \o y.later) = b \o c
        BY <3>1, <3>2, FlattenConcat DEF T
      <4>4. Rest(z) = a \o FlattenSeq(l \o y.later)
        BY <3>4 DEF Rest
      <4> HIDE DEF a, b, c
      <4>5. a \o (b \o c) = (a \o b) \o c
        BY <4>1, Joined
      <4> QED BY <4>2, <4>3, <4>4, <4>5 DEF c
    <3>6. WriterOK(z, t, nx)
      BY <3>4, <3>5 DEF WriterOK
    <3>7. WriterFits(RestOfWriteSt(left), z, NoSub)
      BY <1>0, <2>1, <3>4 DEF WriterFits, WriteStates
    <3> QED BY <1>2, <3>6, <3>7 DEF z
  <2> QED BY <2>2, <2>3
<1> QED BY <1>1, <1>2

-----------------------------------------------------------------------------
(* The read end                                                            *)

\* The number of bytes in a list of pieces.
LEMMA SizeIsNat == \A ps \in Seq(Seq(Nat)) : Size(ps) \in Nat
<1> SUFFICES ASSUME NEW ps \in Seq(Seq(Nat)) PROVE Size(ps) \in Nat
  OBVIOUS
<1> DEFINE f == FlattenSeq(ps)
<1>1. f \in Seq(Nat)
  BY FlattenType
<1> HIDE DEF f
<1>2. Len(f) \in Nat
  BY <1>1
<1> QED BY <1>2 DEF Size, f

\* n bytes of a write() go across.
LEMMA PartMoves ==
  ASSUME NEW y \in Writers, NEW t, NEW nx, Placed(Rest(y), y.bytes, y.start, t, nx), Rising(t),
         NEW n \in 0..Size(y.todo)
  PROVE  /\ After(y.todo, n) \in Seq(Seq(Nat))
         /\ After(y.todo, n) = <<>> <=> n = Size(y.todo)
         /\ t \o SubSeq(FlattenSeq(y.todo), 1, n) \in Seq(Nat)
         /\ Len(t \o SubSeq(FlattenSeq(y.todo), 1, n)) = Len(t) + n
         /\ Rising(t \o SubSeq(FlattenSeq(y.todo), 1, n))
         /\ Below(t \o SubSeq(FlattenSeq(y.todo), 1, n), nx)
         /\ Placed(FlattenSeq(After(y.todo, n)) \o FlattenSeq(y.later), y.bytes, y.start,
                   t \o SubSeq(FlattenSeq(y.todo), 1, n), nx)
<1> DEFINE all == FlattenSeq(y.todo)
           part == SubSeq(all, 1, n)
           rest == FlattenSeq(After(y.todo, n))
           c == FlattenSeq(y.later)
<1>0. y.todo \in Seq(Seq(Nat)) /\ y.later \in Seq(Seq(Nat))
  BY DEF Writers
<1>1. /\ After(y.todo, n) \in Seq(Seq(Nat)) /\ part \in Seq(Nat) /\ Len(part) = n
      /\ part \o rest = all /\ (After(y.todo, n) = <<>> <=> n = Size(y.todo))
  BY <1>0, Consumed
<1>2. rest \in Seq(Nat) /\ c \in Seq(Nat)
  BY <1>0, <1>1, FlattenType
<1>3. Placed(all \o c, y.bytes, y.start, t, nx)
  BY DEF Rest
<1> HIDE DEF all, part, rest, c
<1>4. part \o (rest \o c) = (part \o rest) \o c
  BY <1>1, <1>2, Joined
<1>5. Placed(part \o (rest \o c), y.bytes, y.start, t, nx)
  BY <1>1, <1>3, <1>4
<1>6. rest \o c \in Seq(Nat)
  BY <1>2
<1>7. /\ t \o part \in Seq(Nat) /\ Len(t \o part) = Len(t) + n
      /\ Placed(rest \o c, y.bytes, y.start, t \o part, nx)
      /\ Rising(t \o part) /\ Below(t \o part, nx)
  BY <1>1, <1>5, <1>6, Moves
<1> QED BY <1>1, <1>7 DEF all, part, rest, c

\* k bytes of a pump's input go across.
Fed(y, k) == [y EXCEPT !.got = @ + k, !.todo = <<SubSeq(@[1], k + 1, Len(@[1]))>>]

\* The input of a pump has given k bytes.
LEMMA InputMoves ==
  ASSUME NEW y, NEW t, NEW nx, WriteData(y, t, nx), y.op = "pumpFrom", Rising(t),
         NEW k \in 0..Len(y.todo[1]), k <= y.amount - y.got
  PROVE  /\ t \o SubSeq(y.todo[1], 1, k) \in Seq(Nat)
         /\ Len(t \o SubSeq(y.todo[1], 1, k)) = Len(t) + k
         /\ Rising(t \o SubSeq(y.todo[1], 1, k)) /\ Below(t \o SubSeq(y.todo[1], 1, k), nx)
         /\ WriteData(Fed(y, k), t \o SubSeq(y.todo[1], 1, k), nx)
         /\ Fed(y, k).op = y.op /\ Fed(y, k).at = y.at /\ Fed(y, k).res = y.res
         /\ Fed(y, k).got = y.got + k /\ Fed(y, k).amount = y.amount
         /\ k = Len(y.todo[1]) => Fed(y, k).todo[1] = <<>>
<1> DEFINE a == y.todo[1]
           u == t \o SubSeq(y.todo[1], 1, k)
           z == Fed(y, k)
           part == SubSeq(a, 1, k)
           rest == SubSeq(a, k + 1, Len(a))
<1>a. u = t \o part /\ z = [y EXCEPT !.got = y.got + k, !.todo = <<rest>>]
  BY DEF Fed
<1> HIDE DEF u, z
<1>0. /\ y \in Writers /\ y.todo \in Seq(Seq(Nat)) /\ y.got \in Nat /\ y.amount \in Nat
      /\ y.later = <<>> /\ Len(y.todo) = 1 /\ y.got <= y.amount /\ y.start + y.got = Len(t)
  BY DEF WriteData, Writers
<1>1. a \in Seq(Nat) /\ y.todo = <<a>> /\ k \in Nat
  BY <1>0
<1> HIDE DEF a
<1>2. /\ part \in Seq(Nat) /\ Len(part) = k
      /\ rest \in Seq(Nat) /\ Len(rest) = Len(a) - k /\ part \o rest = a
  <2>1. k \in 0..Len(a)
    BY DEF a
  <2> QED BY <1>1, <2>1, PiecesCut
<1> HIDE DEF part, rest
<1>3. z \in Writers /\ z.op = y.op /\ z.at = y.at /\ z.res = y.res /\ z.got = y.got + k
      /\ z.amount = y.amount /\ z.todo = <<rest>> /\ z.later = y.later /\ z.bytes = y.bytes
      /\ z.start = y.start
  <2>1. <<rest>> \in Seq(Seq(Nat))
    BY <1>2
  <2>2. y.got + k \in Nat
    BY <1>0, <1>1
  <2> QED BY <1>0, <1>a, <2>1, <2>2 DEF Writers
<1>4. \A x \in Seq(Nat) : FlattenSeq(<<x>>) \o FlattenSeq(<<>>) = x
  <2> TAKE x \in Seq(Nat)
  <2>1. FlattenSeq(<<x>>) = x /\ FlattenSeq(<<>>) = <<>>
    BY FlattenShort
  <2>2. x \o <<>> = x
    OBVIOUS
  <2> QED BY <2>1, <2>2
<1>5. Rest(y) = a /\ Rest(z) = rest
  BY <1>0, <1>1, <1>2, <1>3, <1>4 DEF Rest
<1>6. Placed(part \o rest, y.bytes, y.start, t, nx)
  BY <1>2, <1>5 DEF WriteData
<1>7. /\ u \in Seq(Nat) /\ Len(u) = Len(t) + k
      /\ Placed(rest, y.bytes, y.start, u, nx) /\ Rising(u) /\ Below(u, nx)
  <2>1. /\ t \o part \in Seq(Nat) /\ Len(t \o part) = Len(t) + Len(part)
        /\ Placed(rest, y.bytes, y.start, t \o part, nx) /\ Rising(t \o part) /\ Below(t \o part, nx)
    BY <1>2, <1>6, Moves
  <2> QED BY <1>a, <1>2, <2>1
<1>8. z.start + z.got = Len(u) /\ z.got <= z.amount
  <2>1. y.start \in Nat /\ t \in Seq(Nat)
    BY <1>0, <1>6 DEF Writers, Placed
  <2>2. z.start + z.got = (y.start + y.got) + k
    BY <1>0, <1>1, <1>3, <2>1
  <2>3. z.got <= z.amount
    BY <1>0, <1>1, <1>3
  <2> QED BY <1>0, <1>7, <2>2, <2>3
<1>9. WriteData(z, u, nx)
  <2>1. Len(<<rest>>) = 1
    OBVIOUS
  <2> QED BY <1>0, <1>3, <1>5, <1>7, <1>8, <2>1 DEF WriteData
<1>10. k = Len(a) => z.todo[1] = <<>>
  <2>1. Len(rest) = 0 => rest = <<>>
    BY <1>2
  <2>2. Len(a) \in Nat
    BY <1>1
  <2> QED BY <1>1, <1>2, <1>3, <2>1, <2>2
<1> QED BY <1>3, <1>7, <1>9, <1>10 DEF a, u, z

\* What an idle read end asks for.
Asking(x) == ReadData(x, Len(taken)) /\ x.at = "idle" /\ x.res = "none" /\ x.got = 0

\* A tryRead() or a pumpTo() begins with nothing.
LEMMA NewReadAsks ==
  ASSUME PipeInv, NEW op \in {"read", "pumpTo"}, NEW lo \in Nat, NEW hi \in Nat,
         lo <= hi, op = "pumpTo" => lo = hi
  PROVE  Asking(NewRead(op, lo, hi))
<1>1. Len(taken) \in Nat
  BY DEF PipeInv
<1>2. IdleR \in Readers /\ IdleR.at = "idle" /\ IdleR.got = 0 /\ IdleR.res = "none"
  BY DEF IdleR, Readers, Places, Results
<1> DEFINE x == NewRead(op, lo, hi)
<1>3. x = [IdleR EXCEPT !.op = op, !.min = lo, !.max = hi, !.start = Len(taken)]
  BY DEF NewRead
<1>4. /\ x \in Readers /\ x.op = op /\ x.min = lo /\ x.max = hi /\ x.start = Len(taken)
      /\ x.at = "idle" /\ x.got = 0 /\ x.res = "none"
  BY <1>1, <1>2, <1>3 DEF Readers
<1> HIDE DEF x
<1> QED BY <1>1, <1>4 DEF Asking, ReadData, x

\* What a pump has asked of its stream goes with a state.
LEMMA Alone ==
  ASSUME PipeInv
  PROVE  /\ sub.kind = "none" \/ sub.kind = "eof" \/ sub.kind \in ForRead \cup ForWrite
         /\ sub.kind = "none" => sub = NoSub
         /\ st \notin WriteStates => sub.kind \notin ForRead
         /\ st \notin ReadStates => sub.kind \notin ForWrite
         /\ st # "AbortedRead" => sub.kind # "eof"
         /\ st \in {"none", "ShutdownedWrite"} => sub = NoSub
<1>1. /\ sub.kind = "none" \/ sub.kind = "eof" \/ sub.kind \in ForRead \cup ForWrite
      /\ sub.kind = "none" => sub = NoSub
  BY DEF PipeInv, Subs, NoSub, ForRead, ForWrite
<1>2. /\ st \notin WriteStates => sub.kind \notin ForRead
      /\ st \notin ReadStates => sub.kind \notin ForWrite
      /\ st # "AbortedRead" => sub.kind # "eof"
  BY DEF PipeInv, SubFits, ForRead, ForWrite, ReadStates, WriteStates
<1> QED BY <1>1, <1>2 DEF ReadStates, WriteStates

\* Without a call to a stream nobody is in one.
LEMMA NoSubFacts == NoSub \in Subs /\ NoSub.kind = "none" /\ \A s, x, y : SubFits(s, x, y, NoSub)
BY DEF NoSub, Subs, SubFits

\* While the read end is idle it is not the state, and has called no stream.
LEMMA IdleReader ==
  ASSUME PipeInv, r.at = "idle"
  PROVE  st \notin ReadStates /\ sub.kind \notin ForRead
BY DEF PipeInv, ReaderFits

\* A read or a pump on an empty pipe waits.
LEMMA ReadBlocksKeeps ==
  ASSUME PipeInv, r.at = "idle", NEW x, Asking(x), ReadBlocks(x)
  PROVE  PipeInv'
<1>1. st = "none" /\ st' = RestOfReadSt(x) /\ r' = RestOfRead(x) /\ UNCHANGED <<w, sub, taken, next, watch>>
  BY DEF ReadBlocks
<1>2. sub = NoSub
  BY <1>1, Alone
<1>3. /\ ReaderOK(r', Len(taken), st') /\ st' \in {"none"} \cup ReadStates /\ ReaderFits(st', r', NoSub)
  BY <1>1, ReadGoesOn DEF Asking
<1>4. st' \in States /\ st' \notin WriteStates /\ st' # "AbortedRead"
  BY <1>3 DEF States, ReadStates, WriteStates
<1>5. WriterFits(st', w, NoSub)
  BY <1>1, <1>2, <1>4 DEF PipeInv, WriterFits, WriteStates
<1> QED BY <1>1, <1>2, <1>3, <1>4, <1>5, NoSubFacts DEF PipeInv

\* The read end's operation x takes n bytes from a blocked write().
LEMMA WriteIsRead ==
  ASSUME PipeInv, st = "BlockedWrite", NEW x, ReadData(x, Len(taken)), x.res = "none", x.got = 0,
         NEW n, n = Min({x.max, Size(w.todo)}),
         NEW x1, x1 = [x EXCEPT !.got = n],
         taken' = taken \o SubSeq(FlattenSeq(w.todo), 1, n),
         IF After(w.todo, n) = <<>>
         THEN w' = WritePartDone(w) /\ st' = RestOfReadSt(x1) /\ r' = RestOfRead(x1)
         ELSE w' = [w EXCEPT !.todo = After(w.todo, n)] /\ r' = Resolve(x1, "ok") /\ UNCHANGED st,
         sub' = NoSub, UNCHANGED <<next, watch>>
  PROVE  PipeInv'
<1> DEFINE left == After(w.todo, n)
           t == taken \o SubSeq(FlattenSeq(w.todo), 1, n)
<1>1. taken' = t
  OBVIOUS
<1>2. /\ w \in Writers /\ w.op = "write" /\ w.todo \in Seq(Seq(Nat)) /\ w.res # "ok" /\ w.at # "idle"
      /\ (w.res = "none" <=> w.at # "done") /\ w.at # "later"
      /\ Placed(Rest(w), w.bytes, w.start, taken, next) /\ Rising(taken)
      /\ w.at = "blocked" \/ (w.at = "done" /\ w.res = "failed")
  BY DEF PipeInv, WriterOK, WriterFits, WriteStates, Writers
<1>3. x \in Readers /\ x.max \in Nat /\ x.min \in Nat /\ Size(w.todo) \in Nat /\ x.min <= x.max
  <2>1. Size(w.todo) \in Nat
    BY <1>2, SizeIsNat
  <2> QED BY <2>1 DEF ReadData, Readers
<1>4. n \in Nat /\ n <= x.max /\ n <= Size(w.todo) /\ (n = x.max \/ n = Size(w.todo)) /\ n \in 0..Size(w.todo)
  <2> DEFINE m == Min({x.max, Size(w.todo)})
  <2>1. m \in Nat /\ m <= x.max /\ m <= Size(w.todo) /\ (m = x.max \/ m = Size(w.todo))
    BY <1>3, LeastOfTwo
  <2>2. n = m
    OBVIOUS
  <2> HIDE DEF m
  <2> QED BY <1>3, <2>1, <2>2
<1>5. /\ left \in Seq(Seq(Nat)) /\ (left = <<>> <=> n = Size(w.todo))
      /\ t \in Seq(Nat) /\ Len(t) = Len(taken) + n /\ Rising(t) /\ Below(t, next)
      /\ Placed(FlattenSeq(left) \o FlattenSeq(w.later), w.bytes, w.start, t, next)
  BY <1>2, <1>4, PartMoves
<1> HIDE DEF t
<1>6. x1 \in Readers /\ x1.got = n /\ x1.op = x.op /\ x1.min = x.min /\ x1.max = x.max
      /\ x1.start = x.start /\ x1.res = x.res
  BY <1>3, <1>4 DEF Readers
<1>7. ReadData(x1, Len(t)) /\ x1.res = "none"
  <2>1. x.start + x.got = Len(taken) /\ x.got = 0 /\ x.start \in Nat
    BY DEF ReadData, Readers
  <2>2. x1.start + x1.got = Len(t)
    <3>1. x1.start = Len(taken) /\ x1.got = n
      BY <1>6, <2>1
    <3> QED BY <1>5, <3>1
  <2> QED BY <1>4, <1>6, <2>2 DEF ReadData
<1>8. st \in WriteStates /\ st # "AbortedRead" /\ st \notin ReadStates /\ st \in States
  BY DEF WriteStates, ReadStates, States
<1>9. CASE left = <<>>
  <2>1. w' = WritePartDone(w) /\ st' = RestOfReadSt(x1) /\ r' = RestOfRead(x1)
    BY <1>9 DEF left
  <2>2. Placed(FlattenSeq(w.later), w.bytes, w.start, t, next)
    <3> DEFINE f == FlattenSeq(w.later)
    <3>1. f \in Seq(Nat)
      BY <1>2, FlattenType DEF Writers
    <3> HIDE DEF f
    <3>2. <<>> \o f = f /\ FlattenSeq(<<>>) = <<>>
      BY <3>1, FlattenShort
    <3> QED BY <1>5, <1>9, <3>2 DEF f
  <2>3. /\ ReaderOK(r', Len(t), st') /\ st' \in {"none"} \cup ReadStates /\ ReaderFits(st', r', NoSub)
    BY <1>7, <2>1, ReadGoesOn
  <2>4. st' \in States /\ st' \notin WriteStates /\ st' # "AbortedRead"
    BY <2>3 DEF States, ReadStates, WriteStates
  <2>5. WriterOK(w', t, next) /\ WriterFits(st', w', NoSub)
    <3>1. NoSub.kind \notin ForWrite \cup {"eof"}
      BY NoSubFacts DEF ForWrite
    <3> QED BY <1>2, <2>1, <2>2, <2>4, <3>1, PartEnds
  <2> QED BY <1>1, <1>5, <2>3, <2>4, <2>5, NoSubFacts DEF PipeInv
<1>10. CASE left # <<>>
  <2>1. w' = [w EXCEPT !.todo = left] /\ r' = Resolve(x1, "ok") /\ st' = st
    BY <1>10 DEF left
  <2>2. x1.got >= x1.min
    BY <1>3, <1>4, <1>5, <1>6, <1>10
  <2>3. ReaderOK(r', Len(t), st) /\ ReaderFits(st, r', NoSub)
    <3>1. "ok" \in Results \ {"none"} /\ NoSub.kind \notin ForRead
      BY NoSubFacts DEF Results, ForRead
    <3> QED BY <1>7, <1>8, <2>1, <2>2, <3>1, ReadEnds
  <2>4. /\ w' \in Writers /\ w'.op = "write" /\ w'.todo = left /\ w'.later = w.later /\ w'.at = w.at
        /\ w'.bytes = w.bytes /\ w'.start = w.start /\ w'.res = w.res
    BY <1>2, <1>5, <2>1 DEF Writers
  <2>5. WriterOK(w', t, next) /\ WriterFits(st, w', NoSub)
    <3>1. Rest(w') = FlattenSeq(left) \o FlattenSeq(w.later)
      BY <2>4 DEF Rest
    <3>2. WriterOK(w', t, next)
      BY <1>2, <1>5, <2>4, <3>1 DEF WriterOK
    <3>3. WriterFits(st, w', NoSub)
      BY <1>2, <2>4, NoSubFacts DEF WriterFits, WriteStates, ForWrite
    <3> QED BY <3>2, <3>3
  <2> QED BY <1>1, <1>5, <1>8, <2>1, <2>3, <2>5, NoSubFacts DEF PipeInv
<1> QED BY <1>9, <1>10

\* BlockedWrite::tryRead() gives the pieces that fit.
LEMMA ReadFromWriteKeeps ==
  ASSUME PipeInv, r.at = "idle", NEW x, Asking(x), ReadFromWrite(x)
  PROVE  PipeInv'
<1> DEFINE n == Min({x.max, Size(w.todo)})
           x1 == [x EXCEPT !.got = n]
<1>1. /\ st = "BlockedWrite" /\ sub' = NoSub /\ UNCHANGED <<next, watch>>
      /\ taken' = taken \o SubSeq(FlattenSeq(w.todo), 1, n)
      /\ IF After(w.todo, n) = <<>>
         THEN w' = WritePartDone(w) /\ st' = RestOfReadSt(x1) /\ r' = RestOfRead(x1)
         ELSE w' = [w EXCEPT !.todo = After(w.todo, n)] /\ r' = Resolve(x1, "ok") /\ UNCHANGED st
  BY DEF ReadFromWrite
<1> HIDE DEF x1
<1>2. x1 = [x EXCEPT !.got = n]
  BY DEF x1
<1> HIDE DEF n
<1>3. n = Min({x.max, Size(w.todo)})
  BY DEF n
<1> QED BY <1>1, <1>2, <1>3, WriteIsRead DEF Asking

\* BlockedWrite::pumpTo() offers its bytes to the output.
LEMMA PumpFromWriteKeeps ==
  ASSUME PipeInv, r.at = "idle", NEW x, Asking(x), PumpFromWrite(x)
  PROVE  PipeInv'
<1>1. /\ st = "BlockedWrite" /\ x.op = "pumpTo"
      /\ sub' = [kind |-> "outputForRead", n |-> Min({x.max, Size(w.todo)})]
      /\ r' = [x EXCEPT !.at = "sub"] /\ UNCHANGED <<st, w, taken, next, watch>>
  BY DEF PumpFromWrite
<1>2. x \in Readers /\ x.max \in Nat /\ Size(w.todo) \in Nat
  BY SizeIsNat DEF Asking, ReadData, Readers, PipeInv, WriterOK, Writers
<1>3. /\ sub' \in Subs /\ sub'.kind = "outputForRead" /\ sub'.kind \in ForRead
      /\ sub'.kind \notin ForWrite \cup {"eof"} /\ sub'.n = Min({x.max, Size(w.todo)})
  <2>1. Min({x.max, Size(w.todo)}) \in Nat
    BY <1>2, LeastOfTwo
  <2> QED BY <1>1, <2>1 DEF Subs, ForRead, ForWrite
<1>4. /\ r' \in Readers /\ r'.op = x.op /\ r'.min = x.min /\ r'.max = x.max /\ r'.got = x.got
      /\ r'.start = x.start /\ r'.at = "sub" /\ r'.res = x.res
  BY <1>1, <1>2 DEF Readers, Places
<1>5. ReaderOK(r', Len(taken), st)
  BY <1>4 DEF Asking, ReadData, ReaderOK
<1>6. ReaderFits(st, r', sub')
  BY <1>1, <1>3, <1>4 DEF Asking, ReaderFits, ReadStates
<1>7. WriterFits(st, w, sub') /\ SubFits(st, r', w, sub')
  <2>1. w.at # "sub"
    BY <1>1 DEF PipeInv, WriterFits, WriteStates
  <2>2. WriterFits(st, w, sub')
    BY <1>3, <2>1 DEF PipeInv, WriterFits
  <2> QED BY <1>1, <1>3, <1>4, <2>2 DEF SubFits
<1> QED BY <1>1, <1>3, <1>5, <1>6, <1>7 DEF PipeInv

\* The output of a pumpTo() has taken them.
LEMMA PumpFromWriteDoneKeeps == ASSUME PipeInv, PumpFromWriteDone PROVE PipeInv'
<1> DEFINE x1 == [r EXCEPT !.got = @ + sub.n]
<1>1. sub.kind = "outputForRead" /\ sub.kind \in ForRead
  BY DEF PumpFromWriteDone, ForRead
<1>2. st = "BlockedWrite" /\ sub.n = Min({r.max, Size(w.todo)})
  BY <1>1 DEF PipeInv, SubFits
<1>3. r.at = "sub" /\ r.got = 0 /\ r.res = "none" /\ r.op # "none" /\ ReadData(r, Len(taken))
  <2>1. r.at = "sub" /\ r.got = 0
    BY <1>1 DEF PipeInv, ReaderFits
  <2> QED BY <2>1 DEF PipeInv, ReaderOK, ReadData
<1>4. x1 = [r EXCEPT !.got = sub.n]
  <2>1. sub.n \in Nat
    <3>1. r.max \in Nat /\ Size(w.todo) \in Nat
      BY SizeIsNat DEF PipeInv, ReaderOK, Readers, WriterOK, Writers
    <3> QED BY <1>2, <3>1, LeastOfTwo
  <2>2. r.got + sub.n = sub.n
    BY <1>3, <2>1
  <2> QED BY <2>2
<1>5. /\ taken' = taken \o SubSeq(FlattenSeq(w.todo), 1, sub.n)
      /\ IF After(w.todo, sub.n) = <<>>
         THEN w' = WritePartDone(w) /\ st' = RestOfReadSt(x1) /\ r' = RestOfRead(x1)
         ELSE w' = [w EXCEPT !.todo = After(w.todo, sub.n)] /\ r' = Resolve(x1, "ok") /\ UNCHANGED st
      /\ sub' = NoSub /\ UNCHANGED <<next, watch>>
  BY DEF PumpFromWriteDone
<1> HIDE DEF x1
<1> QED BY <1>2, <1>3, <1>4, <1>5, WriteIsRead

\* BlockedPumpFrom::tryRead() and pumpTo() ask the input.
LEMMA ReadFromPumpKeeps ==
  ASSUME PipeInv, r.at = "idle", NEW x, Asking(x), ReadFromPump(x)
  PROVE  PipeInv'
<1> DEFINE a == w.amount - w.got
<1>1. /\ st = "BlockedPumpFrom"
      /\ sub' = [kind |-> "inputForRead", lo |-> Min({a, x.min}), hi |-> Min({a, x.max})]
      /\ r' = [x EXCEPT !.at = "sub"] /\ UNCHANGED <<st, w, taken, next, watch>>
  BY DEF ReadFromPump
<1>2. x \in Readers /\ x.max \in Nat /\ x.min \in Nat
  BY DEF Asking, ReadData, Readers
<1>3. w.op = "pumpFrom" /\ w.at # "sub" /\ a \in Nat
  <2>1. w.op = "pumpFrom" /\ w.at # "sub"
    BY <1>1 DEF PipeInv, WriterFits, WriteStates
  <2>2. w \in Writers /\ w.got <= w.amount
    BY <2>1 DEF PipeInv, WriterOK
  <2>3. w.got \in Nat /\ w.amount \in Nat
    BY <2>2 DEF Writers
  <2> QED BY <2>1, <2>2, <2>3
<1> HIDE DEF a
<1>4. /\ sub' \in Subs /\ sub'.kind = "inputForRead" /\ sub'.kind \in ForRead
      /\ sub'.kind \notin ForWrite \cup {"eof"}
      /\ sub'.lo = Min({a, x.min}) /\ sub'.hi = Min({a, x.max})
  <2>1. Min({a, x.min}) \in Nat /\ Min({a, x.max}) \in Nat
    BY <1>2, <1>3, LeastOfTwo
  <2> QED BY <1>1, <2>1 DEF Subs, ForRead, ForWrite
<1>5. /\ r' \in Readers /\ r'.op = x.op /\ r'.min = x.min /\ r'.max = x.max /\ r'.got = x.got
      /\ r'.start = x.start /\ r'.at = "sub" /\ r'.res = x.res
  BY <1>1, <1>2 DEF Readers, Places
<1>6. ReaderOK(r', Len(taken), st)
  BY <1>5 DEF Asking, ReadData, ReaderOK
<1>7. ReaderFits(st, r', sub')
  BY <1>1, <1>4, <1>5 DEF Asking, ReaderFits, ReadStates
<1>8. WriterFits(st, w, sub') /\ SubFits(st, r', w, sub')
  <2>1. WriterFits(st, w, sub')
    BY <1>3, <1>4 DEF PipeInv, WriterFits
  <2> QED BY <1>1, <1>4, <1>5, <2>1 DEF SubFits, a
<1> QED BY <1>1, <1>4, <1>6, <1>7, <1>8 DEF PipeInv

\* A closed pipe answers at once.
LEMMA ReadFromClosedKeeps ==
  ASSUME PipeInv, r.at = "idle", NEW x, Asking(x), ReadFromClosed(x)
  PROVE  PipeInv'
<1> DEFINE c == IF st = "AbortedRead" THEN "disconnected" ELSE "ok"
<1>1. /\ st \in {"AbortedRead", "ShutdownedWrite"} /\ r' = Resolve(x, c)
      /\ UNCHANGED <<st, w, sub, taken, next, watch>>
  BY DEF ReadFromClosed
<1>2. c \in Results \ {"none"} /\ (c = "ok" => st = "ShutdownedWrite")
  BY <1>1 DEF Results
<1> HIDE DEF c
<1>3. st \notin ReadStates /\ sub.kind \notin ForRead
  BY IdleReader
<1>4. ReaderOK(r', Len(taken), st) /\ ReaderFits(st, r', sub)
  BY <1>1, <1>2, <1>3, ReadEnds DEF Asking
<1>5. SubFits(st, r', w, sub)
  BY <1>3 DEF PipeInv, SubFits, ForRead, ForWrite, ReadStates
<1> QED BY <1>1, <1>4, <1>5 DEF PipeInv


\* What the stream of a pump has answered, in terms of what it was asked.
LEMMA AnswerBounds ==
  ASSUME NEW input \in Seq(Nat), NEW l \in Nat, NEW h \in Nat, NEW k \in Answers(input, l, h)
  PROVE  k \in 0..Len(input) /\ k <= h /\ (k < l => k = Len(input))
<1>1. h \in Nat /\ Len(input) \in Nat
  OBVIOUS
<1> DEFINE m == Min({h, Len(input)})
<1>2. m \in Nat /\ m <= h /\ m <= Len(input)
  BY <1>1, LeastOfTwo
<1>3. k \in 0..m /\ (k >= l \/ k = Len(input))
  BY DEF Answers
<1> HIDE DEF m
<1> QED BY <1>1, <1>2, <1>3

\* The input of a tryPumpFrom() has answered the read end.
LEMMA ReadFromPumpDoneKeeps ==
  ASSUME PipeInv, NEW k \in 0..MaxBytes, ReadFromPumpDone(k)
  PROVE  PipeInv'
<1> DEFINE a == w.amount - w.got
           u == taken \o SubSeq(w.todo[1], 1, k)
           z == Fed(w, k)
           x == [r EXCEPT !.got = @ + k]
           ended == z.got = z.amount \/ k < sub.lo
<1>1. /\ sub.kind = "inputForRead" /\ sub.kind \in ForRead
      /\ k \in Answers(w.todo[1], sub.lo, sub.hi)
      /\ taken' = u /\ sub' = NoSub /\ UNCHANGED <<next, watch>>
      /\ w' = (IF ended THEN Resolve(z, "ok") ELSE z)
      /\ st' = (IF ended THEN RestOfReadSt(x) ELSE st)
      /\ r' = RestOfRead(x)
  BY DEF ReadFromPumpDone, ForRead, Fed
<1>2. st = "BlockedPumpFrom" /\ sub.lo = Min({a, r.min}) /\ sub.hi = Min({a, r.max})
  BY <1>1 DEF PipeInv, SubFits
<1>3. /\ r.at = "sub" /\ r.got = 0 /\ r.res = "none" /\ r.op # "none" /\ r \in Readers
      /\ r.min <= r.max /\ (r.op = "pumpTo" => r.min = r.max) /\ r.start + r.got = Len(taken)
      /\ r.start \in Nat /\ r.min \in Nat /\ r.max \in Nat
  <2>1. r.at = "sub" /\ r.got = 0
    BY <1>1 DEF PipeInv, ReaderFits
  <2> QED BY <2>1 DEF PipeInv, ReaderOK, Readers
<1>4. /\ w.op = "pumpFrom" /\ w.res # "ok" /\ (w.at = "blocked" \/ (w.at = "done" /\ w.res = "failed"))
      /\ (w.res = "none" <=> w.at # "done") /\ WriteData(w, taken, next) /\ Rising(taken)
      /\ w.todo \in Seq(Seq(Nat)) /\ Len(w.todo) = 1 /\ w.got \in Nat /\ w.amount \in Nat /\ w.got <= w.amount
  BY <1>2 DEF PipeInv, WriterOK, WriterFits, WriteStates, Writers, WriteData
<1>5. w.todo[1] \in Seq(Nat) /\ a \in Nat
  BY <1>4
<1>6. /\ k \in 0..Len(w.todo[1]) /\ k <= a /\ k <= r.max /\ k \in Nat
      /\ k < sub.lo => k = Len(w.todo[1])
      /\ ~(k < sub.lo) => k = a \/ k >= r.min
  <2> DEFINE input == w.todo[1]
  <2>1. input \in Seq(Nat) /\ k \in Answers(input, sub.lo, sub.hi)
    BY <1>1, <1>5
  <2> HIDE DEF input, a
  <2>2. /\ k \in 0..Len(input) /\ k <= a /\ k <= r.max
        /\ k < sub.lo => k = Len(input)
        /\ ~(k < sub.lo) => k = a \/ k >= r.min
    <3>1. /\ sub.lo \in Nat /\ sub.hi \in Nat /\ (sub.lo = a \/ sub.lo = r.min)
          /\ sub.hi <= a /\ sub.hi <= r.max
      BY <1>2, <1>3, <1>5, LeastOfTwo
    <3>2. k \in 0..Len(input) /\ k <= sub.hi /\ (k < sub.lo => k = Len(input))
      BY <2>1, <3>1, AnswerBounds
    <3>3. k \in Nat /\ Len(input) \in Nat
      BY <2>1, <3>2
    <3> QED BY <1>3, <1>5, <3>1, <3>2, <3>3
  <2> QED BY <2>2 DEF input
<1>7. /\ u \in Seq(Nat) /\ Len(u) = Len(taken) + k /\ Rising(u) /\ Below(u, next)
      /\ WriteData(z, u, next) /\ z.op = w.op /\ z.at = w.at /\ z.res = w.res
      /\ z.got = w.got + k /\ z.amount = w.amount
      /\ k = Len(w.todo[1]) => z.todo[1] = <<>>
  <2>1. k <= w.amount - w.got
    BY <1>6
  <2> QED BY <1>4, <1>6, <2>1, InputMoves
<1>8. x.got = k /\ x.min = r.min /\ x.max = r.max /\ x.res = "none" /\ ReadData(x, Len(u))
  <2>1. /\ x \in Readers /\ x.got = k /\ x.op = r.op /\ x.min = r.min /\ x.max = r.max
        /\ x.start = r.start /\ x.res = r.res
    BY <1>3, <1>6 DEF Readers
  <2>2. x.start + x.got = Len(u)
    <3>1. x.start = Len(taken) /\ x.got = k
      BY <1>3, <2>1
    <3> QED BY <1>7, <3>1
  <2> HIDE DEF x
  <2> QED BY <1>3, <1>6, <2>1, <2>2 DEF ReadData
<1> HIDE DEF u, z, x, a
<1>9. st \in WriteStates /\ st # "AbortedRead" /\ st \notin ReadStates /\ st \in States
  BY <1>2 DEF WriteStates, ReadStates, States
<1>10. NoSub.kind \notin ForWrite \cup {"eof"}
  BY NoSubFacts DEF ForWrite
<1>11. CASE ended
  <2>1. w' = Resolve(z, "ok") /\ st' = RestOfReadSt(x) /\ r' = RestOfRead(x)
    BY <1>1, <1>11
  <2>2. /\ ReaderOK(r', Len(u), st') /\ st' \in {"none"} \cup ReadStates /\ ReaderFits(st', r', NoSub)
    BY <1>8, <2>1, ReadGoesOn
  <2>3. st' \in States /\ st' \notin WriteStates /\ st' # "AbortedRead"
    BY <2>2 DEF States, ReadStates, WriteStates
  <2>4. z.got = z.amount \/ z.todo[1] = <<>>
    BY <1>6, <1>7, <1>11
  <2>5. WriterOK(w', u, next) /\ WriterFits(st', w', NoSub)
    <3>1. "ok" \in Results \ {"none"} /\ z.res # "ok" /\ z.op # "write"
      BY <1>4, <1>7 DEF Results
    <3> QED BY <1>7, <1>10, <2>1, <2>3, <2>4, <3>1, WriteEnds
  <2> QED BY <1>1, <1>7, <2>2, <2>3, <2>5, NoSubFacts DEF PipeInv
<1>12. CASE ~ended
  <2>1. w' = z /\ st' = st /\ r' = RestOfRead(x)
    BY <1>1, <1>12
  <2>2. k >= r.min
    <3>1. k # a
      BY <1>4, <1>6, <1>7, <1>12 DEF a
    <3> QED BY <1>6, <1>12, <3>1
  <2>3. ReaderOK(r', Len(u), st) /\ ReaderFits(st, r', NoSub)
    BY <1>8, <1>9, <2>1, <2>2, ReadGoesOn
  <2>4. WriterOK(z, u, next)
    BY <1>4, <1>7 DEF WriterOK, WriteData
  <2>5. WriterFits(st, z, NoSub)
    BY <1>2, <1>4, <1>7, <1>10 DEF WriterFits, WriteStates
  <2> QED BY <1>1, <1>7, <1>9, <2>1, <2>3, <2>4, <2>5, NoSubFacts DEF PipeInv
<1> QED BY <1>11, <1>12

-----------------------------------------------------------------------------
(* The write end                                                           *)

\* What an idle write end, or the `.then()` of a write(), offers.
Offering(y, nx) ==
  /\ WriteData(y, taken, nx) /\ y.res = "none" /\ y.at \in {"idle", "later"}
  /\ y.later = <<>> /\ (y.op = "pumpFrom" => y.got = 0)
  /\ nx \in Nat \ {0} /\ Below(taken, nx)

\* While the write end is idle it is not the state, and no stream is called.
LEMMA IdleWriter ==
  ASSUME PipeInv, w.at \in {"idle", "later"}
  PROVE  st \notin WriteStates /\ sub = NoSub
<1>1. st \notin WriteStates /\ sub.kind \notin ForWrite \cup {"eof"}
  BY DEF PipeInv, WriterFits
<1> QED BY <1>1, Alone

\* A write or a pump into an empty pipe waits.
LEMMA WriteBlocksKeeps ==
  ASSUME PipeInv, w.at \in {"idle", "later"}, NEW y, Offering(y, next'), WriteBlocks(y)
  PROVE  PipeInv'
<1>1. /\ st = "none" /\ st' = (IF y.op = "write" THEN "BlockedWrite" ELSE "BlockedPumpFrom")
      /\ w' = [y EXCEPT !.at = "blocked"] /\ UNCHANGED <<r, sub, taken, watch>>
  BY DEF WriteBlocks
<1>2. sub = NoSub
  BY IdleWriter
<1>3. /\ st' \in States /\ st' \in WriteStates /\ st' \notin ReadStates /\ st' # "AbortedRead"
  BY <1>1 DEF States, WriteStates, ReadStates
<1>4. /\ w' \in Writers /\ w'.op = y.op /\ w'.todo = y.todo /\ w'.later = y.later
      /\ w'.bytes = y.bytes /\ w'.amount = y.amount /\ w'.got = y.got /\ w'.start = y.start
      /\ w'.at = "blocked" /\ w'.res = "none" /\ w'.op \in {"write", "pumpFrom"}
  BY <1>1 DEF Offering, WriteData, Writers, Places
<1>5. WriterOK(w', taken, next')
  <2>1. Rest(w') = Rest(y)
    BY <1>4 DEF Rest
  <2> QED BY <1>4, <2>1 DEF WriterOK, Offering, WriteData
<1>6. WriterFits(st', w', NoSub)
  BY <1>1, <1>4, NoSubFacts DEF WriterFits, WriteStates, ForWrite
<1>7. ReaderOK(r, Len(taken), st') /\ ReaderFits(st', r, NoSub)
  <2>1. ReaderOK(r, Len(taken), st')
    BY <1>1 DEF PipeInv, ReaderOK
  <2> QED BY <1>1, <1>2, <1>3, <2>1 DEF PipeInv, ReaderFits, ReadStates
<1> QED BY <1>1, <1>2, <1>3, <1>5, <1>6, <1>7, NoSubFacts DEF PipeInv, Offering

\* BlockedRead::write() fills the buffer of the read.
LEMMA WriteToReadKeeps ==
  ASSUME PipeInv, w.at \in {"idle", "later"}, NEW y, Offering(y, next'), WriteToRead(y)
  PROVE  PipeInv'
<1> DEFINE n == Min({r.max - r.got, Size(y.todo)})
           left == After(y.todo, n)
           x == [r EXCEPT !.got = @ + n]
           t == taken \o SubSeq(FlattenSeq(y.todo), 1, n)
           split == Splits(y.todo, n)
<1>1. /\ st = "BlockedRead" /\ y.op = "write" /\ sub = NoSub
      /\ taken' = t /\ w' = RestOfWrite(y, left, split) /\ UNCHANGED <<sub, watch>>
      /\ IF x.got >= x.min THEN r' = Resolve(x, "ok") /\ st' = RestOfWriteSt(left)
                           ELSE r' = x /\ UNCHANGED st
  BY DEF WriteToRead
<1>2. st \in ReadStates /\ st \notin WriteStates /\ st \in States /\ st # "AbortedRead"
  BY <1>1 DEF ReadStates, WriteStates, States
<1>3. /\ r \in Readers /\ r.op = "read" /\ r.got < r.min /\ r.min <= r.max /\ r.got <= r.max
      /\ (r.at = "blocked" \/ (r.at = "done" /\ r.res = "failed")) /\ (r.res = "none" <=> r.at # "done")
      /\ r.start + r.got = Len(taken) /\ r.start \in Nat /\ r.got \in Nat /\ r.min \in Nat /\ r.max \in Nat
      /\ r.res # "ok"
  BY <1>1, <1>2 DEF PipeInv, ReaderOK, ReaderFits, Readers
<1>4. /\ y \in Writers /\ y.todo \in Seq(Seq(Nat)) /\ Size(y.todo) \in Nat /\ y.res = "none" /\ y.later = <<>>
      /\ Placed(Rest(y), y.bytes, y.start, taken, next') /\ Rising(taken)
  BY SizeIsNat DEF Offering, WriteData, Writers, PipeInv
<1>5. n \in 0..Size(y.todo) /\ n \in Nat /\ n <= r.max - r.got /\ (n = r.max - r.got \/ n = Size(y.todo))
  <2>1. r.max - r.got \in Nat
    BY <1>3
  <2>2. n \in Nat /\ n <= r.max - r.got /\ n <= Size(y.todo) /\ (n = r.max - r.got \/ n = Size(y.todo))
    BY <1>4, <2>1, LeastOfTwo
  <2> HIDE DEF n
  <2> QED BY <1>4, <2>2
<1>6. /\ left \in Seq(Seq(Nat)) /\ (left = <<>> <=> n = Size(y.todo))
      /\ t \in Seq(Nat) /\ Len(t) = Len(taken) + n /\ Rising(t) /\ Below(t, next')
      /\ Placed(FlattenSeq(left) \o FlattenSeq(y.later), y.bytes, y.start, t, next')
  BY <1>4, <1>5, PartMoves
<1> HIDE DEF n, t, left
<1>7. /\ x \in Readers /\ x.op = r.op /\ x.at = r.at /\ x.min = r.min /\ x.max = r.max
      /\ x.got = r.got + n /\ x.res = r.res /\ x.start = r.start
  <2>1. r.got + n \in Nat
    BY <1>3, <1>5
  <2> QED BY <1>3, <2>1 DEF Readers
<1> HIDE DEF x
<1>8. ReadData(x, Len(t))
  <2>1. x.start + x.got = Len(t)
    <3>1. x.start + x.got = (r.start + r.got) + n
      BY <1>3, <1>5, <1>7
    <3> QED BY <1>3, <1>6, <3>1
  <2> QED BY <1>3, <1>5, <1>7, <2>1 DEF ReadData
<1>9. /\ WriterOK(w', t, next') /\ WriterFits(RestOfWriteSt(left), w', NoSub)
      /\ left = <<>> => \A s : s \notin WriteStates => WriterFits(s, w', NoSub)
  <2>1. split \in BOOLEAN
    BY DEF Splits
  <2> HIDE DEF split
  <2> QED BY <1>1, <1>4, <1>6, <2>1, WriteGoesOn
<1>10. NoSub.kind \notin ForRead
  BY NoSubFacts DEF ForRead
<1>11. CASE x.got >= x.min
  <2>1. r' = Resolve(x, "ok") /\ st' = RestOfWriteSt(left)
    BY <1>1, <1>11
  <2>2. st' \in States /\ st' \notin ReadStates /\ st' # "AbortedRead"
    BY <2>1 DEF RestOfWriteSt, States, WriteStates, ReadStates
  <2>3. ReaderOK(r', Len(t), st') /\ ReaderFits(st', r', NoSub)
    <3>1. "ok" \in Results \ {"none"} /\ x.res # "ok"
      BY <1>3, <1>7 DEF Results
    <3> QED BY <1>8, <1>10, <1>11, <2>1, <2>2, <3>1, ReadEnds
  <2> QED BY <1>1, <1>6, <1>9, <2>1, <2>2, <2>3, NoSubFacts DEF PipeInv, Offering
<1>12. CASE ~(x.got >= x.min)
  <2>1. r' = x /\ st' = st
    BY <1>1, <1>12
  <2>2. left = <<>> /\ x.got < x.min
    BY <1>3, <1>5, <1>6, <1>7, <1>12
  <2>3. ReaderOK(x, Len(t), st)
    BY <1>3, <1>7, <1>8 DEF ReaderOK, ReadData
  <2>4. ReaderFits(st, x, NoSub)
    BY <1>1, <1>2, <1>3, <1>7, <1>10, <2>2 DEF ReaderFits
  <2> QED BY <1>1, <1>2, <1>6, <1>9, <2>1, <2>2, <2>3, <2>4, NoSubFacts DEF PipeInv, Offering
<1> QED BY <1>11, <1>12

\* BlockedPumpTo::write() offers the bytes to the output.
LEMMA WriteToPumpKeeps ==
  ASSUME PipeInv, w.at \in {"idle", "later"}, NEW y, Offering(y, next'), WriteToPump(y)
  PROVE  PipeInv'
<1> DEFINE a == r.max - r.got
<1>1. /\ st = "BlockedPumpTo" /\ y.op = "write" /\ sub' = [kind |-> "outputForWrite", n |-> Min({a, Size(y.todo)})]
      /\ w' = [y EXCEPT !.at = "sub"] /\ UNCHANGED <<st, r, taken, watch>>
  BY DEF WriteToPump
<1>2. a \in Nat /\ r.at # "sub" /\ st \in ReadStates /\ st \notin WriteStates
  BY <1>1 DEF PipeInv, ReaderOK, ReaderFits, Readers, ReadStates, WriteStates
<1>3. y \in Writers /\ Size(y.todo) \in Nat
  BY SizeIsNat DEF Offering, WriteData, Writers
<1> HIDE DEF a
<1>4. /\ sub' \in Subs /\ sub'.kind = "outputForWrite" /\ sub'.kind \notin ForRead
      /\ sub'.kind \in ForWrite /\ sub'.n = Min({a, Size(y.todo)})
  <2>1. Min({a, Size(y.todo)}) \in Nat
    BY <1>2, <1>3, LeastOfTwo
  <2> QED BY <1>1, <2>1 DEF Subs, ForRead, ForWrite
<1>5. /\ w' \in Writers /\ w'.op = y.op /\ w'.todo = y.todo /\ w'.later = y.later
      /\ w'.bytes = y.bytes /\ w'.amount = y.amount /\ w'.got = y.got /\ w'.start = y.start
      /\ w'.at = "sub" /\ w'.res = "none"
  BY <1>1, <1>3 DEF Offering, Writers, Places
<1>6. WriterOK(w', taken, next')
  <2>1. Rest(w') = Rest(y)
    BY <1>5 DEF Rest
  <2> QED BY <1>5, <2>1 DEF WriterOK, Offering, WriteData
<1>7. ReaderFits(st, r, sub') /\ WriterFits(st, w', sub') /\ SubFits(st, r, w', sub')
  <2>1. ReaderFits(st, r, sub')
    BY <1>2, <1>4 DEF PipeInv, ReaderFits
  <2>2. WriterFits(st, w', sub')
    BY <1>2, <1>4, <1>5 DEF WriterFits
  <2>3. SubFits(st, r, w', sub')
    BY <1>1, <1>4, <1>5 DEF SubFits, a
  <2> QED BY <2>1, <2>2, <2>3
<1> QED BY <1>1, <1>4, <1>6, <1>7 DEF PipeInv, Offering

\* BlockedRead::tryPumpFrom() and BlockedPumpTo::tryPumpFrom() ask the input.
LEMMA PumpToReaderKeeps ==
  ASSUME PipeInv, w.at \in {"idle", "later"}, NEW y, Offering(y, next'), PumpToReader(y)
  PROVE  PipeInv'
<1> DEFINE a == r.min - r.got
           b == r.max - r.got
<1>1. /\ st \in ReadStates /\ y.op = "pumpFrom"
      /\ sub' = [kind |-> "inputForWrite", lo |-> Min({y.amount, a}), hi |-> Min({y.amount, b})]
      /\ w' = [y EXCEPT !.at = "sub"] /\ UNCHANGED <<st, r, taken, watch>>
  BY DEF PumpToReader
<1>2. a \in Nat /\ b \in Nat /\ r.at # "sub" /\ st \notin WriteStates
  BY <1>1 DEF PipeInv, ReaderOK, ReaderFits, Readers, ReadStates, WriteStates
<1>3. y \in Writers /\ y.amount \in Nat
  BY DEF Offering, WriteData, Writers
<1> HIDE DEF a, b
<1>4. /\ sub' \in Subs /\ sub'.kind = "inputForWrite" /\ sub'.kind \notin ForRead
      /\ sub'.kind \in ForWrite /\ sub'.lo = Min({y.amount, a}) /\ sub'.hi = Min({y.amount, b})
  <2>1. Min({y.amount, a}) \in Nat /\ Min({y.amount, b}) \in Nat
    BY <1>2, <1>3, LeastOfTwo
  <2> QED BY <1>1, <2>1 DEF Subs, ForRead, ForWrite
<1>5. /\ w' \in Writers /\ w'.op = y.op /\ w'.todo = y.todo /\ w'.later = y.later
      /\ w'.bytes = y.bytes /\ w'.amount = y.amount /\ w'.got = y.got /\ w'.start = y.start
      /\ w'.at = "sub" /\ w'.res = "none"
  BY <1>1, <1>3 DEF Offering, Writers, Places
<1>6. WriterOK(w', taken, next')
  <2>1. Rest(w') = Rest(y)
    BY <1>5 DEF Rest
  <2> QED BY <1>5, <2>1 DEF WriterOK, Offering, WriteData
<1>7. ReaderFits(st, r, sub') /\ WriterFits(st, w', sub') /\ SubFits(st, r, w', sub')
  <2>1. ReaderFits(st, r, sub')
    BY <1>2, <1>4 DEF PipeInv, ReaderFits
  <2>2. WriterFits(st, w', sub')
    BY <1>2, <1>4, <1>5 DEF WriterFits
  <2>3. SubFits(st, r, w', sub')
    BY <1>1, <1>4, <1>5 DEF Offering, SubFits, a, b
  <2> QED BY <2>1, <2>2, <2>3
<1> QED BY <1>1, <1>4, <1>6, <1>7 DEF PipeInv, Offering

\* A closed pipe refuses a write; a pump first looks at its input.
LEMMA WriteToClosedKeeps ==
  ASSUME PipeInv, w.at \in {"idle", "later"}, NEW y, Offering(y, next'), WriteToClosed(y)
  PROVE  PipeInv'
<1>1. st \in {"AbortedRead", "ShutdownedWrite"} /\ UNCHANGED <<st, r, taken, watch>>
  BY DEF WriteToClosed
<1>2. st \notin WriteStates /\ st \notin ReadStates /\ sub = NoSub
  BY <1>1, IdleWriter DEF ReadStates
<1>3. CASE st = "AbortedRead" /\ y.op = "pumpFrom"
  <2>1. w' = [y EXCEPT !.at = "sub"] /\ sub' = [kind |-> "eof"]
    BY <1>3 DEF WriteToClosed
  <2>2. sub' \in Subs /\ sub'.kind = "eof" /\ sub'.kind \notin ForRead
    BY <2>1 DEF Subs, ForRead
  <2>3. /\ w' \in Writers /\ w'.op = y.op /\ w'.todo = y.todo /\ w'.later = y.later
        /\ w'.bytes = y.bytes /\ w'.amount = y.amount /\ w'.got = y.got /\ w'.start = y.start
        /\ w'.at = "sub" /\ w'.res = "none"
    BY <2>1 DEF Offering, WriteData, Writers, Places
  <2>4. WriterOK(w', taken, next')
    <3>1. Rest(w') = Rest(y)
      BY <2>3 DEF Rest
    <3> QED BY <2>3, <3>1 DEF WriterOK, Offering, WriteData
  <2>5. ReaderFits(st, r, sub')
    BY <1>2, <2>2, NoSubFacts DEF PipeInv, ReaderFits, ForRead
  <2>6. WriterFits(st, w', sub')
    BY <1>2, <2>2, <2>3 DEF WriterFits
  <2>7. SubFits(st, r, w', sub')
    BY <1>3, <2>2, <2>3 DEF SubFits
  <2> QED BY <1>1, <2>2, <2>4, <2>5, <2>6, <2>7 DEF PipeInv, Offering
<1>4. CASE ~(st = "AbortedRead" /\ y.op = "pumpFrom")
  <2> DEFINE c == IF st = "AbortedRead" THEN "disconnected" ELSE "failed"
  <2>1. w' = Resolve(y, c) /\ sub' = sub
    BY <1>4 DEF WriteToClosed
  <2>2. c \in Results \ {"none"} /\ c # "ok"
    BY DEF Results
  <2> HIDE DEF c
  <2>3. WriterOK(w', taken, next') /\ WriterFits(st, w', NoSub)
    <3>1. NoSub.kind \notin ForWrite \cup {"eof"}
      BY NoSubFacts DEF ForWrite
    <3> QED BY <1>2, <2>1, <2>2, <3>1, WriteEnds DEF Offering
  <2> QED BY <1>1, <1>2, <2>1, <2>3, NoSubFacts DEF PipeInv, Offering
<1> QED BY <1>3, <1>4

\* A write() meets the end of a pump between two pieces.
LEMMA WriteAtEdge ==
  ASSUME NEW y \in Writers, NEW t, NEW nx, y.op = "write", y.res = "none",
         NEW left \in Seq(Seq(Nat)),
         Placed(FlattenSeq(left) \o FlattenSeq(y.later), y.bytes, y.start, t, nx),
         NEW z, z = [y EXCEPT !.at = "later", !.todo = <<>>, !.later = left \o @]
  PROVE  WriterOK(z, t, nx) /\ \A s : s \notin WriteStates => WriterFits(s, z, NoSub)
<1>1. <<>> \in Seq(Seq(Nat)) /\ y.later \in Seq(Seq(Nat)) /\ left \o y.later \in Seq(Seq(Nat))
  BY DEF Writers
<1>2. /\ z \in Writers /\ z.op = y.op /\ z.todo = <<>> /\ z.later = left \o y.later
      /\ z.bytes = y.bytes /\ z.start = y.start /\ z.at = "later" /\ z.res = y.res
  BY <1>1 DEF Writers, Places
<1>3. Rest(z) = FlattenSeq(left) \o FlattenSeq(y.later)
  <2> DEFINE f == FlattenSeq(left \o y.later)
  <2>1. f \in Seq(Nat) /\ FlattenSeq(<<>>) = <<>>
    BY <1>1, FlattenType, FlattenShort
  <2>2. f = FlattenSeq(left) \o FlattenSeq(y.later)
    BY <1>1, FlattenConcat
  <2>3. Rest(z) = <<>> \o f
    BY <1>2, <2>1 DEF Rest
  <2> HIDE DEF f
  <2>4. <<>> \o f = f
    BY <2>1
  <2> QED BY <2>2, <2>3, <2>4
<1>4. WriterOK(z, t, nx)
  BY <1>2, <1>3 DEF WriterOK
<1>5. \A s : s \notin WriteStates => WriterFits(s, z, NoSub)
  BY <1>2, NoSubFacts DEF WriterFits, ForWrite
<1> QED BY <1>4, <1>5

\* The output of a pumpTo() has taken a part of a write().
LEMMA WriteToPumpDoneKeeps == ASSUME PipeInv, WriteToPumpDone PROVE PipeInv'
<1> DEFINE n == sub.n
           left == After(w.todo, n)
           x == [r EXCEPT !.got = @ + n]
           t == taken \o SubSeq(FlattenSeq(w.todo), 1, n)
           atEdge == left # <<>> /\ ~Splits(w.todo, n)
<1>1. /\ sub.kind = "outputForWrite" /\ sub.kind \in ForWrite /\ sub.kind \notin ForRead
      /\ taken' = t /\ sub' = NoSub /\ UNCHANGED <<next, watch>>
      /\ w' = (IF left = <<>> THEN WritePartDone(w)
               ELSE IF atEdge THEN [w EXCEPT !.at = "later", !.todo = <<>>, !.later = left \o @]
               ELSE RestOfWrite(w, left, TRUE))
      /\ IF x.got = x.max
         THEN r' = Resolve(x, "ok") /\ st' = IF atEdge THEN "none" ELSE RestOfWriteSt(left)
         ELSE r' = x /\ UNCHANGED st
  BY DEF WriteToPumpDone, ForRead, ForWrite
<1>2. st = "BlockedPumpTo" /\ n = Min({r.max - r.got, Size(w.todo)}) /\ w.op = "write"
  BY <1>1 DEF PipeInv, SubFits
<1>3. st \in ReadStates /\ st \notin WriteStates /\ st \in States /\ st # "AbortedRead"
  BY <1>2 DEF ReadStates, WriteStates, States
<1>4. /\ r \in Readers /\ r.op = "pumpTo" /\ r.got < r.min /\ r.min = r.max /\ r.got <= r.max
      /\ (r.at = "blocked" \/ (r.at = "done" /\ r.res = "failed")) /\ (r.res = "none" <=> r.at # "done")
      /\ r.start + r.got = Len(taken) /\ r.start \in Nat /\ r.got \in Nat /\ r.min \in Nat /\ r.max \in Nat
      /\ r.res # "ok"
  BY <1>2, <1>3 DEF PipeInv, ReaderOK, ReaderFits, Readers
<1>5. /\ w \in Writers /\ w.at = "sub" /\ w.res = "none" /\ w.todo \in Seq(Seq(Nat)) /\ Size(w.todo) \in Nat
      /\ Placed(Rest(w), w.bytes, w.start, taken, next) /\ Rising(taken)
  <2>1. w.at = "sub"
    BY <1>1 DEF PipeInv, WriterFits
  <2> QED BY <2>1, SizeIsNat DEF PipeInv, WriterOK, Writers
<1>6. n \in 0..Size(w.todo) /\ n \in Nat /\ n <= r.max - r.got /\ (n = r.max - r.got \/ n = Size(w.todo))
  <2> DEFINE m == Min({r.max - r.got, Size(w.todo)})
  <2>1. r.max - r.got \in Nat
    BY <1>4
  <2>2. m \in Nat /\ m <= r.max - r.got /\ m <= Size(w.todo) /\ (m = r.max - r.got \/ m = Size(w.todo))
    BY <1>5, <2>1, LeastOfTwo
  <2> HIDE DEF n, m
  <2>3. n = m
    BY <1>2 DEF m
  <2> QED BY <1>5, <2>2, <2>3
<1> HIDE DEF n
<1>7. /\ left \in Seq(Seq(Nat)) /\ (left = <<>> <=> n = Size(w.todo))
      /\ t \in Seq(Nat) /\ Len(t) = Len(taken) + n /\ Rising(t) /\ Below(t, next)
      /\ Placed(FlattenSeq(left) \o FlattenSeq(w.later), w.bytes, w.start, t, next)
  BY <1>5, <1>6, PartMoves
<1> HIDE DEF t, left
<1>8. /\ x \in Readers /\ x.op = r.op /\ x.at = r.at /\ x.min = r.min /\ x.max = r.max
      /\ x.got = r.got + n /\ x.res = r.res /\ x.start = r.start
  <2>1. r.got + n \in Nat
    BY <1>4, <1>6
  <2> QED BY <1>4, <2>1 DEF Readers
<1> HIDE DEF x
<1>9. ReadData(x, Len(t))
  <2>1. x.start + x.got = Len(t)
    <3>1. x.start + x.got = (r.start + r.got) + n
      BY <1>4, <1>6, <1>8
    <3> QED BY <1>4, <1>7, <3>1
  <2>2. x.got <= x.max /\ x.min <= x.max /\ (x.op = "pumpTo" => x.min = x.max) /\ x.op # "none"
    BY <1>4, <1>6, <1>8
  <2> QED BY <1>8, <2>1, <2>2 DEF ReadData
<1>10. NoSub.kind \notin ForRead /\ NoSub.kind \notin ForWrite \cup {"eof"}
  BY NoSubFacts DEF ForRead, ForWrite
<1>11. x.got # x.max => left = <<>> /\ x.got < x.min
  <2>1. x.got # x.max => n # r.max - r.got /\ x.got < x.min
    BY <1>4, <1>6, <1>8
  <2>2. n # r.max - r.got => left = <<>>
    BY <1>6, <1>7
  <2> QED BY <2>1, <2>2
<1>12. /\ WriterOK(w', t, next)
       /\ left = <<>> => \A s : s \notin WriteStates => WriterFits(s, w', NoSub)
       /\ left # <<>> => WriterFits(IF atEdge THEN "none" ELSE RestOfWriteSt(left), w', NoSub)
  <2>1. CASE left = <<>>
    <3>1. Placed(FlattenSeq(w.later), w.bytes, w.start, t, next)
      <4> DEFINE f == FlattenSeq(w.later)
      <4>1. f \in Seq(Nat)
        BY <1>5, FlattenType DEF Writers
      <4> HIDE DEF f
      <4>2. <<>> \o f = f /\ FlattenSeq(<<>>) = <<>>
        BY <4>1, FlattenShort
      <4> QED BY <1>7, <2>1, <4>2 DEF f
    <3>2. w' = WritePartDone(w)
      BY <1>1, <2>1
    <3> QED BY <1>2, <1>5, <1>10, <2>1, <3>1, <3>2, PartEnds
  <2>2. CASE atEdge
    <3>1. w' = [w EXCEPT !.at = "later", !.todo = <<>>, !.later = left \o @]
      BY <1>1, <2>2
    <3>2. WriterOK(w', t, next) /\ \A s : s \notin WriteStates => WriterFits(s, w', NoSub)
      BY <1>2, <1>5, <1>7, <3>1, WriteAtEdge
    <3> QED BY <2>2, <3>2 DEF WriteStates
  <2>3. CASE left # <<>> /\ ~atEdge
    <3>1. w' = RestOfWrite(w, left, TRUE)
      BY <1>1, <2>3
    <3> QED BY <1>2, <1>5, <1>7, <2>3, <3>1, WriteGoesOn
  <2> QED BY <2>1, <2>2, <2>3
<1>13. CASE x.got = x.max
  <2> DEFINE s == IF atEdge THEN "none" ELSE RestOfWriteSt(left)
  <2>1. r' = Resolve(x, "ok") /\ st' = s
    BY <1>1, <1>13
  <2>2. /\ s \in States /\ s \notin ReadStates /\ s # "AbortedRead"
        /\ left = <<>> => s \notin WriteStates
    BY DEF RestOfWriteSt, States, WriteStates, ReadStates
  <2>3. WriterFits(s, w', NoSub)
    BY <1>12, <2>2
  <2> HIDE DEF s
  <2>4. ReaderOK(r', Len(t), s) /\ ReaderFits(s, r', NoSub)
    <3>1. "ok" \in Results \ {"none"} /\ x.res # "ok" /\ x.got >= x.min
      BY <1>4, <1>8, <1>13 DEF Results
    <3> QED BY <1>9, <1>10, <2>1, <2>2, <3>1, ReadEnds
  <2> QED BY <1>1, <1>7, <1>12, <2>1, <2>2, <2>3, <2>4, NoSubFacts DEF PipeInv
<1>14. CASE x.got # x.max
  <2>1. r' = x /\ st' = st
    BY <1>1, <1>14
  <2>2. ReaderOK(x, Len(t), st)
    BY <1>4, <1>8, <1>9 DEF ReaderOK, ReadData
  <2>3. ReaderFits(st, x, NoSub)
    BY <1>2, <1>3, <1>4, <1>8, <1>10, <1>11, <1>14 DEF ReaderFits
  <2> QED BY <1>1, <1>3, <1>7, <1>11, <1>12, <1>14, <2>1, <2>2, <2>3, NoSubFacts DEF PipeInv
<1> QED BY <1>13, <1>14

\* The input of a tryPumpFrom() has answered a read end that waits.
LEMMA PumpToReaderDoneKeeps ==
  ASSUME PipeInv, NEW k \in 0..MaxBytes, NEW uncounted \in {0, k},
         PumpToReaderDone(k, uncounted)
  PROVE  PipeInv'
<1> DEFINE a == r.min - r.got
           b == r.max - r.got
           u == taken \o SubSeq(w.todo[1], 1, k)
           y == Fed(w, k)
           x == [r EXCEPT !.got = @ + k]
<1>1. /\ sub.kind = "inputForWrite" /\ sub.kind \in ForWrite
      /\ k \in Answers(w.todo[1], sub.lo, sub.hi)
      /\ taken' = u /\ sub' = NoSub /\ UNCHANGED <<next, watch>>
      /\ IF x.got >= x.min
         THEN /\ r' = Resolve(x, "ok")
              /\ IF y.got < y.amount
                 THEN /\ w' = [y EXCEPT !.at = "blocked", !.uncounted = uncounted]
                      /\ st' = "BlockedPumpFrom"
                 ELSE w' = Resolve(y, "ok") /\ st' = "none"
         ELSE r' = x /\ w' = Resolve(y, "ok") /\ UNCHANGED st
  BY DEF PumpToReaderDone, ForWrite, Fed
<1>2. /\ st \in ReadStates /\ w.op = "pumpFrom" /\ w.got = 0
      /\ sub.lo = Min({w.amount, a}) /\ sub.hi = Min({w.amount, b})
  BY <1>1 DEF PipeInv, SubFits
<1>3. /\ r \in Readers /\ r.op # "none" /\ r.got < r.min /\ r.min <= r.max /\ r.got <= r.max
      /\ (r.op = "pumpTo" => r.min = r.max) /\ r.op = (IF st = "BlockedRead" THEN "read" ELSE "pumpTo")
      /\ (r.at = "blocked" \/ (r.at = "done" /\ r.res = "failed")) /\ (r.res = "none" <=> r.at # "done")
      /\ r.start + r.got = Len(taken) /\ r.start \in Nat /\ r.got \in Nat /\ r.min \in Nat /\ r.max \in Nat
      /\ r.res # "ok"
  BY <1>2 DEF PipeInv, ReaderOK, ReaderFits, Readers
<1>4. /\ w.at = "sub" /\ w.res = "none" /\ WriteData(w, taken, next) /\ Rising(taken)
      /\ w.todo \in Seq(Seq(Nat)) /\ Len(w.todo) = 1 /\ w.amount \in Nat
  <2>1. w.at = "sub"
    BY <1>1 DEF PipeInv, WriterFits
  <2> QED BY <1>2, <2>1 DEF PipeInv, WriterOK, Writers, WriteData
<1>5. a \in Nat /\ b \in Nat /\ w.todo[1] \in Seq(Nat)
  <2>1. a \in Nat /\ b \in Nat
    BY <1>3
  <2>2. w.todo[1] \in Seq(Nat)
    BY <1>4
  <2> HIDE DEF a, b
  <2> QED BY <2>1, <2>2
<1>6. /\ k \in 0..Len(w.todo[1]) /\ k \in Nat /\ k <= w.amount /\ k <= b
      /\ k < sub.lo => k = Len(w.todo[1])
      /\ ~(k < sub.lo) => k = w.amount \/ k >= a
  <2> DEFINE input == w.todo[1]
  <2>1. input \in Seq(Nat) /\ k \in Answers(input, sub.lo, sub.hi)
    BY <1>1, <1>5
  <2> HIDE DEF input, a, b
  <2>2. /\ sub.lo \in Nat /\ sub.hi \in Nat /\ (sub.lo = w.amount \/ sub.lo = a)
        /\ sub.hi <= w.amount /\ sub.hi <= b
    BY <1>2, <1>4, <1>5, LeastOfTwo
  <2>3. k \in 0..Len(input) /\ k <= sub.hi /\ (k < sub.lo => k = Len(input))
    BY <2>1, <2>2, AnswerBounds
  <2>4. k \in Nat /\ Len(input) \in Nat
    BY <2>1, <2>3
  <2>5. /\ k \in 0..Len(input) /\ k \in Nat /\ k <= w.amount /\ k <= b
        /\ k < sub.lo => k = Len(input)
        /\ ~(k < sub.lo) => k = w.amount \/ k >= a
    BY <1>4, <1>5, <2>2, <2>3, <2>4
  <2> QED BY <2>5 DEF input
<1>7. /\ u \in Seq(Nat) /\ Len(u) = Len(taken) + k /\ Rising(u) /\ Below(u, next)
      /\ WriteData(y, u, next) /\ y.op = w.op /\ y.at = w.at /\ y.res = w.res
      /\ y.got = k /\ y.amount = w.amount
      /\ k = Len(w.todo[1]) => y.todo[1] = <<>>
  <2>1. k <= w.amount - w.got /\ w.got + k = k
    BY <1>2, <1>4, <1>6
  <2>2. k \in 0..Len(w.todo[1])
    BY <1>6
  <2>3. WriteData(w, taken, next) /\ Rising(taken) /\ w.op = "pumpFrom"
    BY <1>2, <1>4
  <2>4. /\ u \in Seq(Nat) /\ Len(u) = Len(taken) + k /\ Rising(u) /\ Below(u, next)
        /\ WriteData(y, u, next) /\ y.op = w.op /\ y.at = w.at /\ y.res = w.res
        /\ y.got = w.got + k /\ y.amount = w.amount
        /\ k = Len(w.todo[1]) => y.todo[1] = <<>>
    BY <2>1, <2>2, <2>3, InputMoves, SMTT(30)
  <2> HIDE DEF u, y
  <2> QED BY <2>1, <2>4
<1>8. /\ x \in Readers /\ x.op = r.op /\ x.at = r.at /\ x.min = r.min /\ x.max = r.max
      /\ x.got = r.got + k /\ x.res = r.res /\ x.start = r.start
  <2>1. r.got + k \in Nat
    BY <1>3, <1>6
  <2> QED BY <1>3, <2>1 DEF Readers
<1> HIDE DEF u, x, y
<1>9. ReadData(x, Len(u))
  <2>1. x.start + x.got = Len(u)
    <3>1. x.start + x.got = (r.start + r.got) + k
      BY <1>3, <1>6, <1>8
    <3> QED BY <1>3, <1>7, <3>1
  <2>2. x.got <= x.max /\ x.min <= x.max /\ (x.op = "pumpTo" => x.min = x.max) /\ x.op # "none"
    BY <1>3, <1>6, <1>8
  <2> QED BY <1>8, <2>1, <2>2 DEF ReadData
<1>10. NoSub.kind \notin ForRead /\ NoSub.kind \notin ForWrite \cup {"eof"} /\ "ok" \in Results \ {"none"}
  BY NoSubFacts DEF ForRead, ForWrite, Results
<1>11. st \in States /\ st \notin WriteStates /\ st # "AbortedRead"
  BY <1>2 DEF States, ReadStates, WriteStates
<1>12. ASSUME y.got = y.amount \/ y.todo[1] = <<>>
       PROVE  /\ WriterOK(Resolve(y, "ok"), u, next)
              /\ \A s : s \notin WriteStates => WriterFits(s, Resolve(y, "ok"), NoSub)
  <2>1. y.res # "ok" /\ y.op # "write"
    BY <1>2, <1>4, <1>7
  <2> QED BY <1>7, <1>10, <1>12, <2>1, WriteEnds
<1>13. CASE x.got >= x.min
  <2>1. r' = Resolve(x, "ok")
    BY <1>1, <1>13
  <2>2. \A s : s \notin ReadStates => ReaderOK(r', Len(u), s) /\ ReaderFits(s, r', NoSub)
    <3> TAKE s
    <3>1. x.res # "ok"
      BY <1>3, <1>8
    <3> QED BY <1>9, <1>10, <1>13, <2>1, <3>1, ReadEnds
  <2>3. CASE y.got < y.amount
    <3>1. /\ w' = [y EXCEPT !.at = "blocked", !.uncounted = uncounted]
          /\ st' = "BlockedPumpFrom" /\ uncounted \in Nat
      BY <1>1, <1>6, <1>13, <2>3
    <3>2. /\ w' \in Writers /\ w'.op = y.op /\ w'.todo = y.todo /\ w'.later = y.later
          /\ w'.bytes = y.bytes /\ w'.amount = y.amount /\ w'.got = y.got /\ w'.start = y.start
          /\ w'.at = "blocked" /\ w'.res = "none"
      BY <1>4, <1>7, <3>1 DEF WriteData, Writers, Places
    <3>3. WriterOK(w', u, next)
      <4>1. Rest(w') = Rest(y)
        BY <3>2 DEF Rest
      <4> QED BY <1>7, <3>2, <4>1 DEF WriterOK, WriteData
    <3>4. WriterFits(st', w', NoSub)
      BY <1>2, <1>7, <1>10, <3>1, <3>2 DEF WriterFits, WriteStates
    <3>5. st' \in States /\ st' \notin ReadStates /\ st' # "AbortedRead"
      BY <3>1 DEF States, WriteStates, ReadStates
    <3> QED BY <1>1, <1>7, <2>2, <3>3, <3>4, <3>5, NoSubFacts DEF PipeInv
  <2>4. CASE ~(y.got < y.amount)
    <3>1. w' = Resolve(y, "ok") /\ st' = "none"
      BY <1>1, <1>13, <2>4
    <3>2. y.got = y.amount
      BY <1>4, <1>6, <1>7, <2>4
    <3>3. st' \in States /\ st' \notin ReadStates /\ st' \notin WriteStates /\ st' # "AbortedRead"
      BY <3>1 DEF States, WriteStates, ReadStates
    <3> QED BY <1>1, <1>7, <1>12, <2>2, <3>1, <3>2, <3>3, NoSubFacts DEF PipeInv
  <2> QED BY <2>3, <2>4
<1>14. CASE ~(x.got >= x.min)
  <2>1. r' = x /\ w' = Resolve(y, "ok") /\ st' = st
    BY <1>1, <1>14
  <2>2. y.got = y.amount \/ y.todo[1] = <<>>
    <3>1. x.got < x.min /\ ~(k >= a)
      BY <1>3, <1>6, <1>8, <1>14
    <3> QED BY <1>6, <1>7, <3>1
  <2>3. ReaderOK(x, Len(u), st)
    BY <1>3, <1>8, <1>9 DEF ReaderOK, ReadData
  <2>4. ReaderFits(st, x, NoSub)
    <3>1. x.got < x.min
      BY <1>3, <1>6, <1>8, <1>14
    <3> QED BY <1>2, <1>3, <1>8, <1>10, <3>1 DEF ReaderFits
  <2> QED BY <1>1, <1>7, <1>11, <1>12, <2>1, <2>2, <2>3, <2>4, NoSubFacts DEF PipeInv
<1> QED BY <1>13, <1>14

-----------------------------------------------------------------------------
(* What the two ends may ask for                                           *)

\* In whatever state the read end finds the pipe.
LEMMA ReadKeeps ==
  ASSUME PipeInv, r.at = "idle", NEW x, Asking(x), Read(x)
  PROVE  PipeInv'
BY ReadBlocksKeeps, ReadFromWriteKeeps, PumpFromWriteKeeps, ReadFromPumpKeeps, ReadFromClosedKeeps DEF Read

\* The calls of the read end, with the arguments they may have.
LEMMA ReadersKeep ==
  ASSUME PipeInv, (\E rd \in Reads : PipeRead(rd[1], rd[2])) \/ (\E a \in Amounts : PipePump(a))
  PROVE  PipeInv'
<1>1. ASSUME NEW rd \in Reads, PipeRead(rd[1], rd[2]) PROVE PipeInv'
  <2>1. rd[1] \in Nat /\ rd[2] \in Nat /\ rd[1] <= rd[2]
    BY PipeAssumption
  <2>2. Asking(NewRead("read", rd[1], rd[2]))
    BY <2>1, NewReadAsks
  <2> QED BY <1>1, <2>2, ReadKeeps DEF PipeRead
<1>2. ASSUME NEW a \in Amounts, PipePump(a) PROVE PipeInv'
  <2>1. a \in Nat
    BY PipeAssumption
  <2>2. a <= a
    BY <2>1
  <2>3. Asking(NewRead("pumpTo", a, a))
    BY <2>1, <2>2, NewReadAsks
  <2> QED BY <1>2, <2>3, ReadKeeps DEF PipePump
<1> QED BY <1>1, <1>2

\* In whatever state the write end finds the pipe.
LEMMA WriteOpKeeps ==
  ASSUME PipeInv, w.at \in {"idle", "later"}, NEW y, Offering(y, next'), WriteOp(y)
  PROVE  PipeInv'
BY WriteBlocksKeeps, WriteToReadKeeps, WriteToPumpKeeps, PumpToReaderKeeps, WriteToClosedKeeps DEF WriteOp

\* Skipping empty pieces skips no byte.
LEMMA StrippedHasAll ==
  ASSUME NEW ps \in Seq(Seq(Nat))
  PROVE  Stripped(ps) \in Seq(Seq(Nat)) /\ FlattenSeq(Stripped(ps)) = FlattenSeq(ps)
<1> DEFINE all == FlattenSeq(ps)
           rest == FlattenSeq(After(ps, 0))
<1>1. 0 \in 0..Size(ps)
  BY SizeIsNat
<1>2. After(ps, 0) \in Seq(Seq(Nat)) /\ SubSeq(all, 1, 0) \o rest = all
  BY <1>1, Consumed
<1>3. all \in Seq(Nat) /\ rest \in Seq(Nat)
  BY <1>2, FlattenType
<1> HIDE DEF all, rest
<1>4. SubSeq(all, 1, 0) = <<>>
  BY <1>3
<1>5. <<>> \o rest = rest
  BY <1>3
<1>6. rest = all
  BY <1>2, <1>4, <1>5
<1> QED BY <1>2, <1>6 DEF Stripped, all, rest

\* The next n bytes may be offered.
LEMMA FreshBegins ==
  ASSUME PipeInv, NEW n \in Nat
  PROVE  /\ Fresh(n) \in Seq(Nat) /\ Len(Fresh(n)) = n
         /\ Placed(Fresh(n), Fresh(n), Len(taken), taken, next + n)
         /\ next + n \in Nat \ {0} /\ Below(taken, next + n)
<1>1. next \in Nat \ {0} /\ taken \in Seq(Nat) /\ Below(taken, next)
  BY DEF PipeInv
<1>2. Fresh(n) = Numbers(next, n)
  BY DEF Fresh, Numbers
<1>3. Numbers(next, n) \in Seq(Nat) /\ Len(Numbers(next, n)) = n
  BY <1>1, NumbersJoin
<1>4. Placed(Numbers(next, n), Numbers(next, n), Len(taken), taken, next + n)
  BY <1>1, Begins
<1>5. next + n \in Nat \ {0} /\ Below(taken, next + n)
  <2>1. \A i \in 1..Len(taken) : taken[i] \in Nat
    BY <1>1
  <2> QED BY <1>1, <2>1 DEF Below
<1> QED BY <1>2, <1>3, <1>4, <1>5

\* A write() begins with all its bytes, in pieces.
LEMMA NewWriteOffers ==
  ASSUME PipeInv, NEW shape \in Seq(Nat)
  PROVE  Offering(NewWrite(shape), next + SumSeqTo(shape, Len(shape)))
<1> DEFINE n == SumSeqTo(shape, Len(shape))
           y == NewWrite(shape)
           todo == Stripped(Offer(shape))
<1>1. n \in Nat /\ Offer(shape) \in Seq(Seq(Nat)) /\ FlattenSeq(Offer(shape)) = Fresh(n)
  BY Offered DEF PipeInv
<1>2. todo \in Seq(Seq(Nat)) /\ FlattenSeq(todo) = Fresh(n)
  BY <1>1, StrippedHasAll
<1>3. y = [IdleW EXCEPT !.op = "write", !.todo = todo, !.bytes = Fresh(n), !.start = Len(taken)]
  BY DEF NewWrite
<1> HIDE DEF n, todo, y
<1>4. /\ Fresh(n) \in Seq(Nat) /\ Placed(Fresh(n), Fresh(n), Len(taken), taken, next + n)
      /\ next + n \in Nat \ {0} /\ Below(taken, next + n)
  BY <1>1, FreshBegins
<1>5. Len(taken) \in Nat
  BY DEF PipeInv
<1>6. /\ IdleW \in Writers /\ IdleW.at = "idle" /\ IdleW.later = <<>> /\ IdleW.res = "none"
  BY DEF IdleW, Writers, Places, Results
<1>7. /\ y \in Writers /\ y.op = "write" /\ y.at = "idle" /\ y.todo = todo /\ y.later = <<>>
      /\ y.bytes = Fresh(n) /\ y.start = Len(taken) /\ y.res = "none"
  BY <1>2, <1>3, <1>4, <1>5, <1>6 DEF Writers
<1>8. Rest(y) = Fresh(n)
  <2>1. FlattenSeq(<<>>) = <<>>
    BY FlattenShort
  <2>2. Fresh(n) \o <<>> = Fresh(n)
    BY <1>4
  <2> QED BY <1>2, <1>7, <2>1, <2>2 DEF Rest
<1>9. Offering(y, next + n)
  BY <1>4, <1>7, <1>8 DEF Offering, WriteData
<1> QED BY <1>9 DEF n, y

\* A tryPumpFrom() begins with what its input has.
LEMMA NewPumpOffers ==
  ASSUME PipeInv, NEW amount \in Nat, NEW n \in Nat
  PROVE  Offering(NewPump(amount, n), next + n)
<1> DEFINE y == NewPump(amount, n)
           f == Fresh(n)
<1>1. /\ f \in Seq(Nat) /\ Placed(f, f, Len(taken), taken, next + n)
      /\ next + n \in Nat \ {0} /\ Below(taken, next + n)
  BY FreshBegins
<1>2. y = [IdleW EXCEPT !.op = "pumpFrom", !.todo = <<f>>, !.bytes = f, !.amount = amount, !.start = Len(taken)]
  BY DEF NewPump
<1> HIDE DEF f, y
<1>3. Len(taken) \in Nat
  BY DEF PipeInv
<1>4. /\ IdleW \in Writers /\ IdleW.at = "idle" /\ IdleW.later = <<>> /\ IdleW.res = "none" /\ IdleW.got = 0
  BY DEF IdleW, Writers, Places, Results
<1>5. <<f>> \in Seq(Seq(Nat)) /\ Len(<<f>>) = 1
  BY <1>1
<1>6. /\ y \in Writers /\ y.op = "pumpFrom" /\ y.at = "idle" /\ y.todo = <<f>> /\ y.later = <<>>
      /\ y.bytes = f /\ y.amount = amount /\ y.start = Len(taken) /\ y.res = "none" /\ y.got = 0
  BY <1>1, <1>2, <1>3, <1>4, <1>5 DEF Writers
<1>7. Rest(y) = f
  <2>1. FlattenSeq(<<>>) = <<>> /\ FlattenSeq(<<f>>) = f
    BY <1>1, FlattenShort
  <2>2. f \o <<>> = f
    BY <1>1
  <2> QED BY <1>6, <2>1, <2>2 DEF Rest
<1>8. y.got <= y.amount /\ y.start + y.got = Len(taken)
  BY <1>3, <1>6
<1>9. Offering(y, next + n)
  BY <1>1, <1>5, <1>6, <1>7, <1>8 DEF Offering, WriteData
<1> QED BY <1>9 DEF y

\* The calls of the write end, with the arguments they may have.
LEMMA WritersKeep ==
  ASSUME PipeInv, (\E shape \in Shapes : Write(shape)) \/ (\E p \in Pumps : TryPumpFrom(p[1], p[2]))
  PROVE  PipeInv'
<1>1. ASSUME NEW shape \in Shapes, Write(shape) PROVE PipeInv'
  <2>1. shape \in Seq(Nat)
    BY PipeAssumption
  <2>2. Offering(NewWrite(shape), next')
    BY <1>1, <2>1, NewWriteOffers DEF Write
  <2> QED BY <1>1, <2>2, WriteOpKeeps DEF Write
<1>2. ASSUME NEW p \in Pumps, TryPumpFrom(p[1], p[2]) PROVE PipeInv'
  <2>1. p[1] \in Nat /\ p[2] \in Nat
    BY PipeAssumption
  <2>2. Offering(NewPump(p[1], p[2]), next')
    BY <1>2, <2>1, NewPumpOffers DEF TryPumpFrom
  <2> QED BY <1>2, <2>2, WriteOpKeeps DEF TryPumpFrom
<1> QED BY <1>1, <1>2

\* The `.then()` of a write() goes on with the pieces set aside.
LEMMA WriteLaterKeeps == ASSUME PipeInv, WriteLater PROVE PipeInv'
<1> DEFINE y == [w EXCEPT !.todo = Stripped(w.later), !.later = <<>>]
           all == FlattenSeq(w.later)
<1>1. /\ w.at = "later" /\ next' = next
      /\ IF y.todo = <<>> THEN w' = Resolve(y, "ok") /\ UNCHANGED <<st, r, sub, taken, watch>>
                          ELSE WriteOp(y)
  BY DEF WriteLater
<1>2. /\ w \in Writers /\ w.op = "write" /\ w.todo = <<>> /\ w.res = "none" /\ w.later \in Seq(Seq(Nat))
      /\ Placed(Rest(w), w.bytes, w.start, taken, next)
  BY <1>1 DEF PipeInv, WriterOK, Writers
<1>3. Stripped(w.later) \in Seq(Seq(Nat)) /\ FlattenSeq(Stripped(w.later)) = all /\ all \in Seq(Nat)
  BY <1>2, StrippedHasAll, FlattenType
<1> HIDE DEF all
<1>4. <<>> \in Seq(Seq(Nat)) /\ FlattenSeq(<<>>) = <<>> /\ <<>> \o all = all /\ all \o <<>> = all
  BY <1>3, FlattenShort
<1>5. /\ y \in Writers /\ y.op = "write" /\ y.at = "later" /\ y.todo = Stripped(w.later) /\ y.later = <<>>
      /\ y.bytes = w.bytes /\ y.start = w.start /\ y.res = "none"
  BY <1>1, <1>2, <1>3, <1>4 DEF Writers
<1> HIDE DEF y
<1>6. Rest(y) = Rest(w)
  BY <1>2, <1>3, <1>4, <1>5 DEF Rest, all
<1>7. WriteData(y, taken, next)
  BY <1>2, <1>5, <1>6 DEF WriteData
<1>8. CASE y.todo = <<>>
  <2>1. w' = Resolve(y, "ok") /\ UNCHANGED <<st, r, sub, taken, watch>>
    BY <1>1, <1>8
  <2>2. st \notin WriteStates /\ sub = NoSub
    BY <1>1, IdleWriter
  <2>3. "ok" \in Results \ {"none"} /\ NoSub.kind \notin ForWrite \cup {"eof"}
    BY NoSubFacts DEF Results, ForWrite
  <2>4. WriterOK(w', taken, next) /\ WriterFits(st, w', NoSub)
    BY <1>5, <1>7, <1>8, <2>1, <2>2, <2>3, WriteEnds
  <2> QED BY <1>1, <2>1, <2>2, <2>4, NoSubFacts DEF PipeInv
<1>9. CASE y.todo # <<>>
  <2>1. Offering(y, next')
    BY <1>1, <1>5, <1>7 DEF Offering, PipeInv
  <2>2. WriteOp(y)
    BY <1>1, <1>9
  <2> QED BY <1>1, <2>1, <2>2, WriteOpKeeps
<1> QED BY <1>8, <1>9

-----------------------------------------------------------------------------
(* Failure, closing and cancellation                                       *)

\* An operation that waits can be ended.
LEMMA WaitingRead ==
  ASSUME PipeInv, st \in ReadStates \/ sub.kind \in ForRead
  PROVE  ReadData(r, Len(taken)) /\ r.res # "ok" /\ r.at # "idle"
<1>1. r.op # "none" /\ r.res # "ok"
  <2>1. CASE st \in ReadStates
    BY <2>1 DEF PipeInv, ReaderOK, ReaderFits, ReadStates
  <2>2. CASE sub.kind \in ForRead
    BY <2>2 DEF PipeInv, ReaderOK, ReaderFits
  <2> QED BY <2>1, <2>2
<1> QED BY <1>1 DEF PipeInv, ReaderOK, ReadData

\* The same of the write end.
LEMMA WaitingWrite ==
  ASSUME PipeInv, st \in WriteStates \/ sub.kind \in ForWrite \cup {"eof"}
  PROVE  WriteData(w, taken, next) /\ w.res # "ok" /\ w.at # "idle"
<1>1. w.op # "none" /\ w.res # "ok"
  <2>1. CASE st \in WriteStates
    BY <2>1 DEF PipeInv, WriterOK, WriterFits, WriteStates
  <2>2. CASE sub.kind \in ForWrite \cup {"eof"}
    BY <2>2 DEF PipeInv, WriterOK, WriterFits
  <2> QED BY <2>1, <2>2
<1> QED BY <1>1 DEF PipeInv, WriterOK, WriteData

\* What an operation that is cut short is resolved with.
LEMMA FailureResults ==
  /\ {"failed", "disconnected", "canceled"} \subseteq Results \ {"none"}
  /\ NoSub.kind \notin ForRead /\ NoSub.kind \notin ForWrite \cup {"eof"}
BY NoSubFacts DEF Results, ForRead, ForWrite

\* A stream that throws ends both operations and leaves the state.
LEMMA SubFailsKeeps == ASSUME PipeInv, SubFails PROVE PipeInv'
<1>1. /\ sub # NoSub /\ sub' = NoSub /\ UNCHANGED <<st, taken, next, watch>>
      /\ r' = (IF sub.kind = "eof" THEN r ELSE Resolve(r, "failed")) /\ w' = Resolve(w, "failed")
  BY DEF SubFails
<1>2. sub.kind = "eof" \/ sub.kind \in ForRead \/ sub.kind \in ForWrite
  BY <1>1, Alone
<1>3. ReaderOK(r', Len(taken), st) /\ ReaderFits(st, r', NoSub)
  <2>1. CASE sub.kind = "eof"
    <3>1. r' = r /\ r.at # "sub"
      BY <1>1, <2>1 DEF PipeInv, ReaderFits, ForRead
    <3> QED BY <3>1, FailureResults DEF PipeInv, ReaderFits
  <2>2. CASE sub.kind \in ForRead \cup ForWrite
    <3>1. r' = Resolve(r, "failed")
      BY <1>1, <2>2 DEF ForRead, ForWrite
    <3>2. st \in ReadStates \/ sub.kind \in ForRead
      BY <2>2, Alone
    <3>3. ReadData(r, Len(taken)) /\ r.res # "ok"
      BY <3>2, WaitingRead
    <3>4. ReaderOK(r', Len(taken), st) /\ (st \notin ReadStates => ReaderFits(st, r', NoSub))
      BY <3>1, <3>3, FailureResults, ReadEnds
    <3>5. ASSUME st \in ReadStates PROVE ReaderFits(st, r', NoSub)
      <4>1. /\ r'.op = r.op /\ r'.got = r.got /\ r'.min = r.min /\ r'.at = "done"
            /\ (r.res = "none" => r'.res = "failed") /\ (r.res # "none" => r'.res = r.res)
        BY <3>1, ResolvedRead, FailureResults DEF PipeInv, ReaderOK
      <4>2. /\ r.op = (IF st = "BlockedRead" THEN "read" ELSE "pumpTo") /\ r.got < r.min
            /\ r.res = "none" \/ r.res = "failed"
        BY <3>5 DEF PipeInv, ReaderFits, ReaderOK
      <4> QED BY <4>1, <4>2, FailureResults DEF ReaderFits
    <3> QED BY <3>4, <3>5
  <2> QED BY <1>2, <2>1, <2>2
<1>4. WriterOK(w', taken, next) /\ WriterFits(st, w', NoSub)
  <2>1. st \in WriteStates \/ sub.kind \in ForWrite \cup {"eof"}
    BY <1>2, Alone
  <2>2. WriteData(w, taken, next) /\ w.res # "ok"
    BY <2>1, WaitingWrite
  <2>3. WriterOK(w', taken, next) /\ (st \notin WriteStates => WriterFits(st, w', NoSub))
    BY <1>1, <2>2, FailureResults, WriteEnds
  <2>4. ASSUME st \in WriteStates PROVE WriterFits(st, w', NoSub)
    <3>1. /\ w'.op = w.op /\ w'.at = "done"
          /\ (w.res = "none" => w'.res = "failed") /\ (w.res # "none" => w'.res = w.res)
      BY <1>1, ResolvedWrite, FailureResults DEF PipeInv, WriterOK
    <3>2. /\ w.op = (IF st = "BlockedWrite" THEN "write" ELSE "pumpFrom")
          /\ w.res = "none" \/ w.res = "failed"
      BY <2>4 DEF PipeInv, WriterFits, WriterOK
    <3> QED BY <3>1, <3>2, FailureResults DEF WriterFits
  <2> QED BY <2>3, <2>4
<1> QED BY <1>1, <1>3, <1>4, NoSubFacts DEF PipeInv

\* The byte asked of the input decides how the pump ends.
LEMMA EofCheckedKeeps == ASSUME PipeInv, EofChecked PROVE PipeInv'
<1> DEFINE c == IF w.todo[1] = <<>> THEN "ok" ELSE "disconnected"
<1>1. sub.kind = "eof" /\ w' = Resolve(w, c) /\ sub' = NoSub /\ UNCHANGED <<st, r, taken, next, watch>>
  BY DEF EofChecked
<1>2. st = "AbortedRead" /\ w.op = "pumpFrom" /\ st \notin WriteStates
  BY <1>1 DEF PipeInv, SubFits, WriteStates
<1>3. c \in Results \ {"none"} /\ (c = "ok" => w.todo[1] = <<>>)
  BY DEF Results
<1> HIDE DEF c
<1>4. WriteData(w, taken, next) /\ w.res # "ok"
  BY <1>1, WaitingWrite
<1>5. WriterOK(w', taken, next) /\ WriterFits(st, w', NoSub)
  BY <1>1, <1>2, <1>3, <1>4, FailureResults, WriteEnds
<1>6. ReaderFits(st, r, NoSub)
  BY <1>1, FailureResults DEF PipeInv, ReaderFits, ForRead
<1> QED BY <1>1, <1>5, <1>6, NoSubFacts DEF PipeInv

\* abortRead() ends whoever waits, a pump after a look at its input.
LEMMA AbortReadKeeps == ASSUME PipeInv, AbortRead PROVE PipeInv'
<1> DEFINE checks == st = "BlockedPumpFrom" /\ w.res = "none"
<1>1. /\ st \notin {"AbortedRead", "ShutdownedWrite"} /\ st' = "AbortedRead" /\ UNCHANGED <<taken, next>>
      /\ watch' = (IF watch = "waiting" THEN "fired" ELSE watch)
      /\ r' = (IF st \in ReadStates THEN Resolve(r, "disconnected")
               ELSE IF sub.kind \in ForRead THEN Resolve(r, "canceled") ELSE r)
      /\ w' = (IF checks THEN [w EXCEPT !.at = "sub"]
               ELSE IF st = "BlockedWrite" THEN Resolve(w, "disconnected")
               ELSE IF sub.kind \in ForWrite THEN Resolve(w, "canceled") ELSE w)
      /\ sub' = (IF checks THEN [kind |-> "eof"] ELSE NoSub)
  BY DEF AbortRead
<1>2. st' \in States /\ st' \notin ReadStates /\ st' \notin WriteStates
  BY <1>1 DEF States, ReadStates, WriteStates
<1>3. sub' \in Subs /\ sub'.kind \notin ForRead
  BY <1>1, NoSubFacts, FailureResults DEF Subs, ForRead
<1>4. ReaderOK(r', Len(taken), st') /\ ReaderFits(st', r', sub')
  <2>1. CASE st \in ReadStates \/ sub.kind \in ForRead
    <3>1. \E c \in {"disconnected", "canceled"} : r' = Resolve(r, c)
      BY <1>1, <2>1
    <3>2. ReadData(r, Len(taken)) /\ r.res # "ok"
      BY <2>1, WaitingRead
    <3> QED BY <1>2, <1>3, <3>1, <3>2, FailureResults, ReadEnds
  <2>2. CASE ~(st \in ReadStates \/ sub.kind \in ForRead)
    <3>1. r' = r
      BY <1>1, <2>2
    <3>2. ReaderOK(r, Len(taken), st')
      BY <1>1 DEF PipeInv, ReaderOK
    <3>3. ReaderFits(st', r, sub')
      BY <1>2, <1>3, <2>2 DEF PipeInv, ReaderFits
    <3> QED BY <3>1, <3>2, <3>3
  <2> QED BY <2>1, <2>2
<1>5. /\ WriterOK(w', taken, next) /\ WriterFits(st', w', sub') /\ SubFits(st', r', w', sub')
  <2>1. CASE checks
    <3>1. /\ w.op = "pumpFrom" /\ w \in Writers /\ w.res = "none" /\ w.at # "idle"
          /\ w' = [w EXCEPT !.at = "sub"] /\ sub' = [kind |-> "eof"]
      BY <1>1, <2>1 DEF PipeInv, WriterFits, WriterOK, WriteStates
    <3>2. /\ w' \in Writers /\ w'.op = w.op /\ w'.todo = w.todo /\ w'.later = w.later
          /\ w'.bytes = w.bytes /\ w'.amount = w.amount /\ w'.got = w.got /\ w'.start = w.start
          /\ w'.at = "sub" /\ w'.res = w.res
      BY <3>1 DEF Writers, Places
    <3>3. WriterOK(w', taken, next)
      <4>1. Rest(w') = Rest(w)
        BY <3>2 DEF Rest
      <4> QED BY <3>1, <3>2, <4>1 DEF PipeInv, WriterOK
    <3>4. sub'.kind = "eof"
      BY <3>1
    <3>5. WriterFits(st', w', sub')
      BY <1>2, <3>2, <3>4 DEF WriterFits
    <3>6. SubFits(st', r', w', sub')
      BY <1>1, <3>1, <3>2, <3>4 DEF SubFits
    <3> QED BY <3>3, <3>5, <3>6
  <2>2. CASE ~checks
    <3>1. sub' = NoSub /\ SubFits(st', r', w', sub')
      BY <1>1, <2>2, NoSubFacts
    <3>2. CASE st = "BlockedWrite" \/ sub.kind \in ForWrite
      <4>1. \E c \in {"disconnected", "canceled"} : w' = Resolve(w, c)
        BY <1>1, <2>2, <3>2
      <4>2. WriteData(w, taken, next) /\ w.res # "ok"
        BY <3>2, WaitingWrite DEF WriteStates
      <4> QED BY <1>2, <3>1, <4>1, <4>2, FailureResults, WriteEnds
    <3>3. CASE ~(st = "BlockedWrite" \/ sub.kind \in ForWrite)
      <4>1. w' = w
        BY <1>1, <2>2, <3>3
      <4>2. w.at # "sub"
        BY <1>1, <3>3, Alone DEF PipeInv, WriterFits
      <4>3. w.at # "blocked"
        <5>1. st \in WriteStates => w.res # "none"
          BY <2>2, <3>3 DEF WriteStates
        <5> QED BY <5>1 DEF PipeInv, WriterOK, WriterFits
      <4>4. WriterFits(st', w, sub')
        BY <1>2, <3>1, <4>2, <4>3, FailureResults DEF WriterFits
      <4> QED BY <3>1, <4>1, <4>4 DEF PipeInv
    <3> QED BY <3>2, <3>3
  <2> QED BY <2>1, <2>2
<1>6. watch' # "waiting"
  BY <1>1
<1> QED BY <1>1, <1>2, <1>3, <1>4, <1>5, <1>6 DEF PipeInv

\* shutdownWrite() is the end of the file for whoever reads.
LEMMA ShutdownWriteKeeps == ASSUME PipeInv, ShutdownWrite PROVE PipeInv'
<1>1. /\ st \in ReadStates \cup {"none"} /\ st' = "ShutdownedWrite" /\ UNCHANGED <<taken, next, watch>>
      /\ r' = (IF st \in ReadStates THEN Resolve(r, "ok") ELSE r)
      /\ w' = (IF sub.kind \in ForWrite THEN Resolve(w, "canceled") ELSE w)
      /\ sub' = (IF sub.kind \in ForWrite THEN NoSub ELSE sub)
  BY DEF ShutdownWrite
<1>2. /\ st' \in States /\ st' \notin ReadStates /\ st' \notin WriteStates /\ st' # "AbortedRead"
      /\ st \notin WriteStates /\ st # "AbortedRead"
  BY <1>1 DEF States, ReadStates, WriteStates
<1>3. sub' = NoSub
  <2>1. CASE sub.kind \in ForWrite
    BY <1>1, <2>1
  <2>2. CASE sub.kind \notin ForWrite
    BY <1>1, <1>2, <2>2, Alone
  <2> QED BY <2>1, <2>2
<1>4. ReaderOK(r', Len(taken), st') /\ ReaderFits(st', r', NoSub)
  <2>1. CASE st \in ReadStates
    <3>1. ReadData(r, Len(taken)) /\ r.res # "ok" /\ "ok" \in Results \ {"none"}
      BY <2>1, WaitingRead DEF Results
    <3> QED BY <1>1, <1>2, <2>1, <3>1, FailureResults, ReadEnds
  <2>2. CASE st \notin ReadStates
    <3>1. r' = r /\ r.at # "sub" /\ r.at # "blocked"
      BY <1>1, <1>2, <2>2, Alone DEF PipeInv, ReaderFits
    <3>2. ReaderOK(r, Len(taken), st')
      BY <1>1 DEF PipeInv, ReaderOK
    <3>3. ReaderFits(st', r, NoSub)
      BY <1>2, <3>1, FailureResults DEF ReaderFits
    <3> QED BY <3>1, <3>2, <3>3
  <2> QED BY <2>1, <2>2
<1>5. WriterOK(w', taken, next) /\ WriterFits(st', w', NoSub)
  <2>1. CASE sub.kind \in ForWrite
    <3>1. WriteData(w, taken, next) /\ w.res # "ok"
      BY <2>1, WaitingWrite
    <3> QED BY <1>1, <1>2, <2>1, <3>1, FailureResults, WriteEnds
  <2>2. CASE sub.kind \notin ForWrite
    <3>1. w' = w /\ w.at # "sub" /\ w.at # "blocked"
      BY <1>1, <1>2, <2>2, Alone DEF PipeInv, WriterFits
    <3>2. WriterFits(st', w, NoSub)
      BY <1>2, <3>1, FailureResults DEF WriterFits
    <3> QED BY <3>1, <3>2 DEF PipeInv
  <2> QED BY <2>1, <2>2
<1> QED BY <1>1, <1>2, <1>3, <1>4, <1>5, NoSubFacts DEF PipeInv

\* An end that has no operation is in nobody's way.
LEMMA IdleIsFine ==
  /\ \A n, s : ReaderOK(IdleR, n, s)
  /\ \A s, u : s \notin ReadStates /\ u.kind \notin ForRead => ReaderFits(s, IdleR, u)
  /\ \A t, nx : WriterOK(IdleW, t, nx)
  /\ \A s, u : s \notin WriteStates /\ u.kind \notin ForWrite \cup {"eof"} => WriterFits(s, IdleW, u)
<1>1. /\ IdleR \in Readers /\ IdleR.at = "idle" /\ IdleR.op = "none" /\ IdleR.res = "none"
      /\ IdleR.min = 0 /\ IdleR.max = 0 /\ IdleR.got = 0
  BY DEF IdleR, Readers, Places, Results
<1>2. IdleW \in Writers /\ IdleW.at = "idle" /\ IdleW.op = "none" /\ IdleW.res = "none"
  BY DEF IdleW, Writers, Places, Results
<1>3. \A n, s : ReaderOK(IdleR, n, s)
  BY <1>1 DEF ReaderOK
<1>4. \A t, nx : WriterOK(IdleW, t, nx)
  BY <1>2 DEF WriterOK
<1>5. \A s, u : s \notin ReadStates /\ u.kind \notin ForRead => ReaderFits(s, IdleR, u)
  BY <1>1 DEF ReaderFits
<1>6. \A s, u : s \notin WriteStates /\ u.kind \notin ForWrite \cup {"eof"} => WriterFits(s, IdleW, u)
  BY <1>2 DEF WriterFits
<1> QED BY <1>3, <1>4, <1>5, <1>6

\* The read end lets go of its promise, and what it has wrapped is canceled.
LEMMA ReleaseReadKeeps == ASSUME PipeInv, ReleaseRead PROVE PipeInv'
<1>1. r.at # "idle" /\ r' = IdleR /\ UNCHANGED <<taken, next, watch>>
  BY DEF ReleaseRead
<1>2. CASE st \in ReadStates
  <2>1. st' = "none" /\ sub' = NoSub /\ w' = (IF sub.kind \in ForWrite THEN Resolve(w, "canceled") ELSE w)
    BY <1>2 DEF ReleaseRead
  <2>2. st' \in States /\ st' \notin ReadStates /\ st' \notin WriteStates /\ st' # "AbortedRead"
    BY <2>1 DEF States, ReadStates, WriteStates
  <2>3. WriterOK(w', taken, next) /\ WriterFits(st', w', NoSub)
    <3>1. CASE sub.kind \in ForWrite
      <4>1. WriteData(w, taken, next) /\ w.res # "ok"
        BY <3>1, WaitingWrite
      <4> QED BY <2>1, <2>2, <3>1, <4>1, FailureResults, WriteEnds
    <3>2. CASE sub.kind \notin ForWrite
      <4>1. st \notin WriteStates /\ st # "AbortedRead"
        BY <1>2 DEF ReadStates, WriteStates
      <4>2. w' = w /\ w.at # "sub" /\ w.at # "blocked"
        BY <2>1, <3>2, <4>1, Alone DEF PipeInv, WriterFits
      <4>3. WriterFits(st', w, NoSub)
        BY <2>2, <4>2, FailureResults DEF WriterFits
      <4> QED BY <4>2, <4>3 DEF PipeInv
    <3> QED BY <3>1, <3>2
  <2>4. ReaderOK(r', Len(taken), st') /\ ReaderFits(st', r', NoSub)
    BY <1>1, <2>2, FailureResults, IdleIsFine
  <2> QED BY <1>1, <2>1, <2>2, <2>3, <2>4, NoSubFacts DEF PipeInv
<1>3. CASE st \notin ReadStates
  <2>1. st' = st /\ w' = w /\ sub' = (IF r.at = "sub" THEN NoSub ELSE sub)
    BY <1>3 DEF ReleaseRead
  <2>2. sub' \in Subs /\ sub'.kind \notin ForRead
    <3>1. r.at = "sub" <=> sub.kind \in ForRead
      BY DEF PipeInv, ReaderFits
    <3> QED BY <2>1, <3>1, NoSubFacts, FailureResults DEF PipeInv
  <2>3. ReaderOK(r', Len(taken), st) /\ ReaderFits(st, r', sub')
    BY <1>1, <1>3, <2>2, IdleIsFine
  <2>4. WriterFits(st, w, sub')
    <3>1. sub'.kind \in ForWrite \cup {"eof"} <=> sub.kind \in ForWrite \cup {"eof"}
      <4>1. r.at = "sub" => sub.kind \in ForRead
        BY DEF PipeInv, ReaderFits
      <4>2. sub.kind \in ForRead => sub.kind \notin ForWrite \cup {"eof"}
        BY DEF ForRead, ForWrite
      <4> QED BY <2>1, <4>1, <4>2, FailureResults
    <3> QED BY <3>1 DEF PipeInv, WriterFits
  <2>5. SubFits(st, r', w, sub')
    <3>1. sub'.kind \notin ForWrite
      BY <1>3, <2>1, Alone, FailureResults
    <3>2. sub'.kind = "eof" => st = "AbortedRead" /\ w.op = "pumpFrom"
      BY <2>1, FailureResults DEF PipeInv, SubFits
    <3> QED BY <2>2, <3>1, <3>2 DEF SubFits, ForRead, ForWrite
  <2> QED BY <1>1, <2>1, <2>2, <2>3, <2>4, <2>5 DEF PipeInv
<1> QED BY <1>2, <1>3

\* The write end lets go of its promise, and what it has wrapped is canceled.
LEMMA ReleaseWriteKeeps == ASSUME PipeInv, ReleaseWrite PROVE PipeInv'
<1>1. w.at # "idle" /\ w' = IdleW /\ UNCHANGED <<taken, next, watch>>
  BY DEF ReleaseWrite
<1>2. CASE st \in WriteStates
  <2>1. st' = "none" /\ sub' = NoSub /\ r' = (IF sub.kind \in ForRead THEN Resolve(r, "canceled") ELSE r)
    BY <1>2 DEF ReleaseWrite
  <2>2. st' \in States /\ st' \notin ReadStates /\ st' \notin WriteStates /\ st' # "AbortedRead"
    BY <2>1 DEF States, ReadStates, WriteStates
  <2>3. ReaderOK(r', Len(taken), st') /\ ReaderFits(st', r', NoSub)
    <3>1. CASE sub.kind \in ForRead
      <4>1. ReadData(r, Len(taken)) /\ r.res # "ok"
        BY <3>1, WaitingRead
      <4> QED BY <2>1, <2>2, <3>1, <4>1, FailureResults, ReadEnds
    <3>2. CASE sub.kind \notin ForRead
      <4>1. st \notin ReadStates /\ st # "ShutdownedWrite"
        BY <1>2 DEF ReadStates, WriteStates
      <4>2. r' = r /\ r.at # "sub" /\ r.at # "blocked"
        BY <2>1, <3>2, <4>1 DEF PipeInv, ReaderFits
      <4>3. ReaderFits(st', r, NoSub)
        BY <2>2, <4>2, FailureResults DEF ReaderFits
      <4>4. ReaderOK(r, Len(taken), st')
        BY <4>1 DEF PipeInv, ReaderOK
      <4> QED BY <4>2, <4>3, <4>4
    <3> QED BY <3>1, <3>2
  <2>4. WriterOK(w', taken, next) /\ WriterFits(st', w', NoSub)
    BY <1>1, <2>2, FailureResults, IdleIsFine
  <2> QED BY <1>1, <2>1, <2>2, <2>3, <2>4, NoSubFacts DEF PipeInv
<1>3. CASE st \notin WriteStates
  <2>1. st' = st /\ r' = r /\ sub' = (IF w.at = "sub" THEN NoSub ELSE sub)
    BY <1>3 DEF ReleaseWrite
  <2>2. sub' = NoSub
    <3>1. w.at = "sub" <=> sub.kind \in ForWrite \cup {"eof"}
      BY DEF PipeInv, WriterFits
    <3> QED BY <1>3, <2>1, <3>1, Alone
  <2>3. WriterOK(w', taken, next) /\ WriterFits(st, w', NoSub)
    BY <1>1, <1>3, FailureResults, IdleIsFine
  <2>4. ReaderFits(st, r, NoSub)
    <3>1. r.at # "sub"
      BY <1>3, Alone DEF PipeInv, ReaderFits
    <3> QED BY <3>1, FailureResults DEF PipeInv, ReaderFits
  <2> QED BY <1>1, <2>1, <2>2, <2>3, <2>4, NoSubFacts DEF PipeInv
<1> QED BY <1>2, <1>3

\* A watcher of an aborted pipe is told at once.
LEMMA WatchKeeps == ASSUME PipeInv, WhenWriteDisconnected PROVE PipeInv'
<1>1. UNCHANGED <<st, r, w, sub, taken, next>> /\ (watch' = "waiting" => st # "AbortedRead")
  BY DEF WhenWriteDisconnected
<1> QED BY <1>1 DEF PipeInv

-----------------------------------------------------------------------------
(* The theorems                                                            *)

\* A new pipe satisfies the invariant.
LEMMA PipeBegins == PipeInit => PipeInv
<1> SUFFICES ASSUME PipeInit PROVE PipeInv
  OBVIOUS
<1>1. /\ st = "none" /\ r = IdleR /\ w = IdleW /\ sub = NoSub /\ taken = <<>> /\ next = 1 /\ watch = "no"
  BY DEF PipeInit
<1>2. st \in States /\ st \notin ReadStates /\ st \notin WriteStates
  BY <1>1 DEF States, ReadStates, WriteStates
<1>3. taken \in Seq(Nat) /\ Rising(taken) /\ Below(taken, next)
  BY <1>1 DEF Rising, Below
<1>4. ReaderOK(r, Len(taken), st) /\ WriterOK(w, taken, next)
  BY <1>1, IdleIsFine
<1>5. ReaderFits(st, r, sub) /\ WriterFits(st, w, sub)
  BY <1>1, <1>2, FailureResults, IdleIsFine
<1> QED BY <1>1, <1>2, <1>3, <1>4, <1>5, NoSubFacts DEF PipeInv

\* Every step preserves it.
LEMMA PipeStep == ASSUME PipeInv, [PipeNext]_pipeVars PROVE PipeInv'
<1>1. ASSUME UNCHANGED pipeVars PROVE PipeInv'
  BY <1>1 DEF PipeInv, pipeVars
<1>2. ASSUME NEW k \in 0..MaxBytes,
             ReadFromPumpDone(k) \/ PumpToReadDone(k) \/ PumpToPumpDone(k)
      PROVE  PipeInv'
  BY <1>2, ReadFromPumpDoneKeeps, PumpToReaderDoneKeeps DEF PumpToReadDone, PumpToPumpDone
<1>3. ASSUME PumpFromWriteDone \/ WriteToPumpDone \/ WriteLater PROVE PipeInv'
  BY <1>3, PumpFromWriteDoneKeeps, WriteToPumpDoneKeeps, WriteLaterKeeps
<1>4. ASSUME SubFails \/ EofChecked \/ AbortRead \/ ShutdownWrite PROVE PipeInv'
  BY <1>4, SubFailsKeeps, EofCheckedKeeps, AbortReadKeeps, ShutdownWriteKeeps
<1>5. ASSUME WhenWriteDisconnected \/ ReleaseRead \/ ReleaseWrite PROVE PipeInv'
  BY <1>5, WatchKeeps, ReleaseReadKeeps, ReleaseWriteKeeps
<1> QED BY <1>1, <1>2, <1>3, <1>4, <1>5, ReadersKeep, WritersKeep DEF PipeNext

\* In every reachable state what has gone across and what is still on offer add up
\* to what the two ends have been asked for, and the pipe's `state`, the two
\* operations and the call to a pump's stream agree on who waits for whom.
THEOREM AsyncPipeInvariant == PipeSpec => []PipeInv
<1>1. PipeInv /\ [PipeNext]_pipeVars => PipeInv'
  BY PipeStep
<1> QED BY <1>1, PipeBegins, PTL DEF PipeSpec

\* A write() that has succeeded, and a pump, in terms of its bytes.
LEMMA WriterReports ==
  ASSUME PipeInv, w.res = "ok"
  PROVE  IF w.op = "write" THEN Moved = w.bytes
         ELSE /\ IsPrefix(Moved, w.bytes)
              /\ Len(Moved) = w.amount \/ Len(Moved) = Len(w.bytes)
              /\ Count = Len(Moved) - w.uncounted
<1> DEFINE moved == SubSeq(taken, w.start + 1, Len(taken))
           left == Rest(w)
<1>1. /\ w \in Writers /\ w.op \in {"write", "pumpFrom"} /\ w.at # "idle" /\ w.start \in Nat
      /\ w.got \in Nat /\ w.todo \in Seq(Seq(Nat))
  BY DEF PipeInv, WriterOK, Writers
<1>2. Placed(left, w.bytes, w.start, taken, next)
  BY <1>1 DEF PipeInv, WriterOK
<1>3. taken \in Seq(Nat) /\ left \in Seq(Nat) /\ w.start \in 0..Len(taken) /\ moved \o left = w.bytes
  BY <1>2 DEF Placed
<1>4. moved \in Seq(Nat) /\ Len(moved) = Len(taken) - w.start
  BY <1>3, PiecesCut
<1>5. FlattenSeq(<<>>) = <<>> /\ \A x \in Seq(Nat) : FlattenSeq(<<x>>) = x
  BY FlattenShort
<1>6. CASE w.op = "write"
  <2>1. w.todo = <<>> /\ w.later = <<>>
    BY <1>6 DEF PipeInv, WriterOK
  <2>2. left = <<>>
    BY <1>5, <2>1 DEF Rest
  <2> HIDE DEF moved, left
  <2>3. moved \o <<>> = moved
    BY <1>4
  <2>4. moved = w.bytes
    BY <1>3, <2>2, <2>3
  <2> QED BY <1>6, <2>4 DEF moved, Moved
<1>7. CASE w.op = "pumpFrom"
  <2>1. /\ w.later = <<>> /\ Len(w.todo) = 1 /\ w.start + w.got = Len(taken)
        /\ w.got = w.amount \/ w.todo[1] = <<>>
    BY <1>7 DEF PipeInv, WriterOK
  <2>2. left = w.todo[1]
    <3> DEFINE f == w.todo[1]
    <3>1. f \in Seq(Nat) /\ w.todo = <<f>>
      BY <1>1, <2>1
    <3> HIDE DEF f
    <3>2. FlattenSeq(w.todo) = f
      BY <1>5, <3>1
    <3>3. f \o <<>> = f
      BY <3>1
    <3> QED BY <1>5, <2>1, <3>2, <3>3 DEF Rest, f
  <2> HIDE DEF moved, left
  <2>3. Len(moved) = w.got
    BY <1>1, <1>3, <1>4, <2>1
  <2>4. /\ moved \o left \in Seq(Nat) /\ Len(moved \o left) = Len(moved) + Len(left)
        /\ Len(moved) <= Len(moved \o left) /\ SubSeq(moved \o left, 1, Len(moved)) = moved
    <3>1. moved \o left \in Seq(Nat) /\ Len(moved \o left) = Len(moved) + Len(left)
      <4>1. moved \in Seq(Nat) /\ left \in Seq(Nat)
        BY <1>3, <1>4
      <4> QED BY <4>1
    <3>2. Len(moved) \in Nat /\ Len(left) \in Nat
      BY <1>3, <1>4
    <3> DEFINE x == SubSeq(moved \o left, 1, Len(moved))
    <3>3. x \in Seq(Nat) /\ Len(x) = Len(moved) /\ \A i \in 1..Len(moved) : x[i] = (moved \o left)[i]
      BY <3>1, <3>2
    <3>4. \A i \in 1..Len(moved) : (moved \o left)[i] = moved[i]
      BY <1>3, <1>4, SMTT(30)
    <3> HIDE DEF x
    <3>5. x = moved
      BY <1>4, <3>3, <3>4, SeqEqual
    <3> QED BY <3>1, <3>2, <3>5 DEF x
  <2>5. IsPrefix(moved, w.bytes)
    <3>1. SubSeq(moved, 1, Len(moved)) = moved
      BY <1>4
    <3> QED BY <1>3, <2>4, <3>1 DEF IsPrefix
  <2>6. w.got = w.amount \/ w.got = Len(w.bytes)
    <3>1. ASSUME w.todo[1] = <<>> PROVE w.got = Len(w.bytes)
      <4>1. left = <<>>
        BY <2>2, <3>1
      <4>2. moved \o <<>> = moved
        BY <1>4
      <4> QED BY <1>3, <2>3, <4>1, <4>2
    <3> QED BY <2>1, <3>1
  <2> QED BY <1>7, <2>3, <2>5, <2>6 DEF moved, Moved, Count
<1> QED BY <1>1, <1>6, <1>7

\* A read or a pumpTo() that has succeeded, in terms of its bytes.
LEMMA ReaderReports ==
  ASSUME PipeInv, r.res = "ok"
  PROVE  r.got = Len(taken) - r.start /\ r.got <= r.max /\ (r.got >= r.min \/ st = "ShutdownedWrite")
<1>1. /\ r \in Readers /\ r.at # "idle" /\ r.start + r.got = Len(taken) /\ r.got <= r.max
      /\ r.got >= r.min \/ st = "ShutdownedWrite"
  BY DEF PipeInv, ReaderOK
<1>2. r.start \in Nat /\ r.got \in Nat /\ Len(taken) \in Nat
  BY <1>1 DEF PipeInv, Readers
<1> QED BY <1>1, <1>2

\* Who waits for whom, as NobodyIsStranded says it.
LEMMA NobodyWaitsAlone == PipeInv => NobodyIsStranded
<1> SUFFICES ASSUME PipeInv PROVE NobodyIsStranded
  OBVIOUS
<1>1. /\ r.at = "blocked" => st = IF r.op = "read" THEN "BlockedRead" ELSE "BlockedPumpTo"
      /\ st \in ReadStates => (r.at = "blocked" /\ r.got < r.min) \/ r.res = "failed"
      /\ r.at = "sub" <=> sub.kind \in ForRead
  BY DEF PipeInv, ReaderFits, ReadStates
<1>2. /\ w.at = "blocked" => st = IF w.op = "write" THEN "BlockedWrite" ELSE "BlockedPumpFrom"
      /\ st \in WriteStates => w.at = "blocked" \/ w.res = "failed"
      /\ w.at = "sub" <=> sub.kind \in ForWrite \cup {"eof"}
  BY DEF PipeInv, WriterFits, WriteStates
<1>3. /\ sub.kind \in ForRead => st \in WriteStates
      /\ sub.kind \in ForWrite => st \in ReadStates
  BY Alone
<1>4. watch = "waiting" => st # "AbortedRead"
  BY DEF PipeInv
<1> QED BY <1>1, <1>2, <1>3, <1>4 DEF NobodyIsStranded

\* Whatever the streams behind the pumps answer, and whenever an operation is
\* dropped or an end closed: no promise misreports its bytes, but for what a pumpTo()
\* took of a pump that went on after it, and none waits alone.
THEOREM PipesAreAlwaysExact == PipeSpec => []PipesAreExact
<1>1. PipeInv => TransfersAreExact
  <2> SUFFICES ASSUME PipeInv PROVE TransfersAreExact
    OBVIOUS
  <2>1. \A i \in 1..(Len(taken) - 1) : taken[i] < taken[i + 1]
    BY DEF PipeInv, Rising
  <2> QED BY <2>1, WriterReports, ReaderReports DEF TransfersAreExact
<1>2. PipeInv => PipesAreExact
  BY <1>1, NobodyWaitsAlone DEF PipesAreExact
<1> QED BY <1>2, AsyncPipeInvariant, PTL
=============================================================================
