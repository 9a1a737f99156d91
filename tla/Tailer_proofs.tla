---------------------------- MODULE Tailer_proofs ----------------------------
(***************************************************************************)
(* Proofs about LogStream and Tailer, for every value of the constants:    *)
(* the types, and, as long as the follower keeps up (KeepsUp), that no     *)
(* line is spliced and that every byte reaches the command exactly once.   *)
(***************************************************************************)
EXTENDS Tailer, TLAPS, FiniteSetTheorems, SequenceTheorems

(***************************************************************************)
(* Numbers: induction, and the places of the newlines.                     *)
(***************************************************************************)

LEMMA Least ==
    ASSUME NEW T \in SUBSET Nat, T # {}
    PROVE  \E m \in T : \A k \in T : m <= k
<1> DEFINE R == {ss \in Nat \X Nat : ss[1] < ss[2]}
<1>1. IsWellFoundedOn(R, Nat)
  BY NatLessThanWellFounded DEF OpToRel
<1>2. PICK x \in T : \A y \in T : ~ (<<y, x>> \in R)
  <2> HIDE DEF R
  <2> QED BY <1>1, WFMin
<1>3. ASSUME NEW y \in T, ~(x <= y) PROVE FALSE
  <2>1. <<y, x>> \in Nat \X Nat /\ <<y, x>>[1] < <<y, x>>[2]
    BY <1>3
  <2> QED
    BY <1>2, <2>1
<1> QED
  BY <1>3

\* Induction, stated for a set.
LEMMA NatSetInduction ==
    ASSUME NEW S, 0 \in S, \A n \in Nat : n \in S => n + 1 \in S
    PROVE  \A n \in Nat : n \in S
<1> DEFINE T == {n \in Nat : n \notin S}
<1> SUFFICES ASSUME T # {} PROVE FALSE
  OBVIOUS
<1>1. PICK m \in T : \A k \in T : m <= k
  BY Least
<1>2. m # 0 /\ m - 1 \in Nat /\ m - 1 \notin T
  BY <1>1
<1>3. m - 1 + 1 = m
  BY <1>1
<1> QED
  BY <1>1, <1>2, <1>3

LEMMA Greatest ==
    ASSUME NEW n \in Nat, NEW T \in SUBSET (0 .. n), T # {}
    PROVE  \E m \in T : \A k \in T : k <= m
<1> DEFINE D == {d \in Nat : n - d \in T}
<1>1. D # {}
  <2>1. PICK k : k \in T
    OBVIOUS
  <2>2. n - k \in D
    BY <2>1
  <2> QED
    BY <2>2
<1>2. PICK d \in D : \A e \in D : d <= e
  BY <1>1, Least
<1>3. ASSUME NEW k \in T PROVE k <= n - d
  <2>1. n - k \in D
    OBVIOUS
  <2>2. d <= n - k
    BY <1>2, <2>1
  <2> QED
    BY <2>2
<1> QED
  BY <1>2, <1>3

\* The places of N up to k.
UpTo(N, k) == {j \in N : j <= k}

Counts(m, N) ==
    /\ IsFiniteSet(N) /\ Cardinality(N) \in Nat
    /\ \A j \in N : j \in Nat /\ 1 <= j /\ j <= m
    /\ \A k \in Nat : /\ IsFiniteSet(UpTo(N, k)) /\ Cardinality(UpTo(N, k)) \in Nat
                      /\ Cardinality(UpTo(N, k)) <= Cardinality(N)
                      /\ Cardinality(UpTo(N, k)) = Cardinality(N) => UpTo(N, k) = N
                      /\ Cardinality(UpTo(N, k + 1)) =
                           Cardinality(UpTo(N, k)) + (IF k + 1 \in N THEN 1 ELSE 0)
    /\ Cardinality(UpTo(N, 0)) = 0
    /\ UpTo(N, m) = N

LEMMA Counting ==
    ASSUME NEW m \in Nat, NEW N \in SUBSET (1 .. m)
    PROVE  Counts(m, N)
<1>0. \A j \in N : j \in Nat /\ 1 <= j /\ j <= m
  OBVIOUS
<1>1. IsFiniteSet(N) /\ Cardinality(N) \in Nat
  <2>1. N \in SUBSET Nat /\ \A j \in N : j <= m
    BY <1>0
  <2> QED
    BY <2>1, FS_BoundedSetOfNaturals, FS_CardinalityType
<1>2. \A k \in Nat : /\ IsFiniteSet(UpTo(N, k)) /\ Cardinality(UpTo(N, k)) \in Nat
                     /\ Cardinality(UpTo(N, k)) <= Cardinality(N)
                     /\ Cardinality(UpTo(N, k)) = Cardinality(N) => UpTo(N, k) = N
  <2> TAKE k \in Nat
  <2>1. UpTo(N, k) \in SUBSET N
    BY DEF UpTo
  <2> QED
    BY <1>1, <2>1, FS_Subset, FS_CardinalityType
<1>3. ASSUME NEW k \in Nat
      PROVE  Cardinality(UpTo(N, k + 1)) =
                Cardinality(UpTo(N, k)) + (IF k + 1 \in N THEN 1 ELSE 0)
  <2>0. \A j : j \in UpTo(N, k + 1) <=> j \in UpTo(N, k) \/ (j = k + 1 /\ j \in N)
    <3>1. ASSUME NEW j \in UpTo(N, k + 1) PROVE j \in UpTo(N, k) \/ (j = k + 1 /\ j \in N)
      <4>1. j \in N /\ j \in Nat /\ j <= k + 1
        BY <1>0 DEF UpTo
      <4> QED
        BY <4>1 DEF UpTo
    <3>2. ASSUME NEW j \in UpTo(N, k) PROVE j \in UpTo(N, k + 1)
      <4>1. j \in N /\ j \in Nat /\ j <= k
        BY <1>0 DEF UpTo
      <4> QED
        BY <4>1 DEF UpTo
    <3>3. ASSUME k + 1 \in N PROVE k + 1 \in UpTo(N, k + 1)
      BY <3>3 DEF UpTo
    <3> QED
      BY <3>1, <3>2, <3>3
  <2>1. CASE k + 1 \in N
    <3>1. UpTo(N, k + 1) = UpTo(N, k) \cup {k + 1}
      BY <2>0, <2>1, Zenon
    <3>2. k + 1 \notin UpTo(N, k)
      BY DEF UpTo
    <3> QED
      BY <1>2, <2>1, <3>1, <3>2, FS_AddElement
  <2>2. CASE k + 1 \notin N
    <3>1. UpTo(N, k + 1) = UpTo(N, k)
      BY <2>0, <2>2, Zenon
    <3> QED
      BY <1>2, <2>2, <3>1
  <2> QED
    BY <2>1, <2>2
<1>4. UpTo(N, 0) = {} /\ UpTo(N, m) = N
  <2>1. \A j \in N : ~(j <= 0) /\ j <= m
    BY <1>0
  <2> QED
    BY <2>1, Zenon DEF UpTo
<1> QED
  BY <1>0, <1>1, <1>2, <1>3, <1>4, FS_EmptySet DEF Counts

\* There is a place with exactly n places of N up to it.
LEMMA NthPlace ==
    ASSUME NEW m \in Nat, NEW N \in SUBSET (1 .. m), NEW n \in 1 .. Cardinality(N)
    PROVE  \E k \in N : Cardinality(UpTo(N, k)) = n
<1> DEFINE T == {k \in Nat : Cardinality(UpTo(N, k)) >= n}
<1>c. Counts(m, N)
  BY Counting
<1>0. Cardinality(N) \in Nat /\ n \in Nat
  BY <1>c DEF Counts
<1>1. m \in T
  BY <1>0, <1>c DEF Counts
<1>2. PICK k \in T : \A l \in T : k <= l
  BY <1>1, Least
<1>3. k # 0
  BY <1>0, <1>c DEF Counts
<1>4. k - 1 \in Nat /\ k - 1 + 1 = k /\ k - 1 \notin T
  BY <1>2, <1>3
<1>5. /\ Cardinality(UpTo(N, k - 1 + 1)) = Cardinality(UpTo(N, k - 1)) + (IF k - 1 + 1 \in N THEN 1 ELSE 0)
      /\ Cardinality(UpTo(N, k - 1)) \in Nat
  BY <1>4, <1>c DEF Counts
<1>6. Cardinality(UpTo(N, k - 1)) < n
  BY <1>0, <1>4, <1>5
<1>7. k \in N /\ Cardinality(UpTo(N, k)) = n
  BY <1>0, <1>4, <1>5, <1>6
<1> QED
  BY <1>7

LEMMA LineEndDef ==
    ASSUME NEW m \in Nat, NEW N \in SUBSET (1 .. m)
    PROVE  /\ \A n \in 1 .. Cardinality(N) :
                 LineEnd(N, n) \in N /\ Cardinality(UpTo(N, LineEnd(N, n))) = n
           /\ LineEnd(N, 0) = 0
<1> SUFFICES ASSUME NEW n \in 1 .. Cardinality(N)
             PROVE  LineEnd(N, n) \in N /\ Cardinality(UpTo(N, LineEnd(N, n))) = n
  BY DEF LineEnd
<1>1. n # 0
  BY Counting DEF Counts
<1>2. LineEnd(N, n) = CHOOSE k \in N : Cardinality(UpTo(N, k)) = n
  BY <1>1 DEF LineEnd, UpTo
<1> QED
  BY <1>2, NthPlace

\* The ends of the lines follow each other, and after the last there is none.
LEMMA LineEndOrder ==
    ASSUME NEW m \in Nat, NEW N \in SUBSET (1 .. m)
    PROVE  /\ \A n \in 0 .. Cardinality(N) : LineEnd(N, n) \in 0 .. m
           /\ \A n \in 1 .. Cardinality(N) : LineEnd(N, n - 1) < LineEnd(N, n)
           /\ \A j \in N : j <= LineEnd(N, Cardinality(N))
<1>c. Counts(m, N)
  BY Counting
<1>0. Cardinality(N) \in Nat /\ \A j \in N : j \in 1 .. m
  BY <1>c DEF Counts
<1>d. /\ \A n \in 1 .. Cardinality(N) :
            LineEnd(N, n) \in N /\ Cardinality(UpTo(N, LineEnd(N, n))) = n
      /\ LineEnd(N, 0) = 0
  BY LineEndDef
<1>1. ASSUME NEW n \in 0 .. Cardinality(N) PROVE LineEnd(N, n) \in 0 .. m
  <2>1. CASE n = 0
    BY <1>d, <2>1
  <2>2. CASE n # 0
    <3>1. n \in 1 .. Cardinality(N)
      BY <1>0, <2>2
    <3>2. LineEnd(N, n) \in N
      BY <1>d, <3>1
    <3>3. LineEnd(N, n) \in 1 .. m
      BY <1>0, <3>2, Zenon
    <3> QED
      BY <3>3
  <2> QED
    BY <2>1, <2>2
<1>2. ASSUME NEW n \in 1 .. Cardinality(N) PROVE LineEnd(N, n - 1) < LineEnd(N, n)
  <2>1. LineEnd(N, n) \in N /\ LineEnd(N, n) \in 1 .. m /\ Cardinality(UpTo(N, LineEnd(N, n))) = n
    BY <1>0, <1>d
  <2>2. CASE n = 1
    BY <1>d, <2>1, <2>2
  <2>3. CASE n # 1
    <3>1. n - 1 \in 1 .. Cardinality(N) /\ n \in Nat
      BY <1>0, <2>3
    <3>2. /\ LineEnd(N, n - 1) \in N /\ LineEnd(N, n - 1) \in 1 .. m
          /\ Cardinality(UpTo(N, LineEnd(N, n - 1))) = n - 1
      BY <1>0, <1>d, <3>1
    <3>3. ASSUME LineEnd(N, n) <= LineEnd(N, n - 1) PROVE FALSE
      <4>1. \A j \in UpTo(N, LineEnd(N, n)) : j \in UpTo(N, LineEnd(N, n - 1))
        BY <1>0, <2>1, <3>2, <3>3 DEF UpTo
      <4>2. IsFiniteSet(UpTo(N, LineEnd(N, n - 1)))
        BY <1>c, <3>2 DEF Counts
      <4>3. UpTo(N, LineEnd(N, n)) \in SUBSET UpTo(N, LineEnd(N, n - 1))
        BY <4>1
      <4>4. n <= n - 1
        BY <2>1, <3>2, <4>2, <4>3, FS_Subset
      <4> QED
        BY <3>1, <4>4
    <3> QED
      BY <2>1, <3>2, <3>3
  <2> QED
    BY <2>2, <2>3
<1>3. ASSUME NEW j \in N PROVE j <= LineEnd(N, Cardinality(N))
  <2>1. Cardinality(N) # 0
    BY <1>c, FS_EmptySet DEF Counts
  <2>2. Cardinality(N) \in 1 .. Cardinality(N)
    BY <1>0, <2>1
  <2>3. /\ LineEnd(N, Cardinality(N)) \in N
        /\ Cardinality(UpTo(N, LineEnd(N, Cardinality(N)))) = Cardinality(N)
    BY <1>d, <2>2
  <2>4. UpTo(N, LineEnd(N, Cardinality(N))) = N
    BY <1>0, <1>c, <2>3 DEF Counts
  <2> QED
    BY <2>4 DEF UpTo
<1> QED
  BY <1>1, <1>2, <1>3, <1>d

\* The last n lines begin within the file.
LEMMA TailStartType ==
    ASSUME NEW s \in Seq(Bytes), NEW n \in Nat
    PROVE  reverseTailStart(s, n) \in 0 .. Len(s)
<1> DEFINE inner == {i \in Newlines(s) : i < Len(s)}
<1>1. inner \in SUBSET (1 .. Len(s)) /\ Len(s) \in Nat
  BY DEF Newlines
<1> HIDE DEF inner
<1>c. Counts(Len(s), inner)
  BY <1>1, Counting
<1>2. CASE n # 0 /\ ~(n > Cardinality(inner))
  <2> DEFINE c == Cardinality(inner)
             From(k) == {j \in inner : j >= k}
  <2>0. c \in Nat
    BY <1>c DEF Counts
  <2>1. c - n + 1 \in 1 .. c
    BY <1>2, <2>0
  <2>2. PICK k \in inner : Cardinality(UpTo(inner, k)) = c - n + 1
    BY <1>1, <2>1, NthPlace
  <2>3. \A j \in inner : j \in Nat
    BY <1>c DEF Counts
  <2>4. UpTo(inner, k) \cup From(k) = inner
    BY <2>2, <2>3 DEF UpTo
  <2>5. UpTo(inner, k) \cap From(k) = {k}
    BY <2>2, <2>3 DEF UpTo
  <2>6. IsFiniteSet(inner) /\ IsFiniteSet(UpTo(inner, k))
    BY <1>c, <2>3 DEF Counts
  <2>7. IsFiniteSet(From(k)) /\ Cardinality(From(k)) \in Nat
    BY <2>6, FS_Subset, FS_CardinalityType
  <2>8. Cardinality({k}) = 1
    BY FS_Singleton
  <2>9. c = (c - n + 1) + Cardinality(From(k)) - 1
    <3> HIDE DEF From
    <3> QED BY <2>2, <2>4, <2>5, <2>6, <2>7, <2>8, FS_Union
  <2>10. Cardinality(From(k)) = n
    BY <2>1, <2>7, <2>9
  <2>11. reverseTailStart(s, n) = CHOOSE i \in inner : Cardinality(From(i)) = n
    BY <1>2 DEF reverseTailStart, inner
  <2>12. reverseTailStart(s, n) \in inner
    <3> HIDE DEF From
    <3> QED BY <2>10, <2>11
  <2> QED
    BY <1>c, <2>12 DEF Counts
<1>3. CASE n = 0
  BY <1>1, <1>3 DEF reverseTailStart
<1>4. CASE n # 0 /\ n > Cardinality(inner)
  BY <1>1, <1>4 DEF reverseTailStart, inner
<1> QED
  BY <1>2, <1>3, <1>4

(***************************************************************************)
(* The parser.                                                             *)
(***************************************************************************)

LEMMA NewlinesType ==
    ASSUME NEW s \in Seq(Bytes)
    PROVE  Newlines(s) \in SUBSET (1 .. Len(s)) /\ Len(s) \in Nat
  BY DEF Newlines

\* What consume returns, by the places of the text t = b \o s.
LEMMA ConsumeDef ==
    ASSUME NEW b \in Seq(Bytes), NEW s \in Seq(Bytes)
    PROVE  LET t == b \o s
               N == Newlines(t)
               n == Cardinality(N)
               c == consume(b, s)
           IN  /\ t \in Seq(Bytes) /\ n \in Nat
               /\ c.lines \in Seq(Seq(Bytes)) /\ Len(c.lines) = n
               /\ \A i \in 1 .. n : /\ c.lines[i] \in Seq(Bytes)
                                    /\ Len(c.lines[i]) = LineEnd(N, i) - LineEnd(N, i - 1)
                                    /\ \A j \in 1 .. Len(c.lines[i]) :
                                          c.lines[i][j] = t[LineEnd(N, i - 1) + j]
               /\ c.buf \in Seq(Bytes \ Ends) /\ Len(c.buf) = Len(t) - LineEnd(N, n)
               /\ \A j \in 1 .. Len(c.buf) : c.buf[j] = t[LineEnd(N, n) + j]
<1> DEFINE t == b \o s
           N == Newlines(t)
           n == Cardinality(N)
           e(i) == LineEnd(N, i)
           c == consume(b, s)
<1>1. t \in Seq(Bytes)
  BY ConcatProperties
<1>2. N \in SUBSET (1 .. Len(t)) /\ Len(t) \in Nat
  BY <1>1, NewlinesType
<1>3. n \in Nat
  BY <1>2, Counting DEF Counts
<1>4. /\ \A i \in 0 .. n : e(i) \in 0 .. Len(t)
      /\ \A i \in 1 .. n : e(i - 1) < e(i)
      /\ \A j \in N : j <= e(n)
  BY <1>2, LineEndOrder
<1>5. /\ c.lines = [i \in 1 .. n |-> SubSeq(t, e(i - 1) + 1, e(i))]
      /\ c.buf = SubSeq(t, e(n) + 1, Len(t))
  BY DEF consume
<1> HIDE DEF t, N, n, e, c
<1>6. \A i \in 1 .. Len(t) : t[i] \in Bytes
  BY <1>1
<1>7. ASSUME NEW i \in 1 .. n
      PROVE  /\ c.lines[i] \in Seq(Bytes) /\ Len(c.lines[i]) = e(i) - e(i - 1)
             /\ \A j \in 1 .. Len(c.lines[i]) : c.lines[i][j] = t[e(i - 1) + j]
  <2>1. c.lines[i] = SubSeq(t, e(i - 1) + 1, e(i))
    BY <1>5
  <2>2. i \in 0 .. n /\ i - 1 \in 0 .. n
    BY <1>3
  <2>3. e(i) \in 0 .. Len(t) /\ e(i - 1) \in 0 .. Len(t) /\ e(i - 1) < e(i)
    BY <1>4, <2>2
  <2>4. /\ e(i - 1) + 1 \in Int /\ e(i) \in Int /\ e(i - 1) + 1 <= e(i)
        /\ e(i) - (e(i - 1) + 1) + 1 = e(i) - e(i - 1)
        /\ \A j \in (e(i - 1) + 1) .. e(i) : t[j] \in Bytes
    BY <1>2, <1>6, <2>3
  <2>5. /\ SubSeq(t, e(i - 1) + 1, e(i)) \in Seq(Bytes)
        /\ Len(SubSeq(t, e(i - 1) + 1, e(i))) = e(i) - e(i - 1)
        /\ \A j \in 1 .. e(i) - e(i - 1) :
              SubSeq(t, e(i - 1) + 1, e(i))[j] = t[e(i - 1) + 1 + j - 1]
    BY <2>4, SubSeqProperties
  <2>6. \A j \in 1 .. e(i) - e(i - 1) : e(i - 1) + 1 + j - 1 = e(i - 1) + j
    BY <2>3
  <2> QED
    BY <2>1, <2>5, <2>6
<1>8. c.lines \in Seq(Seq(Bytes)) /\ Len(c.lines) = n
  <2>1. c.lines \in [1 .. n -> Seq(Bytes)]
    BY <1>5, <1>7
  <2>2. c.lines \in Seq(Seq(Bytes))
    <3>1. Seq(Seq(Bytes)) = UNION {[1 .. k -> Seq(Bytes)] : k \in Nat}
      BY SeqDef, Zenon
    <3> QED
      BY <1>3, <2>1, <3>1, Zenon
  <2>3. 1 .. Len(c.lines) = 1 .. n /\ Len(c.lines) \in Nat
    BY <2>1, <2>2, LenProperties
  <2>4. Len(c.lines) = n
    <3>1. Len(c.lines) <= n
      BY <1>3, <2>3
    <3>2. n <= Len(c.lines)
      BY <1>3, <2>3
    <3> QED
      BY <1>3, <2>3, <3>1, <3>2
  <2> QED
    BY <2>2, <2>4
<1>9. /\ c.buf \in Seq(Bytes \ Ends) /\ Len(c.buf) = Len(t) - e(n)
      /\ \A j \in 1 .. Len(c.buf) : c.buf[j] = t[e(n) + j]
  <2>1. e(n) \in 0 .. Len(t)
    BY <1>3, <1>4
  <2>2. ASSUME NEW j \in (e(n) + 1) .. Len(t) PROVE t[j] \in Bytes \ Ends
    <3>1. j \in 1 .. Len(t) /\ ~(j <= e(n))
      BY <1>2, <2>1
    <3>2. j \notin N
      BY <1>4, <3>1
    <3> QED
      BY <1>6, <3>1, <3>2 DEF N, Newlines
  <2>3. /\ e(n) + 1 \in Int /\ Len(t) \in Int
        /\ (IF e(n) + 1 <= Len(t) THEN Len(t) - (e(n) + 1) + 1 ELSE 0) = Len(t) - e(n)
        /\ Len(t) - (e(n) + 1) + 1 = Len(t) - e(n)
        /\ \A j \in 1 .. Len(t) - e(n) : e(n) + 1 + j - 1 = e(n) + j
    BY <1>2, <2>1
  <2>4. /\ SubSeq(t, e(n) + 1, Len(t)) \in Seq(Bytes \ Ends)
        /\ Len(SubSeq(t, e(n) + 1, Len(t))) = Len(t) - e(n)
        /\ \A j \in 1 .. Len(t) - e(n) :
              SubSeq(t, e(n) + 1, Len(t))[j] = t[e(n) + 1 + j - 1]
    BY <2>2, <2>3, SubSeqProperties
  <2> QED
    BY <1>5, <2>3, <2>4
<1> QED
  BY <1>1, <1>3, <1>7, <1>8, <1>9 DEF t, N, n, e, c

(***************************************************************************)
(* Lines that follow each other.                                           *)
(***************************************************************************)

\* Contiguous, with the places where the lines begin and end.
Chain(ls, p) ==
    /\ p \in [0 .. Len(ls) -> Int]
    /\ \A i \in 1 .. Len(ls) : Stretch(ls[i], p[i - 1], p[i])

LEMMA ChainPlaces ==
    ASSUME NEW ls \in Seq(Seq(Bytes)), NEW x \in Int, NEW y, Contiguous(ls, x, y)
    PROVE  \E p : Chain(ls, p) /\ p[0] = x /\ p[Len(ls)] = y
<1> DEFINE e(i) == IF i = 0 THEN x ELSE ls[i][1] + Len(ls[i])
           p == [i \in 0 .. Len(ls) |-> e(i)]
<1>1. e(Len(ls)) = y /\ \A i \in 1 .. Len(ls) : Stretch(ls[i], e(i - 1), e(i))
  BY DEF Contiguous
<1>2. ASSUME NEW i \in 0 .. Len(ls) PROVE e(i) \in Int
  <2>1. CASE i = 0
    BY <2>1
  <2>2. CASE i # 0
    <3>1. i \in 1 .. Len(ls)
      BY <2>2
    <3>2. ls[i] \in Seq(Bytes)
      BY <3>1
    <3>3. Stretch(ls[i], e(i - 1), e(i))
      BY <1>1, <3>1
    <3>4. Len(ls[i]) > 0
      <4> HIDE DEF e
      <4> QED
        BY <3>3 DEF Stretch
    <3>5. ls[i][1] \in Bytes
      BY <3>2, <3>4
    <3> QED
      BY <2>2, <3>2, <3>5 DEF Bytes
  <2> QED
    BY <2>1, <2>2
<1>3. p \in [0 .. Len(ls) -> Int] /\ p[0] = x /\ p[Len(ls)] = y
  BY <1>1, <1>2
<1>4. ASSUME NEW i \in 1 .. Len(ls) PROVE Stretch(ls[i], p[i - 1], p[i])
  <2>1. i \in 0 .. Len(ls) /\ i - 1 \in 0 .. Len(ls)
    OBVIOUS
  <2>2. p[i] = e(i) /\ p[i - 1] = e(i - 1)
    BY <2>1
  <2> HIDE DEF e, p
  <2> QED
    BY <1>1, <2>2
<1> HIDE DEF p
<1> QED
  BY <1>3, <1>4 DEF Chain

LEMMA ChainIsContiguous ==
    ASSUME NEW ls \in Seq(Seq(Bytes)), NEW p, Chain(ls, p)
    PROVE  Contiguous(ls, p[0], p[Len(ls)])
<1> DEFINE e(i) == IF i = 0 THEN p[0] ELSE ls[i][1] + Len(ls[i])
<1>1. ASSUME NEW i \in 0 .. Len(ls) PROVE e(i) = p[i]
  <2>1. CASE i = 0
    BY <2>1
  <2>2. CASE i # 0
    <3>1. i \in 1 .. Len(ls) /\ i - 1 \in 0 .. Len(ls) /\ Len(ls[i]) \in Nat
      BY <2>2
    <3>2. /\ p[i - 1] \in Int /\ p[i] = p[i - 1] + Len(ls[i]) /\ Len(ls[i]) > 0
          /\ \A j \in 1 .. Len(ls[i]) : ls[i][j] = p[i - 1] + j - 1
      BY <3>1 DEF Chain, Stretch, Consecutive
    <3>3. ls[i][1] = p[i - 1] + 1 - 1
      BY <3>1, <3>2
    <3> QED
      BY <2>2, <3>1, <3>2, <3>3
  <2> QED
    BY <2>1, <2>2
<1> HIDE DEF e
<1>2. ASSUME NEW i \in 1 .. Len(ls) PROVE Stretch(ls[i], e(i - 1), e(i))
  <2>1. i \in 0 .. Len(ls) /\ i - 1 \in 0 .. Len(ls)
    OBVIOUS
  <2> QED
    BY <1>1, <2>1 DEF Chain
<1>3. e(Len(ls)) = p[Len(ls)]
  BY <1>1
<1> QED
  BY <1>2, <1>3 DEF Contiguous, e

LEMMA NoLines ==
    ASSUME NEW x PROVE Contiguous(<<>>, x, x)
  BY DEF Contiguous

LEMMA OneLine ==
    ASSUME NEW s \in Seq(Bytes), s # <<>>, NEW x \in Int, Consecutive(s, x)
    PROVE  Contiguous(<<s>>, x, x + Len(s))
<1> DEFINE p == [i \in 0 .. 1 |-> IF i = 0 THEN x ELSE x + Len(s)]
           ls == <<s>>
<1>1. Len(ls) = 1 /\ ls[1] = s /\ ls \in Seq(Seq(Bytes)) /\ Len(s) \in Nat /\ Len(s) > 0
  OBVIOUS
<1>2. p[0] = x /\ p[1] = x + Len(s) /\ p \in [0 .. 1 -> Int]
  BY <1>1
<1> HIDE DEF p, ls
<1>3. ASSUME NEW i \in 1 .. Len(ls) PROVE Stretch(ls[i], p[i - 1], p[i])
  <2>1. i = 1 /\ i - 1 = 0
    BY <1>1
  <2> QED
    BY <1>1, <1>2, <2>1 DEF Stretch
<1>4. Chain(ls, p)
  BY <1>1, <1>2, <1>3 DEF Chain
<1>5. Contiguous(ls, p[0], p[Len(ls)])
  BY <1>1, <1>4, ChainIsContiguous
<1> QED
  BY <1>1, <1>2, <1>5 DEF ls

LEMMA Joined ==
    ASSUME NEW ls \in Seq(Seq(Bytes)), NEW ms \in Seq(Seq(Bytes)), NEW x \in Int, NEW y \in Int,
           NEW z, Contiguous(ls, x, y), Contiguous(ms, y, z)
    PROVE  Contiguous(ls \o ms, x, z)
<1>1. PICK p : Chain(ls, p) /\ p[0] = x /\ p[Len(ls)] = y
  BY ChainPlaces
<1>2. PICK q : Chain(ms, q) /\ q[0] = y /\ q[Len(ms)] = z
  BY ChainPlaces
<1> DEFINE ns == ls \o ms
           r == [i \in 0 .. Len(ns) |-> IF i <= Len(ls) THEN p[i] ELSE q[i - Len(ls)]]
<1>3. /\ ns \in Seq(Seq(Bytes)) /\ Len(ns) = Len(ls) + Len(ms)
      /\ Len(ls) \in Nat /\ Len(ms) \in Nat
      /\ \A i \in 1 .. Len(ns) : ns[i] = IF i <= Len(ls) THEN ls[i] ELSE ms[i - Len(ls)]
  OBVIOUS
<1>r. r = [i \in 0 .. Len(ns) |-> IF i <= Len(ls) THEN p[i] ELSE q[i - Len(ls)]]
  OBVIOUS
<1> HIDE DEF ns, r
<1>4. /\ \A i \in 0 .. Len(ls) : r[i] = p[i]
      /\ \A i \in 0 .. Len(ms) : r[i + Len(ls)] = q[i]
  <2>1. \A i \in 0 .. Len(ls) : r[i] = p[i]
    BY <1>3, <1>r
  <2>2. ASSUME NEW i \in 0 .. Len(ms) PROVE r[i + Len(ls)] = q[i]
    <3>1. CASE i = 0
      <4>1. i + Len(ls) = Len(ls) /\ Len(ls) \in 0 .. Len(ls)
        BY <1>3, <3>1
      <4> QED
        BY <1>1, <1>2, <2>1, <3>1, <4>1
    <3>2. CASE i # 0
      <4>1. i + Len(ls) \in 0 .. Len(ns) /\ ~(i + Len(ls) <= Len(ls)) /\ i + Len(ls) - Len(ls) = i
        BY <1>3, <3>2
      <4>2. r[i + Len(ls)] = q[i + Len(ls) - Len(ls)]
        BY <1>r, <4>1
      <4> QED
        BY <4>1, <4>2
    <3> QED
      BY <3>1, <3>2
  <2> QED
    BY <2>1, <2>2
<1>5. r \in [0 .. Len(ns) -> Int]
  <2>1. ASSUME NEW i \in 0 .. Len(ns)
        PROVE  (IF i <= Len(ls) THEN p[i] ELSE q[i - Len(ls)]) \in Int
    <3>1. CASE i <= Len(ls)
      <4>1. i \in 0 .. Len(ls)
        BY <1>3, <3>1
      <4> QED
        BY <1>1, <3>1, <4>1 DEF Chain
    <3>2. CASE ~(i <= Len(ls))
      <4>1. i - Len(ls) \in 0 .. Len(ms)
        BY <1>3, <3>2
      <4> QED
        BY <1>2, <3>2, <4>1 DEF Chain
    <3> QED
      BY <3>1, <3>2
  <2> QED
    BY <1>r, <2>1
<1>6. ASSUME NEW i \in 1 .. Len(ns) PROVE Stretch(ns[i], r[i - 1], r[i])
  <2>1. CASE i <= Len(ls)
    <3>1. i \in 1 .. Len(ls) /\ i \in 0 .. Len(ls) /\ i - 1 \in 0 .. Len(ls)
      BY <1>3, <2>1
    <3>2. ns[i] = ls[i] /\ r[i] = p[i] /\ r[i - 1] = p[i - 1]
      BY <1>3, <1>4, <2>1, <3>1
    <3> QED
      BY <1>1, <3>1, <3>2 DEF Chain
  <2>2. CASE ~(i <= Len(ls))
    <3> DEFINE j == i - Len(ls)
    <3>0. i \in Int /\ Len(ls) < i /\ i <= Len(ls) + Len(ms)
      BY <1>3, <2>2
    <3>n. Len(ls) \in Nat /\ Len(ms) \in Nat
      OBVIOUS
    <3>1. j \in 1 .. Len(ms) /\ j \in 0 .. Len(ms) /\ j - 1 \in 0 .. Len(ms)
          /\ i = j + Len(ls) /\ i - 1 = (j - 1) + Len(ls)
      <4> HIDE DEF ns
      <4> QED
        BY <3>0, <3>n
    <3>2. ns[i] = ms[j]
      BY <1>3, <2>2
    <3> HIDE DEF j
    <3>3. r[i] = q[j] /\ r[i - 1] = q[j - 1]
      BY <1>4, <3>1
    <3> QED
      BY <1>2, <3>1, <3>2, <3>3 DEF Chain
  <2> QED
    BY <2>1, <2>2
<1>7. r[0] = x /\ r[Len(ns)] = z
  <2>1. 0 \in 0 .. Len(ls) /\ Len(ms) \in 0 .. Len(ms) /\ Len(ns) = Len(ms) + Len(ls)
    BY <1>3
  <2> QED
    BY <1>1, <1>2, <1>4, <2>1
<1>8. Contiguous(ns, r[0], r[Len(ns)])
  BY <1>3, <1>5, <1>6, ChainIsContiguous DEF Chain
<1> QED
  BY <1>7, <1>8 DEF ns

\* The first line is taken.
LEMMA WithoutFirst ==
    ASSUME NEW ls \in Seq(Seq(Bytes)), ls # <<>>, NEW x \in Int, NEW y, Contiguous(ls, x, y)
    PROVE  Contiguous(Tail(ls), x + Len(ls[1]), y) /\ Len(ls[1]) \in Nat
<1>1. PICK p : Chain(ls, p) /\ p[0] = x /\ p[Len(ls)] = y
  BY ChainPlaces
<1> DEFINE ms == Tail(ls)
           q == [i \in 0 .. Len(ms) |-> p[i + 1]]
<1>2. /\ ms \in Seq(Seq(Bytes)) /\ Len(ms) \in Nat /\ Len(ls) = Len(ms) + 1
      /\ \A i \in 1 .. Len(ms) : ms[i] = ls[i + 1]
  OBVIOUS
<1>q. q = [i \in 0 .. Len(ms) |-> p[i + 1]]
  OBVIOUS
<1> HIDE DEF ms, q
<1>3. ASSUME NEW i \in 0 .. Len(ms) PROVE p[i + 1] \in Int
  <2>1. i + 1 \in 0 .. Len(ls)
    BY <1>2
  <2> QED
    BY <1>1, <2>1 DEF Chain
<1>4. q \in [0 .. Len(ms) -> Int] /\ q[0] = p[1] /\ q[Len(ms)] = p[Len(ls)]
  BY <1>2, <1>3, <1>q
<1>5. ASSUME NEW i \in 1 .. Len(ms) PROVE Stretch(ms[i], q[i - 1], q[i])
  <2>1. i + 1 \in 1 .. Len(ls) /\ i \in 0 .. Len(ms) /\ i - 1 \in 0 .. Len(ms)
        /\ i + 1 - 1 = i /\ i - 1 + 1 = i
    BY <1>2
  <2>2. ms[i] = ls[i + 1] /\ q[i] = p[i + 1] /\ q[i - 1] = p[i]
    BY <1>2, <1>q, <2>1
  <2>3. Stretch(ls[i + 1], p[i + 1 - 1], p[i + 1])
    BY <1>1, <2>1 DEF Chain
  <2> QED
    BY <2>1, <2>2, <2>3
<1>6. Contiguous(ms, q[0], q[Len(ms)])
  BY <1>2, <1>4, <1>5, ChainIsContiguous DEF Chain
<1>7. p[1] = x + Len(ls[1]) /\ Len(ls[1]) \in Nat
  <2>1. 1 \in 1 .. Len(ls) /\ 1 - 1 = 0 /\ ls[1] \in Seq(Bytes)
    BY <1>2
  <2>2. Stretch(ls[1], p[1 - 1], p[1])
    BY <1>1, <2>1 DEF Chain
  <2> QED
    BY <1>1, <2>1, <2>2 DEF Stretch
<1> QED
  BY <1>1, <1>4, <1>6, <1>7 DEF ms

\* The bytes of such lines.
LEMMA BytesOfLines ==
    ASSUME NEW ls \in Seq(Seq(Bytes)), NEW x \in Int, NEW y, Contiguous(ls, x, y)
    PROVE  BytesOf(ls) = x .. (y - 1) /\ y \in Int /\ x <= y
<1>1. PICK p : Chain(ls, p) /\ p[0] = x /\ p[Len(ls)] = y
  BY ChainPlaces
<1> DEFINE U(n) == UNION {Range(ls[i]) : i \in 1 .. n}
           S == {n \in Nat : n <= Len(ls) => U(n) = x .. (p[n] - 1) /\ x <= p[n]}
<1>2. 0 \in S
  <2>1. U(0) = {}
    OBVIOUS
  <2> QED
    BY <1>1, <2>1
<1>3. ASSUME NEW n \in Nat, n \in S PROVE n + 1 \in S
  <2> SUFFICES ASSUME n + 1 <= Len(ls)
               PROVE  U(n + 1) = x .. (p[n + 1] - 1) /\ x <= p[n + 1]
    OBVIOUS
  <2>1. n + 1 \in 1 .. Len(ls) /\ n + 1 - 1 = n /\ n \in 0 .. Len(ls) /\ n + 1 \in 0 .. Len(ls)
    OBVIOUS
  <2>2. /\ Stretch(ls[n + 1], p[n], p[n + 1]) /\ ls[n + 1] \in Seq(Bytes)
        /\ p[n] \in Int /\ p[n + 1] \in Int
    <3>1. Stretch(ls[n + 1], p[n + 1 - 1], p[n + 1])
      BY <1>1, <2>1 DEF Chain
    <3>2. p \in [0 .. Len(ls) -> Int]
      BY <1>1 DEF Chain
    <3>3. ls[n + 1] \in Seq(Bytes)
      BY <2>1
    <3> QED
      BY <2>1, <3>1, <3>2, <3>3
  <2>3. U(n) = x .. (p[n] - 1) /\ x <= p[n]
    BY <1>3, <2>1
  <2>4. U(n + 1) = U(n) \cup Range(ls[n + 1])
    <3>1. 1 .. n + 1 = (1 .. n) \cup {n + 1}
      OBVIOUS
    <3> QED
      BY <3>1
  <2>5. Range(ls[n + 1]) = p[n] .. (p[n + 1] - 1)
    <3> DEFINE s == ls[n + 1]
    <3>1. /\ Len(s) \in Nat /\ DOMAIN s = 1 .. Len(s) /\ p[n + 1] = p[n] + Len(s)
          /\ \A j \in 1 .. Len(s) : s[j] = p[n] + j - 1
      BY <2>2 DEF Stretch, Consecutive
    <3> HIDE DEF s
    <3>2. ASSUME NEW b \in p[n] .. (p[n + 1] - 1)
          PROVE  b - p[n] + 1 \in 1 .. Len(s) /\ s[b - p[n] + 1] = b
      <4>0. /\ p[n] \in Int /\ p[n + 1] \in Int /\ Len(s) \in Int
            /\ p[n + 1] = p[n] + Len(s)
        BY <2>2, <3>1
      <4>b. b \in Int /\ p[n] <= b /\ b < p[n] + Len(s)
        BY <4>0
      <4>c. \A a, l, k \in Int : a <= k /\ k < a + l => k - a + 1 \in 1 .. l
        OBVIOUS
      <4>1. b - p[n] + 1 \in 1 .. Len(s)
        BY <4>0, <4>b, <4>c, Zenon
      <4>2. s[b - p[n] + 1] = p[n] + (b - p[n] + 1) - 1
        BY <3>1, <4>1
      <4> QED
        BY <2>2, <4>1, <4>2
    <3>3. \A j \in 1 .. Len(s) : s[j] \in p[n] .. (p[n + 1] - 1)
      BY <2>2, <3>1
    <3>4. Range(s) = p[n] .. (p[n + 1] - 1)
      BY <3>1, <3>2, <3>3 DEF Range
    <3> QED
      BY <3>4 DEF s
  <2>6. p[n] <= p[n + 1]
    BY <2>2 DEF Stretch
  <2>7. (x .. (p[n] - 1)) \cup (p[n] .. (p[n + 1] - 1)) = x .. (p[n + 1] - 1)
    BY <2>2, <2>3, <2>6
  <2>8. x <= p[n + 1]
    BY <2>2, <2>3, <2>6
  <2> HIDE DEF U
  <2> QED
    BY <2>3, <2>4, <2>5, <2>7, <2>8
<1>4. Len(ls) \in S
  <2> HIDE DEF S
  <2> QED
    BY <1>2, <1>3, NatSetInduction
<1>5. p[Len(ls)] \in Int
  <2>1. Len(ls) \in 0 .. Len(ls)
    OBVIOUS
  <2> QED
    BY <1>1, <2>1 DEF Chain
<1>6. BytesOf(ls) = U(Len(ls))
  BY DEF BytesOf
<1> HIDE DEF U
<1>7. U(Len(ls)) = x .. (p[Len(ls)] - 1) /\ x <= p[Len(ls)]
  BY <1>4
<1> QED
  BY <1>1, <1>5, <1>6, <1>7

\* The lines ls are the next ones to be answered, or to arrive.
LEMMA Extended ==
    ASSUME NEW ls \in Seq(Seq(Bytes)), NEW a \in Nat, NEW x \in a .. MaxBytes + 1, NEW y,
           Contiguous(ls, x, y)
    PROVE  y \in x .. MaxBytes + 1 /\ (a .. (x - 1)) \cup BytesOf(ls) = a .. (y - 1)
<1>0. MaxBytes \in Nat /\ x \in Int /\ a <= x /\ x <= MaxBytes + 1
  BY LogStreamAssumption
<1>1. BytesOf(ls) = x .. (y - 1) /\ y \in Int /\ x <= y
  BY <1>0, BytesOfLines
<1>2. y <= MaxBytes + 1
  <2>1. CASE x = y
    BY <1>0, <2>1
  <2>2. CASE x # y
    <3>1. y - 1 \in BytesOf(ls)
      BY <1>0, <1>1, <2>2
    <3>2. BytesOf(ls) \subseteq Bytes
      <4> SUFFICES ASSUME NEW i \in 1 .. Len(ls) PROVE Range(ls[i]) \subseteq Bytes
        BY DEF BytesOf
      <4>1. ls[i] \in Seq(Bytes)
        OBVIOUS
      <4> QED
        BY <4>1, RangeOfSeq DEF Range
    <3>3. y - 1 \in Bytes
      BY <3>1, <3>2
    <3> QED
      BY <1>0, <1>1, <3>3 DEF Bytes
  <2> QED
    BY <2>1, <2>2
<1>3. (a .. (x - 1)) \cup (x .. (y - 1)) = a .. (y - 1)
  BY <1>0, <1>1
<1> QED
  BY <1>0, <1>1, <1>2, <1>3

\* Consuming consecutive bytes gives lines and a buffer that follow each other.
LEMMA ConsumeContiguous ==
    ASSUME NEW b \in Seq(Bytes), NEW s \in Seq(Bytes), NEW x \in Int,
           Consecutive(b \o s, x)
    PROVE  LET c == consume(b, s)
               y == x + Len(b \o s) - Len(c.buf)
           IN  /\ Contiguous(c.lines, x, y) /\ Consecutive(c.buf, y)
               /\ Len(c.buf) \in 0 .. Len(b \o s)
<1> DEFINE t == b \o s
           N == Newlines(t)
           n == Cardinality(N)
           e(i) == LineEnd(N, i)
           c == consume(b, s)
           y == x + Len(t) - Len(c.buf)
           p == [i \in 0 .. n |-> x + e(i)]
<1>1. /\ t \in Seq(Bytes) /\ n \in Nat
      /\ c.lines \in Seq(Seq(Bytes)) /\ Len(c.lines) = n
      /\ \A i \in 1 .. n : /\ c.lines[i] \in Seq(Bytes)
                           /\ Len(c.lines[i]) = e(i) - e(i - 1)
                           /\ \A j \in 1 .. Len(c.lines[i]) : c.lines[i][j] = t[e(i - 1) + j]
      /\ c.buf \in Seq(Bytes \ Ends) /\ Len(c.buf) = Len(t) - e(n)
      /\ \A j \in 1 .. Len(c.buf) : c.buf[j] = t[e(n) + j]
  BY ConsumeDef
<1>2. N \in SUBSET (1 .. Len(t)) /\ Len(t) \in Nat
  BY <1>1, NewlinesType
<1>3. /\ \A i \in 0 .. n : e(i) \in 0 .. Len(t)
      /\ \A i \in 1 .. n : e(i - 1) < e(i)
  BY <1>2, LineEndOrder
<1>4. e(0) = 0
  BY <1>2, LineEndDef
<1>5. \A i \in 1 .. Len(t) : t[i] = x + i - 1
  BY DEF Consecutive
<1>y. y = x + Len(t) - Len(c.buf)
  OBVIOUS
<1>p. p = [i \in 0 .. n |-> x + e(i)]
  OBVIOUS
<1> HIDE DEF t, N, n, e, c, y, p
<1>0. n \in 0 .. n /\ 0 \in 0 .. n
  BY <1>1
<1>e. e(n) \in 0 .. Len(t)
  BY <1>0, <1>3
<1>6. y = x + e(n) /\ Len(c.buf) \in 0 .. Len(t)
  BY <1>1, <1>2, <1>e, <1>y
<1>7. p \in [0 .. Len(c.lines) -> Int] /\ p[0] = x /\ p[Len(c.lines)] = y
  <2>1. \A i \in 0 .. n : x + e(i) \in Int
    BY <1>3
  <2> QED
    BY <1>0, <1>1, <1>4, <1>6, <1>p, <2>1
<1>8. ASSUME NEW i \in 1 .. n PROVE Stretch(c.lines[i], p[i - 1], p[i])
  <2>0. i \in 0 .. n /\ i - 1 \in 0 .. n
    BY <1>1
  <2>1. /\ e(i) \in 0 .. Len(t) /\ e(i - 1) \in 0 .. Len(t) /\ e(i - 1) < e(i)
        /\ Len(c.lines[i]) = e(i) - e(i - 1)
        /\ p[i] = x + e(i) /\ p[i - 1] = x + e(i - 1)
    BY <1>1, <1>3, <1>p, <2>0
  <2>2. ASSUME NEW j \in 1 .. Len(c.lines[i]) PROVE c.lines[i][j] = p[i - 1] + j - 1
    <3>1. c.lines[i][j] = t[e(i - 1) + j]
      BY <1>1, <2>1
    <3>2. e(i - 1) + j \in 1 .. Len(t)
      BY <1>2, <2>1
    <3>3. t[e(i - 1) + j] = x + (e(i - 1) + j) - 1
      BY <1>5, <3>2
    <3> QED
      BY <2>1, <3>1, <3>3
  <2>3. Consecutive(c.lines[i], p[i - 1])
    BY <2>2 DEF Consecutive
  <2>4. Len(c.lines[i]) > 0 /\ p[i] = p[i - 1] + Len(c.lines[i])
    BY <1>2, <2>1
  <2> QED
    BY <2>3, <2>4 DEF Stretch
<1>12. Contiguous(c.lines, x, y)
  BY <1>1, <1>7, <1>8, ChainIsContiguous DEF Chain
<1>13. Consecutive(c.buf, y)
  <2> SUFFICES ASSUME NEW j \in 1 .. Len(c.buf) PROVE c.buf[j] = y + j - 1
    BY DEF Consecutive
  <2>1. c.buf[j] = t[e(n) + j] /\ e(n) + j \in 1 .. Len(t)
    BY <1>1, <1>2, <1>e
  <2>2. t[e(n) + j] = x + (e(n) + j) - 1
    BY <1>5, <2>1
  <2> QED
    BY <1>6, <1>e, <2>1, <2>2
<1> QED
  BY <1>6, <1>12, <1>13 DEF t, c, y

(***************************************************************************)
(* A reading.                                                              *)
(***************************************************************************)

LEMMA TakenMost ==
    ASSUME NEW s \in Seq(Bytes)
    PROVE  \E m \in Taken(s) : \A l \in Taken(s) : l <= m
<1>1. Taken(s) \in SUBSET (0 .. Len(s)) /\ Len(s) \in Nat
  BY DEF Taken
<1>2. {i \in Newlines(s) : i < 0} = {}
  BY DEF Newlines
<1>3. 0 \in Taken(s)
  <2>1. Cardinality({i \in Newlines(s) : i < 0}) = 0
    BY <1>2, FS_EmptySet
  <2>2. 0 <= MaxRead /\ 0 < MaxLines /\ 0 \in 0 .. Len(s)
    BY LogStreamAssumption
  <2> QED
    BY <2>1, <2>2 DEF Taken
<1> QED
  BY <1>1, <1>3, Greatest

LEMMA UnreadDef ==
    ASSUME NEW f \in Files, NEW o \in Nat, content[f] \in Seq(Bytes)
    PROVE  /\ Unread(f, o) \in Seq(Bytes)
           /\ Len(Unread(f, o)) = IF o < Size(f) THEN Size(f) - o ELSE 0
           /\ \A i \in 1 .. Len(Unread(f, o)) : Unread(f, o)[i] = content[f][o + i]
<1> DEFINE c == content[f]
           n == Len(c)
<1>1. c \in Seq(Bytes) /\ n \in Nat /\ \A i \in 1 .. n : c[i] \in Bytes
  OBVIOUS
<1>2. Unread(f, o) = SubSeq(c, o + 1, n) /\ Size(f) = n
  BY DEF Unread, Size
<1> HIDE DEF c, n
<1>3. \A i \in (o + 1) .. n : c[i] \in Bytes
  BY <1>1
<1>4. /\ SubSeq(c, o + 1, n) \in Seq(Bytes)
      /\ Len(SubSeq(c, o + 1, n)) = IF o + 1 <= n THEN n - (o + 1) + 1 ELSE 0
      /\ \A i \in 1 .. n - (o + 1) + 1 : SubSeq(c, o + 1, n)[i] = c[(o + 1) + i - 1]
  BY <1>1, <1>3, SubSeqProperties
<1>5. Len(Unread(f, o)) = IF o < Size(f) THEN Size(f) - o ELSE 0
  BY <1>1, <1>2, <1>4
<1>6. ASSUME NEW i \in 1 .. Len(Unread(f, o)) PROVE Unread(f, o)[i] = c[o + i]
  <2>1. i \in 1 .. n - (o + 1) + 1 /\ (o + 1) + i - 1 = o + i
    BY <1>1, <1>2, <1>5
  <2> QED
    BY <1>2, <1>4, <2>1
<1> QED
  BY <1>2, <1>4, <1>5, <1>6 DEF c

\* A reading is what consume makes of the next k bytes of the file.
ReadingOf(f, o, b, r, k, s) ==
    /\ k \in 0 .. Len(Unread(f, o))
    /\ s \in Seq(Bytes) /\ Len(s) = k
    /\ \A i \in 1 .. k : s[i] = content[f][o + i]
    /\ r = [offset |-> o + k, buf |-> consume(b, s).buf, lines |-> consume(b, s).lines]

LEMMA ReadingDef ==
    ASSUME NEW f \in Files, NEW o \in Nat, content[f] \in Seq(Bytes), NEW b
    PROVE  \E k, s : ReadingOf(f, o, b, readAvailable(f, o, b), k, s)
<1> DEFINE u == Unread(f, o)
           k == CHOOSE m \in Taken(u) : \A l \in Taken(u) : l <= m
           s == SubSeq(u, 1, k)
<1>1. /\ u \in Seq(Bytes) /\ Len(u) \in Nat
      /\ \A i \in 1 .. Len(u) : u[i] = content[f][o + i] /\ u[i] \in Bytes
  BY UnreadDef
<1>2. readAvailable(f, o, b) =
        [offset |-> o + k, buf |-> consume(b, s).buf, lines |-> consume(b, s).lines]
  BY DEF readAvailable
<1> HIDE DEF u
<1>3. k \in Taken(u)
  BY <1>1, TakenMost
<1> HIDE DEF k
<1>4. k \in 0 .. Len(u)
  BY <1>3 DEF Taken
<1>5. \A i \in 1 .. k : u[i] \in Bytes /\ 1 + i - 1 = i /\ i \in 1 .. Len(u)
  BY <1>1, <1>4
<1>6. /\ SubSeq(u, 1, k) \in Seq(Bytes)
      /\ Len(SubSeq(u, 1, k)) = IF 1 <= k THEN k - 1 + 1 ELSE 0
      /\ \A i \in 1 .. k - 1 + 1 : SubSeq(u, 1, k)[i] = u[1 + i - 1]
  BY <1>4, <1>5, SubSeqProperties
<1>7. Len(s) = k /\ k - 1 + 1 = k
  BY <1>1, <1>4, <1>6
<1>8. \A i \in 1 .. k : s[i] = content[f][o + i]
  BY <1>1, <1>5, <1>6, <1>7
<1> HIDE DEF s
<1>9. ReadingOf(f, o, b, readAvailable(f, o, b), k, s)
  <2>1. s \in Seq(Bytes)
    BY <1>6 DEF s
  <2> QED
    BY <1>2, <1>4, <1>7, <1>8, <2>1 DEF ReadingOf, u
<1> QED
  BY <1>9

\* What a reading returns, whatever the offset and the buffer are.
ReadingType(f, o, r) ==
    /\ r.offset \in Nat /\ o <= r.offset
    /\ r.offset = o \/ r.offset <= Size(f)
    /\ r.buf \in Seq(Bytes \ Ends)
    /\ r.lines \in Seq(Seq(Bytes))

LEMMA ReadingTypes ==
    ASSUME NEW f \in Files, NEW o \in Nat, content[f] \in Seq(Bytes),
           NEW b \in Seq(Bytes \ Ends)
    PROVE  ReadingType(f, o, readAvailable(f, o, b))
<1> DEFINE r == readAvailable(f, o, b)
<1>1. PICK k, s : ReadingOf(f, o, b, r, k, s)
  BY ReadingDef
<1> HIDE DEF r
<1>2. b \in Seq(Bytes)
  BY SeqMonotonic
<1>3. s \in Seq(Bytes)
  BY <1>1 DEF ReadingOf
<1>4. consume(b, s).lines \in Seq(Seq(Bytes)) /\ consume(b, s).buf \in Seq(Bytes \ Ends)
  BY <1>2, <1>3, ConsumeDef
<1>5. r.offset = o + k /\ r.buf = consume(b, s).buf /\ r.lines = consume(b, s).lines
  BY <1>1 DEF ReadingOf
<1>6. k \in 0 .. Len(Unread(f, o)) /\ Size(f) \in Nat
  BY <1>1 DEF ReadingOf, Size
<1>7. Len(Unread(f, o)) = IF o < Size(f) THEN Size(f) - o ELSE 0
  BY UnreadDef
<1>8. r.offset \in Nat /\ o <= r.offset /\ (r.offset = o \/ r.offset <= Size(f))
  BY <1>5, <1>6, <1>7
<1> QED
  BY <1>4, <1>5, <1>8 DEF ReadingType, r

\* The first byte of a file, and the others by their places.
Ordered(f) == content[f] # <<>> => Consecutive(content[f], content[f][1])

\* What a reading returns when the buffer is what was read up to the offset.
ReadingNext(f, o, b, r) ==
    /\ o <= r.offset /\ r.offset <= Size(f)
    /\ Len(r.buf) <= r.offset
    /\ Contiguous(r.lines, Start(f) + o - Len(b), Start(f) + r.offset - Len(r.buf))
    /\ Consecutive(r.buf, Start(f) + r.offset - Len(r.buf))

LEMMA ReadingContinues ==
    ASSUME NEW f \in Files, NEW o \in Nat, content[f] \in Seq(Bytes), written \in Nat,
           NEW b \in Seq(Bytes \ Ends), o <= Size(f), Len(b) <= o, Ordered(f),
           Consecutive(b, Start(f) + o - Len(b))
    PROVE  ReadingNext(f, o, b, readAvailable(f, o, b))
<1> DEFINE r == readAvailable(f, o, b)
           x == Start(f) + o - Len(b)
           c == content[f]
<1>1. PICK k, s : ReadingOf(f, o, b, r, k, s)
  BY ReadingDef
<1>2. b \in Seq(Bytes) /\ Len(b) \in Nat
  BY SeqMonotonic
<1>3. /\ s \in Seq(Bytes) /\ Len(s) = k /\ k \in Nat /\ o + k <= Size(f)
      /\ \A i \in 1 .. k : s[i] = c[o + i]
      /\ r.offset = o + k /\ r.buf = consume(b, s).buf /\ r.lines = consume(b, s).lines
  <2>1. k \in 0 .. Len(Unread(f, o)) /\ Size(f) \in Nat
    BY <1>1 DEF ReadingOf, Size
  <2>2. Len(Unread(f, o)) = IF o < Size(f) THEN Size(f) - o ELSE 0
    BY UnreadDef
  <2>3. k \in Nat /\ o + k <= Size(f)
    BY <2>1, <2>2
  <2> QED
    BY <1>1, <2>3 DEF ReadingOf
<1>4. c \in Seq(Bytes) /\ Size(f) = Len(c) /\ Len(c) \in Nat
  BY DEF Size
<1>5. Start(f) \in Int
  <2>1. CASE c = <<>>
    BY <2>1 DEF Start
  <2>2. CASE c # <<>>
    <3>1. 1 \in 1 .. Len(c)
      BY <1>4, <2>2
    <3>2. c[1] \in Bytes
      BY <1>4, <3>1
    <3> QED
      BY <2>2, <3>2 DEF Start, Bytes
  <2> QED
    BY <2>1, <2>2
<1>6. \A i \in 1 .. Len(c) : c[i] = Start(f) + i - 1
  BY <1>4 DEF Ordered, Consecutive, Start
<1>x. x = Start(f) + o - Len(b) /\ x \in Int
  BY <1>2, <1>5
<1>b. Consecutive(b, x)
  OBVIOUS
<1> HIDE DEF r, x, c
<1>7. Consecutive(b \o s, x)
  <2> SUFFICES ASSUME NEW i \in 1 .. Len(b \o s) PROVE (b \o s)[i] = x + i - 1
    BY DEF Consecutive
  <2>1. Len(b \o s) = Len(b) + k /\ (b \o s)[i] = IF i <= Len(b) THEN b[i] ELSE s[i - Len(b)]
    <3>1. Len(b \o s) = Len(b) + k
      BY <1>2, <1>3, ConcatProperties
    <3>2. i \in 1 .. Len(b) + Len(s)
      BY <1>3, <3>1
    <3> QED
      BY <1>2, <1>3, <3>1, <3>2, ConcatProperties
  <2>2. CASE i <= Len(b)
    BY <1>2, <1>b, <2>1, <2>2 DEF Consecutive
  <2>3. CASE ~(i <= Len(b))
    <3>0. i \in Int /\ Len(b) < i /\ i <= Len(b) + k
      BY <1>2, <1>3, <2>1, <2>3
    <3>1. i - Len(b) \in 1 .. k /\ o + (i - Len(b)) \in 1 .. Len(c)
      BY <1>2, <1>3, <1>4, <3>0
    <3>2. s[i - Len(b)] = c[o + (i - Len(b))]
      BY <1>3, <3>1
    <3>3. c[o + (i - Len(b))] = Start(f) + (o + (i - Len(b))) - 1
      BY <1>6, <3>1
    <3> QED
      BY <1>2, <1>5, <1>x, <2>1, <2>3, <3>0, <3>2, <3>3
  <2> QED
    BY <2>2, <2>3
<1> DEFINE t == b \o s
           y == x + Len(t) - Len(r.buf)
<1>8. Contiguous(r.lines, x, y) /\ Consecutive(r.buf, y) /\ Len(r.buf) \in 0 .. Len(t)
  BY <1>2, <1>3, <1>7, <1>x, ConsumeContiguous
<1>9. Len(t) = Len(b) + k
  BY <1>2, <1>3, ConcatProperties
<1> HIDE DEF t
<1>10. y = Start(f) + r.offset - Len(r.buf) /\ Len(r.buf) <= r.offset
  <2>1. Len(r.buf) \in Int /\ Len(r.buf) <= Len(b) + k
    BY <1>2, <1>3, <1>8, <1>9
  <2>2. r.offset = o + k /\ Len(b) \in Nat /\ k \in Nat
    BY <1>2, <1>3
  <2>3. y = Start(f) + r.offset - Len(r.buf)
    <3>1. \A u, v \in Int : (u + o - Len(b)) + (Len(b) + k) - v = u + (o + k) - v
      BY <2>2
    <3>2. y = (Start(f) + o - Len(b)) + (Len(b) + k) - Len(r.buf)
      BY <1>9, <1>x
    <3> QED
      BY <1>5, <2>1, <2>2, <3>1, <3>2
  <2>4. Len(r.buf) <= r.offset
    BY <2>1, <2>2
  <2> QED
    BY <2>3, <2>4
<1>11. o <= r.offset /\ r.offset <= Size(f)
  BY <1>3
<1> HIDE DEF y
<1> QED
  BY <1>8, <1>10, <1>11, <1>x DEF ReadingNext, r

(***************************************************************************)
(* The types.                                                              *)
(***************************************************************************)

StreamTypes == TypeOK /\ SizesInv

LEMMA InitTypes ==
    ASSUME Init PROVE StreamTypes
<1>1. <<>> \in Seq(Bytes) /\ <<1, 2, 3>> \in Seq(Bytes) /\ <<>> \in Seq(Bytes \ Ends)
      /\ <<>> \in Seq(Seq(Bytes))
  BY LogStreamAssumption DEF Bytes
<1>2. content \in [Files -> {<<>>, <<1, 2, 3>>}]
  BY DEF Init
<1>3. content \in [Files -> Seq(Bytes)]
  BY <1>1, <1>2
<1>4. ASSUME NEW f \in Files PROVE Len(content[f]) <= written
  <2>1. content[f] \in {<<>>, <<1, 2, 3>>} /\ written = 3
    BY <1>2 DEF Init
  <2>2. Len(<<>>) = 0 /\ Len(<<1, 2, 3>>) = 3
    OBVIOUS
  <2>3. CASE content[f] = <<>>
    BY <2>1, <2>2, <2>3
  <2>4. CASE content[f] = <<1, 2, 3>>
    BY <2>1, <2>2, <2>4
  <2> QED
    BY <2>1, <2>3, <2>4
<1>5. NoInfo \in [file : 0 .. MaxFiles, size : 0 .. MaxBytes, current : 0 .. MaxBytes]
  BY LogStreamAssumption DEF NoInfo
<1>6. 1 \in 0 .. MaxFiles /\ 0 \in 0 .. MaxFiles /\ 3 \in 0 .. MaxBytes /\ 0 \in 0 .. MaxBytes
      /\ 0 \in 0 .. Truncations /\ 0 \in 0 .. MaxBytes + 1 /\ Len(<<>>) <= SampleSize
  BY LogStreamAssumption
<1>7. TypeOK
  BY <1>1, <1>3, <1>5, <1>6 DEF Init, TypeOK
<1>8. SizesInv
  BY <1>4 DEF Init, SizesInv, Size
<1> QED
  BY <1>7, <1>8 DEF StreamTypes

LEMMA FileTypes ==
    ASSUME StreamTypes, NEW f \in Files
    PROVE  /\ content[f] \in Seq(Bytes) /\ Size(f) \in 0 .. written /\ Size(f) \in 0 .. MaxBytes
           /\ f \in Nat /\ f # 0
<1>1. content[f] \in Seq(Bytes) /\ written \in 0 .. MaxBytes /\ Size(f) <= written
  BY DEF StreamTypes, TypeOK, SizesInv
<1> QED
  BY <1>1, LogStreamAssumption DEF Size, Files

LEMMA PathTypes ==
    ASSUME StreamTypes
    PROVE  /\ path # 0 => path \in Files
           /\ file # 0 => file \in Files
  BY LogStreamAssumption DEF StreamTypes, TypeOK, Files

LEMMA WriterTypes ==
    ASSUME StreamTypes, Writer PROVE StreamTypes'
<1> USE DEF StreamTypes
<1>0. written \in Nat /\ MaxBytes \in Nat /\ \A f \in Files : content[f] \in Seq(Bytes)
  BY LogStreamAssumption DEF TypeOK
<1>1. CASE Append1
  <2>1. wfile \in Files /\ written + 1 \in Bytes /\ written + 1 \in 0 .. MaxBytes
    BY <1>0, <1>1, PathTypes DEF Append1, TypeOK, Bytes
  <2>2. Append(content[wfile], written + 1) \in Seq(Bytes)
    BY <1>0, <2>1
  <2>3. content' \in [Files -> Seq(Bytes)]
    BY <1>1, <2>2 DEF Append1, TypeOK
  <2>4. TypeOK'
    BY <1>1, <2>1, <2>3 DEF Append1, TypeOK, source, poll
  <2>5. ASSUME NEW f \in Files PROVE Len(content'[f]) <= written'
    <3>1. Len(content[f]) \in Nat /\ Len(content[f]) <= written
      BY <1>0 DEF SizesInv, Size
    <3>2. content'[f] = IF f = wfile THEN Append(content[f], written + 1) ELSE content[f]
      BY <1>1 DEF Append1, TypeOK
    <3>3. Len(content'[f]) <= Len(content[f]) + 1
      BY <1>0, <3>1, <3>2
    <3>4. Len(content'[f]) \in Nat /\ written' = written + 1
      BY <1>1, <2>3 DEF Append1
    <3> QED
      BY <1>0, <3>1, <3>3, <3>4
  <2>6. SizesInv'
    BY <1>1, <2>5 DEF Append1, SizesInv, Size, source, poll
  <2> QED
    BY <2>4, <2>6
<1>2. CASE rotateLog
  <2>1. 0 \in 0 .. MaxFiles
    BY LogStreamAssumption
  <2> QED
    BY <1>2, <2>1 DEF rotateLog, TypeOK, SizesInv, Size, source, poll
<1>3. CASE openLogFile
  <2>1. path' \in Files /\ wfile' = path'
    BY <1>3 DEF openLogFile
  <2>2. path' \in 0 .. MaxFiles
    BY <2>1 DEF Files
  <2> QED
    BY <1>3, <2>1, <2>2 DEF openLogFile, TypeOK, SizesInv, Size, source, poll
<1>4. CASE Truncate
  <2>1. path \in Files /\ written + 1 \in 0 .. MaxBytes /\ truncated + 1 \in 0 .. Truncations
    BY <1>0, <1>4, PathTypes, LogStreamAssumption DEF Truncate, TypeOK
  <2>2. content' \in [Files -> Seq(Bytes)]
    <3>1. <<>> \in Seq(Bytes)
      OBVIOUS
    <3> QED
      BY <1>4, <3>1 DEF Truncate, TypeOK
  <2>3. TypeOK'
    BY <1>4, <2>1, <2>2 DEF Truncate, TypeOK, source, poll
  <2>4. ASSUME NEW f \in Files PROVE Len(content'[f]) <= written'
    <3>1. Len(content[f]) \in Nat /\ Len(content[f]) <= written
      BY <1>0 DEF SizesInv, Size
    <3>2. content'[f] = IF f = path THEN <<>> ELSE content[f]
      BY <1>4 DEF Truncate, TypeOK
    <3>3. written' = written + 1
      BY <1>4 DEF Truncate
    <3> QED
      BY <1>0, <3>1, <3>2, <3>3
  <2>5. SizesInv'
    BY <1>4, <2>4 DEF Truncate, SizesInv, Size, source, poll
  <2> QED
    BY <2>3, <2>5
<1> QED
  BY <1>1, <1>2, <1>3, <1>4 DEF Writer

LEMMA ReadOnTypes ==
    ASSUME StreamTypes, file \in Files, NEW o \in 0 .. MaxBytes, NEW b \in Seq(Bytes \ Ends),
           ReadOn(file, o, b)
    PROVE  /\ offset' \in 0 .. MaxBytes /\ buf' \in Seq(Bytes \ Ends)
           /\ lines' \in Seq(Seq(Bytes))
<1>1. PICK r : r = readAvailable(file, o, b) /\ Reading(r)
  BY DEF ReadOn
<1>2. o \in Nat /\ content[file] \in Seq(Bytes) /\ Size(file) \in 0 .. MaxBytes
  BY FileTypes
<1>3. ReadingType(file, o, r)
  BY <1>1, <1>2, ReadingTypes
<1>4. lines \in Seq(Seq(Bytes)) /\ MaxBytes \in Nat
  BY LogStreamAssumption DEF StreamTypes, TypeOK
<1>5. r.offset \in 0 .. MaxBytes
  BY <1>2, <1>3, <1>4 DEF ReadingType
<1>6. lines \o r.lines \in Seq(Seq(Bytes))
  BY <1>3, <1>4, ConcatProperties DEF ReadingType
<1> QED
  BY <1>1, <1>3, <1>5, <1>6 DEF Reading, ReadingType

LEMMA BeginningType ==
    ASSUME NEW s \in Seq(Bytes), NEW n \in Nat
    PROVE  /\ Beginning(s, n) \in Seq(Bytes)
           /\ Len(Beginning(s, n)) = IF n < Len(s) THEN n ELSE Len(s)
           /\ \A i \in 1 .. Len(Beginning(s, n)) : Beginning(s, n)[i] = s[i]
<1> DEFINE k == IF n < Len(s) THEN n ELSE Len(s)
<1>1. k \in Nat /\ k <= Len(s) /\ \A i \in 1 .. Len(s) : s[i] \in Bytes
  OBVIOUS
<1>2. Beginning(s, n) = SubSeq(s, 1, k)
  BY DEF Beginning
<1>k. k = IF n < Len(s) THEN n ELSE Len(s)
  OBVIOUS
<1> HIDE DEF k
<1>3. \A i \in 1 .. k : s[i] \in Bytes /\ 1 + i - 1 = i
  BY <1>1
<1>4. /\ SubSeq(s, 1, k) \in Seq(Bytes)
      /\ Len(SubSeq(s, 1, k)) = IF 1 <= k THEN k - 1 + 1 ELSE 0
      /\ \A i \in 1 .. k - 1 + 1 : SubSeq(s, 1, k)[i] = s[1 + i - 1]
  BY <1>1, <1>3, SubSeqProperties
<1>5. Len(SubSeq(s, 1, k)) = k /\ k - 1 + 1 = k
  BY <1>1, <1>4
<1> QED
  BY <1>2, <1>3, <1>4, <1>5, <1>k

LEMMA PollTypes ==
    ASSUME StreamTypes, pollStep PROVE StreamTypes'
<1>0. /\ MaxBytes \in Nat /\ 0 \in 0 .. MaxBytes /\ 0 \in 0 .. MaxFiles
      /\ <<>> \in Seq(Bytes \ Ends) /\ <<>> \in Seq(Seq(Bytes)) /\ <<>> \in Seq(Bytes)
  BY LogStreamAssumption
<1>t. TypeOK /\ SizesInv
  BY DEF StreamTypes
<1>1. CASE StatPath
  <2>1. file \in Files
    BY <1>1, <1>t, PathTypes DEF StatPath, SizesInv
  <2>2. CASE path = 0
    <3>1. offset' \in 0 .. MaxBytes /\ buf' \in Seq(Bytes \ Ends) /\ lines' \in Seq(Seq(Bytes))
      BY <1>1, <1>t, <2>1, <2>2, ReadOnTypes DEF StatPath, TypeOK
    <3> QED
      BY <1>1, <1>t, <2>2, <3>1 DEF StatPath, StreamTypes, TypeOK, SizesInv, Size, Go, files
  <2>3. CASE path # 0
    <3>1. path \in Files /\ Size(path) \in 0 .. MaxBytes
      BY <2>3, FileTypes, PathTypes
    <3>2. info' \in [file : 0 .. MaxFiles, size : 0 .. MaxBytes, current : 0 .. MaxBytes]
      BY <1>0, <1>1, <1>t, <2>3, <3>1 DEF StatPath, NoInfo, TypeOK
    <3> QED
      BY <1>1, <1>t, <2>1, <2>3, <3>2 DEF StatPath, StreamTypes, TypeOK, SizesInv, Size, Go, files
  <2> QED
    BY <2>2, <2>3
<1>2. CASE StatFile
  <2>1. file \in Files /\ Size(file) \in 0 .. MaxBytes
    BY <1>2, <1>t, PathTypes, FileTypes DEF StatFile, SizesInv
  <2>2. info' \in [file : 0 .. MaxFiles, size : 0 .. MaxBytes, current : 0 .. MaxBytes]
    BY <1>2, <1>t, <2>1 DEF StatFile, TypeOK
  <2> QED
    BY <1>2, <1>t, <2>1, <2>2
       DEF StatFile, StreamTypes, TypeOK, SizesInv, Size, Go, files, source
<1>3. CASE CheckPrefix
  BY <1>0, <1>3, <1>t DEF CheckPrefix, StreamTypes, TypeOK, SizesInv, Size, Go, files
<1>4. CASE Read
  <2>1. file \in Files
    BY <1>4, <1>t, PathTypes DEF Read, SizesInv
  <2>2. offset' \in 0 .. MaxBytes /\ buf' \in Seq(Bytes \ Ends) /\ lines' \in Seq(Seq(Bytes))
    BY <1>0, <1>4, <1>t, <2>1, ReadOnTypes DEF Read, TypeOK
  <2> QED
    BY <1>4, <1>t, <2>1, <2>2 DEF Read, StreamTypes, TypeOK, SizesInv, Size, Go, files
<1>5. CASE Drain
  <2> DEFINE r == readAvailable(file, offset, buf)
             left == IF r.buf = <<>> THEN <<>> ELSE <<r.buf>>
  <2>1. file \in Files /\ content[file] \in Seq(Bytes) /\ Size(file) \in 0 .. MaxBytes
    BY <1>5, <1>t, PathTypes, FileTypes DEF Drain, SizesInv
  <2>2. offset \in Nat /\ offset \in 0 .. MaxBytes /\ buf \in Seq(Bytes \ Ends)
    BY <1>t DEF TypeOK
  <2>3. ReadingType(file, offset, r)
    BY <2>1, <2>2, ReadingTypes
  <2>4. lines \in Seq(Seq(Bytes))
    BY <1>t DEF TypeOK
  <2>d. /\ at = "drain"
        /\ \/ /\ lines' = lines \o r.lines \o left
              /\ offset' = 0 /\ buf' = <<>> /\ prefix' = <<>> /\ file' = 0 /\ stableEOF' = 0
              /\ Go("open")
           \/ /\ Reading(r) /\ stableEOF' \in {0, 1} /\ Go("respond")
              /\ UNCHANGED <<file, prefix>>
        /\ UNCHANGED <<files, info, delivered, from>>
    BY <1>5 DEF Drain
  <2> HIDE DEF r
  <2>5. r.offset \in 0 .. MaxBytes /\ r.buf \in Seq(Bytes) /\ r.lines \in Seq(Seq(Bytes))
    <3>1. r.buf \in Seq(Bytes)
      BY <2>3, SeqMonotonic DEF ReadingType
    <3> QED
      BY <1>0, <2>1, <2>2, <2>3, <3>1 DEF ReadingType
  <2>6. left \in Seq(Seq(Bytes))
    BY <1>0, <2>5
  <2>7. lines \o r.lines \in Seq(Seq(Bytes)) /\ lines \o r.lines \o left \in Seq(Seq(Bytes))
    <3>1. lines \o r.lines \in Seq(Seq(Bytes))
      BY <2>4, <2>5, ConcatProperties
    <3> QED
      BY <2>6, <3>1, ConcatProperties
  <2> HIDE DEF left
  <2>8. CASE Reading(r) /\ stableEOF' \in {0, 1} /\ Go("respond") /\ UNCHANGED <<file, prefix>>
    <3>1. r.buf \in Seq(Bytes \ Ends)
      BY <2>3 DEF ReadingType
    <3>2. offset' = r.offset /\ buf' = r.buf /\ lines' = lines \o r.lines
      BY <2>8 DEF Reading
    <3>3. stableEOF' \in 0 .. 1
      BY <2>8
    <3> QED
      BY <1>t, <2>1, <2>5, <2>7, <2>8, <2>d, <3>1, <3>2, <3>3
         DEF StreamTypes, TypeOK, SizesInv, Size, Go, files
  <2>9. CASE /\ lines' = lines \o r.lines \o left
             /\ offset' = 0 /\ buf' = <<>> /\ prefix' = <<>> /\ file' = 0 /\ stableEOF' = 0
             /\ Go("open")
    <3>1. Len(<<>>) <= SampleSize
      BY LogStreamAssumption
    <3> QED
      BY <1>0, <1>t, <2>7, <2>9, <2>d, <3>1 DEF StreamTypes, TypeOK, SizesInv, Size, Go, files
  <2> QED
    BY <2>d, <2>8, <2>9
<1>6. CASE Open
  <2>1. CASE path = 0
    BY <1>6, <1>t, <2>1 DEF Open, StreamTypes, TypeOK, SizesInv, Size, Go, files, source
  <2>2. CASE path # 0
    <3> DEFINE start == IF initial THEN reverseTailStart(content[path], TailLines) ELSE 0
    <3>1. path \in Files /\ content[path] \in Seq(Bytes) /\ Size(path) \in 0 .. MaxBytes
          /\ path # 0
      BY <2>2, FileTypes, PathTypes
    <3>2. start \in 0 .. Size(path)
      <4>1. reverseTailStart(content[path], TailLines) \in 0 .. Len(content[path])
        BY <3>1, TailStartType, LogStreamAssumption
      <4> QED
        BY <3>1, <4>1 DEF Size
    <3>3. from' \in 0 .. MaxBytes + 1
      <4>1. start < Size(path) => content[path][start + 1] \in Bytes
        BY <3>1, <3>2 DEF Size
      <4>2. from' = IF from # 0 THEN from
                    ELSE IF start < Size(path) THEN content[path][start + 1] ELSE written + 1
        BY <1>6, <2>2 DEF Open
      <4> HIDE DEF start
      <4>3. written + 1 \in 0 .. MaxBytes + 1 /\ from \in 0 .. MaxBytes + 1
            /\ Bytes \subseteq 0 .. MaxBytes + 1
        BY <1>0, <1>t DEF TypeOK, Bytes
      <4> QED
        BY <4>1, <4>2, <4>3
    <3>4. prefix' \in Seq(Bytes) /\ Len(prefix') <= SampleSize
      <4>1. prefix' = Beginning(content[path], SampleSize)
        BY <1>6, <2>2 DEF Open
      <4>2. SampleSize \in Nat
        BY LogStreamAssumption
      <4> QED
        BY <3>1, <4>1, <4>2, BeginningType
    <3>5. info' \in [file : 0 .. MaxFiles, size : 0 .. MaxBytes, current : 0 .. MaxBytes]
      BY <1>0, <1>6, <2>2, <3>1 DEF Open, NoInfo
    <3>6. file' = path /\ stableEOF' = 0 /\ buf' = <<>> /\ offset' = 0 /\ Go("first")
          /\ UNCHANGED <<files, lines, delivered>>
      BY <1>6, <2>2 DEF Open
    <3> HIDE DEF start
    <3> QED
      BY <1>0, <1>t, <2>2, <3>3, <3>4, <3>5, <3>6
         DEF StreamTypes, TypeOK, SizesInv, Size, Go, files
  <2> QED
    BY <2>1, <2>2
<1>7. CASE First
  <2>1. file \in Files /\ content[file] \in Seq(Bytes)
    BY <1>7, <1>t, PathTypes, FileTypes DEF First, SizesInv
  <2>2. offset' \in 0 .. MaxBytes /\ buf' \in Seq(Bytes \ Ends) /\ lines' \in Seq(Seq(Bytes))
    <3>1. CASE initial
      <4> DEFINE s == Beginning(content[file], info.current)
                 k == reverseTailStart(s, TailLines)
                 u == SubSeq(s, k + 1, Len(s))
                 c == consume(<<>>, u)
                 left == IF c.buf = <<>> THEN <<>> ELSE <<c.buf>>
      <4>1. info.current \in 0 .. MaxBytes /\ info.current \in Nat
        BY <1>t DEF TypeOK
      <4>2. s \in Seq(Bytes)
        BY <2>1, <4>1, BeginningType
      <4>e. lines' = c.lines \o left /\ offset' = info.current /\ buf' = buf
        BY <1>7, <3>1 DEF First
      <4> HIDE DEF s
      <4>3. k \in 0 .. Len(s)
        BY <4>2, TailStartType, LogStreamAssumption
      <4> HIDE DEF k
      <4>4. k + 1 \in Int /\ Len(s) \in Int /\ \A i \in (k + 1) .. Len(s) : s[i] \in Bytes
        BY <4>2, <4>3
      <4>5. u \in Seq(Bytes)
        BY <4>4, SubSeqProperties
      <4> HIDE DEF u
      <4>6. c.lines \in Seq(Seq(Bytes)) /\ c.buf \in Seq(Bytes \ Ends)
        BY <1>0, <4>5, ConsumeDef
      <4> HIDE DEF c
      <4>7. c.buf \in Seq(Bytes)
        BY <4>6, SeqMonotonic
      <4>8. left \in Seq(Seq(Bytes))
        BY <1>0, <4>7
      <4> HIDE DEF left
      <4>9. c.lines \o left \in Seq(Seq(Bytes))
        BY <4>6, <4>8, ConcatProperties
      <4> QED
        BY <1>t, <4>1, <4>9, <4>e DEF TypeOK
    <3>2. CASE ~initial
      <4>1. ReadOn(file, 0, <<>>)
        BY <1>7, <3>2 DEF First
      <4> QED
        BY <1>0, <2>1, <4>1, ReadOnTypes
    <3> QED
      BY <3>1, <3>2
  <2> QED
    BY <1>7, <1>t, <2>1, <2>2 DEF First, StreamTypes, TypeOK, SizesInv, Size, Go, files
<1> QED
  BY <1>1, <1>2, <1>3, <1>4, <1>5, <1>6, <1>7 DEF pollStep

LEMMA RequestTypes ==
    ASSUME StreamTypes, Request PROVE StreamTypes'
  BY DEF Request, StreamTypes, TypeOK, SizesInv, Size, Go, files, source

LEMMA RespondTypes ==
    ASSUME StreamTypes, Respond PROVE StreamTypes'
<1>1. BytesOf(lines) \subseteq Bytes
  <2>1. lines \in Seq(Seq(Bytes))
    BY DEF StreamTypes, TypeOK
  <2>2. ASSUME NEW i \in 1 .. Len(lines) PROVE Range(lines[i]) \subseteq Bytes
    <3>1. lines[i] \in Seq(Bytes)
      BY <2>1
    <3> QED
      BY <3>1 DEF Range
  <2> QED
    BY <2>2, Zenon DEF BytesOf
<1>2. NoInfo \in [file : 0 .. MaxFiles, size : 0 .. MaxBytes, current : 0 .. MaxBytes]
  BY LogStreamAssumption DEF NoInfo
<1>3. <<>> \in Seq(Seq(Bytes))
  OBVIOUS
<1> QED
  BY <1>1, <1>2, <1>3 DEF Respond, StreamTypes, TypeOK, SizesInv, Size, files, source

LEMMA StreamStepTypes ==
    ASSUME StreamTypes, [Next]_vars PROVE StreamTypes'
<1>1. CASE UNCHANGED vars
  BY <1>1 DEF vars, files, source, poll, StreamTypes, TypeOK, SizesInv, Size
<1> QED
  BY <1>1, WriterTypes, PollTypes, RequestTypes, RespondTypes DEF Next

\* The types of both modules, for every value of the constants; a file never
\* holds more bytes than were written.
Types == TailerTypeOK /\ SizesInv

\* Every step of the tailer is one of the stream, or leaves it alone.
LEMMA StreamStep ==
    ASSUME [TailerNext]_tailerVars PROVE [Next]_vars
  BY DEF TailerNext, tailerVars, Write, Poll, run, Ask, Collect, Emit, Close, Leave, Return,
         Take, Interrupt, GiveUp, Next, Writer, pollStep

LEMMA TailerStepTypes ==
    ASSUME Types, [TailerNext]_tailerVars PROVE Types'
<1>1. StreamTypes'
  BY StreamStep, StreamStepTypes DEF Types, TailerTypeOK, StreamTypes
<1>2. TypeOK /\ lines \in Seq(Seq(Bytes)) /\ from \in 0 .. MaxBytes + 1
      /\ written + 1 \in 0 .. MaxBytes + 1 /\ EventBuffer \in Nat
  BY LogStreamAssumption, TailerAssumption DEF Types, TailerTypeOK, TypeOK
<1>3. <<>> \in Seq(Seq(Bytes)) /\ Len(<<>>) = 0
  OBVIOUS
<1> DEFINE Runs == /\ co \in {"ask", "collect", "emit", "closed"}
                   /\ ready \in BOOLEAN
                   /\ pending \in Seq(Seq(Bytes)) /\ (pending # <<>> <=> co = "emit")
                   /\ out \in Seq(Seq(Bytes)) /\ Len(out) <= EventBuffer
           Ended == /\ gone \in BOOLEAN /\ cancelled \in BOOLEAN /\ reading \in BOOLEAN
                    /\ due \in 0 .. MaxBytes + 1
<1>4. Runs /\ Ended
  BY DEF Types, TailerTypeOK
<1>5. Runs' /\ Ended'
  <2>1. CASE Write \/ Poll \/ UNCHANGED tailerVars
    BY <1>4, <2>1 DEF Write, Poll, tailerVars, runVars, ends
  <2>2. CASE Ask
    <3>1. pending = <<>>
      BY <1>4, <2>2 DEF Ask
    <3> QED
      BY <1>4, <2>2, <3>1 DEF Ask, ends
  <2>3. CASE Collect
    BY <1>2, <1>4, <2>3 DEF Collect, ends
  <2>4. CASE Emit
    <3>1. pending # <<>>
      BY <1>4, <2>4 DEF Emit
    <3>2. /\ Head(pending) \in Seq(Bytes) /\ Tail(pending) \in Seq(Seq(Bytes))
          /\ Len(Tail(pending)) = Len(pending) - 1
      BY <1>4, <3>1, HeadTailProperties
    <3>3. Tail(pending) = <<>> <=> Len(pending) = 1
      <4>1. Len(pending) \in Nat
        BY <1>4
      <4>2. Tail(pending) = <<>> <=> Len(Tail(pending)) = 0
        BY <3>2, EmptySeq
      <4> QED
        BY <3>2, <4>1, <4>2
    <3>4. Append(out, Head(pending)) \in Seq(Seq(Bytes))
          /\ Len(Append(out, Head(pending))) = Len(out) + 1
      BY <1>4, <3>2
    <3>5. Len(out) + 1 <= EventBuffer
      BY <1>2, <1>4, <2>4 DEF Emit
    <3> QED
      BY <1>4, <2>4, <3>2, <3>3, <3>4, <3>5 DEF Emit, ends
  <2>5. CASE Close
    BY <1>3, <1>4, <2>5 DEF Close, ends
  <2>6. CASE Leave \/ Interrupt \/ GiveUp
    BY <1>4, <2>6 DEF Leave, Interrupt, GiveUp, runVars
  <2>7. CASE Return
    BY <1>2, <1>4, <2>7 DEF Return, runVars
  <2>8. CASE Take
    <3>1. Tail(out) \in Seq(Seq(Bytes)) /\ Len(Tail(out)) <= Len(out)
      BY <1>4, <2>8 DEF Take
    <3>2. Len(Tail(out)) \in Nat /\ Len(out) \in Nat
      BY <1>4, <3>1
    <3> QED
      BY <1>2, <1>4, <2>8, <3>1, <3>2 DEF Take, ends
  <2> QED
    BY <2>1, <2>2, <2>3, <2>4, <2>5, <2>6, <2>7, <2>8 DEF TailerNext, run
<1> QED
  BY <1>1, <1>5 DEF Types, TailerTypeOK, StreamTypes

LEMMA TailerInitTypes ==
    ASSUME TailerInit PROVE Types
<1>1. StreamTypes
  BY InitTypes DEF TailerInit
<1>2. <<>> \in Seq(Seq(Bytes)) /\ Len(<<>>) = 0 /\ 0 <= EventBuffer /\ 0 \in 0 .. MaxBytes + 1
  BY LogStreamAssumption, TailerAssumption
<1> QED
  BY <1>1, <1>2 DEF TailerInit, Types, TailerTypeOK, StreamTypes

\* The variables keep their types, whatever the writer does between two polls.
THEOREM TailerTypes == TailerSpec => []TailerTypeOK
<1>1. TailerInit => Types
  BY TailerInitTypes
<1>2. Types /\ [TailerNext]_tailerVars => Types'
  BY TailerStepTypes
<1>3. Types => TailerTypeOK
  BY DEF Types
<1> QED
  BY <1>1, <1>2, <1>3, PTL DEF TailerSpec

(***************************************************************************)
(* The files.                                                              *)
(***************************************************************************)

LEMMA StartType ==
    ASSUME StreamTypes, NEW f
    PROVE  Start(f) \in Nat /\ 1 <= Start(f) /\ Start(f) <= MaxBytes + 1
<1>1. written \in 0 .. MaxBytes /\ MaxBytes \in Nat
  BY LogStreamAssumption DEF StreamTypes, TypeOK
<1>2. CASE f \in Files /\ content[f] # <<>>
  <2>1. content[f] \in Seq(Bytes)
    BY <1>2, FileTypes
  <2>2. 1 \in 1 .. Len(content[f])
    BY <1>2, <2>1, EmptySeq
  <2>3. content[f][1] \in Bytes
    BY <2>1, <2>2
  <2>4. Start(f) = content[f][1]
    BY <1>2 DEF Start
  <2> QED
    BY <1>1, <2>3, <2>4 DEF Bytes
<1>3. CASE ~(f \in Files /\ content[f] # <<>>)
  <2>1. Start(f) = written + 1
    BY <1>3 DEF Start
  <2> QED
    BY <1>1, <2>1
<1> QED
  BY <1>2, <1>3

\* How the writer's append changes a file.
LEMMA Appended ==
    ASSUME StreamTypes, FilesInv, Append1
    PROVE  /\ path \in Files /\ path # 0 /\ path' = path /\ wfile' = wfile
           /\ written \in Nat /\ written' = written + 1 /\ truncated' = truncated
           /\ \A f \in Files : f # path => content'[f] = content[f]
           /\ content'[path] = Append(content[path], written + 1)
           /\ Size(path)' = Size(path) + 1 /\ Size(path) \in Nat
           /\ content'[path] # <<>>
           /\ Start(path)' = Start(path)
           /\ \A f \in Files : f # path /\ content[f] # <<>> => Start(f)' = Start(f)
<1>1. /\ path \in Files /\ path # 0 /\ path' = path /\ wfile' = wfile /\ truncated' = truncated
      /\ written \in Nat /\ written' = written + 1
  BY PathTypes DEF Append1, FilesInv, StreamTypes, TypeOK
<1>2. content \in [Files -> Seq(Bytes)] /\ wfile = path
  BY DEF StreamTypes, TypeOK, FilesInv
<1>3. \A f \in Files : content'[f] = IF f = path THEN Append(content[f], written + 1) ELSE content[f]
  BY <1>2 DEF Append1
<1>4. content'[path] = Append(content[path], written + 1)
  BY <1>1, <1>3
<1>5. content[path] \in Seq(Bytes) /\ Len(content[path]) \in Nat
  BY <1>1, <1>2
<1>6. /\ Len(content'[path]) = Len(content[path]) + 1 /\ content'[path] # <<>>
      /\ content'[path][1] = IF content[path] = <<>> THEN written + 1 ELSE content[path][1]
  <2> DEFINE c == content[path]
  <2>1. Len(Append(c, written + 1)) = Len(c) + 1
    BY <1>5
  <2>2. CASE c = <<>>
    <3>1. Append(<<>>, written + 1) = <<written + 1>>
      OBVIOUS
    <3> QED
      BY <1>4, <2>1, <2>2, <3>1
  <2>3. CASE c # <<>>
    <3>1. 1 \in 1 .. Len(c)
      BY <1>5, <2>3, EmptySeq
    <3>2. Append(c, written + 1)[1] = c[1] /\ Append(c, written + 1) # <<>>
      BY <1>5, <2>1, <3>1
    <3> QED
      BY <1>4, <2>1, <2>3, <3>2
  <2> QED
    BY <2>2, <2>3
<1>7. Start(path)' = Start(path)
  <2>1. Start(path)' = content'[path][1]
    BY <1>1, <1>6 DEF Start
  <2> QED
    BY <1>1, <1>6, <2>1 DEF Start
<1>8. \A f \in Files : f # path /\ content[f] # <<>> => Start(f)' = Start(f)
  BY <1>3 DEF Start
<1>9. Size(path)' = Size(path) + 1 /\ Size(path) \in Nat
  BY <1>1, <1>5, <1>6 DEF Size
<1> QED
  BY <1>1, <1>3, <1>4, <1>6, <1>7, <1>8, <1>9

LEMMA AppendFiles ==
    ASSUME StreamTypes, FilesInv, Append1 PROVE FilesInv'
<1>a. /\ path \in Files /\ path # 0 /\ path' = path /\ wfile' = wfile
      /\ written \in Nat /\ written' = written + 1 /\ truncated' = truncated
      /\ \A f \in Files : f # path => content'[f] = content[f]
      /\ content'[path] = Append(content[path], written + 1)
      /\ Size(path)' = Size(path) + 1 /\ Size(path) \in Nat
      /\ content'[path] # <<>>
      /\ Start(path)' = Start(path)
      /\ \A f \in Files : f # path /\ content[f] # <<>> => Start(f)' = Start(f)
  BY Appended
<1>f. /\ wfile = path
      /\ \A f \in Files : content[f] # <<>> => Consecutive(content[f], content[f][1])
      /\ Start(path) + Size(path) = written + 1
      /\ \A f \in Files : (f > path => content[f] = <<>>) /\ (f < path => content[f] # <<>>)
      /\ truncated = 0 => \A f \in Files : content[f] # <<>> => Start(f) + Size(f) = Start(f + 1)
  BY <1>a DEF FilesInv
<1>1. Consecutive(content'[path], content'[path][1])
  <2> DEFINE c == content[path]
             d == content'[path]
  <2>1. c \in Seq(Bytes) /\ Len(c) \in Nat /\ Start(path) \in Nat
    BY <1>a, FileTypes, StartType
  <2>2. Len(d) = Len(c) + 1 /\ d[Len(c) + 1] = written + 1 /\ \A i \in 1 .. Len(c) : d[i] = c[i]
    BY <1>a, <2>1
  <2>3. d[1] = Start(path)
    BY <1>a DEF Start
  <2>4. ASSUME NEW i \in 1 .. Len(c) PROVE c[i] = Start(path) + i - 1
    <3>1. c # <<>>
      BY <2>1, EmptySeq
    <3> QED
      BY <1>a, <1>f, <3>1 DEF Start, Consecutive
  <2>5. Len(c) = Size(path)
    BY DEF Size
  <2> HIDE DEF c, d
  <2>6. ASSUME NEW i \in 1 .. Len(d) PROVE d[i] = d[1] + i - 1
    <3>1. CASE i \in 1 .. Len(c)
      BY <2>2, <2>3, <2>4, <3>1
    <3>2. CASE i = Len(c) + 1
      BY <1>f, <2>1, <2>2, <2>3, <2>5, <3>2
    <3> QED
      BY <2>1, <2>2, <3>1, <3>2
  <2> QED
    BY <2>6 DEF Consecutive, d
<1>2. \A f \in Files : content'[f] # <<>> => Consecutive(content'[f], content'[f][1])
  BY <1>1, <1>a, <1>f
<1>3. Start(path)' + Size(path)' = written' + 1
  <2>1. Start(path) \in Nat
    BY StartType
  <2> QED
    BY <1>a, <1>f, <2>1
<1>4. \A f \in Files : (f > path' => content'[f] = <<>>) /\ (f < path' => content'[f] # <<>>)
  <2> TAKE f \in Files
  <2>1. f \in Int /\ path \in Int
    BY <1>a DEF Files
  <2>2. f > path \/ f < path => f # path
    BY <2>1
  <2> QED
    BY <1>a, <1>f, <2>2
<1>5. ASSUME truncated = 0, NEW f \in Files, content'[f] # <<>>
      PROVE  Start(f)' + Size(f)' = Start(f + 1)'
  <2>0. f \in Int /\ path \in Int
    BY <1>a DEF Files
  <2>1. CASE f = path
    <3>1. f + 1 \in Files => content'[f + 1] = <<>>
      <4>1. f + 1 > path
        BY <2>0, <2>1
      <4> QED
        BY <1>4, <1>a, <4>1
    <3>2. Start(f + 1)' = written' + 1
      BY <3>1 DEF Start
    <3>3. Start(f)' = Start(path)' /\ Size(f)' = Size(path)'
      BY <1>a, <2>1 DEF Start, Size
    <3> QED
      BY <1>3, <3>2, <3>3
  <2>2. CASE f # path
    <3>1. content[f] # <<>> /\ content'[f] = content[f] /\ Start(f)' = Start(f)
      BY <1>5, <1>a, <2>2
    <3>2. Start(f) + Size(f) = Start(f + 1) /\ Size(f)' = Size(f)
      BY <1>5, <1>f, <3>1 DEF Size
    <3>3. f < path
      BY <1>f, <2>0, <2>2, <3>1
    <3>4. Start(f + 1)' = Start(f + 1)
      <4>1. CASE f + 1 = path
        BY <1>a, <4>1
      <4>2. CASE f + 1 # path
        <5>1. f + 1 < path /\ f + 1 \in Files
          BY <2>0, <3>3, <4>2, <1>a, LogStreamAssumption DEF Files
        <5> QED
          BY <1>a, <1>f, <4>2, <5>1
      <4> QED
        BY <4>1, <4>2
    <3> QED
      BY <3>1, <3>2, <3>4
  <2> QED
    BY <2>1, <2>2
<1> QED
  BY <1>2, <1>3, <1>4, <1>5, <1>a, <1>f DEF FilesInv

LEMMA RotateFiles ==
    ASSUME StreamTypes, FilesInv, rotateLog PROVE FilesInv'
<1>1. /\ path # 0 /\ path \in Files /\ path' = 0 /\ wfile' = 0
      /\ content' = content /\ written' = written /\ truncated' = truncated
      /\ Size(path) >= RotateSize
  BY PathTypes DEF rotateLog, FilesInv
<1>2. \A f : Start(f)' = Start(f) /\ Size(f)' = Size(f)
  BY <1>1 DEF Start, Size
<1>3. content[path] # <<>>
  <2>1. Len(content[path]) >= RotateSize /\ RotateSize \in Nat /\ RotateSize # 0
    BY <1>1, LogStreamAssumption DEF Size
  <2> QED
    BY <2>1
<1>4. ASSUME NEW f \in Files, NEW g \in Files, f < g, content[g] # <<>> PROVE content[f] # <<>>
  <2>1. f \in Int /\ g \in Int /\ path \in Int
    BY <1>1 DEF Files
  <2>2. ~(g > path)
    BY <1>1, <1>4 DEF FilesInv
  <2>3. f < path
    BY <1>4, <2>1, <2>2
  <2> QED
    BY <1>1, <2>3 DEF FilesInv
<1> QED
  BY <1>1, <1>2, <1>4 DEF FilesInv

LEMMA OpenFiles ==
    ASSUME StreamTypes, FilesInv, openLogFile
    PROVE  /\ FilesInv'
           /\ path = 0 /\ path' \in Files /\ content[path'] = <<>>
           /\ \A g \in Files : content[g] = <<>> => path' <= g
<1>1. /\ path = 0 /\ path' \in Files /\ content[path'] = <<>> /\ wfile' = path'
      /\ \A g \in Files : content[g] = <<>> => path' <= g
      /\ content' = content /\ written' = written /\ truncated' = truncated
  BY DEF openLogFile, FilesInv
<1>2. \A f : Start(f)' = Start(f) /\ Size(f)' = Size(f)
  BY <1>1 DEF Start, Size
<1>3. Start(path') = written + 1 /\ Size(path') = 0 /\ path' # 0 /\ written \in Nat
  BY <1>1 DEF Start, Size, Files, StreamTypes, TypeOK
<1>4. ASSUME NEW f \in Files
      PROVE  (f > path' => content[f] = <<>>) /\ (f < path' => content[f] # <<>>)
  <2>1. f \in Int /\ path' \in Int
    BY <1>1 DEF Files
  <2>2. f > path' => content[f] = <<>>
    <3>1. f > path' => path' < f
      BY <2>1
    <3> QED
      BY <1>1, <3>1 DEF FilesInv
  <2>3. f < path' => content[f] # <<>>
    <3>1. f < path' => ~(path' <= f)
      BY <2>1
    <3> QED
      BY <1>1, <3>1
  <2> QED
    BY <2>2, <2>3
<1>6. Start(path)' + Size(path)' = written' + 1
  <2>1. Start(path)' = written + 1 /\ Size(path)' = 0
    BY <1>1, <1>3 DEF Start, Size
  <2> QED
    BY <1>1, <1>3, <2>1
<1>7. FilesInv'
  BY <1>1, <1>2, <1>3, <1>4, <1>6 DEF FilesInv
<1> QED
  BY <1>1, <1>7

LEMMA TruncateFiles ==
    ASSUME StreamTypes, FilesInv, Truncate
    PROVE  /\ FilesInv'
           /\ path \in Files /\ path' = path /\ truncated' = truncated + 1 /\ truncated \in Nat
           /\ Start(path)' = written + 2 /\ written \in Nat
           /\ content'[path] = <<>>
<1>1. /\ path # 0 /\ path \in Files /\ path' = path /\ wfile' = wfile /\ written' = written + 1
      /\ written \in Nat /\ truncated' = truncated + 1 /\ truncated \in Nat
  BY PathTypes DEF Truncate, StreamTypes, TypeOK
<1>2. \A f \in Files : content'[f] = IF f = path THEN <<>> ELSE content[f]
  BY DEF Truncate, StreamTypes, TypeOK
<1>3. content'[path] = <<>> /\ Start(path)' = written + 2
  <2>1. content'[path] = <<>>
    BY <1>1, <1>2
  <2>2. Start(path)' = written' + 1
    BY <1>1, <2>1 DEF Start
  <2> QED
    BY <1>1, <2>1, <2>2
<1>4. Size(path)' = 0
  BY <1>1, <1>3 DEF Size
<1>5. ASSUME NEW f \in Files
      PROVE  (f > path => content'[f] = <<>>) /\ (f < path => content'[f] # <<>>)
  <2>1. f \in Int /\ path \in Int
    BY <1>1 DEF Files
  <2>2. f < path => f # path
    BY <2>1
  <2> QED
    BY <1>1, <1>2, <2>2 DEF FilesInv
<1>6. \A f \in Files : content'[f] # <<>> => Consecutive(content'[f], content'[f][1])
  BY <1>2 DEF FilesInv
<1>7. truncated' # 0
  BY <1>1
<1>8. Start(path)' + Size(path)' = written' + 1
  BY <1>1, <1>3, <1>4
<1>9. FilesInv'
  BY <1>1, <1>5, <1>6, <1>7, <1>8 DEF FilesInv
<1> QED
  BY <1>1, <1>3, <1>9

(***************************************************************************)
(* The follower beside the writer.                                         *)
(***************************************************************************)

Kept == StreamTypes /\ FilesInv /\ FollowInv /\ PrefixInv /\ LinesInv

\* The prefix is how the file began.
LEMMA PrefixIff ==
    ASSUME NEW s \in Seq(Bytes), NEW p \in Seq(Bytes)
    PROVE  Beginning(s, Len(p)) = p <=>
              Len(p) <= Len(s) /\ \A i \in 1 .. Len(p) : s[i] = p[i]
<1> DEFINE b == Beginning(s, Len(p))
<1>1. /\ b \in Seq(Bytes) /\ Len(b) = IF Len(p) < Len(s) THEN Len(p) ELSE Len(s)
      /\ \A i \in 1 .. Len(b) : b[i] = s[i]
  BY BeginningType
<1>2. Len(p) \in Nat /\ Len(s) \in Nat
  OBVIOUS
<1> HIDE DEF b
<1>3. ASSUME b = p PROVE Len(p) <= Len(s) /\ \A i \in 1 .. Len(p) : s[i] = p[i]
  BY <1>1, <1>2, <1>3
<1>4. ASSUME Len(p) <= Len(s), \A i \in 1 .. Len(p) : s[i] = p[i] PROVE b = p
  <2>1. Len(b) = Len(p)
    BY <1>1, <1>2, <1>4
  <2>2. \A i \in 1 .. Len(b) : b[i] = p[i]
    BY <1>1, <1>4, <2>1
  <2> QED
    BY <1>1, <2>1, <2>2, SeqEqual
<1> QED
  BY <1>3, <1>4 DEF b

LEMMA BeginningSame ==
    ASSUME NEW s \in Seq(Bytes), NEW t \in Seq(Bytes), NEW n \in Nat,
           n <= Len(s), n <= Len(t), \A i \in 1 .. n : s[i] = t[i]
    PROVE  Beginning(s, n) = Beginning(t, n) /\ Len(Beginning(s, n)) = n
<1> DEFINE b == Beginning(s, n)
           c == Beginning(t, n)
<1>1. /\ b \in Seq(Bytes) /\ Len(b) = IF n < Len(s) THEN n ELSE Len(s)
      /\ \A i \in 1 .. Len(b) : b[i] = s[i]
      /\ c \in Seq(Bytes) /\ Len(c) = IF n < Len(t) THEN n ELSE Len(t)
      /\ \A i \in 1 .. Len(c) : c[i] = t[i]
  BY BeginningType
<1>2. Len(s) \in Nat /\ Len(t) \in Nat
  OBVIOUS
<1> HIDE DEF b, c
<1>3. Len(b) = n /\ Len(c) = n
  BY <1>1, <1>2
<1>4. b = c
  BY <1>1, <1>3, SeqEqual
<1> QED
  BY <1>3, <1>4 DEF b, c

LEMMA FileKept ==
    ASSUME Kept, file # 0
    PROVE  /\ file \in Files /\ content[file] \in Seq(Bytes) /\ Size(file) \in Nat
           /\ Start(file) \in Nat /\ Ordered(file)
           /\ file = path \/ (content[file] # <<>> /\ truncated = 0)
           /\ from # 0
<1>1. file \in Files /\ path \in 0 .. MaxFiles
  BY PathTypes DEF Kept, StreamTypes, TypeOK
<1>2. content[file] \in Seq(Bytes) /\ Size(file) \in 0 .. written /\ written \in Nat
  BY <1>1, FileTypes DEF Kept, StreamTypes, TypeOK
<1>3. Start(file) \in Nat /\ Ordered(file)
  BY <1>1, StartType DEF Kept, FilesInv, Ordered
<1>4. CASE path = file + 1
  <2>1. path # 0 /\ file < path /\ path # file
    BY <1>1, <1>4 DEF Files
  <2> QED
    BY <1>1, <1>2, <1>3, <2>1 DEF Kept, FilesInv, PrefixInv, LinesInv
<1>5. CASE path = 0
  BY <1>1, <1>2, <1>3, <1>5 DEF Kept, FollowInv, PrefixInv, LinesInv
<1>6. CASE path = file
  BY <1>1, <1>2, <1>3, <1>6 DEF Kept, LinesInv
<1>7. path = file + 1 \/ path = 0 \/ path = file
  BY DEF Kept, FollowInv
<1> QED
  BY <1>4, <1>5, <1>6, <1>7

\* The writer adds to the open file and leaves the rest of it alone.
LEMMA WriterFrame ==
    ASSUME Kept, UNCHANGED <<truncated, source, poll, delivered, from>>,
           file # 0 => /\ Start(file)' = Start(file) /\ Size(file) <= Size(file)'
                       /\ content'[file] \in Seq(Bytes)
                       /\ \A i \in 1 .. Size(file) : content'[file][i] = content[file][i],
           from # 0 /\ file = 0 => Start(path)' = Start(path)
    PROVE  /\ file # 0 /\ truncated = 0 => BufferOK' /\ ~prefixChanged'
           /\ at = "read" => info.size < offset \/ BufferOK'
           /\ LinesInv'
<1>s. /\ file' = file /\ offset' = offset /\ buf' = buf /\ prefix' = prefix
      /\ at' = at /\ initial' = initial /\ info' = info /\ lines' = lines
      /\ truncated' = truncated /\ delivered' = delivered /\ from' = from
  BY DEF source, poll
<1>t. offset \in Nat /\ Len(buf) \in Nat /\ prefix \in Seq(Bytes) /\ info.current \in Nat
  BY DEF Kept, StreamTypes, TypeOK
<1>1. ASSUME file # 0, BufferOK PROVE BufferOK'
  <2>1. /\ Start(file)' = Start(file) /\ Size(file) \in Nat /\ Size(file)' \in Nat
        /\ Size(file) <= Size(file)'
    BY <1>1, <1>s, FileKept DEF Size
  <2>2. offset <= Size(file)'
    BY <1>1, <1>t, <2>1 DEF BufferOK
  <2> QED
    BY <1>1, <1>s, <2>1, <2>2 DEF BufferOK, Consecutive
<1>2. ASSUME file # 0, ~prefixChanged PROVE ~prefixChanged'
  <2> DEFINE c == content[file]
             d == content'[file]
  <2>1. c \in Seq(Bytes) /\ d \in Seq(Bytes) /\ Len(c) = Size(file) /\ Len(d) = Size(file)'
        /\ Len(c) <= Len(d) /\ \A i \in 1 .. Len(c) : d[i] = c[i]
    BY <1>2, <1>s, FileKept DEF Size
  <2>2. Beginning(c, Len(prefix)) = prefix
    BY <1>2 DEF prefixChanged
  <2> HIDE DEF c, d
  <2>3. Len(prefix) <= Len(c) /\ \A i \in 1 .. Len(prefix) : c[i] = prefix[i]
    BY <1>t, <2>1, <2>2, PrefixIff
  <2>l. Len(prefix) \in Nat /\ Len(c) \in Nat /\ Len(d) \in Nat
    BY <1>t, <2>1
  <2>4. Len(prefix) <= Len(d)
    BY <2>1, <2>3, <2>l
  <2>5. \A i \in 1 .. Len(prefix) : d[i] = prefix[i]
    BY <2>1, <2>3, <2>l
  <2>6. Beginning(d, Len(prefix)) = prefix
    BY <1>t, <2>1, <2>4, <2>5, PrefixIff
  <2> QED
    BY <1>s, <2>6 DEF prefixChanged, d
<1>3. ASSUME from # 0 PROVE NextByte' = NextByte
  BY <1>3, <1>s DEF NextByte
<1>4. ASSUME initial, at = "first"
      PROVE  /\ Beginning(content'[file], info.current) = Beginning(content[file], info.current)
             /\ info.current <= Size(file)' /\ Start(file)' = Start(file)
  <2>1. file # 0
    BY <1>4 DEF Kept, StreamTypes, SizesInv
  <2>2. /\ content[file] \in Seq(Bytes) /\ content'[file] \in Seq(Bytes)
        /\ Len(content[file]) = Size(file) /\ Len(content'[file]) = Size(file)'
        /\ Size(file) \in Nat /\ Size(file)' \in Nat
    BY <1>s, <2>1, FileKept DEF Size
  <2>3. info.current <= Size(file)
    BY <1>4 DEF Kept, LinesInv
  <2>4. info.current <= Size(file)'
    BY <1>t, <2>1, <2>2, <2>3
  <2>5. \A i \in 1 .. info.current : i \in 1 .. Size(file)
    BY <1>t, <2>2, <2>3
  <2>6. \A i \in 1 .. info.current : content[file][i] = content'[file][i]
    BY <2>1, <2>5
  <2> QED
    BY <1>t, <2>1, <2>2, <2>3, <2>4, <2>6, BeginningSame
<1>5. LinesInv'
  <2> DEFINE s == Beginning(content[file], info.current)
  <2>1. NoSplicedLine'
    BY <1>s DEF Kept, LinesInv, NoSplicedLine
  <2>2. /\ from = 0 => lines = <<>> /\ delivered = {} /\ buf = <<>> /\ file = 0
        /\ initial /\ from # 0 => at \in {"first", "respond"} /\ delivered = {}
        /\ initial /\ at = "first" =>
              /\ lines = <<>> /\ buf = <<>> /\ info.current <= Size(file)
              /\ from = Start(file) + reverseTailStart(s, TailLines)
        /\ truncated = 0 /\ from # 0 /\ ~(initial /\ at = "first") =>
              \E x \in from .. MaxBytes + 1 :
                  delivered = from .. (x - 1) /\ Contiguous(lines, x, NextByte - Len(buf))
    BY DEF Kept, LinesInv
  <2>3. (initial /\ at = "first" =>
              /\ lines = <<>> /\ buf = <<>> /\ info.current <= Size(file)
              /\ from = Start(file) + reverseTailStart(s, TailLines))'
    BY <1>4, <1>s, <2>2
  <2> HIDE DEF s
  <2>4. (truncated = 0 /\ from # 0 /\ ~(initial /\ at = "first") =>
              \E x \in from .. MaxBytes + 1 :
                  delivered = from .. (x - 1) /\ Contiguous(lines, x, NextByte - Len(buf)))'
    BY <1>3, <1>s, <2>2 DEF Contiguous, Stretch, Consecutive
  <2> QED
    BY <1>s, <2>1, <2>2, <2>3, <2>4 DEF LinesInv, s
<1>6. at = "read" => file # 0
  BY DEF Kept, StreamTypes, SizesInv
<1> QED
  BY <1>1, <1>2, <1>5, <1>6 DEF Kept, PrefixInv

LEMMA AppendKept ==
    ASSUME Kept, Append1 PROVE Kept'
<1>0. StreamTypes /\ FilesInv /\ FollowInv /\ PrefixInv /\ LinesInv
  BY DEF Kept
<1>1. StreamTypes' /\ FilesInv'
  BY <1>0, AppendFiles, WriterTypes DEF Writer
<1>a. /\ path \in Files /\ path # 0 /\ path' = path /\ wfile' = wfile
      /\ written \in Nat /\ written' = written + 1 /\ truncated' = truncated
      /\ \A f \in Files : f # path => content'[f] = content[f]
      /\ content'[path] = Append(content[path], written + 1)
      /\ Size(path)' = Size(path) + 1 /\ Size(path) \in Nat
      /\ content'[path] # <<>>
      /\ Start(path)' = Start(path)
      /\ \A f \in Files : f # path /\ content[f] # <<>> => Start(f)' = Start(f)
  BY <1>0, Appended
<1>u. UNCHANGED <<truncated, source, poll, delivered, from>>
  BY DEF Append1
<1>s. /\ file' = file /\ offset' = offset /\ buf' = buf /\ prefix' = prefix
      /\ at' = at /\ initial' = initial /\ info' = info /\ lines' = lines
      /\ delivered' = delivered /\ from' = from
  BY <1>u DEF source, poll
<1>2. ASSUME file # 0
      PROVE  /\ Start(file)' = Start(file) /\ Size(file) <= Size(file)'
             /\ content'[file] \in Seq(Bytes)
             /\ \A i \in 1 .. Size(file) : content'[file][i] = content[file][i]
  <2>1. /\ file \in Files /\ content[file] \in Seq(Bytes) /\ Size(file) \in Nat
        /\ file = path \/ content[file] # <<>>
    BY <1>2, FileKept
  <2>2. content'[file] \in Seq(Bytes)
    BY <1>1, <2>1 DEF StreamTypes, TypeOK
  <2>3. CASE file = path
    <3>1. Start(file)' = Start(path)' /\ Size(file)' = Size(path)'
      BY <1>a, <1>s, <2>3 DEF Start, Size
    <3>2. \A i \in 1 .. Size(file) : content'[file][i] = content[file][i]
      BY <1>a, <2>1, <2>3 DEF Size
    <3> QED
      BY <1>a, <2>2, <2>3, <3>1, <3>2
  <2>4. CASE file # path
    <3>1. content'[file] = content[file] /\ content[file] # <<>>
      BY <1>a, <2>1, <2>4
    <3>2. Start(file)' = Start(file) /\ Size(file)' = Size(file)
      BY <1>s, <2>1, <3>1 DEF Start, Size
    <3> QED
      BY <2>1, <2>2, <3>1, <3>2
  <2> QED
    BY <2>3, <2>4
<1>3. /\ file # 0 /\ truncated = 0 => BufferOK' /\ ~prefixChanged'
      /\ at = "read" => info.size < offset \/ BufferOK'
      /\ LinesInv'
  BY <1>2, <1>a, <1>u, WriterFrame
<1>4. truncated # 0 => Start(file)' > prefix[1]
  BY <1>0, <1>2 DEF PrefixInv
<1>5. PrefixInv'
  BY <1>0, <1>3, <1>4, <1>a, <1>s DEF PrefixInv
<1>6. at = "drain" => Size(file)' = Size(file)
  <2> SUFFICES ASSUME at = "drain" PROVE Size(file)' = Size(file)
    OBVIOUS
  <2>1. file # 0 /\ path = file + 1
    BY <1>0 DEF StreamTypes, SizesInv, FollowInv
  <2>2. file \in Files /\ file # path
    BY <1>a, <2>1, FileKept DEF Files
  <2> QED
    BY <1>a, <1>s, <2>2 DEF Size
<1>7. at \in {"check", "prefix", "read"} /\ info.file = file => info.size <= Size(file)'
  <2> SUFFICES ASSUME at \in {"check", "prefix", "read"}, info.file = file
               PROVE  info.size <= Size(file)'
    OBVIOUS
  <2>1. file # 0 /\ info.size \in Nat /\ info.size <= Size(file)
    BY <1>0 DEF StreamTypes, TypeOK, SizesInv, FollowInv
  <2>2. file \in Files /\ Size(file) \in Nat /\ Size(file)' \in Nat
    BY <1>1, <1>2, <2>1, FileKept DEF Size
  <2> QED
    BY <1>2, <2>1, <2>2
<1>8. FollowInv'
  BY <1>0, <1>6, <1>7, <1>a, <1>s DEF FollowInv
<1> QED
  BY <1>1, <1>3, <1>5, <1>8 DEF Kept

LEMMA RotateKept ==
    ASSUME KeepsUp, Kept, rotateLog PROVE Kept'
<1>0. StreamTypes /\ FilesInv /\ FollowInv /\ PrefixInv /\ LinesInv
  BY DEF Kept
<1>1. StreamTypes' /\ FilesInv'
  BY <1>0, RotateFiles, WriterTypes DEF Writer
<1>a. /\ path # 0 /\ file = path /\ truncated = 0
      /\ path' = 0 /\ content' = content /\ written' = written
      /\ Size(path) >= RotateSize
  BY <1>0 DEF rotateLog, FilesInv
<1>u. UNCHANGED <<truncated, source, poll, delivered, from>>
  BY DEF rotateLog
<1>s. /\ file' = file /\ offset' = offset /\ buf' = buf /\ prefix' = prefix /\ truncated' = truncated
      /\ at' = at /\ initial' = initial /\ info' = info /\ lines' = lines
      /\ delivered' = delivered /\ from' = from
  BY <1>u DEF source, poll
<1>2. Start(file)' = Start(file) /\ Size(file)' = Size(file)
  BY <1>a, <1>s DEF Start, Size
<1>3. file \in Files /\ content[file] \in Seq(Bytes) /\ Size(file) \in Nat
  BY <1>a, FileKept
<1>4. /\ file # 0 /\ truncated = 0 => BufferOK' /\ ~prefixChanged'
      /\ at = "read" => info.size < offset \/ BufferOK'
      /\ LinesInv'
  BY <1>2, <1>3, <1>a, <1>u, WriterFrame
<1>5. PrefixInv'
  BY <1>4, <1>a, <1>s DEF PrefixInv
<1>6. content'[file] # <<>>
  <2>1. Len(content[file]) >= RotateSize /\ RotateSize \in Nat /\ RotateSize # 0
    BY <1>a, LogStreamAssumption DEF Size
  <2> QED
    BY <1>a, <2>1
<1>7. \A f \in Files : f > file => content'[f] = <<>>
  BY <1>0, <1>a DEF FilesInv
<1>8. path # file + 1
  BY <1>3, <1>a DEF Files
<1>9. at # "drain" /\ (at = "check" => info.file = file)
  BY <1>0, <1>8 DEF FollowInv
<1>10. FollowInv'
  BY <1>0, <1>2, <1>6, <1>7, <1>9, <1>a, <1>s DEF FollowInv
<1> QED
  BY <1>1, <1>4, <1>5, <1>10 DEF Kept

LEMMA OpenLogKept ==
    ASSUME Kept, openLogFile PROVE Kept'
<1>0. StreamTypes /\ FilesInv /\ FollowInv /\ PrefixInv /\ LinesInv
  BY DEF Kept
<1>1. StreamTypes'
  BY <1>0, WriterTypes DEF Writer
<1>a. /\ FilesInv'
      /\ path = 0 /\ path' \in Files /\ content[path'] = <<>>
      /\ \A g \in Files : content[g] = <<>> => path' <= g
  BY <1>0, OpenFiles
<1>u. UNCHANGED <<content, written, truncated, source, poll, delivered, from>>
  BY DEF openLogFile
<1>s. /\ file' = file /\ offset' = offset /\ buf' = buf /\ prefix' = prefix /\ truncated' = truncated
      /\ at' = at /\ initial' = initial /\ info' = info /\ lines' = lines
      /\ delivered' = delivered /\ from' = from
  BY <1>u DEF source, poll
<1>2. file # 0 => Start(file)' = Start(file) /\ Size(file)' = Size(file)
  BY <1>s, <1>u DEF Start, Size
<1>3. file # 0 => file \in Files /\ content[file] \in Seq(Bytes) /\ Size(file) \in Nat
  BY FileKept
<1>4. from # 0 /\ file = 0 => FALSE
  BY <1>0, <1>a DEF FollowInv
<1>5. /\ file # 0 /\ truncated = 0 => BufferOK' /\ ~prefixChanged'
      /\ at = "read" => info.size < offset \/ BufferOK'
      /\ LinesInv'
  BY <1>2, <1>3, <1>4, <1>u, WriterFrame
<1>t. truncated = 0
  BY <1>0, <1>a DEF PrefixInv
<1>6. PrefixInv'
  BY <1>5, <1>s, <1>t DEF PrefixInv
<1>7. path' # 0
  BY <1>a DEF Files
<1>8. file # 0 => path' = file + 1
  <2> SUFFICES ASSUME file # 0 PROVE path' = file + 1
    OBVIOUS
  <2>1. content[file] # <<>> /\ \A f \in Files : f > file => content[f] = <<>>
    BY <1>0, <1>a DEF FollowInv
  <2>2. file \in 1 .. MaxFiles /\ path' \in 1 .. MaxFiles /\ MaxFiles \in Nat
    BY <1>3, <1>a, LogStreamAssumption DEF Files
  <2>3. path' # file
    BY <1>a, <2>1
  <2>4. ~(path' < file)
    BY <1>0, <1>3, <1>a, <2>1 DEF FilesInv
  <2>5. file + 1 \in Files /\ file + 1 > file
    BY <2>2, <2>3, <2>4 DEF Files
  <2>6. path' <= file + 1
    BY <1>a, <2>1, <2>5
  <2> QED
    BY <2>2, <2>3, <2>4, <2>6
<1>9. at # "drain" /\ (at = "check" => info.file = file)
  <2>1. at \in {"drain", "check"} => file # 0
    BY <1>0 DEF StreamTypes, SizesInv
  <2>2. file # 0 => path # file + 1
    BY <1>3, <1>a DEF Files
  <2> QED
    BY <1>0, <2>1, <2>2 DEF FollowInv
<1>10. at \in {"check", "prefix", "read"} => file # 0
  BY <1>0 DEF StreamTypes, SizesInv
<1>11. FollowInv'
  BY <1>0, <1>2, <1>10, <1>4, <1>7, <1>8, <1>9, <1>a, <1>s DEF FollowInv
<1> QED
  BY <1>1, <1>5, <1>6, <1>11, <1>a DEF Kept

LEMMA TruncateKept ==
    ASSUME KeepsUp, Kept, Truncate PROVE Kept'
<1>0. StreamTypes /\ FilesInv /\ FollowInv /\ PrefixInv /\ LinesInv
  BY DEF Kept
<1>1. StreamTypes'
  BY <1>0, WriterTypes DEF Writer
<1>a. /\ FilesInv'
      /\ path \in Files /\ path' = path /\ truncated' = truncated + 1 /\ truncated \in Nat
      /\ Start(path)' = written + 2 /\ written \in Nat
      /\ content'[path] = <<>>
  BY <1>0, TruncateFiles
<1>k. path # 0 /\ file = path /\ prefix # <<>> /\ at \in {"idle", "respond"}
  BY DEF Truncate
<1>s. /\ file' = file /\ offset' = offset /\ buf' = buf /\ prefix' = prefix
      /\ at' = at /\ initial' = initial /\ info' = info /\ lines' = lines
      /\ delivered' = delivered /\ from' = from
  BY DEF Truncate, source, poll
<1>2. truncated' # 0
  BY <1>a
<1>3. prefix[1] <= written
  <2>p. prefix \in Seq(Bytes) /\ Len(prefix) \in Nat /\ 1 \in 1 .. Len(prefix) /\ prefix[1] \in Nat
    <3>1. prefix \in Seq(Bytes)
      BY <1>0 DEF StreamTypes, TypeOK
    <3>2. 1 \in 1 .. Len(prefix)
      BY <1>k, <3>1, EmptySeq
    <3>3. prefix[1] \in Bytes
      BY <3>1, <3>2
    <3> QED
      BY <3>1, <3>2, <3>3 DEF Bytes
  <2>f. content[file] \in Seq(Bytes) /\ Size(file) \in Nat /\ Start(file) \in Nat
    BY <1>k, FileKept
  <2>w. Start(file) + Size(file) = written + 1
    BY <1>0, <1>k DEF FilesInv
  <2>1. CASE truncated = 0
    <3>1. Beginning(content[file], Len(prefix)) = prefix
      BY <1>0, <1>k, <2>1 DEF PrefixInv, prefixChanged
    <3>2. Len(prefix) <= Len(content[file]) /\ content[file][1] = prefix[1]
      BY <2>f, <2>p, <3>1, PrefixIff
    <3>3. content[file] # <<>> /\ Size(file) >= 1
      BY <2>f, <2>p, <3>2 DEF Size
    <3>4. Start(file) = prefix[1]
      BY <1>a, <1>k, <3>2, <3>3 DEF Start
    <3> QED
      BY <1>a, <2>f, <2>p, <2>w, <3>3, <3>4
  <2>2. CASE truncated # 0
    <3>1. Start(file) > prefix[1]
      BY <1>0, <2>2 DEF PrefixInv
    <3> QED
      BY <1>a, <2>f, <2>p, <2>w, <3>1
  <2> QED
    BY <2>1, <2>2
<1>4. Start(file)' > prefix[1]
  <2>1. Start(file)' = written + 2
    BY <1>a, <1>k, <1>s DEF Start
  <2>2. prefix[1] \in Int
    <3>1. prefix \in Seq(Bytes)
      BY <1>0 DEF StreamTypes, TypeOK
    <3>2. 1 \in 1 .. Len(prefix)
      BY <1>k, <3>1, EmptySeq
    <3>3. prefix[1] \in Bytes
      BY <3>1, <3>2
    <3> QED
      BY <3>3 DEF Bytes
  <2> QED
    BY <1>3, <1>a, <2>1, <2>2
<1>5. PrefixInv'
  BY <1>2, <1>4, <1>a, <1>k, <1>s DEF PrefixInv
<1>6. FollowInv'
  BY <1>0, <1>2, <1>a, <1>k, <1>s DEF FollowInv
<1>7. from # 0
  BY <1>k, FileKept
<1>8. LinesInv'
  BY <1>0, <1>2, <1>7, <1>k, <1>s DEF LinesInv, NoSplicedLine
<1> QED
  BY <1>1, <1>5, <1>6, <1>8, <1>a DEF Kept

LEMMA WriterKept ==
    ASSUME KeepsUp, Kept, Writer PROVE Kept'
  BY AppendKept, RotateKept, OpenLogKept, TruncateKept DEF Writer

(***************************************************************************)
(* A poll.                                                                 *)
(***************************************************************************)

LEMMA FilesKept ==
    ASSUME FilesInv, UNCHANGED files
    PROVE  /\ FilesInv' /\ content' = content /\ path' = path /\ truncated' = truncated
           /\ \A f : Start(f)' = Start(f) /\ Size(f)' = Size(f)
  BY DEF files, FilesInv, Start, Size

Unspliced(ls) == \A i \in 1 .. Len(ls) : Consecutive(ls[i], ls[i][1])

LEMMA ContiguousUnspliced ==
    ASSUME NEW ls \in Seq(Seq(Bytes)), NEW x \in Int, NEW y, Contiguous(ls, x, y)
    PROVE  Unspliced(ls)
<1>1. PICK p : Chain(ls, p) /\ p[0] = x /\ p[Len(ls)] = y
  BY ChainPlaces
<1>2. ASSUME NEW i \in 1 .. Len(ls) PROVE Consecutive(ls[i], ls[i][1])
  <2>1. ls[i] \in Seq(Bytes) /\ i - 1 \in 0 .. Len(ls)
    OBVIOUS
  <2>2. p[i - 1] \in Int /\ Stretch(ls[i], p[i - 1], p[i])
    BY <1>1, <2>1 DEF Chain
  <2>3. /\ Len(ls[i]) \in Nat /\ Len(ls[i]) > 0
        /\ \A j \in 1 .. Len(ls[i]) : ls[i][j] = p[i - 1] + j - 1
    BY <2>1, <2>2 DEF Stretch, Consecutive
  <2>4. ls[i][1] = p[i - 1] + 1 - 1
    <3>1. 1 \in 1 .. Len(ls[i])
      BY <2>3
    <3> QED
      BY <2>3, <3>1
  <2>5. ls[i][1] = p[i - 1]
    BY <2>2, <2>4
  <2> QED
    BY <2>3, <2>5 DEF Consecutive
<1> QED
  BY <1>2 DEF Unspliced

LEMMA JoinedUnspliced ==
    ASSUME NEW ls \in Seq(Seq(Bytes)), NEW ms \in Seq(Seq(Bytes)), Unspliced(ls), Unspliced(ms)
    PROVE  Unspliced(ls \o ms)
<1> DEFINE ns == ls \o ms
<1>1. /\ Len(ns) = Len(ls) + Len(ms) /\ Len(ls) \in Nat /\ Len(ms) \in Nat
      /\ \A i \in 1 .. Len(ns) : ns[i] = IF i <= Len(ls) THEN ls[i] ELSE ms[i - Len(ls)]
  OBVIOUS
<1> HIDE DEF ns
<1>2. ASSUME NEW i \in 1 .. Len(ns) PROVE Consecutive(ns[i], ns[i][1])
  <2>1. CASE i <= Len(ls)
    <3>1. i \in 1 .. Len(ls) /\ ns[i] = ls[i]
      BY <1>1, <2>1
    <3> QED
      BY <3>1 DEF Unspliced
  <2>2. CASE ~(i <= Len(ls))
    <3>1. i - Len(ls) \in 1 .. Len(ms) /\ ns[i] = ms[i - Len(ls)]
      BY <1>1, <2>2
    <3> QED
      BY <3>1 DEF Unspliced
  <2> QED
    BY <2>1, <2>2
<1> QED
  BY <1>2 DEF Unspliced, ns

LEMMA LinesUnspliced == NoSplicedLine <=> Unspliced(lines)
  BY DEF NoSplicedLine, Unspliced, Consecutive

\* A reading of the open file goes on where the buffer ends.
ReadsOn(o, b, ls) ==
    /\ ls \in Seq(Seq(Bytes)) /\ lines' = lines \o ls
    /\ Contiguous(ls, Start(file) + o - Len(b), Start(file) + offset' - Len(buf'))
    /\ offset' \in Nat /\ Len(buf') \in Nat

LEMMA Reads ==
    ASSUME Kept, file # 0, UNCHANGED <<files, file>>,
           NEW o \in 0 .. MaxBytes, NEW b \in Seq(Bytes \ Ends),
           o <= Size(file), Len(b) <= o, Consecutive(b, Start(file) + o - Len(b)),
           ReadOn(file, o, b)
    PROVE  /\ BufferOK' /\ Len(buf') <= offset' /\ NoSplicedLine'
           /\ \E ls : ReadsOn(o, b, ls)
<1>0. /\ file \in Files /\ content[file] \in Seq(Bytes) /\ Size(file) \in Nat
      /\ Start(file) \in Nat /\ Ordered(file)
  BY FileKept
<1>1. PICK r : r = readAvailable(file, o, b) /\ Reading(r)
  BY DEF ReadOn
<1>2. ReadingType(file, o, r)
  BY <1>0, <1>1, ReadingTypes
<1>3. ReadingNext(file, o, b, r)
  <2>1. o \in Nat /\ written \in Nat
    BY DEF Kept, StreamTypes, TypeOK
  <2> QED
    BY <1>0, <1>1, <2>1, ReadingContinues
<1>4. offset' = r.offset /\ buf' = r.buf /\ lines' = lines \o r.lines
  BY <1>1 DEF Reading
<1>5. r.lines \in Seq(Seq(Bytes)) /\ r.offset \in Nat /\ r.buf \in Seq(Bytes \ Ends)
      /\ Len(r.buf) \in Nat
  BY <1>2 DEF ReadingType
<1>6. ReadsOn(o, b, r.lines)
  BY <1>3, <1>4, <1>5 DEF ReadsOn, ReadingNext
<1>7. BufferOK' /\ Len(buf') <= offset'
  <2>1. Start(file)' = Start(file) /\ Size(file)' = Size(file) /\ file' = file
    BY DEF files, Start, Size
  <2> QED
    BY <1>3, <1>4, <2>1 DEF BufferOK, ReadingNext, Consecutive
<1>8. NoSplicedLine'
  <2>1. Unspliced(lines) /\ lines \in Seq(Seq(Bytes))
    BY LinesUnspliced DEF Kept, LinesInv, StreamTypes, TypeOK
  <2>2. Len(b) \in Nat /\ Start(file) + o - Len(b) \in Int
    BY <1>0
  <2>3. Unspliced(r.lines)
    BY <1>3, <1>5, <2>2, ContiguousUnspliced DEF ReadingNext
  <2>4. Unspliced(lines \o r.lines)
    BY <1>5, <2>1, <2>3, JoinedUnspliced
  <2> QED
    BY <1>4, <2>4 DEF NoSplicedLine, Unspliced, Consecutive
<1> QED
  BY <1>6, <1>7, <1>8

\* Until a truncation the lines go on where they were.
Continued ==
    from # 0 => \E x \in from .. MaxBytes + 1 :
                    delivered = from .. (x - 1) /\ Contiguous(lines, x, NextByte - Len(buf))

LEMMA ReadsContinued ==
    ASSUME Kept, file # 0, Continued, UNCHANGED <<files, file, delivered, from>>,
           NEW ls, ReadsOn(offset, buf, ls)
    PROVE  Continued'
<1> SUFFICES ASSUME from # 0 PROVE Continued'
  BY DEF Continued
<1>1. PICK x \in from .. MaxBytes + 1 :
           delivered = from .. (x - 1) /\ Contiguous(lines, x, NextByte - Len(buf))
  BY DEF Continued
<1>2. /\ lines \in Seq(Seq(Bytes)) /\ offset \in Nat /\ Len(buf) \in Nat
      /\ from \in Nat /\ MaxBytes \in Nat
  BY LogStreamAssumption DEF Kept, StreamTypes, TypeOK
<1>3. Start(file) \in Nat /\ NextByte = Start(file) + offset
  BY FileKept DEF NextByte
<1>4. /\ ls \in Seq(Seq(Bytes)) /\ lines' = lines \o ls
      /\ Contiguous(ls, NextByte - Len(buf), Start(file) + offset' - Len(buf'))
  <2>1. NextByte - Len(buf) = Start(file) + offset - Len(buf)
    BY <1>2, <1>3
  <2> QED
    BY <2>1 DEF ReadsOn
<1>5. x \in Int /\ NextByte - Len(buf) \in Int
  BY <1>2, <1>3
<1>6. Contiguous(lines \o ls, x, Start(file) + offset' - Len(buf'))
  BY <1>1, <1>2, <1>4, <1>5, Joined
<1>7. NextByte' = Start(file) + offset'
  BY DEF files, NextByte, Start
<1>8. Contiguous(lines', x, NextByte' - Len(buf'))
  <2>1. offset' \in Nat /\ Len(buf') \in Nat
    BY DEF ReadsOn
  <2>2. NextByte' - Len(buf') = Start(file) + offset' - Len(buf')
    BY <1>3, <1>7, <2>1
  <2> QED
    BY <1>4, <1>6, <2>2
<1>9. delivered' = from' .. (x - 1) /\ x \in from' .. MaxBytes + 1
  BY <1>1
<1> QED
  BY <1>8, <1>9 DEF Continued

LEMMA LinesParts ==
    LinesInv <=>
        /\ NoSplicedLine
        /\ from = 0 => lines = <<>> /\ delivered = {} /\ buf = <<>> /\ file = 0
        /\ initial /\ from # 0 => at \in {"first", "respond"} /\ delivered = {}
        /\ initial /\ at = "first" =>
              LET s == Beginning(content[file], info.current)
              IN  /\ lines = <<>> /\ buf = <<>> /\ info.current <= Size(file)
                  /\ from = Start(file) + reverseTailStart(s, TailLines)
        /\ truncated = 0 /\ ~(initial /\ at = "first") => Continued
  BY DEF LinesInv, Continued

\* A step that reads nothing and answers nothing.
LEMMA LinesStill ==
    ASSUME Kept, UNCHANGED <<files, file, offset, buf, lines, delivered, from, initial>>,
           at \notin {"first", "respond"}, at' # "first"
    PROVE  LinesInv'
<1>1. /\ NoSplicedLine
      /\ from = 0 => lines = <<>> /\ delivered = {} /\ buf = <<>> /\ file = 0
      /\ ~(initial /\ from # 0)
      /\ truncated = 0 => Continued
  BY LinesParts DEF Kept
<1>2. NextByte' = NextByte /\ truncated' = truncated
  BY DEF NextByte, Start, files
<1>3. Continued => Continued'
  BY <1>2 DEF Continued, Contiguous, Stretch, Consecutive
<1>4. NoSplicedLine'
  BY <1>1 DEF NoSplicedLine
<1>5. /\ from' = 0 => lines' = <<>> /\ delivered' = {} /\ buf' = <<>> /\ file' = 0
      /\ ~(initial' /\ from' # 0)
      /\ truncated' = 0 => Continued'
  BY <1>1, <1>2, <1>3
<1> QED
  BY <1>4, <1>5 DEF LinesInv, Continued

LEMMA RequestKept ==
    ASSUME Kept, Request PROVE Kept'
<1>0. StreamTypes /\ FilesInv /\ FollowInv /\ PrefixInv /\ LinesInv
  BY DEF Kept
<1>1. StreamTypes'
  BY <1>0, RequestTypes
<1>2. /\ FilesInv' /\ content' = content /\ path' = path /\ truncated' = truncated
      /\ \A f : Start(f)' = Start(f) /\ Size(f)' = Size(f)
  BY <1>0, FilesKept DEF Request
<1>s. /\ file' = file /\ offset' = offset /\ buf' = buf /\ prefix' = prefix
      /\ initial' = initial /\ info' = info /\ lines' = lines
      /\ delivered' = delivered /\ from' = from /\ UNCHANGED files
      /\ at = "idle" /\ at' = (IF file = 0 THEN "open" ELSE "stat")
  BY DEF Request, Go, source
<1>3. LinesInv'
  BY <1>s, LinesStill
<1>4. initial => file = 0
  BY <1>0, <1>s, FileKept DEF LinesInv
<1>5. Start(file)' = Start(file) /\ Size(file)' = Size(file)
  BY <1>2, <1>s DEF Start, Size, files
<1>6. BufferOK' <=> BufferOK
  BY <1>5, <1>s DEF BufferOK, Consecutive
<1>7. prefixChanged' <=> prefixChanged
  BY <1>2, <1>s DEF prefixChanged
<1>8. PrefixInv'
  BY <1>0, <1>2, <1>5, <1>6, <1>7, <1>s DEF PrefixInv
<1>9. FollowInv'
  BY <1>0, <1>2, <1>4, <1>5, <1>s DEF FollowInv
<1> QED
  BY <1>1, <1>2, <1>3, <1>8, <1>9 DEF Kept

\* What a reading of the open file keeps, wherever it is made.
LEMMA ReadKept ==
    ASSUME Kept, file # 0, UNCHANGED <<files, file, prefix, info, delivered, from, initial>>,
           at' = "respond", NEW o \in 0 .. MaxBytes, NEW b \in Seq(Bytes \ Ends),
           o <= Size(file), Len(b) <= o, Consecutive(b, Start(file) + o - Len(b)),
           ReadOn(file, o, b),
           truncated = 0 => Continued /\ o = offset /\ b = buf,
           initial => from # 0 /\ delivered = {}
    PROVE  FilesInv' /\ FollowInv' /\ PrefixInv' /\ LinesInv'
<1>0. StreamTypes /\ FilesInv /\ FollowInv /\ PrefixInv /\ LinesInv
  BY DEF Kept
<1>2. /\ FilesInv' /\ content' = content /\ path' = path /\ truncated' = truncated
      /\ \A f : Start(f)' = Start(f) /\ Size(f)' = Size(f)
  BY <1>0, FilesKept
<1>s. /\ file' = file /\ prefix' = prefix /\ initial' = initial /\ info' = info
      /\ delivered' = delivered /\ from' = from /\ UNCHANGED files
  OBVIOUS
<1>3. /\ BufferOK' /\ Len(buf') <= offset' /\ NoSplicedLine'
      /\ \E ls : ReadsOn(o, b, ls)
  BY Reads
<1>4. truncated = 0 => Continued'
  BY <1>3, ReadsContinued
<1>5. from # 0
  BY FileKept
<1>6. LinesInv'
  <2>1. initial' /\ from' # 0 => delivered' = {}
    OBVIOUS
  <2>2. truncated' = 0 => Continued'
    BY <1>2, <1>4
  <2> QED
    BY <1>3, <1>5, <2>1, <2>2 DEF LinesInv, Continued
<1>7. prefixChanged' <=> prefixChanged
  BY <1>2, <1>s DEF prefixChanged
<1>8. Start(file)' = Start(file) /\ Size(file)' = Size(file)
  BY <1>2, <1>s DEF Start, Size, files
<1>9. PrefixInv'
  BY <1>0, <1>2, <1>3, <1>7, <1>8, <1>s DEF PrefixInv
<1>10. FollowInv'
  BY <1>0, <1>2, <1>3, <1>s DEF FollowInv
<1> QED
  BY <1>2, <1>6, <1>9, <1>10

LEMMA NotInitial ==
    ASSUME Kept, at \in {"stat", "check", "prefix", "read", "drain"}
    PROVE  /\ ~initial /\ file # 0 /\ from # 0 /\ lines = <<>>
           /\ truncated = 0 => Continued /\ BufferOK
<1>1. ~initial /\ file # 0 /\ lines = <<>>
  BY DEF Kept, FollowInv, StreamTypes, SizesInv
<1>2. from # 0
  BY <1>1, FileKept
<1> QED
  BY <1>1, <1>2, LinesParts DEF Kept, PrefixInv

LEMMA StatPathKept ==
    ASSUME Kept, StatPath PROVE FilesInv' /\ FollowInv' /\ PrefixInv' /\ LinesInv'
<1>0. StreamTypes /\ FilesInv /\ FollowInv /\ PrefixInv /\ LinesInv
  BY DEF Kept
<1>n. /\ at = "stat" /\ ~initial /\ file # 0 /\ from # 0 /\ lines = <<>>
      /\ truncated = 0 => Continued /\ BufferOK
  BY NotInitial DEF StatPath
<1>u. UNCHANGED <<files, file, prefix, stableEOF, delivered, from>>
  BY DEF StatPath
<1>2. /\ FilesInv' /\ content' = content /\ path' = path /\ truncated' = truncated
      /\ \A f : Start(f)' = Start(f) /\ Size(f)' = Size(f)
  BY <1>0, <1>u, FilesKept
<1>3. CASE path = 0
  <2>1. truncated = 0
    BY <1>0, <1>3, <1>n DEF PrefixInv
  <2>2. /\ ReadOn(file, offset, buf) /\ at' = "respond"
        /\ UNCHANGED <<files, file, prefix, info, delivered, from, initial>>
    BY <1>3, <1>u DEF StatPath, Go
  <2>3. offset \in 0 .. MaxBytes /\ buf \in Seq(Bytes \ Ends) /\ Len(buf) <= offset
    BY <1>0 DEF StreamTypes, TypeOK, FollowInv
  <2>4. offset <= Size(file) /\ Consecutive(buf, Start(file) + offset - Len(buf))
    BY <1>n, <2>1 DEF BufferOK
  <2> QED
    BY <1>n, <2>1, <2>2, <2>3, <2>4, ReadKept
<1>4. CASE path # 0
  <2>s. /\ file' = file /\ prefix' = prefix /\ initial' = initial /\ UNCHANGED files
        /\ delivered' = delivered /\ from' = from /\ at' = "check"
        /\ offset' = offset /\ buf' = buf /\ lines' = lines
        /\ info' = [NoInfo EXCEPT !.file = path, !.size = Size(path)]
    BY <1>4, <1>u DEF StatPath, Go
  <2>1. info'.file = path /\ info'.size = Size(path)
    BY <2>s DEF NoInfo
  <2>2. LinesInv'
    BY <1>n, <2>s, LinesStill
  <2>3. Start(file)' = Start(file) /\ Size(file)' = Size(file) /\ Size(path)' = Size(path)
    BY <1>2, <2>s DEF Start, Size, files
  <2>4. BufferOK' <=> BufferOK
    BY <2>3, <2>s DEF BufferOK, Consecutive
  <2>5. prefixChanged' <=> prefixChanged
    BY <1>2, <2>s DEF prefixChanged
  <2>6. PrefixInv'
    BY <1>0, <1>2, <1>n, <2>3, <2>4, <2>5, <2>s DEF PrefixInv
  <2>7. Size(path) <= Size(path)
    <3>1. path \in Files
      BY <1>0, <1>4, PathTypes
    <3>2. Size(path) \in 0 .. written
      BY <1>0, <3>1, FileTypes
    <3> QED
      BY <3>2
  <2>8. truncated = 0 /\ path = file => offset <= Size(path)
    BY <1>n DEF BufferOK
  <2>9. FollowInv'
    BY <1>0, <1>2, <1>4, <1>n, <2>1, <2>3, <2>7, <2>8, <2>s DEF FollowInv
  <2> QED
    BY <1>2, <2>2, <2>6, <2>9
<1> QED
  BY <1>3, <1>4

LEMMA StatFileKept ==
    ASSUME Kept, StatFile PROVE FilesInv' /\ FollowInv' /\ PrefixInv' /\ LinesInv'
<1>0. StreamTypes /\ FilesInv /\ FollowInv /\ PrefixInv /\ LinesInv
  BY DEF Kept
<1>n. /\ at = "check" /\ ~initial /\ file # 0 /\ from # 0 /\ lines = <<>>
      /\ truncated = 0 => Continued /\ BufferOK
  BY NotInitial DEF StatFile
<1>u. UNCHANGED <<files, source, lines, delivered, from, initial>>
  BY DEF StatFile, Go
<1>2. /\ FilesInv' /\ content' = content /\ path' = path /\ truncated' = truncated
      /\ \A f : Start(f)' = Start(f) /\ Size(f)' = Size(f)
  BY <1>0, <1>u, FilesKept
<1>s. /\ file' = file /\ prefix' = prefix /\ initial' = initial
      /\ delivered' = delivered /\ from' = from
      /\ offset' = offset /\ buf' = buf /\ lines' = lines
  BY <1>u DEF source
<1>i. /\ info.size \in Nat /\ offset \in Nat /\ file \in Nat
      /\ info.file # file => path = file + 1
      /\ info.file = file => info.size <= Size(file) /\ (truncated = 0 => offset <= info.size)
  BY <1>0, <1>n DEF FollowInv, StreamTypes, TypeOK
<1>3. info'.file = info.file /\ info'.size = info.size /\ info'.current = Size(file)
  BY <1>0 DEF StatFile, StreamTypes, TypeOK
<1>4. \/ at' = "drain" /\ path = file + 1
      \/ /\ at' \in {"prefix", "read"} /\ info.file = file
         /\ at' = "read" => info.size < offset \/ offset = 0
  BY <1>i DEF StatFile, Go
<1>5. LinesInv'
  BY <1>4, <1>n, <1>u, <1>s, LinesStill
<1>6. Start(file)' = Start(file) /\ Size(file)' = Size(file) /\ Size(path)' = Size(path)
  BY <1>2, <1>s DEF Start, Size, files
<1>7. BufferOK' <=> BufferOK
  BY <1>6, <1>s DEF BufferOK, Consecutive
<1>8. prefixChanged' <=> prefixChanged
  BY <1>2, <1>s DEF prefixChanged
<1>9. offset = 0 => BufferOK
  <2> SUFFICES ASSUME offset = 0 PROVE BufferOK
    OBVIOUS
  <2>1. Len(buf) \in Nat /\ Len(buf) <= offset /\ Size(file) \in Nat
    BY <1>0, <1>n, FileKept DEF StreamTypes, TypeOK, FollowInv
  <2>2. Len(buf) = 0 /\ offset <= Size(file)
    BY <2>1
  <2> QED
    BY <2>2 DEF BufferOK, Consecutive
<1>10. at' = "drain" => truncated = 0
  <2>1. path = file + 1 => path # file
    BY <1>i
  <2> QED
    BY <1>0, <1>4, <2>1 DEF PrefixInv
<1>11. PrefixInv'
  BY <1>0, <1>2, <1>3, <1>4, <1>6, <1>7, <1>8, <1>9, <1>10, <1>s DEF PrefixInv
<1>12. FollowInv'
  BY <1>0, <1>2, <1>3, <1>4, <1>6, <1>i, <1>n, <1>s DEF FollowInv
<1> QED
  BY <1>2, <1>5, <1>11, <1>12

LEMMA CheckPrefixKept ==
    ASSUME Kept, CheckPrefix PROVE FilesInv' /\ FollowInv' /\ PrefixInv' /\ LinesInv'
<1>0. StreamTypes /\ FilesInv /\ FollowInv /\ PrefixInv /\ LinesInv
  BY DEF Kept
<1>n. /\ at = "prefix" /\ ~initial /\ file # 0 /\ from # 0 /\ lines = <<>>
      /\ truncated = 0 => Continued /\ BufferOK
  BY NotInitial DEF CheckPrefix
<1>u. UNCHANGED <<files, file, prefix, info, lines, delivered, from, initial>> /\ at' = "read"
  BY DEF CheckPrefix, Go
<1>2. /\ FilesInv' /\ content' = content /\ path' = path /\ truncated' = truncated
      /\ \A f : Start(f)' = Start(f) /\ Size(f)' = Size(f)
  BY <1>0, <1>u, FilesKept
<1>3. Start(file)' = Start(file) /\ Size(file)' = Size(file) /\ Size(path)' = Size(path)
  BY <1>2, <1>u DEF Start, Size, files
<1>4. prefixChanged' <=> prefixChanged
  BY <1>2, <1>u DEF prefixChanged
<1>f. content[file] \in Seq(Bytes) /\ Size(file) \in Nat /\ file \in Files
  BY <1>n, FileKept
<1>5. truncated # 0 => prefixChanged
  <2> SUFFICES ASSUME truncated # 0, ~prefixChanged PROVE FALSE
    OBVIOUS
  <2>1. prefix # <<>> /\ Start(file) > prefix[1] /\ prefix \in Seq(Bytes)
    BY <1>0 DEF PrefixInv, StreamTypes, TypeOK
  <2>2. 1 \in 1 .. Len(prefix) /\ Len(prefix) \in Nat
    BY <2>1, EmptySeq
  <2>3. Beginning(content[file], Len(prefix)) = prefix
    BY DEF prefixChanged
  <2>4. Len(prefix) <= Len(content[file]) /\ content[file][1] = prefix[1]
    BY <1>f, <2>1, <2>2, <2>3, PrefixIff
  <2>5. content[file] # <<>>
    BY <1>f, <2>2, <2>4
  <2>6. prefix[1] \in Bytes
    BY <2>1, <2>2
  <2> QED
    BY <1>f, <2>1, <2>4, <2>5, <2>6 DEF Start, Bytes
<1>6. CASE prefixChanged
  <2>1. offset' = 0 /\ buf' = <<>> /\ truncated # 0
    BY <1>0, <1>6, <1>n DEF CheckPrefix, PrefixInv
  <2>2. BufferOK'
    <3>1. 0 <= Size(file)' /\ Len(<<>>) = 0
      BY <1>3, <1>f
    <3> QED
      BY <2>1, <3>1 DEF BufferOK, Consecutive
  <2>3. PrefixInv'
    BY <1>0, <1>2, <1>3, <1>u, <2>1, <2>2 DEF PrefixInv
  <2>4. Len(buf') <= offset'
    BY <2>1
  <2>5. FollowInv'
    BY <1>0, <1>2, <1>3, <1>n, <1>u, <2>1, <2>4 DEF FollowInv
  <2>6. LinesInv'
    BY <1>0, <1>2, <1>n, <1>u, <2>1 DEF LinesInv, NoSplicedLine
  <2> QED
    BY <1>2, <2>3, <2>5, <2>6
<1>7. CASE ~prefixChanged
  <2>1. offset' = offset /\ buf' = buf /\ truncated = 0
    BY <1>5, <1>7 DEF CheckPrefix
  <2>2. BufferOK'
    BY <1>3, <1>n, <1>u, <2>1 DEF BufferOK, Consecutive
  <2>3. PrefixInv'
    BY <1>2, <1>4, <1>7, <2>1, <2>2 DEF PrefixInv
  <2>4. FollowInv'
    BY <1>0, <1>2, <1>3, <1>n, <1>u, <2>1 DEF FollowInv
  <2>5. LinesInv'
    BY <1>n, <1>u, <2>1, LinesStill
  <2> QED
    BY <1>2, <2>3, <2>4, <2>5
<1> QED
  BY <1>6, <1>7

LEMMA ReadStepKept ==
    ASSUME Kept, Read PROVE FilesInv' /\ FollowInv' /\ PrefixInv' /\ LinesInv'
<1>0. StreamTypes /\ FilesInv /\ FollowInv /\ PrefixInv /\ LinesInv
  BY DEF Kept
<1>n. /\ at = "read" /\ ~initial /\ file # 0 /\ from # 0 /\ lines = <<>>
      /\ truncated = 0 => Continued /\ BufferOK
  BY NotInitial DEF Read
<1>u. UNCHANGED <<files, file, prefix, info, delivered, from, initial>> /\ at' = "respond"
  BY DEF Read, Go
<1>t. /\ offset \in 0 .. MaxBytes /\ buf \in Seq(Bytes \ Ends) /\ Len(buf) <= offset
      /\ 0 \in 0 .. MaxBytes /\ <<>> \in Seq(Bytes \ Ends) /\ info.size \in Nat
      /\ info.file = file
  BY <1>0, <1>n, LogStreamAssumption DEF StreamTypes, TypeOK, FollowInv
<1>1. CASE info.size < offset
  <2>1. truncated # 0
    BY <1>0, <1>1, <1>n, <1>t DEF FollowInv
  <2>2. ReadOn(file, 0, <<>>)
    BY <1>1 DEF Read
  <2>3. 0 <= Size(file) /\ Len(<<>>) <= 0
    BY <1>n, FileKept
  <2>4. Consecutive(<<>>, Start(file) + 0 - Len(<<>>))
    BY DEF Consecutive
  <2> QED
    BY <1>n, <1>t, <1>u, <2>1, <2>2, <2>3, <2>4, ReadKept
<1>2. CASE ~(info.size < offset)
  <2>1. ReadOn(file, offset, buf)
    BY <1>2 DEF Read
  <2>2. offset <= Size(file) /\ Consecutive(buf, Start(file) + offset - Len(buf))
    BY <1>0, <1>2, <1>n DEF BufferOK, PrefixInv
  <2> QED
    BY <1>n, <1>t, <1>u, <2>1, <2>2, ReadKept
<1> QED
  BY <1>1, <1>2

\* What is left in a buffer makes one line more.
LEMMA WithLeft ==
    ASSUME NEW ls \in Seq(Seq(Bytes)), NEW b \in Seq(Bytes), NEW x \in Int, NEW y \in Int,
           Contiguous(ls, x, y - Len(b)), Consecutive(b, y - Len(b))
    PROVE  LET left == IF b = <<>> THEN <<>> ELSE <<b>>
           IN  ls \o left \in Seq(Seq(Bytes)) /\ Contiguous(ls \o left, x, y)
<1>0. Len(b) \in Nat /\ y - Len(b) \in Int
  OBVIOUS
<1>1. CASE b = <<>>
  <2>1. ls \o <<>> = ls
    BY ConcatEmptySeq
  <2>2. y - Len(b) = y
    BY <1>1
  <2> QED
    BY <1>1, <2>1, <2>2
<1>2. CASE b # <<>>
  <2>1. Contiguous(<<b>>, y - Len(b), (y - Len(b)) + Len(b))
    BY <1>0, <1>2, OneLine
  <2>2. (y - Len(b)) + Len(b) = y
    BY <1>0
  <2>3. <<b>> \in Seq(Seq(Bytes))
    OBVIOUS
  <2>4. Contiguous(ls \o <<b>>, x, y)
    BY <1>0, <2>1, <2>2, <2>3, Joined
  <2>5. ls \o <<b>> \in Seq(Seq(Bytes))
    BY <2>3, ConcatProperties
  <2> QED
    BY <1>2, <2>4, <2>5
<1> QED
  BY <1>1, <1>2

LEMMA DrainKept ==
    ASSUME Kept, Drain PROVE FilesInv' /\ FollowInv' /\ PrefixInv' /\ LinesInv'
<1> DEFINE r == readAvailable(file, offset, buf)
           left == IF r.buf = <<>> THEN <<>> ELSE <<r.buf>>
<1>0. StreamTypes /\ FilesInv /\ FollowInv /\ PrefixInv /\ LinesInv
  BY DEF Kept
<1>n. /\ at = "drain" /\ ~initial /\ file # 0 /\ from # 0 /\ lines = <<>>
      /\ truncated = 0 => Continued /\ BufferOK
  BY NotInitial DEF Drain
<1>u. UNCHANGED <<files, info, delivered, from, initial>>
  BY DEF Drain, Go
<1>d. \/ /\ Drained(r)
         /\ lines' = lines \o r.lines \o left
         /\ offset' = 0 /\ buf' = <<>> /\ prefix' = <<>> /\ file' = 0
         /\ at' = "open"
      \/ Reading(r) /\ at' = "respond" /\ UNCHANGED <<file, prefix>>
  BY DEF Drain, Go
<1>2. /\ FilesInv' /\ content' = content /\ path' = path /\ truncated' = truncated
      /\ \A f : Start(f)' = Start(f) /\ Size(f)' = Size(f)
  BY <1>0, <1>u, FilesKept
<1>t. /\ offset \in 0 .. MaxBytes /\ offset \in Nat /\ buf \in Seq(Bytes \ Ends)
      /\ Len(buf) <= offset /\ Len(buf) \in Nat /\ written \in Nat
      /\ truncated = 0 /\ path = file + 1 /\ info.current = Size(file)
      /\ from \in Nat
  BY <1>0, <1>n DEF StreamTypes, TypeOK, FollowInv, PrefixInv
<1>f. /\ file \in Files /\ content[file] \in Seq(Bytes) /\ Size(file) \in Nat
      /\ Start(file) \in Nat /\ Ordered(file) /\ content[file] # <<>>
  <2>1. file \in Files /\ (file = path \/ content[file] # <<>>)
    BY <1>n, FileKept
  <2>2. file # path
    BY <1>t, <2>1 DEF Files
  <2> QED
    BY <1>n, <2>1, <2>2, FileKept
<1>b. offset <= Size(file) /\ Consecutive(buf, Start(file) + offset - Len(buf))
  BY <1>n, <1>t DEF BufferOK
<1>3. CASE Reading(r) /\ at' = "respond" /\ UNCHANGED <<file, prefix>>
  <2>1. ReadOn(file, offset, buf)
    BY <1>3 DEF ReadOn
  <2> QED
    BY <1>3, <1>b, <1>n, <1>t, <1>u, <2>1, ReadKept
<1>4. CASE /\ Drained(r)
           /\ lines' = lines \o r.lines \o left
           /\ offset' = 0 /\ buf' = <<>> /\ prefix' = <<>> /\ file' = 0
           /\ at' = "open"
  <2>1. ReadingType(file, offset, r) /\ ReadingNext(file, offset, buf, r)
    BY <1>b, <1>f, <1>t, ReadingTypes, ReadingContinues
  <2>d. lines' = lines \o r.lines \o left /\ Drained(r)
    BY <1>4
  <2>l. left = IF r.buf = <<>> THEN <<>> ELSE <<r.buf>>
    OBVIOUS
  <2> HIDE DEF r, left
  <2>2. /\ r.lines \in Seq(Seq(Bytes)) /\ r.offset \in Nat /\ r.offset <= Size(file)
        /\ r.buf \in Seq(Bytes) /\ Len(r.buf) \in Nat
    <3>1. r.buf \in Seq(Bytes)
      BY <2>1, SeqMonotonic DEF ReadingType
    <3> QED
      BY <2>1, <3>1 DEF ReadingType, ReadingNext
  <2>3. r.offset = Size(file)
    <3>1. ~(info.current > r.offset)
      BY <2>d DEF Drained
    <3> QED
      BY <1>f, <1>t, <2>2, <3>1
  <2> DEFINE z == Start(file) + r.offset
  <2>4. Start(path) = z /\ z \in Int
    <3>1. Start(file) + Size(file) = Start(file + 1)
      BY <1>0, <1>f, <1>t DEF FilesInv
    <3> QED
      BY <1>f, <1>t, <2>3, <3>1
  <2>5. Start(file) + r.offset - Len(r.buf) = z - Len(r.buf)
    BY <1>f, <2>2
  <2>6. /\ Contiguous(r.lines, Start(file) + offset - Len(buf), z - Len(r.buf))
        /\ Consecutive(r.buf, z - Len(r.buf))
    BY <2>1, <2>5 DEF ReadingNext
  <2> HIDE DEF z
  <2>7. PICK x \in from .. MaxBytes + 1 :
             delivered = from .. (x - 1) /\ Contiguous(lines, x, NextByte - Len(buf))
    BY <1>n, <1>t DEF Continued
  <2>8. NextByte - Len(buf) = Start(file) + offset - Len(buf) /\ NextByte - Len(buf) \in Int
    BY <1>f, <1>n, <1>t DEF NextByte
  <2>9. x \in Int /\ lines \in Seq(Seq(Bytes))
    <3>1. MaxBytes \in Nat
      BY LogStreamAssumption
    <3> QED
      BY <1>0, <1>t, <3>1 DEF StreamTypes, TypeOK
  <2>10. Contiguous(lines \o r.lines, x, z - Len(r.buf)) /\ lines \o r.lines \in Seq(Seq(Bytes))
    BY <2>2, <2>6, <2>7, <2>8, <2>9, Joined, ConcatProperties
  <2>11. Contiguous((lines \o r.lines) \o left, x, z) /\ (lines \o r.lines) \o left \in Seq(Seq(Bytes))
    BY <2>2, <2>4, <2>6, <2>9, <2>10, <2>l, WithLeft
  <2>12. NextByte' = z
    <3>1. Start(path)' = Start(path)
      BY <1>2, <1>u DEF Start, files
    <3> QED
      BY <1>4, <2>4, <3>1 DEF NextByte
  <2>13. Contiguous(lines', x, NextByte' - Len(buf'))
    <3>1. Len(buf') = 0
      BY <1>4
    <3>2. NextByte' - Len(buf') = z
      BY <2>12, <2>4, <3>1
    <3> QED
      BY <2>11, <2>d, <3>2
  <2>14. Continued'
    BY <1>u, <2>7, <2>13 DEF Continued
  <2>15. NoSplicedLine'
    <3>1. Unspliced((lines \o r.lines) \o left)
      BY <2>9, <2>11, ContiguousUnspliced
    <3> QED
      BY <2>d, <3>1 DEF NoSplicedLine, Unspliced, Consecutive
  <2>16. LinesInv'
    BY <1>n, <1>u, <2>14, <2>15 DEF LinesInv, Continued
  <2>17. PrefixInv'
    BY <1>2, <1>4, <1>t DEF PrefixInv
  <2>18. path # 0
    BY <1>f, <1>t DEF Files
  <2>19. Len(buf') <= offset'
    BY <1>4
  <2>20. FollowInv'
    BY <1>2, <1>4, <1>n, <1>u, <2>18, <2>19 DEF FollowInv
  <2> QED
    BY <1>2, <2>16, <2>17, <2>20
<1> QED
  BY <1>3, <1>4, <1>d

LEMMA OpenKept ==
    ASSUME Kept, Open PROVE FilesInv' /\ FollowInv' /\ PrefixInv' /\ LinesInv'
<1>0. StreamTypes /\ FilesInv /\ FollowInv /\ PrefixInv /\ LinesInv
  BY DEF Kept
<1>u. UNCHANGED <<files, lines, delivered, initial>> /\ at = "open"
  BY DEF Open, Go
<1>2. /\ FilesInv' /\ content' = content /\ path' = path /\ truncated' = truncated
      /\ \A f : Start(f)' = Start(f) /\ Size(f)' = Size(f)
  BY <1>0, <1>u, FilesKept
<1>t. /\ truncated = 0 /\ file = 0 /\ offset = 0 /\ buf = <<>>
      /\ (initial => from = 0) /\ from \in Nat /\ (from # 0 => path # 0)
  <2>1. truncated = 0 /\ file = 0 /\ offset = 0
    BY <1>0, <1>u DEF PrefixInv, FollowInv
  <2>2. buf \in Seq(Bytes \ Ends) /\ Len(buf) <= offset /\ from \in Nat
    BY <1>0 DEF FollowInv, StreamTypes, TypeOK
  <2>3. buf = <<>>
    BY <2>1, <2>2, EmptySeq
  <2> QED
    BY <1>0, <1>u, <2>1, <2>2, <2>3 DEF LinesInv, FollowInv
<1>c. Continued /\ NoSplicedLine
  BY <1>0, <1>t, <1>u DEF LinesInv, Continued
<1>3. CASE path = 0
  <2>s. /\ at' = "respond" /\ file' = file /\ offset' = offset /\ buf' = buf /\ prefix' = prefix
        /\ info' = info /\ from' = from
    BY <1>3 DEF Open, Go, source
  <2>1. from = 0
    BY <1>3, <1>t
  <2>2. LinesInv'
    BY <1>0, <1>u, <2>1, <2>s DEF LinesInv, NoSplicedLine
  <2>3. PrefixInv'
    BY <1>2, <1>t, <2>s DEF PrefixInv
  <2>4. FollowInv'
    BY <1>0, <1>2, <1>t, <1>u, <2>1, <2>s DEF FollowInv
  <2> QED
    BY <1>2, <2>2, <2>3, <2>4
<1>4. CASE path # 0
  <2> DEFINE start == IF initial THEN reverseTailStart(content[path], TailLines) ELSE 0
             c == content[path]
  <2>s. /\ at' = "first" /\ file' = path /\ offset' = 0 /\ buf' = <<>>
        /\ prefix' = Beginning(c, SampleSize)
        /\ info'.current = Size(path)
        /\ from' = IF from # 0 THEN from
                   ELSE IF start < Size(path) THEN c[start + 1] ELSE written + 1
    BY <1>4 DEF Open, Go, NoInfo
  <2>f. /\ path \in Files /\ c \in Seq(Bytes) /\ Size(path) \in Nat /\ Len(c) = Size(path)
        /\ Start(path) \in Nat /\ Start(path) >= 1
    BY <1>0, <1>4, PathTypes, FileTypes, StartType DEF Size
  <2>w. Start(path) + Size(path) = written + 1 /\ written \in Nat
    BY <1>0, <1>4 DEF FilesInv, StreamTypes, TypeOK
  <2>1. start \in 0 .. Size(path)
    <3>1. TailLines \in Nat
      BY LogStreamAssumption
    <3>2. reverseTailStart(c, TailLines) \in 0 .. Len(c)
      BY <2>f, <3>1, TailStartType
    <3> QED
      BY <2>f, <3>2
  <2>2. from = 0 => from' = Start(path) + start
    <3> SUFFICES ASSUME from = 0 PROVE from' = Start(path) + start
      OBVIOUS
    <3>1. CASE start < Size(path)
      <4>1. c # <<>> /\ start + 1 \in 1 .. Len(c)
        BY <2>1, <2>f, <3>1
      <4>2. c[1] = Start(path) /\ Consecutive(c, c[1])
        BY <1>0, <2>f, <4>1 DEF FilesInv, Start
      <4>3. c[start + 1] = Start(path) + (start + 1) - 1
        BY <4>1, <4>2 DEF Consecutive
      <4> HIDE DEF start, c
      <4> QED
        BY <2>1, <2>f, <2>s, <3>1, <4>3
    <3>2. CASE ~(start < Size(path))
      <4> HIDE DEF start, c
      <4>1. start = Size(path)
        BY <2>1, <2>f, <3>2
      <4> QED
        BY <2>f, <2>s, <2>w, <3>2, <4>1
    <3> QED
      BY <3>1, <3>2
  <2>3. /\ Start(file)' = Start(path) /\ Size(file)' = Size(path) /\ content'[file'] = c
    BY <1>2, <1>u, <2>s DEF Start, Size, files
  <2>4. BufferOK'
    BY <2>3, <2>f, <2>s DEF BufferOK, Consecutive
  <2>5. ~prefixChanged'
    <3> DEFINE b == Beginning(c, SampleSize)
    <3>1. /\ b \in Seq(Bytes) /\ Len(b) = IF SampleSize < Len(c) THEN SampleSize ELSE Len(c)
          /\ \A i \in 1 .. Len(b) : b[i] = c[i]
      BY <2>f, BeginningType, LogStreamAssumption
    <3> HIDE DEF b, c
    <3>2. Len(b) <= Len(c)
      BY <2>f, <3>1, LogStreamAssumption
    <3>3. Beginning(c, Len(b)) = b
      BY <2>f, <3>1, <3>2, PrefixIff
    <3>4. prefix' = b
      BY <2>s DEF b
    <3> QED
      BY <2>3, <3>3, <3>4 DEF prefixChanged
  <2>6. PrefixInv'
    BY <1>2, <1>t, <2>4, <2>5, <2>s DEF PrefixInv
  <2>7. Len(buf') <= offset'
    BY <2>s
  <2>8. FollowInv'
    BY <1>2, <1>4, <2>7, <2>s DEF FollowInv
  <2>9. from' # 0 /\ from' \in 1 .. MaxBytes + 1
    <3>1. from' \in 0 .. MaxBytes + 1
      BY <1>0, PollTypes DEF StreamTypes, TypeOK, pollStep
    <3>2. from' # 0
      <4> HIDE DEF start
      <4> QED BY <1>t, <2>1, <2>2, <2>f, <2>s
    <3> QED
      BY <3>1, <3>2, LogStreamAssumption
  <2>10. NextByte' = Start(path) /\ Len(buf') = 0
    <3>1. file' # 0
      BY <1>4, <2>s
    <3> QED
      BY <2>3, <2>f, <2>s, <3>1 DEF NextByte
  <2>11. CASE initial
    <3>1. from = 0 /\ lines = <<>> /\ delivered = {}
      BY <1>0, <1>t, <2>11 DEF LinesInv
    <3>2. Beginning(c, Size(path)) = c
      BY <2>f, PrefixIff
    <3>3. from' = Start(path) + reverseTailStart(Beginning(c, Size(path)), TailLines)
      BY <2>11, <2>2, <3>1, <3>2
    <3>4. (info.current <= Size(file))'
      BY <2>3, <2>f, <2>s
    <3>5. (from = Start(file) + reverseTailStart(Beginning(content[file], info.current), TailLines))'
      BY <2>3, <2>s, <3>3
    <3>6. NoSplicedLine'
      BY <1>c, <1>u DEF NoSplicedLine
    <3> HIDE DEF start, c
    <3> QED
      BY <1>2, <1>u, <2>11, <2>6, <2>8, <2>9, <2>s, <3>1, <3>4, <3>5, <3>6 DEF LinesInv
  <2>12. CASE ~initial
    <3>1. NoSplicedLine'
      BY <1>c, <1>u DEF NoSplicedLine
    <3>2. Continued'
      <4>1. CASE from = 0
        <5>1. from' = Start(path) /\ lines' = <<>> /\ delivered' = {}
          <6>1. Start(path) + 0 = Start(path)
            BY <2>f
          <6> QED
            BY <1>0, <1>u, <2>12, <2>2, <4>1, <6>1 DEF LinesInv
        <5>2. Contiguous(lines', from', NextByte' - Len(buf'))
          <6>1. NextByte' - Len(buf') = from'
            BY <2>10, <2>f, <5>1
          <6> QED
            BY <5>1, <6>1, NoLines
        <5>3. delivered' = from' .. (from' - 1) /\ from' \in from' .. MaxBytes + 1
          BY <2>9, <5>1, LogStreamAssumption
        <5> QED
          BY <5>2, <5>3 DEF Continued
      <4>2. CASE from # 0
        <5>1. PICK x \in from .. MaxBytes + 1 :
                   delivered = from .. (x - 1) /\ Contiguous(lines, x, NextByte - Len(buf))
          BY <1>c, <4>2 DEF Continued
        <5>2. from' = from
          <6> HIDE DEF start, c
          <6> QED BY <2>s, <4>2
        <5>3. NextByte' - Len(buf') = NextByte - Len(buf)
          BY <1>t, <2>10 DEF NextByte
        <5>4. Contiguous(lines', x, NextByte' - Len(buf'))
          BY <1>u, <5>1, <5>3
        <5> QED
          BY <1>u, <5>1, <5>2, <5>4 DEF Continued
      <4> QED
        BY <4>1, <4>2
    <3>3. LinesInv'
      BY <1>u, <2>12, <2>9, <3>1, <3>2 DEF LinesInv, Continued
    <3> QED
      BY <1>2, <2>6, <2>8, <3>3
  <2> QED
    BY <2>11, <2>12
<1> QED
  BY <1>3, <1>4

LEMMA FirstKept ==
    ASSUME Kept, First PROVE FilesInv' /\ FollowInv' /\ PrefixInv' /\ LinesInv'
<1>0. StreamTypes /\ FilesInv /\ FollowInv /\ PrefixInv /\ LinesInv
  BY DEF Kept
<1>u. UNCHANGED <<files, file, prefix, info, delivered, from, initial>> /\ at = "first"
      /\ at' = "respond"
  BY DEF First, Go
<1>2. /\ FilesInv' /\ content' = content /\ path' = path /\ truncated' = truncated
      /\ \A f : Start(f)' = Start(f) /\ Size(f)' = Size(f)
  BY <1>0, <1>u, FilesKept
<1>t. /\ truncated = 0 /\ file # 0 /\ offset = 0 /\ buf = <<>> /\ from # 0
      /\ BufferOK /\ ~prefixChanged /\ from \in Nat
  <2>1. truncated = 0 /\ file # 0 /\ offset = 0
    BY <1>0, <1>u DEF PrefixInv, FollowInv, StreamTypes, SizesInv
  <2>2. buf \in Seq(Bytes \ Ends) /\ Len(buf) <= offset /\ from \in Nat
    BY <1>0 DEF FollowInv, StreamTypes, TypeOK
  <2>3. buf = <<>>
    BY <2>1, <2>2, EmptySeq
  <2> QED
    BY <1>0, <1>u, <2>1, <2>2, <2>3 DEF LinesInv, PrefixInv
<1>f. /\ file \in Files /\ content[file] \in Seq(Bytes) /\ Size(file) \in Nat
      /\ Start(file) \in Nat /\ Ordered(file) /\ Len(content[file]) = Size(file)
  BY <1>t, FileKept DEF Size
<1>3. CASE ~initial
  <2>1. ReadOn(file, 0, <<>>)
    BY <1>3 DEF First
  <2>2. 0 \in 0 .. MaxBytes /\ <<>> \in Seq(Bytes \ Ends) /\ Len(<<>>) <= 0 /\ 0 <= Size(file)
    BY <1>f, LogStreamAssumption
  <2>3. Continued
    BY <1>0, <1>3, <1>t DEF LinesInv, Continued
  <2>4. Consecutive(<<>>, Start(file) + 0 - Len(<<>>))
    BY DEF Consecutive
  <2> QED
    BY <1>3, <1>t, <1>u, <2>1, <2>2, <2>3, <2>4, ReadKept
<1>4. CASE initial
  <2> DEFINE n == info.current
             s == Beginning(content[file], n)
             k == reverseTailStart(s, TailLines)
             t == SubSeq(s, k + 1, Len(s))
             c == consume(<<>>, t)
             left == IF c.buf = <<>> THEN <<>> ELSE <<c.buf>>
  <2>1. /\ lines = <<>> /\ delivered = {} /\ n <= Size(file) /\ n \in Nat
        /\ from = Start(file) + k
    BY <1>0, <1>4, <1>t, <1>u DEF LinesInv, StreamTypes, TypeOK
  <2>2. lines' = c.lines \o left /\ offset' = n /\ buf' = buf
    BY <1>4 DEF First
  <2>3. /\ s \in Seq(Bytes) /\ Len(s) = n
        /\ \A i \in 1 .. Len(s) : s[i] = content[file][i] /\ s[i] \in Bytes
    <3>1. /\ s \in Seq(Bytes) /\ Len(s) = IF n < Len(content[file]) THEN n ELSE Len(content[file])
          /\ \A i \in 1 .. Len(s) : s[i] = content[file][i]
      BY <1>f, <2>1, BeginningType
    <3> HIDE DEF s, n
    <3>2. Len(s) = n
      BY <1>f, <2>1, <3>1
    <3> QED
      BY <3>1, <3>2
  <2>l. left = IF c.buf = <<>> THEN <<>> ELSE <<c.buf>>
    OBVIOUS
  <2> HIDE DEF s, n, left
  <2>4. k \in 0 .. n /\ k \in Nat
    <3>1. TailLines \in Nat
      BY LogStreamAssumption
    <3>2. k \in 0 .. Len(s)
      BY <2>3, <3>1, TailStartType
    <3> QED
      BY <2>1, <2>3, <3>2
  <2> HIDE DEF k
  <2>5. /\ t \in Seq(Bytes) /\ Len(t) = n - k
        /\ \A i \in 1 .. Len(t) : t[i] = s[k + i]
    <3>1. k + 1 \in Int /\ Len(s) \in Int /\ \A i \in (k + 1) .. Len(s) : s[i] \in Bytes
      BY <2>1, <2>3, <2>4
    <3>2. /\ SubSeq(s, k + 1, Len(s)) \in Seq(Bytes)
          /\ Len(SubSeq(s, k + 1, Len(s))) = IF k + 1 <= Len(s) THEN Len(s) - (k + 1) + 1 ELSE 0
          /\ \A i \in 1 .. Len(s) - (k + 1) + 1 :
                SubSeq(s, k + 1, Len(s))[i] = s[(k + 1) + i - 1]
      BY <3>1, SubSeqProperties
    <3>3. Len(t) = n - k /\ Len(s) - (k + 1) + 1 = n - k
      BY <2>1, <2>3, <2>4, <3>2
    <3>4. \A i \in 1 .. n - k : (k + 1) + i - 1 = k + i
      BY <2>1, <2>4
    <3> QED
      BY <3>2, <3>3, <3>4
  <2> HIDE DEF t
  <2>6. Consecutive(t, from)
    <3> SUFFICES ASSUME NEW i \in 1 .. Len(t) PROVE t[i] = from + i - 1
      BY DEF Consecutive
    <3>1. k + i \in 1 .. Len(s) /\ i \in Nat
      BY <2>1, <2>3, <2>4, <2>5
    <3>2. t[i] = content[file][k + i] /\ k + i \in 1 .. Len(content[file])
      BY <1>f, <2>1, <2>3, <2>5, <3>1
    <3>3. content[file] # <<>>
      BY <3>2
    <3>4. content[file][k + i] = Start(file) + (k + i) - 1
      BY <1>f, <3>2, <3>3 DEF Ordered, Consecutive, Start
    <3> QED
      BY <1>f, <2>1, <2>4, <3>1, <3>2, <3>4
  <2>7. <<>> \in Seq(Bytes) /\ <<>> \o t = t
    BY <2>5, ConcatEmptySeq
  <2> DEFINE z == from + Len(t)
  <2>8. /\ Contiguous(c.lines, from, z - Len(c.buf)) /\ Consecutive(c.buf, z - Len(c.buf))
        /\ c.lines \in Seq(Seq(Bytes)) /\ c.buf \in Seq(Bytes)
    <3>1. /\ Contiguous(c.lines, from, from + Len(t) - Len(c.buf))
          /\ Consecutive(c.buf, from + Len(t) - Len(c.buf))
      <4>1. Consecutive(<<>> \o t, from) /\ from \in Int
        BY <1>t, <2>6, <2>7
      <4>2. /\ Contiguous(c.lines, from, from + Len(<<>> \o t) - Len(c.buf))
            /\ Consecutive(c.buf, from + Len(<<>> \o t) - Len(c.buf))
        BY <2>5, <2>7, <4>1, ConsumeContiguous
      <4> QED
        BY <2>7, <4>2
    <3>2. c.lines \in Seq(Seq(Bytes)) /\ c.buf \in Seq(Bytes \ Ends)
      BY <2>5, <2>7, ConsumeDef
    <3>3. c.buf \in Seq(Bytes)
      BY <3>2, SeqMonotonic
    <3>4. from + Len(t) - Len(c.buf) = z - Len(c.buf)
      <4>1. Len(t) \in Int /\ Len(c.buf) \in Int /\ from \in Int
        BY <1>t, <2>5, <3>3
      <4> QED
        BY <4>1
    <3> QED
      BY <3>1, <3>2, <3>3, <3>4
  <2> HIDE DEF c
  <2>9. z \in Int /\ z = Start(file) + n /\ from \in Int
    BY <1>f, <1>t, <2>1, <2>4, <2>5
  <2> HIDE DEF z
  <2>10. c.lines \o left \in Seq(Seq(Bytes)) /\ Contiguous(c.lines \o left, from, z)
    BY <2>8, <2>9, <2>l, WithLeft
  <2>11. Start(file)' = Start(file) /\ Size(file)' = Size(file)
    BY <1>2, <1>u DEF Start, Size, files
  <2>12. NextByte' - Len(buf') = z
    <3>1. NextByte' = Start(file) + n
      BY <1>t, <1>u, <2>11, <2>2 DEF NextByte
    <3>2. Len(buf') = 0
      BY <1>t, <2>2
    <3> QED
      BY <1>f, <2>1, <2>9, <3>1, <3>2
  <2>13. Continued'
    <3>1. delivered' = from' .. (from - 1) /\ from \in from' .. MaxBytes + 1
      <4>1. from \in 0 .. MaxBytes + 1 /\ MaxBytes \in Nat
        BY <1>0, LogStreamAssumption DEF StreamTypes, TypeOK
      <4> QED
        BY <1>u, <2>1, <4>1
    <3>2. Contiguous(lines', from, NextByte' - Len(buf'))
      BY <2>2, <2>10, <2>12
    <3> QED
      BY <3>1, <3>2 DEF Continued
  <2>14. NoSplicedLine'
    <3>1. Unspliced(c.lines \o left)
      BY <2>9, <2>10, ContiguousUnspliced
    <3> QED
      BY <2>2, <3>1 DEF NoSplicedLine, Unspliced, Consecutive
  <2>15. LinesInv'
    BY <1>t, <1>u, <2>1, <2>13, <2>14 DEF LinesInv, Continued
  <2>16. BufferOK'
    BY <1>t, <1>u, <2>1, <2>2, <2>11 DEF BufferOK, Consecutive
  <2>17. prefixChanged' <=> prefixChanged
    BY <1>2, <1>u DEF prefixChanged
  <2>18. PrefixInv'
    BY <1>2, <1>t, <1>u, <2>16, <2>17 DEF PrefixInv
  <2>19. Len(buf') <= offset'
    BY <1>t, <2>1, <2>2
  <2>20. FollowInv'
    BY <1>0, <1>2, <1>t, <1>u, <2>19 DEF FollowInv
  <2> QED
    BY <1>2, <2>15, <2>18, <2>20
<1> QED
  BY <1>3, <1>4

LEMMA RespondKept ==
    ASSUME Kept, Respond PROVE Kept'
<1>0. StreamTypes /\ FilesInv /\ FollowInv /\ PrefixInv /\ LinesInv
  BY DEF Kept
<1>1. StreamTypes'
  BY <1>0, RespondTypes
<1>s. /\ UNCHANGED files /\ file' = file /\ offset' = offset /\ buf' = buf /\ prefix' = prefix
      /\ from' = from /\ at = "respond" /\ at' = "idle" /\ initial' = FALSE
      /\ lines' = <<>> /\ delivered' = delivered \cup BytesOf(lines)
  BY DEF Respond, source
<1>2. /\ FilesInv' /\ content' = content /\ path' = path /\ truncated' = truncated
      /\ \A f : Start(f)' = Start(f) /\ Size(f)' = Size(f)
  BY <1>0, <1>s, FilesKept
<1>3. Start(file)' = Start(file) /\ Size(file)' = Size(file)
  BY <1>2, <1>s DEF Start, Size, files
<1>4. (BufferOK' <=> BufferOK) /\ (prefixChanged' <=> prefixChanged)
  BY <1>2, <1>3, <1>s DEF BufferOK, Consecutive, prefixChanged
<1>5. PrefixInv'
  BY <1>0, <1>2, <1>3, <1>4, <1>s DEF PrefixInv
<1>6. FollowInv'
  BY <1>0, <1>2, <1>s DEF FollowInv
<1>7. truncated = 0 /\ from # 0 => Continued'
  <2> SUFFICES ASSUME truncated = 0, from # 0 PROVE Continued'
    OBVIOUS
  <2>1. PICK x \in from .. MaxBytes + 1 :
             delivered = from .. (x - 1) /\ Contiguous(lines, x, NextByte - Len(buf))
    BY <1>0, <1>s DEF LinesInv
  <2>2. from \in Nat /\ MaxBytes \in Nat /\ x \in Int /\ from <= x /\ x <= MaxBytes + 1
        /\ lines \in Seq(Seq(Bytes))
    BY <1>0, LogStreamAssumption DEF StreamTypes, TypeOK
  <2> DEFINE y == NextByte - Len(buf)
  <2>c. Contiguous(lines, x, y)
    BY <2>1
  <2>n. NextByte' - Len(buf') = y
    BY <1>3, <1>s, <1>2 DEF NextByte, Start, files
  <2> HIDE DEF y
  <2>3. y \in x .. MaxBytes + 1 /\ (from .. (x - 1)) \cup BytesOf(lines) = from .. (y - 1)
    BY <2>2, <2>c, Extended
  <2>5. delivered' = from .. (y - 1)
    BY <1>s, <2>1, <2>3
  <2>6. Contiguous(lines', y, NextByte' - Len(buf'))
    BY <1>s, <2>n, NoLines
  <2>7. y \in from .. MaxBytes + 1
    BY <2>2, <2>3
  <2> QED
    BY <1>s, <2>5, <2>6, <2>7 DEF Continued
<1>8. NoSplicedLine'
  BY <1>s DEF NoSplicedLine
<1>9. from = 0 => delivered' = {}
  BY <1>0, <1>s DEF LinesInv, BytesOf
<1>10. LinesInv'
  BY <1>0, <1>2, <1>7, <1>8, <1>9, <1>s DEF LinesInv, Continued
<1> QED
  BY <1>1, <1>2, <1>5, <1>6, <1>10 DEF Kept

LEMMA StreamStepKept ==
    ASSUME KeepsUp, Kept, [Next]_vars PROVE Kept'
<1>1. CASE pollStep
  <2>1. StreamTypes'
    BY <1>1, PollTypes DEF Kept
  <2>2. FilesInv' /\ FollowInv' /\ PrefixInv' /\ LinesInv'
    BY <1>1, StatPathKept, StatFileKept, CheckPrefixKept, ReadStepKept, DrainKept, OpenKept,
       FirstKept DEF pollStep
  <2> QED
    BY <2>1, <2>2 DEF Kept
<1>2. CASE UNCHANGED vars
  <2>1. StreamTypes'
    BY <1>2, StreamStepTypes DEF Kept
  <2>2. FilesInv' /\ FollowInv' /\ PrefixInv' /\ LinesInv'
    <3>u. UNCHANGED <<content, path, wfile, written, truncated, at, initial, file, offset, buf,
                      prefix, stableEOF, info, lines, delivered, from>>
      BY <1>2 DEF vars, files, source, poll
    <3>1. FilesInv' /\ FollowInv'
      BY <3>u DEF Kept, FilesInv, FollowInv, Start, Size
    <3>2. PrefixInv'
      BY <3>u DEF Kept, PrefixInv, BufferOK, prefixChanged, Start, Size, Consecutive
    <3>3. LinesInv'
      BY <3>u DEF Kept, LinesInv, NoSplicedLine, NextByte, Start, Size, Contiguous, Stretch,
                  Consecutive
    <3> QED
      BY <3>1, <3>2, <3>3
  <2> QED
    BY <2>1, <2>2 DEF Kept
<1> QED
  BY <1>1, <1>2, WriterKept, RequestKept, RespondKept DEF Next

LEMMA InitKept ==
    ASSUME Init PROVE Kept
<1>1. StreamTypes
  BY InitTypes
<1>i. /\ path \in {0, 1} /\ content \in [Files -> {<<>>, <<1, 2, 3>>}]
      /\ \A f \in Files : content[f] = <<>> \/ f = path
      /\ wfile = path /\ written = 3 /\ truncated = 0 /\ at = "idle" /\ initial = TRUE
      /\ file = 0 /\ offset = 0 /\ buf = <<>> /\ prefix = <<>> /\ lines = <<>>
      /\ delivered = {} /\ from = 0
  BY DEF Init
<1>2. ASSUME NEW f \in Files, content[f] # <<>>
      PROVE  /\ content[f] = <<1, 2, 3>> /\ f = path /\ Start(f) = 1 /\ Size(f) = 3
             /\ Consecutive(content[f], content[f][1])
  <2>1. content[f] = <<1, 2, 3>> /\ f = path
    BY <1>2, <1>i
  <2>2. Start(f) = 1 /\ Size(f) = 3
    BY <1>2, <2>1 DEF Start, Size
  <2>3. \A i \in 1 .. 3 : <<1, 2, 3>>[i] = 1 + i - 1
    OBVIOUS
  <2>4. Consecutive(<<1, 2, 3>>, 1)
    BY <2>3 DEF Consecutive
  <2> QED
    BY <2>1, <2>2, <2>4
<1>3. FilesInv
  <2>1. ASSUME path # 0 PROVE Start(path) + Size(path) = written + 1
    <3>1. path \in Files
      BY <1>i, <2>1, LogStreamAssumption DEF Files
    <3>2. CASE content[path] # <<>>
      BY <1>2, <1>i, <3>1, <3>2
    <3>3. CASE content[path] = <<>>
      <4>1. Start(path) = written + 1 /\ Size(path) = 0
        BY <3>3 DEF Start, Size
      <4> QED
        BY <1>i, <4>1
    <3> QED
      BY <3>2, <3>3
  <2>2. ASSUME path # 0, NEW f \in Files
        PROVE  (f > path => content[f] = <<>>) /\ (f < path => content[f] # <<>>)
    <3>1. f \in Nat /\ f >= 1 /\ path = 1
      BY <1>i, <2>2 DEF Files
    <3> QED
      BY <1>i, <3>1
  <2>3. ASSUME NEW f \in Files, content[f] # <<>>
        PROVE  Start(f) + Size(f) = Start(f + 1)
    <3>1. Start(f) = 1 /\ Size(f) = 3 /\ f = path
      BY <1>2, <2>3
    <3>2. f + 1 \in Files => content[f + 1] = <<>>
      <4>1. f + 1 # path
        BY <3>1, <1>i
      <4> QED
        BY <1>i, <4>1
    <3>3. Start(f + 1) = 4
      BY <1>i, <3>2 DEF Start
    <3> QED
      BY <3>1, <3>3
  <2>4. path = 0 => \A f, g \in Files : f < g /\ content[g] # <<>> => content[f] # <<>>
    <3>1. \A g \in Files : g # 0
      BY DEF Files
    <3> QED
      BY <1>i, <3>1
  <2> QED
    BY <1>2, <1>i, <2>1, <2>2, <2>3, <2>4 DEF FilesInv
<1>4. FollowInv
  <2>1. Len(buf) <= offset
    BY <1>i
  <2> QED
    BY <1>i, <2>1 DEF FollowInv
<1>5. PrefixInv
  BY <1>i DEF PrefixInv
<1>6. LinesInv
  BY <1>i DEF LinesInv, NoSplicedLine
<1> QED
  BY <1>1, <1>3, <1>4, <1>5, <1>6 DEF Kept

(***************************************************************************)
(* The theorems about the stream.                                          *)
(***************************************************************************)

\* No line joins what was written before a truncation, or to one file, to what
\* was written after it: as long as the follower keeps up, for every size of
\* the files, of a poll, of the sample and of the tail.
THEOREM NoSplicedLineHolds ==
    ASSUME KeepsUp PROVE TailerSpec => []NoSplicedLine
<1>1. TailerInit => Kept
  BY InitKept DEF TailerInit
<1>2. Kept /\ [TailerNext]_tailerVars => Kept'
  BY StreamStep, StreamStepKept
<1>3. Kept => NoSplicedLine
  BY DEF Kept, LinesInv
<1> QED
  BY <1>1, <1>2, <1>3, PTL DEF TailerSpec

\* Only a truncation makes the stream answer a line twice: as long as nothing is
\* truncated and the follower keeps up, what a poll answers was not answered
\* before, over renames at any step of a poll.
THEOREM OnceWithoutTruncation ==
    ASSUME KeepsUp PROVE Spec => [](truncated = 0 => NoLineTwice)
<1>1. Init => Kept
  BY InitKept
<1>2. Kept /\ [Next]_vars => Kept'
  BY StreamStepKept
<1>3. Kept => (truncated = 0 => NoLineTwice)
  <2> SUFFICES ASSUME Kept, truncated = 0, at = "respond"
               PROVE  BytesOf(lines) \cap delivered = {}
    BY DEF NoLineTwice
  <2>1. LinesInv /\ lines \in Seq(Seq(Bytes)) /\ from \in Int /\ MaxBytes \in Int
    BY LogStreamAssumption DEF Kept, StreamTypes, TypeOK
  <2>2. CASE from = 0
    BY <2>1, <2>2 DEF LinesInv
  <2>3. CASE from # 0
    <3>1. PICK x \in from .. MaxBytes + 1 :
              delivered = from .. (x - 1) /\ Contiguous(lines, x, NextByte - Len(buf))
      BY <2>1, <2>3 DEF LinesInv
    <3> DEFINE y == NextByte - Len(buf)
    <3>2. Contiguous(lines, x, y) /\ x \in Int
      BY <2>1, <3>1
    <3> HIDE DEF y
    <3>3. BytesOf(lines) = x .. (y - 1) /\ y \in Int
      BY <2>1, <3>2, BytesOfLines
    <3> QED
      BY <2>1, <3>1, <3>2, <3>3
  <2> QED
    BY <2>2, <2>3
<1> QED
  BY <1>1, <1>2, <1>3, PTL DEF Spec

(***************************************************************************)
(* run, and the lines that are under way to the command.                   *)
(***************************************************************************)

LEMMA RunKept ==
    ASSUME RunInv, [TailerNext]_tailerVars PROVE RunInv'
<1>1. CASE Write \/ UNCHANGED tailerVars
  BY <1>1 DEF RunInv, Write, Writer, Append1, rotateLog, openLogFile, Truncate, runVars, ends,
              tailerVars, vars, poll
<1>2. CASE Poll
  BY <1>2 DEF RunInv, Poll, pollStep, StatPath, StatFile, CheckPrefix, Read, Drain, Open, First, Go,
              runVars, ends
<1>3. CASE Ask
  BY <1>3 DEF RunInv, Ask, Request, Go, ends
<1>4. CASE Collect
  BY <1>4 DEF RunInv, Collect, Respond, ends
<1>5. CASE Emit \/ Take \/ Return
  BY <1>5 DEF RunInv, Emit, Take, Return, runVars, ends, vars, poll
<1>6. CASE Close \/ Leave \/ Interrupt \/ GiveUp
  BY <1>6 DEF RunInv, Close, Leave, Interrupt, GiveUp, ends
<1> QED
  BY <1>1, <1>2, <1>3, <1>4, <1>5, <1>6 DEF TailerNext, run

LEMMA SameEnd ==
    ASSUME NEW a \in Int, NEW b \in Int, NEW c \in Int, a <= b, a <= c,
           a .. (b - 1) = a .. (c - 1)
    PROVE  b = c
<1>1. CASE b < c
  <2>1. b \in a .. (c - 1) /\ b \notin a .. (b - 1)
    BY <1>1
  <2> QED
    BY <2>1
<1>2. CASE c < b
  <2>1. c \in a .. (b - 1) /\ c \notin a .. (c - 1)
    BY <1>2
  <2> QED
    BY <2>1
<1> QED
  BY <1>1, <1>2

\* out and pending hold what was answered last.
Sent ==
    \E w \in from .. MaxBytes + 1 : \E x \in w .. MaxBytes + 1 :
        delivered = from .. (x - 1) /\ Contiguous(out \o pending, w, x)

LEMMA SentParts ==
    SentInv <=> (~cancelled => /\ from = 0 => out = <<>> /\ pending = <<>>
                               /\ truncated = 0 /\ from # 0 => Sent)
  BY DEF SentInv, Sent

\* A step that answers nothing and sends nothing.
LEMMA SentStill ==
    ASSUME SentInv, UNCHANGED <<delivered, from, out, pending>>, ~cancelled' => ~cancelled,
           truncated' = 0 => truncated = 0
    PROVE  SentInv'
<1>0. delivered' = delivered /\ from' = from /\ out' \o pending' = out \o pending
  OBVIOUS
<1>1. Sent => Sent'
  BY <1>0, Zenon DEF Sent
<1> QED
  BY <1>1, SentParts DEF SentInv, Sent

LEMMA SentOpen ==
    ASSUME Types, Kept, SentInv, Open, UNCHANGED <<runVars, ends>> PROVE SentInv'
<1>u. UNCHANGED <<delivered, out, pending, cancelled, truncated>>
  BY DEF Open, Go, runVars, ends, files
<1>1. CASE from # 0 \/ path = 0
  <2>1. from' = from
    BY <1>1 DEF Open
  <2> QED
    BY <1>u, <2>1, SentStill
<1>2. CASE from = 0
  <2>1. delivered = {} /\ (~cancelled => out = <<>> /\ pending = <<>>)
    BY <1>2 DEF Kept, LinesInv, SentInv
  <2>2. from' \in 0 .. MaxBytes + 1 /\ MaxBytes \in Nat
    BY PollTypes, LogStreamAssumption DEF Kept, StreamTypes, TypeOK, pollStep
  <2>3. ASSUME ~cancelled PROVE Sent'
    <3>1. out' \o pending' = <<>>
      BY <1>u, <2>1, <2>3
    <3>2. Contiguous(out' \o pending', from', from')
      BY <3>1, NoLines
    <3>3. delivered' = from' .. (from' - 1) /\ from' \in from' .. MaxBytes + 1
      <4>1. delivered' = {} /\ from' \in Int /\ from' <= MaxBytes + 1
        BY <1>u, <2>1, <2>2
      <4>2. \A n \in Int : n .. (n - 1) = {} /\ \A m \in Int : n <= m => n \in n .. m
        OBVIOUS
      <4>3. MaxBytes + 1 \in Int
        BY <2>2
      <4> QED
        BY <4>1, <4>2, <4>3
    <3> QED
      BY <3>2, <3>3 DEF Sent
  <2> QED
    BY <1>u, <2>1, <2>3 DEF SentInv, Sent
<1> QED
  BY <1>1, <1>2

LEMMA SentCollect ==
    ASSUME Types, Kept, RunInv, SentInv, Collect PROVE SentInv'
<1>s. /\ co = "collect" /\ at = "respond" /\ pending' = lines /\ out' = out
      /\ cancelled' = cancelled /\ truncated' = truncated /\ from' = from
      /\ delivered' = delivered \cup BytesOf(lines)
  BY DEF Collect, Respond, ends, files
<1>t. /\ pending = <<>> /\ out \in Seq(Seq(Bytes)) /\ lines \in Seq(Seq(Bytes)) /\ from \in Nat
      /\ MaxBytes \in Nat
  BY <1>s, LogStreamAssumption DEF Types, TailerTypeOK, TypeOK
<1>1. ASSUME ~cancelled, from = 0 PROVE out' = <<>> /\ pending' = <<>>
  BY <1>1, <1>s DEF SentInv, Kept, LinesInv
<1>2. ASSUME ~cancelled, truncated = 0, from # 0 PROVE Sent'
  <2>p. PICK w \in from .. MaxBytes + 1 : \E x \in w .. MaxBytes + 1 :
             delivered = from .. (x - 1) /\ Contiguous(out \o pending, w, x)
    BY <1>2 DEF SentInv
  <2>1. PICK x \in w .. MaxBytes + 1 :
             delivered = from .. (x - 1) /\ Contiguous(out \o pending, w, x)
    BY <2>p
  <2>2. PICK v \in from .. MaxBytes + 1 :
             delivered = from .. (v - 1) /\ Contiguous(lines, v, NextByte - Len(buf))
    BY <1>2, <1>s DEF Kept, LinesInv
  <2> DEFINE y == NextByte - Len(buf)
  <2>3. w \in Int /\ x \in Int /\ v \in Int /\ from <= w /\ w <= x /\ from <= v
        /\ x \in from .. MaxBytes + 1
    BY <1>t
  <2>4. x = v
    BY <1>t, <2>1, <2>2, <2>3, SameEnd
  <2>5. Contiguous(lines, x, y)
    BY <2>2, <2>4
  <2> HIDE DEF y
  <2>6. y \in x .. MaxBytes + 1 /\ (from .. (x - 1)) \cup BytesOf(lines) = from .. (y - 1)
    BY <1>t, <2>3, <2>5, Extended
  <2>7. out \o pending = out
    BY <1>t
  <2>8. Contiguous(out \o lines, w, y)
    BY <1>t, <2>1, <2>3, <2>5, <2>7, Joined
  <2>9. delivered' = from' .. (y - 1) /\ Contiguous(out' \o pending', w, y)
    BY <1>s, <2>1, <2>6, <2>8
  <2>10. w \in from' .. MaxBytes + 1 /\ y \in w .. MaxBytes + 1
    BY <1>s, <1>t, <2>3, <2>6
  <2> QED
    BY <2>9, <2>10 DEF Sent
<1> QED
  BY <1>1, <1>2, <1>s DEF SentInv, Sent

LEMMA SentEmit ==
    ASSUME Types, SentInv, Emit PROVE SentInv'
<1>s. /\ UNCHANGED <<delivered, from, truncated, cancelled>> /\ pending # <<>>
      /\ out' = Append(out, Head(pending)) /\ pending' = Tail(pending)
  BY DEF Emit, vars, files, ends, Types, TailerTypeOK
<1>t. out \in Seq(Seq(Bytes)) /\ pending \in Seq(Seq(Bytes))
  BY DEF Types, TailerTypeOK
<1>1. out' \o pending' = out \o pending
  <2>1. pending = <<Head(pending)>> \o Tail(pending)
    BY <1>s, <1>t
  <2>2. Head(pending) \in Seq(Bytes) /\ Tail(pending) \in Seq(Seq(Bytes))
    BY <1>s, <1>t, HeadTailProperties
  <2>3. Append(out, Head(pending)) = out \o <<Head(pending)>>
    BY <1>t, <2>2
  <2>4. (out \o <<Head(pending)>>) \o Tail(pending) = out \o (<<Head(pending)>> \o Tail(pending))
    BY <1>t, <2>2
  <2> QED
    BY <1>s, <2>1, <2>3, <2>4
<1>2. Sent => Sent'
  BY <1>1, <1>s, Zenon DEF Sent
<1> QED
  BY <1>2, <1>s DEF SentInv, Sent

LEMMA SentTake ==
    ASSUME Types, SentInv, Take PROVE SentInv'
<1>s. /\ UNCHANGED <<delivered, from, truncated, cancelled, pending>> /\ out # <<>>
      /\ out' = Tail(out)
  BY DEF Take, vars, files, ends
<1>t. out \in Seq(Seq(Bytes)) /\ pending \in Seq(Seq(Bytes)) /\ MaxBytes \in Nat /\ from \in Nat
  BY LogStreamAssumption DEF Types, TailerTypeOK, TypeOK
<1>1. ASSUME ~cancelled, truncated = 0, from # 0 PROVE Sent'
  <2>p. PICK w \in from .. MaxBytes + 1 : \E x \in w .. MaxBytes + 1 :
             delivered = from .. (x - 1) /\ Contiguous(out \o pending, w, x)
    BY <1>1 DEF SentInv
  <2>1. PICK x \in w .. MaxBytes + 1 :
             delivered = from .. (x - 1) /\ Contiguous(out \o pending, w, x)
    BY <2>p
  <2> DEFINE ls == out \o pending
  <2>2. ls \in Seq(Seq(Bytes)) /\ ls # <<>> /\ Tail(ls) = Tail(out) \o pending
    BY <1>s, <1>t
  <2>3. Contiguous(Tail(ls), w + Len(ls[1]), x) /\ Len(ls[1]) \in Nat /\ w \in Int
    <3>1. w \in Int /\ Contiguous(ls, w, x)
      BY <1>t, <2>1
    <3> HIDE DEF ls
    <3> QED
      BY <2>2, <3>1, WithoutFirst
  <2>4. w + Len(ls[1]) \in from .. MaxBytes + 1 /\ x \in (w + Len(ls[1])) .. MaxBytes + 1
    <3>1. w + Len(ls[1]) <= x
      <4> DEFINE v == w + Len(ls[1])
      <4>1. v \in Int /\ Tail(ls) \in Seq(Seq(Bytes)) /\ Contiguous(Tail(ls), v, x)
        BY <2>2, <2>3, HeadTailProperties
      <4> HIDE DEF v, ls
      <4>2. v <= x
        BY <4>1, BytesOfLines
      <4> QED
        BY <4>2 DEF v
    <3> HIDE DEF ls
    <3> QED
      BY <1>t, <2>3, <3>1
  <2>5. Contiguous(out' \o pending', w + Len(ls[1]), x)
    BY <1>s, <2>2, <2>3
  <2> HIDE DEF ls
  <2> QED
    BY <1>s, <2>1, <2>4, <2>5 DEF Sent
<1>2. ASSUME ~cancelled, from = 0 PROVE FALSE
  BY <1>2, <1>s DEF SentInv
<1> QED
  BY <1>1, <1>2, <1>s DEF SentInv, Sent

LEMMA SentKept ==
    ASSUME Types, Kept, RunInv, SentInv, [TailerNext]_tailerVars PROVE SentInv'
<1>1. CASE Write
  <2>1. truncated' = 0 => truncated = 0
    <3>1. truncated \in Nat
      BY LogStreamAssumption DEF Types, TailerTypeOK, TypeOK
    <3> QED
      BY <1>1, <3>1 DEF Write, Writer, Append1, rotateLog, openLogFile, Truncate
  <2> QED
    BY <1>1, <2>1, SentStill
       DEF Write, Writer, Append1, rotateLog, openLogFile, Truncate, runVars, ends
<1>2. CASE Poll
  <2>1. CASE Open
    BY <1>2, <2>1, SentOpen DEF Poll
  <2>2. CASE pollStep /\ ~Open
    BY <1>2, <2>2, SentStill
       DEF Poll, pollStep, StatPath, StatFile, CheckPrefix, Read, Drain, First, runVars, ends, files
  <2> QED
    BY <1>2, <2>1, <2>2 DEF Poll
<1>3. CASE Ask \/ Return \/ UNCHANGED tailerVars
  BY <1>3, SentStill DEF Ask, Request, Return, tailerVars, vars, files, runVars, ends
<1>4. CASE Close \/ Leave \/ Interrupt \/ GiveUp
  BY <1>4 DEF Close, Leave, Interrupt, GiveUp, SentInv, ends
<1> QED
  BY <1>1, <1>2, <1>3, <1>4, SentCollect, SentEmit, SentTake DEF TailerNext, run

(***************************************************************************)
(* What arrives.                                                           *)
(***************************************************************************)

\* The bytes of the lines of two sequences.
LEMMA BytesOfBoth ==
    ASSUME NEW ls \in Seq(Seq(Bytes)), NEW ms \in Seq(Seq(Bytes))
    PROVE  BytesOf(ls \o ms) = BytesOf(ls) \cup BytesOf(ms)
<1> DEFINE ns == ls \o ms
<1>1. /\ Len(ls) \in Nat /\ Len(ms) \in Nat /\ Len(ns) = Len(ls) + Len(ms)
      /\ \A i \in 1 .. Len(ls) : ns[i] = ls[i]
      /\ \A i \in 1 .. Len(ms) : ns[Len(ls) + i] = ms[i]
      /\ \A i \in 1 .. Len(ns) : i \in 1 .. Len(ls) \/ i - Len(ls) \in 1 .. Len(ms)
  OBVIOUS
<1> HIDE DEF ns
<1>2. ASSUME NEW b \in BytesOf(ns) PROVE b \in BytesOf(ls) \cup BytesOf(ms)
  <2>1. PICK i \in 1 .. Len(ns) : b \in Range(ns[i])
    BY DEF BytesOf
  <2>2. CASE i \in 1 .. Len(ls)
    BY <1>1, <2>1, <2>2 DEF BytesOf
  <2>3. CASE i - Len(ls) \in 1 .. Len(ms)
    <3> DEFINE k == i - Len(ls)
    <3>1. k \in 1 .. Len(ms) /\ Len(ls) + k = i
      BY <1>1, <2>3
    <3> HIDE DEF k
    <3>2. ns[i] = ms[k]
      BY <1>1, <3>1
    <3> QED
      BY <2>1, <3>1, <3>2 DEF BytesOf
  <2> QED
    BY <1>1, <2>2, <2>3
<1>3. ASSUME NEW b \in BytesOf(ls) PROVE b \in BytesOf(ns)
  <2>1. PICK i \in 1 .. Len(ls) : b \in Range(ls[i])
    BY DEF BytesOf
  <2>2. i \in 1 .. Len(ns) /\ ns[i] = ls[i]
    BY <1>1
  <2> QED
    BY <2>1, <2>2 DEF BytesOf
<1>4. ASSUME NEW b \in BytesOf(ms) PROVE b \in BytesOf(ns)
  <2>1. PICK i \in 1 .. Len(ms) : b \in Range(ms[i])
    BY DEF BytesOf
  <2>2. Len(ls) + i \in 1 .. Len(ns) /\ ns[Len(ls) + i] = ms[i]
    BY <1>1
  <2> QED
    BY <2>1, <2>2 DEF BytesOf
<1>5. BytesOf(ns) = BytesOf(ls) \cup BytesOf(ms)
  BY <1>2, <1>3, <1>4
<1> QED
  BY <1>5 DEF ns

\* The lines of u follow each other from the byte after b, whatever their ends.
FollowsOn(u, b) ==
    \A i \in 1 .. Len(u) :
        /\ u[i][1] = 1 + (IF i = 1 THEN b ELSE Last(u[i - 1]))
        /\ \A j \in 2 .. Len(u[i]) : u[i][j] = u[i][j - 1] + 1

LEMMA ContiguousFollowsOn ==
    ASSUME NEW u \in Seq(Seq(Bytes)), NEW w \in Int, NEW z, Contiguous(u, w, z)
    PROVE  FollowsOn(u, w - 1)
<1>1. PICK p : Chain(u, p) /\ p[0] = w /\ p[Len(u)] = z
  BY ChainPlaces
<1>2. ASSUME NEW i \in 1 .. Len(u)
      PROVE  /\ u[i] \in Seq(Bytes) /\ Len(u[i]) \in Nat /\ Len(u[i]) > 0
             /\ p[i - 1] \in Int /\ p[i] = p[i - 1] + Len(u[i])
             /\ \A j \in 1 .. Len(u[i]) : u[i][j] = p[i - 1] + j - 1
  <2>1. u[i] \in Seq(Bytes) /\ i - 1 \in 0 .. Len(u)
    OBVIOUS
  <2>2. p \in [0 .. Len(u) -> Int] /\ Stretch(u[i], p[i - 1], p[i])
    BY <1>1 DEF Chain
  <2>3. Len(u[i]) \in Nat /\ p[i - 1] \in Int
    <3>1. Len(u[i]) \in Nat
      BY <2>1
    <3>2. \A k \in 0 .. Len(u) : p[k] \in Int
      BY <2>2
    <3> QED
      BY <2>1, <3>1, <3>2
  <2>4. /\ Len(u[i]) > 0 /\ p[i] = p[i - 1] + Len(u[i])
        /\ \A j \in 1 .. Len(u[i]) : u[i][j] = p[i - 1] + j - 1
    BY <2>2 DEF Stretch, Consecutive
  <2> QED
    BY <2>1, <2>3, <2>4
<1>3. ASSUME NEW i \in 1 .. Len(u)
      PROVE  u[i][1] = 1 + (IF i = 1 THEN w - 1 ELSE Last(u[i - 1]))
  <2>1. u[i][1] = p[i - 1]
    <3>1. 1 \in 1 .. Len(u[i]) /\ p[i - 1] \in Int
      BY <1>2
    <3>2. u[i][1] = p[i - 1] + 1 - 1
      BY <1>2, <3>1
    <3> QED
      BY <3>1, <3>2
  <2>2. CASE i = 1
    <3>1. p[i - 1] = w
      BY <1>1, <2>2
    <3> QED
      BY <2>1, <2>2, <3>1
  <2>3. CASE i # 1
    <3> DEFINE k == i - 1
    <3>1. k \in 1 .. Len(u)
      BY <2>3
    <3> HIDE DEF k
    <3>2. /\ Len(u[k]) \in Nat /\ Len(u[k]) > 0 /\ p[k - 1] \in Int
          /\ p[k] = p[k - 1] + Len(u[k])
      BY <1>2, <3>1
    <3>3. u[k][Len(u[k])] = p[k - 1] + Len(u[k]) - 1
      <4>1. Len(u[k]) \in 1 .. Len(u[k])
        BY <3>2
      <4> QED
        BY <1>2, <3>1, <4>1
    <3>4. Last(u[k]) = p[k] - 1 /\ p[k] \in Int
      BY <3>2, <3>3 DEF Last
    <3>5. p[k] = 1 + Last(u[k])
      BY <3>4
    <3> QED
      BY <2>1, <2>3, <3>5 DEF k
  <2> QED
    BY <2>2, <2>3
<1>4. ASSUME NEW i \in 1 .. Len(u), NEW j \in 2 .. Len(u[i])
      PROVE  u[i][j] = u[i][j - 1] + 1
  <2>1. /\ Len(u[i]) \in Nat /\ p[i - 1] \in Int
        /\ \A k \in 1 .. Len(u[i]) : u[i][k] = p[i - 1] + k - 1
    BY <1>2
  <2>2. j \in 1 .. Len(u[i]) /\ j - 1 \in 1 .. Len(u[i])
    BY <2>1
  <2>3. u[i][j] = p[i - 1] + j - 1 /\ u[i][j - 1] = p[i - 1] + (j - 1) - 1
    BY <2>1, <2>2
  <2>4. \A a, b \in Int : a + b - 1 = (a + (b - 1) - 1) + 1
    OBVIOUS
  <2>5. p[i - 1] + j - 1 = (p[i - 1] + (j - 1) - 1) + 1
    <3>1. j \in Int /\ p[i - 1] \in Int
      BY <2>1
    <3> HIDE DEF Chain
    <3> QED
      BY <2>4, <3>1, Zenon
  <2> QED
    BY <2>3, <2>5, Zenon
<1> QED
  BY <1>3, <1>4 DEF FollowsOn

LEMMA InOrder ==
    ASSUME Types, Kept, SentInv PROVE ExactlyOnce
<1>t. /\ out \in Seq(Seq(Bytes)) /\ pending \in Seq(Seq(Bytes)) /\ lines \in Seq(Seq(Bytes))
      /\ from \in Nat /\ MaxBytes \in Nat
  BY LogStreamAssumption DEF Types, TailerTypeOK, TypeOK
<1> DEFINE sent == out \o pending
           ls == IF at = "respond" THEN lines ELSE <<>>
<1>u. sent \in Seq(Seq(Bytes)) /\ ls \in Seq(Seq(Bytes)) /\ UnderWay = sent \o ls
  BY <1>t DEF UnderWay
<1> SUFFICES ASSUME truncated = 0, ~cancelled PROVE FollowsOn(UnderWay, Upto)
  BY DEF ExactlyOnce, FollowsOn
<1>1. CASE from = 0
  <2>1. sent = <<>> /\ ls = <<>>
    BY <1>1, <1>t DEF SentInv, Kept, LinesInv
  <2>2. UnderWay = <<>>
    BY <1>u, <2>1
  <2> QED
    BY <2>2 DEF FollowsOn
<1>2. CASE from # 0
  <2>p. PICK w \in from .. MaxBytes + 1 : \E x \in w .. MaxBytes + 1 :
             delivered = from .. (x - 1) /\ Contiguous(sent, w, x)
    BY <1>2 DEF SentInv
  <2>1. PICK x \in w .. MaxBytes + 1 : delivered = from .. (x - 1) /\ Contiguous(sent, w, x)
    BY <2>p
  <2>i. w \in Int /\ x \in Int /\ from <= w /\ w <= x
    BY <1>t
  <2>2. \E z : Contiguous(ls, x, z)
    <3>1. CASE at = "respond"
      <4>1. PICK v \in from .. MaxBytes + 1 :
                 delivered = from .. (v - 1) /\ Contiguous(lines, v, NextByte - Len(buf))
        BY <1>2, <3>1 DEF Kept, LinesInv
      <4>2. v = x
        BY <1>t, <2>1, <2>i, <4>1, SameEnd
      <4> QED
        BY <3>1, <4>1, <4>2
    <3>2. CASE at # "respond"
      BY <3>2, NoLines
    <3> QED
      BY <3>1, <3>2
  <2>3. PICK z : Contiguous(ls, x, z)
    BY <2>2
  <2> HIDE DEF ls
  <2>b. BytesOf(sent) = w .. (x - 1)
    <3> HIDE DEF sent
    <3> QED
      BY <1>u, <2>1, <2>i, BytesOfLines
  <2>4. Arrived = from .. (w - 1)
    <3>1. BytesOf(sent) = BytesOf(out) \cup BytesOf(pending)
      BY <1>t, BytesOfBoth
    <3>2. Arrived = (from .. (x - 1)) \ (w .. (x - 1))
      BY <2>1, <2>b, <3>1 DEF Arrived
    <3> QED
      BY <1>t, <2>i, <3>2
  <2>5. Upto = w - 1
    <3>1. CASE w = from
      <4>1. Arrived = {}
        BY <2>4, <2>i, <3>1
      <4> QED
        BY <3>1, <4>1 DEF Upto
    <3>2. CASE w # from
      <4>1. /\ w - 1 \in Arrived /\ \A c \in Arrived : c <= w - 1 /\ c \in Int
        BY <1>t, <2>4, <2>i, <3>2
      <4>2. \A b \in Arrived : (\A c \in Arrived : c <= b) => b = w - 1
        BY <2>i, <4>1
      <4>3. (CHOOSE b \in Arrived : \A c \in Arrived : c <= b) = w - 1
        BY <4>1, <4>2
      <4> QED
        BY <4>1, <4>3 DEF Upto
    <3> QED
      BY <3>1, <3>2
  <2> HIDE DEF sent
  <2>6. Contiguous(UnderWay, w, z) /\ UnderWay \in Seq(Seq(Bytes))
    BY <1>u, <2>1, <2>3, <2>i, Joined
  <2> QED
    BY <2>5, <2>6, <2>i, ContiguousFollowsOn
<1> QED
  BY <1>1, <1>2

\* IInv, with the parts that hold only as long as the follower keeps up.
Following == Types /\ Kept /\ RunInv /\ SentInv

LEMMA FollowingInit ==
    ASSUME TailerInit PROVE Following
<1>1. Types /\ Kept
  BY TailerInitTypes, InitKept DEF TailerInit
<1>2. RunInv /\ SentInv
  BY DEF TailerInit, Init, RunInv, SentInv
<1> QED
  BY <1>1, <1>2 DEF Following

LEMMA FollowingKept ==
    ASSUME KeepsUp, Following, [TailerNext]_tailerVars PROVE Following'
<1>1. Types' /\ Kept'
  BY TailerStepTypes, StreamStep, StreamStepKept DEF Following
<1>2. RunInv' /\ SentInv'
  BY RunKept, SentKept DEF Following
<1> QED
  BY <1>1, <1>2 DEF Following

\* Over renames, limits of a poll, half written lines and a full channel, the
\* command takes every byte of the log once and in order, from the first one it
\* is owed, as long as nothing is truncated and the follower keeps up: for every
\* tail, every limit and every size of the channel.
THEOREM ExactlyOnceHolds ==
    ASSUME KeepsUp PROVE TailerSpec => []ExactlyOnce
<1>1. TailerInit => Following
  BY FollowingInit
<1>2. Following /\ [TailerNext]_tailerVars => Following'
  BY FollowingKept
<1>3. Following => ExactlyOnce
  BY InOrder DEF Following
<1> QED
  BY <1>1, <1>2, <1>3, PTL DEF TailerSpec

\* What the proofs rest on, which the runs check too: the types and sizes
\* always, the rest as long as the follower keeps up.
THEOREM IInvHolds == TailerSpec => []IInv
<1> DEFINE Inv == Types /\ (KeepsUp => Following)
<1>1. TailerInit => Inv
  BY TailerInitTypes, FollowingInit
<1>2. Inv /\ [TailerNext]_tailerVars => Inv'
  BY TailerStepTypes, FollowingKept
<1>3. Inv => IInv
  BY DEF IInv, Following, Kept, Types, StreamInv
<1> QED
  BY <1>1, <1>2, <1>3, PTL DEF TailerSpec
=============================================================================
