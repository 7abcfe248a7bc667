----------------------------- MODULE DataProofs -----------------------------
(***************************************************************************)
(* What the other proofs need to know about numbers, lists and loops.      *)
(***************************************************************************)
EXTENDS Integers, SequencesExt, SequenceTheorems, FiniteSetTheorems,
        WellFoundedInduction, TLAPS

\* A set of numbers has a least one.
LEMMA LeastExists ==
    ASSUME NEW S \in SUBSET Nat, S # {}
    PROVE  \E x \in S : \A y \in S : x <= y
<1>1. PICK x \in S : \A y \in S : ~(<< y, x >> \in OpToRel(<, Nat))
  BY NatLessThanWellFounded, WFMin
<1>2. ASSUME NEW y \in S PROVE ~(y < x)
  <2>1. << y, x >> \in Nat \X Nat
    OBVIOUS
  <2>2. << y, x >>[1] = y /\ << y, x >>[2] = x
    OBVIOUS
  <2> QED  BY <1>1, <2>1, <2>2, Zenon DEF OpToRel
<1>3. \A y \in S : x <= y
  BY ONLY <1>2, x \in S, S \in SUBSET Nat
<1> QED  BY <1>3

-----------------------------------------------------------------------------
(* Lists.                                                                  *)

\* Inserting an element at any place of a list gives a list.
LEMMA InsertAtType ==
    ASSUME NEW S, NEW s \in Seq(S), NEW x \in S, NEW k \in 1 .. Len(s) + 1
    PROVE  InsertAt(s, k, x) \in Seq(S)
<1>1. SubSeq(s, 1, k - 1) \in Seq(S)
    BY SubSeqProperties
<1>2. SubSeq(s, k, Len(s)) \in Seq(S)
    BY SubSeqProperties
<1>3. << x >> \in Seq(S)
    OBVIOUS
<1>4. QED
    BY <1>1, <1>2, <1>3, ConcatProperties DEF InsertAt

\* Inserting into a list shifts what is behind.
LEMMA InsertAtElements ==
    ASSUME NEW S, NEW s \in Seq(S), NEW x \in S, NEW k \in 1 .. Len(s) + 1
    PROVE  /\ Len(InsertAt(s, k, x)) = Len(s) + 1
           /\ \A i \in 1 .. Len(s) + 1 :
                 InsertAt(s, k, x)[i] = IF i < k THEN s[i]
                                        ELSE IF i = k THEN x ELSE s[i - 1]
<1>0. Len(s) \in Nat
    OBVIOUS
<1> DEFINE a == SubSeq(s, 1, k - 1)
           b == SubSeq(s, k, Len(s))
<1>1. a \in Seq(S) /\ Len(a) = k - 1 /\ \A i \in 1 .. k - 1 : a[i] = s[i]
    BY SubSeqProperties
<1>2. b \in Seq(S) /\ Len(b) = Len(s) + 1 - k
      /\ \A i \in 1 .. Len(s) + 1 - k : b[i] = s[k + i - 1]
    BY SubSeqProperties
<1>3. InsertAt(s, k, x) = a \o << x >> \o b
    BY DEF InsertAt
<1> HIDE DEF a, b
<1>4. a \o << x >> \in Seq(S) /\ Len(a \o << x >>) = k
      /\ \A i \in 1 .. k : (a \o << x >>)[i] = IF i < k THEN s[i] ELSE x
    BY <1>1
<1> DEFINE c == a \o << x >>
<1> HIDE DEF c
<1>5. c \in Seq(S) /\ Len(c) = k
      /\ \A i \in 1 .. k : c[i] = IF i < k THEN s[i] ELSE x
    BY <1>4 DEF c
<1> DEFINE d == c \o b
<1>6. Len(d) = Len(s) + 1
      /\ \A i \in 1 .. Len(s) + 1 : d[i] = IF i <= k THEN c[i] ELSE b[i - k]
    BY <1>2, <1>5, ConcatProperties
<1> HIDE DEF d
<1>7. \A i \in 1 .. Len(s) + 1 : d[i] = IF i < k THEN s[i]
                                      ELSE IF i = k THEN x ELSE s[i - 1]
  <2> SUFFICES ASSUME NEW i \in 1 .. Len(s) + 1
               PROVE  d[i] = IF i < k THEN s[i] ELSE IF i = k THEN x ELSE s[i - 1]
      OBVIOUS
  <2>1. CASE i <= k
      BY <1>5, <1>6, <2>1
  <2>2. CASE i > k
    <3>1. i - k \in 1 .. Len(s) + 1 - k /\ k + (i - k) - 1 = i - 1
        BY <2>2
    <3>2. b[i - k] = s[i - 1]
        BY <1>2, <3>1
    <3>3. QED
        BY <1>6, <2>2, <3>2
  <2>3. QED
      BY <1>0, <2>1, <2>2
<1>8. QED
    BY <1>3, <1>6, <1>7 DEF c, d

\* Removing an element closes the gap.
LEMMA RemoveAtElements ==
    ASSUME NEW S, NEW s \in Seq(S), NEW k \in 1 .. Len(s)
    PROVE  /\ Len(RemoveAt(s, k)) = Len(s) - 1
           /\ \A i \in 1 .. Len(s) - 1 :
                 RemoveAt(s, k)[i] = IF i < k THEN s[i] ELSE s[i + 1]
<1>0. Len(s) \in Nat
    OBVIOUS
<1> DEFINE a == SubSeq(s, 1, k - 1)
           b == SubSeq(s, k + 1, Len(s))
<1>1. a \in Seq(S) /\ Len(a) = k - 1 /\ \A i \in 1 .. k - 1 : a[i] = s[i]
    BY SubSeqProperties
<1>2. b \in Seq(S) /\ Len(b) = Len(s) - k
      /\ \A i \in 1 .. Len(s) - k : b[i] = s[k + i]
    BY SubSeqProperties
<1>3. RemoveAt(s, k) = a \o b
    BY DEF RemoveAt
<1> HIDE DEF a, b
<1> DEFINE d == a \o b
<1>4. Len(d) = Len(s) - 1
      /\ \A i \in 1 .. Len(s) - 1 : d[i] = IF i <= k - 1 THEN a[i] ELSE b[i - (k - 1)]
    BY <1>1, <1>2, ConcatProperties
<1> HIDE DEF d
<1>5. ASSUME NEW i \in 1 .. Len(s) - 1
      PROVE  d[i] = IF i < k THEN s[i] ELSE s[i + 1]
  <2>1. CASE i < k
      BY <1>1, <1>4, <2>1
  <2>2. CASE i >= k
    <3>1. i - (k - 1) \in 1 .. Len(s) - k /\ k + (i - (k - 1)) = i + 1
        BY <2>2
    <3>2. b[i - (k - 1)] = s[i + 1]
        BY <1>2, <3>1
    <3>3. QED
        BY <1>4, <2>2, <3>2
  <2>3. QED
      BY <1>0, <2>1, <2>2
<1>6. QED
    BY <1>3, <1>4, <1>5 DEF d

LEMMA AppendElements ==
    ASSUME NEW S, NEW s \in Seq(S), NEW x \in S
    PROVE  /\ Len(Append(s, x)) = Len(s) + 1
           /\ \A i \in 1 .. Len(s) + 1 :
                 Append(s, x)[i] = IF i = Len(s) + 1 THEN x ELSE s[i]
OBVIOUS

\* A list without duplicates is as long as it has elements.
LEMMA LengthIsCardinality ==
    ASSUME NEW S, NEW s \in Seq(S), \A i, j \in 1 .. Len(s) : s[i] = s[j] => i = j
    PROVE  Cardinality(ToSet(s)) = Len(s)
<1>1. DOMAIN s = 1 .. Len(s) /\ Len(s) \in Nat
  OBVIOUS
<1>2. s \in [1 .. Len(s) -> ToSet(s)]
  BY <1>1 DEF ToSet
<1>3. s \in Injection(1 .. Len(s), ToSet(s))
  BY <1>1, <1>2 DEF Injection, IsInjective
<1>4. s \in Surjection(1 .. Len(s), ToSet(s))
  BY <1>1, <1>2 DEF Surjection, ToSet
<1>5. s \in Bijection(1 .. Len(s), ToSet(s))
  BY <1>3, <1>4 DEF Bijection
<1>6. ExistsBijection(1 .. Len(s), ToSet(s))
  BY <1>5 DEF ExistsBijection
<1> QED  BY <1>1, <1>6, FS_CountingElements

-----------------------------------------------------------------------------
(* Loops.  A loop on a set D returns out[x] in a state x where stop[x]      *)
(* holds, and goes on with next[x] otherwise.                               *)

Loop(D, stop, out, next, f) == [x \in D |-> IF stop[x] THEN out[x] ELSE f[next[x]]]

\* The rounds that are left in a state are at most its measure.
Ends(D, stop, next, measure) ==
    /\ measure \in [D -> Nat]
    /\ \A x \in D : ~stop[x] => next[x] \in D /\ measure[next[x]] < measure[x]

\* A set of states has one of least measure.
LEMMA LeastState ==
    ASSUME NEW D, NEW measure \in [D -> Nat], NEW S \in SUBSET D, S # {}
    PROVE  \E x \in S : \A y \in S : measure[x] <= measure[y]
<1> DEFINE T == {measure[x] : x \in S}
<1>1. T \in SUBSET Nat /\ T # {}
  OBVIOUS
<1>2. PICK n \in T : \A k \in T : n <= k
  BY <1>1, LeastExists
<1>3. PICK x \in S : n = measure[x]
  BY <1>2
<1> QED  BY <1>2, <1>3

\* What holds in a set of states the loop does not leave: its result is that of a
\* state of the set where it stops.
LEMMA LoopResult ==
    ASSUME NEW D, NEW stop, NEW out, NEW next, NEW measure, Ends(D, stop, next, measure),
           NEW f, f = Loop(D, stop, out, next, f),
           NEW S \in SUBSET D, \A x \in S : ~stop[x] => next[x] \in S
    PROVE  \A x \in S : \E y \in S : stop[y] /\ f[x] = out[y]
<1> DEFINE Bad == {x \in S : ~ \E y \in S : stop[y] /\ f[x] = out[y]}
<1>1. SUFFICES ASSUME Bad # {} PROVE FALSE
  OBVIOUS
<1>2. PICK x \in Bad : \A y \in Bad : measure[x] <= measure[y]
  <2>1. Bad \in SUBSET D /\ measure \in [D -> Nat]
    BY DEF Ends
  <2> HIDE DEF Bad
  <2> QED  BY <1>1, <2>1, LeastState
<1>3. x \in D /\ x \in S
  BY <1>2
<1>4. f[x] = IF stop[x] THEN out[x] ELSE f[next[x]]
  BY <1>3 DEF Loop
<1>5. CASE stop[x]
  BY <1>2, <1>3, <1>4, <1>5
<1>6. CASE ~stop[x]
  <2>1. next[x] \in S /\ f[x] = f[next[x]]
    BY <1>3, <1>4, <1>6
  <2>2. next[x] \in Bad
    BY <1>2, <2>1
  <2>3. measure[next[x]] < measure[x] /\ measure[next[x]] \in Nat /\ measure[x] \in Nat
    BY <1>3, <1>6 DEF Ends
  <2>4. measure[x] <= measure[next[x]]
    BY <1>2, <2>2
  <2> QED  BY <2>3, <2>4
<1> QED  BY <1>5, <1>6

\* The function of the loop exists: it is put together from the functions that are
\* right on the states with less than n rounds to go.
LEMMA LoopExists ==
    ASSUME NEW D, NEW stop, NEW out, NEW next, NEW measure, Ends(D, stop, next, measure)
    PROVE  \E f : f = Loop(D, stop, out, next, f)
<1> DEFINE Below(n) == {x \in D : measure[x] < n}
           Right(n, g) == \A x \in Below(n) :
                              g[x] = IF stop[x] THEN out[x] ELSE g[next[x]]
<1>1. measure \in [D -> Nat]
  BY DEF Ends
<1>2. ASSUME NEW x \in D, ~stop[x]
      PROVE  next[x] \in D /\ measure[next[x]] < measure[x] /\ measure[next[x]] \in Nat
  BY <1>2, <1>1 DEF Ends
<1>3. \A n \in Nat : \E g : Right(n, g)
  <2> DEFINE Bad == {n \in Nat : ~ \E g : Right(n, g)}
  <2>1. SUFFICES ASSUME Bad # {} PROVE FALSE
    OBVIOUS
  <2>2. PICK n \in Bad : \A k \in Bad : n <= k
    <3>1. Bad \in SUBSET Nat
      OBVIOUS
    <3> HIDE DEF Bad
    <3> QED  BY <2>1, <3>1, LeastExists
  <2>3. n # 0
    <3>1. Below(0) = {}
      BY <1>1
    <3>2. Right(0, out)
      BY <3>1
    <3> QED  BY <2>2, <3>2
  <2>4. n \in Nat /\ n - 1 \in Nat /\ n - 1 \notin Bad
    BY <2>2, <2>3
  <2>5. PICK g : Right(n - 1, g)
    BY <2>4
  <2> DEFINE h == [x \in D |-> IF stop[x] THEN out[x] ELSE g[next[x]]]
  <2>6. ASSUME NEW x \in Below(n)
        PROVE  h[x] = IF stop[x] THEN out[x] ELSE h[next[x]]
    <3>1. CASE stop[x]
      BY <3>1
    <3>2. CASE ~stop[x]
      <4>1. h[x] = g[next[x]]
        BY <3>2
      <4>2. next[x] \in Below(n - 1)
        BY <1>1, <1>2, <2>4, <3>2
      <4>3. g[next[x]] = h[next[x]]
        BY <2>5, <4>2
      <4> QED  BY <3>2, <4>1, <4>3
    <3> QED  BY <3>1, <3>2
  <2>7. Right(n, h)
    BY <2>6
  <2> QED  BY <2>2, <2>7
<1>4. ASSUME NEW n \in Nat, NEW k \in Nat, NEW g, NEW h, Right(n, g), Right(k, h)
      PROVE  \A x \in Below(n) \cap Below(k) : g[x] = h[x]
  <2> DEFINE Bad == {x \in Below(n) \cap Below(k) : g[x] # h[x]}
  <2>1. SUFFICES ASSUME Bad # {} PROVE FALSE
    OBVIOUS
  <2>2. PICK x \in Bad : \A y \in Bad : measure[x] <= measure[y]
    <3>1. Bad \in SUBSET D
      OBVIOUS
    <3> HIDE DEF Bad
    <3> QED  BY <1>1, <2>1, <3>1, LeastState
  <2>3. ~stop[x] /\ g[next[x]] # h[next[x]]
    BY <1>4, <2>2
  <2>4. next[x] \in Bad
    BY <1>1, <1>2, <2>2, <2>3
  <2> QED  BY <1>1, <1>2, <2>2, <2>3, <2>4
<1> DEFINE part == [n \in Nat |-> CHOOSE g : Right(n, g)]
<1>5. \A n \in Nat : Right(n, part[n])
  BY <1>3
<1> DEFINE f == [x \in D |-> part[measure[x] + 1][x]]
<1>6. ASSUME NEW x \in D
      PROVE  f[x] = IF stop[x] THEN out[x] ELSE f[next[x]]
  <2> DEFINE n == measure[x] + 1
  <2>1. n \in Nat /\ x \in Below(n)
    BY <1>1
  <2>2. f[x] = IF stop[x] THEN out[x] ELSE part[n][next[x]]
    BY <1>5, <2>1
  <2>3. ASSUME ~stop[x] PROVE part[n][next[x]] = f[next[x]]
    <3> DEFINE y == next[x]
               k == measure[y] + 1
    <3>1. y \in D /\ k \in Nat /\ y \in Below(k) /\ y \in Below(n)
      BY <1>1, <1>2, <2>1, <2>3
    <3>2. f[y] = part[k][y]
      BY <3>1
    <3>3. Right(n, part[n]) /\ Right(k, part[k])
      BY <1>5, <2>1, <3>1
    <3> HIDE DEF part, Right, Below, k, n, f
    <3>4. part[n][y] = part[k][y]
      BY <1>4, <2>1, <3>1, <3>3
    <3> QED  BY <3>2, <3>4
  <2> QED  BY <2>2, <2>3
<1>7. f = Loop(D, stop, out, next, f)
  <2> HIDE DEF f
  <2>1. f = [x \in D |-> f[x]]
    BY DEF f
  <2> QED  BY <1>6, <2>1 DEF Loop
<1> QED  BY <1>7
=============================================================================
