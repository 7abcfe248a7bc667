------------------------------ MODULE FatProofs -----------------------------
(***************************************************************************)
(* The reader of a FAT32 image takes a path apart as the path means it,    *)
(* and never leaves the path, for every path, every archive and every      *)
(* length.                                                                 *)
(***************************************************************************)
EXTENDS FatReader, DataProofs

-----------------------------------------------------------------------------
(* The numbers of a set in their order.                                     *)

Increasing(s, n) == \A i, j \in 1 .. n : i < j => s[i] < s[j]

\* s lists the n numbers of S.
Lists(s, n, S) ==
    /\ s \in [1 .. n -> S]
    /\ \A x \in S : \E i \in 1 .. n : s[i] = x
    /\ Increasing(s, n)

LEMMA ListExists ==
    ASSUME NEW n \in Nat, NEW S \in SUBSET (1 .. n)
    PROVE  \E k \in Nat : \E s : Lists(s, k, S)
<1> DEFINE Bad == {m \in Nat : \E T \in SUBSET (1 .. m) : ~ \E k \in Nat : \E s : Lists(s, k, T)}
<1>1. SUFFICES ASSUME Bad # {} PROVE FALSE
  OBVIOUS
<1>2. PICK m \in Bad : \A l \in Bad : m <= l
  <2>1. Bad \in SUBSET Nat
    OBVIOUS
  <2> HIDE DEF Bad
  <2> QED  BY <1>1, <2>1, LeastExists
<1>3. PICK T \in SUBSET (1 .. m) : ~ \E k \in Nat : \E s : Lists(s, k, T)
  BY <1>2
<1>4. m # 0
  <2>1. SUFFICES ASSUME m = 0 PROVE FALSE
    OBVIOUS
  <2>2. T = {}
    BY <2>1
  <2>3. Lists(<< >>, 0, T)
    BY <2>2 DEF Lists, Increasing
  <2> QED  BY <1>3, <2>3
<1>5. m \in Nat /\ m - 1 \in Nat /\ m - 1 \notin Bad
  BY <1>2, <1>4
<1>6. T \ {m} \in SUBSET (1 .. m - 1)
  BY <1>5
<1>7. \E k \in Nat : \E s : Lists(s, k, T \ {m})
  BY <1>5, <1>6
<1>8. m \in T
  <2>1. SUFFICES ASSUME m \notin T PROVE FALSE
    OBVIOUS
  <2>2. T \ {m} = T
    BY <2>1
  <2> QED  BY <1>3, <1>7, <2>2
<1>12. PICK k \in Nat : \E s : Lists(s, k, T \ {m})
  BY <1>7
<1>13. PICK s : Lists(s, k, T \ {m})
  BY <1>12
<1> DEFINE t == [i \in 1 .. k + 1 |-> IF i = k + 1 THEN m ELSE s[i]]
<1>9. \A i \in 1 .. k : s[i] \in T /\ s[i] \in 1 .. m - 1
  BY <1>6, <1>13 DEF Lists
<1>10. \A i \in 1 .. k + 1 : i = k + 1 \/ i \in 1 .. k
  OBVIOUS
<1>11. Lists(t, k + 1, T)
  <2>1. t \in [1 .. k + 1 -> T]
    BY <1>8, <1>9, <1>10
  <2>2. ASSUME NEW x \in T PROVE \E i \in 1 .. k + 1 : t[i] = x
    <3>1. CASE x = m
      BY <3>1, k + 1 \in 1 .. k + 1
    <3>2. CASE x # m
      <4>1. PICK i \in 1 .. k : s[i] = x
        BY <1>13, <3>2 DEF Lists
      <4>2. i \in 1 .. k + 1 /\ i # k + 1
        OBVIOUS
      <4> QED  BY <4>1, <4>2
    <3> QED  BY <3>1, <3>2
  <2>3. Increasing(t, k + 1)
    <3>1. SUFFICES ASSUME NEW i \in 1 .. k + 1, NEW j \in 1 .. k + 1, i < j
                   PROVE  t[i] < t[j]
      BY DEF Increasing
    <3>2. i \in 1 .. k /\ t[i] = s[i]
      BY <3>1
    <3>3. CASE j = k + 1
      BY <1>5, <1>9, <3>2, <3>3
    <3>4. CASE j # k + 1
      <4>1. j \in 1 .. k /\ t[j] = s[j]
        BY <3>4
      <4>2. s[i] < s[j]
        BY <1>13, <3>1, <3>2, <4>1 DEF Lists, Increasing
      <4> QED  BY <3>2, <4>1, <4>2
    <3> QED  BY <3>3, <3>4
  <2> HIDE DEF t
  <2> QED  BY <2>1, <2>2, <2>3 DEF Lists
<1> QED  BY <1>3, <1>11, k + 1 \in Nat

LEMMA ListCardinality ==
    ASSUME NEW S \in SUBSET Nat, NEW n \in Nat, NEW s, Lists(s, n, S)
    PROVE  IsFiniteSet(S) /\ Cardinality(S) = n
<1>1. s \in [1 .. n -> S] /\ \A i \in 1 .. n : s[i] \in Nat
  BY DEF Lists
<1>2. ASSUME NEW i \in 1 .. n, NEW j \in 1 .. n, s[i] = s[j] PROVE i = j
  <2>1. ~(i < j) /\ ~(j < i)
    BY <1>1, <1>2 DEF Lists, Increasing
  <2> QED  BY <2>1
<1>3. s \in Injection(1 .. n, S)
  BY <1>1, <1>2 DEF Injection, IsInjective
<1>4. s \in Surjection(1 .. n, S)
  BY <1>1 DEF Surjection, Lists
<1>5. ExistsBijection(1 .. n, S)
  BY <1>3, <1>4 DEF Bijection, ExistsBijection
<1> QED  BY <1>5, FS_CountingElements, FS_Interval, FS_Bijection

\* There is one list.
LEMMA ListIsUnique ==
    ASSUME NEW S \in SUBSET Nat, NEW n \in Nat, NEW s, NEW t, Lists(s, n, S), Lists(t, n, S)
    PROVE  s = t
<1> DEFINE Bad == {i \in 1 .. n : s[i] # t[i]}
<1>1. /\ s \in [1 .. n -> S] /\ t \in [1 .. n -> S]
      /\ \A i \in 1 .. n : s[i] \in Nat /\ t[i] \in Nat
  BY DEF Lists
<1>2. SUFFICES ASSUME Bad # {} PROVE FALSE
  <2>1. ASSUME Bad = {} PROVE s = t
    <3>1. \A i \in 1 .. n : s[i] = t[i]
      BY <2>1
    <3>2. s = [i \in 1 .. n |-> s[i]] /\ t = [i \in 1 .. n |-> t[i]]
      BY <1>1
    <3> QED  BY <3>1, <3>2, Zenon
  <2> QED  BY <2>1
<1>3. PICK i \in Bad : \A l \in Bad : i <= l
  <2>1. Bad \in SUBSET Nat
    OBVIOUS
  <2> HIDE DEF Bad
  <2> QED  BY <1>2, <2>1, LeastExists
<1>4. i \in 1 .. n /\ \A l \in 1 .. n : l < i => s[l] = t[l]
  BY <1>3
<1>5. PICK j \in 1 .. n : t[j] = s[i]
  BY <1>1, <1>4 DEF Lists
<1>6. PICK m \in 1 .. n : s[m] = t[i]
  BY <1>1, <1>4 DEF Lists
<1>7. \A k, l \in 1 .. n : k < l => s[k] < s[l] /\ t[k] < t[l]
  BY DEF Lists, Increasing
<1>8. s[i] # t[i]
  BY <1>3
<1> HIDE DEF Bad
<1>9. j > i
  <2>1. SUFFICES ASSUME j <= i PROVE FALSE
    BY <1>4
  <2>2. j < i
    BY <1>4, <1>5, <1>8, <2>1
  <2>3. s[j] = t[j] /\ s[j] < s[i]
    BY <1>4, <1>7, <2>2
  <2> QED  BY <1>1, <1>4, <1>5, <2>3
<1>10. m > i
  <2>1. SUFFICES ASSUME m <= i PROVE FALSE
    BY <1>4
  <2>2. m < i
    BY <1>4, <1>6, <1>8, <2>1
  <2>3. s[m] = t[m] /\ t[m] < t[i]
    BY <1>4, <1>7, <2>2
  <2> QED  BY <1>1, <1>4, <1>6, <2>3
<1>11. t[i] < s[i] /\ s[i] < t[i]
  BY <1>4, <1>5, <1>6, <1>7, <1>9, <1>10
<1> QED  BY <1>1, <1>4, <1>11

LEMMA InOrderLists ==
    ASSUME NEW n \in Nat, NEW S \in SUBSET (1 .. n)
    PROVE  /\ Cardinality(S) \in Nat
           /\ Lists(InOrder(S), Cardinality(S), S)
<1>1. S \in SUBSET Nat
  OBVIOUS
<1>12. PICK k \in Nat : \E s : Lists(s, k, S)
  BY ListExists
<1>2. PICK s : Lists(s, k, S)
  BY <1>12
<1>3. IsFiniteSet(S) /\ Cardinality(S) = k
  BY <1>1, <1>2, ListCardinality
<1> DEFINE Ascends(t) == \A i, j \in DOMAIN t : i < j => t[i] < t[j]
           o == InOrder(S)
<1>4. s \in [1 .. k -> S] /\ Ascends(s)
  BY <1>2 DEF Lists, Increasing
<1>5. o = CHOOSE t \in [1 .. k -> S] : Ascends(t)
  BY <1>3 DEF InOrder
<1> HIDE DEF o
<1>6. o \in [1 .. k -> S] /\ Ascends(o)
  <2> HIDE DEF Ascends
  <2> QED  BY <1>4, <1>5
<1>7. Increasing(o, k) /\ \A i \in 1 .. k : o[i] \in Nat
  BY <1>1, <1>6 DEF Increasing
<1>8. ASSUME NEW i \in 1 .. k, NEW j \in 1 .. k, o[i] = o[j] PROVE i = j
  <2>1. ~(i < j) /\ ~(j < i)
    BY <1>7, <1>8 DEF Increasing
  <2> QED  BY <2>1
<1>9. o \in Injection(1 .. k, S)
  BY <1>6, <1>8 DEF Injection, IsInjective
<1>10. o \in Surjection(1 .. k, S)
  BY <1>3, <1>9, FS_Injection, FS_Interval
<1>11. \A x \in S : \E i \in 1 .. k : o[i] = x
  BY <1>10 DEF Surjection
<1> QED  BY <1>3, <1>6, <1>7, <1>11 DEF Lists, o

-----------------------------------------------------------------------------
(* The parts of a path.                                                     *)

Paths == Seq(Chars)

LEMMA PartEndFacts ==
    ASSUME NEW p \in Paths, NEW i \in 1 .. Len(p) + 1
    PROVE  /\ PartEnd(p, i) \in i .. Len(p) + 1
           /\ PartEnd(p, i) = Len(p) + 1 \/ p[PartEnd(p, i)] = "/"
           /\ \A k \in i .. PartEnd(p, i) - 1 : p[k] # "/"
<1> DEFINE Ends0(j) == /\ j = Len(p) + 1 \/ p[j] = "/"
                       /\ \A k \in i .. j - 1 : p[k] # "/"
           Stops == {j \in i .. Len(p) + 1 : j = Len(p) + 1 \/ p[j] = "/"}
<1>1. Len(p) \in Nat
  BY DEF Paths
<1>2. PICK j \in Stops : \A k \in Stops : j <= k
  <2>1. Stops \in SUBSET Nat /\ Len(p) + 1 \in Stops
    BY <1>1
  <2> HIDE DEF Stops
  <2> QED  BY <2>1, LeastExists
<1>3. ASSUME NEW k \in i .. j - 1 PROVE p[k] # "/"
  <2>1. k \in i .. Len(p) + 1 /\ k < j /\ j \in Nat
    BY <1>1, <1>2
  <2>2. k \notin Stops
    BY <1>2, <2>1
  <2> QED  BY <2>1, <2>2
<1>4. j \in i .. Len(p) + 1 /\ Ends0(j)
  BY <1>2, <1>3
<1>5. PartEnd(p, i) = CHOOSE m \in i .. Len(p) + 1 : Ends0(m)
  BY DEF PartEnd
<1> DEFINE e == PartEnd(p, i)
<1> HIDE DEF e, Ends0
<1>6. e \in i .. Len(p) + 1 /\ Ends0(e)
  BY <1>4, <1>5 DEF e
<1> QED  BY <1>6 DEF e, Ends0

\* A part that starts at a character is not empty, and is that of the reference.
LEMMA PartAtIsPartFrom ==
    ASSUME NEW p \in Paths, NEW i \in StartsOf(p)
    PROVE  /\ PartAt(p, i) = PartFrom(p, i)
           /\ PartEnd(p, i) \in i + 1 .. Len(p) + 1
<1>1. Len(p) \in Nat /\ i \in 1 .. Len(p) /\ p[i] # "/"
  BY DEF Paths, StartsOf
<1> DEFINE e == PartEnd(p, i)
           Final(j) == /\ \A k \in i .. j : p[k] # "/"
                       /\ j = Len(p) \/ p[j + 1] = "/"
           l == CHOOSE j \in i .. Len(p) : Final(j)
<1>2. /\ e \in i .. Len(p) + 1
      /\ e = Len(p) + 1 \/ p[e] = "/"
      /\ \A k \in i .. e - 1 : p[k] # "/"
  BY <1>1, PartEndFacts
<1> HIDE DEF e
<1>3. e # i
  BY <1>1, <1>2
<1>4. e - 1 \in i .. Len(p) /\ e - 1 + 1 = e
  BY <1>1, <1>2, <1>3
<1>5. Final(e - 1)
  BY <1>1, <1>2, <1>4
<1>6. l \in i .. Len(p) /\ Final(l)
  <2> HIDE DEF Final
  <2> QED  BY <1>4, <1>5
<1> HIDE DEF l
<1>7. l = e - 1
  <2>1. ~(l < e - 1)
    <3>1. SUFFICES ASSUME l < e - 1 PROVE FALSE
      OBVIOUS
    <3>2. l + 1 \in i .. e - 1 /\ l # Len(p)
      BY <1>1, <1>4, <1>6, <3>1
    <3> QED  BY <1>2, <1>6, <3>2
  <2>2. ~(l > e - 1)
    <3>1. SUFFICES ASSUME l > e - 1 PROVE FALSE
      OBVIOUS
    <3>2. e \in i .. l /\ e # Len(p) + 1
      BY <1>1, <1>2, <1>4, <1>6, <3>1
    <3> QED  BY <1>2, <1>6, <3>2
  <2> QED  BY <1>4, <1>6, <2>1, <2>2
<1>8. PartAt(p, i) = SubSeq(p, i, l)
  BY DEF PartAt, l
<1> QED  BY <1>2, <1>3, <1>1, <1>7, <1>8 DEF PartFrom, e

LEMMA PartFromType ==
    ASSUME NEW p \in Paths, NEW i \in 1 .. Len(p) + 1
    PROVE  /\ PartFrom(p, i) \in Paths
           /\ Len(PartFrom(p, i)) = PartEnd(p, i) - i
<1>1. PartEnd(p, i) \in i .. Len(p) + 1 /\ Len(p) \in Nat
  BY PartEndFacts DEF Paths
<1> DEFINE e == PartEnd(p, i)
<1> HIDE DEF e
<1>2. e - 1 \in i - 1 .. Len(p)
  BY <1>1 DEF e
<1>3. SubSeq(p, i, e - 1) \in Seq(Chars) /\ Len(SubSeq(p, i, e - 1)) = e - i
  BY <1>1, <1>2, SubSeqProperties DEF Paths, e
<1> QED  BY <1>3 DEF PartFrom, Paths, e

\* The starts of the parts, and the parts.
LEMMA PartsFacts ==
    ASSUME NEW p \in Paths
    PROVE  LET starts == InOrder(StartsOf(p))
               n == Len(Parts(p))
           IN /\ n \in Nat /\ n <= Len(p)
              /\ Lists(starts, n, StartsOf(p))
              /\ Parts(p) \in [1 .. n -> Paths]
              /\ DOMAIN Parts(p) = 1 .. n
              /\ \A k \in 1 .. n : Parts(p)[k] = PartFrom(p, starts[k])
<1> DEFINE S == StartsOf(p)
           o == InOrder(S)
           n == Cardinality(S)
<1>1. Len(p) \in Nat /\ S \in SUBSET (1 .. Len(p))
  BY DEF StartsOf, Paths
<1>2. n \in Nat /\ Lists(o, n, S)
  BY <1>1, InOrderLists
<1>3. n <= Len(p)
  <2> DEFINE I == 1 .. Len(p)
  <2>1. IsFiniteSet(I) /\ Cardinality(I) = Len(p)
    <3>1. \A m \in Nat : IsFiniteSet(1 .. m) /\ Cardinality(1 .. m) = m
      BY FS_Interval
    <3> QED  BY <1>1, <3>1
  <2>2. S \in SUBSET I
    BY <1>1
  <2> HIDE DEF I, S
  <2>3. Cardinality(S) <= Cardinality(I)
    BY <2>1, <2>2, FS_Subset
  <2> QED  BY <2>1, <2>3
<1> HIDE DEF n, S, o
<1>4. DOMAIN o = 1 .. n /\ \A k \in 1 .. n : o[k] \in S
  BY <1>2 DEF Lists
<1>5. Parts(p) = [k \in 1 .. n |-> PartAt(p, o[k])]
  BY <1>4 DEF Parts, o, S
<1>6. \A k \in 1 .. n : PartAt(p, o[k]) = PartFrom(p, o[k]) /\ PartFrom(p, o[k]) \in Paths
  <2>1. SUFFICES ASSUME NEW k \in 1 .. n
                 PROVE  PartAt(p, o[k]) = PartFrom(p, o[k]) /\ PartFrom(p, o[k]) \in Paths
    OBVIOUS
  <2>2. o[k] \in S /\ o[k] \in 1 .. Len(p)
    BY <1>1, <1>4
  <2>3. o[k] \in 1 .. Len(p) + 1
    BY <1>1, <2>2
  <2> QED  BY <2>2, <2>3, PartAtIsPartFrom, PartFromType DEF S
<1> DEFINE P == Parts(p)
<1> HIDE DEF P
<1>7. P \in [1 .. n -> Paths] /\ DOMAIN P = 1 .. n
      /\ \A k \in 1 .. n : P[k] = PartFrom(p, o[k])
  BY <1>5, <1>6 DEF P
<1>8. Len(P) = n
  <2>1. P \in Seq(Paths)
    BY <1>2, <1>7, SeqDef
  <2> QED  BY <1>2, <1>7, <2>1, LenProperties
<1> QED  BY <1>2, <1>3, <1>7, <1>8 DEF P, o, S

-----------------------------------------------------------------------------
(* How deep the parts lead, and the names that are kept.                    *)

IsName(piece) == piece \notin {Here, Up}

LEMMA DepthStep ==
    ASSUME NEW P, NEW j \in Nat
    PROVE  /\ Depth(P, j) \in Int
           /\ Depth(P, 0) = 0
           /\ P[j + 1] = Up => Depth(P, j + 1) = Depth(P, j) - 1
           /\ P[j + 1] # Up /\ P[j + 1] = Here => Depth(P, j + 1) = Depth(P, j)
           /\ IsName(P[j + 1]) => Depth(P, j + 1) = Depth(P, j) + 1
<1> DEFINE names(i) == {k \in 1 .. i : P[k] \notin {Here, Up}}
           ups(i) == {k \in 1 .. i : P[k] = Up}
<1>1. \A i \in Nat : Depth(P, i) = Cardinality(names(i)) - Cardinality(ups(i))
  BY DEF Depth
<1>2. names(0) = {} /\ ups(0) = {}
  OBVIOUS
<1>3. IsFiniteSet(names(j)) /\ IsFiniteSet(ups(j))
  <2>1. IsFiniteSet(1 .. j)
    BY FS_Interval
  <2> QED  BY <2>1, FS_Subset
<1>4. Cardinality(names(j)) \in Nat /\ Cardinality(ups(j)) \in Nat
  BY <1>3, FS_CardinalityType
<1>5. \A i \in 1 .. j + 1 : i \in 1 .. j \/ i = j + 1
  OBVIOUS
<1>6. j + 1 \notin names(j) /\ j + 1 \notin ups(j) /\ j + 1 \in 1 .. j + 1 /\ 1 .. j \subseteq 1 .. j + 1
  OBVIOUS
<1>7. /\ P[j + 1] = Up => names(j + 1) = names(j) /\ ups(j + 1) = ups(j) \cup {j + 1}
      /\ P[j + 1] # Up /\ P[j + 1] = Here => names(j + 1) = names(j) /\ ups(j + 1) = ups(j)
      /\ IsName(P[j + 1]) => names(j + 1) = names(j) \cup {j + 1} /\ ups(j + 1) = ups(j)
  BY <1>5, <1>6 DEF IsName
<1>8. Cardinality(ups(j) \cup {j + 1}) = Cardinality(ups(j)) + 1
      /\ Cardinality(names(j) \cup {j + 1}) = Cardinality(names(j)) + 1
  BY <1>3, <1>6, FS_AddElement
<1>9. Depth(P, 0) = 0
  BY <1>1, <1>2, FS_EmptySet
<1>10. Depth(P, j) = Cardinality(names(j)) - Cardinality(ups(j))
       /\ Depth(P, j + 1) = Cardinality(names(j + 1)) - Cardinality(ups(j + 1))
  BY <1>1
<1> HIDE DEF names, ups
<1>11. P[j + 1] = Up => Depth(P, j + 1) = Depth(P, j) - 1
  <2>1. SUFFICES ASSUME P[j + 1] = Up PROVE Depth(P, j + 1) = Depth(P, j) - 1
    OBVIOUS
  <2>2. names(j + 1) = names(j) /\ ups(j + 1) = ups(j) \cup {j + 1}
    BY <1>7, <2>1
  <2>3. Cardinality(ups(j + 1)) = Cardinality(ups(j)) + 1
    BY <1>8, <2>2, Zenon
  <2> QED  BY <1>4, <1>10, <2>2, <2>3
<1>12. P[j + 1] # Up /\ P[j + 1] = Here => Depth(P, j + 1) = Depth(P, j)
  BY <1>4, <1>7, <1>10
<1>13. IsName(P[j + 1]) => Depth(P, j + 1) = Depth(P, j) + 1
  <2>1. SUFFICES ASSUME IsName(P[j + 1]) PROVE Depth(P, j + 1) = Depth(P, j) + 1
    OBVIOUS
  <2>2. names(j + 1) = names(j) \cup {j + 1} /\ ups(j + 1) = ups(j)
    BY <1>7, <2>1
  <2>3. Cardinality(names(j + 1)) = Cardinality(names(j)) + 1
    BY <1>8, <2>2, Zenon
  <2> QED  BY <1>4, <1>10, <2>2, <2>3
<1>14. Depth(P, j) \in Int
  BY <1>4, <1>10
<1> QED  BY <1>9, <1>11, <1>12, <1>13, <1>14

\* The names among the first j parts that none of these takes away.
Kept(P, j) == {k \in 1 .. j : IsName(P[k]) /\ \A m \in k .. j : Depth(P, m) >= Depth(P, k)}

LEMMA KeptStep ==
    ASSUME NEW P, NEW j \in Nat
    PROVE  Kept(P, j + 1) =
              {k \in Kept(P, j) : Depth(P, j + 1) >= Depth(P, k)}
                  \cup (IF IsName(P[j + 1]) THEN {j + 1} ELSE {})
<1>1. \A k \in 1 .. j : k .. j + 1 = (k .. j) \cup {j + 1}
  OBVIOUS
<1>2. 1 .. j + 1 = (1 .. j) \cup {j + 1} /\ j + 1 .. j + 1 = {j + 1} /\ j + 1 \notin 1 .. j
  OBVIOUS
<1>3. Depth(P, j + 1) >= Depth(P, j + 1)
  BY DepthStep, j + 1 \in Nat
<1>4. ASSUME NEW k \in 1 .. j
      PROVE  k \in Kept(P, j + 1) <=> k \in Kept(P, j) /\ Depth(P, j + 1) >= Depth(P, k)
  BY <1>1, <1>2 DEF Kept
<1>5. j + 1 \in Kept(P, j + 1) <=> IsName(P[j + 1])
  BY <1>2, <1>3 DEF Kept
<1>6. Kept(P, j) \subseteq 1 .. j /\ Kept(P, j + 1) \subseteq 1 .. j + 1
  BY DEF Kept
<1> QED  BY <1>2, <1>4, <1>5, <1>6

\* The d names of a stack are those kept of the first j parts; idx are their
\* places, and a name's place on the stack is its depth.
Stacked(P, j, d, idx) ==
    /\ Lists(idx, d, Kept(P, j))
    /\ \A m \in 1 .. d : Depth(P, idx[m]) = m
    /\ Depth(P, j) = d

LEMMA NothingStacked ==
    ASSUME NEW P
    PROVE  Stacked(P, 0, 0, << >>)
<1>1. Kept(P, 0) = {}
  BY DEF Kept
<1> QED  BY <1>1, DepthStep DEF Stacked, Lists, Increasing

LEMMA StackedTypes ==
    ASSUME NEW P, NEW j \in Nat, NEW d \in Nat, NEW idx, Stacked(P, j, d, idx)
    PROVE  \A m \in 1 .. d : idx[m] \in 1 .. j /\ idx[m] \in Kept(P, j)
BY DEF Stacked, Lists, Kept

LEMMA StackHere ==
    ASSUME NEW P, NEW j \in Nat, NEW d \in Nat, NEW idx, Stacked(P, j, d, idx),
           P[j + 1] = Here, P[j + 1] # Up
    PROVE  Stacked(P, j + 1, d, idx)
<1>1. Depth(P, j + 1) = d
  BY DepthStep DEF Stacked
<1>2. \A k \in Kept(P, j) : d >= Depth(P, k)
  BY DepthStep DEF Kept, Stacked
<1>3. Kept(P, j + 1) = Kept(P, j)
  <2>1. ~IsName(P[j + 1])
    BY DEF IsName
  <2>2. Kept(P, j + 1) = {k \in Kept(P, j) : Depth(P, j + 1) >= Depth(P, k)}
    BY <2>1, KeptStep
  <2> QED  BY <1>1, <1>2, <2>2
<1> QED  BY <1>1, <1>3 DEF Stacked

LEMMA StackName ==
    ASSUME NEW P, NEW j \in Nat, NEW d \in Nat, NEW idx, Stacked(P, j, d, idx),
           IsName(P[j + 1])
    PROVE  Stacked(P, j + 1, d + 1, [m \in 1 .. d + 1 |-> IF m = d + 1 THEN j + 1 ELSE idx[m]])
<1> DEFINE t == [m \in 1 .. d + 1 |-> IF m = d + 1 THEN j + 1 ELSE idx[m]]
           K == Kept(P, j)
           L == Kept(P, j + 1)
<1>1. Depth(P, j) = d /\ Depth(P, j + 1) = d + 1
  BY DepthStep DEF Stacked
<1>2. \A k \in K : d + 1 >= Depth(P, k)
  <2>1. SUFFICES ASSUME NEW k \in K PROVE d + 1 >= Depth(P, k)
    OBVIOUS
  <2>2. k \in 1 .. j /\ Depth(P, j) >= Depth(P, k)
    BY DEF Kept
  <2>3. Depth(P, k) \in Int
    BY <2>2, DepthStep
  <2> QED  BY <1>1, <2>2, <2>3
<1>3. L = K \cup {j + 1}
  BY <1>1, <1>2, KeptStep
<1>4. \A m \in 1 .. d : idx[m] \in K /\ idx[m] \in 1 .. j
  BY StackedTypes
<1> HIDE DEF K, L
<1>5. \A m \in 1 .. d + 1 : m = d + 1 \/ m \in 1 .. d
  OBVIOUS
<1>6. /\ \A x \in K : \E m \in 1 .. d : idx[m] = x
      /\ Increasing(idx, d)
      /\ \A m \in 1 .. d : Depth(P, idx[m]) = m
  BY DEF Stacked, Lists, K
<1>7. t \in [1 .. d + 1 -> L]
  BY <1>3, <1>4, <1>5
<1>8. ASSUME NEW x \in L PROVE \E m \in 1 .. d + 1 : t[m] = x
  <2>1. CASE x = j + 1
    BY <2>1, d + 1 \in 1 .. d + 1
  <2>2. CASE x \in K /\ x # j + 1
    <3>1. PICK m \in 1 .. d : idx[m] = x
      BY <1>6, <2>2
    <3>2. m \in 1 .. d + 1 /\ m # d + 1
      OBVIOUS
    <3> QED  BY <3>1, <3>2
  <2> QED  BY <1>3, <2>1, <2>2
<1>9. Increasing(t, d + 1)
  <2>1. SUFFICES ASSUME NEW m \in 1 .. d + 1, NEW n \in 1 .. d + 1, m < n
                 PROVE  t[m] < t[n]
    BY DEF Increasing
  <2>2. m \in 1 .. d /\ t[m] = idx[m] /\ t[m] \in 1 .. j
    BY <1>4, <2>1
  <2>3. CASE n = d + 1
    BY <2>2, <2>3
  <2>4. CASE n # d + 1
    <3>1. n \in 1 .. d /\ t[n] = idx[n]
      BY <2>4
    <3>2. idx[m] < idx[n]
      BY <1>6, <2>1, <2>2, <3>1 DEF Increasing
    <3> QED  BY <2>2, <3>1, <3>2
  <2> QED  BY <2>3, <2>4
<1>10. \A m \in 1 .. d + 1 : Depth(P, t[m]) = m
  <2>1. SUFFICES ASSUME NEW m \in 1 .. d + 1 PROVE Depth(P, t[m]) = m
    OBVIOUS
  <2>2. CASE m = d + 1
    <3>1. t[m] = j + 1
      BY <2>2
    <3> HIDE DEF t
    <3> QED  BY <1>1, <2>2, <3>1
  <2>3. CASE m # d + 1
    <3>1. m \in 1 .. d /\ t[m] = idx[m]
      BY <2>3
    <3> HIDE DEF t
    <3> QED  BY <1>6, <3>1
  <2> QED  BY <2>2, <2>3
<1> HIDE DEF t
<1>11. Lists(t, d + 1, L)
  BY <1>7, <1>8, <1>9 DEF Lists
<1> QED  BY <1>1, <1>10, <1>11 DEF Stacked, t, L

LEMMA StackUp ==
    ASSUME NEW P, NEW j \in Nat, NEW d \in Nat, d # 0, NEW idx, Stacked(P, j, d, idx),
           P[j + 1] = Up
    PROVE  Stacked(P, j + 1, d - 1, [m \in 1 .. d - 1 |-> idx[m]])
<1> DEFINE t == [m \in 1 .. d - 1 |-> idx[m]]
           K == Kept(P, j)
           L == Kept(P, j + 1)
<1>1. Depth(P, j) = d /\ Depth(P, j + 1) = d - 1
  BY DepthStep DEF Stacked
<1>2. L = {k \in K : d - 1 >= Depth(P, k)}
  BY <1>1, KeptStep DEF IsName
<1>3. \A m \in 1 .. d : idx[m] \in K /\ idx[m] \in 1 .. j
  BY StackedTypes
<1> HIDE DEF K, L
<1>4. /\ \A x \in K : \E m \in 1 .. d : idx[m] = x
      /\ Increasing(idx, d)
      /\ \A m \in 1 .. d : Depth(P, idx[m]) = m
  BY DEF Stacked, Lists, K
<1>5. \A m \in 1 .. d - 1 : m \in 1 .. d /\ d - 1 >= m
  OBVIOUS
<1>6. t \in [1 .. d - 1 -> L]
  BY <1>2, <1>3, <1>4, <1>5
<1>7. ASSUME NEW x \in L PROVE \E m \in 1 .. d - 1 : t[m] = x
  <2>1. x \in K /\ d - 1 >= Depth(P, x)
    BY <1>2
  <2>2. PICK m \in 1 .. d : idx[m] = x
    BY <1>4, <2>1
  <2>3. d - 1 >= m
    BY <1>4, <2>1, <2>2
  <2>4. m \in 1 .. d - 1
    BY <2>3
  <2> QED  BY <2>2, <2>4
<1>8. Increasing(t, d - 1)
  BY <1>4, <1>5 DEF Increasing
<1>9. \A m \in 1 .. d - 1 : Depth(P, t[m]) = m
  BY <1>4, <1>5
<1> HIDE DEF t
<1>10. Lists(t, d - 1, L)
  BY <1>6, <1>7, <1>8 DEF Lists
<1> QED  BY <1>1, <1>9, <1>10 DEF Stacked, t, L

-----------------------------------------------------------------------------
(* The loop of get_simplified_path.                                         *)

\* At character i the first j parts of the path are done, none of them leaves the
\* root, and the stack has the names that are kept.
Progress(p, i, stack, j, idx) ==
    LET parts == Parts(p)
        starts == InOrder(StartsOf(p))
    IN /\ j \in 0 .. Len(parts)
       /\ \A k \in 1 .. Len(parts) : k <= j <=> starts[k] < i
       /\ i <= Len(p) => i = 1 \/ p[i - 1] = "/" \/ p[i] = "/"
       /\ Stacked(parts, j, Len(stack), idx)
       /\ \A m \in 1 .. Len(stack) : stack[m] = parts[idx[m]]
       /\ \A k \in 1 .. j : Depth(parts, k) >= 0

\* The turns differ in what they do with the part they find.
LEMMA HereAndUp ==
    /\ Here \in Paths /\ Up \in Paths /\ Len(Here) = 1 /\ Len(Up) = 2
    /\ Here # Up
<1>1. "." \in Chars
  BY UpperAssumption DEF Chars
<1>2. Here \in Paths /\ Up \in Paths
  BY <1>1 DEF Here, Up, Paths
<1>3. Len(Here) = 1 /\ Len(Up) = 2
  BY DEF Here, Up
<1> QED  BY <1>2, <1>3

LEMMA TurnIs ==
    ASSUME NEW p \in Paths, NEW i \in 1 .. Len(p), NEW stack
    PROVE  LET piece == PartFrom(p, i)
           IN /\ p[i] = "/" => piece # Up /\ Turn(p, i, stack) = << i + 1, stack >>
              /\ p[i] # "/" /\ piece = Here => Turn(p, i, stack) = << i + 2, stack >>
              /\ p[i] # "/" /\ piece = Up =>
                    Turn(p, i, stack) = << i + 3, Front(stack) >>
              /\ p[i] # "/" /\ piece \notin {Here, Up} =>
                    Turn(p, i, stack) = << PartEnd(p, i), Append(stack, piece) >>
<1> DEFINE piece == PartFrom(p, i)
<1>1. Len(p) \in Nat /\ i \in 1 .. Len(p) + 1
  BY DEF Paths
<1>2. ASSUME p[i] = "/" PROVE piece # Here /\ piece # Up
  <2>1. PartEnd(p, i) = i
    BY <1>1, <1>2, PartEndFacts
  <2>2. Len(piece) = 0
    BY <1>1, <2>1, PartFromType
  <2> HIDE DEF piece
  <2> QED  BY <2>2, HereAndUp
<1>3. Turn(p, i, stack) =
        CASE p[i] = "/" -> << i + 1, stack >>
          [] piece = Here   -> << i + 2, stack >>
          [] piece = Up     -> << i + 3, Front(stack) >>
          [] OTHER         -> << PartEnd(p, i), Append(stack, piece) >>
  BY DEF Turn
<1> HIDE DEF piece
<1>4. p[i] = "/" => Turn(p, i, stack) = << i + 1, stack >>
  BY <1>2, <1>3, Zenon
<1>5. p[i] # "/" /\ piece = Here => Turn(p, i, stack) = << i + 2, stack >>
  BY <1>3, HereAndUp, Zenon
<1>6. p[i] # "/" /\ piece = Up => Turn(p, i, stack) = << i + 3, Front(stack) >>
  BY <1>3, HereAndUp, Zenon
<1>7. p[i] # "/" /\ piece \notin {Here, Up} =>
         Turn(p, i, stack) = << PartEnd(p, i), Append(stack, piece) >>
  BY <1>3, Zenon
<1> QED  BY <1>2, <1>4, <1>5, <1>6, <1>7 DEF piece

LEMMA FrontFacts ==
    ASSUME NEW stack \in Seq(Paths), stack # << >>
    PROVE  /\ Front(stack) \in Seq(Paths)
           /\ Len(Front(stack)) = Len(stack) - 1
           /\ \A m \in 1 .. Len(stack) - 1 : Front(stack)[m] = stack[m]
<1> DEFINE d == Len(stack)
           z == SubSeq(stack, 1, d - 1)
<1>1. d - 1 \in Nat /\ 1 \in Int /\ d - 1 \in Int /\ d - 1 - 1 + 1 = d - 1
  BY EmptySeq
<1>2. \A m \in 1 .. d - 1 : stack[m] \in Paths
  BY <1>1
<1>3. Front(stack) = z
  BY DEF Front
<1> HIDE DEF d
<1>4. /\ z \in Seq(Paths)
      /\ Len(z) = IF 1 <= d - 1 THEN d - 1 - 1 + 1 ELSE 0
      /\ \A m \in 1 .. d - 1 - 1 + 1 : z[m] = stack[1 + m - 1]
  BY ONLY <1>1, <1>2, SubSeqProperties
<1> HIDE DEF z
<1>5. \A m \in 1 .. d - 1 : z[m] = stack[m]
  BY <1>1, <1>4
<1>6. Len(z) = d - 1
  BY <1>1, <1>4
<1> QED  BY <1>3, <1>4, <1>5, <1>6 DEF d

\* A turn goes forward, unless it is the one that ".." ends.
LEMMA TurnGoesOn ==
    ASSUME NEW p \in Paths, NEW i \in 1 .. Len(p), NEW stack \in Seq(Paths),
           ~(PartFrom(p, i) = Up /\ Outside(stack))
    PROVE  \E b \in Nat, s \in Seq(Paths) : Turn(p, i, stack) = << b, s >> /\ b > i
<1> DEFINE piece == PartFrom(p, i)
           end == PartEnd(p, i)
<1>1. i \in Nat /\ i \in 1 .. Len(p) + 1 /\ Len(p) \in Nat
  BY DEF Paths
<1>2. CASE p[i] = "/"
  <2>1. Turn(p, i, stack) = << i + 1, stack >>
    BY <1>2, TurnIs
  <2> QED  BY <1>1, <2>1, i + 1 \in Nat
<1>3. CASE p[i] # "/"
  <2>1. end \in Nat /\ end > i
    BY <1>1, <1>3, PartEndFacts
  <2>2. piece \in Paths
    BY <1>1, PartFromType
  <2>3. Append(stack, piece) \in Seq(Paths)
    BY <2>2, AppendProperties
  <2> HIDE DEF piece, end
  <2>4. CASE piece = Here
    <3>1. Turn(p, i, stack) = << i + 2, stack >>
      BY <1>3, <2>4, TurnIs DEF piece
    <3> QED  BY <1>1, <3>1, i + 2 \in Nat
  <2>5. CASE piece = Up
    <3>1. Turn(p, i, stack) = << i + 3, Front(stack) >>
      BY <1>3, <2>5, TurnIs DEF piece
    <3>2. Front(stack) \in Seq(Paths)
      BY <2>5, FrontFacts DEF Outside, piece
    <3> QED  BY <1>1, <3>1, <3>2, i + 3 \in Nat
  <2>6. CASE piece \notin {Here, Up}
    <3>1. Turn(p, i, stack) = << end, Append(stack, piece) >>
      BY <1>3, <2>6, TurnIs DEF piece, end
    <3> QED  BY <2>1, <2>3, <3>1
  <2> QED  BY <2>4, <2>5, <2>6
<1> QED  BY <1>2, <1>3

\* A turn on a slash.
LEMMA SlashTurn ==
    ASSUME NEW p \in Paths, NEW i \in 1 .. Len(p), NEW stack, NEW j, NEW idx,
           Progress(p, i, stack, j, idx), p[i] = "/"
    PROVE  Progress(p, i + 1, stack, j, idx)
<1> DEFINE starts == InOrder(StartsOf(p))
           n == Len(Parts(p))
<1>1. n \in Nat /\ Lists(starts, n, StartsOf(p))
  BY PartsFacts
<1>2. \A k \in 1 .. n : starts[k] \in StartsOf(p)
  BY <1>1 DEF Lists
<1>3. \A k \in 1 .. n : starts[k] \in Nat /\ starts[k] # i
  BY <1>2 DEF StartsOf, Paths
<1>4. i \in Nat /\ i + 1 - 1 = i
  OBVIOUS
<1>5. \A k \in 1 .. n : starts[k] < i + 1 <=> starts[k] < i
  <2> HIDE DEF starts, n
  <2> QED  BY <1>3, <1>4
<1>6. \A k \in 1 .. n : k <= j <=> starts[k] < i + 1
  BY <1>5 DEF Progress
<1>7. p[(i + 1) - 1] = "/"
  BY <1>4
<1>8. /\ j \in 0 .. n
      /\ Stacked(Parts(p), j, Len(stack), idx)
      /\ \A m \in 1 .. Len(stack) : stack[m] = Parts(p)[idx[m]]
      /\ \A k \in 1 .. j : Depth(Parts(p), k) >= 0
  BY DEF Progress
<1> QED  BY <1>6, <1>7, <1>8 DEF Progress

\* A turn on a part: it is the next one, and behind it, or behind the slash that
\* ends it, one more is done.
LEMMA PartTurn ==
    ASSUME NEW p \in Paths, NEW i \in 1 .. Len(p), NEW stack, NEW j, NEW idx,
           Progress(p, i, stack, j, idx), p[i] # "/"
    PROVE  LET parts == Parts(p)
               starts == InOrder(StartsOf(p))
               end == PartEnd(p, i)
           IN /\ j \in Nat /\ j + 1 \in 1 .. Len(parts) /\ parts[j + 1] = PartFrom(p, i)
              /\ end \in i + 1 .. Len(p) + 1
              /\ \A b \in {end, end + 1} :
                    /\ \A k \in 1 .. Len(parts) : k <= j + 1 <=> starts[k] < b
                    /\ b <= Len(p) => p[b - 1] = "/" \/ p[b] = "/"
<1> DEFINE S == StartsOf(p)
           starts == InOrder(S)
           n == Len(Parts(p))
           end == PartEnd(p, i)
<1>1. Len(p) \in Nat /\ S \in SUBSET (1 .. Len(p)) /\ DOMAIN p = 1 .. Len(p)
  BY DEF StartsOf, Paths
<1>2. n \in Nat /\ Lists(starts, n, S)
  BY PartsFacts
<1>3. i \in S
  BY <1>1 DEF Progress, StartsOf
<1>4. end \in i + 1 .. Len(p) + 1
  BY <1>3, PartAtIsPartFrom
<1>5. /\ end = Len(p) + 1 \/ p[end] = "/"
      /\ \A k \in i .. end - 1 : p[k] # "/"
  <2>1. i \in 1 .. Len(p) + 1
    BY <1>1
  <2> QED  BY <2>1, PartEndFacts
<1>6. ASSUME NEW x \in S, x > i PROVE x > end
  <2>1. x \in 1 .. Len(p) /\ p[x] # "/" /\ (x = 1 \/ p[x - 1] = "/")
    BY <1>1 DEF StartsOf
  <2> HIDE DEF S, end
  <2>2. x # 1 /\ p[x - 1] = "/"
    BY <1>6, <2>1
  <2>3. ~(x <= end - 1 + 1)
    <3>1. SUFFICES ASSUME x <= end PROVE FALSE
      BY <1>4, <2>1
    <3>2. x - 1 \in i .. end - 1
      BY <1>4, <1>6, <2>1, <3>1
    <3> QED  BY <1>5, <2>2, <3>2
  <2> QED  BY <1>4, <2>1, <2>3
<1>7. /\ j \in 0 .. n
      /\ \A k \in 1 .. n : k <= j <=> starts[k] < i
  BY DEF Progress
<1>8. PICK m \in 1 .. n : starts[m] = i
  BY <1>2, <1>3 DEF Lists
<1>9. \A k \in 1 .. n : starts[k] \in S /\ starts[k] \in Nat
  BY <1>1, <1>2 DEF Lists
<1>10. \A k, l \in 1 .. n : k < l => starts[k] < starts[l]
  BY <1>2 DEF Lists, Increasing
<1> HIDE DEF S, starts, n, end
<1>11. m = j + 1
  <2>1. m > j
    BY <1>1, <1>7, <1>8
  <2>2. ~(m > j + 1)
    <3>1. SUFFICES ASSUME m > j + 1 PROVE FALSE
      OBVIOUS
    <3>2. j + 1 \in 1 .. n /\ ~(j + 1 <= j)
      BY <1>2, <1>7, <3>1
    <3>3. starts[j + 1] < i
      BY <1>8, <1>10, <3>1, <3>2
    <3> QED  BY <1>7, <3>2, <3>3
  <2> QED  BY <1>7, <2>1, <2>2
<1>12. \A k \in 1 .. n : k <= j + 1 => starts[k] <= i
  BY <1>7, <1>8, <1>9, <1>10, <1>11
<1>13. \A k \in 1 .. n : k > j + 1 => starts[k] > end
  <2>1. SUFFICES ASSUME NEW k \in 1 .. n, k > j + 1 PROVE starts[k] > end
    OBVIOUS
  <2>2. starts[k] > i
    BY <1>8, <1>9, <1>10, <1>11, <2>1
  <2> QED  BY <1>6, <1>9, <2>2
<1>14. ASSUME NEW b \in {end, end + 1}
       PROVE  /\ \A k \in 1 .. n : k <= j + 1 <=> starts[k] < b
              /\ b <= Len(p) => p[b - 1] = "/" \/ p[b] = "/"
  <2>1. b \in Nat /\ b > i /\ b <= end + 1
    BY <1>4
  <2>2. \A k \in 1 .. n : k <= j + 1 <=> starts[k] < b
    BY <1>7, <1>9, <1>12, <1>13, <2>1, <1>4
  <2>3. CASE b = end
    BY <1>1, <1>4, <1>5, <2>2, <2>3
  <2>4. CASE b = end + 1
    <3>1. b - 1 = end /\ (b <= Len(p) => end # Len(p) + 1)
      BY <1>1, <1>4, <2>4
    <3> QED  BY <1>5, <2>2, <3>1
  <2> QED  BY <2>3, <2>4
<1>15. j \in Nat /\ j + 1 \in 1 .. n
  BY <1>7, <1>8, <1>11
<1>16. Parts(p)[j + 1] = PartFrom(p, i)
  BY <1>8, <1>11, <1>15, PartsFacts DEF starts, n, S
<1> QED  BY <1>4, <1>14, <1>15, <1>16 DEF starts, n, end, S

\* A turn keeps the progress.
LEMMA TurnProgress ==
    ASSUME NEW p \in Paths, NEW i \in 1 .. Len(p), NEW stack \in Seq(Paths),
           NEW j, NEW idx, Progress(p, i, stack, j, idx),
           ~(PartFrom(p, i) = Up /\ Outside(stack))
    PROVE  \E b \in Nat, s \in Seq(Paths) :
              /\ Turn(p, i, stack) = << b, s >> /\ b > i
              /\ \E k, t : Progress(p, b, s, k, t)
<1> DEFINE parts == Parts(p)
           starts == InOrder(StartsOf(p))
           piece == PartFrom(p, i)
           end == PartEnd(p, i)
           d == Len(stack)
<1>1. /\ d \in Nat /\ i \in Nat /\ i + 1 \in Nat /\ i + 1 > i /\ i \in 1 .. Len(p) + 1
      /\ Len(p) \in Nat
  BY DEF Paths
<1>2. CASE p[i] = "/"
  <2>1. Progress(p, i + 1, stack, j, idx)
    BY <1>2, SlashTurn
  <2>2. Turn(p, i, stack) = << i + 1, stack >>
    BY <1>2, TurnIs
  <2> QED  BY <1>1, <2>1, <2>2
<1>3. CASE p[i] # "/"
  <2>1. /\ j \in Nat /\ j + 1 \in 1 .. Len(parts) /\ parts[j + 1] = piece
        /\ end \in i + 1 .. Len(p) + 1
        /\ \A b \in {end, end + 1} :
              /\ \A k \in 1 .. Len(parts) : k <= j + 1 <=> starts[k] < b
              /\ b <= Len(p) => p[b - 1] = "/" \/ p[b] = "/"
    BY <1>3, PartTurn
  <2>2. piece \in Paths /\ Len(piece) = end - i
    BY <1>1, PartFromType
  <2>3. /\ Stacked(parts, j, d, idx)
        /\ \A m \in 1 .. d : stack[m] = parts[idx[m]]
        /\ \A k \in 1 .. j : Depth(parts, k) >= 0
        /\ Depth(parts, j) = d
    BY DEF Progress, Stacked
  \* What is left to show of the state behind the part.
  <2>4. ASSUME NEW b \in {end, end + 1}, NEW s, NEW t,
               Stacked(parts, j + 1, Len(s), t), Len(s) \in Nat,
               \A m \in 1 .. Len(s) : s[m] = parts[t[m]]
        PROVE  Progress(p, b, s, j + 1, t)
    <3>1. Depth(parts, j + 1) >= 0
      BY <2>4 DEF Stacked
    <3>2. \A k \in 1 .. j + 1 : Depth(parts, k) >= 0
      <4>1. \A k \in 1 .. j + 1 : k \in 1 .. j \/ k = j + 1
        BY <2>1
      <4> QED  BY <2>3, <3>1, <4>1
    <3>3. j + 1 \in 0 .. Len(parts)
      BY <2>1
    <3>4. /\ \A k \in 1 .. Len(parts) : k <= j + 1 <=> starts[k] < b
          /\ b <= Len(p) => p[b - 1] = "/" \/ p[b] = "/"
      BY <2>1, <2>4
    <3> QED  BY <2>4, <3>2, <3>3, <3>4 DEF Progress
  <2> HIDE DEF parts, starts, piece, end, d
  <2>5. CASE piece = Here
    <3>1. end = i + 1 /\ end + 1 = i + 2
      <4>1. Len(piece) = 1
        BY <2>5, HereAndUp
      <4>2. end \in Int /\ i \in Int /\ Len(piece) = end - i
        BY <1>1, <2>1, <2>2
      <4>3. end - i = 1
        BY <4>1, <4>2
      <4>4. end = i + 1
        BY <4>3, <4>2
      <4> QED  BY <4>2, <4>4
    <3>2. Turn(p, i, stack) = << i + 2, stack >>
      BY <1>3, <2>5, TurnIs DEF piece
    <3>3. Stacked(parts, j + 1, d, idx)
      BY <1>1, <2>1, <2>3, <2>5, HereAndUp, StackHere
    <3>4. Progress(p, end + 1, stack, j + 1, idx)
      BY <1>1, <2>3, <2>4, <3>3 DEF d
    <3>5. i + 2 \in Nat /\ i + 2 > i
      BY <1>1
    <3> QED  BY <3>1, <3>2, <3>4, <3>5
  <2>6. CASE piece = Up
    <3>1. end = i + 2 /\ end + 1 = i + 3
      <4>1. Len(piece) = 2
        BY <2>6, HereAndUp
      <4>2. end \in Int /\ i \in Int /\ Len(piece) = end - i
        BY <1>1, <2>1, <2>2
      <4>3. end - i = 2
        BY <4>1, <4>2
      <4>4. end = i + 2
        BY <4>3, <4>2
      <4> QED  BY <4>2, <4>4
    <3>2. Turn(p, i, stack) = << i + 3, Front(stack) >>
      BY <1>3, <2>6, TurnIs DEF piece
    <3>3. stack # << >> /\ d # 0
      BY <2>6, EmptySeq DEF Outside, piece, d
    <3> DEFINE s == Front(stack)
               t == [m \in 1 .. d - 1 |-> idx[m]]
    <3>4. s \in Seq(Paths) /\ Len(s) = d - 1 /\ \A m \in 1 .. d - 1 : s[m] = stack[m]
      BY <3>3, FrontFacts DEF d
    <3>5. Stacked(parts, j + 1, d - 1, t)
      BY <1>1, <2>1, <2>3, <2>6, <3>3, StackUp
    <3>6. \A m \in 1 .. Len(s) : s[m] = parts[t[m]]
      BY <1>1, <2>3, <3>4
    <3> HIDE DEF s, t
    <3>7. Progress(p, end + 1, s, j + 1, t)
      BY <1>1, <2>4, <3>3, <3>4, <3>5, <3>6
    <3>8. i + 3 \in Nat /\ i + 3 > i
      BY <1>1
    <3> QED  BY <3>1, <3>2, <3>4, <3>7, <3>8 DEF s
  <2>7. CASE piece \notin {Here, Up}
    <3> DEFINE s == Append(stack, piece)
               t == [m \in 1 .. d + 1 |-> IF m = d + 1 THEN j + 1 ELSE idx[m]]
    <3>1. Turn(p, i, stack) = << end, s >>
      BY <1>3, <2>7, TurnIs DEF piece, end
    <3>2. /\ s \in Seq(Paths) /\ Len(s) = d + 1
          /\ \A m \in 1 .. d : s[m] = stack[m]
          /\ s[d + 1] = piece
      BY <2>2, AppendProperties DEF d
    <3>3. Stacked(parts, j + 1, d + 1, t)
      <4>1. IsName(parts[j + 1])
        BY <2>1, <2>7 DEF IsName
      <4>2. d \in Nat /\ j \in Nat /\ Stacked(parts, j, d, idx)
        BY <1>1, <2>1, <2>3
      <4> HIDE DEF s
      <4> QED  BY ONLY <4>1, <4>2, StackName
    <3>4. \A m \in 1 .. Len(s) : s[m] = parts[t[m]]
      <4>1. SUFFICES ASSUME NEW m \in 1 .. d + 1 PROVE s[m] = parts[t[m]]
        BY <3>2
      <4> HIDE DEF s
      <4>2. CASE m = d + 1
        BY <2>1, <3>2, <4>2
      <4>3. CASE m # d + 1
        <5>1. m \in 1 .. d
          BY <1>1, <4>3
        <5> QED  BY <2>3, <3>2, <4>3, <5>1
      <4> QED  BY <4>2, <4>3
    <3> HIDE DEF s, t
    <3>5. Progress(p, end, s, j + 1, t)
      BY <1>1, <2>4, <3>2, <3>3, <3>4
    <3>6. end \in Nat /\ end > i
      BY <1>1, <2>1
    <3> QED  BY <3>1, <3>2, <3>5, <3>6
  <2> QED  BY <2>5, <2>6, <2>7
<1> QED  BY <1>2, <1>3

\* The loop ends behind the path, or at ".." with nothing on the stack.
LEMMA SimplifiedProgress ==
    ASSUME NEW p \in Paths
    PROVE  \E i \in Nat, stack \in Seq(Paths) :
              /\ \E j, idx : Progress(p, i, stack, j, idx)
              /\ \/ i > Len(p) /\ Simplified(p) = [ok |-> TRUE, stack |-> stack]
                 \/ /\ i \in 1 .. Len(p) /\ PartFrom(p, i) = Up /\ stack = << >>
                    /\ Simplified(p) = [ok |-> FALSE, stack |-> << >>]
<1> DEFINE D == (Nat \ {0}) \X Seq(Paths)
           halts(i, stack) == PartFrom(p, i) = Up /\ Outside(stack)
           stop == [x \in D |-> x[1] > Len(p) \/ halts(x[1], x[2])]
           out == [x \in D |-> IF x[1] > Len(p) THEN [ok |-> TRUE, stack |-> x[2]]
                               ELSE [ok |-> FALSE, stack |-> << >>]]
           next == [x \in D |-> Turn(p, x[1], x[2])]
           measure == [x \in D |-> IF x[1] > Len(p) THEN 0 ELSE Len(p) + 1 - x[1]]
           S == {x \in D : \E j, idx : Progress(p, x[1], x[2], j, idx)}
           Body(f) == [s \in (Nat \ {0}) \X Seq(Seq(Chars)) |->
                         IF s[1] > Len(p) THEN [ok |-> TRUE, stack |-> s[2]]
                         ELSE IF PartFrom(p, s[1]) = Up /\ Outside(s[2])
                              THEN [ok |-> FALSE, stack |-> << >>]
                              ELSE f[Turn(p, s[1], s[2])]]
           from == CHOOSE f : f = Body(f)
<1>1. Simplified(p) = from[<< 1, << >> >>]
  BY DEF Simplified
<1>2. Len(p) \in Nat
  BY DEF Paths
<1>3. ASSUME NEW f PROVE Body(f) = Loop(D, stop, out, next, f)
  BY DEF Loop, Paths
<1>4. ASSUME NEW x \in D
      PROVE  /\ x[1] \in Nat \ {0} /\ x[2] \in Seq(Paths)
             /\ next[x] = Turn(p, x[1], x[2])
             /\ out[x] = IF x[1] > Len(p) THEN [ok |-> TRUE, stack |-> x[2]]
                         ELSE [ok |-> FALSE, stack |-> << >>]
             /\ x = << x[1], x[2] >>
  OBVIOUS
<1>18. ASSUME NEW x \in D
       PROVE  stop[x] <=> x[1] > Len(p) \/ halts(x[1], x[2])
  <2> HIDE DEF D, halts
  <2> QED  BY Zenon
<1>5. \A b \in Nat, s \in Seq(Paths) : b # 0 => << b, s >> \in D
  OBVIOUS
<1>6. measure \in [D -> Nat]
  BY <1>2
<1>7. \A x \in D : measure[x] = IF x[1] > Len(p) THEN 0 ELSE Len(p) + 1 - x[1]
  OBVIOUS
<1>8. S = {x \in D : \E j, idx : Progress(p, x[1], x[2], j, idx)}
  OBVIOUS
<1> HIDE DEF D, stop, out, next, measure, S, Body
<1>9. ASSUME NEW x \in D, ~stop[x]
      PROVE  /\ next[x] \in D /\ measure[next[x]] < measure[x]
             /\ x \in S => next[x] \in S
  <2> DEFINE i == x[1]
             stack == x[2]
  <2>1. i \in 1 .. Len(p) /\ stack \in Seq(Paths) /\ ~halts(i, stack)
    <3>1. i \in Nat \ {0} /\ stack \in Seq(Paths)
      BY <1>4
    <3>2. ~(i > Len(p)) /\ ~halts(i, stack)
      BY <1>18, <1>9
    <3> HIDE DEF i, stack
    <3> QED  BY <1>2, <3>1, <3>2
  <2> HIDE DEF i, stack
  <2>2. PICK b \in Nat, s \in Seq(Paths) : Turn(p, i, stack) = << b, s >> /\ b > i
    BY <2>1, TurnGoesOn
  <2>3. next[x] = << b, s >>
    BY <1>4, <2>2 DEF i, stack
  <2>4. next[x] \in D
    BY <1>5, <2>1, <2>2, <2>3
  <2>5. << b, s >>[1] = b /\ << b, s >>[2] = s
    OBVIOUS
  <2>6. measure[next[x]] < measure[x]
    <3>1. measure[next[x]] = IF b > Len(p) THEN 0 ELSE Len(p) + 1 - b
      BY <1>7, <2>3, <2>4, <2>5
    <3>2. measure[x] = IF i > Len(p) THEN 0 ELSE Len(p) + 1 - i
      BY <1>7 DEF i
    <3> QED  BY <1>2, <2>1, <2>2, <3>1, <3>2
  <2>7. ASSUME x \in S PROVE next[x] \in S
    <3>1. PICK j, idx : Progress(p, i, stack, j, idx)
      BY <1>8, <2>7 DEF i, stack
    <3>2. PICK c \in Nat, r \in Seq(Paths) :
              /\ Turn(p, i, stack) = << c, r >> /\ c > i
              /\ \E k, t : Progress(p, c, r, k, t)
      BY <2>1, <3>1, TurnProgress
    <3>3. c = b /\ r = s
      BY <2>2, <3>2
    <3> QED  BY <1>8, <2>3, <2>4, <2>5, <3>2, <3>3
  <2> QED  BY <2>4, <2>6, <2>7
<1>10. Ends(D, stop, next, measure)
  BY <1>6, <1>9 DEF Ends
<1>11. from = Loop(D, stop, out, next, from)
  <2>1. PICK f : f = Loop(D, stop, out, next, f)
    BY <1>10, LoopExists
  <2>2. f = Body(f)
    BY <1>3, <2>1
  <2>3. from = Body(from)
    BY <2>2
  <2> QED  BY <1>3, <2>3
<1> HIDE DEF from
<1>12. << 1, << >> >> \in S
  <2>1. << >> \in Seq(Paths)
    BY EmptySeq
  <2>2. << 1, << >> >> \in D
    <3>1. 1 \in Nat /\ 1 # 0
      OBVIOUS
    <3> QED  BY <1>5, <2>1, <3>1
  <2>3. Progress(p, 1, << >>, 0, << >>)
    <3> DEFINE n == Len(Parts(p))
               starts == InOrder(StartsOf(p))
    <3>1. n \in Nat /\ Lists(starts, n, StartsOf(p))
      BY PartsFacts
    <3>2. \A k \in 1 .. n : starts[k] \in StartsOf(p)
      BY <3>1 DEF Lists
    <3>3. \A k \in 1 .. n : starts[k] \in Nat /\ starts[k] >= 1
      BY <1>2, <3>2 DEF StartsOf, Paths
    <3> HIDE DEF n, starts
    <3>4. \A k \in 1 .. n : k <= 0 <=> starts[k] < 1
      BY <3>1, <3>3
    <3>5. Len(<< >>) = 0 /\ 0 \in 0 .. n
      BY <3>1
    <3>6. Stacked(Parts(p), 0, Len(<< >>), << >>)
      BY <3>5, NothingStacked
    <3> QED  BY <3>4, <3>5, <3>6 DEF Progress, n, starts
  <2>4. << 1, << >> >>[1] = 1 /\ << 1, << >> >>[2] = << >>
    OBVIOUS
  <2> QED  BY <1>8, <2>2, <2>3, <2>4
<1>13. PICK y \in S : stop[y] /\ from[<< 1, << >> >>] = out[y]
  <2>1. S \in SUBSET D /\ \A x \in S : ~stop[x] => next[x] \in S
    BY <1>8, <1>9
  <2> QED  BY <1>10, <1>11, <1>12, <2>1, LoopResult
<1>14. y \in D /\ \E j, idx : Progress(p, y[1], y[2], j, idx)
  BY <1>8, <1>13
<1> DEFINE i == y[1]
           stack == y[2]
<1>15. i \in Nat \ {0} /\ stack \in Seq(Paths)
  BY <1>4, <1>14
<1>16. CASE i > Len(p)
  BY <1>1, <1>4, <1>13, <1>14, <1>15, <1>16
<1>17. CASE ~(i > Len(p))
  <2>1. halts(i, stack)
    BY <1>18, <1>13, <1>14, <1>17
  <2>2. out[y] = [ok |-> FALSE, stack |-> << >>]
    BY <1>4, <1>14, <1>17
  <2>3. Simplified(p) = [ok |-> FALSE, stack |-> << >>]
    BY <1>1, <1>13, <2>2
  <2> HIDE DEF i, stack, out
  <2>4. i \in 1 .. Len(p)
    BY <1>2, <1>15, <1>17
  <2>5. PartFrom(p, i) = Up /\ stack = << >>
    BY <2>1 DEF Outside
  <2>6. \E j, idx : Progress(p, i, stack, j, idx)
    BY <1>14 DEF i, stack
  <2> QED  BY <1>15, <2>3, <2>4, <2>5, <2>6
<1> QED  BY <1>16, <1>17

-----------------------------------------------------------------------------
(* The two meanings of a path are one.                                      *)

LEMMA UppercaseType ==
    ASSUME NEW s \in Paths
    PROVE  Uppercase(s) \in Paths
<1>1. Len(s) \in Nat /\ DOMAIN s = 1 .. Len(s) /\ \A i \in 1 .. Len(s) : s[i] \in Chars
  BY DEF Paths
<1>2. \A c \in Chars : UpperOf[c] \in Chars
  BY UpperAssumption DEF Chars
<1>3. Uppercase(s) \in [1 .. Len(s) -> Chars]
  BY <1>1, <1>2 DEF Uppercase
<1> QED  BY <1>1, <1>3, SeqDef DEF Paths

\* What is kept of all parts is what the path means.
LEMMA ResolvedIs ==
    ASSUME NEW p \in Paths
    PROVE  LET kept == Kept(Parts(p), Len(Parts(p)))
               d == Cardinality(kept)
           IN /\ d \in Nat /\ d <= Len(p)
              /\ Lists(InOrder(kept), d, kept)
              /\ Resolved(p) \in Seq(Paths) /\ Len(Resolved(p)) = d
              /\ \A m \in 1 .. d : Resolved(p)[m] = Uppercase(Parts(p)[InOrder(kept)[m]])
<1> DEFINE P == Parts(p)
           n == Len(P)
           kept == Kept(P, n)
           d == Cardinality(kept)
           order == InOrder(kept)
<1>1. /\ n \in Nat /\ n <= Len(p) /\ DOMAIN P = 1 .. n
      /\ \A k \in 1 .. n : P[k] \in Paths
  BY PartsFacts
<1>2. kept \in SUBSET (1 .. n)
  BY DEF Kept
<1>3. d \in Nat /\ Lists(order, d, kept)
  BY <1>1, <1>2, InOrderLists
<1>4. d <= n
  <2>1. \A m \in Nat : IsFiniteSet(1 .. m) /\ Cardinality(1 .. m) = m
    BY FS_Interval
  <2> DEFINE I == 1 .. n
  <2>2. IsFiniteSet(I) /\ Cardinality(I) = n
    BY <1>1, <2>1
  <2> HIDE DEF I, kept
  <2>3. Cardinality(kept) <= Cardinality(I)
    <3>1. kept \in SUBSET I
      BY <1>2 DEF I
    <3> QED  BY <2>2, <3>1, FS_Subset
  <2> QED  BY <2>2, <2>3
<1>5. kept = {k \in DOMAIN P : P[k] \notin {Here, Up}
                  /\ \A j \in k .. Len(P) : Depth(P, j) >= Depth(P, k)}
  BY <1>1 DEF Kept, IsName
<1>6. Resolved(p) = [k \in DOMAIN order |-> Uppercase(P[order[k]])]
  BY <1>5 DEF Resolved
<1> HIDE DEF P, n, kept, d, order
<1>7. DOMAIN order = 1 .. d /\ \A k \in 1 .. d : order[k] \in 1 .. n
  BY <1>2, <1>3 DEF Lists
<1>8. \A k \in 1 .. d : Uppercase(P[order[k]]) \in Paths
  BY <1>1, <1>7, UppercaseType
<1> DEFINE R == Resolved(p)
<1> HIDE DEF R
<1>9. /\ R \in [1 .. d -> Paths]
      /\ \A m \in 1 .. d : R[m] = Uppercase(P[order[m]])
  BY <1>6, <1>7, <1>8 DEF R
<1>10. R \in Seq(Paths)
  BY <1>3, <1>9, SeqDef
<1>11. Len(R) = d
  BY <1>3, <1>9, <1>10, LenProperties
<1>12. d <= Len(p)
  BY <1>1, <1>3, <1>4 DEF Paths
<1> QED  BY <1>3, <1>9, <1>10, <1>11, <1>12 DEF R, P, n, kept, d, order

LEMMA SimplifiedIs ==
    ASSUME NEW p \in Paths
    PROVE  \/ Escapes(p) /\ Simplified(p) = [ok |-> FALSE, stack |-> << >>]
           \/ /\ ~Escapes(p)
              /\ \E stack \in Seq(Paths) :
                    /\ Simplified(p) = [ok |-> TRUE, stack |-> stack]
                    /\ Len(stack) = Len(Resolved(p))
                    /\ \A m \in 1 .. Len(stack) : Uppercase(stack[m]) = Resolved(p)[m]
<1> DEFINE P == Parts(p)
           n == Len(P)
           starts == InOrder(StartsOf(p))
<1>1. PICK i \in Nat, stack \in Seq(Paths) :
          /\ \E j, idx : Progress(p, i, stack, j, idx)
          /\ \/ i > Len(p) /\ Simplified(p) = [ok |-> TRUE, stack |-> stack]
             \/ /\ i \in 1 .. Len(p) /\ PartFrom(p, i) = Up /\ stack = << >>
                /\ Simplified(p) = [ok |-> FALSE, stack |-> << >>]
  BY SimplifiedProgress
<1>2. PICK j, idx : Progress(p, i, stack, j, idx)
  BY <1>1
<1>3. /\ n \in Nat /\ DOMAIN P = 1 .. n
      /\ Lists(starts, n, StartsOf(p))
  BY PartsFacts
<1>4. /\ j \in 0 .. n
      /\ \A k \in 1 .. n : k <= j <=> starts[k] < i
      /\ Stacked(P, j, Len(stack), idx)
      /\ \A m \in 1 .. Len(stack) : stack[m] = P[idx[m]]
      /\ \A k \in 1 .. j : Depth(P, k) >= 0
  BY <1>2 DEF Progress
<1>5. ASSUME i > Len(p), Simplified(p) = [ok |-> TRUE, stack |-> stack]
      PROVE  /\ ~Escapes(p)
             /\ Len(stack) = Len(Resolved(p))
             /\ \A m \in 1 .. Len(stack) : Uppercase(stack[m]) = Resolved(p)[m]
  <2>1. \A k \in 1 .. n : starts[k] < i
    <3>1. \A k \in 1 .. n : starts[k] \in 1 .. Len(p)
      <4>1. \A k \in 1 .. n : starts[k] \in StartsOf(p)
        BY <1>3 DEF Lists
      <4> HIDE DEF starts, n
      <4> QED  BY <4>1 DEF StartsOf, Paths
    <3>2. Len(p) \in Nat
      BY DEF Paths
    <3> QED  BY <1>5, <3>1, <3>2
  <2>2. j = n
    <3>1. SUFFICES ASSUME j # n PROVE FALSE
      OBVIOUS
    <3> HIDE DEF n, starts
    <3>2. n \in 1 .. n /\ ~(n <= j)
      BY <1>3, <1>4, <3>1
    <3> QED  BY <1>4, <2>1, <3>2
  <2>3. ~Escapes(p)
    <3>1. SUFFICES ASSUME NEW k \in DOMAIN P, Depth(P, k) < 0 PROVE FALSE
      BY DEF Escapes
    <3>2. k \in Nat /\ k \in 1 .. j
      BY <1>3, <2>2
    <3>3. Depth(P, k) \in Int /\ Depth(P, k) >= 0
      BY <1>4, <3>2, DepthStep
    <3> QED  BY <3>1, <3>3
  <2> DEFINE kept == Kept(P, n)
             d == Cardinality(kept)
             order == InOrder(kept)
  <2>4. /\ d \in Nat
        /\ Lists(order, d, kept)
        /\ Len(Resolved(p)) = d
        /\ \A m \in 1 .. d : Resolved(p)[m] = Uppercase(P[order[m]])
    BY ResolvedIs
  <2>5. Lists(idx, Len(stack), kept)
    BY <1>4, <2>2 DEF Stacked
  <2>6. kept \in SUBSET Nat /\ Len(stack) \in Nat
    BY DEF Kept
  <2> HIDE DEF kept
  <2>7. Len(stack) = d
    BY <2>5, <2>6, ListCardinality
  <2>8. idx = order
    BY <2>4, <2>5, <2>6, <2>7, ListIsUnique
  <2> HIDE DEF d, order, P
  <2> QED  BY <1>4, <2>3, <2>4, <2>7, <2>8
<1>6. ASSUME i \in 1 .. Len(p), PartFrom(p, i) = Up, stack = << >>
      PROVE  Escapes(p)
  <2>1. p[i] # "/"
    BY <1>6, TurnIs
  <2>2. j \in Nat /\ j + 1 \in 1 .. n /\ P[j + 1] = Up
    BY <1>2, <1>6, <2>1, PartTurn
  <2>3. Depth(P, j) = 0
    <3>1. Len(stack) = 0
      BY <1>6
    <3> QED  BY <1>4, <3>1 DEF Stacked
  <2>4. Depth(P, j + 1) = 0 - 1
    BY <2>2, <2>3, DepthStep
  <2>5. Depth(P, j + 1) < 0
    BY <2>4
  <2> QED  BY <1>3, <2>2, <2>5 DEF Escapes
<1> QED  BY <1>1, <1>5, <1>6

LEMMA BreakUpPathIs ==
    ASSUME NEW p \in Paths, NEW level \in Nat
    PROVE  /\ Escapes(p) => BreakUpPath(p, level) = [status |-> -1, name |-> << >>]
           /\ ~Escapes(p) /\ level < Len(Resolved(p)) =>
                 BreakUpPath(p, level) = [status |-> 0, name |-> Resolved(p)[level + 1]]
           /\ ~Escapes(p) /\ ~(level < Len(Resolved(p))) =>
                 BreakUpPath(p, level) = [status |-> -2, name |-> << >>]
<1> DEFINE simple == Simplified(p)
           R == Resolved(p)
<1>1. BreakUpPath(p, level) =
        CASE ~simple.ok -> [status |-> -1, name |-> << >>]
          [] simple.ok /\ BehindTheLast(simple.stack, level) -> [status |-> -2, name |-> << >>]
          [] OTHER -> [status |-> 0, name |-> Uppercase(simple.stack[level + 1])]
  BY DEF BreakUpPath
<1>2. CASE Escapes(p)
  <2>1. simple = [ok |-> FALSE, stack |-> << >>]
    BY <1>2, SimplifiedIs
  <2>2. ~simple.ok
    BY <2>1
  <2> HIDE DEF simple
  <2> QED  BY <1>1, <1>2, <2>2, Zenon
<1>3. CASE ~Escapes(p)
  <2>1. PICK stack \in Seq(Paths) :
          /\ simple = [ok |-> TRUE, stack |-> stack]
          /\ Len(stack) = Len(R)
          /\ \A m \in 1 .. Len(stack) : Uppercase(stack[m]) = R[m]
    BY <1>3, SimplifiedIs
  <2>2. simple.ok /\ simple.stack = stack
    BY <2>1
  <2>3. Len(stack) \in Nat
    OBVIOUS
  <2>4. BehindTheLast(stack, level) <=> ~(level < Len(R))
    BY <2>1, <2>3 DEF BehindTheLast
  <2>5. level < Len(R) => Uppercase(stack[level + 1]) = R[level + 1]
    BY <2>1, <2>3
  <2> HIDE DEF simple, R
  <2> QED  BY <1>1, <1>3, <2>2, <2>4, <2>5, Zenon DEF R
<1> QED  BY <1>2, <1>3

-----------------------------------------------------------------------------
(* Addresses and units.                                                     *)

LEMMA AddressType ==
    ASSUME NEW a, IsArchive(a), NEW c \in Int
    PROVE  ClusterAddress(a.bpb, c) \in 0 .. Word - 1
<1> DEFINE b == a.bpb
           first == get_first_data_sector(b)
<1>1. /\ b.RootEntCnt \in Nat /\ b.RsvdSecCnt \in Nat /\ b.NumFATs \in Nat /\ b.FATSz32 \in Nat
      /\ b.BytsPerSec \in Nat \ {0} /\ b.SecPerClus \in Nat
  BY DEF IsArchive
<1> HIDE DEF b
<1>2. \A x \in Int : x % Word \in 0 .. Word - 1
  BY ImageAssumption
<1>3. \A x, y \in Int : x * y \in Int /\ x + y \in Int /\ x - y \in Int
  OBVIOUS
<1>4. first \in Int
  <2>1. \A x \in Int : x \div b.BytsPerSec \in Int
    BY <1>1
  <2>2. b.NumFATs * b.FATSz32 \in Int /\ b.RootEntCnt * 32 \in Int
    BY <1>1
  <2>3. b.RootEntCnt * 32 + b.BytsPerSec - 1 \in Int
    BY <1>1, <2>2
  <2> DEFINE r == (b.RootEntCnt * 32 + b.BytsPerSec - 1) \div b.BytsPerSec
             t == b.NumFATs * b.FATSz32
  <2>4. r \in Int /\ t \in Int
    BY <2>1, <2>2, <2>3
  <2>5. first = b.RsvdSecCnt + t + r
    BY DEF get_first_data_sector
  <2> HIDE DEF r, t, first
  <2> QED  BY <1>1, <2>4, <2>5
<1> HIDE DEF first
<1>5. cluster_to_lba(b, c) \in Int
  <2> DEFINE m == (c - 2) * b.SecPerClus
  <2>1. m \in Int
    BY <1>1, <1>3
  <2>2. cluster_to_lba(b, c) = (first + m) % Word
    BY DEF cluster_to_lba, first
  <2> HIDE DEF m
  <2>3. first + m \in Int
    BY <1>4, <2>1
  <2> QED  BY <1>2, <2>2, <2>3
<1> DEFINE l == cluster_to_lba(b, c)
<1>6. ClusterAddress(b, c) = (l * b.BytsPerSec) % Word
  BY DEF ClusterAddress
<1> HIDE DEF l
<1>7. l * b.BytsPerSec \in Int
  BY <1>1, <1>3, <1>5 DEF l
<1> QED  BY <1>2, <1>6, <1>7 DEF b

LEMMA UnitFacts ==
    ASSUME NEW a, IsArchive(a), NEW i \in Nat, InArchive(a, i)
    PROVE  /\ IsUnit(UnitAt(a, i))
           /\ UnitAt(a, i) \in {a.units[k] : k \in 1 .. Len(a.units)}
<1>1. i + 1 \in 1 .. Len(a.units)
  BY DEF IsArchive, InArchive
<1> QED  BY <1>1 DEF IsArchive, UnitAt

LEMMA NextClusterType ==
    ASSUME NEW a, IsArchive(a), NEW c \in 0 .. Word - 1
    PROVE  NextCluster(a, c) \in 0 .. LinkMask - 1 \/ NextCluster(a, c) = c
<1> DEFINE b == a.bpb
           i == LinkAddress(b, c)
<1>1. i \in Nat
  <2>1. b.RsvdSecCnt \in Nat /\ b.BytsPerSec \in Nat /\ b.SecPerClus \in Nat
    BY DEF IsArchive
  <2> HIDE DEF b
  <2>2. \A x, y \in Nat : x * y \in Nat /\ x + y \in Nat
    OBVIOUS
  <2>3. b.RsvdSecCnt * b.SecPerClus \in Nat
    BY <2>1, <2>2
  <2> DEFINE x == b.RsvdSecCnt * b.SecPerClus
             y == x * b.BytsPerSec
             z == c * FatEntrySize
  <2>4. z \in Nat
    <3>1. c \in Nat /\ FatEntrySize \in Nat
      BY ImageAssumption
    <3> QED  BY <2>2, <3>1
  <2>5. y \in Nat
    <3> HIDE DEF x
    <3> QED  BY <2>1, <2>2, <2>3 DEF x
  <2>6. i = (y + z) % Word
    BY DEF LinkAddress
  <2> HIDE DEF y, z, i
  <2> QED  BY <2>4, <2>5, <2>6, ImageAssumption
<1> HIDE DEF i
<1>2. ASSUME InArchive(a, i) PROVE NextCluster(a, c) \in 0 .. LinkMask - 1
  <2>1. UnitAt(a, i).link \in Nat
    BY <1>1, <1>2, UnitFacts, ImageAssumption DEF IsUnit
  <2>2. NextCluster(a, c) = UnitAt(a, i).link % LinkMask
    BY <1>2 DEF NextCluster, Masked, i
  <2> QED  BY <2>1, <2>2, ImageAssumption
<1>3. ASSUME ~InArchive(a, i) PROVE NextCluster(a, c) = c
  BY <1>3 DEF NextCluster, i
<1> QED  BY <1>2, <1>3

-----------------------------------------------------------------------------
(* The calls.                                                               *)

(***************************************************************************)
(* While a search runs, what is known of the path is what break_up_path    *)
(* says of its level, and only a path without a first name may have none   *)
(* there; a search that crashed had such a path.                           *)
(***************************************************************************)
IInv ==
    /\ TypeOK
    /\ IsArchive(archive)
    /\ phase \in {"closed", "booted", "finding", "found"} => cluster = 0
    /\ phase = "finding" =>
          /\ part = BreakUpPath(path, Level(depth))
          /\ part.status # -1
          /\ part.status = -2 => BreakUpPath(path, 0).status = -2
    /\ phase = "crashed" => BreakUpPath(path, 0).status = -2

\* The names of a path are as many as those that remain in its resolution.
LEMMA NamesFacts ==
    ASSUME NEW p \in Paths
    PROVE  NamesOf(p) \in Nat /\ (~Escapes(p) => NamesOf(p) = Len(Resolved(p)))
<1>1. CASE Escapes(p)
  <2>1. Simplified(p) = [ok |-> FALSE, stack |-> << >>]
    BY <1>1, SimplifiedIs
  <2> HIDE DEF Simplified
  <2>2. Len(<< >>) = 0
    BY EmptySeq
  <2> QED  BY <1>1, <2>1, <2>2 DEF NamesOf
<1>2. CASE ~Escapes(p)
  <2>1. PICK stack \in Seq(Paths) :
          /\ Simplified(p) = [ok |-> TRUE, stack |-> stack]
          /\ Len(stack) = Len(Resolved(p))
    BY <1>2, SimplifiedIs
  <2> QED  BY <2>1 DEF NamesOf
<1> QED  BY <1>1, <1>2

LEMMA InitIInv == Init => IInv
<1>1. SUFFICES ASSUME Init PROVE IInv
  OBVIOUS
<1>2. PICK r \in Requests : archive = r.archive /\ path = r.path /\ max_len = r.max_len
  BY <1>1 DEF Init
<1>3. /\ path \in Seq(Chars) /\ max_len \in Nat /\ IsArchive(archive)
  BY <1>2, ReaderAssumption
<1>4. NamesOf(path) \in Nat /\ << >> \in Seq(Chars) /\ Len(<< >>) = 0
  BY <1>3, EmptySeq, NamesFacts DEF Paths
<1>5. << >> \in Seq({archive.units[k] : k \in 1 .. Len(archive.units)})
  BY EmptySeq
<1>6. /\ part.status = 0 /\ part.name = << >>
      /\ entry.kind = "none" /\ entry.dir = FALSE /\ entry.cluster = 0
      /\ phase = "closed" /\ depth = 0 /\ directory = 0 /\ index = 0
      /\ cluster = 0 /\ buff = << >>
  BY <1>1 DEF Init, NoPart, NoEntry
<1>7. 0 \in 0 .. Word - 1
  BY ImageAssumption
<1>8. TypeOK
  <2>1. depth \in Nat /\ depth <= NamesOf(path) /\ index \in Nat /\ directory \in 0 .. Word - 1
    BY <1>4, <1>6, <1>7
  <2>2. part.status \in {0, -1, -2} /\ part.name \in Seq(Chars)
    BY <1>4, <1>6
  <2>3. /\ entry.kind \in Kinds \cup {"none"} /\ entry.dir \in BOOLEAN
        /\ entry.cluster \in 0 .. Word - 1 /\ cluster = entry.cluster
    BY <1>6, <1>7
  <2>4. /\ buff \in Seq({archive.units[k] : k \in 1 .. Len(archive.units)})
        /\ Len(buff) <= max_len
    BY <1>3, <1>4, <1>5, <1>6
  <2> QED  BY <1>3, <1>6, <2>1, <2>2, <2>3, <2>4 DEF TypeOK
<1> QED  BY <1>3, <1>6, <1>8 DEF IInv

\* What break_up_path says, as the reader keeps it.
LEMMA PartFacts ==
    ASSUME NEW p \in Paths, NEW level \in Nat
    PROVE  /\ BreakUpPath(p, level).status \in {0, -1, -2}
           /\ BreakUpPath(p, level).name \in Seq(Chars)
           /\ BreakUpPath(p, level).status = 0 => level < NamesOf(p)
           /\ BreakUpPath(p, level).status = -1 <=> Escapes(p)
           /\ BreakUpPath(p, level).status = -2 =>
                 ~Escapes(p) /\ ~(level < Len(Resolved(p)))
<1> DEFINE R == Resolved(p)
           B == BreakUpPath(p, level)
<1>1. R \in Seq(Paths) /\ Len(R) \in Nat /\ Len(R) <= Len(p) /\ Len(p) \in Nat
  BY ResolvedIs DEF Paths
<1>2. << >> \in Seq(Chars)
  BY EmptySeq
<1>3. CASE Escapes(p)
  <2>1. B = [status |-> -1, name |-> << >>]
    BY <1>3, BreakUpPathIs
  <2> HIDE DEF B
  <2> QED  BY <1>2, <1>3, <2>1 DEF B
<1>4. CASE ~Escapes(p) /\ level < Len(R)
  <2>1. B = [status |-> 0, name |-> R[level + 1]]
    BY <1>4, BreakUpPathIs
  <2>2. R[level + 1] \in Seq(Chars)
    BY <1>1, <1>4 DEF Paths
  <2>3. level < NamesOf(p)
    BY <1>4, NamesFacts
  <2> HIDE DEF B, R
  <2> QED  BY <1>4, <2>1, <2>2, <2>3 DEF B
<1>5. CASE ~Escapes(p) /\ ~(level < Len(R))
  <2>1. B = [status |-> -2, name |-> << >>]
    BY <1>5, BreakUpPathIs
  <2> HIDE DEF B
  <2> QED  BY <1>2, <1>5, <2>1 DEF B
<1> QED  BY <1>3, <1>4, <1>5

\* The steps that change neither the search nor the read.
LEMMA GotoKeeps ==
    ASSUME IInv, UNCHANGED << request, findVars, readVars >>,
           phase' \in {"booted", "found", "done", "error"},
           phase' \in {"booted", "found"} => phase \in {"closed", "booted", "finding", "found"}
    PROVE  IInv'
BY DEF IInv, TypeOK, request, findVars, readVars

LEMMA BootKeeps ==
    ASSUME IInv, ReadBootBlock
    PROVE  IInv'
BY GotoKeeps DEF ReadBootBlock, Goto, request, findVars, readVars

LEMMA LevelFacts ==
    ASSUME NEW d \in Nat
    PROVE  Level(d) \in Nat /\ (d < LevelRange => Level(d) = d)
BY ReaderAssumption DEF Level

LEMMA StartFindKeeps ==
    ASSUME IInv, StartFind
    PROVE  IInv'
<1>1. /\ directory' = ClusterAddress(bpb, bpb.RootClus)
      /\ depth' = 0 /\ part' = BreakUpPath(path, 0) /\ index' = 0
      /\ \/ part'.status = -1 /\ phase' = "error"
         \/ part'.status # -1 /\ phase' = "finding"
      /\ UNCHANGED << request, entry, readVars >>
  BY DEF StartFind, Goto
<1>2. directory' \in 0 .. Word - 1
  <2>1. archive.bpb.RootClus \in Int /\ IsArchive(archive)
    BY DEF IInv, IsArchive
  <2> QED  BY <1>1, <2>1, AddressType DEF bpb
<1>3. path \in Paths /\ NamesOf(path) \in Nat
  BY NamesFacts DEF IInv, TypeOK, Paths
<1>4. part'.status \in {0, -1, -2} /\ part'.name \in Seq(Chars)
  BY <1>1, <1>3, PartFacts
<1>5. TypeOK'
  BY <1>1, <1>2, <1>3, <1>4 DEF IInv, TypeOK, request, readVars
<1>6. phase = "booted"
  BY DEF StartFind
<1>7. Level(0) = 0
  BY LevelFacts, ReaderAssumption
<1> QED  BY <1>1, <1>5, <1>6, <1>7 DEF IInv, request, readVars

\* What is read in a search is an entry.
LEMMA ExamineFacts ==
    ASSUME IInv, Examine
    PROVE  /\ phase = "finding" /\ cluster = 0 /\ UNCHANGED readVars
           /\ entry'.kind \in Kinds \cup {"none"} /\ entry'.dir \in BOOLEAN
           /\ entry'.cluster \in 0 .. Word - 1
           /\ entry' = Unit /\ IsUnit(Unit)
<1>1. directory \in Nat /\ index \in Nat /\ DirEntrySize \in Nat
  BY ImageAssumption DEF IInv, TypeOK
<1>2. EntryAddress \in Nat
  <2>1. index * DirEntrySize \in Nat
    BY <1>1
  <2> DEFINE m == index * DirEntrySize
  <2>2. EntryAddress = directory + m /\ m \in Nat
    BY <2>1 DEF EntryAddress
  <2> HIDE DEF m
  <2> QED  BY <1>1, <2>2
<1>3. IsUnit(Unit)
  BY <1>2, UnitFacts DEF IInv, Examine, Unit
<1> QED  BY <1>3 DEF Examine, IInv, IsUnit

LEMMA NullNameKeeps ==
    ASSUME IInv, NullName
    PROVE  IInv'
<1>1. /\ UNCHANGED << request, depth, part, directory, index, readVars >>
      /\ phase' = "crashed" /\ part.status = -2
  BY DEF NullName, Examine, Goto
<1>2. /\ phase = "finding" /\ cluster = 0
      /\ entry'.kind \in Kinds \cup {"none"} /\ entry'.dir \in BOOLEAN
      /\ entry'.cluster \in 0 .. Word - 1
  BY ExamineFacts DEF NullName
<1>3. TypeOK'
  BY <1>1, <1>2, ImageAssumption DEF IInv, TypeOK, request, readVars
<1>4. BreakUpPath(path, 0).status = -2
  BY <1>1, <1>2 DEF IInv
<1> QED  BY <1>1, <1>2, <1>3, <1>4 DEF IInv, request, readVars

LEMMA MatchesFacts ==
    ASSUME IInv, Matches
    PROVE  /\ depth' \in Nat /\ (NamesOf(path) < LevelRange => depth' <= NamesOf(path))
           /\ part' = BreakUpPath(path, Level(depth'))
           /\ part'.status \in {0, -2} /\ part'.name \in Seq(Chars)
<1>1. /\ phase = "finding" /\ part.status = 0
      /\ depth' = depth + 1 /\ part' = BreakUpPath(path, Level(depth'))
  BY DEF Matches, Examine
<1>2. part = BreakUpPath(path, Level(depth))
  BY <1>1 DEF IInv
<1>3. path \in Paths /\ NamesOf(path) \in Nat /\ depth \in Nat /\ depth' \in Nat
  BY <1>1, NamesFacts DEF IInv, TypeOK, Paths
<1>4. Level(depth) \in Nat /\ Level(depth') \in Nat
  BY <1>3, LevelFacts
<1>5. Level(depth) < NamesOf(path) /\ ~Escapes(path)
  BY <1>1, <1>2, <1>3, <1>4, PartFacts
<1>6. ASSUME NamesOf(path) < LevelRange PROVE depth' <= NamesOf(path)
  <2>1. depth <= NamesOf(path)
    BY <1>6 DEF IInv, TypeOK
  <2>2. Level(depth) = depth
    BY <1>3, <1>6, <2>1, LevelFacts, ReaderAssumption
  <2> QED  BY <1>1, <1>3, <1>5, <2>2
<1> DEFINE l == Level(depth')
<1>7. /\ BreakUpPath(path, l).status \in {0, -1, -2}
      /\ BreakUpPath(path, l).name \in Seq(Chars)
      /\ BreakUpPath(path, l).status # -1
  <2> HIDE DEF l
  <2>1. l \in Nat
    BY <1>4 DEF l
  <2> QED  BY <1>3, <1>5, <2>1, PartFacts
<1> QED  BY <1>1, <1>3, <1>6, <1>7

LEMMA MatchesKeeps ==
    ASSUME IInv, Found \/ Descend \/ NotADirectory
    PROVE  IInv'
<1>1. Matches
  BY DEF Found, Descend, NotADirectory
<1>2. /\ phase = "finding" /\ cluster = 0 /\ UNCHANGED readVars
      /\ entry'.kind \in Kinds \cup {"none"} /\ entry'.dir \in BOOLEAN
      /\ entry'.cluster \in 0 .. Word - 1
      /\ IsUnit(Unit)
  BY <1>1, ExamineFacts DEF Matches
<1>3. /\ depth' \in Nat /\ (NamesOf(path) < LevelRange => depth' <= NamesOf(path))
      /\ part' = BreakUpPath(path, Level(depth'))
      /\ part'.status \in {0, -2} /\ part'.name \in Seq(Chars)
  BY <1>1, MatchesFacts
<1>4. UNCHANGED request
  BY DEF Found, Descend, NotADirectory, Goto
<1>5. directory' \in 0 .. Word - 1 /\ index' \in Nat
  <2>1. CASE UNCHANGED << directory, index >>
    BY <2>1 DEF IInv, TypeOK
  <2>2. CASE directory' = ClusterAddress(bpb, Unit.cluster) /\ index' = 0
    <3>1. Unit.cluster \in Int /\ IsArchive(archive)
      BY <1>2, ImageAssumption DEF IInv, IsUnit
    <3> QED  BY <2>2, <3>1, AddressType DEF bpb
  <2> QED  BY <2>1, <2>2 DEF Found, Descend, NotADirectory
<1>6. /\ phase' \in {"found", "finding", "error"}
      /\ phase' = "finding" => part'.status = 0
  BY DEF Found, Descend, NotADirectory, Goto
<1>7. cluster' = 0 /\ buff' = buff /\ 0 \in 0 .. LinkMask - 1
  BY <1>2, ImageAssumption DEF readVars
<1>8. TypeOK'
  BY <1>2, <1>3, <1>4, <1>5, <1>6, <1>7 DEF IInv, TypeOK, request
<1>9. phase' = "finding" =>
          part' = BreakUpPath(path', Level(depth')) /\ part'.status # -1 /\ part'.status # -2
  BY <1>3, <1>4, <1>6 DEF request
<1>10. IsArchive(archive') /\ phase' # "crashed"
  BY <1>4, <1>6 DEF IInv, request
<1> QED  BY <1>7, <1>8, <1>9, <1>10 DEF IInv

LEMMA DiffersKeeps ==
    ASSUME IInv, Differs
    PROVE  IInv'
<1>1. /\ UNCHANGED << request, depth, part, directory, readVars >>
      /\ phase' \in {"error", "finding"} /\ index' = index + 1
  BY DEF Differs, Examine, Goto
<1>2. /\ phase = "finding" /\ cluster = 0
      /\ entry'.kind \in Kinds \cup {"none"} /\ entry'.dir \in BOOLEAN
      /\ entry'.cluster \in 0 .. Word - 1
  BY ExamineFacts DEF Differs
<1>3. TypeOK'
  BY <1>1, <1>2, ImageAssumption DEF IInv, TypeOK, request, readVars
<1>4. phase' = "finding" =>
          /\ part' = BreakUpPath(path', Level(depth'))
          /\ part'.status # -1
          /\ part'.status = -2 => BreakUpPath(path', 0).status = -2
  BY <1>1, <1>2 DEF IInv, request
<1> QED  BY <1>1, <1>2, <1>3, <1>4 DEF IInv, request, readVars

LEMMA StartReadKeeps ==
    ASSUME IInv, StartRead
    PROVE  IInv'
<1>1. /\ UNCHANGED << request, findVars >> /\ phase' = "reading"
      /\ cluster' = entry.cluster /\ buff' = << >>
  BY DEF StartRead, Goto
<1>2. /\ << >> \in Seq({archive.units[k] : k \in 1 .. Len(archive.units)})
      /\ Len(<< >>) = 0
  BY EmptySeq
<1>3. TypeOK'
  BY <1>1, <1>2 DEF IInv, TypeOK, request, findVars
<1> QED  BY <1>1, <1>3 DEF IInv, request

LEMMA ReadClusterKeeps ==
    ASSUME IInv, ReadCluster
    PROVE  IInv'
<1> DEFINE from == ClusterAddress(bpb, cluster)
           size == Shortest(ClusterSize(bpb), max_len - Len(buff))
           U == {archive.units[k] : k \in 1 .. Len(archive.units)}
           more == [k \in 1 .. Cardinality(Wanted) |-> UnitAt(archive, from + k - 1)]
<1>1. /\ UNCHANGED << request, findVars >> /\ phase' \in {"done", "reading"}
      /\ ~BuffIsFull /\ \A a \in Wanted : InArchive(archive, a)
      /\ buff' = buff \o more
      /\ cluster' = NextCluster(archive, cluster)
  BY DEF ReadCluster, Received, Goto
<1>2. /\ IsArchive(archive) /\ max_len \in Nat /\ buff \in Seq(U) /\ Len(buff) <= max_len
      /\ entry.cluster \in 0 .. Word - 1
      /\ cluster \in 0 .. LinkMask - 1 \/ cluster = entry.cluster
  BY DEF IInv, TypeOK
<1>3. cluster \in 0 .. Word - 1
  BY <1>2, ImageAssumption
<1>4. from \in Nat
  <2>1. cluster \in Int
    BY <1>3, ImageAssumption
  <2>2. from \in 0 .. Word - 1
    BY <1>2, <2>1, AddressType DEF bpb
  <2> HIDE DEF from
  <2> QED  BY <2>2, ImageAssumption
<1>5. Len(buff) \in Nat /\ Len(buff) < max_len
  BY <1>1, <1>2 DEF BuffIsFull
<1>6. size \in Nat /\ Len(buff) + size <= max_len
  <2> DEFINE c == ClusterSize(bpb)
             l == max_len - Len(buff)
  <2>1. c \in Nat
    <3>1. archive.bpb.SecPerClus \in Nat /\ archive.bpb.BytsPerSec \in Nat
      BY <1>2 DEF IsArchive
    <3> QED  BY <3>1 DEF ClusterSize, bpb
  <2>2. l \in Nat /\ Len(buff) + l = max_len
    BY <1>2, <1>5
  <2>3. size = IF c <= l THEN c ELSE l
    BY DEF Shortest
  <2> HIDE DEF c, l, size
  <2> QED  BY <1>2, <1>5, <2>1, <2>2, <2>3
<1>7. Wanted = from .. from + size - 1
  BY DEF Wanted
<1> HIDE DEF from, size
<1>8. Cardinality(Wanted) = size
  <2>1. \A k, m \in Int : Cardinality(k .. m) = IF k > m THEN 0 ELSE m - k + 1
    BY FS_Interval
  <2> DEFINE last == from + size - 1
  <2>2. from \in Int /\ last \in Int
    BY <1>4, <1>6
  <2>3. Cardinality(Wanted) = IF from > last THEN 0 ELSE last - from + 1
    <3> HIDE DEF last
    <3>1. Wanted = from .. last
      BY <1>7 DEF last
    <3> QED  BY <2>1, <2>2, <3>1
  <2> QED  BY <1>4, <1>6, <2>3
<1>9. more = [k \in 1 .. size |-> UnitAt(archive, from + k - 1)]
  BY <1>8
<1>10. \A k \in 1 .. size : UnitAt(archive, from + k - 1) \in U
  <2>1. SUFFICES ASSUME NEW k \in 1 .. size PROVE UnitAt(archive, from + k - 1) \in U
    OBVIOUS
  <2> DEFINE a == from + k - 1
  <2>2. a \in Nat /\ a \in from .. from + size - 1
    BY <1>4, <1>6
  <2>3. InArchive(archive, a)
    BY <1>1, <1>7, <2>2
  <2> HIDE DEF a
  <2> QED  BY <1>2, <2>2, <2>3, UnitFacts DEF a
<1> HIDE DEF more, U
<1>11. more \in Seq(U) /\ Len(more) = size
  <2>1. more \in [1 .. size -> U]
    BY <1>9, <1>10
  <2>2. more \in Seq(U)
    BY <1>6, <2>1, SeqDef
  <2> QED  BY <1>6, <2>1, <2>2, LenProperties
<1>12. buff' \in Seq(U) /\ Len(buff') <= max_len
  BY <1>1, <1>2, <1>5, <1>6, <1>11, ConcatProperties
<1>13. cluster' \in 0 .. LinkMask - 1 \/ cluster' = entry.cluster
  BY <1>1, <1>2, <1>3, NextClusterType
<1>14. TypeOK'
  BY <1>1, <1>12, <1>13 DEF IInv, TypeOK, request, findVars, U
<1> QED  BY <1>1, <1>14 DEF IInv, request

LEMMA NextIInv == IInv /\ [Next]_vars => IInv'
<1>1. SUFFICES ASSUME IInv, [Next]_vars PROVE IInv'
  OBVIOUS
<1>2. CASE ReadBootBlock
  BY <1>1, <1>2, BootKeeps
<1>3. CASE StartFind
  BY <1>1, <1>3, StartFindKeeps
<1>4. CASE FindFails \/ ReadFails \/ ReturnFull
  BY <1>1, <1>4, GotoKeeps DEF FindFails, ReadFails, ReturnFull, Goto, request, findVars, readVars
<1>5. CASE NullName
  BY <1>1, <1>5, NullNameKeeps
<1>6. CASE Found \/ Descend \/ NotADirectory
  BY <1>1, <1>6, MatchesKeeps
<1>7. CASE Differs
  BY <1>1, <1>7, DiffersKeeps
<1>8. CASE StartRead
  BY <1>1, <1>8, StartReadKeeps
<1>9. CASE ReadCluster
  BY <1>1, <1>9, ReadClusterKeeps
<1>10. CASE UNCHANGED vars
  BY <1>1, <1>10 DEF IInv, TypeOK, vars, request, findVars, readVars
<1> QED  BY <1>1, <1>2, <1>3, <1>4, <1>5, <1>6, <1>7, <1>8, <1>9, <1>10
         DEF Next, FindStep, ReadStep, Terminated

LEMMA Invariant == Spec => []IInv
BY InitIInv, NextIInv, PTL DEF Spec

(***************************************************************************)
(* For every archive: a read stays within the length asked for, a cluster  *)
(* that is followed is one an entry or a masked link names, and what is    *)
(* read are units of the archive.  A search stays in the path if the path  *)
(* has fewer names than there are levels; with more the level wraps        *)
(* around, and nothing is said of the depth.                               *)
(***************************************************************************)
THEOREM TypeCorrect == Spec => []TypeOK
<1>1. IInv => TypeOK
  BY DEF IInv
<1> QED  BY <1>1, Invariant, PTL

(***************************************************************************)
(* get_simplified_path and break_up_path give, of every path and at every  *)
(* level, the names no later ".." takes away, and refuse exactly the paths *)
(* that lead above the root.                                               *)
(***************************************************************************)
THEOREM PathsAreSplit == Spec => []SplitsThePath
<1>1. ASSUME NEW p \in Paths, NEW level \in Nat
      PROVE  BreakUpPath(p, level) =
                IF Escapes(p) THEN [status |-> -1, name |-> << >>]
                ELSE IF level < Len(Resolved(p))
                     THEN [status |-> 0, name |-> Resolved(p)[level + 1]]
                     ELSE [status |-> -2, name |-> << >>]
  BY BreakUpPathIs
<1>2. IInv => SplitsThePath
  <2>1. SUFFICES ASSUME IInv PROVE SplitsThePath
    OBVIOUS
  <2>2. path \in Paths
    BY <2>1 DEF IInv, TypeOK, Paths
  <2>3. \A level \in 0 .. Len(path) : level \in Nat
    OBVIOUS
  <2> QED  BY <1>1, <2>2, <2>3, Zenon DEF SplitsThePath
<1> QED  BY <1>2, Invariant, PTL

(***************************************************************************)
(* find_file_descriptor compares with a name it does not have only when    *)
(* the path names the root.                                                *)
(***************************************************************************)
THEOREM OnlyTheRootCrashes == Spec => []CrashesOnRootOnly
<1>1. IInv => CrashesOnRootOnly
  <2>1. SUFFICES ASSUME IInv, phase = "crashed"
                 PROVE  ~Escapes(path) /\ Resolved(path) = << >>
    BY DEF CrashesOnRootOnly
  <2>2. path \in Paths /\ BreakUpPath(path, 0).status = -2
    BY <2>1 DEF IInv, TypeOK, Paths
  <2>3. ~Escapes(path) /\ ~(0 < Len(Resolved(path)))
    BY <2>2, PartFacts
  <2>4. Resolved(path) \in Seq(Paths)
    BY <2>2, ResolvedIs
  <2>5. Resolved(path) = << >>
    BY <2>3, <2>4, EmptySeq
  <2> QED  BY <2>3, <2>5
<1> QED  BY <1>1, Invariant, PTL
=============================================================================
