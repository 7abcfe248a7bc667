------------------------- MODULE LinkedQueueProofs --------------------------
(***************************************************************************)
(* The doubly linked list of ready_queue.c is the list of ListSpec, for    *)
(* every number of nodes and processes and every key.                      *)
(***************************************************************************)
EXTENDS LinkedQueue, DataProofs

\* The node at a place of a walk, the null pointer outside of it.
NodeAt(s, i) == IF i \in 1 .. Len(s) THEN s[i] ELSE Nil

\* s is the walk from the head h to the tail t: every allocated node is on it
\* once, and the links of a node are its neighbours.
IsChain(s, h, t, sz, pr, nx, pv) ==
    /\ s \in Seq(Node)
    /\ \A i, j \in 1 .. Len(s) : s[i] = s[j] => i = j
    /\ pr \in [ToSet(s) -> Process \cup {NULL}]
    /\ nx \in [ToSet(s) -> Node \cup {Nil}]
    /\ pv \in [ToSet(s) -> Node \cup {Nil}]
    /\ \A i \in 1 .. Len(s) : /\ nx[s[i]] = NodeAt(s, i - 1)
                              /\ pv[s[i]] = NodeAt(s, i + 1)
    /\ h = NodeAt(s, 1)
    /\ t = NodeAt(s, Len(s))
    /\ sz = Len(s)

-----------------------------------------------------------------------------
(* What an insertion and a removal do to the walk.                          *)

LEMMA NodeAtType ==
    ASSUME NEW s \in Seq(Node), NEW i \in Int
    PROVE  /\ NodeAt(s, i) \in ToSet(s) \cup {Nil}
           /\ NodeAt(s, i) \in Node \cup {Nil}
           /\ NodeAt(s, i) = Nil <=> i \notin 1 .. Len(s)
BY LinkedAssumption DEF NodeAt, ToSet

\* A node is linked between two neighbours of the walk.
LEMMA InsertedChain ==
    ASSUME NEW s, NEW h, NEW t, NEW sz, NEW pr, NEW nx, NEW pv,
           IsChain(s, h, t, sz, pr, nx, pv),
           NEW m \in 0 .. Len(s), NEW n \in Node \ ToSet(s),
           NEW x \in Process \cup {NULL}
    PROVE  IsChain(InsertAt(s, m + 1, n),
                   IF NodeAt(s, m) = Nil THEN n ELSE h,
                   IF NodeAt(s, m + 1) = Nil THEN n ELSE t,
                   sz + 1,
                   Extend(pr, n, x),
                   Extend(Set(nx, NodeAt(s, m + 1), n), n, NodeAt(s, m)),
                   Extend(Set(pv, NodeAt(s, m), n), n, NodeAt(s, m + 1)))
<1> DEFINE r == InsertAt(s, m + 1, n)
           a == NodeAt(s, m)
           b == NodeAt(s, m + 1)
           nx1 == Set(nx, b, n)
           pv1 == Set(pv, a, n)
           nx2 == Extend(nx1, n, a)
           pv2 == Extend(pv1, n, b)
           pr2 == Extend(pr, n, x)
<1>1. s \in Seq(Node) /\ Len(s) \in Nat /\ m \in Nat /\ m <= Len(s)
  BY DEF IsChain
<1>2. /\ r \in Seq(Node)
      /\ Len(r) = Len(s) + 1
      /\ \A i \in 1 .. Len(s) + 1 :
            r[i] = IF i < m + 1 THEN s[i] ELSE IF i = m + 1 THEN n ELSE s[i - 1]
  <2>1. m + 1 \in 1 .. Len(s) + 1
    BY <1>1
  <2> QED  BY <1>1, <2>1, InsertAtType, InsertAtElements
<1> HIDE DEF r
<1>3. \A i \in 1 .. Len(s) : s[i] \in ToSet(s) /\ s[i] # n
  BY <1>1 DEF ToSet
<1>4. ToSet(r) = ToSet(s) \cup {n}
  <2>1. DOMAIN r = 1 .. Len(s) + 1
    BY <1>2
  <2>2. ASSUME NEW i \in 1 .. Len(s) + 1 PROVE r[i] \in ToSet(s) \cup {n}
    <3>1. CASE i < m + 1
      BY <1>1, <1>2, <1>3, <3>1
    <3>2. CASE i = m + 1
      BY <1>2, <3>2
    <3>3. CASE i > m + 1
      <4>1. i - 1 \in 1 .. Len(s)
        BY <1>1, <3>3
      <4> QED  BY <1>2, <1>3, <3>3, <4>1
    <3> QED  BY <1>1, <3>1, <3>2, <3>3
  <2>3. ASSUME NEW i \in 1 .. Len(s) PROVE s[i] \in ToSet(r)
    <3>1. CASE i < m + 1
      <4>1. i \in 1 .. Len(s) + 1 /\ r[i] = s[i]
        BY <1>1, <1>2, <3>1
      <4> QED  BY <2>1, <4>1 DEF ToSet
    <3>2. CASE i >= m + 1
      <4>1. i + 1 \in 1 .. Len(s) + 1 /\ (i + 1) - 1 = i /\ ~(i + 1 < m + 1) /\ i + 1 # m + 1
        BY <1>1, <3>2
      <4>2. r[i + 1] = s[i]
        BY <1>2, <4>1
      <4> QED  BY <2>1, <4>1, <4>2 DEF ToSet
    <3> QED  BY <1>1, <3>1, <3>2
  <2>4. n \in ToSet(r)
    <3>1. m + 1 \in 1 .. Len(s) + 1 /\ r[m + 1] = n
      BY <1>1, <1>2
    <3> QED  BY <2>1, <3>1 DEF ToSet
  <2> QED  BY <1>1, <2>1, <2>2, <2>3, <2>4 DEF ToSet
<1>5. \A i, j \in 1 .. Len(s) : s[i] = s[j] => i = j
  BY DEF IsChain
<1>6. ASSUME NEW i \in 1 .. Len(r), NEW j \in 1 .. Len(r), r[i] = r[j] PROVE i = j
  <2> DEFINE old == [e \in 1 .. Len(s) + 1 |-> IF e < m + 1 THEN e ELSE e - 1]
  <2>1. ASSUME NEW e \in 1 .. Len(s) + 1, e # m + 1
        PROVE  old[e] \in 1 .. Len(s) /\ r[e] = s[old[e]] /\ r[e] # n
    <3>1. old[e] \in 1 .. Len(s)
      BY <1>1, <2>1
    <3>2. r[e] = s[old[e]]
      BY <1>2, <2>1
    <3> HIDE DEF old
    <3> QED  BY <1>3, <3>1, <3>2
  <2>2. \A e, f \in 1 .. Len(s) + 1 : e # m + 1 /\ f # m + 1 /\ old[e] = old[f] => e = f
    BY <1>1
  <2>3. r[m + 1] = n /\ i \in 1 .. Len(s) + 1 /\ j \in 1 .. Len(s) + 1
    BY <1>1, <1>2
  <2> HIDE DEF old
  <2> QED  BY <1>5, <1>6, <2>1, <2>2, <2>3
<1>7. /\ a \in ToSet(s) \cup {Nil} /\ a \in Node \cup {Nil} /\ (a = Nil <=> m = 0)
      /\ b \in ToSet(s) \cup {Nil} /\ b \in Node \cup {Nil} /\ (b = Nil <=> m = Len(s))
      /\ m > 0 => a = s[m]
      /\ m < Len(s) => b = s[m + 1]
  <2>1. m \in Int /\ m + 1 \in Int /\ (m \notin 1 .. Len(s) <=> m = 0)
        /\ (m + 1 \notin 1 .. Len(s) <=> m = Len(s))
    BY <1>1
  <2>2. (m > 0 => a = s[m]) /\ (m < Len(s) => b = s[m + 1])
    BY <1>1 DEF NodeAt
  <2> QED  BY <1>1, <2>1, <2>2, NodeAtType
<1> HIDE DEF a, b
<1>8. Nil \notin Node
  BY LinkedAssumption
<1>9. /\ nx1 \in [ToSet(s) -> Node \cup {Nil}]
      /\ pv1 \in [ToSet(s) -> Node \cup {Nil}]
      /\ \A i \in 1 .. Len(s) :
            /\ nx1[s[i]] = IF i = m + 1 THEN n ELSE NodeAt(s, i - 1)
            /\ pv1[s[i]] = IF i = m THEN n ELSE NodeAt(s, i + 1)
  <2>1. /\ nx \in [ToSet(s) -> Node \cup {Nil}]
        /\ pv \in [ToSet(s) -> Node \cup {Nil}]
        /\ \A i \in 1 .. Len(s) : nx[s[i]] = NodeAt(s, i - 1) /\ pv[s[i]] = NodeAt(s, i + 1)
    BY DEF IsChain
  <2>2. nx1 \in [ToSet(s) -> Node \cup {Nil}] /\ pv1 \in [ToSet(s) -> Node \cup {Nil}]
    BY <1>7, <2>1 DEF Set
  <2>3. ASSUME NEW i \in 1 .. Len(s)
        PROVE  nx1[s[i]] = IF i = m + 1 THEN n ELSE NodeAt(s, i - 1)
    <3>1. CASE m = Len(s)
      <4>1. i # m + 1 /\ nx1 = nx
        BY <1>1, <1>7, <3>1 DEF Set
      <4> QED  BY <2>1, <4>1
    <3>2. CASE m < Len(s)
      <4>1. b = s[m + 1] /\ b # Nil /\ m + 1 \in 1 .. Len(s)
        BY <1>1, <1>7, <3>2
      <4>2. nx1 = [nx EXCEPT ![b] = n]
        BY <4>1 DEF Set
      <4>3. s[i] = b <=> i = m + 1
        BY <1>5, <4>1
      <4>4. s[i] \in ToSet(s)
        BY <1>3
      <4> QED  BY <2>1, <4>2, <4>3, <4>4
    <3> QED  BY <1>1, <3>1, <3>2
  <2>4. ASSUME NEW i \in 1 .. Len(s)
        PROVE  pv1[s[i]] = IF i = m THEN n ELSE NodeAt(s, i + 1)
    <3>1. CASE m = 0
      <4>1. i # m /\ pv1 = pv
        BY <1>1, <1>7, <3>1 DEF Set
      <4> QED  BY <2>1, <4>1
    <3>2. CASE m > 0
      <4>1. a = s[m] /\ a # Nil /\ m \in 1 .. Len(s)
        BY <1>1, <1>7, <3>2
      <4>2. pv1 = [pv EXCEPT ![a] = n]
        BY <4>1 DEF Set
      <4>3. s[i] = a <=> i = m
        BY <1>5, <4>1
      <4>4. s[i] \in ToSet(s)
        BY <1>3
      <4> QED  BY <2>1, <4>2, <4>3, <4>4
    <3> QED  BY <1>1, <3>1, <3>2
  <2> QED  BY <2>2, <2>3, <2>4
<1> HIDE DEF nx1, pv1
<1>10. /\ nx2 \in [ToSet(r) -> Node \cup {Nil}]
       /\ pv2 \in [ToSet(r) -> Node \cup {Nil}]
       /\ nx2[n] = a
       /\ pv2[n] = b
       /\ \A i \in 1 .. Len(s) : nx2[s[i]] = nx1[s[i]] /\ pv2[s[i]] = pv1[s[i]]
  BY <1>3, <1>4, <1>7, <1>9 DEF Extend
<1>11. pr2 \in [ToSet(r) -> Process \cup {NULL}]
  BY <1>4 DEF Extend, IsChain
<1> HIDE DEF nx2, pv2, pr2
<1>12. ASSUME NEW i \in 1 .. Len(r)
       PROVE  nx2[r[i]] = NodeAt(r, i - 1) /\ pv2[r[i]] = NodeAt(r, i + 1)
  <2>1. CASE i < m + 1
    <3>1. i \in 1 .. Len(s) /\ r[i] = s[i] /\ i # m + 1
      BY <1>1, <1>2, <2>1
    <3>2. NodeAt(r, i - 1) = NodeAt(s, i - 1)
      BY <1>1, <1>2, <2>1 DEF NodeAt
    <3>3. NodeAt(r, i + 1) = IF i = m THEN n ELSE NodeAt(s, i + 1)
      <4>1. CASE i = m
        BY <1>1, <1>2, <4>1 DEF NodeAt
      <4>2. CASE i # m
        BY <1>1, <1>2, <2>1, <4>2 DEF NodeAt
      <4> QED  BY <4>1, <4>2
    <3> QED  BY <1>9, <1>10, <3>1, <3>2, <3>3
  <2>2. CASE i = m + 1
    <3>1. r[i] = n /\ i - 1 = m
      BY <1>1, <1>2, <2>2
    <3>2. NodeAt(r, m) = a
      BY <1>1, <1>2, <1>7 DEF NodeAt
    <3>3. NodeAt(r, i + 1) = b
      <4>1. CASE m = Len(s)
        BY <1>1, <1>2, <1>7, <2>2, <4>1 DEF NodeAt
      <4>2. CASE m < Len(s)
        BY <1>1, <1>2, <1>7, <2>2, <4>2 DEF NodeAt
      <4> QED  BY <1>1, <4>1, <4>2
    <3> QED  BY <1>10, <3>1, <3>2, <3>3
  <2>3. CASE i > m + 1
    <3>1. i - 1 \in 1 .. Len(s) /\ r[i] = s[i - 1] /\ i - 1 # m
      BY <1>1, <1>2, <2>3
    <3>2. NodeAt(r, i + 1) = NodeAt(s, (i - 1) + 1)
      <4>1. CASE i = Len(r)
        BY <1>1, <1>2, <2>3, <4>1 DEF NodeAt
      <4>2. CASE i < Len(r)
        <5>1. i + 1 \in 1 .. Len(s) + 1 /\ (i + 1) - 1 = i /\ i \in 1 .. Len(s)
              /\ ~(i + 1 < m + 1) /\ i + 1 # m + 1 /\ (i - 1) + 1 = i
          BY <1>1, <1>2, <2>3, <4>2
        <5>2. r[i + 1] = s[i]
          BY <1>2, <5>1
        <5> QED  BY <1>2, <5>1, <5>2 DEF NodeAt
      <4> QED  BY <1>1, <1>2, <4>1, <4>2
    <3>3. NodeAt(r, i - 1) = IF i - 1 = m + 1 THEN n ELSE NodeAt(s, (i - 1) - 1)
      <4>1. CASE i - 1 = m + 1
        BY <1>1, <1>2, <3>1, <4>1 DEF NodeAt
      <4>2. CASE i - 1 # m + 1
        <5>1. i - 1 \in 1 .. Len(s) + 1 /\ ~(i - 1 < m + 1) /\ (i - 1) - 1 \in 1 .. Len(s)
          BY <1>1, <2>3, <3>1, <4>2
        <5> QED  BY <1>2, <4>2, <5>1 DEF NodeAt
      <4> QED  BY <4>1, <4>2
    <3> QED  BY <1>9, <1>10, <3>1, <3>2, <3>3
  <2> QED  BY <1>1, <1>2, <2>1, <2>2, <2>3
<1>13. /\ (IF a = Nil THEN n ELSE h) = NodeAt(r, 1)
       /\ (IF b = Nil THEN n ELSE t) = NodeAt(r, Len(r))
       /\ sz + 1 = Len(r)
  <2>1. h = NodeAt(s, 1) /\ t = NodeAt(s, Len(s)) /\ sz = Len(s)
    BY DEF IsChain
  <2>2. (IF a = Nil THEN n ELSE h) = NodeAt(r, 1)
    <3>1. CASE m = 0
      BY <1>1, <1>2, <1>7, <3>1 DEF NodeAt
    <3>2. CASE m > 0
      BY <1>1, <1>2, <1>7, <2>1, <3>2 DEF NodeAt
    <3> QED  BY <1>1, <3>1, <3>2
  <2>3. (IF b = Nil THEN n ELSE t) = NodeAt(r, Len(r))
    <3>1. CASE m = Len(s)
      BY <1>1, <1>2, <1>7, <3>1 DEF NodeAt
    <3>2. CASE m < Len(s)
      <4>1. Len(s) + 1 \in 1 .. Len(s) + 1 /\ ~(Len(s) + 1 < m + 1) /\ Len(s) + 1 # m + 1
            /\ (Len(s) + 1) - 1 = Len(s) /\ Len(s) \in 1 .. Len(s)
        BY <1>1, <3>2
      <4>2. r[Len(s) + 1] = s[Len(s)]
        BY <1>2, <4>1
      <4>3. b # Nil
        BY <1>7, <3>2
      <4> QED  BY <1>2, <2>1, <4>1, <4>2, <4>3 DEF NodeAt
    <3> QED  BY <1>1, <3>1, <3>2
  <2> QED  BY <1>2, <2>1, <2>2, <2>3
<1>14. IsChain(r, IF a = Nil THEN n ELSE h, IF b = Nil THEN n ELSE t, sz + 1, pr2, nx2, pv2)
  BY <1>2, <1>6, <1>10, <1>11, <1>12, <1>13 DEF IsChain
<1> QED  BY <1>14 DEF r, a, b, nx1, pv1, nx2, pv2, pr2

\* The neighbours of a node are linked to each other, and the node is freed.
LEMMA RemovedChain ==
    ASSUME NEW s, NEW h, NEW t, NEW sz, NEW pr, NEW nx, NEW pv,
           IsChain(s, h, t, sz, pr, nx, pv),
           NEW k \in 1 .. Len(s)
    PROVE  IsChain(RemoveAt(s, k),
                   IF NodeAt(s, k - 1) = Nil THEN NodeAt(s, k + 1) ELSE h,
                   IF NodeAt(s, k + 1) = Nil THEN NodeAt(s, k - 1) ELSE t,
                   sz - 1,
                   Shrink(pr, s[k]),
                   Shrink(Set(nx, NodeAt(s, k + 1), NodeAt(s, k - 1)), s[k]),
                   Shrink(Set(pv, NodeAt(s, k - 1), NodeAt(s, k + 1)), s[k]))
<1> DEFINE r == RemoveAt(s, k)
           c == s[k]
           a == NodeAt(s, k - 1)
           b == NodeAt(s, k + 1)
           nx1 == Set(nx, b, a)
           pv1 == Set(pv, a, b)
           nx2 == Shrink(nx1, c)
           pv2 == Shrink(pv1, c)
           pr2 == Shrink(pr, c)
           old == [e \in 1 .. Len(s) - 1 |-> IF e < k THEN e ELSE e + 1]
<1>1. s \in Seq(Node) /\ Len(s) \in Nat /\ k \in Nat /\ k >= 1 /\ k <= Len(s)
  BY DEF IsChain
<1>2. /\ Len(r) = Len(s) - 1
      /\ \A i \in 1 .. Len(s) - 1 : r[i] = IF i < k THEN s[i] ELSE s[i + 1]
  BY <1>1, RemoveAtElements
<1>3. r \in Seq(Node)
  <2>1. SubSeq(s, 1, k - 1) \in Seq(Node) /\ SubSeq(s, k + 1, Len(s)) \in Seq(Node)
    BY <1>1, SubSeqProperties
  <2> QED  BY <2>1, ConcatProperties DEF RemoveAt
<1> HIDE DEF r
<1>4. /\ \A e \in 1 .. Len(s) - 1 : /\ old[e] \in 1 .. Len(s) /\ old[e] # k
                                    /\ r[e] = s[old[e]]
                                    /\ e < k => old[e] = e
                                    /\ e >= k => old[e] = e + 1
      /\ \A e, f \in 1 .. Len(s) - 1 : old[e] = old[f] => e = f
      /\ \A d \in 1 .. Len(s) : d # k => \E e \in 1 .. Len(s) - 1 : old[e] = d
  <2>1. ASSUME NEW e \in 1 .. Len(s) - 1
        PROVE  /\ old[e] \in 1 .. Len(s) /\ old[e] # k
               /\ r[e] = s[old[e]]
               /\ e < k => old[e] = e
               /\ e >= k => old[e] = e + 1
    BY <1>1, <1>2
  <2>2. \A e, f \in 1 .. Len(s) - 1 : old[e] = old[f] => e = f
    BY <1>1
  <2>3. ASSUME NEW d \in 1 .. Len(s), d # k
        PROVE  \E e \in 1 .. Len(s) - 1 : old[e] = d
    <3>1. CASE d < k
      <4>1. d \in 1 .. Len(s) - 1 /\ old[d] = d
        BY <1>1, <3>1
      <4> QED  BY <4>1
    <3>2. CASE d > k
      <4>1. d - 1 \in 1 .. Len(s) - 1 /\ old[d - 1] = d
        BY <1>1, <3>2
      <4> QED  BY <4>1
    <3> QED  BY <1>1, <2>3, <3>1, <3>2
  <2> HIDE DEF old
  <2> QED  BY <2>1, <2>2, <2>3
<1> HIDE DEF old
<1>5. \A i, j \in 1 .. Len(s) : s[i] = s[j] => i = j
  BY DEF IsChain
<1>6. \A i, j \in 1 .. Len(r) : r[i] = r[j] => i = j
  <2>1. ASSUME NEW i \in 1 .. Len(s) - 1, NEW j \in 1 .. Len(s) - 1, r[i] = r[j]
        PROVE  i = j
    <3>1. /\ old[i] \in 1 .. Len(s) /\ r[i] = s[old[i]]
          /\ old[j] \in 1 .. Len(s) /\ r[j] = s[old[j]]
      BY <1>4
    <3>2. old[i] = old[j]
      BY <1>5, <2>1, <3>1
    <3> QED  BY <1>4, <3>2
  <2>2. 1 .. Len(r) = 1 .. Len(s) - 1
    BY <1>2
  <2> QED  BY <2>1, <2>2
<1>7. DOMAIN s = 1 .. Len(s) /\ DOMAIN r = 1 .. Len(s) - 1
  BY <1>1, <1>2, <1>3
<1>8. ToSet(r) = ToSet(s) \ {c}
  <2>1. ASSUME NEW e \in 1 .. Len(s) - 1 PROVE r[e] \in ToSet(s) /\ r[e] # c
    <3>1. old[e] \in 1 .. Len(s) /\ old[e] # k /\ r[e] = s[old[e]]
      BY <1>4
    <3>2. s[old[e]] \in ToSet(s)
      BY <1>7, <3>1 DEF ToSet
    <3>3. s[old[e]] # s[k]
      BY <1>5, <3>1
    <3> QED  BY <3>1, <3>2, <3>3
  <2>2. ASSUME NEW d \in 1 .. Len(s), s[d] # c PROVE s[d] \in ToSet(r)
    <3>1. PICK e \in 1 .. Len(s) - 1 : old[e] = d
      BY <1>4, <2>2
    <3>2. r[e] = s[d]
      BY <1>4, <3>1
    <3>3. r[e] \in ToSet(r)
      BY <1>7 DEF ToSet
    <3> QED  BY <3>2, <3>3
  <2> QED  BY <1>7, <2>1, <2>2 DEF ToSet
<1>9. \A i \in 1 .. Len(s) : s[i] \in ToSet(s)
  BY <1>7 DEF ToSet
<1>10. /\ a \in ToSet(s) \cup {Nil} /\ a \in Node \cup {Nil} /\ (a = Nil <=> k = 1)
       /\ b \in ToSet(s) \cup {Nil} /\ b \in Node \cup {Nil} /\ (b = Nil <=> k = Len(s))
       /\ k > 1 => a = s[k - 1]
       /\ k < Len(s) => b = s[k + 1]
  <2>1. k - 1 \in Int /\ k + 1 \in Int /\ (k - 1 \notin 1 .. Len(s) <=> k = 1)
        /\ (k + 1 \notin 1 .. Len(s) <=> k = Len(s))
    BY <1>1
  <2>2. (k > 1 => a = s[k - 1]) /\ (k < Len(s) => b = s[k + 1])
    BY <1>1 DEF NodeAt
  <2> QED  BY <1>1, <2>1, <2>2, NodeAtType
<1> HIDE DEF a, b
<1>11. /\ nx1 \in [ToSet(s) -> Node \cup {Nil}]
       /\ pv1 \in [ToSet(s) -> Node \cup {Nil}]
       /\ \A i \in 1 .. Len(s) :
             /\ nx1[s[i]] = IF i = k + 1 THEN a ELSE NodeAt(s, i - 1)
             /\ pv1[s[i]] = IF i = k - 1 THEN b ELSE NodeAt(s, i + 1)
  <2>1. /\ nx \in [ToSet(s) -> Node \cup {Nil}]
        /\ pv \in [ToSet(s) -> Node \cup {Nil}]
        /\ \A i \in 1 .. Len(s) : nx[s[i]] = NodeAt(s, i - 1) /\ pv[s[i]] = NodeAt(s, i + 1)
    BY DEF IsChain
  <2>2. nx1 \in [ToSet(s) -> Node \cup {Nil}] /\ pv1 \in [ToSet(s) -> Node \cup {Nil}]
    BY <1>10, <2>1 DEF Set
  <2>3. ASSUME NEW i \in 1 .. Len(s)
        PROVE  nx1[s[i]] = IF i = k + 1 THEN a ELSE NodeAt(s, i - 1)
    <3>1. CASE k = Len(s)
      <4>1. i # k + 1 /\ nx1 = nx
        BY <1>1, <1>10, <3>1 DEF Set
      <4> QED  BY <2>1, <4>1
    <3>2. CASE k < Len(s)
      <4>1. b = s[k + 1] /\ b # Nil /\ k + 1 \in 1 .. Len(s)
        BY <1>1, <1>10, <3>2
      <4>2. nx1 = [nx EXCEPT ![b] = a]
        BY <4>1 DEF Set
      <4>3. s[i] = b <=> i = k + 1
        BY <1>5, <4>1
      <4>4. s[i] \in ToSet(s)
        BY <1>9
      <4> QED  BY <2>1, <4>2, <4>3, <4>4
    <3> QED  BY <1>1, <3>1, <3>2
  <2>4. ASSUME NEW i \in 1 .. Len(s)
        PROVE  pv1[s[i]] = IF i = k - 1 THEN b ELSE NodeAt(s, i + 1)
    <3>1. CASE k = 1
      <4>1. i # k - 1 /\ pv1 = pv
        BY <1>1, <1>10, <3>1 DEF Set
      <4> QED  BY <2>1, <4>1
    <3>2. CASE k > 1
      <4>1. a = s[k - 1] /\ a # Nil /\ k - 1 \in 1 .. Len(s)
        BY <1>1, <1>10, <3>2
      <4>2. pv1 = [pv EXCEPT ![a] = b]
        BY <4>1 DEF Set
      <4>3. s[i] = a <=> i = k - 1
        BY <1>5, <4>1
      <4>4. s[i] \in ToSet(s)
        BY <1>9
      <4> QED  BY <2>1, <4>2, <4>3, <4>4
    <3> QED  BY <1>1, <3>1, <3>2
  <2> QED  BY <2>2, <2>3, <2>4
<1> HIDE DEF nx1, pv1
<1>12. /\ nx2 \in [ToSet(r) -> Node \cup {Nil}]
       /\ pv2 \in [ToSet(r) -> Node \cup {Nil}]
       /\ \A d \in ToSet(r) : nx2[d] = nx1[d] /\ pv2[d] = pv1[d]
  BY <1>8, <1>11 DEF Shrink
<1>13. pr2 \in [ToSet(r) -> Process \cup {NULL}]
  BY <1>8 DEF Shrink, IsChain
<1> HIDE DEF nx2, pv2, pr2, c
<1>14. ASSUME NEW i \in 1 .. Len(r)
       PROVE  nx2[r[i]] = NodeAt(r, i - 1) /\ pv2[r[i]] = NodeAt(r, i + 1)
  <2>1. r[i] \in ToSet(r) /\ i \in 1 .. Len(s) - 1
    BY <1>2, <1>7 DEF ToSet
  <2>2. CASE i < k
    <3>1. i \in 1 .. Len(s) /\ r[i] = s[i] /\ i # k + 1
      BY <1>1, <1>2, <2>1, <2>2
    <3>2. NodeAt(r, i - 1) = NodeAt(s, i - 1)
      BY <1>1, <1>2, <2>2 DEF NodeAt
    <3>3. NodeAt(r, i + 1) = IF i = k - 1 THEN b ELSE NodeAt(s, i + 1)
      <4>1. CASE i = k - 1
        <5>1. CASE k = Len(s)
          BY <1>1, <1>2, <1>10, <4>1, <5>1 DEF NodeAt
        <5>2. CASE k < Len(s)
          BY <1>1, <1>2, <1>10, <4>1, <5>2 DEF NodeAt
        <5> QED  BY <1>1, <5>1, <5>2
      <4>2. CASE i # k - 1
        BY <1>1, <1>2, <2>2, <4>2 DEF NodeAt
      <4> QED  BY <4>1, <4>2
    <3> QED  BY <1>11, <1>12, <2>1, <3>1, <3>2, <3>3
  <2>3. CASE i >= k
    <3>1. i + 1 \in 1 .. Len(s) /\ r[i] = s[i + 1] /\ i + 1 # k - 1
      BY <1>1, <1>2, <2>1, <2>3
    <3>2. NodeAt(r, i + 1) = NodeAt(s, (i + 1) + 1)
      <4>1. CASE i = Len(s) - 1
        BY <1>1, <1>2, <4>1 DEF NodeAt
      <4>2. CASE i < Len(s) - 1
        <5>1. i + 1 \in 1 .. Len(s) - 1 /\ ~(i + 1 < k) /\ (i + 1) + 1 \in 1 .. Len(s)
          BY <1>1, <2>3, <4>2
        <5> QED  BY <1>2, <5>1 DEF NodeAt
      <4> QED  BY <1>1, <2>1, <4>1, <4>2
    <3>3. NodeAt(r, i - 1) = IF i + 1 = k + 1 THEN a ELSE NodeAt(s, (i + 1) - 1)
      <4>1. CASE i = k
        <5>1. CASE k = 1
          BY <1>1, <1>2, <1>10, <4>1, <5>1 DEF NodeAt
        <5>2. CASE k > 1
          BY <1>1, <1>2, <1>10, <2>1, <4>1, <5>2 DEF NodeAt
        <5> QED  BY <1>1, <5>1, <5>2
      <4>2. CASE i > k
        <5>1. i - 1 \in 1 .. Len(s) - 1 /\ ~(i - 1 < k) /\ (i - 1) + 1 = i
              /\ (i + 1) - 1 = i /\ i \in 1 .. Len(s) /\ i + 1 # k + 1
          BY <1>1, <2>1, <4>2
        <5> QED  BY <1>2, <5>1 DEF NodeAt
      <4> QED  BY <1>1, <2>3, <4>1, <4>2
    <3> QED  BY <1>11, <1>12, <2>1, <3>1, <3>2, <3>3
  <2> QED  BY <1>1, <2>1, <2>2, <2>3
<1>15. /\ (IF a = Nil THEN b ELSE h) = NodeAt(r, 1)
       /\ (IF b = Nil THEN a ELSE t) = NodeAt(r, Len(r))
       /\ sz - 1 = Len(r)
  <2>1. h = NodeAt(s, 1) /\ t = NodeAt(s, Len(s)) /\ sz = Len(s)
    BY DEF IsChain
  <2>2. (IF a = Nil THEN b ELSE h) = NodeAt(r, 1)
    <3>1. CASE k = 1
      <4>1. CASE k = Len(s)
        BY <1>1, <1>2, <1>10, <3>1, <4>1 DEF NodeAt
      <4>2. CASE k < Len(s)
        BY <1>1, <1>2, <1>10, <3>1, <4>2 DEF NodeAt
      <4> QED  BY <1>1, <4>1, <4>2
    <3>2. CASE k > 1
      BY <1>1, <1>2, <1>10, <2>1, <3>2 DEF NodeAt
    <3> QED  BY <1>1, <3>1, <3>2
  <2>3. (IF b = Nil THEN a ELSE t) = NodeAt(r, Len(r))
    <3>1. CASE k = Len(s)
      <4>1. CASE k = 1
        BY <1>1, <1>2, <1>10, <3>1, <4>1 DEF NodeAt
      <4>2. CASE k > 1
        BY <1>1, <1>2, <1>10, <3>1, <4>2 DEF NodeAt
      <4> QED  BY <1>1, <4>1, <4>2
    <3>2. CASE k < Len(s)
      <4>1. Len(s) - 1 \in 1 .. Len(s) - 1 /\ ~(Len(s) - 1 < k)
            /\ (Len(s) - 1) + 1 = Len(s) /\ Len(s) \in 1 .. Len(s)
        BY <1>1, <3>2
      <4>2. r[Len(s) - 1] = s[Len(s)]
        BY <1>2, <4>1
      <4>3. b # Nil
        BY <1>1, <1>10, <3>2
      <4> QED  BY <1>2, <2>1, <4>1, <4>2, <4>3 DEF NodeAt
    <3> QED  BY <1>1, <3>1, <3>2
  <2> QED  BY <1>2, <2>1, <2>2, <2>3
<1>16. IsChain(r, IF a = Nil THEN b ELSE h, IF b = Nil THEN a ELSE t, sz - 1, pr2, nx2, pv2)
  BY <1>3, <1>6, <1>12, <1>13, <1>14, <1>15 DEF IsChain
<1> QED  BY <1>16 DEF r, a, b, c, nx1, pv1, nx2, pv2, pr2

-----------------------------------------------------------------------------
(* What the walks along the links visit.                                    *)

\* The walks from the first node are the prefixes of the chain.
LEMMA PathsArePrefixes ==
    ASSUME NEW s \in Seq(Node), NEW first, NEW link,
           \A i, j \in 1 .. Len(s) : s[i] = s[j] => i = j,
           DOMAIN link = ToSet(s),
           Len(s) > 0 => first = s[1],
           \A i \in 1 .. Len(s) - 1 : link[s[i]] = s[i + 1]
    PROVE  /\ \A k \in 0 .. Len(s) : [i \in 1 .. k |-> s[i]] \in Paths(first, link)
           /\ \A path \in Paths(first, link) :
                 /\ Len(path) \in 0 .. Len(s)
                 /\ path = [i \in 1 .. Len(path) |-> s[i]]
<1> DEFINE nodes == ToSet(s)
           any == UNION {[1 .. k -> nodes] : k \in 0 .. Len(s)}
           follows(path, i) == path[i] = (IF i = 1 THEN first ELSE link[path[i - 1]])
<1>1. Len(s) \in Nat /\ \A i \in 1 .. Len(s) : s[i] \in nodes
  <2>1. DOMAIN s = 1 .. Len(s)
    OBVIOUS
  <2> QED  BY <2>1 DEF ToSet
<1>2. Paths(first, link) = {path \in any : \A i \in DOMAIN path : follows(path, i)}
  <2>1. Cardinality(DOMAIN link) = Len(s)
    BY LengthIsCardinality
  <2> QED  BY <2>1 DEF Paths
<1>3. ASSUME NEW k \in 0 .. Len(s)
      PROVE  [i \in 1 .. k |-> s[i]] \in Paths(first, link)
  <2> DEFINE path == [i \in 1 .. k |-> s[i]]
  <2>1. path \in [1 .. k -> nodes]
    BY <1>1
  <2>2. path \in any
    BY <2>1
  <2>3. ASSUME NEW i \in 1 .. k PROVE follows(path, i)
    <3>1. CASE i = 1
      <4>1. Len(s) > 0 /\ path[1] = s[1]
        BY <1>1, <3>1
      <4> QED  BY <3>1, <4>1
    <3>2. CASE i # 1
      <4>1. i - 1 \in 1 .. k /\ i - 1 \in 1 .. Len(s) - 1 /\ (i - 1) + 1 = i
        BY <1>1, <3>2
      <4>2. path[i - 1] = s[i - 1] /\ path[i] = s[i]
        BY <4>1
      <4>3. link[s[i - 1]] = s[i]
        BY <4>1
      <4> QED  BY <3>2, <4>2, <4>3
    <3> QED  BY <3>1, <3>2
  <2>4. DOMAIN path = 1 .. k
    OBVIOUS
  <2> HIDE DEF path, any, follows
  <2>5. path \in Paths(first, link)
    BY <1>2, <2>2, <2>3, <2>4
  <2> QED  BY <2>5 DEF path
<1>4. ASSUME NEW path \in Paths(first, link)
      PROVE  /\ Len(path) \in 0 .. Len(s)
             /\ path = [i \in 1 .. Len(path) |-> s[i]]
  <2>1. path \in any /\ \A i \in DOMAIN path : follows(path, i)
    BY <1>2
  <2>2. PICK k \in 0 .. Len(s) : path \in [1 .. k -> nodes]
    BY <2>1
  <2>3. k \in Nat /\ DOMAIN path = 1 .. k /\ path \in Seq(nodes) /\ Len(path) = k
    BY <1>1, <2>2
  <2> DEFINE wrong == {i \in 1 .. k : path[i] # s[i]}
  <2>4. wrong = {}
    <3> SUFFICES ASSUME wrong # {} PROVE FALSE
      OBVIOUS
    <3>1. wrong \in SUBSET Nat
      BY <2>3
    <3>2. PICK i \in wrong : \A j \in wrong : i <= j
      <4> HIDE DEF wrong
      <4> QED  BY <3>1, LeastExists
    <3>3. i \in 1 .. k /\ path[i] # s[i]
      OBVIOUS
    <3>4. follows(path, i)
      <4> HIDE DEF follows
      <4> QED  BY <2>1, <2>3, <3>3
    <3>5. CASE i = 1
      BY <1>1, <2>3, <3>3, <3>4, <3>5
    <3>6. CASE i # 1
      <4>1. i - 1 \in 1 .. k /\ i - 1 \in 1 .. Len(s) - 1 /\ (i - 1) + 1 = i /\ ~(i <= i - 1)
        BY <1>1, <2>3, <3>3, <3>6
      <4>2. path[i - 1] = s[i - 1]
        BY <3>2, <4>1
      <4>3. link[s[i - 1]] = s[i]
        BY <4>1
      <4> QED  BY <3>3, <3>4, <3>6, <4>2, <4>3
    <3> QED  BY <3>5, <3>6
  <2>5. \A i \in 1 .. k : path[i] = s[i]
    BY <2>4
  <2>6. path = [i \in 1 .. k |-> s[i]]
    BY <2>2, <2>5
  <2> QED  BY <2>3, <2>6
<1> QED  BY <1>3, <1>4

\* The walk from the head is the chain.
NodesOf(h, pv) ==
    CHOOSE path \in Paths(h, pv) : \A other \in Paths(h, pv) : Len(other) <= Len(path)

LEMMA NodesOfChain ==
    ASSUME NEW s, NEW h, NEW t, NEW sz, NEW pr, NEW nx, NEW pv,
           IsChain(s, h, t, sz, pr, nx, pv)
    PROVE  NodesOf(h, pv) = s
<1>1. /\ s \in Seq(Node) /\ Len(s) \in Nat
      /\ \A i, j \in 1 .. Len(s) : s[i] = s[j] => i = j
      /\ DOMAIN pv = ToSet(s)
  BY DEF IsChain
<1>2. Len(s) > 0 => h = s[1]
  BY <1>1 DEF IsChain, NodeAt
<1>3. \A i \in 1 .. Len(s) - 1 : pv[s[i]] = s[i + 1]
  <2> SUFFICES ASSUME NEW i \in 1 .. Len(s) - 1 PROVE pv[s[i]] = s[i + 1]
    OBVIOUS
  <2>1. i \in 1 .. Len(s) /\ i + 1 \in 1 .. Len(s)
    BY <1>1
  <2> QED  BY <2>1 DEF IsChain, NodeAt
<1>4. /\ \A k \in 0 .. Len(s) : [i \in 1 .. k |-> s[i]] \in Paths(h, pv)
      /\ \A path \in Paths(h, pv) : /\ Len(path) \in 0 .. Len(s)
                                    /\ path = [i \in 1 .. Len(path) |-> s[i]]
  BY <1>1, <1>2, <1>3, PathsArePrefixes
<1>5. s = [i \in 1 .. Len(s) |-> s[i]]
  BY <1>1
<1>6. s \in Paths(h, pv)
  <2>1. [i \in 1 .. Len(s) |-> s[i]] \in Paths(h, pv)
    BY <1>1, <1>4
  <2> QED  BY <1>5, <2>1
<1>7. ASSUME NEW path \in Paths(h, pv),
             \A other \in Paths(h, pv) : Len(other) <= Len(path)
      PROVE  path = s
  <2>1. Len(path) \in 0 .. Len(s) /\ path = [i \in 1 .. Len(path) |-> s[i]]
    BY <1>4
  <2>2. Len(s) <= Len(path)
    BY <1>6, <1>7
  <2>3. Len(path) = Len(s)
    BY <1>1, <2>1, <2>2
  <2> QED  BY <1>5, <2>1, <2>3
<1>8. \A other \in Paths(h, pv) : Len(other) <= Len(s)
  BY <1>1, <1>4
<1> QED  BY <1>6, <1>7, <1>8 DEF NodesOf

\* The walk from the tail is the chain backwards.
LEMMA PathsFromTail ==
    ASSUME NEW s, NEW h, NEW t, NEW sz, NEW pr, NEW nx, NEW pv,
           IsChain(s, h, t, sz, pr, nx, pv)
    PROVE  /\ \A k \in 0 .. Len(s) : [i \in 1 .. k |-> s[Len(s) + 1 - i]] \in Paths(t, nx)
           /\ \A path \in Paths(t, nx) :
                 /\ Len(path) \in 0 .. Len(s)
                 /\ path = [i \in 1 .. Len(path) |-> s[Len(s) + 1 - i]]
<1> DEFINE r == [i \in 1 .. Len(s) |-> s[Len(s) + 1 - i]]
<1>1. /\ s \in Seq(Node) /\ Len(s) \in Nat
      /\ \A i, j \in 1 .. Len(s) : s[i] = s[j] => i = j
      /\ DOMAIN nx = ToSet(s)
  BY DEF IsChain
<1>2. \A i \in 1 .. Len(s) : Len(s) + 1 - i \in 1 .. Len(s)
  BY <1>1
<1>3. r \in Seq(Node) /\ Len(r) = Len(s) /\ \A i \in 1 .. Len(s) : r[i] = s[Len(s) + 1 - i]
  BY <1>1, <1>2
<1>4. \A i, j \in 1 .. Len(r) : r[i] = r[j] => i = j
  <2> HIDE DEF r
  <2> SUFFICES ASSUME NEW i \in 1 .. Len(s), NEW j \in 1 .. Len(s), r[i] = r[j]
               PROVE  i = j
    BY <1>3
  <2>1. s[Len(s) + 1 - i] = s[Len(s) + 1 - j]
    BY <1>3
  <2>2. Len(s) + 1 - i = Len(s) + 1 - j
    BY <1>1, <1>2, <2>1
  <2> QED  BY <1>1, <2>2
<1>5. ToSet(r) = ToSet(s)
  <2>1. DOMAIN r = 1 .. Len(s) /\ DOMAIN s = 1 .. Len(s)
    BY <1>1
  <2>2. ASSUME NEW i \in 1 .. Len(s) PROVE r[i] \in ToSet(s)
    BY <1>2, <1>3, <2>1 DEF ToSet
  <2>3. ASSUME NEW i \in 1 .. Len(s) PROVE s[i] \in ToSet(r)
    <3>1. Len(s) + 1 - i \in 1 .. Len(s) /\ Len(s) + 1 - (Len(s) + 1 - i) = i
      BY <1>1
    <3>2. r[Len(s) + 1 - i] = s[i]
      BY <1>3, <3>1
    <3> QED  BY <2>1, <3>1, <3>2 DEF ToSet
  <2> HIDE DEF r
  <2> QED  BY <2>1, <2>2, <2>3 DEF ToSet
<1> HIDE DEF r
<1>6. Len(r) > 0 => t = r[1]
  <2> SUFFICES ASSUME Len(s) > 0 PROVE t = r[1]
    BY <1>3
  <2>1. 1 \in 1 .. Len(s) /\ Len(s) + 1 - 1 = Len(s) /\ Len(s) \in 1 .. Len(s)
    BY <1>1
  <2>2. r[1] = s[Len(s)]
    BY <1>3, <2>1
  <2> QED  BY <2>1, <2>2 DEF IsChain, NodeAt
<1>7. \A i \in 1 .. Len(r) - 1 : nx[r[i]] = r[i + 1]
  <2> SUFFICES ASSUME NEW i \in 1 .. Len(s) - 1 PROVE nx[r[i]] = r[i + 1]
    BY <1>3
  <2> DEFINE k == Len(s) + 1 - i
  <2>1. /\ i \in 1 .. Len(s) /\ i + 1 \in 1 .. Len(s)
        /\ k \in 1 .. Len(s) /\ k - 1 \in 1 .. Len(s) /\ Len(s) + 1 - (i + 1) = k - 1
    BY <1>1
  <2>2. r[i] = s[k] /\ r[i + 1] = s[k - 1]
    BY <1>3, <2>1
  <2> HIDE DEF k
  <2> QED  BY <2>1, <2>2 DEF IsChain, NodeAt
<1>8. /\ \A k \in 0 .. Len(r) : [i \in 1 .. k |-> r[i]] \in Paths(t, nx)
      /\ \A path \in Paths(t, nx) : /\ Len(path) \in 0 .. Len(r)
                                    /\ path = [i \in 1 .. Len(path) |-> r[i]]
  <2>1. DOMAIN nx = ToSet(r) /\ r \in Seq(Node)
    BY <1>1, <1>3, <1>5
  <2> QED  BY ONLY <2>1, <1>4, <1>6, <1>7, PathsArePrefixes
<1>9. \A k \in 0 .. Len(s) : [i \in 1 .. k |-> r[i]] = [i \in 1 .. k |-> s[Len(s) + 1 - i]]
  <2> SUFFICES ASSUME NEW k \in 0 .. Len(s)
               PROVE  [i \in 1 .. k |-> r[i]] = [i \in 1 .. k |-> s[Len(s) + 1 - i]]
    OBVIOUS
  <2>1. \A i \in 1 .. k : i \in 1 .. Len(s)
    BY <1>1
  <2> QED  BY <1>3, <2>1
<1> QED  BY <1>3, <1>8, <1>9

-----------------------------------------------------------------------------
(* The list that the chain stores.                                          *)

ContentsOf(s, pr) == [i \in DOMAIN s |-> pr[s[i]]]

LEMMA ContentsType ==
    ASSUME NEW s \in Seq(Node), NEW pr \in [ToSet(s) -> Process \cup {NULL}]
    PROVE  /\ ContentsOf(s, pr) \in Seq(Process \cup {NULL})
           /\ Len(ContentsOf(s, pr)) = Len(s)
           /\ \A i \in 1 .. Len(s) : s[i] \in ToSet(s) /\ ContentsOf(s, pr)[i] = pr[s[i]]
<1>1. DOMAIN s = 1 .. Len(s) /\ Len(s) \in Nat
  OBVIOUS
<1>2. \A i \in 1 .. Len(s) : s[i] \in ToSet(s)
  BY <1>1 DEF ToSet
<1> QED  BY <1>1, <1>2 DEF ContentsOf

\* What is linked behind m nodes of the chain is inserted behind m elements.
LEMMA InsertedContents ==
    ASSUME NEW s \in Seq(Node), NEW pr \in [ToSet(s) -> Process \cup {NULL}],
           NEW m \in 0 .. Len(s), NEW n \in Node \ ToSet(s),
           NEW x \in Process \cup {NULL},
           Extend(pr, n, x) \in [ToSet(InsertAt(s, m + 1, n)) -> Process \cup {NULL}]
    PROVE  ContentsOf(InsertAt(s, m + 1, n), Extend(pr, n, x))
              = InsertAt(ContentsOf(s, pr), m + 1, x)
<1> DEFINE c == ContentsOf(s, pr)
           r == InsertAt(s, m + 1, n)
           q == Extend(pr, n, x)
           d == ContentsOf(r, q)
           e == InsertAt(c, m + 1, x)
<1>1. /\ c \in Seq(Process \cup {NULL}) /\ Len(c) = Len(s)
      /\ \A i \in 1 .. Len(s) : s[i] \in ToSet(s) /\ c[i] = pr[s[i]]
  BY ContentsType
<1>2. Len(s) \in Nat /\ m \in Nat /\ m <= Len(s) /\ m + 1 \in 1 .. Len(s) + 1
  OBVIOUS
<1>3. /\ r \in Seq(Node) /\ Len(r) = Len(s) + 1
      /\ \A i \in 1 .. Len(s) + 1 :
            r[i] = IF i < m + 1 THEN s[i] ELSE IF i = m + 1 THEN n ELSE s[i - 1]
  BY <1>2, InsertAtType, InsertAtElements
<1> HIDE DEF c
<1>4. m + 1 \in 1 .. Len(c) + 1 /\ c \in Seq(Process \cup {NULL})
  BY <1>1, <1>2
<1>5. /\ e \in Seq(Process \cup {NULL}) /\ Len(e) = Len(s) + 1
      /\ \A i \in 1 .. Len(s) + 1 :
            e[i] = IF i < m + 1 THEN c[i] ELSE IF i = m + 1 THEN x ELSE c[i - 1]
  <2>1. e \in Seq(Process \cup {NULL})
    BY ONLY <1>4, x \in Process \cup {NULL}, InsertAtType
  <2>2. /\ Len(e) = Len(c) + 1
        /\ \A i \in 1 .. Len(c) + 1 :
              e[i] = IF i < m + 1 THEN c[i] ELSE IF i = m + 1 THEN x ELSE c[i - 1]
    <3> DEFINE k == m + 1
               S == Process \cup {NULL}
    <3>1. k \in 1 .. Len(c) + 1 /\ c \in Seq(S) /\ x \in S
      BY <1>4
    <3> HIDE DEF k, S
    <3>2. /\ Len(InsertAt(c, k, x)) = Len(c) + 1
          /\ \A i \in 1 .. Len(c) + 1 :
                InsertAt(c, k, x)[i] = IF i < k THEN c[i] ELSE IF i = k THEN x ELSE c[i - 1]
      BY ONLY <3>1, InsertAtElements
    <3> QED  BY <3>2 DEF k
  <2> QED  BY <1>1, <2>1, <2>2
<1>6. q[n] = x /\ \A i \in 1 .. Len(s) : q[s[i]] = pr[s[i]]
  BY <1>1 DEF Extend
<1>7. q \in [ToSet(r) -> Process \cup {NULL}]
  OBVIOUS
<1> HIDE DEF r, q, e
<1>8. /\ d \in Seq(Process \cup {NULL}) /\ Len(d) = Len(s) + 1
      /\ \A i \in 1 .. Len(s) + 1 : d[i] = q[r[i]]
  BY <1>3, <1>7, ContentsType
<1> HIDE DEF d
<1>9. ASSUME NEW i \in 1 .. Len(s) + 1 PROVE d[i] = e[i]
  <2>1. CASE i < m + 1
    <3>1. i \in 1 .. Len(s) /\ r[i] = s[i] /\ e[i] = c[i]
      BY <1>2, <1>3, <1>5, <2>1
    <3> QED  BY <1>1, <1>6, <1>8, <3>1
  <2>2. CASE i = m + 1
    <3>1. r[i] = n /\ e[i] = x
      BY <1>2, <1>3, <1>5, <2>2
    <3> QED  BY <1>6, <1>8, <3>1
  <2>3. CASE i > m + 1
    <3>1. i - 1 \in 1 .. Len(s) /\ r[i] = s[i - 1] /\ e[i] = c[i - 1]
      BY <1>2, <1>3, <1>5, <2>3
    <3> QED  BY <1>1, <1>6, <1>8, <3>1
  <2> QED  BY <1>2, <2>1, <2>2, <2>3
<1>10. d = e
  BY <1>5, <1>8, <1>9, SeqEqual
<1> QED  BY <1>10 DEF c, r, q, d, e

\* What a node holds leaves the list with the node.
LEMMA RemovedContents ==
    ASSUME NEW s \in Seq(Node), NEW pr \in [ToSet(s) -> Process \cup {NULL}],
           NEW k \in 1 .. Len(s),
           Shrink(pr, s[k]) \in [ToSet(RemoveAt(s, k)) -> Process \cup {NULL}],
           RemoveAt(s, k) \in Seq(Node)
    PROVE  ContentsOf(RemoveAt(s, k), Shrink(pr, s[k])) = RemoveAt(ContentsOf(s, pr), k)
<1> DEFINE c == ContentsOf(s, pr)
           r == RemoveAt(s, k)
           q == Shrink(pr, s[k])
           d == ContentsOf(r, q)
           e == RemoveAt(c, k)
<1>1. /\ c \in Seq(Process \cup {NULL}) /\ Len(c) = Len(s)
      /\ \A i \in 1 .. Len(s) : c[i] = pr[s[i]]
  BY ContentsType
<1>2. Len(s) \in Nat /\ k \in Nat /\ k >= 1 /\ k <= Len(s)
  OBVIOUS
<1>3. /\ r \in Seq(Node) /\ Len(r) = Len(s) - 1
      /\ \A i \in 1 .. Len(s) - 1 : r[i] = IF i < k THEN s[i] ELSE s[i + 1]
  BY RemoveAtElements
<1> HIDE DEF c
<1>4. /\ Len(e) = Len(s) - 1
      /\ \A i \in 1 .. Len(s) - 1 : e[i] = IF i < k THEN c[i] ELSE c[i + 1]
  BY <1>1, RemoveAtElements
<1>5. e \in Seq(Process \cup {NULL})
  <2>1. /\ SubSeq(c, 1, k - 1) \in Seq(Process \cup {NULL})
        /\ SubSeq(c, k + 1, Len(c)) \in Seq(Process \cup {NULL})
    BY <1>1, <1>2, SubSeqProperties
  <2> QED  BY <2>1, ConcatProperties DEF RemoveAt
<1>6. q \in [ToSet(r) -> Process \cup {NULL}]
      /\ \A n \in ToSet(r) : q[n] = pr[n]
  BY DEF Shrink
<1> HIDE DEF r, q, e
<1>7. /\ d \in Seq(Process \cup {NULL}) /\ Len(d) = Len(s) - 1
      /\ \A i \in 1 .. Len(s) - 1 : r[i] \in ToSet(r) /\ d[i] = q[r[i]]
  <2>1. /\ d \in Seq(Process \cup {NULL}) /\ Len(d) = Len(r)
        /\ \A i \in 1 .. Len(r) : r[i] \in ToSet(r) /\ d[i] = q[r[i]]
    <3>1. r \in Seq(Node)
      BY <1>3
    <3> QED  BY ONLY <3>1, <1>6, ContentsType
  <2>2. 1 .. Len(r) = 1 .. Len(s) - 1 /\ Len(r) = Len(s) - 1
    BY <1>3
  <2> HIDE DEF d
  <2> QED  BY <2>1, <2>2
<1> HIDE DEF d
<1>8. ASSUME NEW i \in 1 .. Len(s) - 1 PROVE d[i] = e[i]
  <2>1. d[i] = pr[r[i]]
    BY <1>6, <1>7
  <2>2. CASE i < k
    <3>1. i \in 1 .. Len(s) /\ r[i] = s[i] /\ e[i] = c[i]
      BY <1>2, <1>3, <1>4, <2>2
    <3> QED  BY <1>1, <2>1, <3>1
  <2>3. CASE i >= k
    <3>1. i + 1 \in 1 .. Len(s) /\ r[i] = s[i + 1] /\ e[i] = c[i + 1]
      BY <1>2, <1>3, <1>4, <2>3
    <3> QED  BY <1>1, <2>1, <3>1
  <2> QED  BY <1>2, <2>2, <2>3
<1>9. d = e
  BY <1>4, <1>5, <1>7, <1>8, SeqEqual
<1> QED  BY <1>9 DEF c, r, q, d, e

\* The tail is behind all elements, the head is the first of them.
LEMMA TailInsertion ==
    ASSUME NEW S, NEW s \in Seq(S), NEW x \in S
    PROVE  PushTail(s, x) = InsertAt(s, Len(s) + 1, x)
<1> DEFINE e == InsertAt(s, Len(s) + 1, x)
           d == PushTail(s, x)
<1>1. Len(s) \in Nat /\ Len(s) + 1 \in 1 .. Len(s) + 1
  OBVIOUS
<1>2. /\ e \in Seq(S) /\ Len(e) = Len(s) + 1
      /\ \A i \in 1 .. Len(s) + 1 :
            e[i] = IF i < Len(s) + 1 THEN s[i] ELSE IF i = Len(s) + 1 THEN x ELSE s[i - 1]
  BY <1>1, InsertAtType, InsertAtElements
<1>3. d \in Seq(S)
  BY DEF PushTail
<1>4. /\ Len(d) = Len(s) + 1
      /\ \A i \in 1 .. Len(s) + 1 : d[i] = IF i = Len(s) + 1 THEN x ELSE s[i]
  BY AppendElements DEF PushTail
<1> HIDE DEF e, d
<1>5. \A i \in 1 .. Len(s) + 1 : d[i] = e[i]
  BY <1>1, <1>2, <1>4
<1>6. d = e
  BY <1>2, <1>3, <1>4, <1>5, SeqEqual
<1> QED  BY <1>6 DEF e, d

LEMMA HeadRemoval ==
    ASSUME NEW S, NEW s \in Seq(S), s # << >>
    PROVE  RemoveAt(s, 1) = Tail(s)
<1>1. Len(s) \in Nat /\ 1 \in 1 .. Len(s)
  OBVIOUS
<1>2. SubSeq(s, 1, 1 - 1) = << >>
  BY <1>1, SubSeqProperties
<1>3. SubSeq(s, 1 + 1, Len(s)) = Tail(s)
  BY TailIsSubSeq
<1>4. Tail(s) \in Seq(S)
  BY HeadTailProperties
<1> QED  BY <1>2, <1>3, <1>4 DEF RemoveAt

-----------------------------------------------------------------------------
(* The critical sections.                                                   *)

Contents == ContentsOf(NodesFromHead, proc)
Chained  == IsChain(NodesFromHead, head, tail, size, proc, next, prev)

LEMMA ChainedFacts ==
    ASSUME Chained
    PROVE  /\ NodesFromHead \in Seq(Node)
           /\ Len(NodesFromHead) \in Nat
           /\ \A i, j \in 1 .. Len(NodesFromHead) : NodesFromHead[i] = NodesFromHead[j] => i = j
           /\ Allocated = ToSet(NodesFromHead)
           /\ proc \in [ToSet(NodesFromHead) -> Process \cup {NULL}]
           /\ next \in [ToSet(NodesFromHead) -> Node \cup {Nil}]
           /\ prev \in [ToSet(NodesFromHead) -> Node \cup {Nil}]
           /\ size = Len(NodesFromHead)
           /\ head = NodeAt(NodesFromHead, 1)
           /\ tail = NodeAt(NodesFromHead, Len(NodesFromHead))
           /\ \A i \in 1 .. Len(NodesFromHead) :
                 /\ next[NodesFromHead[i]] = NodeAt(NodesFromHead, i - 1)
                 /\ prev[NodesFromHead[i]] = NodeAt(NodesFromHead, i + 1)
           /\ Contents \in Seq(Process \cup {NULL})
           /\ Len(Contents) = Len(NodesFromHead)
           /\ \A i \in 1 .. Len(NodesFromHead) : /\ NodesFromHead[i] \in Allocated
                                                 /\ Contents[i] = proc[NodesFromHead[i]]
<1> DEFINE s == NodesFromHead
<1>1. /\ s \in Seq(Node) /\ Len(s) \in Nat
      /\ \A i, j \in 1 .. Len(s) : s[i] = s[j] => i = j
      /\ proc \in [ToSet(s) -> Process \cup {NULL}]
      /\ next \in [ToSet(s) -> Node \cup {Nil}]
      /\ prev \in [ToSet(s) -> Node \cup {Nil}]
      /\ \A i \in 1 .. Len(s) : next[s[i]] = NodeAt(s, i - 1) /\ prev[s[i]] = NodeAt(s, i + 1)
      /\ head = NodeAt(s, 1) /\ tail = NodeAt(s, Len(s)) /\ size = Len(s)
  BY DEF Chained, IsChain
<1> HIDE DEF s
<1>2. Allocated = ToSet(s)
  BY <1>1 DEF Allocated
<1>3. /\ ContentsOf(s, proc) \in Seq(Process \cup {NULL})
      /\ Len(ContentsOf(s, proc)) = Len(s)
      /\ \A i \in 1 .. Len(s) : s[i] \in ToSet(s) /\ ContentsOf(s, proc)[i] = proc[s[i]]
  BY <1>1, ContentsType
<1> QED  BY <1>1, <1>2, <1>3 DEF s, Contents

\* A push that links a node behind the first m nodes inserts into the list.
LEMMA LinkStep ==
    ASSUME Chained, NEW m \in 0 .. Len(NodesFromHead), NEW n \in Node \ Allocated,
           NEW x \in Process \cup {NULL},
           head' = IF NodeAt(NodesFromHead, m) = Nil THEN n ELSE head,
           tail' = IF NodeAt(NodesFromHead, m + 1) = Nil THEN n ELSE tail,
           size' = size + 1,
           proc' = Extend(proc, n, x),
           next' = Extend(Set(next, NodeAt(NodesFromHead, m + 1), n), n, NodeAt(NodesFromHead, m)),
           prev' = Extend(Set(prev, NodeAt(NodesFromHead, m), n), n, NodeAt(NodesFromHead, m + 1))
    PROVE  Chained' /\ Contents' = InsertAt(Contents, m + 1, x)
<1> DEFINE s == NodesFromHead
           r == InsertAt(s, m + 1, n)
<1>1. IsChain(s, head, tail, size, proc, next, prev) /\ n \in Node \ ToSet(s)
  BY ChainedFacts DEF Chained
<1>2. IsChain(r, head', tail', size', proc', next', prev')
  <2> HIDE DEF s
  <2>1. m \in 0 .. Len(s)
    BY DEF s
  <2>2. IsChain(r, IF NodeAt(s, m) = Nil THEN n ELSE head,
                   IF NodeAt(s, m + 1) = Nil THEN n ELSE tail,
                   size + 1,
                   Extend(proc, n, x),
                   Extend(Set(next, NodeAt(s, m + 1), n), n, NodeAt(s, m)),
                   Extend(Set(prev, NodeAt(s, m), n), n, NodeAt(s, m + 1)))
    BY <1>1, <2>1, InsertedChain
  <2> QED  BY <2>2 DEF s
<1>3. NodesOf(head', prev') = r
  <2> HIDE DEF r
  <2> QED  BY <1>2, NodesOfChain
<1>4. NodesFromHead' = r
  BY <1>3 DEF NodesFromHead, NodesOf
<1>5. Chained'
  BY <1>2, <1>4 DEF Chained
<1>6. /\ s \in Seq(Node) /\ proc \in [ToSet(s) -> Process \cup {NULL}]
      /\ Extend(proc, n, x) \in [ToSet(r) -> Process \cup {NULL}]
  <2>1. proc' \in [ToSet(r) -> Process \cup {NULL}]
    BY <1>2 DEF IsChain
  <2> QED  BY <2>1, ChainedFacts
<1>7. ContentsOf(r, proc') = InsertAt(ContentsOf(s, proc), m + 1, x)
  <2> HIDE DEF s
  <2>1. m \in 0 .. Len(s)
    BY DEF s
  <2> QED  BY <1>1, <1>6, <2>1, InsertedContents
<1> QED  BY <1>4, <1>5, <1>7 DEF Contents

\* A pop or removal that unlinks the k-th node removes the k-th element.
LEMMA UnlinkStep ==
    ASSUME Chained, NEW k \in 1 .. Len(NodesFromHead),
           head' = IF NodeAt(NodesFromHead, k - 1) = Nil THEN NodeAt(NodesFromHead, k + 1)
                   ELSE head,
           tail' = IF NodeAt(NodesFromHead, k + 1) = Nil THEN NodeAt(NodesFromHead, k - 1)
                   ELSE tail,
           size' = size - 1,
           proc' = Shrink(proc, NodesFromHead[k]),
           next' = Shrink(Set(next, NodeAt(NodesFromHead, k + 1), NodeAt(NodesFromHead, k - 1)),
                          NodesFromHead[k]),
           prev' = Shrink(Set(prev, NodeAt(NodesFromHead, k - 1), NodeAt(NodesFromHead, k + 1)),
                          NodesFromHead[k])
    PROVE  Chained' /\ Contents' = RemoveAt(Contents, k)
<1> DEFINE s == NodesFromHead
           r == RemoveAt(s, k)
<1>1. IsChain(s, head, tail, size, proc, next, prev)
  BY DEF Chained
<1>2. IsChain(r, head', tail', size', proc', next', prev')
  <2> HIDE DEF s
  <2>1. k \in 1 .. Len(s)
    BY DEF s
  <2>2. IsChain(r, IF NodeAt(s, k - 1) = Nil THEN NodeAt(s, k + 1) ELSE head,
                   IF NodeAt(s, k + 1) = Nil THEN NodeAt(s, k - 1) ELSE tail,
                   size - 1,
                   Shrink(proc, s[k]),
                   Shrink(Set(next, NodeAt(s, k + 1), NodeAt(s, k - 1)), s[k]),
                   Shrink(Set(prev, NodeAt(s, k - 1), NodeAt(s, k + 1)), s[k]))
    BY <1>1, <2>1, RemovedChain
  <2> QED  BY <2>2 DEF s
<1>3. NodesOf(head', prev') = r
  <2> HIDE DEF r
  <2> QED  BY <1>2, NodesOfChain
<1>4. NodesFromHead' = r
  BY <1>3 DEF NodesFromHead, NodesOf
<1>5. Chained'
  BY <1>2, <1>4 DEF Chained
<1>6. /\ s \in Seq(Node) /\ proc \in [ToSet(s) -> Process \cup {NULL}]
      /\ Shrink(proc, s[k]) \in [ToSet(r) -> Process \cup {NULL}]
      /\ r \in Seq(Node)
  <2>1. proc' \in [ToSet(r) -> Process \cup {NULL}] /\ r \in Seq(Node)
    BY <1>2 DEF IsChain
  <2> QED  BY <2>1, ChainedFacts
<1>7. ContentsOf(r, proc') = RemoveAt(ContentsOf(s, proc), k)
  <2> HIDE DEF s
  <2>1. k \in 1 .. Len(s)
    BY DEF s
  <2>2. proc' = Shrink(proc, s[k])
    BY DEF s
  <2> QED  BY <1>6, <2>1, <2>2, RemovedContents
<1> QED  BY <1>4, <1>5, <1>7 DEF Contents

LEMMA TailStep ==
    ASSUME Chained, NEW n \in Node, NEW x \in Process \cup {NULL}, LinkAtTail(n, x)
    PROVE  Chained' /\ Contents' = PushTail(Contents, x)
<1> DEFINE s == NodesFromHead
           m == Len(NodesFromHead)
<1>1. /\ s \in Seq(Node) /\ m \in Nat /\ tail = NodeAt(s, m)
      /\ Contents \in Seq(Process \cup {NULL}) /\ Len(Contents) = m
  BY ChainedFacts
<1>2. /\ n \in Node \ Allocated /\ size' = size + 1 /\ proc' = Extend(proc, n, x)
      /\ next' = Extend(next, n, tail)
      /\ prev' = Extend(Set(prev, tail, n), n, Nil)
      /\ head' = IF tail = Nil THEN n ELSE head
      /\ tail' = n
  BY DEF LinkAtTail, Push
<1>3. NodeAt(s, m + 1) = Nil /\ m \in 0 .. m
  BY <1>1 DEF NodeAt
<1>4. Set(next, NodeAt(s, m + 1), n) = next
  BY <1>3 DEF Set
<1>5. Chained' /\ Contents' = InsertAt(Contents, m + 1, x)
  BY <1>1, <1>2, <1>3, <1>4, LinkStep
<1>6. PushTail(Contents, x) = InsertAt(Contents, m + 1, x)
  <2> HIDE DEF m
  <2> QED  BY <1>1, TailInsertion
<1> QED  BY <1>5, <1>6

\* ready_queue_pop takes the first element.
LEMMA PopStep ==
    ASSUME Chained, Pop
    PROVE  Chained' /\ Contents # << >> /\ Contents' = Tail(Contents)
<1> DEFINE s == NodesFromHead
<1>1. /\ s \in Seq(Node) /\ Len(s) \in Nat /\ size = Len(s) /\ size > 0
      /\ head = NodeAt(s, 1) /\ Contents \in Seq(Process \cup {NULL})
      /\ Len(Contents) = Len(s)
      /\ \A i \in 1 .. Len(s) : prev[s[i]] = NodeAt(s, i + 1)
  BY ChainedFacts DEF Pop
<1> HIDE DEF s
<1>2. 1 \in 1 .. Len(s) /\ head = s[1] /\ NodeAt(s, 1 - 1) = Nil /\ head # Nil
  <2>1. 1 \in 1 .. Len(s)
    BY <1>1
  <2> QED  BY <1>1, <2>1, LinkedAssumption DEF NodeAt
<1>3. prev[head] = NodeAt(s, 1 + 1)
  BY <1>1, <1>2
<1>4. /\ head' = prev[head]
      /\ tail' = IF prev[head] = Nil THEN Nil ELSE tail
      /\ next' = Shrink(Set(next, prev[head], Nil), head)
      /\ prev' = Shrink(prev, head)
      /\ proc' = Shrink(proc, head)
      /\ size' = size - 1
  BY DEF Pop
<1>5. Set(prev, NodeAt(s, 1 - 1), NodeAt(s, 1 + 1)) = prev
  BY <1>2 DEF Set
<1>6. Chained' /\ Contents' = RemoveAt(Contents, 1)
  BY <1>1, <1>2, <1>3, <1>4, <1>5, UnlinkStep DEF s
<1>7. Contents # << >>
  BY <1>1
<1>8. RemoveAt(Contents, 1) = Tail(Contents)
  BY <1>1, <1>7, HeadRemoval
<1> QED  BY <1>6, <1>7, <1>8

\* ready_queue_remove takes the last element that is the process.
LEMMA RemoveStep ==
    ASSUME Chained, NEW p \in Process, RemoveProcess(p)
    PROVE  Chained' /\ Contents' \in RemoveLast(Contents, p)
<1> DEFINE s == NodesFromHead
<1>1. /\ s \in Seq(Node) /\ Len(s) \in Nat
      /\ Contents \in Seq(Process \cup {NULL}) /\ Len(Contents) = Len(s)
      /\ \A i \in 1 .. Len(s) : /\ next[s[i]] = NodeAt(s, i - 1)
                                /\ prev[s[i]] = NodeAt(s, i + 1)
                                /\ Contents[i] = proc[s[i]]
  BY ChainedFacts
<1>2. \A path \in PathFromTail : /\ Len(path) \in 0 .. Len(s)
                                 /\ path = [i \in 1 .. Len(path) |-> s[Len(s) + 1 - i]]
  <2> HIDE DEF s
  <2>1. IsChain(s, head, tail, size, proc, next, prev)
    BY DEF s, Chained
  <2> QED  BY <2>1, PathsFromTail DEF PathFromTail
<1> HIDE DEF s
<1>3. PICK path \in PathFromTail :
         LET current == path[Len(path)]
             before == IF Len(path) = 1 THEN Nil ELSE path[Len(path) - 1]
             after == next[current]
         IN
         /\ path # << >>
         /\ proc[current] = p
         /\ \A i \in 1 .. Len(path) - 1 : proc[path[i]] # p
         /\ tail' = IF before = Nil THEN after ELSE tail
         /\ head' = IF after = Nil THEN prev[current] ELSE head
         /\ next' = Shrink(Set(next, before, after), current)
         /\ prev' = Shrink(Set(prev, after, before), current)
         /\ proc' = Shrink(proc, current)
         /\ size' = size - 1
  BY DEF RemoveProcess
<1> DEFINE l == Len(path)
           k == Len(s) + 1 - l
           before == IF l = 1 THEN Nil ELSE path[l - 1]
           after == next[path[l]]
<1>4. /\ path # << >> /\ proc[path[l]] = p
      /\ \A i \in 1 .. l - 1 : proc[path[i]] # p
      /\ tail' = IF before = Nil THEN after ELSE tail
      /\ head' = IF after = Nil THEN prev[path[l]] ELSE head
      /\ next' = Shrink(Set(next, before, after), path[l])
      /\ prev' = Shrink(Set(prev, after, before), path[l])
      /\ proc' = Shrink(proc, path[l])
      /\ size' = size - 1
  BY <1>3
<1>5. l \in 0 .. Len(s) /\ path = [i \in 1 .. l |-> s[Len(s) + 1 - i]]
  BY <1>2
<1> HIDE DEF l, before, after
<1>6. l \in 1 .. Len(s) /\ k \in 1 .. Len(s) /\ l - 1 \in Nat
  <2>1. l # 0
    <3> SUFFICES ASSUME l = 0 PROVE FALSE
      OBVIOUS
    <3>1. path = [i \in 1 .. 0 |-> s[Len(s) + 1 - i]]
      BY <1>5
    <3>2. path = << >>
      BY <3>1
    <3> QED  BY <1>4, <3>2
  <2> QED  BY <1>1, <1>5, <2>1
<1>7. path[l] = s[k] /\ \A i \in 1 .. l - 1 : path[i] = s[Len(s) + 1 - i]
  BY <1>5, <1>6
<1>8. after = NodeAt(s, k - 1) /\ prev[path[l]] = NodeAt(s, k + 1)
  <2> HIDE DEF k
  <2> QED  BY <1>1, <1>6, <1>7 DEF after
<1>9. before = NodeAt(s, k + 1)
  <2>1. CASE l = 1
    BY <1>1, <2>1 DEF before, NodeAt
  <2>2. CASE l # 1
    <3>1. l - 1 \in 1 .. l - 1 /\ Len(s) + 1 - (l - 1) = k + 1 /\ k + 1 \in 1 .. Len(s)
      BY <1>1, <1>6, <2>2
    <3>2. path[l - 1] = s[k + 1]
      BY <1>7, <3>1
    <3> HIDE DEF k
    <3> QED  BY <2>2, <3>1, <3>2 DEF before, NodeAt
  <2> QED  BY <2>1, <2>2
<1> DEFINE a == NodeAt(s, k - 1)
           b == NodeAt(s, k + 1)
<1>10. /\ tail' = IF b = Nil THEN a ELSE tail
       /\ head' = IF a = Nil THEN b ELSE head
       /\ next' = Shrink(Set(next, b, a), s[k])
       /\ prev' = Shrink(Set(prev, a, b), s[k])
       /\ proc' = Shrink(proc, s[k])
       /\ size' = size - 1
  BY <1>4, <1>7, <1>8, <1>9
<1>11. Chained' /\ Contents' = RemoveAt(Contents, k)
  <2> HIDE DEF k
  <2> QED  BY <1>6, <1>10, UnlinkStep DEF s
<1>12. Contents[k] = p
  <2> HIDE DEF k
  <2> QED  BY <1>1, <1>4, <1>6, <1>7
<1>13. ASSUME NEW j \in k + 1 .. Len(Contents) PROVE Contents[j] # p
  <2>1. j \in 1 .. Len(s) /\ Len(s) + 1 - j \in 1 .. l - 1
        /\ Len(s) + 1 - (Len(s) + 1 - j) = j
    BY <1>1, <1>6
  <2>2. path[Len(s) + 1 - j] = s[j]
    BY <1>7, <2>1
  <2> QED  BY <1>1, <1>4, <2>1, <2>2
<1> HIDE DEF k
<1> QED  BY <1>1, <1>6, <1>11, <1>12, <1>13 DEF RemoveLast

\* The ordered walk stops where OrderedIndex says.
LEMMA WalkStops ==
    ASSUME Chained, NEW p \in Process, \A n \in Allocated : proc[n] # NULL
    PROVE  \E m \in 0 .. Len(NodesFromHead) :
              /\ m = OrderedIndex(Contents, Key, p)
              /\ m > 0 => Key[Contents[m]] < Key[p]
              /\ \A j \in m + 1 .. Len(Contents) : Key[Contents[j]] >= Key[p]
              /\ WalkedBy(p) = [i \in 1 .. Len(NodesFromHead) - m |->
                                   NodesFromHead[Len(NodesFromHead) + 1 - i]]
<1> DEFINE s == NodesFromHead
           before(path) == IF path = << >> THEN Nil ELSE path[Len(path)]
           current(path) == IF path = << >> THEN tail ELSE next[before(path)]
           walked(path) == /\ \A i \in DOMAIN path : Key[proc[path[i]]] >= Key[p]
                           /\ current(path) = Nil \/ Key[proc[current(path)]] < Key[p]
           suffix(l) == [i \in 1 .. l |-> s[Len(s) + 1 - i]]
           key == [i \in 1 .. Len(s) |-> Key[proc[s[i]]]]
<1>1. /\ s \in Seq(Node) /\ Len(s) \in Nat /\ tail = NodeAt(s, Len(s))
      /\ Contents \in Seq(Process \cup {NULL}) /\ Len(Contents) = Len(s)
      /\ \A i \in 1 .. Len(s) : /\ next[s[i]] = NodeAt(s, i - 1)
                                /\ Contents[i] = proc[s[i]]
                                /\ proc[s[i]] \in Process
                                /\ s[i] # Nil
  <2>1. \A i \in 1 .. Len(s) : s[i] \in Node /\ s[i] \in Allocated
    BY ChainedFacts
  <2>2. \A n \in Allocated : proc[n] \in Process
    BY ChainedFacts
  <2>3. /\ s \in Seq(Node) /\ Len(s) \in Nat /\ tail = NodeAt(s, Len(s))
        /\ Contents \in Seq(Process \cup {NULL}) /\ Len(Contents) = Len(s)
        /\ \A i \in 1 .. Len(s) : next[s[i]] = NodeAt(s, i - 1) /\ Contents[i] = proc[s[i]]
    BY ChainedFacts
  <2> HIDE DEF s
  <2> QED  BY <2>1, <2>2, <2>3, LinkedAssumption
<1>2. /\ \A l \in 0 .. Len(s) : suffix(l) \in PathFromTail
      /\ \A path \in PathFromTail : Len(path) \in 0 .. Len(s) /\ path = suffix(Len(path))
  <2> HIDE DEF s
  <2>1. IsChain(s, head, tail, size, proc, next, prev)
    BY DEF s, Chained
  <2> QED  BY <2>1, PathsFromTail DEF PathFromTail
<1> HIDE DEF s
<1>3. Key[p] \in Nat /\ \A i \in 1 .. Len(s) : key[i] \in Nat /\ key[i] = Key[proc[s[i]]]
  BY <1>1, LinkedAssumption
<1>4. ASSUME NEW l \in 0 .. Len(s)
      PROVE  /\ walked(suffix(l)) <=> /\ \A j \in Len(s) - l + 1 .. Len(s) : key[j] >= Key[p]
                                      /\ l = Len(s) \/ key[Len(s) - l] < Key[p]
             /\ Len(suffix(l)) = l
  <2> DEFINE path == suffix(l)
  <2>1. DOMAIN path = 1 .. l /\ Len(path) = l /\ path \in Seq(Node)
        /\ \A i \in 1 .. l : path[i] = s[Len(s) + 1 - i]
    BY <1>1
  <2> HIDE DEF path
  <2>2. (\A i \in DOMAIN path : Key[proc[path[i]]] >= Key[p])
        <=> \A j \in Len(s) - l + 1 .. Len(s) : key[j] >= Key[p]
    <3>1. ASSUME NEW i \in 1 .. l
          PROVE  /\ Len(s) + 1 - i \in Len(s) - l + 1 .. Len(s)
                 /\ Key[proc[path[i]]] = key[Len(s) + 1 - i]
      BY <1>1, <1>3, <2>1
    <3>2. ASSUME NEW j \in Len(s) - l + 1 .. Len(s)
          PROVE  Len(s) + 1 - j \in 1 .. l /\ Key[proc[path[Len(s) + 1 - j]]] = key[j]
      <4>1. Len(s) + 1 - j \in 1 .. l /\ j \in 1 .. Len(s) /\ Len(s) + 1 - (Len(s) + 1 - j) = j
        BY <1>1
      <4> QED  BY <1>3, <2>1, <4>1
    <3> HIDE DEF key
    <3> QED  BY <2>1, <3>1, <3>2
  <2>3. current(path) = NodeAt(s, Len(s) - l)
    <3>1. CASE l = 0
      <4>1. path = << >> /\ Len(s) - l = Len(s)
        BY <1>1, <2>1, <3>1
      <4> QED  BY <1>1, <4>1
    <3>2. CASE l # 0
      <4>1. path # << >> /\ l \in 1 .. l /\ Len(s) + 1 - l \in 1 .. Len(s)
            /\ (Len(s) + 1 - l) - 1 = Len(s) - l
        BY <1>1, <2>1, <3>2
      <4>2. before(path) = s[Len(s) + 1 - l]
        BY <2>1, <4>1
      <4> QED  BY <1>1, <4>1, <4>2
    <3> QED  BY <3>1, <3>2
  <2>4. (current(path) = Nil \/ Key[proc[current(path)]] < Key[p])
        <=> (l = Len(s) \/ key[Len(s) - l] < Key[p])
    <3>1. CASE l = Len(s)
      <4>1. NodeAt(s, Len(s) - l) = Nil
        BY <1>1, <3>1 DEF NodeAt
      <4> QED  BY <2>3, <3>1, <4>1
    <3>2. CASE l # Len(s)
      <4>1. Len(s) - l \in 1 .. Len(s)
        BY <1>1, <3>2
      <4>2. current(path) = s[Len(s) - l]
        BY <2>3, <4>1 DEF NodeAt
      <4>3. current(path) # Nil /\ Key[proc[current(path)]] = key[Len(s) - l]
        BY <1>1, <1>3, <4>1, <4>2
      <4> QED  BY <3>2, <4>3
    <3> QED  BY <3>1, <3>2
  <2>5. walked(path) <=> /\ \A j \in Len(s) - l + 1 .. Len(s) : key[j] >= Key[p]
                         /\ l = Len(s) \/ key[Len(s) - l] < Key[p]
    <3> HIDE DEF current, key
    <3> QED  BY <2>2, <2>4
  <2> QED  BY <2>1, <2>5 DEF path
<1> DEFINE stops == {l \in 0 .. Len(s) : l = Len(s) \/ key[Len(s) - l] < Key[p]}
<1>5. PICK l \in stops : \A k \in stops : l <= k
  <2>1. stops \in SUBSET Nat /\ Len(s) \in stops
    BY <1>1
  <2> HIDE DEF stops
  <2> QED  BY <2>1, LeastExists
<1>6. l \in 0 .. Len(s) /\ (l = Len(s) \/ key[Len(s) - l] < Key[p])
  OBVIOUS
<1>7. ASSUME NEW j \in Len(s) - l + 1 .. Len(s) PROVE key[j] >= Key[p]
  <2>1. Len(s) - j \in 0 .. Len(s) /\ ~(l <= Len(s) - j) /\ Len(s) - (Len(s) - j) = j
        /\ j \in 1 .. Len(s)
    BY <1>1, <1>6
  <2>2. Len(s) - j \notin stops
    <3> HIDE DEF stops
    <3> QED  BY <1>5, <2>1
  <2>3. ~(key[j] < Key[p])
    BY <2>1, <2>2
  <2> HIDE DEF key
  <2> QED  BY <1>3, <2>1, <2>3
<1> HIDE DEF stops, key, walked, suffix
<1>8. walked(suffix(l)) /\ suffix(l) \in PathFromTail
  BY <1>2, <1>4, <1>6, <1>7
<1>9. ASSUME NEW k \in 0 .. Len(s),
             \A j \in Len(s) - k + 1 .. Len(s) : key[j] >= Key[p],
             k = Len(s) \/ key[Len(s) - k] < Key[p]
      PROVE  k = l
  <2>1. CASE k < l
    <3>1. Len(s) - k \in Len(s) - l + 1 .. Len(s) /\ Len(s) - k \in 1 .. Len(s) /\ k # Len(s)
      BY <1>1, <1>6, <2>1
    <3>2. key[Len(s) - k] \in Nat /\ key[Len(s) - k] >= Key[p] /\ key[Len(s) - k] < Key[p]
      BY <1>3, <1>7, <1>9, <3>1
    <3> QED  BY <1>3, <3>2
  <2>2. CASE l < k
    <3>1. Len(s) - l \in Len(s) - k + 1 .. Len(s) /\ Len(s) - l \in 1 .. Len(s) /\ l # Len(s)
      BY <1>1, <1>6, <2>2
    <3>2. key[Len(s) - l] \in Nat /\ key[Len(s) - l] >= Key[p] /\ key[Len(s) - l] < Key[p]
      BY <1>3, <1>6, <1>9, <3>1
    <3> QED  BY <1>3, <3>2
  <2> QED  BY <1>6, <2>1, <2>2
<1>10. WalkedBy(p) = suffix(l)
  <2>1. ASSUME NEW path \in PathFromTail, walked(path) PROVE path = suffix(l)
    <3>1. PICK k \in 0 .. Len(s) : path = suffix(k)
      BY <1>2
    <3>2. walked(suffix(k))
      BY <2>1, <3>1
    <3>3. k = l
      BY <1>4, <1>9, <3>2
    <3> QED  BY <3>1, <3>3
  <2>2. WalkedBy(p) = CHOOSE path \in PathFromTail : walked(path)
    BY DEF WalkedBy, walked
  <2> QED  BY <1>8, <2>1, <2>2
<1> DEFINE m == Len(s) - l
           stop(i) == /\ i > 0 => Key[Contents[i]] < Key[p]
                      /\ \A j \in i + 1 .. Len(Contents) : Key[Contents[j]] >= Key[p]
<1>11. m \in 0 .. Len(s) /\ Len(s) - m = l
  BY <1>1, <1>6
<1>12. ASSUME NEW i \in 0 .. Len(s)
       PROVE  stop(i) <=> /\ \A j \in Len(s) - (Len(s) - i) + 1 .. Len(s) : key[j] >= Key[p]
                          /\ Len(s) - i = Len(s) \/ key[Len(s) - (Len(s) - i)] < Key[p]
  <2>1. Len(s) - (Len(s) - i) = i /\ (i > 0 <=> Len(s) - i # Len(s)) /\ (i > 0 => i \in 1 .. Len(s))
    BY <1>1
  <2>2. \A j \in 1 .. Len(s) : Key[Contents[j]] = key[j]
    BY <1>1, <1>3
  <2>3. i + 1 .. Len(s) \subseteq 1 .. Len(s)
    BY <1>1
  <2> QED  BY <1>1, <2>1, <2>2, <2>3
<1> HIDE DEF m, stop
<1>13. stop(m)
  BY <1>6, <1>7, <1>11, <1>12
<1>14. ASSUME NEW i \in 0 .. Len(s), stop(i) PROVE i = m
  <2>1. Len(s) - i \in 0 .. Len(s)
    BY <1>1
  <2>2. Len(s) - i = l
    BY <1>9, <1>12, <1>14, <2>1
  <2> QED  BY <1>1, <1>6, <2>2 DEF m
<1>15. OrderedIndex(Contents, Key, p) = m
  <2>1. OrderedIndex(Contents, Key, p) = CHOOSE i \in 0 .. Len(s) : stop(i)
    BY <1>1 DEF OrderedIndex, stop
  <2> QED  BY <1>11, <1>13, <1>14, <2>1
<1>16. /\ m > 0 => Key[Contents[m]] < Key[p]
       /\ \A j \in m + 1 .. Len(Contents) : Key[Contents[j]] >= Key[p]
  BY <1>13 DEF stop
<1> QED  BY <1>10, <1>11, <1>15, <1>16 DEF suffix, s

\* The ordered walk stops behind the first i elements of a list.
StopsAt(list, p, i) ==
    /\ i \in 0 .. Len(list)
    /\ i > 0 => Key[list[i]] < Key[p]
    /\ \A j \in i + 1 .. Len(list) : Key[list[j]] >= Key[p]

\* The ordered push of ready_queue_push.
LEMMA OrderedStep ==
    ASSUME Chained, NEW n \in Node, NEW p \in Process,
           \A d \in Allocated : proc[d] # NULL, LinkOrdered(n, p)
    PROVE  /\ Chained'
           /\ NULL \notin ToSet(Contents)
           /\ Contents' = PushOrdered(Contents, Key, p)
           /\ StopsAt(Contents, p, OrderedIndex(Contents, Key, p))
<1> DEFINE s == NodesFromHead
<1>1. /\ s \in Seq(Node) /\ Len(s) \in Nat /\ tail = NodeAt(s, Len(s))
      /\ Contents \in Seq(Process \cup {NULL}) /\ Len(Contents) = Len(s)
      /\ \A i \in 1 .. Len(s) : /\ next[s[i]] = NodeAt(s, i - 1)
                                /\ Contents[i] = proc[s[i]]
                                /\ s[i] \in Allocated
  BY ChainedFacts
<1>2. PICK m \in 0 .. Len(s) : /\ m = OrderedIndex(Contents, Key, p)
                               /\ StopsAt(Contents, p, m)
                               /\ WalkedBy(p) = [i \in 1 .. Len(s) - m |-> s[Len(s) + 1 - i]]
  BY <1>1, WalkStops DEF StopsAt
<1> HIDE DEF s
<1> DEFINE path == WalkedBy(p)
           before == IF path = << >> THEN Nil ELSE path[Len(path)]
           current == IF path = << >> THEN tail ELSE next[before]
<1>3. /\ n \in Node \ Allocated /\ size' = size + 1 /\ proc' = Extend(proc, n, p)
      /\ next' = Extend(Set(next, before, n), n, current)
      /\ prev' = Extend(Set(prev, current, n), n, before)
      /\ tail' = IF before = Nil THEN n ELSE tail
      /\ head' = IF current = Nil THEN n ELSE head
  BY DEF LinkOrdered, Push
<1>4. before = NodeAt(s, m + 1) /\ current = NodeAt(s, m)
  <2> HIDE DEF path
  <2>1. path = [i \in 1 .. Len(s) - m |-> s[Len(s) + 1 - i]]
    BY <1>2 DEF path
  <2>2. CASE m = Len(s)
    <3>1. path = << >>
      BY <1>1, <2>1, <2>2
    <3>2. NodeAt(s, m + 1) = Nil
      BY <1>1, <2>2 DEF NodeAt
    <3> QED  BY <1>1, <2>2, <3>1, <3>2
  <2>3. CASE m # Len(s)
    <3>1. /\ Len(s) - m \in 1 .. Len(s) - m /\ Len(s) + 1 - (Len(s) - m) = m + 1
          /\ m + 1 \in 1 .. Len(s) /\ (m + 1) - 1 = m /\ Len(s) - m \in Nat
      BY <1>1, <2>3
    <3>2. Len(path) = Len(s) - m /\ path # << >>
      <4> DEFINE k == Len(s) - m
      <4>1. k \in Nat /\ k # 0 /\ \A i \in 1 .. k : s[Len(s) + 1 - i] \in Node
        BY <1>1, <2>3
      <4> HIDE DEF k
      <4>2. path = [i \in 1 .. k |-> s[Len(s) + 1 - i]]
        BY <2>1 DEF k
      <4>3. path \in Seq(Node) /\ Len(path) = k
        BY <4>1, <4>2
      <4>4. path # << >>
        BY <4>1, <4>3
      <4> QED  BY <4>3, <4>4 DEF k
    <3>3. path[Len(path)] = s[m + 1]
      BY <2>1, <3>1, <3>2
    <3>4. before = s[m + 1]
      BY <3>2, <3>3
    <3>5. NodeAt(s, m + 1) = s[m + 1]
      BY <3>1 DEF NodeAt
    <3>6. next[s[m + 1]] = NodeAt(s, m)
      BY <1>1, <3>1
    <3> QED  BY <3>2, <3>4, <3>5, <3>6
  <2> QED  BY <2>2, <2>3
<1> HIDE DEF before, current
<1>5. Chained' /\ Contents' = InsertAt(Contents, m + 1, p)
  BY <1>3, <1>4, LinkStep DEF s
<1>6. NULL \notin ToSet(Contents)
  <2>1. DOMAIN Contents = 1 .. Len(s)
    BY <1>1
  <2>2. \A i \in 1 .. Len(s) : Contents[i] # NULL
    BY <1>1
  <2> QED  BY <2>1, <2>2 DEF ToSet
<1> QED  BY <1>1, <1>2, <1>5, <1>6 DEF PushOrdered

-----------------------------------------------------------------------------
(* The order of the keys.                                                   *)

\* The keys of the processes of a list increase; pills have none.
ByAscendingKey(list) ==
    \A i, j \in 1 .. Len(list) :
        i < j /\ list[i] # NULL /\ list[j] # NULL => Key[list[i]] <= Key[list[j]]

\* The ordered branch keeps a list without pills sorted.
LEMMA PushOrderedSorted ==
    ASSUME NEW s \in Seq(Process \cup {NULL}), NEW p \in Process,
           NULL \notin ToSet(s), ByAscendingKey(s), StopsAt(s, p, OrderedIndex(s, Key, p))
    PROVE  ByAscendingKey(PushOrdered(s, Key, p))
<1> DEFINE m == OrderedIndex(s, Key, p)
           r == InsertAt(s, m + 1, p)
<1>1. /\ m \in 0 .. Len(s)
      /\ m > 0 => Key[s[m]] < Key[p]
      /\ \A j \in m + 1 .. Len(s) : Key[s[j]] >= Key[p]
  BY DEF StopsAt
<1>2. Len(s) \in Nat /\ \A i \in 1 .. Len(s) : s[i] \in Process /\ s[i] # NULL
  <2>1. DOMAIN s = 1 .. Len(s) /\ Len(s) \in Nat
    OBVIOUS
  <2> QED  BY <2>1 DEF ToSet
<1>3. \A i \in 1 .. Len(s) : Key[s[i]] \in Nat
  BY <1>2, LinkedAssumption
<1>4. Key[p] \in Nat
  BY LinkedAssumption
<1> HIDE DEF m
<1>5. /\ Len(r) = Len(s) + 1
      /\ \A i \in 1 .. Len(s) + 1 :
            r[i] = IF i < m + 1 THEN s[i] ELSE IF i = m + 1 THEN p ELSE s[i - 1]
  <2> DEFINE k == m + 1
             S == Process \cup {NULL}
  <2>1. k \in 1 .. Len(s) + 1 /\ s \in Seq(S) /\ p \in S
    BY <1>1, <1>2
  <2> HIDE DEF k, S
  <2>2. /\ Len(InsertAt(s, k, p)) = Len(s) + 1
        /\ \A i \in 1 .. Len(s) + 1 :
              InsertAt(s, k, p)[i] = IF i < k THEN s[i] ELSE IF i = k THEN p ELSE s[i - 1]
    BY ONLY <2>1, InsertAtElements
  <2> QED  BY <2>2 DEF k
<1> HIDE DEF r
<1>6. \A i, j \in 1 .. Len(s) : i < j => Key[s[i]] <= Key[s[j]]
  BY <1>2 DEF ByAscendingKey
<1>7. \A i \in 1 .. m : i \in 1 .. Len(s) /\ Key[s[i]] <= Key[p]
  <2> SUFFICES ASSUME NEW i \in 1 .. m PROVE i \in 1 .. Len(s) /\ Key[s[i]] <= Key[p]
    OBVIOUS
  <2>1. m \in 1 .. Len(s) /\ i \in 1 .. Len(s) /\ (i = m \/ i < m) /\ Key[s[m]] < Key[p]
    BY <1>1, <1>2
  <2> QED  BY <1>3, <1>4, <1>6, <2>1
<1>8. ASSUME NEW i \in 1 .. Len(r), NEW j \in 1 .. Len(r), i < j
      PROVE  Key[r[i]] <= Key[r[j]]
  <2>1. CASE j < m + 1
    <3>1. i \in 1 .. Len(s) /\ j \in 1 .. Len(s) /\ r[i] = s[i] /\ r[j] = s[j]
      BY <1>1, <1>2, <1>5, <1>8, <2>1
    <3> QED  BY <1>6, <1>8, <3>1
  <2>2. CASE j = m + 1
    <3>1. i \in 1 .. m /\ r[i] = s[i] /\ r[j] = p
      BY <1>1, <1>2, <1>5, <1>8, <2>2
    <3> QED  BY <1>7, <3>1
  <2>3. CASE j > m + 1
    <3>1. r[j] = s[j - 1] /\ j - 1 \in m + 1 .. Len(s) /\ j - 1 \in 1 .. Len(s)
      BY <1>1, <1>2, <1>5, <2>3
    <3>2. Key[r[j]] >= Key[p] /\ Key[r[j]] \in Nat
      BY <1>1, <1>3, <3>1
    <3>3. CASE i < m + 1
      <4>1. i \in 1 .. m /\ i \in 1 .. Len(s) /\ r[i] = s[i]
        BY <1>1, <1>2, <1>5, <3>3
      <4> QED  BY <1>3, <1>4, <1>7, <3>2, <4>1
    <3>4. CASE i = m + 1
      <4>1. r[i] = p
        BY <1>1, <1>2, <1>5, <3>4
      <4> QED  BY <1>4, <3>2, <4>1
    <3>5. CASE i > m + 1
      <4>1. r[i] = s[i - 1] /\ i - 1 \in 1 .. Len(s) /\ i - 1 < j - 1
        BY <1>1, <1>2, <1>5, <1>8, <3>5
      <4> QED  BY <1>6, <3>1, <4>1
    <3> QED  BY <1>1, <1>2, <1>5, <3>3, <3>4, <3>5
  <2> QED  BY <1>1, <1>2, <1>5, <2>1, <2>2, <2>3
<1> QED  BY <1>8 DEF ByAscendingKey, PushOrdered, r, m

\* A pill at the tail has no key to compare.
LEMMA PushPillSorted ==
    ASSUME NEW s \in Seq(Process \cup {NULL}), ByAscendingKey(s)
    PROVE  ByAscendingKey(PushTail(s, NULL))
<1>1. Len(s) \in Nat
  OBVIOUS
<1>2. /\ Len(PushTail(s, NULL)) = Len(s) + 1
      /\ \A i \in 1 .. Len(s) + 1 :
            PushTail(s, NULL)[i] = IF i = Len(s) + 1 THEN NULL ELSE s[i]
  BY AppendElements DEF PushTail
<1> DEFINE r == PushTail(s, NULL)
<1> HIDE DEF r
<1>3. ASSUME NEW i \in 1 .. Len(r), NEW j \in 1 .. Len(r), i < j, r[i] # NULL, r[j] # NULL
      PROVE  Key[r[i]] <= Key[r[j]]
  <2>1. i \in 1 .. Len(s) /\ j \in 1 .. Len(s) /\ r[i] = s[i] /\ r[j] = s[j]
    BY <1>1, <1>2, <1>3 DEF r
  <2> QED  BY <1>3, <2>1 DEF ByAscendingKey
<1>4. ByAscendingKey(r)
  BY <1>3 DEF ByAscendingKey
<1> QED  BY <1>4 DEF r

LEMMA RemoveAtSorted ==
    ASSUME NEW s \in Seq(Process \cup {NULL}), NEW k \in 1 .. Len(s), ByAscendingKey(s)
    PROVE  ByAscendingKey(RemoveAt(s, k))
<1> DEFINE r == RemoveAt(s, k)
           old == [e \in 1 .. Len(s) - 1 |-> IF e < k THEN e ELSE e + 1]
<1>1. Len(s) \in Nat
  OBVIOUS
<1>2. /\ Len(r) = Len(s) - 1
      /\ \A i \in 1 .. Len(s) - 1 : r[i] = IF i < k THEN s[i] ELSE s[i + 1]
  BY RemoveAtElements
<1> HIDE DEF r
<1>3. /\ \A e \in 1 .. Len(s) - 1 : old[e] \in 1 .. Len(s)
      /\ \A e, f \in 1 .. Len(s) - 1 : e < f => old[e] < old[f]
  BY <1>1
<1>4. \A e \in 1 .. Len(s) - 1 : r[e] = s[old[e]]
  BY <1>1, <1>2
<1> HIDE DEF old
<1>5. ASSUME NEW i \in 1 .. Len(s) - 1, NEW j \in 1 .. Len(s) - 1, i < j,
             r[i] # NULL, r[j] # NULL
      PROVE  Key[r[i]] <= Key[r[j]]
  <2>1. old[i] \in 1 .. Len(s) /\ old[j] \in 1 .. Len(s) /\ old[i] < old[j]
    BY <1>3, <1>5
  <2>2. r[i] = s[old[i]] /\ r[j] = s[old[j]]
    BY <1>4
  <2> QED  BY <1>5, <2>1, <2>2 DEF ByAscendingKey
<1>6. 1 .. Len(r) = 1 .. Len(s) - 1
  BY <1>2
<1> QED  BY <1>5, <1>6 DEF ByAscendingKey, r

-----------------------------------------------------------------------------
(* The invariant and the theorems.                                          *)

\* Inductive: the nodes are a chain, and it is sorted unless it is level 0.
IInv ==
    /\ Chained
    /\ fifo \in BOOLEAN
    /\ ~fifo => ByAscendingKey(Contents)

\* The empty list of ready_queue_init.
LEMMA InitChained ==
    ASSUME Init
    PROVE  Chained /\ Contents = << >>
<1>1. /\ head = Nil /\ tail = Nil /\ size = 0 /\ proc = [n \in {} |-> NULL]
      /\ next = [n \in {} |-> Nil] /\ prev = [n \in {} |-> Nil]
  BY DEF Init
<1>2. << >> \in Seq(Node) /\ Len(<< >>) = 0 /\ ToSet(<< >>) = {}
  BY DEF ToSet
<1>3. IsChain(<< >>, head, tail, size, proc, next, prev)
  BY <1>1, <1>2 DEF IsChain, NodeAt
<1>4. NodesFromHead = << >>
  <2>1. NodesOf(head, prev) = << >>
    BY <1>3, NodesOfChain
  <2> QED  BY <2>1 DEF NodesFromHead, NodesOf
<1>5. Chained
  BY <1>3, <1>4 DEF Chained
<1>6. Contents = << >>
  <2>1. Contents \in Seq(Process \cup {NULL}) /\ Len(Contents) = 0
    BY <1>2, <1>4, <1>5, ChainedFacts
  <2> QED  BY <2>1
<1> QED  BY <1>5, <1>6

\* What each step does to the list.
ListStep ==
    \/ ~fifo /\ Contents' = PushTail(Contents, NULL)
    \/ Contents # << >> /\ Contents' = Tail(Contents)
    \/ \E p \in Process :
          \/ fifo /\ Contents' = PushTail(Contents, p)
          \/ /\ ~fifo
             /\ NULL \notin ToSet(Contents)
             /\ Contents' = PushOrdered(Contents, Key, p)
             /\ StopsAt(Contents, p, OrderedIndex(Contents, Key, p))
          \/ Contents' \in RemoveLast(Contents, p)

LEMMA NextStep ==
    ASSUME Chained, fifo \in BOOLEAN, Next
    PROVE  Chained' /\ ListStep /\ UNCHANGED fifo
<1>1. CASE PushPill
  <2>1. PICK n \in Node : LinkAtTail(n, NULL)
    BY <1>1 DEF PushPill
  <2>2. Chained' /\ Contents' = PushTail(Contents, NULL)
    BY <2>1, TailStep
  <2> QED  BY <1>1, <2>2 DEF PushPill, ListStep, Next
<1>2. CASE Pop
  BY <1>2, PopStep DEF ListStep, Next
<1>3. ASSUME NEW p \in Process, PushProcess(p)
      PROVE  Chained' /\ ListStep
  <2>1. CASE fifo
    <3>1. PICK n \in Node : LinkAtTail(n, p)
      BY <1>3, <2>1 DEF PushProcess
    <3>2. Chained' /\ Contents' = PushTail(Contents, p)
      BY <3>1, TailStep
    <3> QED  BY <2>1, <3>2 DEF ListStep
  <2>2. CASE ~fifo
    <3>1. PICK n \in Node : LinkOrdered(n, p)
      BY <1>3, <2>2 DEF PushProcess
    <3>2. \A d \in Allocated : proc[d] # NULL
      BY <1>3, <2>2 DEF PushProcess
    <3>3. /\ Chained' /\ NULL \notin ToSet(Contents)
          /\ Contents' = PushOrdered(Contents, Key, p)
          /\ StopsAt(Contents, p, OrderedIndex(Contents, Key, p))
      BY <3>1, <3>2, OrderedStep
    <3> QED  BY <2>2, <3>3 DEF ListStep
  <2> QED  BY <2>1, <2>2
<1>4. ASSUME NEW p \in Process, RemoveProcess(p)
      PROVE  Chained' /\ ListStep
  BY <1>4, RemoveStep DEF ListStep
<1> QED  BY <1>1, <1>2, <1>3, <1>4 DEF Next

LEMMA SortedStep ==
    ASSUME Chained, ~fifo, ByAscendingKey(Contents), ListStep
    PROVE  ByAscendingKey(Contents')
<1>1. Contents \in Seq(Process \cup {NULL})
  BY ChainedFacts
<1>2. CASE Contents' = PushTail(Contents, NULL)
  BY <1>1, <1>2, PushPillSorted
<1>3. CASE Contents # << >> /\ Contents' = Tail(Contents)
  <2>1. Tail(Contents) = RemoveAt(Contents, 1) /\ 1 \in 1 .. Len(Contents)
    BY <1>1, <1>3, HeadRemoval
  <2>2. ByAscendingKey(RemoveAt(Contents, 1))
    BY <1>1, <2>1, RemoveAtSorted
  <2> QED  BY <1>3, <2>1, <2>2
<1>4. ASSUME NEW p \in Process, NULL \notin ToSet(Contents),
             Contents' = PushOrdered(Contents, Key, p),
             StopsAt(Contents, p, OrderedIndex(Contents, Key, p))
      PROVE  ByAscendingKey(Contents')
  BY <1>1, <1>4, PushOrderedSorted
<1>5. ASSUME NEW p \in Process, Contents' \in RemoveLast(Contents, p)
      PROVE  ByAscendingKey(Contents')
  <2>1. PICK k \in 1 .. Len(Contents) : Contents' = RemoveAt(Contents, k)
    BY <1>5 DEF RemoveLast
  <2> QED  BY <1>1, <2>1, RemoveAtSorted
<1> QED  BY <1>2, <1>3, <1>4, <1>5 DEF ListStep

LEMMA Invariance == Spec => []IInv
<1>1. Init => IInv
  <2> SUFFICES ASSUME Init PROVE IInv
    OBVIOUS
  <2>1. Chained /\ Contents = << >>
    BY InitChained
  <2>2. ByAscendingKey(Contents)
    BY <2>1 DEF ByAscendingKey
  <2> QED  BY <2>1, <2>2 DEF IInv, Init
<1>2. IInv /\ [Next]_vars => IInv'
  <2> SUFFICES ASSUME IInv, [Next]_vars PROVE IInv'
    OBVIOUS
  <2>1. CASE Next
    <3>1. Chained' /\ ListStep /\ UNCHANGED fifo
      BY <2>1, NextStep DEF IInv
    <3>2. ~fifo => ByAscendingKey(Contents')
      BY <3>1, SortedStep DEF IInv
    <3>3. ~fifo' => ByAscendingKey(Contents)'
      BY <3>1, <3>2 DEF ByAscendingKey
    <3> QED  BY <3>1, <3>3 DEF IInv
  <2>2. CASE UNCHANGED vars
    <3>1. NodesFromHead' = NodesFromHead
      BY <2>2 DEF vars, NodesFromHead
    <3>2. Contents' = Contents /\ (Chained' <=> Chained) /\ fifo' = fifo
      BY <2>2, <3>1 DEF vars, Contents, Chained
    <3>3. ByAscendingKey(Contents)' <=> ByAscendingKey(Contents)
      BY <3>2 DEF ByAscendingKey
    <3> QED  BY <3>2, <3>3 DEF IInv
  <2> QED  BY <2>1, <2>2
<1> QED  BY <1>1, <1>2, PTL DEF Spec

\* The pointers of ready_queue.c are nodes that are allocated, or null.
THEOREM TypeCorrect == Spec => []TypeOK
<1>1. IInv => TypeOK
  <2> SUFFICES ASSUME IInv PROVE TypeOK
    OBVIOUS
  <2> DEFINE s == NodesFromHead
  <2>1. /\ s \in Seq(Node) /\ Len(s) \in Nat /\ size = Len(s) /\ Allocated = ToSet(s)
        /\ proc \in [ToSet(s) -> Process \cup {NULL}]
        /\ next \in [ToSet(s) -> Node \cup {Nil}]
        /\ prev \in [ToSet(s) -> Node \cup {Nil}]
        /\ head = NodeAt(s, 1) /\ tail = NodeAt(s, Len(s))
        /\ \A i \in 1 .. Len(s) : s[i] \in Node
    BY ChainedFacts DEF IInv
  <2> HIDE DEF s
  <2>2. ToSet(s) \subseteq Node
    <3>1. DOMAIN s = 1 .. Len(s)
      BY <2>1
    <3> QED  BY <2>1, <3>1 DEF ToSet
  <2>3. head \in Node \cup {Nil} /\ tail \in Node \cup {Nil}
    BY <2>1, NodeAtType
  <2>4. /\ proc \in [Allocated -> Process \cup {NULL}]
        /\ next \in [Allocated -> Node \cup {Nil}]
        /\ prev \in [Allocated -> Node \cup {Nil}]
        /\ Allocated \subseteq Node /\ size \in Nat
    BY ONLY <2>1, <2>2
  <2>5. fifo \in BOOLEAN
    BY DEF IInv
  <2> QED  BY <2>3, <2>4, <2>5 DEF TypeOK
<1> QED  BY <1>1, Invariance, PTL

\* The links of ready_queue_push, _pop and _remove are mirror images, and the size
\* counts the nodes.
THEOREM LinksAreMirrored == Spec => []WellLinked
<1>1. IInv => WellLinked
  <2> SUFFICES ASSUME IInv PROVE WellLinked
    OBVIOUS
  <2> DEFINE s == NodesFromHead
  <2>1. /\ s \in Seq(Node) /\ Len(s) \in Nat /\ size = Len(s) /\ Allocated = ToSet(s)
        /\ \A i, j \in 1 .. Len(s) : s[i] = s[j] => i = j
        /\ tail = NodeAt(s, Len(s))
        /\ \A i \in 1 .. Len(s) : next[s[i]] = NodeAt(s, i - 1)
    BY ChainedFacts DEF IInv
  <2> HIDE DEF s
  <2>2. Cardinality(Allocated) = size
    BY <2>1, LengthIsCardinality
  <2>3. \A i \in 1 .. size : next[s[i]] = IF i = 1 THEN Nil ELSE s[i - 1]
    <3> SUFFICES ASSUME NEW i \in 1 .. Len(s)
                 PROVE  next[s[i]] = IF i = 1 THEN Nil ELSE s[i - 1]
      BY <2>1
    <3>1. CASE i = 1
      BY <2>1, <3>1 DEF NodeAt
    <3>2. CASE i # 1
      <4>1. i - 1 \in 1 .. Len(s)
        BY <2>1, <3>2
      <4> QED  BY <2>1, <3>2, <4>1 DEF NodeAt
    <3> QED  BY <3>1, <3>2
  <2>4. tail = IF size = 0 THEN Nil ELSE s[size]
    BY <2>1 DEF NodeAt
  <2> QED  BY <2>1, <2>2, <2>3, <2>4 DEF WellLinked, s
<1> QED  BY <1>1, Invariance, PTL

\* A level other than 0 gives the shortest process first.
THEOREM ShortestFirst == Spec => []PopsShortestFirst
<1>1. IInv => PopsShortestFirst
  <2> SUFFICES ASSUME IInv PROVE PopsShortestFirst
    OBVIOUS
  <2> DEFINE s == NodesFromHead
  <2>1. /\ Len(s) \in Nat /\ size = Len(s) /\ Len(Contents) = Len(s)
        /\ \A i \in 1 .. Len(s) : Contents[i] = proc[s[i]]
    BY ChainedFacts DEF IInv
  <2>2. ~fifo => ByAscendingKey(Contents)
    BY DEF IInv
  <2> HIDE DEF s
  <2>3. ~fifo => \A i, j \in 1 .. size :
                    i < j /\ proc[s[i]] # NULL /\ proc[s[j]] # NULL
                       => Key[proc[s[i]]] <= Key[proc[s[j]]]
    BY <2>1, <2>2 DEF ByAscendingKey
  <2> QED  BY <2>3 DEF PopsShortestFirst, s
<1> QED  BY <1>1, Invariance, PTL

-----------------------------------------------------------------------------
(* The linked list implements the list of ListSpec.                         *)

\* The operators of the instance are those of ReadyQueue.
LEMMA ListOperators ==
    /\ \A list, x : List!PushTail(list, x) = PushTail(list, x)
    /\ \A list, x : List!RemoveLast(list, x) = RemoveLast(list, x)
    /\ \A list, p : List!PushOrdered(list, Key, p) = PushOrdered(list, Key, p)
    /\ \A list : List!ToSet(list) = ToSet(list)
BY DEF List!PushTail, PushTail, List!RemoveLast, RemoveLast, List!RemoveAt, RemoveAt,
       List!PushOrdered, PushOrdered, List!OrderedIndex, OrderedIndex,
       List!InsertAt, InsertAt, List!ToSet, ToSet

LEMMA ListPush ==
    ASSUME NEW p \in Process,
           \/ fifo /\ Contents' = PushTail(Contents, p)
           \/ /\ ~fifo
              /\ NULL \notin ToSet(Contents)
              /\ Contents' = PushOrdered(Contents, Key, p)
    PROVE  List!Push(p)
BY ListOperators DEF List!Push, Contents, ContentsOf

\* Every critical section is a step of the list.
LEMMA ListNext ==
    ASSUME ListStep, UNCHANGED fifo
    PROVE  List!Next
<1>1. CASE ~fifo /\ Contents' = PushTail(Contents, NULL)
  <2>1. List!PushPill
    BY <1>1, ListOperators DEF List!PushPill, Contents, ContentsOf
  <2> QED  BY <2>1 DEF List!Next
<1>2. CASE Contents # << >> /\ Contents' = Tail(Contents)
  <2>1. List!Pop
    BY <1>2 DEF List!Pop, Contents, ContentsOf
  <2> QED  BY <2>1 DEF List!Next
<1>3. ASSUME NEW p \in Process,
             \/ fifo /\ Contents' = PushTail(Contents, p)
             \/ /\ ~fifo
                /\ NULL \notin ToSet(Contents)
                /\ Contents' = PushOrdered(Contents, Key, p)
                /\ StopsAt(Contents, p, OrderedIndex(Contents, Key, p))
      PROVE  List!Next
  <2>1. List!Push(p)
    BY <1>3, ListPush
  <2> QED  BY <2>1 DEF List!Next
<1>4. ASSUME NEW p \in Process, Contents' \in RemoveLast(Contents, p)
      PROVE  List!Next
  <2>1. List!RemoveProcess(p)
    BY <1>4, ListOperators DEF List!RemoveProcess, Contents, ContentsOf
  <2> QED  BY <2>1 DEF List!Next
<1> QED  BY <1>1, <1>2, <1>3, <1>4 DEF ListStep

\* The linked list of ready_queue.c, seen through its chain, is the list that
\* ListSpec promises.
THEOREM Refinement == Spec => ImplementsList
<1>1. Init => List!Init
  <2> SUFFICES ASSUME Init PROVE List!Init
    OBVIOUS
  <2>1. Contents = << >>
    BY InitChained
  <2> QED  BY <2>1 DEF List!Init, Init, Contents, ContentsOf
<1>2. IInv /\ [Next]_vars => [List!Next]_(List!vars)
  <2> SUFFICES ASSUME IInv, [Next]_vars PROVE [List!Next]_(List!vars)
    OBVIOUS
  <2>1. CASE Next
    <3>1. ListStep /\ UNCHANGED fifo
      BY <2>1, NextStep DEF IInv
    <3> QED  BY <3>1, ListNext
  <2>2. CASE UNCHANGED vars
    <3>1. NodesFromHead' = NodesFromHead
      BY <2>2 DEF vars, NodesFromHead
    <3> QED  BY <2>2, <3>1 DEF vars, List!vars
  <2> QED  BY <2>1, <2>2
<1> QED  BY <1>1, <1>2, Invariance, PTL DEF Spec, ImplementsList, List!Spec
=============================================================================
