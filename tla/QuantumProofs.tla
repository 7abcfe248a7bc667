---------------------------- MODULE QuantumProofs ---------------------------
(***************************************************************************)
(* Theorems about QuantumAverage, for any processes, bursts, quanta and    *)
(* width of the arithmetic.                                                *)
(***************************************************************************)
EXTENDS QuantumAverage, FiniteSetTheorems, TLAPS

Words == 0 .. Modulus - 1

-----------------------------------------------------------------------------
(***************************************************************************)
(* The arithmetic.                                                         *)
(***************************************************************************)
LEMMA ModIsWord == \A a \in Int : a % Modulus \in Words
BY AverageAssumption DEF Words

\* A truncating division by a positive count does not leave the words.
LEMMA DivIsWord ==
    ASSUME NEW a \in Words, NEW k \in Nat \ {0}
    PROVE  a \div k \in Words
<1>1. a \in Nat /\ Modulus \in Nat
    BY AverageAssumption DEF Words
<1>2. ASSUME NEW b \in Nat
      PROVE  b \div k \in Nat /\ b \div k <= b
    OBVIOUS
<1>3. a \div k \in Nat /\ a \div k <= a
    BY <1>1, <1>2
<1>4. QED
    BY <1>1, <1>3 DEF Words

LEMMA AddedType ==
    ASSUME NEW q \in Words, NEW c \in Nat, NEW b \in Nat
    PROVE  Added(q, c, b)[1] \in Words /\ Added(q, c, b)[2] = c + 1
<1>1. q \in Int /\ q * c + b \in Int
    BY AverageAssumption DEF Words
<1>2. ((q * c + b) % Modulus) \in Words
    BY <1>1, ModIsWord
<1>3. ((q * c + b) % Modulus) \div (c + 1) \in Words
    BY <1>2, DivIsWord
<1>4. QED
    BY <1>3 DEF Added

\* The division by counter - 1 is one by a positive number, because the last
\* removal is treated apart.
LEMMA RemovedType ==
    ASSUME NEW q \in Words, NEW c \in Nat \ {0}, NEW b \in Nat
    PROVE  /\ Removed(q, c, b)[1] \in Words /\ Removed(q, c, b)[2] = c - 1
           /\ c = 1 => Removed(q, c, b)[1] = InitialQuantum
<1>1. CASE c = 1
    BY <1>1, AverageAssumption DEF Removed, Words
<1>2. CASE c # 1
  <2>1. q * c - b \in Int /\ c - 1 \in Nat \ {0}
      BY <1>2, AverageAssumption DEF Words
  <2>2. ((q * c - b) % Modulus) \in Words
      BY <2>1, ModIsWord
  <2>3. ((q * c - b) % Modulus) \div (c - 1) \in Words
      BY <2>1, <2>2, DivIsWord
  <2>4. QED
      BY <1>2, <2>3 DEF Removed
<1>3. QED
    BY <1>1, <1>2

-----------------------------------------------------------------------------
(***************************************************************************)
(* The inductive invariant: the types, and what EmptyAverageIsInitial says *)
(* of the counter.  Without the counter the divisor of a removal is not    *)
(* known to be positive, and without the divisor the type is not kept.     *)
(***************************************************************************)
IInv == TypeOK /\ EmptyAverageIsInitial

LEMMA TypeFacts ==
    ASSUME TypeOK
    PROVE  /\ quantum \in Words /\ counter \in Nat
           /\ burstLength \in [Process -> 0 .. MaxBurst]
           /\ foundBurst \in [Process -> BOOLEAN]
           /\ finished \subseteq Process
           /\ \A p \in Process : burstLength[p] \in Nat
BY AverageAssumption DEF TypeOK, Words

LEMMA InitIInv == Init => IInv
<1> SUFFICES ASSUME Init PROVE IInv
    OBVIOUS
<1>1. TypeOK
    BY AverageAssumption DEF Init, TypeOK
<1>2. Found = {}
    BY DEF Init, Found
<1>3. QED
    BY <1>1, <1>2, FS_EmptySet DEF Init, IInv, EmptyAverageIsInitial

LEMMA FoundFinite == IsFiniteSet(Found)
BY FS_Subset, AverageAssumption DEF Found

LEMMA FoundIsCounted ==
    ASSUME IInv, NEW p \in Process, foundBurst[p]
    PROVE  counter \in Nat \ {0}
<1>1. TypeOK /\ EmptyAverageIsInitial
    BY DEF IInv
<1>2. Found # {}
    BY DEF Found
<1>3. QED
    BY <1>1, <1>2, TypeFacts, FoundFinite, FS_EmptySet DEF EmptyAverageIsInitial

LEMMA MeasureIInv ==
    ASSUME IInv, NEW p \in Process, Measure(p)
    PROVE  IInv'
<1>1. TypeOK /\ EmptyAverageIsInitial
    BY DEF IInv
<1>2. burstLength' \in [Process -> 0 .. MaxBurst]
  <2>1. PICK time \in 1 .. MaxBurst :
           /\ burstLength[p] + time <= MaxBurst
           /\ burstLength' = [burstLength EXCEPT ![p] = @ + time]
      BY DEF Measure
  <2>2. burstLength[p] + time \in 0 .. MaxBurst
      BY <1>1, <2>1, AverageAssumption DEF TypeOK
  <2>3. QED
      BY <1>1, <2>1, <2>2 DEF TypeOK
<1>3. QED
    BY <1>1, <1>2 DEF Measure, IInv, TypeOK, EmptyAverageIsInitial, Found

LEMMA BlockIInv ==
    ASSUME IInv, NEW p \in Process, Block(p)
    PROVE  IInv'
<1>0. TypeOK /\ EmptyAverageIsInitial
    BY DEF IInv
<1>1. /\ quantum \in Words /\ counter \in Nat
      /\ foundBurst \in [Process -> BOOLEAN] /\ burstLength[p] \in Nat
    BY <1>0, TypeFacts
<1>2. Found' = Found \union {p}
    BY <1>1 DEF Block, Found
<1>3. Cardinality(Found') = IF foundBurst[p] THEN Cardinality(Found)
                            ELSE Cardinality(Found) + 1
    BY <1>2, FoundFinite, FS_AddElement DEF Found
<1>4. /\ quantum' \in Words
      /\ counter' = Cardinality(Found')
      /\ counter' = 0 => quantum' = InitialQuantum
  <2>1. CASE foundBurst[p]
      BY <1>0, <1>1, <1>3, <2>1 DEF Block, EmptyAverageIsInitial
  <2>2. CASE ~foundBurst[p]
    <3>1. quantum' \in Words /\ counter' = counter + 1
        BY <1>1, <2>2, AddedType DEF Block
    <3>2. QED
        BY <1>0, <1>1, <1>3, <2>2, <3>1 DEF EmptyAverageIsInitial
  <2>3. QED
      BY <2>1, <2>2
<1>5. counter' \in Nat
    BY <1>0, <1>1, <1>3, <1>4 DEF EmptyAverageIsInitial
<1>6. QED
    BY <1>0, <1>1, <1>4, <1>5 DEF Block, IInv, TypeOK, EmptyAverageIsInitial, Words

LEMMA DoneIInv ==
    ASSUME IInv, NEW p \in Process, Done(p)
    PROVE  IInv'
<1>0. TypeOK /\ EmptyAverageIsInitial
    BY DEF IInv
<1>1. /\ quantum \in Words /\ counter \in Nat
      /\ foundBurst \in [Process -> BOOLEAN] /\ burstLength[p] \in Nat
    BY <1>0, TypeFacts
<1>2. Found' = Found \ {p}
    BY <1>1 DEF Done, Found
<1>3. Cardinality(Found') = IF foundBurst[p] THEN Cardinality(Found) - 1
                            ELSE Cardinality(Found)
    BY <1>2, FoundFinite, FS_RemoveElement DEF Found
<1>4. foundBurst[p] => counter \in Nat \ {0}
    BY FoundIsCounted
<1>5. /\ quantum' \in Words
      /\ counter' = Cardinality(Found') /\ counter' \in Nat
      /\ counter' = 0 => quantum' = InitialQuantum
  <2>1. CASE ~foundBurst[p]
      BY <1>0, <1>1, <1>3, <2>1 DEF Done, EmptyAverageIsInitial
  <2>2. CASE foundBurst[p]
    <3>1. /\ quantum' \in Words /\ counter' = counter - 1
          /\ counter = 1 => quantum' = InitialQuantum
        BY <1>1, <1>4, <2>2, RemovedType DEF Done
    <3>2. QED
        BY <1>0, <1>3, <1>4, <2>2, <3>1 DEF EmptyAverageIsInitial
  <2>3. QED
      BY <2>1, <2>2
<1>6. /\ burstLength' \in [Process -> 0 .. MaxBurst]
      /\ foundBurst' \in [Process -> BOOLEAN] /\ finished' \subseteq Process
    BY <1>0, AverageAssumption DEF Done, TypeOK
<1>7. QED
    BY <1>5, <1>6 DEF IInv, TypeOK, EmptyAverageIsInitial, Words

LEMMA NextIInv == IInv /\ [Next]_vars => IInv'
<1> SUFFICES ASSUME IInv, [Next]_vars
             PROVE  IInv'
    OBVIOUS
<1>1. ASSUME NEW p \in Process, Measure(p)
      PROVE  IInv'
    BY <1>1, MeasureIInv
<1>2. ASSUME NEW p \in Process, Block(p)
      PROVE  IInv'
    BY <1>2, BlockIInv
<1>3. ASSUME NEW p \in Process, Done(p)
      PROVE  IInv'
    BY <1>3, DoneIInv
<1>4. CASE UNCHANGED vars
    BY <1>4 DEF vars, IInv, TypeOK, EmptyAverageIsInitial, Found
<1>5. QED
    BY <1>1, <1>2, <1>3, <1>4 DEF Next, Terminated

LEMMA IInvariant == Spec => []IInv
BY InitIInv, NextIInv, PTL DEF Spec

-----------------------------------------------------------------------------
\* The average is a word and the counter a natural number, whatever wraps.
THEOREM TypeCorrect == Spec => []TypeOK
BY IInvariant, PTL DEF IInv

\* quantum_counter counts the processes in the average, and the average of no
\* process is the initial quantum (add_to_ and remove_from_quantum_average).
THEOREM EmptyAverage == Spec => []EmptyAverageIsInitial
BY IInvariant, PTL DEF IInv

LEMMA GetQuantumPositive ==
    ASSUME quantum \in Words, NEW l \in 0 .. 3
    PROVE  GetQuantum(l) \in Nat \ {0}
<1>1. CASE l = 0
    BY <1>1 DEF GetQuantum
<1>2. CASE l # 0
  <2> DEFINE product == (quantum * Tenths[l]) \div 10
  <2>1. Tenths[l] \in Nat
      BY <1>2 DEF Tenths
  <2>2. product \in Nat
    <3>1. quantum * Tenths[l] \in Nat
        BY <2>1, AverageAssumption DEF Words
    <3>2. QED
        BY <3>1
  <2>3. /\ product = 0 => GetQuantum(l) = InitialQuantum
        /\ product > 0 => GetQuantum(l) = IF product < IntLimit THEN product
                                          ELSE Modulus - IntLimit
      BY <1>2, <2>2 DEF GetQuantum
  <2> HIDE DEF product
  <2>4. QED
      BY <2>2, <2>3, AverageAssumption
<1>3. QED
    BY <1>1, <1>2

\* No level ever has a quantum or a micro quantum of zero, not even after the
\* average wrapped or the product overflowed an int (get_quantum, worker_run).
THEOREM EveryQuantumIsPositive == Spec => []QuantumIsPositive
<1>1. TypeOK => QuantumIsPositive
  <2> SUFFICES ASSUME TypeOK, NEW l \in 0 .. 3
               PROVE  GetQuantum(l) > 0 /\ MicroQuantum(l) > 0
      BY DEF QuantumIsPositive
  <2>1. GetQuantum(l) \in Nat \ {0}
      BY TypeFacts, GetQuantumPositive
  <2>2. QED
      BY <2>1, AverageAssumption DEF MicroQuantum
<1>2. QED
    BY <1>1, TypeCorrect, PTL

-----------------------------------------------------------------------------
(***************************************************************************)
(* The sum of the bursts in the average.                                   *)
(***************************************************************************)
Lengths == [Process -> 0 .. MaxBurst]

\* The units of one process.
LEMMA OwnUnits ==
    ASSUME NEW length \in Lengths, NEW p \in Process
    PROVE  LET own == {unit \in Process \X (1 .. MaxBurst) :
                          unit[1] = p /\ unit[2] <= length[p]}
           IN IsFiniteSet(own) /\ Cardinality(own) = length[p]
<1> DEFINE own == {unit \in Process \X (1 .. MaxBurst) :
                      unit[1] = p /\ unit[2] <= length[p]}
           n == length[p]
           f == [k \in 1 .. n |-> << p, k >>]
<1>1. n \in Nat /\ n <= MaxBurst /\ MaxBurst \in Nat
    BY AverageAssumption DEF Lengths
<1>2. \A k \in 1 .. n : << p, k >> \in own
    BY <1>1
<1>3. \A unit \in own : unit[2] \in 1 .. n /\ unit = << p, unit[2] >>
    BY <1>1
<1> HIDE DEF own, n
<1>4. f \in [1 .. n -> own] /\ \A unit \in own : f[unit[2]] = unit
    BY <1>2, <1>3
<1>5. \A j, k \in 1 .. n : f[j] = f[k] => j = k
    OBVIOUS
<1> HIDE DEF f
<1>6. f \in Injection(1 .. n, own)
    BY <1>4, <1>5 DEF Injection, IsInjective
<1>7. f \in Surjection(1 .. n, own)
    BY <1>3, <1>4 DEF Surjection
<1>8. ExistsBijection(1 .. n, own)
    BY <1>6, <1>7 DEF Bijection, ExistsBijection
<1>9. IsFiniteSet(own)
    BY <1>1, <1>8, FS_NatBijection
<1>10. Cardinality(own) = n
    BY <1>1, <1>8, FS_CountingElements
<1>11. QED
    BY <1>9, <1>10 DEF own, n

LEMMA UnitsAreFinite ==
    ASSUME NEW found, NEW length \in Lengths
    PROVE  IsFiniteSet(Units(found, length)) /\ Cardinality(Units(found, length)) \in Nat
<1>1. IsFiniteSet(Process) /\ IsFiniteSet(1 .. MaxBurst)
    BY AverageAssumption, FS_Interval
<1>2. IsFiniteSet(Process \X (1 .. MaxBurst))
    BY <1>1, FS_Product
<1>3. Units(found, length) \subseteq Process \X (1 .. MaxBurst)
    BY DEF Units
<1>4. QED
    BY <1>2, <1>3, FS_Subset, FS_CardinalityType

\* A process in the average contributes its burst.
LEMMA UnitsOfOneMore ==
    ASSUME NEW found, NEW length \in Lengths, NEW p \in Process, found[p],
           NEW found2, NEW length2 \in Lengths, ~found2[p],
           \A q \in Process \ {p} : (found2[q] <=> found[q]) /\ length2[q] = length[q]
    PROVE  Cardinality(Units(found, length)) =
              Cardinality(Units(found2, length2)) + length[p]
<1> DEFINE own == {unit \in Process \X (1 .. MaxBurst) :
                      unit[1] = p /\ unit[2] <= length[p]}
           S == Units(found, length)
           T == Units(found2, length2)
<1>1. IsFiniteSet(own) /\ Cardinality(own) = length[p]
    BY OwnUnits
<1>2. IsFiniteSet(T) /\ Cardinality(T) \in Nat
    BY UnitsAreFinite
<1>3. S = T \cup own
  <2>1. \A unit \in Process \X (1 .. MaxBurst) : unit[1] \in Process
      OBVIOUS
  <2>2. \A unit \in Process \X (1 .. MaxBurst) : unit \in S <=> unit \in T \/ unit \in own
      BY <2>1 DEF Units
  <2>3. S \subseteq Process \X (1 .. MaxBurst) /\ T \subseteq Process \X (1 .. MaxBurst)
        /\ own \subseteq Process \X (1 .. MaxBurst)
      BY DEF Units
  <2> HIDE DEF S, T, own
  <2>4. QED
      BY <2>2, <2>3
<1>4. T \cap own = {}
    BY DEF Units
<1>5. length[p] \in Nat
    BY DEF Lengths
<1> HIDE DEF S, T, own
<1>6. Cardinality(T \cup own) = Cardinality(T) + Cardinality(own) - Cardinality(T \cap own)
    BY <1>1, <1>2, FS_Union
<1>7. Cardinality(T \cap own) = 0
    BY <1>4, FS_EmptySet
<1>8. QED
  <2>1. Cardinality(S) = Cardinality(T \cup own)
      BY <1>3, Zenon
  <2>2. QED
      BY <1>1, <1>2, <1>5, <1>6, <1>7, <2>1 DEF S, T

LEMMA SameUnits ==
    ASSUME NEW found, NEW length, NEW found2, NEW length2,
           \A q \in Process : /\ found2[q] <=> found[q]
                              /\ found[q] => length2[q] = length[q]
    PROVE  Units(found, length) = Units(found2, length2)
<1>1. \A unit \in Process \X (1 .. MaxBurst) : unit[1] \in Process
    OBVIOUS
<1>2. QED
    BY <1>1 DEF Units

\* What the divisions lose.
LEMMA DivisionLoses ==
    ASSUME NEW a \in Nat, NEW k \in Nat \ {0}
    PROVE  ((a % Modulus) \div k) * k <= a
<1>0. \A d \in Nat : \A m \in Nat \ {0} : (d \div m) * m <= d /\ d \div m \in Nat
    OBVIOUS
<1>1. \A m \in Nat \ {0} : a % m \in Nat /\ a % m <= a
    OBVIOUS
<1>2. Modulus \in Nat \ {0}
    BY AverageAssumption
<1> DEFINE b == a % Modulus
<1>3. b \in Nat /\ b <= a
    BY <1>1, <1>2
<1> HIDE DEF b
<1>4. (b \div k) * k <= b /\ b \div k \in Nat
    BY <1>0, <1>3
<1> DEFINE c == (b \div k) * k
<1>5. c \in Int /\ c <= b
    BY <1>4
<1> HIDE DEF c
<1>6. c <= a
    BY <1>3, <1>5
<1>7. QED
    BY <1>6 DEF b, c

(***************************************************************************)
(* The average times the counter never rises above the sum of the bursts   *)
(* by an operation on the queue: only a subtraction that wraps does that.  *)
(***************************************************************************)
THEOREM TruncationOnlyLoses == Spec => AverageNeverAboveMean
<1>1. ASSUME IInv, [Next]_vars, quantum * counter <= TotalFound, NoWrap
      PROVE  quantum' * counter' <= TotalFound'
  <2> DEFINE F == foundBurst
             B == burstLength
  <2>1. /\ F \in [Process -> BOOLEAN] /\ B \in Lengths
        /\ quantum \in Nat /\ counter \in Nat
      BY <1>1 DEF IInv, TypeOK, Lengths
  <2>2. PICK g : g = foundBurst'
      OBVIOUS
  <2>3. PICK h : h = burstLength'
      OBVIOUS
  <2>4. TotalFound = Cardinality(Units(F, B)) /\ TotalFound' = Cardinality(Units(g, h))
      BY <2>2, <2>3 DEF TotalFound
  <2>5. IInv'
      BY <1>1, NextIInv
  <2>6. h \in Lengths
      BY <2>3, <2>5 DEF IInv, TypeOK, Lengths
  <2>7. Cardinality(Units(F, B)) \in Nat /\ Cardinality(Units(g, h)) \in Nat
      BY <2>1, <2>6, UnitsAreFinite
  <2>8. CASE UNCHANGED << quantum, counter >>
             /\ \A q \in Process : (g[q] <=> F[q]) /\ (F[q] => h[q] = B[q])
    <3>1. Units(F, B) = Units(g, h)
        BY <2>8, SameUnits
    <3>2. TotalFound = TotalFound'
        BY <2>4, <3>1
    <3>3. QED
        BY <1>1, <2>8, <3>2
  <2>9. ASSUME NEW p \in Process, Measure(p)
        PROVE  quantum' * counter' <= TotalFound'
    <3>1. \A q \in Process : (g[q] <=> F[q]) /\ (F[q] => h[q] = B[q])
        BY <2>1, <2>2, <2>3, <2>9 DEF Measure, Lengths
    <3>2. QED
        BY <2>8, <2>9, <3>1 DEF Measure
  <2>10. ASSUME NEW p \in Process, Block(p)
         PROVE  quantum' * counter' <= TotalFound'
    <3>1. /\ g = [F EXCEPT ![p] = TRUE] /\ h = B
        BY <2>2, <2>3, <2>10 DEF Block
    <3>2. CASE F[p]
      <4>1. \A q \in Process : (g[q] <=> F[q]) /\ (F[q] => h[q] = B[q])
          BY <2>1, <3>1, <3>2
      <4>2. QED
          BY <2>8, <2>10, <3>2, <4>1 DEF Block
    <3>3. CASE ~F[p]
      <4>1. /\ quantum' = ((quantum * counter + B[p]) % Modulus) \div (counter + 1)
            /\ counter' = counter + 1
          BY <2>10, <3>3 DEF Block, Added
      <4>2. /\ g[p] /\ ~F[p]
            /\ \A q \in Process \ {p} : (F[q] <=> g[q]) /\ B[q] = h[q]
          BY <2>1, <3>1, <3>3
      <4>3. Cardinality(Units(g, h)) = Cardinality(Units(F, B)) + B[p]
        <5>1. Cardinality(Units(g, h)) = Cardinality(Units(F, B)) + h[p]
          <6> HIDE DEF F, B
          <6>1. QED
              BY <2>1, <2>6, <4>2, UnitsOfOneMore
        <5>2. QED
            BY <3>1, <5>1
      <4>4. B[p] \in Nat
          BY <2>1 DEF Lengths
      <4> DEFINE m == quantum * counter
      <4>5. m \in Nat
          BY <2>1
      <4>6. quantum' * counter' <= m + B[p]
        <5> HIDE DEF m, B
        <5>1. (((m + B[p]) % Modulus) \div (counter + 1)) * (counter + 1) <= m + B[p]
            BY <2>1, <4>4, <4>5, DivisionLoses
        <5>2. QED
            BY <4>1, <5>1 DEF m
      <4>7. quantum' * counter' \in Int
          BY <2>5 DEF IInv, TypeOK
      <4> DEFINE r == quantum' * counter'
      <4> HIDE DEF m, B, r
      <4>8. m <= Cardinality(Units(F, B))
          BY <1>1, <2>4 DEF m
      <4>9. r \in Int /\ r <= m + B[p]
          BY <4>6, <4>7 DEF r
      <4>10. r <= Cardinality(Units(g, h))
          BY <2>7, <4>3, <4>4, <4>5, <4>8, <4>9
      <4>11. QED
          BY <2>4, <4>10 DEF r
    <3>4. QED
        BY <3>2, <3>3
  <2>11. ASSUME NEW p \in Process, Done(p)
         PROVE  quantum' * counter' <= TotalFound'
    <3>1. g = [F EXCEPT ![p] = FALSE] /\ h = [B EXCEPT ![p] = 0]
        BY <2>2, <2>3, <2>11 DEF Done
    <3>2. CASE ~F[p]
      <4>1. \A q \in Process : (g[q] <=> F[q]) /\ (F[q] => h[q] = B[q])
          BY <2>1, <3>1, <3>2 DEF Lengths
      <4>2. QED
          BY <2>8, <2>11, <3>2, <4>1 DEF Done
    <3>3. CASE F[p] /\ counter <= 1
      <4>1. counter' = 0
        <5>1. counter' = Removed(quantum, counter, B[p])[2]
            BY <2>11, <3>3 DEF Done
        <5>2. counter # 0
            BY <1>1, <3>3, FoundIsCounted
        <5>3. QED
            BY <2>1, <3>3, <5>1, <5>2 DEF Removed
      <4>2. quantum' * counter' = 0
        <5>1. quantum' \in Int
            BY <2>5, AverageAssumption DEF IInv, TypeOK
        <5>2. \A n \in Int : n * 0 = 0
            OBVIOUS
        <5>3. QED
            BY <4>1, <5>1, <5>2
      <4>3. QED
          BY <2>4, <2>7, <4>2
    <3>4. CASE F[p] /\ counter > 1
      <4>1. /\ quantum' = ((quantum * counter - B[p]) % Modulus) \div (counter - 1)
            /\ counter' = counter - 1
          BY <2>1, <2>11, <3>4 DEF Done, Removed
      <4>2. /\ F[p] /\ ~g[p]
            /\ \A q \in Process \ {p} : (g[q] <=> F[q]) /\ h[q] = B[q]
          BY <2>1, <3>1, <3>4 DEF Lengths
      <4>3. Cardinality(Units(F, B)) = Cardinality(Units(g, h)) + B[p]
        <5> HIDE DEF F, B
        <5>1. QED
            BY <2>1, <2>6, <4>2, UnitsOfOneMore
      <4>4. B[p] \in Nat
          BY <2>1 DEF Lengths
      <4> DEFINE m == quantum * counter
      <4>5. m \in Nat /\ m >= B[p]
          BY <1>1, <2>1, <2>2, <3>4, <4>2 DEF NoWrap
      <4>6. quantum' * counter' <= m - B[p]
        <5> HIDE DEF m, B
        <5>1. m - B[p] \in Nat /\ counter - 1 \in Nat \ {0}
            BY <2>1, <3>4, <4>4, <4>5
        <5>2. (((m - B[p]) % Modulus) \div (counter - 1)) * (counter - 1) <= m - B[p]
            BY <5>1, DivisionLoses
        <5>3. QED
            BY <4>1, <5>2 DEF m
      <4>7. quantum' * counter' \in Int
          BY <2>5 DEF IInv, TypeOK
      <4> DEFINE r == quantum' * counter'
      <4> HIDE DEF m, B, r
      <4>8. m <= Cardinality(Units(F, B))
          BY <1>1, <2>4 DEF m
      <4>9. r \in Int /\ r <= m - B[p]
          BY <4>6, <4>7 DEF r
      <4>10. r <= Cardinality(Units(g, h))
          BY <2>7, <4>3, <4>4, <4>5, <4>8, <4>9
      <4>11. QED
          BY <2>4, <4>10 DEF r
    <3>5. QED
        BY <2>1, <3>2, <3>3, <3>4
  <2>12. CASE UNCHANGED vars
    <3>1. g = F /\ h = B /\ UNCHANGED << quantum, counter >>
        BY <2>2, <2>3, <2>12 DEF vars
    <3>2. QED
        BY <2>8, <3>1
  <2>13. QED
      BY <1>1, <2>9, <2>10, <2>11, <2>12 DEF Next, Terminated
<1>2. IInv /\ [Next]_vars =>
         (quantum * counter <= TotalFound /\ NoWrap => quantum' * counter' <= TotalFound')
    BY <1>1
<1>3. QED
    BY <1>2, IInvariant, PTL DEF Spec, AverageNeverAboveMean
=============================================================================
