--------------------------- MODULE SplitLoopProofs ---------------------------
(***************************************************************************)
(* The loop of splitRequestMap never indexes past its slices and returns a *)
(* partition with the promised sizes, for every map and every number of    *)
(* slices.                                                                 *)
(***************************************************************************)
EXTENDS SplitLoop, RequestSplitProofs

USE KeyAssumption, DesiredAssumption

LEMMA SubsetsFinite ==
    ASSUME NEW S \in SUBSET Key
    PROVE  IsFiniteSet(S) /\ Cardinality(S) \in Nat
BY FS_Subset, FS_CardinalityType

LEMMA SizeType ==
    ASSUME TypeOK, desiredSlices > 0
    PROVE  /\ size \in Nat
           /\ Cardinality(reqMap) \in Nat
           /\ Cardinality(reqMap) <= desiredSlices * size
<1>1. Cardinality(reqMap) \in Nat
  BY SubsetsFinite DEF TypeOK
<1>2. desiredSlices \in Nat \ {0}
  BY DEF TypeOK
<1> QED
  BY <1>1, <1>2, SlicesSuffice DEF size

\* As long as a key is left, fewer than size * desiredSlices are placed.
LEMMA BoundsLemma ==
    ASSUME IInv
    PROVE  IndexInBounds
<1> USE DEF IInv
<1> SUFFICES ASSUME left # {}
             PROVE  slicesIdx \in DOMAIN slices
  BY DEF IndexInBounds
<1>1. desiredSlices \in Nat /\ desiredSlices > 0
  BY DEF Idle, TypeOK
<1> DEFINE z == size
           n == Cardinality(reqMap)
           l == Cardinality(left)
<1>2. l \in Nat /\ l # 0
  <2>1. IsFiniteSet(left) /\ Cardinality(left) \in Nat
    BY SubsetsFinite DEF TypeOK
  <2> QED
    BY <2>1, FS_EmptySet
<1>3. z \in Nat /\ n \in Nat /\ n <= desiredSlices * z
  BY <1>1, SizeType
<1>4. slicesIdx * z + mapSliceIdx = n - l
  BY <1>1 DEF Partial
<1>5. slicesIdx \in Nat /\ mapSliceIdx \in Nat
  BY DEF TypeOK
<1>6. ~(desiredSlices <= slicesIdx)
  <2> SUFFICES ASSUME desiredSlices <= slicesIdx
               PROVE  FALSE
    OBVIOUS
  <2> HIDE DEF z, n, l
  <2>1. desiredSlices * z <= slicesIdx * z
    BY <1>1, <1>3, <1>5, MulMonotone
  <2>2. slicesIdx * z \in Nat /\ desiredSlices * z \in Nat
    BY <1>1, <1>3, <1>5
  <2> QED
    BY <1>2, <1>3, <1>4, <1>5, <2>1, <2>2
<1>7. DOMAIN slices = 0 .. desiredSlices - 1
  BY DEF TypeOK
<1> QED
  BY <1>1, <1>5, <1>6, <1>7

LEMMA InitIInv == Init => IInv
<1> SUFFICES ASSUME Init
             PROVE  IInv
  OBVIOUS
<1> USE DEF Init
<1>1. TypeOK
  BY DEF TypeOK
<1>2. Idle
  BY DEF Idle
<1>3. Partial
  <2> SUFFICES ASSUME desiredSlices > 0
               PROVE  /\ Placed = reqMap \ left
                      /\ size > 0 => mapSliceIdx < size
                      /\ slicesIdx * size + mapSliceIdx
                           = Cardinality(reqMap) - Cardinality(left)
    BY DEF Partial
  <2>1. left = reqMap
    BY DesiredAssumption
  <2>2. Placed = {}
    BY DEF Placed
  <2>3. size \in Nat /\ Cardinality(reqMap) \in Nat
    BY <1>1, SizeType
  <2> HIDE DEF Init
  <2>4. slicesIdx = 0 /\ mapSliceIdx = 0
    BY DEF Init
  <2>5. 0 * size = 0
    BY <2>3
  <2> QED
    BY <2>1, <2>2, <2>3, <2>4, <2>5
<1>4. SliceCards
  <2>1. \A i \in DOMAIN slices : slices[i] = {} /\ i \in Nat
    BY DesiredAssumption
  <2>2. \A i \in DOMAIN slices : Filled(i) = 0
    BY <2>1 DEF Filled
  <2> QED
    BY <2>1, <2>2, FS_EmptySet DEF SliceCards
<1>5. Disjoint
  BY DEF Disjoint
<1> QED
  BY <1>1, <1>2, <1>3, <1>4, <1>5 DEF IInv

\* The step that matters: one more key in the slice slicesIdx.
LEMMA VisitIInv ==
    ASSUME IInv, NEW k \in Key, Visit(k)
    PROVE  IInv'
<1> USE DEF IInv
<1> DEFINE z == size
           n == Cardinality(reqMap)
           l == Cardinality(left)
<1>1. desiredSlices \in Nat /\ desiredSlices > 0
  BY DEF Idle, TypeOK, Visit
<1>2. /\ size' = size
      /\ reqMap' = reqMap
      /\ desiredSlices' = desiredSlices
  BY DEF Visit, size
<1>3. z \in Nat /\ n \in Nat
  BY <1>1, SizeType
<1>4. /\ slicesIdx \in Nat /\ mapSliceIdx \in Nat
      /\ slicesIdx \in DOMAIN slices
      /\ DOMAIN slices = 0 .. desiredSlices - 1
      /\ DOMAIN slices' = DOMAIN slices
  BY DEF TypeOK, Visit
<1>5. /\ l \in Nat
      /\ Cardinality(left') = l - 1
  <2>1. IsFiniteSet(left) /\ l \in Nat
    BY SubsetsFinite DEF TypeOK
  <2> QED
    BY <2>1, FS_RemoveElement DEF Visit
<1>6. slicesIdx * z + mapSliceIdx = n - l /\ Placed = reqMap \ left
  BY <1>1 DEF Partial
<1>7. z > 0 /\ mapSliceIdx < z
  <2>1. l # 0
    BY SubsetsFinite, FS_EmptySet DEF TypeOK, Visit
  <2>2. n <= desiredSlices * z
    BY <1>1, SizeType
  <2>3. l <= n
    BY SubsetsFinite, FS_Subset DEF TypeOK
  <2>4. z # 0
    <3> SUFFICES ASSUME z = 0 PROVE FALSE
      OBVIOUS
    <3>1. desiredSlices * z = 0
      BY <1>1
    <3> HIDE DEF z, n, l
    <3> QED
      BY <1>3, <1>5, <2>1, <2>2, <2>3, <3>1
  <2> QED
    BY <1>1, <1>3, <2>4 DEF Partial
<1>8. \/ /\ mapSliceIdx + 1 = z
         /\ slicesIdx' = slicesIdx + 1
         /\ mapSliceIdx' = 0
      \/ /\ mapSliceIdx + 1 < z
         /\ slicesIdx' = slicesIdx
         /\ mapSliceIdx' = mapSliceIdx + 1
  BY <1>3, <1>4, <1>7 DEF Visit, Advance
<1>9. TypeOK'
  <2>1. slices[slicesIdx] \cup {k} \in SUBSET reqMap
    BY <1>4 DEF TypeOK, Visit
  <2>2. slices' \in [0 .. desiredSlices - 1 -> SUBSET reqMap]
    BY <2>1 DEF TypeOK, Visit
  <2>3. slicesIdx' \in Nat /\ mapSliceIdx' \in Nat
    BY <1>4, <1>8
  <2> QED
    BY <1>2, <2>2, <2>3 DEF TypeOK, Visit
<1>10. Idle'
  BY <1>1, <1>2 DEF Idle
<1>11. Partial'
  <2>1. Placed' = Placed \cup {k}
    BY <1>4 DEF Placed, Visit, TypeOK
  <2>2. Placed' = reqMap' \ left'
    BY <1>2, <1>6, <2>1 DEF Visit, TypeOK
  <2>3. slicesIdx' * z + mapSliceIdx' = slicesIdx * z + mapSliceIdx + 1
    <3> HIDE DEF z
    <3>1. CASE mapSliceIdx + 1 = z /\ slicesIdx' = slicesIdx + 1 /\ mapSliceIdx' = 0
      <4>1. (slicesIdx + 1) * z = slicesIdx * z + z
        BY <1>3, <1>4
      <4>2. slicesIdx * z \in Nat
        BY <1>3, <1>4
      <4> QED
        BY <1>3, <1>4, <3>1, <4>1, <4>2
    <3>2. CASE mapSliceIdx + 1 < z /\ slicesIdx' = slicesIdx
                 /\ mapSliceIdx' = mapSliceIdx + 1
      <4>1. slicesIdx * z \in Nat
        BY <1>3, <1>4
      <4> QED
        BY <1>4, <3>2, <4>1
    <3> QED
      BY <1>8, <3>1, <3>2
  <2>4. size' > 0 => mapSliceIdx' < size'
    BY <1>2, <1>3, <1>4, <1>7, <1>8
  <2>5. slicesIdx' * size' + mapSliceIdx' = Cardinality(reqMap') - Cardinality(left')
    <3> HIDE DEF z, n, l
    <3>1. slicesIdx' * z + mapSliceIdx' = n - (l - 1)
      <4>1. slicesIdx * z \in Nat
        BY <1>3, <1>4
      <4> QED
        BY <1>3, <1>4, <1>5, <1>6, <2>3, <4>1
    <3> QED
      BY <1>2, <1>5, <3>1 DEF z, n
  <2> QED
    BY <2>2, <2>4, <2>5 DEF Partial
<1>12. SliceCards'
  <2> SUFFICES ASSUME NEW i \in DOMAIN slices
               PROVE  Cardinality(slices'[i]) = Filled(i)'
    BY <1>4 DEF SliceCards
  <2>1. i \in Nat
    BY <1>1, <1>4
  <2>2. Cardinality(slices[i]) = Filled(i)
    BY DEF SliceCards
  <2>3. CASE i = slicesIdx
    <3>1. IsFiniteSet(slices[i]) /\ Cardinality(slices[i]) = mapSliceIdx
      BY <1>4, <2>2, <2>3, SubsetsFinite DEF TypeOK, Filled
    <3>2. k \notin slices[i]
      BY <1>4, <1>6 DEF Placed, Visit
    <3>3. slices'[i] = slices[i] \cup {k}
      BY <1>4, <2>3 DEF Visit, TypeOK
    <3>4. Cardinality(slices'[i]) = mapSliceIdx + 1
      BY <3>1, <3>2, <3>3, FS_AddElement
    <3>5. Filled(i)' = mapSliceIdx + 1
      <4>1. Filled(i)' = IF i < slicesIdx' THEN size
                         ELSE IF i = slicesIdx' THEN mapSliceIdx' ELSE 0
        BY <1>2 DEF Filled
      <4>2. CASE mapSliceIdx + 1 = z /\ slicesIdx' = slicesIdx + 1
        <5>1. i < slicesIdx'
          BY <1>4, <2>3, <4>2
        <5>2. Filled(i)' = size
          BY <4>1, <5>1
        <5> QED
          BY <4>2, <5>2
      <4>3. CASE slicesIdx' = slicesIdx /\ mapSliceIdx' = mapSliceIdx + 1
        <5>1. ~(i < slicesIdx') /\ i = slicesIdx'
          BY <1>4, <2>3, <4>3
        <5>2. Filled(i)' = mapSliceIdx'
          BY <4>1, <5>1
        <5> QED
          BY <4>3, <5>2
      <4> QED
        BY <1>8, <4>2, <4>3
    <3> QED
      BY <3>4, <3>5
  <2>4. CASE i # slicesIdx
    <3>1. slices'[i] = slices[i]
      BY <1>4, <2>4 DEF Visit, TypeOK
    <3>2. Filled(i)' = Filled(i)
      BY <1>2, <1>4, <1>8, <2>1, <2>4 DEF Filled
    <3> QED
      BY <2>2, <3>1, <3>2
  <2> QED
    BY <2>3, <2>4
<1>13. Disjoint'
  <2>1. slices' = [slices EXCEPT ![slicesIdx] = @ \cup {k}]
    BY DEF Visit
  <2>2. \A i \in DOMAIN slices : k \notin slices[i]
    BY <1>6 DEF Placed, Visit
  <2>3. \A i \in DOMAIN slices :
          slices'[i] = IF i = slicesIdx THEN slices[i] \cup {k} ELSE slices[i]
    BY <1>4, <2>1 DEF TypeOK
  <2> QED
    BY <1>4, <2>2, <2>3 DEF Disjoint
<1> QED
  BY <1>9, <1>10, <1>11, <1>12, <1>13

\* The two counters of the loop agree with the slices at every step: what
\* keeps the unchecked index in bounds.
THEOREM LoopIsInvariant == Spec => []IInv
<1>1. Init => IInv
  BY InitIInv
<1>2. IInv /\ [Next]_vars => IInv'
  <2> SUFFICES ASSUME IInv, [Next]_vars
               PROVE  IInv'
    OBVIOUS
  <2>1. CASE Next
    BY <2>1, VisitIInv DEF Next
  <2>2. CASE UNCHANGED vars
    BY <2>2 DEF vars, IInv, TypeOK, Idle, Partial, SliceCards, Filled, Placed, size,
       Disjoint
  <2> QED
    BY <2>1, <2>2
<1> QED
  BY <1>1, <1>2, PTL DEF Spec

\* The index of the loop stays in bounds.
THEOREM SplitInBounds == Spec => []IndexInBounds
<1>1. IInv => IndexInBounds
  BY BoundsLemma
<1> QED
  BY <1>1, LoopIsInvariant, PTL

\* What splitRequestMap returns is a partition GameServer may dispatch.
LEMMA ResultLemma ==
    ASSUME IInv
    PROVE  ResultIsSplit
<1> USE DEF IInv
<1> SUFFICES ASSUME left = {}
             PROVE  Result \in Splits(reqMap, desiredSlices)
  BY DEF ResultIsSplit
<1>1. DOMAIN slices = 0 .. desiredSlices - 1 /\ desiredSlices \in Int
  BY DEF TypeOK
<1>2. Cardinality(DOMAIN slices) = IF desiredSlices <= 0 THEN 0 ELSE desiredSlices
  BY <1>1, FS_Interval
<1>3. CASE desiredSlices <= 0
  <2>1. Result = << >>
    BY <1>2, <1>3 DEF Result
  <2> QED
    BY <1>3, <2>1 DEF Splits
<1>4. CASE desiredSlices > 0
  <2> DEFINE n == Cardinality(reqMap)
  <2>1. size \in Nat /\ n \in Nat /\ n <= desiredSlices * size
    BY <1>4, SizeType
  <2>2. /\ Placed = reqMap
        /\ slicesIdx * size + mapSliceIdx = n
        /\ size > 0 => mapSliceIdx < size
        /\ slicesIdx \in Nat /\ mapSliceIdx \in Nat
    <3>1. Placed = reqMap /\ slicesIdx \in Nat /\ mapSliceIdx \in Nat
      BY <1>4 DEF Partial, TypeOK
    <3>2. slicesIdx * size + mapSliceIdx = n - 0
      BY <1>4, FS_EmptySet DEF Partial
    <3> QED
      BY <1>4, <2>1, <3>1, <3>2 DEF Partial
  <2>3. Result = [i \in 1 .. desiredSlices |-> slices[i - 1]]
    BY <1>1, <1>2, <1>4 DEF Result
  <2>4. Result \in [1 .. desiredSlices -> SUBSET reqMap]
    BY <1>1, <2>3 DEF TypeOK
  <2>5. UNION {Result[i] : i \in 1 .. desiredSlices} = reqMap
    <3>1. \A j \in DOMAIN slices : j + 1 \in 1 .. desiredSlices
                                  /\ Result[j + 1] = slices[j]
      BY <1>1, <2>3
    <3>2. \A i \in 1 .. desiredSlices : i - 1 \in DOMAIN slices
                                  /\ Result[i] = slices[i - 1]
      BY <1>1, <2>3
    <3>3. Placed = UNION {Result[i] : i \in 1 .. desiredSlices}
      BY <3>1, <3>2 DEF Placed
    <3> QED
      BY <2>2, <3>3
  <2>6. ASSUME NEW i \in 1 .. desiredSlices
        PROVE  Cardinality(Result[i]) = SliceLen(n, desiredSlices, i)
    <3>1. i - 1 \in DOMAIN slices /\ i - 1 \in Nat /\ Result[i] = slices[i - 1]
      BY <1>1, <2>3
    <3>2. Cardinality(Result[i]) = Filled(i - 1)
      BY <3>1 DEF SliceCards
    <3>3. Clamp(n - (i - 1) * size, size) = Filled(i - 1)
      <4> DEFINE z == size
                 j == i - 1
                 q == slicesIdx
                 m == mapSliceIdx
      <4>1. /\ n \in Nat /\ z \in Nat /\ q \in Nat /\ m \in Nat /\ j \in Nat
            /\ q * z + m = n
            /\ z > 0 => m < z
        BY <2>1, <2>2, <3>1
      <4>2. z = 0 => n = 0
        BY <1>4, <1>1, <2>1
      <4>3. Filled(j) = IF j < q THEN z ELSE IF j = q THEN m ELSE 0
        BY DEF Filled
      <4> HIDE DEF n, z, j, q, m
      <4>4. j * z \in Nat /\ q * z \in Nat
        BY <4>1
      <4>5. CASE j < q
        <5>1. (j + 1) * z <= q * z
          BY <4>1, <4>5, MulMonotone
        <5>2. (j + 1) * z = j * z + z
          BY <4>1
        <5>3. n - j * z >= z
          BY <4>1, <4>4, <5>1, <5>2
        <5>4. Clamp(n - j * z, z) = z
          BY <4>1, <4>4, <5>3 DEF Clamp
        <5> QED
          BY <4>3, <4>5, <5>4 DEF j, z
      <4>6. CASE j = q
        <5>1. n - j * z = m
          BY <4>1, <4>4, <4>6
        <5>2. z = 0 => m = 0
          BY <4>1, <4>2, <4>4
        <5>3. Clamp(m, z) = m
          BY <4>1, <5>2 DEF Clamp
        <5>4. Clamp(n - j * z, z) = m
          BY <5>1, <5>3
        <5>5. Filled(j) = m
          BY <4>1, <4>3, <4>6
        <5> QED
          BY <5>4, <5>5 DEF j, z
      <4>7. CASE j > q
        <5>1. (q + 1) * z <= j * z
          BY <4>1, <4>7, MulMonotone
        <5>2. (q + 1) * z = q * z + z
          BY <4>1
        <5>3. z = 0 => j * z = 0
          BY <4>1
        <5>4. (z = 0 /\ n - j * z = 0) \/ n - j * z < 0
          BY <4>1, <4>2, <4>4, <5>1, <5>2, <5>3
        <5>5. Clamp(n - j * z, z) = 0
          BY <4>1, <4>4, <5>4 DEF Clamp
        <5>6. Filled(j) = 0
          BY <4>1, <4>3, <4>7
        <5> QED
          BY <5>5, <5>6 DEF j, z
      <4> QED
        BY <4>1, <4>5, <4>6, <4>7
    <3> QED
      BY <3>2, <3>3 DEF SliceLen, size
  <2>7. Splits(reqMap, desiredSlices) =
          {f \in [1 .. desiredSlices -> SUBSET reqMap] :
             /\ UNION {f[i] : i \in 1 .. desiredSlices} = reqMap
             /\ \A i, j \in 1 .. desiredSlices :
                   i # j => f[i] \cap f[j] = {}
             /\ \A i \in 1 .. desiredSlices :
                   Cardinality(f[i]) = SliceLen(n, desiredSlices, i)}
    BY <1>1, <1>4 DEF Splits
  <2>8. ASSUME NEW i \in 1 .. desiredSlices, NEW j \in 1 .. desiredSlices, i # j
        PROVE  Result[i] \cap Result[j] = {}
    <3>1. i - 1 \in DOMAIN slices /\ j - 1 \in DOMAIN slices /\ i - 1 # j - 1
      BY <1>1, <2>8
    <3> QED
      BY <2>3, <3>1 DEF Disjoint
  <2> HIDE DEF n
  <2> QED
    BY <2>4, <2>5, <2>6, <2>7, <2>8
<1> QED
  BY <1>1, <1>3, <1>4

\* The loop returns what GameServer assumes of it.
THEOREM SplitCorrect == Spec => []ResultIsSplit
<1>1. IInv => ResultIsSplit
  BY ResultLemma
<1> QED
  BY <1>1, LoopIsInvariant, PTL
=============================================================================
