------------------------- MODULE RequestSplitProofs -------------------------
(***************************************************************************)
(* Facts about the sizes of the slices, for every number of requests and   *)
(* of workers.  They are cited by the proofs about the loop and about the  *)
(* gameserver.                                                             *)
(***************************************************************************)
EXTENDS RequestSplit, FiniteSetTheorems, TLAPS

\* Products of naturals respect the order; the solver needs it said.
LEMMA MulMonotone ==
    ASSUME NEW a \in Nat, NEW b \in Nat, NEW s \in Nat, a <= b
    PROVE  a * s <= b * s
<1>1. PICK c \in Nat : b = a + c
  <2>1. b - a \in Nat /\ b = a + (b - a)
    OBVIOUS
  <2> QED
    BY <2>1
<1>2. b * s = a * s + c * s
  BY <1>1
<1>3. c * s \in Nat /\ a * s \in Nat
  OBVIOUS
<1> QED
  BY <1>2, <1>3

\* The quotient and the remainder of a rounded-up division.
LEMMA CeilDivSpec ==
    ASSUME NEW a \in Nat, NEW b \in Nat \ {0}
    PROVE  /\ CeilDiv(a, b) \in Nat
           /\ a <= CeilDiv(a, b) * b
           /\ CeilDiv(a, b) * b < a + b
<1> DEFINE q == (a + b - 1) \div b
           r == (a + b - 1) % b
<1>1. a + b - 1 \in Nat /\ b \in Nat /\ b > 0
  OBVIOUS
<1>2. q \in Nat /\ r \in 0 .. b - 1 /\ a + b - 1 = b * q + r
  BY <1>1
<1>3. b * q = q * b /\ q * b \in Nat
  BY <1>1, <1>2
<1>4. a <= q * b /\ q * b < a + b
  BY <1>1, <1>2, <1>3
<1> QED
  BY <1>2, <1>4 DEF CeilDiv

\* The slices have room for every request.
LEMMA SlicesSuffice ==
    ASSUME NEW n \in Nat, NEW d \in Nat \ {0}
    PROVE  SliceSize(n, d) \in Nat /\ n <= d * SliceSize(n, d)
BY CeilDivSpec DEF SliceSize

\* With the workers counted for the requests they get, no worker gets more
\* than RequestPerWorker of them (AdjustWorkers and splitRequestMap agree).
THEOREM ShareOfWorker ==
    ASSUME NEW n \in Nat, NEW r \in Nat \ {0}
    PROVE  SliceSize(n, WorkerCount(n, r)) <= r \/ n = 0
<1> SUFFICES ASSUME n # 0
             PROVE  SliceSize(n, WorkerCount(n, r)) <= r
  OBVIOUS
<1> DEFINE d == WorkerCount(n, r)
           z == SliceSize(n, d)
<1>1. d \in Nat /\ n <= d * r
  BY CeilDivSpec DEF WorkerCount
<1>2. d # 0
  BY <1>1
<1>3. z \in Nat /\ z * d < n + d
  BY <1>1, <1>2, CeilDivSpec DEF SliceSize
<1>4. SUFFICES ASSUME z >= r + 1
               PROVE  FALSE
  BY <1>3
<1>5. (r + 1) * d <= z * d
  BY <1>1, <1>3, <1>4, MulMonotone
<1>6. (r + 1) * d = d * r + d
  BY <1>1
<1>7. d * r \in Nat /\ z * d \in Nat /\ (r + 1) * d \in Nat
  BY <1>1, <1>3
<1> HIDE DEF d, z
<1> QED
  BY <1>1, <1>3, <1>5, <1>6, <1>7
=============================================================================
