---------------------------- MODULE RequestSplit ----------------------------
(***************************************************************************)
(* The two computations by which the response scheduler shares the pending *)
(* session requests among its workers: how many workers it wants, and what *)
(* splitRequestMap may return.  Go iterates a map in an unspecified order, *)
(* so the result of a split is one of a set of partitions, and only the    *)
(* sizes of the slices are determined.                                     *)
(***************************************************************************)
EXTENDS Integers, FiniteSets

CeilDiv(a, b) == (a + b - 1) \div b

\* Workers wanted for n pending requests, r requests per worker.
WorkerCount(n, r) == CeilDiv(n, r)

\* Mutated: the division rounds down.
SliceSizeFloor(n, d) == n \div d

\* Requests per slice when n requests are shared among d > 0 slices.
SliceSize(n, d) == CeilDiv(n, d)

\* What is left for slice i once the slices before it are full.
Clamp(x, hi) == IF x < 0 THEN 0 ELSE IF x > hi THEN hi ELSE x
SliceLen(n, d, i) ==
    Clamp(n - (i - 1) * SliceSize(n, d), SliceSize(n, d))

(***************************************************************************)
(* Every result splitRequestMap can return for the requests of the         *)
(* sessions K and d desired slices: slices filled in order, all sessions   *)
(* in exactly one of them.  With no slice to fill nothing is returned,     *)
(* whatever is pending.                                                    *)
(***************************************************************************)
Splits(K, d) ==
    IF d <= 0 THEN {<< >>}
    ELSE {f \in [1..d -> SUBSET K] :
             /\ UNION {f[i] : i \in 1..d} = K
             /\ \A i, j \in 1..d : i # j => f[i] \cap f[j] = {}
             /\ \A i \in 1..d :
                   Cardinality(f[i]) = SliceLen(Cardinality(K), d, i)}
=============================================================================
