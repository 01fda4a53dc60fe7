------------------------------ MODULE SplitLoop ------------------------------
(***************************************************************************)
(* The loop of splitRequestMap, one step per key of the map.  The loop     *)
(* indexes the slices with a counter it never checks; that the counter     *)
(* stays in bounds, and that the loop computes what Splits promises to     *)
(* GameServer, is what this module is about.                               *)
(***************************************************************************)
EXTENDS RequestSplit, Sequences

CONSTANTS
    Key,        \* session ids that may be pending
    Desired     \* values of desiredSlices to consider

ASSUME KeyAssumption == IsFiniteSet(Key)
ASSUME DesiredAssumption == Desired \subseteq Int

VARIABLES
    reqMap,         \* the keys of the map to split
    desiredSlices,
    left,           \* keys the range loop has not visited
    slices,         \* slices[i]: the keys of slice i, from 0 as in Go
    slicesIdx,
    mapSliceIdx

vars == <<reqMap, desiredSlices, left, slices, slicesIdx, mapSliceIdx>>

size == SliceSize(Cardinality(reqMap), desiredSlices)

\* With nothing to fill the function returns before the loop.
Init ==
    /\ reqMap \in SUBSET Key
    /\ desiredSlices \in Desired
    /\ left = IF desiredSlices <= 0 THEN {} ELSE reqMap
    /\ slices = [i \in 0 .. desiredSlices - 1 |-> {}]
    /\ slicesIdx = 0
    /\ mapSliceIdx = 0

\* Mutated: a slice is left one key late.
AdvanceLate ==
    IF mapSliceIdx >= size
    THEN slicesIdx' = slicesIdx + 1 /\ mapSliceIdx' = 0
    ELSE slicesIdx' = slicesIdx /\ mapSliceIdx' = mapSliceIdx + 1

\* When a slice has its share the next one is filled.
Advance ==
    IF mapSliceIdx + 1 >= size
    THEN slicesIdx' = slicesIdx + 1 /\ mapSliceIdx' = 0
    ELSE slicesIdx' = slicesIdx /\ mapSliceIdx' = mapSliceIdx + 1

\* The index is not checked: out of bounds it panics, and the loop is stuck.
Visit(k) ==
    /\ k \in left
    /\ slicesIdx \in DOMAIN slices
    /\ slices' = [slices EXCEPT ![slicesIdx] = @ \cup {k}]
    /\ left' = left \ {k}
    /\ Advance
    /\ UNCHANGED <<reqMap, desiredSlices>>

Next == \E k \in Key : Visit(k)

Spec == Init /\ [][Next]_vars

-----------------------------------------------------------------------------
TypeOK ==
    /\ reqMap \in SUBSET Key
    /\ desiredSlices \in Desired
    /\ left \in SUBSET reqMap
    /\ slices \in [0 .. desiredSlices - 1 -> SUBSET reqMap]
    /\ slicesIdx \in Nat
    /\ mapSliceIdx \in Nat

\* While there is a key to place, the slice it goes to exists: the server
\* does not panic whatever the number of pending requests and of workers.
IndexInBounds == left # {} => slicesIdx \in DOMAIN slices

\* The loop returns one of the partitions GameServer dispatches, and with no
\* slice none.
Result == [i \in 1 .. Cardinality(DOMAIN slices) |-> slices[i - 1]]

ResultIsSplit == left = {} => Result \in Splits(reqMap, desiredSlices)

-----------------------------------------------------------------------------
(* The inductive invariant: the slices before slicesIdx are full, the one   *)
(* at slicesIdx holds mapSliceIdx keys, those after it none.                *)

Placed == UNION {slices[i] : i \in DOMAIN slices}

Filled(i) ==
    IF i < slicesIdx THEN size ELSE IF i = slicesIdx THEN mapSliceIdx ELSE 0

Partial ==
    desiredSlices > 0 =>
        /\ Placed = reqMap \ left
        /\ size > 0 => mapSliceIdx < size
        /\ slicesIdx * size + mapSliceIdx = Cardinality(reqMap) - Cardinality(left)

Idle == desiredSlices <= 0 => left = {}

\* Every slice holds what the loop has put there so far.
SliceCards ==
    \A i \in DOMAIN slices : Cardinality(slices[i]) = Filled(i)

Disjoint ==
    \A i, j \in DOMAIN slices : i # j => slices[i] \cap slices[j] = {}

\* At every step each slice holds what its place gives it, and what is placed
\* or left is what there was: the two counters of the loop agree with the
\* slices, also when the last slices stay empty.
IInv == TypeOK /\ Idle /\ Partial /\ SliceCards /\ Disjoint

=============================================================================
