----------------------------- MODULE MCHashMap ------------------------------
(* Small instances of HashMap for TLC. *)
EXTENDS HashMap

CONSTANTS u1, u2, k1, k2, k3, v1, v2
TwoUsers == {u1, u2}
ThreeKeys == {k1, k2, k3}
TwoValues == {v1, v2}
AllTypes == {"STRING", "ONE_WORD", "ARRAY"}
\* In a table of two buckets all are in one chain; of eight, k1 and k3 are.
CollidingHash == k1 :> 0 @@ k2 :> 2 @@ k3 :> 8
\* The same integers in another order collide in every table.
CollidingInts == k1 :> <<4, 1>> @@ k2 :> <<1, 4>> @@ k3 :> <<16>>
Symmetry == Permutations(TwoUsers) \cup Permutations(TwoValues)
=============================================================================
