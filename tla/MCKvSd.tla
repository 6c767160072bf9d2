------------------------------- MODULE MCKvSd -------------------------------
(* Model-checking instances of KvSd.  Key 1 has two buckets; key 2 has the    *)
(* first of them only, and loses it when key 1 is there.                     *)
EXTENDS KvSd, TLC

Two == 0 .. 1
First0 == [k \in Keys |-> 0]
Second1 == [k \in Keys |-> IF k = 1 THEN 1 ELSE 0]

Symmetric == Permutations(Vals)

=============================================================================
