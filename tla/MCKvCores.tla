----------------------------- MODULE MCKvCores -----------------------------
(* Model-checking instances of KvCores: keys in their order, and who writes.   *)
EXTENDS KvCores, TLC

ThreeKeys == {1, 2, 3}
Core1     == {1}
BothCores == {0, 1}

=============================================================================
