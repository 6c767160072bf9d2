----------------------------- MODULE MCKvFlash -----------------------------
(* Model-checking instances of KvFlash and of its refinement of KvMap.       *)
EXTENDS KvFlashMap, TLC

SmallTears == {"header", "payload", "dead"}
AllTears == SmallTears \cup {"record", "commit", "erase"}

Symmetric == Permutations(Keys) \cup Permutations(Vals)

=============================================================================
