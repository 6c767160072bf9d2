----------------------------- MODULE MCWalRing -----------------------------
(* The model-checking instance of WalRing: its keys and slots are model values *)
(* that walring.cfg declares.                                                  *)
EXTENDS WalRing, TLC

CONSTANTS k1, s1, s2

OneKey   == {k1}
TwoSlots == {s1, s2}

=============================================================================
