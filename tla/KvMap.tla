-------------------------------- MODULE KvMap --------------------------------
(***************************************************************************)
(* What the flash store promises its callers: a map from keys to values on *)
(* which one call at a time takes effect, that survives power cuts, and in *)
(* which only the call a cut interrupts may or may not have happened.  A   *)
(* key that was ever deleted (or that an unfinished wipe caught) may come  *)
(* back from a reboot with any value.                                      *)
(***************************************************************************)
CONSTANTS Keys, Vals, Gone

VARIABLES map,      \* key -> what a reader gets
          call,     \* the call begun and not yet in effect, or NoCall
          fuzzy,    \* the keys whose fate a reboot decides
          up        \* power is on and recovery is over

mapVars == <<map, call, fuzzy, up>>

NoCall == <<Gone, Gone>>

Init ==
    /\ map = [k \in Keys |-> Gone] /\ call = NoCall
    /\ fuzzy = {} /\ up = FALSE

Invoke(k, v) ==
    /\ up /\ call = NoCall
    /\ call' = <<k, v>>
    /\ fuzzy' = IF v = Gone THEN fuzzy \cup {k} ELSE fuzzy
    /\ UNCHANGED <<map, up>>

Effect == [map EXCEPT ![call[1]] = call[2]]

Apply ==
    /\ call # NoCall
    /\ map' = Effect /\ call' = NoCall
    /\ UNCHANGED <<fuzzy, up>>

Wipe ==
    /\ up /\ call = NoCall
    /\ map' = [k \in Keys |-> Gone] /\ fuzzy' = Keys
    /\ UNCHANGED <<call, up>>

\* The wipe is complete: nothing is left that a reboot could bring back.
WipeDone ==
    /\ up /\ call = NoCall /\ map = [k \in Keys |-> Gone]
    /\ fuzzy' = {}
    /\ UNCHANGED <<map, call, up>>

PowerCut ==
    /\ up' = FALSE /\ call' = NoCall
    /\ \/ map' = map
       \/ call # NoCall /\ map' = Effect
    /\ UNCHANGED fuzzy

Reboot ==
    /\ ~up /\ up' = TRUE
    /\ map' \in [Keys -> Vals \cup {Gone}]
    /\ \A k \in Keys \ fuzzy : map'[k] = map[k]
    /\ UNCHANGED <<call, fuzzy>>

Next ==
    \/ \E k \in Keys, v \in Vals \cup {Gone} : Invoke(k, v)
    \/ Apply \/ Wipe \/ WipeDone \/ PowerCut \/ Reboot

Spec == Init /\ [][Next]_mapVars

=============================================================================
