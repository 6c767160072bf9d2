----------------------------- MODULE KvFlashMap -----------------------------
(* How the flash store implements the durable map of KvMap.                  *)
EXTENDS KvFlash

\* The refinement mapping.  Between the beginning of a call and its index update the
\* call is pending; a wipe takes effect when it begins; without power the map is
\* what a reboot should find.
Appending == pc \in {"ready", "program", "prewarm", "index"}
Powered == pc \notin {"off", "scan"}

MapValue == [k \in Keys |-> IF ~Powered \/ pc = "wipe" THEN store[k] ELSE Get(k)]
MapCall == IF Appending THEN <<op.key, op.val>> ELSE <<Gone, Gone>>

Map == INSTANCE KvMap WITH map <- MapValue, call <- MapCall, up <- Powered

\* The flash store implements the durable map: every call takes effect exactly when
\* the index is updated, an interrupted call happens entirely or not at all, and a
\* power cut changes nothing else except for keys that were ever deleted.
ImplementsMap == Map!Spec

=============================================================================
