------------------------- MODULE MCGraphStoreCrash --------------------------
(***************************************************************************)
(* GraphStoreFailures with the instances of MCGraphStore.                  *)
(***************************************************************************)
EXTENDS MCGraphStore, GraphStoreFailures
=============================================================================
