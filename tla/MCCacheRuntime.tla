--------------------------- MODULE MCCacheRuntime ---------------------------
(***************************************************************************)
(* Instances of CacheRuntime.  Each configuration issues the commands of   *)
(* one kind of caller: the retries of the Host, the synchronisation of the *)
(* pump, and the interface that cancels, clears and stops.                 *)
(***************************************************************************)
EXTENDS CacheRuntime

Symmetry == Permutations(Items)
=============================================================================
