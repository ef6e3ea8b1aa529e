-------------------------- MODULE MCCacheAttempts --------------------------
(***************************************************************************)
(* Two songs, three attempts: enough for a second attempt on a song, a     *)
(* removal and re-request between them, and the other song current         *)
(* meanwhile.                                                              *)
(***************************************************************************)
EXTENDS CacheAttempts
=============================================================================
