------------------------ MODULE MCArtifactLifetime ------------------------
(***************************************************************************)
(* One song with two attempts, one player, one reader handle and two       *)
(* owners of the lifetime: enough for a refresh under a mounted program, a *)
(* removal and re-request under a reader, a Ready event delivered twice,   *)
(* and an executor or a deletion that outlives the owner it began under.   *)
(***************************************************************************)
EXTENDS ArtifactLifetime
=============================================================================
