-------------------------- MODULE MCPlayerControl --------------------------
(***************************************************************************)
(* One song that starts over, so that only its generation tells a stale    *)
(* command; three commands, a queue of two, and two frames on their way:   *)
(* an old frame overtakes a new one, an acknowledgement outlives its       *)
(* command.                                                                *)
(***************************************************************************)
EXTENDS PlayerControl
=============================================================================
