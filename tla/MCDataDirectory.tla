------------------------- MODULE MCDataDirectory -------------------------
(***************************************************************************)
(* Three libraries that share pieces: an empty one, one of the Host and    *)
(* one that is imported.                                                   *)
(***************************************************************************)
EXTENDS DataDirectory

CONSTANTS empty, mine, theirs, x, y, z

MCPiecesOf ==
  [s \in {empty, mine, theirs} |->
     CASE s = empty -> {x} [] s = mine -> {x, y} [] s = theirs -> {y, z}]
=============================================================================
