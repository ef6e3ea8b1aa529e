--------------------------- MODULE MCRequestGate ---------------------------
(***************************************************************************)
(* Three threads and two keys: two threads on one key with a third behind  *)
(* them, or two flights at once with a caller in the queue.                *)
(***************************************************************************)
EXTENDS RequestGate
=============================================================================
