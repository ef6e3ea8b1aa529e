------------------------- MODULE MCDesktopUpdate -------------------------
(***************************************************************************)
(* A check, an installation that is cancelled, a check and an installation *)
(* that is handed over; one new session.                                   *)
(***************************************************************************)
EXTENDS DesktopUpdate
=============================================================================
