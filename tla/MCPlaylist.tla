----------------------------- MODULE MCPlaylist -----------------------------
(***************************************************************************)
(* Four requests, enough for two singers with two songs or three with one  *)
(* song more than turns, and three singers, one of whom comes late.        *)
(***************************************************************************)
EXTENDS Playlist

MCSymmetry == Permutations(Items) \cup Permutations(Singers)
=============================================================================
