------------------------ MODULE MCRemoteIdentities ------------------------
(* Two names, a phone, a page of the Host and a peer that connects twice.  Names *)
(* are compared only, so that they are symmetric.                                *)
EXTENDS RemoteIdentities, TLC

NameSymmetry == Permutations(Names)
=============================================================================
