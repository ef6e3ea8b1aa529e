--------------------------- MODULE MCSourceLibrary ---------------------------
(* A small catalog: one uploader and one folder.                            *)
EXTENDS SourceLibrary
=============================================================================
