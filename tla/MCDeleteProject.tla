--------------------------- MODULE MCDeleteProject ---------------------------
(* Small instances of DeleteProject for TLC. *)
EXTENDS DeleteProject, TLC

Symmetric == Permutations(Slot)
=============================================================================
