---------------------------- MODULE MCFileUpload ----------------------------
(* Small instances of FileUpload for TLC: what is uploaded. *)
EXTENDS FileUpload

Everything == Kinds
Projects == {"project"}
=============================================================================
