----------------------------- MODULE MCSafeEdit -----------------------------
(* Small instances of SafeEdit for TLC. *)
EXTENDS SafeEdit, TLC

\* Model values, so that each call can have its kinds.
CONSTANTS c1, c2

\* One call of any kind, and beside it one that edits.
KindsAsked == c1 :> {"edit", "save", "switch", "apply"} @@ c2 :> {"edit"}

Symmetric == Permutations(Loc)
=============================================================================
