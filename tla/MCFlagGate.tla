----------------------------- MODULE MCFlagGate -----------------------------
(* Small instances of FlagGate for TLC. *)
EXTENDS FlagGate, TLC

Both == {"gen2", "gen3"}
AxeFx2 == {"gen2"}

Symmetric == Permutations(Call) \cup Permutations(Loc)
=============================================================================
