--------------------------- MODULE MCChannelMemory ---------------------------
(* Small instances of ChannelMemory for TLC. *)
EXTENDS ChannelMemory, TLC

Symmetric == Permutations(Call) \cup Permutations(Channel)
=============================================================================
