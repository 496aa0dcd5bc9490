-------------------------- MODULE MCSerialFacade ---------------------------
(* Small instances of SerialFacade for TLC. *)
EXTENDS SerialFacade, TLC

\* Facades and receivers are interchangeable.
Symmetric == Permutations(Facade) \cup Permutations(Receiver)
=============================================================================
