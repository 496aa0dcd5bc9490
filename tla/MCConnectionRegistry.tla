------------------------ MODULE MCConnectionRegistry ------------------------
(* Small instances of ConnectionRegistry for TLC. *)
EXTENDS ConnectionRegistry, TLC

\* Enough identities for one call to open a handle while every other call and
\* every other endpoint keeps one.
ASSUME Cardinality(Handle) > Cardinality(Op) + Cardinality(Label)

\* A connection that connect() made shows all its signals.
Exposed == [l \in Label |-> AllSignals]

\* Handles, calls and endpoints are interchangeable.
Symmetric == Permutations(Handle) \cup Permutations(Op) \cup Permutations(Label)

\* What an unused identity remembers of its last connection is read by nobody
\* and overwritten when it is opened: states that differ there are the same.
Used(f, zero) == [x \in Handle |-> IF x \in Unused THEN zero ELSE f[x]]
View == <<plugged, inPort, outPort, closed, Used(sendErr, FALSE), Used(slow, FALSE),
          Used(fault, "none"), live, registryVars, opVars, exited,
          Used(missed, 0), Used(resends, 0)>>
=============================================================================
