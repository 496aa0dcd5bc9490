--------------------------- MODULE MidiTransport ---------------------------
(***************************************************************************)
(* The native MIDI handles of packages/core/src/midi/transport.ts: what    *)
(* connect() opens, what send() records on the handle, what close()        *)
(* releases, and who owns the exclusive OS ports in the meantime.          *)
(*                                                                         *)
(* A handle is an identity, drawn from the finite pool Handle.  An         *)
(* identity is used again only when its connection is closed, nobody holds *)
(* a reference to it and no native port still belongs to it, so the pool   *)
(* bounds how many handles exist at once and not how many are opened.      *)
(*                                                                         *)
(* The module has no specification of its own: ConnectionRegistry extends  *)
(* it and composes these operators into the steps of the server.           *)
(***************************************************************************)
EXTENDS FiniteSets

CONSTANTS
    Label,      \* connection labels: one endpoint (device) each
    Handle,     \* identities of MidiConnection objects
    None        \* no handle

ASSUME NoneIsNoHandle == None \notin Handle

VARIABLES
    plugged,    \* plugged[l]: the endpoint's ports are on the bus, free to open
    inPort,     \* inPort[l]: the handle that owns the OS input port of l
    outPort,    \* outPort[l]: the handle that owns the OS output port of l
    closed,     \* closed[x]: close() ran on x (also: x was never opened)
    sendErr,    \* sendErr[x]: lastSendError is set
    slow,       \* slow[x]: the slowSendSuspect latch
    fault,      \* fault[x]: what became of the native port under x
    live        \* liveConnections

transportVars == <<plugged, inPort, outPort, closed, sendErr, slow, fault, live>>

HandleOrNone == Handle \cup {None}

(***************************************************************************)
(* "dead": the device left, isPortOpen() still answers true (the clean     *)
(* Windows replug).  "gone": the device left and isPortOpen() says so.     *)
(* "poisoned": wedged in the middle of a send; isPortOpen() answers true,  *)
(* and closing the input port will raise.                                  *)
(***************************************************************************)
Faults == {"none", "dead", "gone", "poisoned"}

TransportTypeOK ==
    /\ plugged \in [Label -> BOOLEAN]
    /\ inPort \in [Label -> HandleOrNone]
    /\ outPort \in [Label -> HandleOrNone]
    /\ closed \in [Handle -> BOOLEAN]
    /\ sendErr \in [Handle -> BOOLEAN]
    /\ slow \in [Handle -> BOOLEAN]
    /\ fault \in [Handle -> Faults]
    /\ live \in SUBSET Handle

TransportInit ==
    /\ plugged \in [Label -> BOOLEAN]
    /\ inPort = [l \in Label |-> None]
    /\ outPort = [l \in Label |-> None]
    /\ closed = [x \in Handle |-> TRUE]
    /\ sendErr = [x \in Handle |-> FALSE]
    /\ slow = [x \in Handle |-> FALSE]
    /\ fault = [x \in Handle |-> "none"]
    /\ live = {}

-----------------------------------------------------------------------------
(* Reading a handle. *)

\* isPortOpen(): the native ports of a closed handle were released.
IsPortOpen(x) == ~closed[x] /\ fault[x] # "gone"

\* The free signals a connection may expose.
AllSignals == {"portOpen", "sendError", "slowSend"}

\* isHandleHealthy(): the signals the connection exposes, no probe on the wire.
\* A signal a connection does not expose never speaks against it.
IsHandleHealthy(x, signals) ==
    /\ "portOpen" \in signals => IsPortOpen(x)
    /\ "sendError" \in signals => ~sendErr[x]
    /\ "slowSend" \in signals => ~slow[x]

\* A reply can still reach a listener on x: close() cleared the handlers, and
\* a port without its device delivers nothing.
CanHear(x) == ~closed[x] /\ fault[x] = "none"

-----------------------------------------------------------------------------
(* Closing: close() and releaseNativeHandles(). *)

\* The handles in cs that close() acts on: a second close() returns at once.
Closing(cs) == {x \in cs \cap Handle : ~closed[x]}

\* The entry is forgotten without close().
ClosedAfterForgotten(cs) == closed

ClosedAfter(cs) == [x \in Handle |-> closed[x] \/ x \in cs]

\* The release as it was before the fix: the input was closed first, and the
\* exception of a poisoned input kept the output from being closed.
OutAfterCloseInputFirst(cs) ==
    [l \in Label |-> IF /\ outPort[l] \in Closing(cs)
                        /\ fault[outPort[l]] # "poisoned"
                     THEN None ELSE outPort[l]]

\* Output first: its closePort() has no error path, so it always comes free.
OutAfterClose(cs) ==
    [l \in Label |-> IF outPort[l] \in Closing(cs) THEN None ELSE outPort[l]]

\* A poisoned input raises in closePort() and is left to the OS.
InAfterClose(cs) ==
    [l \in Label |-> IF /\ inPort[l] \in Closing(cs)
                        /\ fault[inPort[l]] # "poisoned"
                     THEN None ELSE inPort[l]]

-----------------------------------------------------------------------------
(* The environment of a handle. *)

\* The cable is pulled, or the device is switched off.
Unplug(l) ==
    /\ plugged[l]
    /\ plugged' = [plugged EXCEPT ![l] = FALSE]
    /\ \E seen \in {"dead", "gone"} :
         fault' = [x \in Handle |->
                     IF x = outPort[l] /\ fault[x] = "none" THEN seen ELSE fault[x]]
    /\ UNCHANGED <<inPort, outPort, closed, sendErr, slow, live>>

Replug(l) ==
    /\ ~plugged[l]
    /\ plugged' = [plugged EXCEPT ![l] = TRUE]
    /\ UNCHANGED <<inPort, outPort, closed, sendErr, slow, fault, live>>
=============================================================================
