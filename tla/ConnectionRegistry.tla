------------------------- MODULE ConnectionRegistry -------------------------
(***************************************************************************)
(* The connection registry of packages/core/src/server-shared and the tool *)
(* calls that share its handles.                                           *)
(*                                                                         *)
(*   connections.ts   ensureConnection, recordAckOutcome, the exit hook    *)
(*   handleHealth.ts  isHandleHealthy, withHandleFaultRetry                *)
(*   core.ts          openCtx, withHandleRetry (the dispatcher's seam)     *)
(*   am4 wireOps.ts   sendAndAwaitAck and its cold-start resend            *)
(*                                                                         *)
(* An operation o \in Op is one tool call in progress.  A call runs to its *)
(* next await without interruption, so each action below is the code       *)
(* between two awaits; calls interleave only there, and nothing serialises *)
(* the calls of one endpoint.  With one element in Op the calls of a       *)
(* client that waits for each answer are modelled, with more the calls of  *)
(* a client that does not.                                                 *)
(***************************************************************************)
EXTENDS Naturals, MidiTransport

CONSTANTS
    Op,         \* tool calls that may be in progress at once
    Signals,    \* Signals[l]: the health signals that the connections of l expose
    Threshold,  \* STALE_HANDLE_TIMEOUT_THRESHOLD
    MaxWrites   \* bound: acknowledged writes one call performs

ASSUME NoneIsNoLabel == None \notin Label

(***************************************************************************)
(* The connections of connect() expose all three signals.  Those of the    *)
(* gen-3 connectors expose "portOpen" only: wrapWithDirtyClassification    *)
(* returns a spread copy, whose lastSendError and slowSendSuspect are the  *)
(* values they had when the copy was made.  Those of the Hydrasynth expose *)
(* "sendError" only and those of the Axe-Fx II none.                       *)
(***************************************************************************)
ASSUME SignalsAssumption == Signals \in [Label -> SUBSET AllSignals]
ASSUME ThresholdAssumption == Threshold \in Nat \ {0}
ASSUME MaxWritesAssumption == MaxWrites \in Nat \ {0}

VARIABLES
    reg,        \* connections: reg[l] is the cached handle, or None
    timeouts,   \* consecutiveTimeouts of the entry (0 when there is none)
    cold,       \* cold flag of the entry (FALSE when there is none)
    err,        \* connectionErrors: a stored connect failure
    pc,         \* where each call is
    lab,        \* the label a call addresses
    hdl,        \* the handle a call holds
    wasCold,    \* sendAndAwaitAck's local: was the handle cold at the send
    retried,    \* the call is in its second attempt
    left,       \* writes the attempt still has to do
    exited,     \* the process ended
    missed,     \* history: ack-less outcomes in a row seen by calls holding x
    resends     \* history: cold-start resends sent on x

registryVars == <<reg, timeouts, cold, err>>
opVars == <<pc, lab, hdl, wasCold, retried, left>>
historyVars == <<missed, resends>>
vars == <<transportVars, registryVars, opVars, exited, historyVars>>

PC == {"idle", "ready", "await", "awaitResend", "settling"}
Waiting == {"await", "awaitResend"}

(***************************************************************************)
(* TypeOK: every variable stays in its range.                              *)
(***************************************************************************)
TypeOK ==
    /\ TransportTypeOK
    /\ reg \in [Label -> HandleOrNone]
    /\ timeouts \in [Label -> Nat]
    /\ cold \in [Label -> BOOLEAN]
    /\ err \in [Label -> BOOLEAN]
    /\ pc \in [Op -> PC]
    /\ lab \in [Op -> Label \cup {None}]
    /\ hdl \in [Op -> HandleOrNone]
    /\ wasCold \in [Op -> BOOLEAN]
    /\ retried \in [Op -> BOOLEAN]
    /\ left \in [Op -> 0 .. MaxWrites]
    /\ exited \in BOOLEAN
    /\ missed \in [Handle -> Nat]
    /\ resends \in [Handle -> Nat]

Init ==
    /\ TransportInit
    /\ reg = [l \in Label |-> None]
    /\ timeouts = [l \in Label |-> 0]
    /\ cold = [l \in Label |-> FALSE]
    /\ err = [l \in Label |-> FALSE]
    /\ pc = [o \in Op |-> "idle"]
    /\ lab = [o \in Op |-> None]
    /\ hdl = [o \in Op |-> None]
    /\ wasCold = [o \in Op |-> FALSE]
    /\ retried = [o \in Op |-> FALSE]
    /\ left = [o \in Op |-> 0]
    /\ exited = FALSE
    /\ missed = [x \in Handle |-> 0]
    /\ resends = [x \in Handle |-> 0]

-----------------------------------------------------------------------------
\* The first outcome of a handle leaves it cold when nothing acknowledged it.
RecordAckOutcomeStaysCold(l, acked) ==
    /\ timeouts' = IF reg[l] = None THEN timeouts
                   ELSE [timeouts EXCEPT ![l] = IF acked THEN 0 ELSE @ + 1]
    /\ cold' = IF reg[l] # None /\ acked THEN [cold EXCEPT ![l] = FALSE] ELSE cold

\* recordAckOutcome: charges whatever entry the label has now.
RecordAckOutcome(l, acked) ==
    /\ timeouts' = IF reg[l] = None THEN timeouts
                   ELSE [timeouts EXCEPT ![l] = IF acked THEN 0 ELSE @ + 1]
    /\ cold' = IF reg[l] = None THEN cold ELSE [cold EXCEPT ![l] = FALSE]

-----------------------------------------------------------------------------
(* ensureConnection(label, forceReconnect). *)

\* Identities no connection, reference or native port uses.
Unused ==
    {x \in Handle : /\ closed[x]
                    /\ \A l \in Label : inPort[l] # x /\ outPort[l] # x
                    /\ \A o \in Op : hdl[o] # x}

\* The fresh connection is handed out but never entered in the registry.
OpensUncached(l, x, inFree, outFree) ==
    /\ reg' = [reg EXCEPT ![l] = None]
    /\ inPort' = [inFree EXCEPT ![l] = x]
    /\ outPort' = [outFree EXCEPT ![l] = x]
    /\ closed' = [ClosedAfter({reg[l]}) EXCEPT ![x] = FALSE]
    /\ sendErr' = [sendErr EXCEPT ![x] = FALSE]
    /\ slow' = [slow EXCEPT ![x] = FALSE]
    /\ fault' = [fault EXCEPT ![x] = "none"]
    /\ live' = (live \ {reg[l]}) \cup {x}
    /\ cold' = [cold EXCEPT ![l] = FALSE]
    /\ missed' = [missed EXCEPT ![x] = 0]
    /\ resends' = [resends EXCEPT ![x] = 0]

\* connect() found the endpoint and the OS granted both ports to it.
Opens(l, x, inFree, outFree) ==
    /\ reg' = [reg EXCEPT ![l] = x]
    /\ inPort' = [inFree EXCEPT ![l] = x]
    /\ outPort' = [outFree EXCEPT ![l] = x]
    /\ closed' = [ClosedAfter({reg[l]}) EXCEPT ![x] = FALSE]
    /\ sendErr' = [sendErr EXCEPT ![x] = FALSE]
    /\ slow' = [slow EXCEPT ![x] = FALSE]
    /\ fault' = [fault EXCEPT ![x] = "none"]
    /\ live' = (live \ {reg[l]}) \cup {x}
    /\ cold' = [cold EXCEPT ![l] = TRUE]
    /\ missed' = [missed EXCEPT ![x] = 0]
    /\ resends' = [resends EXCEPT ![x] = 0]

\* The factory threw: nothing is cached but the error.
FailsToOpen(l, inFree, outFree) ==
    /\ reg' = [reg EXCEPT ![l] = None]
    /\ inPort' = inFree
    /\ outPort' = outFree
    /\ closed' = ClosedAfter({reg[l]})
    /\ live' = live \ {reg[l]}
    /\ cold' = [cold EXCEPT ![l] = FALSE]
    /\ UNCHANGED <<sendErr, slow, fault, historyVars>>

\* Discard the cached handle, if any, and call the factory.  ret is what the
\* caller gets: the fresh handle, or None for the exception.
Reconnect(l, forced, ret) ==
    LET inFree == InAfterClose({reg[l]})
        outFree == OutAfterClose({reg[l]})
        granted == plugged[l] /\ inFree[l] = None /\ outFree[l] = None
    IN  /\ IF granted
           THEN ret \in Unused /\ Opens(l, ret, inFree, outFree)
           ELSE ret = None /\ FailsToOpen(l, inFree, outFree)
        /\ timeouts' = [timeouts EXCEPT ![l] = 0]
        /\ err' = [m \in Label |-> IF m = l THEN ~granted
                                   ELSE IF forced THEN FALSE ELSE err[m]]
        /\ UNCHANGED plugged

\* One ack-less outcome is taken for a dead handle.
CounterStaleTooEarly(l) == timeouts[l] >= 1

CounterStale(l) == timeouts[l] >= Threshold

\* Without the canary of the acquire path.
CanaryStaleNever(l) == FALSE

CanaryStale(l) == reg[l] # None /\ ~IsHandleHealthy(reg[l], Signals[l])

EnsureConnection(l, forced, ret) ==
    IF forced \/ CounterStale(l) \/ CanaryStale(l)
    THEN Reconnect(l, forced, ret)
    ELSE IF reg[l] # None
    THEN ret = reg[l] /\ UNCHANGED <<transportVars, registryVars, historyVars>>
    ELSE IF err[l]
    THEN ret = None /\ UNCHANGED <<transportVars, registryVars, historyVars>>
    ELSE Reconnect(l, forced, ret)

-----------------------------------------------------------------------------
(* A tool call. *)

\* The call returns or its exception leaves the dispatcher.
Finish(o) ==
    /\ pc' = [pc EXCEPT ![o] = "idle"]
    /\ lab' = [lab EXCEPT ![o] = None]
    /\ hdl' = [hdl EXCEPT ![o] = None]
    /\ retried' = [retried EXCEPT ![o] = FALSE]
    /\ left' = [left EXCEPT ![o] = 0]
    /\ wasCold' = [wasCold EXCEPT ![o] = FALSE]

\* The call waits, holding what it held, before its second attempt.
Settle(o) ==
    /\ pc' = [pc EXCEPT ![o] = "settling"]
    /\ left' = [left EXCEPT ![o] = 0]
    /\ wasCold' = [wasCold EXCEPT ![o] = FALSE]
    /\ UNCHANGED <<lab, hdl, retried>>

\* A retry wrapper that never stops retrying.
ThrowsForever(o, sendErrNow) ==
    IF sendErrNow THEN Settle(o) ELSE Finish(o)

\* A retry wrapper that takes every exception for a fault of the handle.
ThrowsRetriesAny(o, sendErrNow) ==
    IF ~retried[o] THEN Settle(o) ELSE Finish(o)

\* withHandleFaultRetry's catch: an exception with lastSendError set on the
\* call's own handle earns one reconnect; any other, or a second, propagates.
Throws(o, sendErrNow) ==
    IF sendErrNow /\ ~retried[o] THEN Settle(o) ELSE Finish(o)

\* openCtx: the call obtains its handle, or fails at once.
Acquire(o, l) ==
    /\ pc[o] = "idle"
    /\ \E ret \in HandleOrNone :
         /\ EnsureConnection(l, FALSE, ret)
         /\ IF ret = None
            THEN UNCHANGED opVars
            ELSE /\ pc' = [pc EXCEPT ![o] = "ready"]
                 /\ lab' = [lab EXCEPT ![o] = l]
                 /\ hdl' = [hdl EXCEPT ![o] = ret]
                 /\ \E n \in 1 .. MaxWrites : left' = [left EXCEPT ![o] = n]
                 /\ UNCHANGED <<retried, wasCold>>
    /\ UNCHANGED exited

\* A send that took too long, thrown or not, latches slowSendSuspect.
LatchSlow(x) == \E late \in BOOLEAN : slow' = [slow EXCEPT ![x] = @ \/ late]

\* send() takes the bytes: lastSendError is cleared.  On a port without its
\* device the bytes go nowhere.
SendAccepted(o) ==
    LET x == hdl[o]
    IN  /\ sendErr' = [sendErr EXCEPT ![x] = FALSE]
        /\ LatchSlow(x)
        /\ UNCHANGED fault

\* send() throws and sets lastSendError: the port lost its device, was closed
\* by another call, or refuses this very send, which may leave it wedged.
SendThrows(o) ==
    LET x == hdl[o]
    IN  /\ sendErr' = [sendErr EXCEPT ![x] = TRUE]
        /\ \/ UNCHANGED fault
           \/ CanHear(x) /\ fault' = [fault EXCEPT ![x] = "poisoned"]
        /\ LatchSlow(x)

\* sendAndAwaitAck up to its first await.
Send(o) ==
    /\ pc[o] = "ready"
    /\ \/ /\ SendAccepted(o)
          /\ pc' = [pc EXCEPT ![o] = "await"]
          /\ wasCold' = [wasCold EXCEPT ![o] = cold[lab[o]]]
          /\ UNCHANGED <<lab, hdl, retried, left>>
       \/ SendThrows(o) /\ Throws(o, TRUE)
    /\ UNCHANGED <<plugged, inPort, outPort, closed, live, registryVars, exited, historyVars>>

\* The loop over the writes runs past its end.
NextWriteOffByOne(o) ==
    IF left[o] >= 0
    THEN /\ pc' = [pc EXCEPT ![o] = "ready"]
         /\ left' = [left EXCEPT ![o] = @ - 1]
         /\ wasCold' = [wasCold EXCEPT ![o] = FALSE]
         /\ UNCHANGED <<lab, hdl, retried>>
    ELSE Finish(o)

\* The attempt goes on with its next write, or the call returns.
NextWrite(o) ==
    IF left[o] > 1
    THEN /\ pc' = [pc EXCEPT ![o] = "ready"]
         /\ left' = [left EXCEPT ![o] = @ - 1]
         /\ wasCold' = [wasCold EXCEPT ![o] = FALSE]
         /\ UNCHANGED <<lab, hdl, retried>>
    ELSE Finish(o)

\* The device acknowledged the write within the window.
Ack(o) ==
    /\ pc[o] \in Waiting
    /\ CanHear(hdl[o])
    /\ RecordAckOutcome(lab[o], TRUE)
    /\ missed' = [missed EXCEPT ![hdl[o]] = 0]
    /\ NextWrite(o)
    /\ UNCHANGED <<transportVars, reg, err, exited, resends>>

\* The window closed on the first write of a cold handle: send it once more.
Resend(o) ==
    /\ pc[o] = "await"
    /\ wasCold[o]
    /\ \/ /\ SendAccepted(o)
          /\ pc' = [pc EXCEPT ![o] = "awaitResend"]
          /\ wasCold' = [wasCold EXCEPT ![o] = FALSE]
          /\ UNCHANGED <<lab, hdl, retried, left>>
       \/ SendThrows(o) /\ Throws(o, TRUE)
    /\ resends' = [resends EXCEPT ![hdl[o]] = @ + 1]
    /\ UNCHANGED <<plugged, inPort, outPort, closed, live, registryVars, exited, missed>>

\* sendAndAwaitAck reports the missing ack, on a cold handle only after the
\* resend, and the writer goes on.
ReportsNoAck(o) ==
    /\ pc[o] = "awaitResend" \/ (pc[o] = "await" /\ ~wasCold[o])
    /\ NextWrite(o)

\* switchBlockChannel resends on no handle: it throws, and the catch of the
\* retry wrapper reads lastSendError afresh.
ChannelSwitchThrows(o) ==
    /\ pc[o] = "await"
    /\ Throws(o, sendErr[hdl[o]])

\* The window closed for good: the outcome is recorded once.
NoAck(o) ==
    /\ ReportsNoAck(o) \/ ChannelSwitchThrows(o)
    /\ RecordAckOutcome(lab[o], FALSE)
    /\ missed' = [missed EXCEPT ![hdl[o]] = @ + 1]
    /\ UNCHANGED <<transportVars, reg, err, exited, resends>>

\* 200 ms later: ctx.reconnect() and the second attempt, from the top.
RetryAfterFault(o) ==
    /\ pc[o] = "settling"
    /\ \E ret \in HandleOrNone :
         /\ EnsureConnection(lab[o], TRUE, ret)
         /\ IF ret = None
            THEN Finish(o)
            ELSE /\ pc' = [pc EXCEPT ![o] = "ready"]
                 /\ hdl' = [hdl EXCEPT ![o] = ret]
                 /\ retried' = [retried EXCEPT ![o] = TRUE]
                 /\ \E n \in 1 .. MaxWrites : left' = [left EXCEPT ![o] = n]
                 /\ UNCHANGED <<lab, wasCold>>
    /\ UNCHANGED exited

\* The reconnect_midi tool, which awaits nothing.
ReconnectMidi(o, l) ==
    /\ pc[o] = "idle"
    /\ \E ret \in HandleOrNone : EnsureConnection(l, TRUE, ret)
    /\ UNCHANGED <<opVars, exited>>

-----------------------------------------------------------------------------
(* The end of the process: the registry's exit hook closes its entries,    *)
(* the transport's closes every live connection.                           *)
Exit ==
    LET cs == {reg[l] : l \in Label} \cup live
    IN  /\ inPort' = InAfterClose(cs)
        /\ outPort' = OutAfterClose(cs)
        /\ closed' = ClosedAfter(cs)
        /\ live' = {}
        /\ reg' = [l \in Label |-> None]
        /\ timeouts' = [l \in Label |-> 0]
        /\ cold' = [l \in Label |-> FALSE]
        /\ exited' = TRUE
        /\ UNCHANGED <<plugged, sendErr, slow, fault, err, opVars, historyVars>>

CallStep(o) ==
    \/ Send(o)
    \/ Ack(o)
    \/ Resend(o)
    \/ NoAck(o)
    \/ RetryAfterFault(o)

Plug(l) ==
    /\ Unplug(l) \/ Replug(l)
    /\ UNCHANGED <<registryVars, opVars, exited, historyVars>>

Next ==
    \/ /\ ~exited
       /\ \/ \E o \in Op, l \in Label : Acquire(o, l) \/ ReconnectMidi(o, l)
          \/ \E o \in Op : CallStep(o)
          \/ \E l \in Label : Plug(l)
          \/ Exit
    \/ exited /\ UNCHANGED vars

(***************************************************************************)
(* Fairness: the code between two awaits runs, and every await ends, since *)
(* each is a timer or a reply raced against one.  Nothing makes a client   *)
(* start a call, and nothing makes the device answer or come back.         *)
(***************************************************************************)
CallEnds(o) == Send(o) \/ Resend(o) \/ NoAck(o) \/ RetryAfterFault(o)

Spec == Init /\ [][Next]_vars
FairSpec == Spec /\ \A o \in Op : WF_vars(~exited /\ CallEnds(o))

-----------------------------------------------------------------------------
(* Safety. *)

(***************************************************************************)
(* OneHandlePerEndpoint: the connections that are open are exactly those   *)
(* in the registry, each under one label, and liveConnections lists them   *)
(* all.  A connection that left the registry without being closed would    *)
(* hold its exclusive port until the process ends (ensureConnection,       *)
(* close).                                                                 *)
(***************************************************************************)
OneHandlePerEndpoint ==
    /\ \A x \in Handle : ~closed[x] <=> \E l \in Label : reg[l] = x
    /\ \A l, m \in Label : reg[l] # None /\ reg[l] = reg[m] => l = m
    /\ live = {x \in Handle : ~closed[x]}

(***************************************************************************)
(* PortsRecoverable: the server never locks itself out of an endpoint: an  *)
(* OS port still held belongs to the registered handle, except an input    *)
(* whose handle was wedged in the middle of a send (releaseNativeHandles). *)
(***************************************************************************)
PortsRecoverable ==
    \A l \in Label :
        /\ outPort[l] \in {None, reg[l]}
        /\ inPort[l] \notin {None, reg[l]} => fault[inPort[l]] = "poisoned"

(***************************************************************************)
(* ResendOncePerHandle: "the cold-start resend fires at most once per      *)
(* handle lifetime" (the comment on RegistryEntry.cold), as long as the    *)
(* calls of the endpoint take turns: the flag is read before the await.    *)
(***************************************************************************)
ResendOncePerHandle == \A x \in Handle : resends[x] <= 1

-----------------------------------------------------------------------------
(* What one step may do. *)

(***************************************************************************)
(* AcquireIsHealthy: a call starts an attempt, the first or the second,    *)
(* only on the endpoint's registered handle, and only when no signal that  *)
(* its connection exposes says it is bad (the canary of ensureConnection). *)
(***************************************************************************)
StartsAttempt(o) == pc[o] \in {"idle", "settling"} /\ pc'[o] = "ready"

AcquireIsHealthy ==
    [][\A o \in Op : StartsAttempt(o) =>
          \E l \in Label, x \in Handle :
              /\ lab'[o] = l /\ hdl'[o] = x /\ reg'[l] = x
              /\ IsHandleHealthy(x, Signals[l])'
              /\ ~CounterStale(l)']_vars

(***************************************************************************)
(* StaleDropIsEarned: a call's acquire discards a handle no signal speaks  *)
(* against only after Threshold ack-less outcomes in a row on that handle: *)
(* a single silent absorb never costs the handle                           *)
(* (STALE_HANDLE_TIMEOUT_THRESHOLD), as long as the calls of the endpoint  *)
(* take turns: outcomes are charged to the label.                          *)
(***************************************************************************)
Discards(x) == ~closed[x] /\ closed'[x]

StaleDropIsEarned ==
    [][\A o \in Op, x \in Handle :
          /\ pc[o] = "idle" /\ pc'[o] = "ready"
          /\ Discards(x) /\ IsHandleHealthy(x, AllSignals)
          => missed[x] >= Threshold]_vars

(***************************************************************************)
(* NoAckPropagates: a missing ack is never taken for a fault of the handle *)
(* and retried: lastSendError, read after the wait, must tell whether this *)
(* call's own send failed (isHandleFaultError, withHandleFaultRetry).  It  *)
(* does as long as the calls of the endpoint take turns: no send of the    *)
(* call before, of its own resend or of its first attempt is mistaken for  *)
(* the one that is waited for.                                             *)
(***************************************************************************)
NoAckPropagates == [][\A o \in Op : NoAck(o) => pc'[o] # "settling"]_vars

(***************************************************************************)
(* CallsEnd: every call returns, whatever the device and the other calls   *)
(* do: no path retries for ever (withHandleFaultRetry, sendAndAwaitAck).   *)
(***************************************************************************)
CallsEnd == \A o \in Op : pc[o] # "idle" ~> (pc[o] = "idle" \/ exited)

-----------------------------------------------------------------------------
(* The abstract specification: leases on one handle per endpoint. *)

Lease == INSTANCE EndpointLease WITH holder <- reg, lease <- hdl

(***************************************************************************)
(* ImplementsLease: the registry is an EndpointLease.                      *)
(***************************************************************************)
ImplementsLease == Lease!Spec
=============================================================================
