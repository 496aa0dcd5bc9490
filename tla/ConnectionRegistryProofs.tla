---------------------- MODULE ConnectionRegistryProofs ----------------------
(***************************************************************************)
(* Theorems about ConnectionRegistry for any sets of endpoints, handles    *)
(* and concurrent calls, any threshold and any number of writes.           *)
(*                                                                         *)
(* The last part is about calls that take turns at each endpoint           *)
(* (TakesTurns).  With two calls to one, a late outcome is charged to the  *)
(* handle that replaced its own, a missing ack is retried because the send *)
(* of the other failed, and both resend on a cold handle, so what these    *)
(* theorems state is only true in turns; three runs show it.  ResendsOnce  *)
(* also needs a connection that shows a send that failed (ShowsSendError), *)
(* as those of connect() do.                                               *)
(***************************************************************************)
EXTENDS ConnectionRegistry, TLAPS

(***************************************************************************)
(* A call that is not idle addresses a label and holds a handle.           *)
(***************************************************************************)
BusyCallsHold ==
    \A o \in Op : pc[o] # "idle" => lab[o] \in Label /\ hdl[o] \in Handle

(***************************************************************************)
(* The inductive invariant.  PortsRecoverable needs OneHandlePerEndpoint:  *)
(* only because a registered handle is never closed does replacing it      *)
(* release its ports.                                                      *)
(***************************************************************************)
IInv ==
    /\ TypeOK
    /\ BusyCallsHold
    /\ OneHandlePerEndpoint
    /\ PortsRecoverable

USE NoneIsNoHandle, NoneIsNoLabel, ThresholdAssumption, MaxWritesAssumption

-----------------------------------------------------------------------------
(* The operators. *)

\* Steps that touch no port and no entry keep what the ports and entries say.
LEMMA SamePortsSameInvariants ==
    ASSUME IInv,
           UNCHANGED <<inPort, outPort, closed, live, reg>>,
           \A x \in Handle : fault[x] = "poisoned" => fault'[x] = "poisoned",
           inPort \in [Label -> HandleOrNone]
    PROVE  OneHandlePerEndpoint' /\ PortsRecoverable'
BY DEF IInv, OneHandlePerEndpoint, PortsRecoverable, HandleOrNone


\* ensureConnection answers from the registry and its errors, or reconnects.
LEMMA EnsureConnectionCases ==
    ASSUME NEW l \in Label, NEW forced \in BOOLEAN, NEW ret \in HandleOrNone,
           EnsureConnection(l, forced, ret)
    PROVE  \/ /\ ret = reg[l]
              /\ ret # None => ~forced /\ ~CounterStale(l) /\ ~CanaryStale(l)
              /\ UNCHANGED <<transportVars, registryVars, historyVars>>
           \/ Reconnect(l, forced, ret)
BY Zenon DEF EnsureConnection

\* Reconnect hands out a fresh handle, or none; either way the old one is
\* closed and its ports are released as far as the OS lets them.
LEMMA ReconnectStep ==
    ASSUME IInv,
           NEW l \in Label, NEW forced \in BOOLEAN, NEW ret \in HandleOrNone,
           Reconnect(l, forced, ret)
    PROVE  /\ TransportTypeOK'
           /\ reg' = [reg EXCEPT ![l] = ret]
           /\ ret \in Unused \cup {None}
           /\ timeouts' = [timeouts EXCEPT ![l] = 0]
           /\ cold' \in [Label -> BOOLEAN] /\ err' \in [Label -> BOOLEAN]
           /\ missed' \in [Handle -> Nat] /\ resends' \in [Handle -> Nat]
           /\ ret # None => IsHandleHealthy(ret, Signals[l])'
           /\ OneHandlePerEndpoint' /\ PortsRecoverable'
<1> DEFINE inFree == InAfterClose({reg[l]})
           outFree == OutAfterClose({reg[l]})
           granted == plugged[l] /\ inFree[l] = None /\ outFree[l] = None
<1>1. /\ TypeOK /\ TransportTypeOK /\ OneHandlePerEndpoint /\ PortsRecoverable
      /\ reg \in [Label -> HandleOrNone]
      /\ granted \in BOOLEAN
  BY DEF IInv, TypeOK, TransportTypeOK
<1>2. /\ inFree \in [Label -> HandleOrNone]
      /\ outFree \in [Label -> HandleOrNone]
      /\ \A m \in Label : m # l => outFree[m] = outPort[m] /\ inFree[m] = inPort[m]
      /\ outFree[l] = None
      /\ inFree[l] # None => fault[inFree[l]] = "poisoned" /\ inFree[l] = inPort[l]
  BY <1>1 DEF InAfterClose, OutAfterClose, Closing, HandleOrNone, TransportTypeOK,
              OneHandlePerEndpoint, PortsRecoverable
<1>3. /\ ClosedAfter({reg[l]}) \in [Handle -> BOOLEAN]
      /\ \A x \in Handle : ClosedAfter({reg[l]})[x] <=> closed[x] \/ x = reg[l]
  BY <1>1 DEF ClosedAfter, TransportTypeOK
<1>4. err' \in [Label -> BOOLEAN] /\ timeouts' = [timeouts EXCEPT ![l] = 0]
  <2>1. err' = [m \in Label |-> IF m = l THEN ~granted
                                ELSE IF forced THEN FALSE ELSE err[m]]
    BY Zenon DEF Reconnect
  <2>2. err \in [Label -> BOOLEAN]
    BY <1>1 DEF TypeOK
  <2>3. timeouts' = [timeouts EXCEPT ![l] = 0]
    BY Zenon DEF Reconnect
  <2> QED
    BY <1>1, <2>1, <2>2, <2>3
<1>5. plugged' = plugged
  BY Zenon DEF Reconnect
<1>6. CASE granted
  <2>1. ret \in Unused /\ Opens(l, ret, inFree, outFree)
    BY Zenon, <1>6 DEF Reconnect
  <2>2. /\ ret \in Handle /\ closed[ret]
        /\ \A m \in Label : inPort[m] # ret /\ outPort[m] # ret /\ reg[m] # ret
    BY <1>1, <2>1 DEF Unused, OneHandlePerEndpoint
  <2>3. TransportTypeOK'
    BY <1>1, <1>2, <1>3, <1>5, <2>1, <2>2
    DEF Opens, TransportTypeOK, HandleOrNone, Faults
  <2>4. OneHandlePerEndpoint'
    <3>1. closed' = [ClosedAfter({reg[l]}) EXCEPT ![ret] = FALSE]
          /\ live' = (live \ {reg[l]}) \cup {ret}
          /\ reg' = [reg EXCEPT ![l] = ret]
      BY <2>1 DEF Opens
    <3>2. \A x \in Handle : ~closed'[x] <=> x = ret \/ (~closed[x] /\ x # reg[l])
      BY <1>3, <2>2, <3>1
    <3>3. \A x \in Handle : ~closed'[x] <=> \E m \in Label : reg'[m] = x
      BY <1>1, <2>2, <3>1, <3>2 DEF OneHandlePerEndpoint
    <3>4. \A m, n \in Label : reg'[m] # None /\ reg'[m] = reg'[n] => m = n
      BY <1>1, <2>2, <3>1 DEF OneHandlePerEndpoint
    <3>5. live' = {x \in Handle : ~closed'[x]}
      BY <1>1, <2>2, <3>1, <3>2 DEF OneHandlePerEndpoint
    <3> QED
      BY <3>3, <3>4, <3>5 DEF OneHandlePerEndpoint
  <2>5. PortsRecoverable'
    <3>1. /\ reg' = [reg EXCEPT ![l] = ret]
          /\ inPort' = [inFree EXCEPT ![l] = ret]
          /\ outPort' = [outFree EXCEPT ![l] = ret]
          /\ fault' = [fault EXCEPT ![ret] = "none"]
      BY <2>1 DEF Opens
    <3> SUFFICES ASSUME NEW m \in Label
                 PROVE  /\ outPort'[m] \in {None, reg'[m]}
                        /\ inPort'[m] \notin {None, reg'[m]} => fault'[inPort'[m]] = "poisoned"
      BY DEF PortsRecoverable
    <3>2. CASE m = l
      BY <1>1, <1>2, <3>1, <3>2 DEF TransportTypeOK
    <3>3. CASE m # l
      <4>1. /\ reg'[m] = reg[m]
            /\ outPort'[m] = outPort[m]
            /\ inPort'[m] = inPort[m]
        BY <1>1, <1>2, <3>1, <3>3
      <4>2. /\ outPort[m] \in {None, reg[m]}
            /\ inPort[m] \notin {None, reg[m]} => fault[inPort[m]] = "poisoned"
        BY <1>1 DEF PortsRecoverable
      <4>3. inPort[m] # None => inPort[m] \in Handle /\ fault'[inPort[m]] = fault[inPort[m]]
        BY <1>1, <2>2, <3>1 DEF TransportTypeOK, HandleOrNone
      <4> QED
        BY <4>1, <4>2, <4>3
    <3> QED
      BY <3>2, <3>3
  <2>6. IsHandleHealthy(ret, Signals[l])'
    BY <1>1, <1>3, <2>1, <2>2
    DEF Opens, IsHandleHealthy, IsPortOpen, TransportTypeOK
  <2> QED
    BY <1>1, <1>4, <2>1, <2>3, <2>4, <2>5, <2>6 DEF Opens, TypeOK
<1>7. CASE ~granted
  <2>1. ret = None /\ FailsToOpen(l, inFree, outFree)
    BY Zenon, <1>7 DEF Reconnect
  <2>2. TransportTypeOK'
    BY <1>1, <1>2, <1>3, <1>5, <2>1 DEF FailsToOpen, TransportTypeOK, HandleOrNone
  <2>3. OneHandlePerEndpoint'
    <3>1. /\ reg' = [reg EXCEPT ![l] = None]
          /\ closed' = ClosedAfter({reg[l]})
          /\ live' = live \ {reg[l]}
      BY <2>1 DEF FailsToOpen
    <3> QED
      BY <1>1, <1>3, <3>1 DEF OneHandlePerEndpoint
  <2>4. PortsRecoverable'
    BY <1>1, <1>2, <2>1 DEF FailsToOpen, PortsRecoverable, HandleOrNone
  <2> QED
    BY <1>1, <1>4, <2>1, <2>2, <2>3, <2>4 DEF FailsToOpen, TypeOK, historyVars
<1> QED
  BY <1>6, <1>7

\* What one call of ensureConnection establishes, returning ret.
LEMMA EnsureConnectionStep ==
    ASSUME IInv,
           NEW l \in Label, NEW forced \in BOOLEAN, NEW ret \in HandleOrNone,
           EnsureConnection(l, forced, ret)
    PROVE  /\ TransportTypeOK'
           /\ reg' = [reg EXCEPT ![l] = ret]
           /\ ret \in Unused \cup {reg[l], None}
           /\ timeouts' \in [Label -> Nat] /\ cold' \in [Label -> BOOLEAN]
           /\ err' \in [Label -> BOOLEAN]
           /\ missed' \in [Handle -> Nat] /\ resends' \in [Handle -> Nat]
           /\ ret # None => IsHandleHealthy(ret, Signals[l])' /\ ~CounterStale(l)'
           /\ OneHandlePerEndpoint' /\ PortsRecoverable'
<1>1. TypeOK /\ TransportTypeOK
  BY DEF IInv, TypeOK
<1>2. CASE Reconnect(l, forced, ret)
  <2>1. /\ TransportTypeOK'
        /\ reg' = [reg EXCEPT ![l] = ret]
        /\ ret \in Unused \cup {None}
        /\ timeouts' = [timeouts EXCEPT ![l] = 0]
        /\ cold' \in [Label -> BOOLEAN] /\ err' \in [Label -> BOOLEAN]
        /\ missed' \in [Handle -> Nat] /\ resends' \in [Handle -> Nat]
        /\ ret # None => IsHandleHealthy(ret, Signals[l])'
        /\ OneHandlePerEndpoint' /\ PortsRecoverable'
    BY <1>2, ReconnectStep
  <2>2. timeouts' \in [Label -> Nat] /\ timeouts'[l] = 0
    BY <1>1, <2>1 DEF TypeOK
  <2>3. ~CounterStale(l)'
    BY <2>2 DEF CounterStale
  <2> QED
    BY <2>1, <2>2, <2>3
<1>3. CASE /\ ret = reg[l]
           /\ ret # None => ~forced /\ ~CounterStale(l) /\ ~CanaryStale(l)
           /\ UNCHANGED <<transportVars, registryVars, historyVars>>
  <2>1. reg' = [reg EXCEPT ![l] = ret]
    BY <1>1, <1>3 DEF TypeOK, registryVars
  <2>2. OneHandlePerEndpoint' /\ PortsRecoverable'
    BY <1>1, <1>3, SamePortsSameInvariants
    DEF TransportTypeOK, transportVars, registryVars
  <2>3. ret # None => IsHandleHealthy(ret, Signals[l])' /\ ~CounterStale(l)'
    BY <1>3 DEF CanaryStale, CounterStale, IsHandleHealthy, IsPortOpen,
                transportVars, registryVars
  <2> QED
    BY <1>1, <1>3, <2>1, <2>2, <2>3
    DEF TypeOK, TransportTypeOK, transportVars, registryVars, historyVars
<1> QED
  BY <1>2, <1>3, EnsureConnectionCases

-----------------------------------------------------------------------------
(* The calls. *)

\* The types of a call's variables after the shared tails of its steps.
OpTypeOK ==
    /\ pc \in [Op -> PC]
    /\ lab \in [Op -> Label \cup {None}]
    /\ hdl \in [Op -> HandleOrNone]
    /\ wasCold \in [Op -> BOOLEAN]
    /\ retried \in [Op -> BOOLEAN]
    /\ left \in [Op -> 0 .. MaxWrites]

LEMMA FinishStep ==
    ASSUME IInv, NEW o \in Op, Finish(o)
    PROVE  OpTypeOK' /\ BusyCallsHold'
BY DEF IInv, TypeOK, OpTypeOK, BusyCallsHold, Finish, PC, HandleOrNone

LEMMA ThrowsStep ==
    ASSUME IInv, NEW o \in Op, pc[o] # "idle", NEW s \in BOOLEAN, Throws(o, s)
    PROVE  OpTypeOK' /\ BusyCallsHold'
<1>1. CASE Settle(o)
  BY <1>1 DEF IInv, TypeOK, OpTypeOK, BusyCallsHold, Settle, PC, HandleOrNone
<1> QED
  BY <1>1, FinishStep DEF Throws

LEMMA NextWriteStep ==
    ASSUME IInv, NEW o \in Op, pc[o] # "idle", NextWrite(o)
    PROVE  OpTypeOK' /\ BusyCallsHold'
<1>1. CASE left[o] > 1
  <2>1. /\ pc' = [pc EXCEPT ![o] = "ready"]
        /\ left' = [left EXCEPT ![o] = @ - 1]
        /\ wasCold' = [wasCold EXCEPT ![o] = FALSE]
        /\ UNCHANGED <<lab, hdl, retried>>
    BY <1>1 DEF NextWrite
  <2>2. left' \in [Op -> 0 .. MaxWrites]
    BY <1>1, <2>1 DEF IInv, TypeOK
  <2> QED
    BY <2>1, <2>2 DEF IInv, TypeOK, OpTypeOK, BusyCallsHold, PC, HandleOrNone
<1> QED
  BY <1>1, FinishStep DEF NextWrite

LEMMA RecordAckOutcomeStep ==
    ASSUME IInv, NEW l \in Label, NEW acked \in BOOLEAN, RecordAckOutcome(l, acked)
    PROVE  timeouts' \in [Label -> Nat] /\ cold' \in [Label -> BOOLEAN]
BY DEF IInv, TypeOK, RecordAckOutcome

\* A send changes the three marks of a handle and nothing else of it.
LEMMA SendMarks ==
    ASSUME IInv, NEW o \in Op, pc[o] # "idle",
           SendAccepted(o) \/ SendThrows(o),
           UNCHANGED <<plugged, inPort, outPort, closed, live, reg>>
    PROVE  TransportTypeOK' /\ OneHandlePerEndpoint' /\ PortsRecoverable'
<1>1. TypeOK /\ TransportTypeOK /\ hdl[o] \in Handle
  BY DEF IInv, TypeOK, BusyCallsHold
<1>2. /\ sendErr' \in [Handle -> BOOLEAN]
      /\ slow' \in [Handle -> BOOLEAN]
      /\ fault' \in [Handle -> Faults]
      /\ \A x \in Handle : fault[x] = "poisoned" => fault'[x] = "poisoned"
  BY <1>1 DEF TransportTypeOK, SendAccepted, SendThrows, LatchSlow, Faults
<1> QED
  BY <1>1, <1>2, SamePortsSameInvariants DEF TransportTypeOK

LEMMA CallStepInvariant ==
    ASSUME IInv, NEW o \in Op, CallStep(o)
    PROVE  IInv'
<1>1. /\ TypeOK /\ TransportTypeOK /\ BusyCallsHold
      /\ OneHandlePerEndpoint /\ PortsRecoverable
  BY DEF IInv, TypeOK
<1> SUFFICES /\ TransportTypeOK' /\ OpTypeOK' /\ BusyCallsHold'
             /\ OneHandlePerEndpoint' /\ PortsRecoverable'
             /\ reg' \in [Label -> HandleOrNone]
             /\ timeouts' \in [Label -> Nat]
             /\ cold' \in [Label -> BOOLEAN] /\ err' \in [Label -> BOOLEAN]
             /\ exited' \in BOOLEAN
             /\ missed' \in [Handle -> Nat] /\ resends' \in [Handle -> Nat]
  BY DEF IInv, TypeOK, OpTypeOK
<1>2. CASE Send(o)
  <2>1. OpTypeOK' /\ BusyCallsHold'
    <3>1. CASE SendThrows(o) /\ Throws(o, TRUE)
      BY <1>2, <3>1, ThrowsStep DEF Send
    <3>2. CASE /\ pc' = [pc EXCEPT ![o] = "await"]
               /\ wasCold' = [wasCold EXCEPT ![o] = cold[lab[o]]]
               /\ UNCHANGED <<lab, hdl, retried, left>>
      BY <1>1, <1>2, <3>2 DEF Send, TypeOK, OpTypeOK, BusyCallsHold, PC
    <3> QED
      BY <1>2, <3>1, <3>2 DEF Send
  <2>2. TransportTypeOK' /\ OneHandlePerEndpoint' /\ PortsRecoverable'
    BY <1>2, SendMarks DEF Send, registryVars
  <2> QED
    BY <1>1, <1>2, <2>1, <2>2 DEF Send, TypeOK, registryVars, historyVars
<1>3. CASE Resend(o)
  <2>1. OpTypeOK' /\ BusyCallsHold'
    <3>1. CASE SendThrows(o) /\ Throws(o, TRUE)
      BY <1>3, <3>1, ThrowsStep DEF Resend
    <3>2. CASE /\ pc' = [pc EXCEPT ![o] = "awaitResend"]
               /\ wasCold' = [wasCold EXCEPT ![o] = FALSE]
               /\ UNCHANGED <<lab, hdl, retried, left>>
      BY <1>1, <1>3, <3>2 DEF Resend, TypeOK, OpTypeOK, BusyCallsHold, PC
    <3> QED
      BY <1>3, <3>1, <3>2 DEF Resend
  <2>2. TransportTypeOK' /\ OneHandlePerEndpoint' /\ PortsRecoverable'
    BY <1>3, SendMarks DEF Resend, registryVars
  <2>3. resends' \in [Handle -> Nat]
    BY <1>1, <1>3 DEF Resend, TypeOK, BusyCallsHold
  <2> QED
    BY <1>1, <1>3, <2>1, <2>2, <2>3 DEF Resend, TypeOK, registryVars
<1>4. CASE Ack(o) \/ NoAck(o)
  <2>1. /\ pc[o] # "idle" /\ lab[o] \in Label /\ hdl[o] \in Handle
        /\ UNCHANGED <<transportVars, reg, err, exited, resends>>
    BY <1>1, <1>4
    DEF Ack, NoAck, ReportsNoAck, ChannelSwitchThrows, BusyCallsHold, Waiting
  <2>2. OpTypeOK' /\ BusyCallsHold'
    <3>1. sendErr[hdl[o]] \in BOOLEAN
      BY <1>1, <2>1 DEF TransportTypeOK
    <3> QED
      BY <1>4, <2>1, <3>1, ThrowsStep, NextWriteStep
      DEF Ack, NoAck, ReportsNoAck, ChannelSwitchThrows
  <2>3. timeouts' \in [Label -> Nat] /\ cold' \in [Label -> BOOLEAN]
    BY <1>4, <2>1, RecordAckOutcomeStep DEF Ack, NoAck
  <2>4. missed' \in [Handle -> Nat]
    <3>1. missed \in [Handle -> Nat]
      BY <1>1 DEF TypeOK
    <3>2. \/ missed' = [missed EXCEPT ![hdl[o]] = 0]
          \/ missed' = [missed EXCEPT ![hdl[o]] = @ + 1]
      BY Zenon, <1>4 DEF Ack, NoAck
    <3> QED
      BY <2>1, <3>1, <3>2
  <2>5. TransportTypeOK' /\ OneHandlePerEndpoint' /\ PortsRecoverable'
    BY <1>1, <2>1, SamePortsSameInvariants DEF TransportTypeOK, transportVars
  <2> QED
    BY <1>1, <2>1, <2>2, <2>3, <2>4, <2>5 DEF TypeOK
<1>5. CASE RetryAfterFault(o)
  <2>1. PICK ret \in HandleOrNone :
          /\ EnsureConnection(lab[o], TRUE, ret)
          /\ IF ret = None
             THEN Finish(o)
             ELSE /\ pc' = [pc EXCEPT ![o] = "ready"]
                  /\ hdl' = [hdl EXCEPT ![o] = ret]
                  /\ retried' = [retried EXCEPT ![o] = TRUE]
                  /\ \E n \in 1 .. MaxWrites : left' = [left EXCEPT ![o] = n]
                  /\ UNCHANGED <<lab, wasCold>>
    BY <1>5 DEF RetryAfterFault
  <2>2. lab[o] \in Label
    BY <1>1, <1>5 DEF RetryAfterFault, BusyCallsHold
  <2>3. OpTypeOK' /\ BusyCallsHold'
    <3>1. CASE ret = None
      BY <2>1, <3>1, FinishStep
    <3>2. CASE ret # None
      <4>1. /\ pc' = [pc EXCEPT ![o] = "ready"]
            /\ hdl' = [hdl EXCEPT ![o] = ret]
            /\ retried' = [retried EXCEPT ![o] = TRUE]
            /\ UNCHANGED <<lab, wasCold>>
        BY <2>1, <3>2
      <4>2. left' \in [Op -> 0 .. MaxWrites]
        BY <1>1, <2>1, <3>2 DEF TypeOK
      <4> QED
        BY <1>1, <2>2, <3>2, <4>1, <4>2
        DEF TypeOK, OpTypeOK, BusyCallsHold, PC, HandleOrNone
    <3> QED
      BY <3>1, <3>2
  <2>4. /\ TransportTypeOK'
        /\ reg' = [reg EXCEPT ![lab[o]] = ret]
        /\ timeouts' \in [Label -> Nat] /\ cold' \in [Label -> BOOLEAN]
        /\ err' \in [Label -> BOOLEAN]
        /\ missed' \in [Handle -> Nat] /\ resends' \in [Handle -> Nat]
        /\ OneHandlePerEndpoint' /\ PortsRecoverable'
    BY <2>1, <2>2, EnsureConnectionStep
  <2> QED
    BY <1>1, <1>5, <2>3, <2>4 DEF RetryAfterFault, TypeOK
<1> QED
  BY <1>2, <1>3, <1>4, <1>5 DEF CallStep

-----------------------------------------------------------------------------
(* The other steps. *)

LEMMA AcquireInvariant ==
    ASSUME IInv, NEW o \in Op, NEW l \in Label,
           Acquire(o, l) \/ ReconnectMidi(o, l)
    PROVE  IInv'
<1>1. TypeOK /\ BusyCallsHold
  BY DEF IInv
<1>2. PICK ret \in HandleOrNone, forced \in BOOLEAN :
        /\ EnsureConnection(l, forced, ret)
        /\ \/ UNCHANGED opVars
           \/ /\ ret # None
              /\ pc' = [pc EXCEPT ![o] = "ready"]
              /\ lab' = [lab EXCEPT ![o] = l]
              /\ hdl' = [hdl EXCEPT ![o] = ret]
              /\ \E n \in 1 .. MaxWrites : left' = [left EXCEPT ![o] = n]
              /\ UNCHANGED <<retried, wasCold>>
  <2>1. CASE Acquire(o, l)
    BY Zenon, <2>1 DEF Acquire
  <2>2. CASE ReconnectMidi(o, l)
    BY Zenon, <2>2 DEF ReconnectMidi
  <2> QED
    BY <2>1, <2>2
<1>3. exited' = exited
  BY DEF Acquire, ReconnectMidi
<1>4. OpTypeOK' /\ BusyCallsHold'
  BY <1>1, <1>2 DEF TypeOK, OpTypeOK, BusyCallsHold, PC, HandleOrNone, opVars
<1>5. /\ TransportTypeOK'
      /\ reg' = [reg EXCEPT ![l] = ret]
      /\ timeouts' \in [Label -> Nat] /\ cold' \in [Label -> BOOLEAN]
      /\ err' \in [Label -> BOOLEAN]
      /\ missed' \in [Handle -> Nat] /\ resends' \in [Handle -> Nat]
      /\ OneHandlePerEndpoint' /\ PortsRecoverable'
  BY <1>2, EnsureConnectionStep
<1> QED
  BY <1>1, <1>3, <1>4, <1>5 DEF IInv, TypeOK, OpTypeOK

LEMMA PlugInvariant ==
    ASSUME IInv, NEW l \in Label, Plug(l)
    PROVE  IInv'
<1>1. TypeOK /\ TransportTypeOK
  BY DEF IInv, TypeOK
<1>2. /\ plugged' \in [Label -> BOOLEAN]
      /\ fault' \in [Handle -> Faults]
      /\ \A x \in Handle : fault[x] = "poisoned" => fault'[x] = "poisoned"
      /\ UNCHANGED <<inPort, outPort, closed, sendErr, slow, live>>
  <2>1. CASE Unplug(l)
    BY <1>1, <2>1 DEF Unplug, TransportTypeOK, Faults
  <2>2. CASE Replug(l)
    BY <1>1, <2>2 DEF Replug, TransportTypeOK
  <2> QED
    BY <2>1, <2>2 DEF Plug
<1>3. UNCHANGED <<registryVars, opVars, exited, historyVars>>
  BY DEF Plug
<1>4. OneHandlePerEndpoint' /\ PortsRecoverable'
  BY <1>1, <1>2, <1>3, SamePortsSameInvariants DEF TransportTypeOK, registryVars
<1>5. TypeOK'
  BY <1>1, <1>2, <1>3 DEF TypeOK, TransportTypeOK, registryVars, opVars, historyVars
<1>6. BusyCallsHold'
  BY <1>3 DEF IInv, BusyCallsHold, opVars
<1> QED
  BY <1>4, <1>5, <1>6 DEF IInv

\* Both exit hooks together close every connection that is open.
LEMMA ExitInvariant ==
    ASSUME IInv, Exit
    PROVE  IInv'
<1> DEFINE cs == {reg[l] : l \in Label} \cup live
<1>1. /\ TypeOK /\ TransportTypeOK /\ OneHandlePerEndpoint /\ PortsRecoverable
  BY DEF IInv, TypeOK
<1>2. /\ closed' = ClosedAfter(cs) /\ live' = {}
      /\ inPort' = InAfterClose(cs) /\ outPort' = OutAfterClose(cs)
      /\ reg' = [l \in Label |-> None]
      /\ UNCHANGED <<plugged, sendErr, slow, fault, err, opVars, historyVars>>
  BY DEF Exit
<1>3. \A x \in Handle : closed'[x]
  BY <1>1, <1>2 DEF OneHandlePerEndpoint, ClosedAfter
<1>4. \A l \in Label : /\ outPort'[l] = None
                       /\ inPort'[l] # None => fault[inPort'[l]] = "poisoned"
  <2> SUFFICES ASSUME NEW l \in Label
               PROVE  /\ outPort'[l] = None
                      /\ inPort'[l] # None => fault[inPort'[l]] = "poisoned"
    OBVIOUS
  <2>1. reg[l] # None => reg[l] \in Closing(cs)
    BY <1>1 DEF Closing, OneHandlePerEndpoint, TypeOK, HandleOrNone
  <2> QED
    BY <1>1, <1>2, <2>1 DEF PortsRecoverable, OutAfterClose, InAfterClose
<1>5. OneHandlePerEndpoint' /\ PortsRecoverable'
  <2>1. OneHandlePerEndpoint'
    BY <1>2, <1>3 DEF OneHandlePerEndpoint
  <2>2. PortsRecoverable'
    BY <1>2, <1>4 DEF PortsRecoverable
  <2> QED
    BY <2>1, <2>2
<1>6. TransportTypeOK'
  BY <1>1, <1>2
  DEF TransportTypeOK, ClosedAfter, InAfterClose, OutAfterClose, HandleOrNone
<1>7. TypeOK' /\ BusyCallsHold'
  BY <1>1, <1>2, <1>6
  DEF IInv, Exit, TypeOK, BusyCallsHold, HandleOrNone, opVars, historyVars
<1> QED
  BY <1>5, <1>7 DEF IInv

-----------------------------------------------------------------------------
(* The theorems. *)

(***************************************************************************)
(* The inductive invariant holds throughout.                               *)
(***************************************************************************)
THEOREM Inductive == Spec => []IInv
<1>1. Init => IInv
  <2> SUFFICES ASSUME Init PROVE IInv
    OBVIOUS
  <2>1. TypeOK
    <3>1. TransportTypeOK
      BY DEF Init, TransportInit, TransportTypeOK, HandleOrNone, Faults
    <3>2. /\ pc \in [Op -> PC] /\ left \in [Op -> 0 .. MaxWrites]
          /\ lab \in [Op -> Label \cup {None}] /\ hdl \in [Op -> HandleOrNone]
          /\ wasCold \in [Op -> BOOLEAN] /\ retried \in [Op -> BOOLEAN]
      BY DEF Init, HandleOrNone, PC
    <3> QED
      BY <3>1, <3>2 DEF Init, TypeOK, HandleOrNone
  <2>2. BusyCallsHold
    BY DEF Init, BusyCallsHold
  <2>3. OneHandlePerEndpoint /\ PortsRecoverable
    BY DEF Init, TransportInit, OneHandlePerEndpoint, PortsRecoverable
  <2> QED
    BY <2>1, <2>2, <2>3 DEF IInv
<1>2. IInv /\ [Next]_vars => IInv'
  <2> SUFFICES ASSUME IInv, [Next]_vars PROVE IInv'
    OBVIOUS
  <2>1. CASE UNCHANGED vars
    BY <2>1 DEF IInv, TypeOK, TransportTypeOK, BusyCallsHold, OneHandlePerEndpoint,
                PortsRecoverable, vars, transportVars, registryVars, opVars, historyVars
  <2>2. CASE Next
    BY <2>1, <2>2, AcquireInvariant, CallStepInvariant, PlugInvariant, ExitInvariant
    DEF Next
  <2> QED
    BY <2>1, <2>2
<1> QED
  BY <1>1, <1>2, PTL DEF Spec

(***************************************************************************)
(* Every variable stays in its range.                                      *)
(***************************************************************************)
THEOREM TypeCorrect == Spec => []TypeOK
BY Inductive, PTL DEF IInv

(***************************************************************************)
(* The open connections are exactly the registered ones, each under one    *)
(* label (ensureConnection never drops an entry it has not closed).        *)
(***************************************************************************)
THEOREM OneHandle == Spec => []OneHandlePerEndpoint
BY Inductive, PTL DEF IInv

(***************************************************************************)
(* Only a wedged input port is ever lost to the process                    *)
(* (releaseNativeHandles).                                                 *)
(***************************************************************************)
THEOREM Recoverable == Spec => []PortsRecoverable
BY Inductive, PTL DEF IInv


(***************************************************************************)
(* A call starts an attempt only on the registered handle of its endpoint, *)
(* with no signal against it (the canary in ensureConnection, and the      *)
(* fresh handle of withHandleFaultRetry).                                  *)
(***************************************************************************)
THEOREM HealthyAtTheStart == Spec => AcquireIsHealthy
<1>1. ASSUME IInv, [Next]_vars, NEW o \in Op, StartsAttempt(o)
      PROVE  \E l \in Label, x \in Handle :
                 /\ lab'[o] = l /\ hdl'[o] = x /\ reg'[l] = x
                 /\ IsHandleHealthy(x, Signals[l])'
                 /\ ~CounterStale(l)'
  <2>1. TypeOK /\ BusyCallsHold
    BY <1>1 DEF IInv
  <2>2. pc[o] \in {"idle", "settling"} /\ pc'[o] = "ready"
    BY <1>1 DEF StartsAttempt
  <2>3. PICK l \in Label, ret \in HandleOrNone, forced \in BOOLEAN :
          /\ EnsureConnection(l, forced, ret)
          /\ ret # None
          /\ lab'[o] = l /\ hdl'[o] = ret
    <3>1. \/ \E l \in Label : Acquire(o, l)
          \/ RetryAfterFault(o)
      <4>1. pc' # pc
        BY <2>2
      <4>2. \/ \E p \in Op, l \in Label : Acquire(p, l)
            \/ \E p \in Op : CallStep(p)
        BY <1>1, <4>1 DEF Next, vars, opVars, ReconnectMidi, Plug, Exit
      <4>3. ASSUME NEW p \in Op, NEW l \in Label, Acquire(p, l)
            PROVE  p = o
        BY <2>1, <2>2, <4>3 DEF Acquire, opVars, TypeOK
      <4>4. ASSUME NEW p \in Op, CallStep(p)
            PROVE  p = o
        BY <2>1, <2>2, <4>4
        DEF CallStep, Send, Ack, Resend, NoAck, ReportsNoAck, ChannelSwitchThrows,
            RetryAfterFault, Throws, Settle,
            Finish, NextWrite, TypeOK
      <4>5. ~Send(o) /\ ~Ack(o) /\ ~Resend(o) /\ ~NoAck(o)
        BY <2>2
        DEF Send, Ack, Resend, NoAck, ReportsNoAck, ChannelSwitchThrows, Waiting
      <4> QED
        BY <4>2, <4>3, <4>4, <4>5 DEF CallStep
    <3>2. CASE RetryAfterFault(o)
      <4>1. PICK ret \in HandleOrNone :
              /\ EnsureConnection(lab[o], TRUE, ret)
              /\ ret = None => Finish(o)
              /\ ret # None => hdl' = [hdl EXCEPT ![o] = ret] /\ lab' = lab
        BY Zenon, <3>2 DEF RetryAfterFault
      <4>2. ret # None
        BY <2>1, <2>2, <4>1 DEF Finish, TypeOK
      <4>3. /\ lab[o] \in Label
            /\ lab'[o] = lab[o] /\ hdl'[o] = ret
        BY <2>1, <3>2, <4>1, <4>2 DEF TypeOK, BusyCallsHold, RetryAfterFault
      <4> QED
        BY <4>1, <4>2, <4>3
    <3>3. ASSUME NEW l \in Label, Acquire(o, l)
          PROVE  \E ret \in HandleOrNone : /\ EnsureConnection(l, FALSE, ret)
                                           /\ ret # None
                                           /\ lab'[o] = l /\ hdl'[o] = ret
      BY <2>1, <2>2, <3>3 DEF Acquire, opVars, TypeOK
    <3>4. CASE \E l \in Label : Acquire(o, l)
      <4>1. PICK l \in Label : Acquire(o, l)
        BY <3>4
      <4>2. PICK ret \in HandleOrNone : /\ EnsureConnection(l, FALSE, ret)
                                        /\ ret # None
                                        /\ lab'[o] = l /\ hdl'[o] = ret
        BY <3>3, <4>1
      <4> WITNESS l \in Label, ret \in HandleOrNone, FALSE \in BOOLEAN
      <4> QED
        BY <4>2
    <3> QED
      BY <3>1, <3>2, <3>4
  <2>4. /\ reg' = [reg EXCEPT ![l] = ret]
        /\ IsHandleHealthy(ret, Signals[l])' /\ ~CounterStale(l)'
    BY <1>1, <2>3, EnsureConnectionStep
  <2> QED
    BY <2>1, <2>3, <2>4 DEF TypeOK, HandleOrNone
<1>2. IInv /\ [Next]_vars =>
        [\A o \in Op : StartsAttempt(o) =>
          \E l \in Label, x \in Handle :
              /\ lab'[o] = l /\ hdl'[o] = x /\ reg'[l] = x
              /\ IsHandleHealthy(x, Signals[l])'
              /\ ~CounterStale(l)']_vars
  BY <1>1
<1> QED
  BY <1>2, Inductive, PTL DEF Spec, AcquireIsHealthy

(***************************************************************************)
(* The registry implements an EndpointLease: whatever makes a call         *)
(* reconnect, it ends up on the one registered handle of its endpoint or   *)
(* on no handle, and never on one that another call holds from before.     *)
(***************************************************************************)
THEOREM Implements == Spec => ImplementsLease
<1>1. Init => Lease!Init
  BY DEF Init, Lease!Init
<1>2. IInv /\ [Next]_vars => [Lease!Next]_<<reg, hdl>>
  <2> SUFFICES ASSUME IInv, [Next]_vars, ~UNCHANGED <<reg, hdl>> PROVE Lease!Next
    OBVIOUS
  <2>1. TypeOK /\ BusyCallsHold
    BY DEF IInv
  <2>2. \A x \in Unused : x \in Lease!Fresh
    BY DEF Unused, Lease!Fresh, IInv, OneHandlePerEndpoint
  <2>3. ASSUME NEW o \in Op, NEW l \in Label, NEW ret \in HandleOrNone,
               reg' = [reg EXCEPT ![l] = ret],
               ret \in Unused \cup {reg[l], None},
               hdl' = hdl \/ (ret # None /\ hdl' = [hdl EXCEPT ![o] = ret])
        PROVE  Lease!Next
    <3>1. CASE ret # None /\ hdl' = [hdl EXCEPT ![o] = ret]
      <4>1. ret \in Handle /\ Lease!Take(o, l, ret)
        BY <2>2, <2>3, <3>1 DEF HandleOrNone, Lease!Take
      <4> QED
        BY <4>1 DEF Lease!Next
    <3>2. CASE hdl' = hdl
      <4>1. ret # reg[l]
        BY <2>1, <2>3, <3>2 DEF TypeOK
      <4>2. ret \in Handle \cup {None} /\ Lease!Replace(l, ret)
        BY <2>2, <2>3, <3>2, <4>1 DEF HandleOrNone, Lease!Replace
      <4> QED
        BY <4>2 DEF Lease!Next
    <3> QED
      BY <2>3, <3>1, <3>2
  <2>4. ASSUME NEW o \in Op, Finish(o),
               reg' = reg \/ \E l \in Label : reg' = [reg EXCEPT ![l] = None]
        PROVE  Lease!Next
    <3>1. Lease!GiveUp(o)
      BY <2>4 DEF Finish, Lease!GiveUp
    <3> QED
      BY <3>1 DEF Lease!Next
  <2>5. ASSUME NEW o \in Op, NEW l \in Label, Acquire(o, l) \/ ReconnectMidi(o, l)
        PROVE  Lease!Next
    <3>1. PICK ret \in HandleOrNone, forced \in BOOLEAN :
            /\ EnsureConnection(l, forced, ret)
            /\ hdl' = hdl \/ (ret # None /\ hdl' = [hdl EXCEPT ![o] = ret])
      <4>1. CASE Acquire(o, l)
        BY Zenon, <4>1 DEF Acquire, opVars
      <4>2. CASE ReconnectMidi(o, l)
        BY Zenon, <4>2 DEF ReconnectMidi, opVars
      <4> QED
        BY <2>5, <4>1, <4>2
    <3> QED
      BY <2>3, <3>1, EnsureConnectionStep
  <2>6. ASSUME NEW o \in Op, CallStep(o) PROVE Lease!Next
    <3>1. CASE RetryAfterFault(o)
      <4>1. PICK ret \in HandleOrNone :
              /\ EnsureConnection(lab[o], TRUE, ret)
              /\ ret = None => Finish(o)
              /\ ret # None => hdl' = [hdl EXCEPT ![o] = ret]
        BY Zenon, <3>1 DEF RetryAfterFault
      <4>2. lab[o] \in Label
        BY <2>1, <3>1 DEF RetryAfterFault, BusyCallsHold
      <4>3. /\ reg' = [reg EXCEPT ![lab[o]] = ret]
            /\ ret \in Unused \cup {reg[lab[o]], None}
        BY <4>1, <4>2, EnsureConnectionStep
      <4> QED
        BY <2>3, <2>4, <4>1, <4>2, <4>3
    <3>2. CASE Send(o) \/ Ack(o) \/ Resend(o) \/ NoAck(o)
      <4>1. reg' = reg
        BY <3>2 DEF Send, Ack, Resend, NoAck, registryVars
      <4>2. hdl' = hdl \/ Finish(o)
        BY Zenon, <3>2
        DEF Send, Ack, Resend, NoAck, ReportsNoAck, ChannelSwitchThrows, Throws, Settle,
            NextWrite
      <4> QED
        BY <2>4, <4>1, <4>2
    <3> QED
      BY <2>6, <3>1, <3>2 DEF CallStep
  <2>7. ASSUME Exit PROVE Lease!Next
    BY <2>7 DEF Exit, opVars, Lease!Next, Lease!Shutdown
  <2>8. ~UNCHANGED vars /\ (\A l \in Label : ~Plug(l))
    BY DEF vars, registryVars, opVars, Plug
  <2> QED
    BY <2>5, <2>6, <2>7, <2>8 DEF Next
<1> QED
  BY <1>1, <1>2, Inductive, PTL DEF Spec, ImplementsLease, Lease!Spec

-----------------------------------------------------------------------------
(* One call at a time. *)

\* No call has endpoint l.
Free(l) == \A o \in Op : lab[o] # l

\* The client calls an endpoint, or has it reconnected, only when the call it made
\* to that endpoint before has returned; other endpoints may be busy.
Turn == \A o \in Op, l \in Label : Acquire(o, l) \/ ReconnectMidi(o, l) => Free(l)

TakesTurns == [][Turn]_vars

\* There is one call at a time.
OneCall == \A o, p \in Op : o = p

\* A connection shows that its last send failed, as those of connect() do.
ShowsSendError == \A l \in Label : "sendError" \in Signals[l]

\* An endpoint has one call.  The handle a call holds stays the registered one;
\* while the call waits for an ack, that handle's last send went out; and the
\* entry counts what its own handle missed.
Sequential ==
    /\ \A o \in Op : pc[o] = "idle" => lab[o] = None
    /\ \A o, p \in Op : lab[o] # None /\ lab[o] = lab[p] => o = p
    /\ \A o \in Op : ~exited /\ pc[o] # "idle" =>
           hdl[o] = reg[lab[o]] /\ (pc[o] \in Waiting => ~sendErr[hdl[o]])
    /\ \A l \in Label : reg[l] # None => timeouts[l] = missed[reg[l]]

\* A handle whose cold-start resend was sent is cold no more, unless that resend
\* is the send in progress, or failed: then the handle shows it.
Spent(l) == reg[l] # None /\ cold[l] /\ resends[reg[l]] # 0

Once ==
    /\ \A x \in Handle : resends[x] <= 1
    /\ \A o \in Op : ~exited /\ pc[o] = "await" /\ wasCold[o] => cold[lab[o]]
    /\ \A l \in Label : Spent(l) =>
           \/ \E o \in Op : lab[o] = l /\ pc[o] = "awaitResend"
           \/ sendErr[reg[l]] /\ \A o \in Op : lab[o] = l => pc[o] = "settling"

\* What ensureConnection does to the other endpoints, to a handle it hands out,
\* and to the one it discards.
LEMMA EnsureConnectionFrame ==
    ASSUME IInv,
           NEW l \in Label, NEW forced \in BOOLEAN, NEW ret \in HandleOrNone,
           EnsureConnection(l, forced, ret)
    PROVE  /\ reg' = [reg EXCEPT ![l] = ret]
           /\ \A m \in Label : m # l =>
                 /\ timeouts'[m] = timeouts[m] /\ cold'[m] = cold[m]
                 /\ reg[m] # None => /\ missed'[reg[m]] = missed[reg[m]]
                                     /\ resends'[reg[m]] = resends[reg[m]]
                                     /\ sendErr'[reg[m]] = sendErr[reg[m]]
           /\ ret # None =>
                 \/ timeouts'[l] = 0 /\ missed'[ret] = 0 /\ resends'[ret] = 0
                 \/ /\ ret = reg[l] /\ ~forced /\ ~CanaryStale(l)
                    /\ UNCHANGED <<transportVars, registryVars, historyVars>>
           /\ \A x \in Handle : resends'[x] \in {resends[x], 0}
           /\ \A x \in Handle : Discards(x) =>
                 x = reg[l] /\ (forced \/ CounterStale(l) \/ CanaryStale(l))
<1>1. /\ TypeOK /\ TransportTypeOK /\ OneHandlePerEndpoint
      /\ reg \in [Label -> HandleOrNone]
  BY DEF IInv, TypeOK
<1>2. reg' = [reg EXCEPT ![l] = ret]
  BY EnsureConnectionStep
<1>3. CASE /\ ret = reg[l]
           /\ ret # None => ~forced /\ ~CounterStale(l) /\ ~CanaryStale(l)
           /\ UNCHANGED <<transportVars, registryVars, historyVars>>
  BY <1>1, <1>2, <1>3 DEF transportVars, registryVars, historyVars, Discards
<1>4. CASE /\ Reconnect(l, forced, ret)
           /\ reg[l] # None => forced \/ CounterStale(l) \/ CanaryStale(l)
  <2> DEFINE inFree == InAfterClose({reg[l]})
             outFree == OutAfterClose({reg[l]})
  <2>1. \/ ret \in Unused /\ Opens(l, ret, inFree, outFree)
        \/ ret = None /\ FailsToOpen(l, inFree, outFree)
    BY Zenon, <1>4 DEF Reconnect
  <2>2. timeouts' = [timeouts EXCEPT ![l] = 0]
    BY Zenon, <1>4 DEF Reconnect
  <2> HIDE DEF inFree, outFree
  <2>3. ASSUME ret \in Unused, Opens(l, ret, inFree, outFree)
        PROVE  /\ ret \in Handle /\ closed[ret]
               /\ \A m \in Label : reg[m] # ret
               /\ closed' = [ClosedAfter({reg[l]}) EXCEPT ![ret] = FALSE]
               /\ sendErr' = [sendErr EXCEPT ![ret] = FALSE]
               /\ cold' = [cold EXCEPT ![l] = TRUE]
               /\ missed' = [missed EXCEPT ![ret] = 0]
               /\ resends' = [resends EXCEPT ![ret] = 0]
    BY <1>1, <2>3 DEF Unused, OneHandlePerEndpoint, Opens
  <2>4. ASSUME ret = None, FailsToOpen(l, inFree, outFree)
        PROVE  /\ closed' = ClosedAfter({reg[l]})
               /\ cold' = [cold EXCEPT ![l] = FALSE]
               /\ UNCHANGED <<sendErr, missed, resends>>
    BY <2>4 DEF FailsToOpen, historyVars
  <2>5. \A m \in Label : m # l => timeouts'[m] = timeouts[m] /\ cold'[m] = cold[m]
    BY <1>1, <2>1, <2>2, <2>3, <2>4 DEF TypeOK
  <2>6. ASSUME NEW m \in Label, reg[m] # None
        PROVE  /\ missed'[reg[m]] = missed[reg[m]]
               /\ resends'[reg[m]] = resends[reg[m]]
               /\ sendErr'[reg[m]] = sendErr[reg[m]]
    BY <1>1, <2>1, <2>3, <2>4, <2>6 DEF TypeOK, TransportTypeOK, HandleOrNone
  <2>7. ret # None => timeouts'[l] = 0 /\ missed'[ret] = 0 /\ resends'[ret] = 0
    BY <1>1, <2>1, <2>2, <2>3 DEF TypeOK
  <2>8. \A x \in Handle : resends'[x] \in {resends[x], 0}
    BY <1>1, <2>1, <2>3, <2>4 DEF TypeOK
  <2>9. \A x \in Handle : Discards(x) => x = reg[l]
    BY <1>1, <2>1, <2>3, <2>4 DEF Discards, ClosedAfter, TransportTypeOK
  <2> QED
    BY <1>2, <1>4, <2>5, <2>6, <2>7, <2>8, <2>9
<1> QED
  <2>1. \/ /\ ret = reg[l]
           /\ ret # None => ~forced /\ ~CounterStale(l) /\ ~CanaryStale(l)
           /\ UNCHANGED <<transportVars, registryVars, historyVars>>
        \/ /\ Reconnect(l, forced, ret)
           /\ reg[l] # None => forced \/ CounterStale(l) \/ CanaryStale(l)
    BY Zenon DEF EnsureConnection
  <2> QED
    BY <1>3, <1>4, <2>1

\* A step of a call leaves the other calls where they are.
LEMMA OthersStay ==
    ASSUME IInv, NEW o \in Op,
           CallStep(o) \/ \E l \in Label : Acquire(o, l) \/ ReconnectMidi(o, l)
    PROVE  \A p \in Op : p # o =>
               pc'[p] = pc[p] /\ lab'[p] = lab[p] /\ hdl'[p] = hdl[p]
                   /\ wasCold'[p] = wasCold[p]
<1> DEFINE Kept(p) == pc'[p] = pc[p] /\ lab'[p] = lab[p] /\ hdl'[p] = hdl[p]
                          /\ wasCold'[p] = wasCold[p]
           Rest == \A p \in Op : p # o => Kept(p)
<1>1. /\ pc \in [Op -> PC] /\ lab \in [Op -> Label \cup {None}]
      /\ hdl \in [Op -> HandleOrNone] /\ wasCold \in [Op -> BOOLEAN]
  BY DEF IInv, TypeOK
<1>2. Finish(o) \/ Settle(o) => Rest
  BY <1>1 DEF Finish, Settle
<1>3. ASSUME NEW s \in BOOLEAN PROVE Throws(o, s) => Rest
  BY <1>2 DEF Throws
<1>4. NextWrite(o) => Rest
  BY <1>1, <1>2 DEF NextWrite
<1>5. CASE Send(o)
  BY <1>1, <1>3, <1>5 DEF Send
<1>6. CASE Resend(o)
  BY <1>1, <1>3, <1>6 DEF Resend
<1>7. CASE Ack(o)
  BY <1>4, <1>7 DEF Ack
<1>8. CASE NoAck(o)
  <2>1. NextWrite(o) \/ Throws(o, sendErr[hdl[o]])
    BY <1>8 DEF NoAck, ReportsNoAck, ChannelSwitchThrows
  <2>2. Throws(o, sendErr[hdl[o]]) => Settle(o) \/ Finish(o)
    BY DEF Throws
  <2> QED
    BY <1>2, <1>4, <2>1, <2>2
<1>9. CASE RetryAfterFault(o)
  <2>1. \/ Finish(o)
        \/ \E ret \in HandleOrNone :
              /\ pc' = [pc EXCEPT ![o] = "ready"]
              /\ hdl' = [hdl EXCEPT ![o] = ret]
              /\ UNCHANGED <<lab, wasCold>>
    BY Zenon, <1>9 DEF RetryAfterFault
  <2> QED
    BY <1>1, <1>2, <2>1
<1>10. CASE \E l \in Label : Acquire(o, l)
  <2>1. \/ UNCHANGED <<pc, lab, hdl, wasCold>>
        \/ \E ret \in HandleOrNone, l \in Label :
              /\ pc' = [pc EXCEPT ![o] = "ready"]
              /\ lab' = [lab EXCEPT ![o] = l]
              /\ hdl' = [hdl EXCEPT ![o] = ret]
              /\ UNCHANGED wasCold
    BY <1>10 DEF Acquire, opVars
  <2> QED
    BY <1>1, <2>1
<1>11. CASE \E l \in Label : ReconnectMidi(o, l)
  BY <1>11 DEF ReconnectMidi, opVars
<1> QED
  BY <1>5, <1>6, <1>7, <1>8, <1>9, <1>10, <1>11 DEF CallStep

\* How a step of a call may end: the call returned, waits to retry, or goes on.
LEMMA TailStep ==
    ASSUME IInv, NEW o \in Op, NEW s \in BOOLEAN, Throws(o, s) \/ NextWrite(o)
    PROVE  \/ pc'[o] = "idle" /\ lab'[o] = None
           \/ pc'[o] = "settling" /\ lab'[o] = lab[o] /\ hdl'[o] = hdl[o]
                  /\ Throws(o, s) /\ s
           \/ pc'[o] = "ready" /\ lab'[o] = lab[o] /\ hdl'[o] = hdl[o] /\ NextWrite(o)
<1>1. /\ pc \in [Op -> PC] /\ lab \in [Op -> Label \cup {None}]
      /\ hdl \in [Op -> HandleOrNone]
  BY DEF IInv, TypeOK
<1>2. CASE Finish(o)
  BY <1>1, <1>2 DEF Finish
<1>3. CASE Throws(o, s) /\ ~Finish(o)
  <2>1. Settle(o) /\ s
    BY Zenon, <1>3 DEF Throws
  <2>2. pc' = [pc EXCEPT ![o] = "settling"] /\ lab' = lab /\ hdl' = hdl
    BY <2>1 DEF Settle
  <2> QED
    BY <1>1, <1>3, <2>1, <2>2
<1>4. CASE NextWrite(o) /\ ~Finish(o)
  <2>1. pc' = [pc EXCEPT ![o] = "ready"] /\ lab' = lab /\ hdl' = hdl
    BY Zenon, <1>4 DEF NextWrite
  <2> QED
    BY <1>1, <1>4, <2>1
<1> QED
  BY <1>2, <1>3, <1>4

\* A send touches one handle: it is accepted, and the call waits, or it is thrown
\* back, and the handle shows it.
LEMMA SendStep ==
    ASSUME IInv, NEW o \in Op, pc[o] # "idle", NEW p, p \in {"await", "awaitResend"},
           \/ SendAccepted(o) /\ pc' = [pc EXCEPT ![o] = p] /\ UNCHANGED <<lab, hdl>>
           \/ SendThrows(o) /\ Throws(o, TRUE)
    PROVE  /\ \A x \in Handle : x # hdl[o] => sendErr'[x] = sendErr[x]
           /\ \/ pc'[o] = p /\ lab'[o] = lab[o] /\ hdl'[o] = hdl[o]
                     /\ SendAccepted(o) /\ ~sendErr'[hdl[o]]
              \/ pc'[o] = "idle" /\ lab'[o] = None /\ sendErr'[hdl[o]]
              \/ pc'[o] = "settling" /\ lab'[o] = lab[o] /\ hdl'[o] = hdl[o]
                     /\ sendErr'[hdl[o]]
<1>1. /\ pc \in [Op -> PC] /\ sendErr \in [Handle -> BOOLEAN] /\ hdl[o] \in Handle
  BY DEF IInv, TypeOK, TransportTypeOK, BusyCallsHold
<1>2. CASE SendAccepted(o) /\ pc' = [pc EXCEPT ![o] = p] /\ UNCHANGED <<lab, hdl>>
  BY <1>1, <1>2 DEF SendAccepted
<1>3. CASE SendThrows(o) /\ Throws(o, TRUE)
  <2>1. sendErr' = [sendErr EXCEPT ![hdl[o]] = TRUE]
    BY <1>3 DEF SendThrows
  <2>2. \/ pc'[o] = "idle" /\ lab'[o] = None
        \/ pc'[o] = "settling" /\ lab'[o] = lab[o] /\ hdl'[o] = hdl[o]
    <3>1. ~(pc'[o] = "ready")
      BY <1>1, <1>3 DEF Throws, Settle, Finish
    <3> QED
      BY <1>3, <3>1, TailStep
  <2> QED
    BY <1>1, <2>1, <2>2
<1> QED
  BY <1>2, <1>3

\* A step of the only call of endpoint l, which leaves the others as they are.
LEMMA OnlyHere ==
    ASSUME IInv, Sequential, NEW o \in Op, NEW l \in Label,
           \A p \in Op : p # o =>
               pc'[p] = pc[p] /\ lab'[p] = lab[p] /\ hdl'[p] = hdl[p] /\ lab[p] # l,
           \A m \in Label : m # l =>
               /\ reg'[m] = reg[m] /\ timeouts'[m] = timeouts[m]
               /\ reg[m] # None => /\ missed'[reg[m]] = missed[reg[m]]
                                   /\ sendErr'[reg[m]] = sendErr[reg[m]],
           \/ pc'[o] = "idle" /\ lab'[o] = None
           \/ /\ pc'[o] # "idle" /\ lab'[o] = l /\ hdl'[o] = reg'[l]
              /\ pc'[o] \in Waiting => ~sendErr'[reg'[l]],
           reg'[l] # None => timeouts'[l] = missed'[reg'[l]],
           exited' = exited
    PROVE  Sequential'
<1>1. /\ lab \in [Op -> Label \cup {None}] /\ BusyCallsHold
  BY DEF IInv, TypeOK
<1>2. \A p \in Op : pc'[p] = "idle" => lab'[p] = None
  BY DEF Sequential
<1>3. \A p, q \in Op : lab'[p] # None /\ lab'[p] = lab'[q] => p = q
  BY DEF Sequential
<1>4. ASSUME NEW p \in Op, p # o, ~exited', pc'[p] # "idle"
      PROVE  hdl'[p] = reg'[lab'[p]] /\ (pc'[p] \in Waiting => ~sendErr'[hdl'[p]])
  <2>1. /\ lab[p] \in Label /\ lab[p] # l /\ hdl[p] = reg[lab[p]] /\ hdl[p] # None
        /\ pc[p] \in Waiting => ~sendErr[hdl[p]]
    BY <1>1, <1>4 DEF Sequential, BusyCallsHold
  <2> QED
    BY <1>4, <2>1
<1>5. \A m \in Label : reg'[m] # None => timeouts'[m] = missed'[reg'[m]]
  BY DEF Sequential
<1> QED
  BY <1>2, <1>3, <1>4, <1>5 DEF Sequential

\* Who is under way is alone at its endpoint.
LEMMA AloneHere ==
    ASSUME IInv, Sequential, NEW o \in Op, pc[o] # "idle"
    PROVE  \A p \in Op : p # o => lab[p] # lab[o]
BY DEF IInv, BusyCallsHold, Sequential

LEMMA CallStepSequential ==
    ASSUME IInv, Sequential, ~exited, NEW o \in Op, CallStep(o)
    PROVE  Sequential'
<1>1. /\ TypeOK /\ TransportTypeOK /\ BusyCallsHold /\ OneHandlePerEndpoint
      /\ pc[o] # "idle"
      /\ \A p \in Op : p # o =>
            pc'[p] = pc[p] /\ lab'[p] = lab[p] /\ hdl'[p] = hdl[p] /\ lab[p] # lab[o]
  <2>1. pc[o] # "idle"
    BY DEF CallStep, Send, Ack, Resend, NoAck, ReportsNoAck, ChannelSwitchThrows,
           RetryAfterFault, Waiting
  <2> QED
    BY <2>1, OthersStay, AloneHere DEF IInv, TypeOK
<1>2. PICK l \in Label, x \in Handle : l = lab[o] /\ x = hdl[o]
  BY <1>1 DEF BusyCallsHold
<1>3. x = reg[l] /\ timeouts[l] = missed[x] /\ timeouts[l] \in Nat
  BY <1>1, <1>2 DEF Sequential, TypeOK
<1>4. \A m \in Label : m # l /\ reg[m] # None => reg[m] # x /\ reg[m] \in Handle
  BY <1>1, <1>3 DEF OneHandlePerEndpoint, TypeOK, HandleOrNone
<1>5. CASE Send(o) \/ Resend(o)
  <2>1. UNCHANGED <<reg, timeouts, missed, exited>>
    BY <1>5 DEF Send, Resend, registryVars, historyVars
  <2>2. /\ \A y \in Handle : y # x => sendErr'[y] = sendErr[y]
        /\ \/ pc'[o] \in Waiting /\ lab'[o] = l /\ hdl'[o] = x /\ ~sendErr'[x]
           \/ pc'[o] = "idle" /\ lab'[o] = None
           \/ pc'[o] = "settling" /\ lab'[o] = l /\ hdl'[o] = x
    <3>1. CASE Send(o)
      BY <1>1, <1>2, <3>1, SendStep DEF Send, Waiting
    <3>2. CASE Resend(o)
      BY <1>1, <1>2, <3>2, SendStep DEF Resend, Waiting
    <3> QED
      BY <1>5, <3>1, <3>2
  <2> QED
    BY <1>1, <1>2, <1>3, <1>4, <2>1, <2>2, OnlyHere DEF Waiting
<1>6. CASE Ack(o) \/ NoAck(o)
  <2>1. UNCHANGED <<sendErr, reg, exited>>
    BY <1>6 DEF Ack, NoAck, transportVars
  <2>2. \/ timeouts' = [timeouts EXCEPT ![l] = 0] /\ missed' = [missed EXCEPT ![x] = 0]
        \/ timeouts' = [timeouts EXCEPT ![l] = @ + 1] /\ missed' = [missed EXCEPT ![x] = @ + 1]
    BY <1>2, <1>3, <1>6 DEF Ack, NoAck, RecordAckOutcome
  <2>3. /\ timeouts'[l] = missed'[x]
        /\ \A m \in Label : m # l =>
              /\ timeouts'[m] = timeouts[m]
              /\ reg[m] # None => missed'[reg[m]] = missed[reg[m]]
    BY <1>1, <1>3, <1>4, <2>2 DEF TypeOK
  <2>4. \/ pc'[o] = "idle" /\ lab'[o] = None
        \/ pc'[o] \in {"settling", "ready"} /\ lab'[o] = l /\ hdl'[o] = x
    <3>1. sendErr[x] \in BOOLEAN
      BY <1>1 DEF TransportTypeOK
    <3>2. NextWrite(o) \/ Throws(o, sendErr[x])
      BY <1>2, <1>6 DEF Ack, NoAck, ReportsNoAck, ChannelSwitchThrows
    <3> QED
      BY <1>2, <3>1, <3>2, TailStep
  <2> QED
    BY <1>1, <1>2, <1>3, <2>1, <2>3, <2>4, OnlyHere DEF Waiting
<1>7. CASE RetryAfterFault(o)
  <2>1. PICK ret \in HandleOrNone, forced \in BOOLEAN :
          /\ forced /\ EnsureConnection(l, forced, ret)
          /\ ret = None => Finish(o)
          /\ ret # None => /\ pc' = [pc EXCEPT ![o] = "ready"]
                           /\ hdl' = [hdl EXCEPT ![o] = ret] /\ lab' = lab
    BY Zenon, <1>2, <1>7 DEF RetryAfterFault
  <2>2. /\ reg' = [reg EXCEPT ![l] = ret]
        /\ \A m \in Label : m # l =>
              /\ timeouts'[m] = timeouts[m]
              /\ reg[m] # None => /\ missed'[reg[m]] = missed[reg[m]]
                                  /\ sendErr'[reg[m]] = sendErr[reg[m]]
        /\ ret # None => timeouts'[l] = 0 /\ missed'[ret] = 0
    <3>1. reg' = [reg EXCEPT ![l] = ret]
      BY <1>2, <2>1, EnsureConnectionFrame
    <3>2. \A m \in Label : m # l =>
              /\ timeouts'[m] = timeouts[m]
              /\ reg[m] # None => /\ missed'[reg[m]] = missed[reg[m]]
                                  /\ sendErr'[reg[m]] = sendErr[reg[m]]
      <4>1. EnsureConnection(l, forced, ret)
        BY <2>1
      <4> QED
        BY <4>1, EnsureConnectionFrame
    <3>3. ret # None => \/ timeouts'[l] = 0 /\ missed'[ret] = 0 /\ resends'[ret] = 0
                        \/ ~forced
      BY <1>2, <2>1, EnsureConnectionFrame
    <3> QED
      BY <2>1, <3>1, <3>2, <3>3
  <2>3. \/ pc'[o] = "idle" /\ lab'[o] = None
        \/ pc'[o] = "ready" /\ lab'[o] = l /\ hdl'[o] = ret
    BY <1>1, <1>2, <2>1 DEF Finish, TypeOK
  <2>4. exited' = exited /\ reg'[l] = ret /\ \A m \in Label : m # l => reg'[m] = reg[m]
    BY <1>1, <1>7, <2>2 DEF RetryAfterFault, TypeOK
  <2> QED
    BY <1>1, <1>2, <2>2, <2>3, <2>4, OnlyHere DEF Waiting
<1> QED
  BY <1>5, <1>6, <1>7 DEF CallStep

\* A call that starts, and a reconnect by hand.
LEMMA AcquireSequential ==
    ASSUME IInv, Sequential, ~exited, NEW o \in Op, NEW l \in Label, Free(l),
           Acquire(o, l) \/ ReconnectMidi(o, l)
    PROVE  Sequential'
<1>1. /\ TypeOK /\ pc[o] = "idle" /\ lab[o] = None /\ exited' = exited
      /\ \A p \in Op : p # o =>
            pc'[p] = pc[p] /\ lab'[p] = lab[p] /\ hdl'[p] = hdl[p] /\ lab[p] # l
  BY OthersStay DEF IInv, Sequential, Free, Acquire, ReconnectMidi
<1>2. PICK ret \in HandleOrNone, forced \in BOOLEAN :
        /\ EnsureConnection(l, forced, ret)
        /\ \/ pc' = pc /\ lab' = lab
           \/ /\ pc' = [pc EXCEPT ![o] = "ready"]
              /\ lab' = [lab EXCEPT ![o] = l]
              /\ hdl' = [hdl EXCEPT ![o] = ret]
  <2>1. CASE Acquire(o, l)
    BY Zenon, <2>1 DEF Acquire, opVars
  <2>2. CASE ReconnectMidi(o, l)
    BY Zenon, <2>2 DEF ReconnectMidi, opVars
  <2> QED
    BY <2>1, <2>2
<1>3. /\ reg' = [reg EXCEPT ![l] = ret]
      /\ \A m \in Label : m # l =>
            /\ timeouts'[m] = timeouts[m]
            /\ reg[m] # None => /\ missed'[reg[m]] = missed[reg[m]]
                                /\ sendErr'[reg[m]] = sendErr[reg[m]]
      /\ ret # None => \/ timeouts'[l] = 0 /\ missed'[ret] = 0
                       \/ /\ ret = reg[l]
                          /\ UNCHANGED <<registryVars, historyVars>>
  BY <1>2, EnsureConnectionFrame
<1>4. reg'[l] # None => timeouts'[l] = missed'[reg'[l]]
  BY <1>1, <1>3 DEF Sequential, TypeOK, registryVars, historyVars
<1>5. \A m \in Label : m # l => reg'[m] = reg[m]
  BY <1>1, <1>3 DEF TypeOK
<1>6. \/ pc'[o] = "idle" /\ lab'[o] = None
      \/ pc'[o] = "ready" /\ lab'[o] = l /\ hdl'[o] = reg'[l]
  BY <1>1, <1>2, <1>3 DEF TypeOK
<1> QED
  BY <1>1, <1>3, <1>4, <1>5, <1>6, OnlyHere DEF Waiting

\* The same step, and the cold-start resends.
LEMMA OnlySpent ==
    ASSUME Sequential, Once, NEW o \in Op, NEW l \in Label,
           \A p \in Op : p # o =>
               pc'[p] = pc[p] /\ lab'[p] = lab[p] /\ wasCold'[p] = wasCold[p]
                   /\ lab[p] # l,
           \A m \in Label : m # l =>
               /\ reg'[m] = reg[m] /\ cold'[m] = cold[m]
               /\ reg[m] # None => /\ resends'[reg[m]] = resends[reg[m]]
                                   /\ sendErr'[reg[m]] = sendErr[reg[m]],
           lab[o] \in {l, None}, lab'[o] \in {l, None},
           Spent(l)' => \/ lab'[o] = l /\ pc'[o] = "awaitResend"
                        \/ sendErr'[reg'[l]] /\ (lab'[o] = l => pc'[o] = "settling"),
           \A x \in Handle : resends'[x] <= 1,
           ~exited /\ pc'[o] = "await" /\ wasCold'[o] => cold'[lab'[o]],
           IInv, exited' = exited
    PROVE  Once'
<1>1. ASSUME NEW m \in Label, Spent(m)'
      PROVE  \/ \E p \in Op : lab'[p] = m /\ pc'[p] = "awaitResend"
             \/ sendErr'[reg'[m]] /\ \A p \in Op : lab'[p] = m => pc'[p] = "settling"
  <2>1. CASE m = l
    BY <1>1, <2>1
  <2>2. CASE m # l
    <3>1. Spent(m) /\ reg[m] # None /\ reg'[m] = reg[m] /\ sendErr'[reg[m]] = sendErr[reg[m]]
      BY <1>1, <2>2 DEF Spent
    <3>2. /\ lab[o] # m /\ lab'[o] # m
      BY <2>2, NoneIsNoLabel
    <3>3. CASE \E p \in Op : lab[p] = m /\ pc[p] = "awaitResend"
      BY <3>2, <3>3
    <3>4. CASE sendErr[reg[m]] /\ \A p \in Op : lab[p] = m => pc[p] = "settling"
      BY <3>1, <3>2, <3>4
    <3> QED
      BY <3>1, <3>3, <3>4 DEF Once
  <2> QED
    BY <2>1, <2>2
<1>2. ASSUME NEW p \in Op, ~exited', pc'[p] = "await", wasCold'[p]
      PROVE  cold'[lab'[p]]
  <2>1. CASE p = o
    BY <1>2, <2>1
  <2>2. CASE p # o
    <3>1. cold[lab[p]] /\ lab[p] \in Label /\ lab[p] # l
      BY <1>2, <2>2 DEF Once, IInv, BusyCallsHold
    <3> QED
      BY <1>2, <2>2, <3>1
  <2> QED
    BY <2>1, <2>2
<1> QED
  BY <1>1, <1>2 DEF Once

LEMMA CallStepOnce ==
    ASSUME IInv, Sequential, Once, ~exited, NEW o \in Op, CallStep(o)
    PROVE  Once'
<1>1. /\ TypeOK /\ TransportTypeOK /\ BusyCallsHold /\ OneHandlePerEndpoint
      /\ pc[o] # "idle"
      /\ \A p \in Op : p # o =>
            pc'[p] = pc[p] /\ lab'[p] = lab[p] /\ wasCold'[p] = wasCold[p]
                /\ lab[p] # lab[o]
      /\ \A y \in Handle : resends[y] \in Nat /\ resends[y] <= 1
  <2>1. pc[o] # "idle"
    BY DEF CallStep, Send, Ack, Resend, NoAck, ReportsNoAck, ChannelSwitchThrows,
           RetryAfterFault, Waiting
  <2> QED
    BY <2>1, OthersStay, AloneHere DEF IInv, TypeOK, Once
<1>2. PICK l \in Label, x \in Handle : l = lab[o] /\ x = hdl[o]
  BY <1>1 DEF BusyCallsHold
<1>3. x = reg[l]
  BY <1>1, <1>2 DEF Sequential
<1>4. \A m \in Label : m # l /\ reg[m] # None => reg[m] # x /\ reg[m] \in Handle
  BY <1>1, <1>3 DEF OneHandlePerEndpoint, TypeOK, HandleOrNone
<1>5. Spent(l) => \/ pc[o] = "awaitResend"
                  \/ sendErr[x] /\ pc[o] = "settling"
  BY <1>1, <1>2, <1>3 DEF Once
<1>6. CASE Send(o) \/ Resend(o)
  <2>1. UNCHANGED <<reg, cold, exited>>
    BY <1>6 DEF Send, Resend, registryVars
  <2>2. /\ \A y \in Handle : y # x => sendErr'[y] = sendErr[y]
        /\ \/ pc'[o] = "await" /\ lab'[o] = l /\ Send(o)
           \/ pc'[o] = "awaitResend" /\ lab'[o] = l /\ Resend(o)
           \/ pc'[o] = "idle" /\ lab'[o] = None /\ sendErr'[x]
           \/ pc'[o] = "settling" /\ lab'[o] = l /\ sendErr'[x]
    <3>1. CASE Send(o)
      BY <1>1, <1>2, <3>1, SendStep DEF Send
    <3>2. CASE Resend(o)
      BY <1>1, <1>2, <3>2, SendStep DEF Resend
    <3> QED
      BY <1>6, <3>1, <3>2
  <2>3. lab[o] = l /\ lab'[o] \in {l, None}
    BY <1>2, <2>2
  <2>4. CASE Send(o)
    <3>1. resends' = resends /\ ~Spent(l)
      BY <1>5, <2>4 DEF Send, historyVars
    <3>2. pc'[o] = "await" => wasCold'[o] = cold[l]
      <4>1. SUFFICES ASSUME pc'[o] = "await" PROVE wasCold'[o] = cold[l]
        OBVIOUS
      <4>2. ~Throws(o, TRUE)
        BY <1>1, <4>1 DEF Throws, Settle, Finish, TypeOK
      <4>3. wasCold' = [wasCold EXCEPT ![o] = cold[lab[o]]]
        BY <2>4, <4>2 DEF Send
      <4> QED
        BY <1>1, <1>2, <4>3 DEF TypeOK
    <3>3. ~Spent(l)'
      BY <2>1, <3>1 DEF Spent
    <3> QED
      BY <1>1, <1>2, <1>4, <2>1, <2>2, <2>3, <3>1, <3>2, <3>3, OnlySpent
  <2>5. CASE Resend(o)
    <3>1. pc[o] = "await" /\ wasCold[o] /\ resends' = [resends EXCEPT ![x] = @ + 1]
      BY <1>2, <2>5 DEF Resend
    <3>2. resends[x] = 0
      BY <1>1, <1>2, <1>3, <1>5, <3>1, NoneIsNoHandle DEF Once, Spent
    <3>3. /\ \A y \in Handle : resends'[y] <= 1
          /\ \A y \in Handle : y # x => resends'[y] = resends[y]
      BY <1>1, <3>1, <3>2 DEF TypeOK
    <3>4. pc'[o] # "await"
      BY <2>2, <3>1 DEF Send
    <3> QED
      BY <1>1, <1>2, <1>3, <1>4, <2>1, <2>2, <2>3, <3>1, <3>3, <3>4, OnlySpent
      DEF Send
  <2> QED
    BY <1>6, <2>4, <2>5
<1>7. CASE Ack(o) \/ NoAck(o)
  <2>1. UNCHANGED <<sendErr, reg, exited, resends>>
    BY <1>7 DEF Ack, NoAck, transportVars
  <2>2. cold' = [cold EXCEPT ![l] = FALSE]
    BY <1>2, <1>3, <1>7, NoneIsNoHandle DEF Ack, NoAck, RecordAckOutcome
  <2>3. pc'[o] # "await" /\ lab'[o] \in {l, None}
    <3>1. sendErr[x] \in BOOLEAN
      BY <1>1 DEF TransportTypeOK
    <3>2. NextWrite(o) \/ Throws(o, sendErr[x])
      BY <1>2, <1>7 DEF Ack, NoAck, ReportsNoAck, ChannelSwitchThrows
    <3> QED
      BY <1>2, <3>1, <3>2, TailStep
  <2>4. ~Spent(l)' /\ \A m \in Label : m # l => cold'[m] = cold[m]
    BY <1>1, <2>2 DEF Spent, TypeOK
  <2> QED
    BY <1>1, <1>2, <2>1, <2>3, <2>4, OnlySpent
<1>8. CASE RetryAfterFault(o)
  <2>1. PICK ret \in HandleOrNone, forced \in BOOLEAN :
          /\ forced /\ EnsureConnection(l, forced, ret)
          /\ ret = None => Finish(o)
          /\ ret # None => pc' = [pc EXCEPT ![o] = "ready"] /\ lab' = lab
    BY Zenon, <1>2, <1>8 DEF RetryAfterFault
  <2>2. EnsureConnection(l, forced, ret) /\ forced
    BY <2>1
  <2>3. reg' = [reg EXCEPT ![l] = ret]
    BY <2>2, EnsureConnectionFrame
  <2>4. \A m \in Label : m # l =>
            /\ cold'[m] = cold[m]
            /\ reg[m] # None => /\ resends'[reg[m]] = resends[reg[m]]
                                /\ sendErr'[reg[m]] = sendErr[reg[m]]
    <3>1. EnsureConnection(l, forced, ret)
      BY <2>2
    <3> QED
      BY <3>1, EnsureConnectionFrame
  <2>5. ret # None => resends'[ret] = 0
    BY <2>2, EnsureConnectionFrame
  <2>6. \A y \in Handle : resends'[y] <= 1
    <3>1. \A y \in Handle : resends'[y] \in {resends[y], 0}
      BY <2>2, EnsureConnectionFrame
    <3> QED
      BY <1>1, <3>1
  <2>7. pc'[o] \in {"idle", "ready"} /\ lab'[o] \in {l, None}
    BY <1>1, <1>2, <2>1 DEF Finish, TypeOK
  <2>8. ~Spent(l)' /\ \A m \in Label : m # l => reg'[m] = reg[m]
    BY <1>1, <2>3, <2>5 DEF Spent, TypeOK
  <2>9. exited' = exited
    BY <1>8 DEF RetryAfterFault
  <2> QED
    BY <1>1, <1>2, <2>4, <2>6, <2>7, <2>8, <2>9, OnlySpent
<1> QED
  BY <1>6, <1>7, <1>8 DEF CallStep

LEMMA AcquireOnce ==
    ASSUME ShowsSendError, IInv, Sequential, Once, ~exited,
           NEW o \in Op, NEW l \in Label, Free(l),
           Acquire(o, l) \/ ReconnectMidi(o, l)
    PROVE  Once'
<1>1. /\ TypeOK /\ pc[o] = "idle" /\ lab[o] = None /\ exited' = exited
      /\ \A p \in Op : p # o =>
            pc'[p] = pc[p] /\ lab'[p] = lab[p] /\ wasCold'[p] = wasCold[p] /\ lab[p] # l
      /\ \A y \in Handle : resends[y] \in Nat /\ resends[y] <= 1
  <2>1. /\ TypeOK /\ pc[o] = "idle" /\ exited' = exited
    BY DEF IInv, Acquire, ReconnectMidi
  <2>2. lab[o] = None
    BY <2>1 DEF Sequential
  <2>3. \A y \in Handle : resends[y] \in Nat /\ resends[y] <= 1
    BY <2>1 DEF TypeOK, Once
  <2> QED
    BY <2>1, <2>2, <2>3, OthersStay DEF Free
<1>2. PICK ret \in HandleOrNone, forced \in BOOLEAN :
        /\ EnsureConnection(l, forced, ret)
        /\ \/ pc' = pc /\ lab' = lab
           \/ /\ pc' = [pc EXCEPT ![o] = "ready"]
              /\ lab' = [lab EXCEPT ![o] = l]
  <2>1. CASE Acquire(o, l)
    BY Zenon, <2>1 DEF Acquire, opVars
  <2>2. CASE ReconnectMidi(o, l)
    BY Zenon, <2>2 DEF ReconnectMidi, opVars
  <2> QED
    BY <2>1, <2>2
<1>3. Spent(l) => sendErr[reg[l]]
  BY DEF Once, Free
<1>4. EnsureConnection(l, forced, ret)
  BY <1>2
<1>5. reg' = [reg EXCEPT ![l] = ret]
  BY <1>4, EnsureConnectionFrame
<1>6. \A m \in Label : m # l =>
          /\ cold'[m] = cold[m]
          /\ reg[m] # None => /\ resends'[reg[m]] = resends[reg[m]]
                              /\ sendErr'[reg[m]] = sendErr[reg[m]]
  BY <1>4, EnsureConnectionFrame
<1>7. ~Spent(l)'
  <2>1. CASE ret = None
    BY <1>1, <1>5, <2>1 DEF Spent, TypeOK
  <2>2. CASE ret # None /\ resends'[ret] = 0
    BY <1>1, <1>5, <2>2 DEF Spent, TypeOK
  <2>3. CASE /\ ret # None /\ ret = reg[l] /\ ~CanaryStale(l)
             /\ UNCHANGED <<transportVars, registryVars, historyVars>>
    <3>1. ~sendErr[reg[l]]
      BY <2>3 DEF CanaryStale, IsHandleHealthy, ShowsSendError
    <3>2. ~Spent(l)
      BY <1>3, <3>1
    <3> QED
      BY <2>3, <3>2 DEF Spent, registryVars, historyVars
  <2>4. ret # None => \/ resends'[ret] = 0
                      \/ /\ ret = reg[l] /\ ~CanaryStale(l)
                         /\ UNCHANGED <<transportVars, registryVars, historyVars>>
    BY <1>4, EnsureConnectionFrame
  <2> QED
    BY <2>1, <2>2, <2>3, <2>4
<1>8. \A y \in Handle : resends'[y] <= 1
  <2>1. \A y \in Handle : resends'[y] \in {resends[y], 0}
    BY <1>4, EnsureConnectionFrame
  <2> QED
    BY <1>1, <2>1
<1>9. pc'[o] # "await" /\ lab'[o] \in {l, None}
  BY <1>1, <1>2 DEF TypeOK
<1>10. \A m \in Label : m # l => reg'[m] = reg[m]
  BY <1>1, <1>5 DEF TypeOK
<1> QED
  BY <1>1, <1>6, <1>7, <1>8, <1>9, <1>10, OnlySpent

\* Plugging, unplugging and the end of the process.
LEMMA OthersSequential ==
    ASSUME IInv, Exit \/ (\E l \in Label : Plug(l)) \/ UNCHANGED vars
    PROVE  (Sequential => Sequential') /\ (Once => Once')
<1>1. CASE Exit
  <2>1. /\ exited' /\ UNCHANGED <<opVars, historyVars>>
        /\ \A l \in Label : reg'[l] = None
    BY <1>1 DEF Exit
  <2>2. \A l \in Label : ~Spent(l)'
    BY <2>1 DEF Spent
  <2> QED
    BY <2>1, <2>2 DEF Sequential, Once, opVars, historyVars
<1>2. CASE (\E l \in Label : Plug(l)) \/ UNCHANGED vars
  <2>1. UNCHANGED <<sendErr, registryVars, opVars, exited, historyVars>>
    BY <1>2 DEF Plug, Unplug, Replug, vars, transportVars
  <2>2. \A l \in Label : (Spent(l)' <=> Spent(l))
    BY <2>1 DEF Spent, registryVars, historyVars
  <2> QED
    BY <2>1, <2>2 DEF Sequential, Once, registryVars, opVars, historyVars
<1> QED
  BY <1>1, <1>2

\* A step of a client that takes turns.
LEMMA NextSequential ==
    ASSUME IInv, Sequential, [Next]_vars, [Turn]_vars
    PROVE  Sequential'
<1>1. CASE Exit \/ (\E l \in Label : Plug(l)) \/ UNCHANGED vars
  BY <1>1, OthersSequential
<1>2. CASE ~exited /\ \E o \in Op : CallStep(o)
  BY <1>2, CallStepSequential
<1>3. CASE /\ ~exited /\ Turn
           /\ \E o \in Op, l \in Label : Acquire(o, l) \/ ReconnectMidi(o, l)
  BY <1>3, AcquireSequential DEF Turn
<1> QED
  BY <1>1, <1>2, <1>3 DEF Next

\* A call that moves is the one whose step it is.
LEMMA MovesAlone ==
    ASSUME IInv, [Next]_vars, NEW o \in Op, pc'[o] # pc[o]
    PROVE  ~exited /\ (CallStep(o) \/ \E l \in Label : Acquire(o, l))
<1>1. CASE ~exited /\ \E p \in Op : CallStep(p)
  BY <1>1, OthersStay
<1>2. CASE ~exited /\ \E p \in Op, l \in Label : Acquire(p, l)
  BY <1>2, OthersStay
<1>3. ~(\E p \in Op, l \in Label : ReconnectMidi(p, l))
  BY DEF ReconnectMidi, opVars
<1>4. ~(Exit \/ (\E l \in Label : Plug(l)) \/ UNCHANGED vars)
  BY DEF Exit, Plug, vars, opVars
<1> QED
  BY <1>1, <1>2, <1>3, <1>4 DEF Next

(***************************************************************************)
(* A client whose calls do not overlap takes turns.                        *)
(***************************************************************************)
THEOREM OneCallTakesTurns ==
    ASSUME OneCall
    PROVE  Spec => TakesTurns
<1>1. Init => Sequential
  BY DEF Init, Sequential
<1>2. Sequential => Turn
  <2> SUFFICES ASSUME Sequential, NEW o \in Op, NEW l \in Label,
                      Acquire(o, l) \/ ReconnectMidi(o, l), NEW p \in Op
               PROVE  lab[p] # l
    BY DEF Turn, Free
  <2>1. p = o /\ pc[o] = "idle"
    BY DEF OneCall, Acquire, ReconnectMidi
  <2> QED
    BY <2>1, NoneIsNoLabel DEF Sequential
<1>3. IInv /\ Sequential /\ [Next]_vars => Sequential'
  BY <1>2, NextSequential
<1> QED
  BY <1>1, <1>2, <1>3, Inductive, PTL DEF Spec, TakesTurns

(***************************************************************************)
(* While the calls of each endpoint take turns, the handle a call holds    *)
(* stays the registered one, the entry's counter is what that handle       *)
(* missed in a row, and no send has failed on the handle since the one     *)
(* whose ack a call waits for.                                             *)
(***************************************************************************)
THEOREM CallsInTurn == Spec /\ TakesTurns => []Sequential
<1>1. Init => Sequential
  BY DEF Init, Sequential
<1>2. IInv /\ Sequential /\ [Next]_vars /\ [Turn]_vars => Sequential'
  BY NextSequential
<1> QED
  BY <1>1, <1>2, Inductive, PTL DEF Spec, TakesTurns

(***************************************************************************)
(* The cold-start resend fires at most once per handle, if the calls of an *)
(* endpoint take turns and the connection shows that its last send failed: *)
(* what keeps a resend that threw from being sent again is the canary of   *)
(* the next acquire, not the cold flag, which no outcome has cleared.      *)
(***************************************************************************)
THEOREM ResendsOnce ==
    ASSUME ShowsSendError
    PROVE  Spec /\ TakesTurns => []ResendOncePerHandle
<1>1. Init => Once
  BY DEF Init, Once, Spent
<1>2. IInv /\ Sequential /\ Once /\ [Next]_vars /\ [Turn]_vars => Once'
  <2> SUFFICES ASSUME IInv, Sequential, Once, [Next]_vars, [Turn]_vars PROVE Once'
    OBVIOUS
  <2>1. CASE Exit \/ (\E l \in Label : Plug(l)) \/ UNCHANGED vars
    BY <2>1, OthersSequential
  <2>2. CASE ~exited /\ \E o \in Op : CallStep(o)
    BY <2>2, CallStepOnce
  <2>3. CASE /\ ~exited /\ Turn
             /\ \E o \in Op, l \in Label : Acquire(o, l) \/ ReconnectMidi(o, l)
    BY <2>3, AcquireOnce DEF Turn
  <2> QED
    BY <2>1, <2>2, <2>3 DEF Next
<1>3. Once => ResendOncePerHandle
  BY DEF Once, ResendOncePerHandle
<1> QED
  BY <1>1, <1>2, <1>3, Inductive, CallsInTurn, PTL DEF Spec, TakesTurns

(***************************************************************************)
(* A call's acquire discards a handle no signal speaks against only after  *)
(* Threshold ack-less outcomes in a row on that handle.                    *)
(***************************************************************************)
THEOREM DropsForCause == Spec /\ TakesTurns => StaleDropIsEarned
<1>1. ASSUME IInv, Sequential, [Next]_vars, NEW o \in Op, NEW x \in Handle,
             pc[o] = "idle", pc'[o] = "ready", Discards(x),
             IsHandleHealthy(x, AllSignals)
      PROVE  missed[x] >= Threshold
  <2>1. PICK l \in Label : Acquire(o, l)
    <3>1. ~CallStep(o)
      BY <1>1
      DEF CallStep, Send, Ack, Resend, NoAck, ReportsNoAck, ChannelSwitchThrows,
          RetryAfterFault, Waiting
    <3> QED
      BY <1>1, <3>1, MovesAlone
  <2>2. PICK ret \in HandleOrNone, forced \in BOOLEAN :
            EnsureConnection(l, forced, ret) /\ ~forced
    BY <2>1 DEF Acquire
  <2>3. EnsureConnection(l, forced, ret)
    BY <2>2
  <2>4. x = reg[l] /\ (forced \/ CounterStale(l) \/ CanaryStale(l))
    BY <1>1, <2>3, EnsureConnectionFrame
  <2>5. ~CanaryStale(l)
    BY <1>1, <2>4, SignalsAssumption DEF CanaryStale, IsHandleHealthy, AllSignals
  <2>6. timeouts[l] = missed[x] /\ timeouts[l] >= Threshold
    BY <1>1, <2>2, <2>4, <2>5 DEF CounterStale, Sequential
  <2> QED
    BY <2>6
<1>2. IInv /\ Sequential /\ [Next]_vars =>
        [\A o \in Op, x \in Handle :
            /\ pc[o] = "idle" /\ pc'[o] = "ready"
            /\ Discards(x) /\ IsHandleHealthy(x, AllSignals)
            => missed[x] >= Threshold]_vars
  BY <1>1
<1> QED
  BY <1>2, Inductive, CallsInTurn, PTL DEF Spec, StaleDropIsEarned

(***************************************************************************)
(* A missing ack is never retried as a fault of the handle: lastSendError, *)
(* read after the wait, speaks of this call's own send.                    *)
(***************************************************************************)
THEOREM NoAckIsFinal == Spec /\ TakesTurns => NoAckPropagates
<1>1. ASSUME IInv, Sequential, [Next]_vars, NEW o \in Op, NoAck(o)
      PROVE  pc'[o] # "settling"
  <2>1. /\ pc \in [Op -> PC] /\ pc[o] \in Waiting /\ hdl[o] \in Handle
        /\ missed \in [Handle -> Nat]
    BY <1>1
    DEF IInv, TypeOK, BusyCallsHold, NoAck, ReportsNoAck, ChannelSwitchThrows, Waiting
  <2>2. ~exited
    <3>1. missed' # missed
      BY <1>1, <2>1 DEF NoAck
    <3> QED
      BY <1>1, <3>1 DEF Next, vars, historyVars
  <2>3. ~sendErr[hdl[o]]
    BY <1>1, <2>1, <2>2 DEF Sequential, Waiting
  <2>4. NextWrite(o) \/ Finish(o)
    BY <1>1, <2>3 DEF NoAck, ReportsNoAck, ChannelSwitchThrows, Throws
  <2> QED
    BY <2>1, <2>4 DEF NextWrite, Finish
<1>2. IInv /\ Sequential /\ [Next]_vars =>
        [\A o \in Op : NoAck(o) => pc'[o] # "settling"]_vars
  BY <1>1
<1> QED
  BY <1>2, Inductive, CallsInTurn, PTL DEF Spec, NoAckPropagates

=============================================================================
