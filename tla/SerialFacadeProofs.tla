------------------------- MODULE SerialFacadeProofs -------------------------
(***************************************************************************)
(* Theorems about SerialFacade for any number of facades, receivers and    *)
(* sends.                                                                  *)
(***************************************************************************)
EXTENDS SerialFacade, TLAPS

(***************************************************************************)
(* A pending receiver listens to a facade, and is deaf only if that was    *)
(* closed.                                                                 *)
(***************************************************************************)
WaitersListen ==
    \A r \in Receiver :
        /\ recv[r] \in Pending => on[r] \in Facade
        /\ recv[r] = "deaf" => closed[on[r]]

(***************************************************************************)
(* The inductive invariant.                                                *)
(***************************************************************************)
IInv ==
    /\ TypeOK
    /\ WaitersListen
    /\ QueueIsFifo
    /\ WaitersAreDiagnosed
    /\ DroppedSendsAreRecorded

USE NoneIsNoFacade

-----------------------------------------------------------------------------
(* Sequences. *)

LEMMA EmptyRight == \A s \in Seq(Nat) : s \o <<>> = s
OBVIOUS

LEMMA AppendConcat ==
    \A s, t \in Seq(Nat), n \in Nat : s \o Append(t, n) = Append(s \o t, n)
OBVIOUS

LEMMA ConcatType == \A s, t \in Seq(Nat) : s \o t \in Seq(Nat)
OBVIOUS

-----------------------------------------------------------------------------
(* The steps of the background open. *)

\* failOpen rejects every receiver that waits, and empties the queue.
LEMMA FailOpenStep ==
    ASSUME IInv, NEW f \in Facade, stage[f] # "unused", FailOpen(f),
           UNCHANGED <<portVars, cur, closed, isOpen, on, historyVars>>
    PROVE  IInv'
<1>1. /\ TypeOK /\ WaitersListen /\ QueueIsFifo /\ WaitersAreDiagnosed
      /\ DroppedSendsAreRecorded
  BY DEF IInv
<1>2. TypeOK'
  <2>1. /\ stage' \in [Facade -> Stages]
        /\ sendErr' \in [Facade -> BOOLEAN]
        /\ queue' \in [Facade -> Seq(Nat)]
    BY <1>1 DEF FailOpen, TypeOK, Stages
  <2>2. recv' \in [Receiver -> RecvStates]
    BY <1>1 DEF FailOpen, TypeOK, RecvStates
  <2> QED
    BY <1>1, <2>1, <2>2 DEF TypeOK, portVars, historyVars
<1>3. WaitersListen' /\ WaitersAreDiagnosed'
  BY <1>1 DEF FailOpen, TypeOK, WaitersListen, WaitersAreDiagnosed, Pending
<1>4. QueueIsFifo'
  BY <1>1 DEF FailOpen, TypeOK, QueueIsFifo, historyVars
<1>5. DroppedSendsAreRecorded'
  <2>1. ASSUME NEW g \in Facade, stage'[g] = "failed", wire'[g] # accepted'[g]
        PROVE  sendErr'[g]
    <3>1. wire[g] # accepted[g]
      BY <2>1 DEF historyVars
    <3>2. CASE stage[g] = "failed"
      BY <1>1, <3>1, <3>2 DEF FailOpen, TypeOK, DroppedSendsAreRecorded
    <3>3. CASE stage[g] # "failed"
      <4>1. g = f
        BY <1>1, <2>1, <3>3 DEF FailOpen, TypeOK
      <4>2. queue[f] # <<>>
        BY <1>1, <3>1, <3>3, <4>1, EmptyRight DEF TypeOK, QueueIsFifo
      <4> QED
        BY <1>1, <4>1, <4>2 DEF FailOpen, TypeOK
    <3> QED
      BY <3>2, <3>3
  <2> QED
    BY <2>1 DEF DroppedSendsAreRecorded
<1> QED
  BY <1>2, <1>3, <1>4, <1>5 DEF IInv

\* A granted open flushes the queue into the port, or gives the port back.
LEMMA GrantedStep ==
    ASSUME IInv, NEW f \in Facade, Granted(f)
    PROVE  IInv'
<1>1. /\ TypeOK /\ WaitersListen /\ QueueIsFifo /\ WaitersAreDiagnosed
      /\ DroppedSendsAreRecorded
      /\ stage[f] = "granted"
      /\ UNCHANGED <<portVars, cur, closed, recvVars, accepted>>
  BY DEF IInv, Granted
<1>2. CASE closed[f]
  <2>1. /\ stage' = [stage EXCEPT ![f] = "closing"]
        /\ UNCHANGED <<isOpen, queue, sendErr, wire>>
    BY <1>2 DEF Granted, Opened
  <2>2. TypeOK'
    BY <1>1, <2>1 DEF TypeOK, Stages, portVars, recvVars
  <2>3. WaitersListen' /\ WaitersAreDiagnosed'
    BY <1>1, <2>1 DEF TypeOK, WaitersListen, WaitersAreDiagnosed, recvVars
  <2>4. QueueIsFifo'
    BY <1>1, <2>1 DEF TypeOK, QueueIsFifo
  <2>5. DroppedSendsAreRecorded'
    BY <1>1, <2>1 DEF TypeOK, DroppedSendsAreRecorded
  <2> QED
    BY <2>2, <2>3, <2>4, <2>5 DEF IInv
<1>3. CASE ~closed[f]
  <2>1. /\ stage' = [stage EXCEPT ![f] = "open"]
        /\ isOpen' = [isOpen EXCEPT ![f] = (owner = f)]
        /\ wire' = [wire EXCEPT ![f] = @ \o queue[f]]
        /\ queue' = [queue EXCEPT ![f] = <<>>]
        /\ sendErr' = [sendErr EXCEPT ![f] = @ /\ queue[f] = <<>>]
    BY <1>3 DEF Granted, Opened, Flush
  <2>2. wire[f] \in Seq(Nat) /\ queue[f] \in Seq(Nat) /\ wire[f] \o queue[f] \in Seq(Nat)
    BY <1>1, ConcatType DEF TypeOK
  <2>3. TypeOK'
    <3>1. /\ stage' \in [Facade -> Stages]
          /\ wire' \in [Facade -> Seq(Nat)]
          /\ queue' \in [Facade -> Seq(Nat)]
      BY <1>1, <2>1, <2>2 DEF TypeOK, Stages
    <3>2. isOpen' \in [Facade -> BOOLEAN] /\ sendErr' \in [Facade -> BOOLEAN]
      BY <1>1, <2>1 DEF TypeOK
    <3> QED
      BY <1>1, <3>1, <3>2 DEF TypeOK, portVars, recvVars
  <2>4. WaitersListen' /\ WaitersAreDiagnosed'
    BY <1>1, <2>1 DEF TypeOK, WaitersListen, WaitersAreDiagnosed, recvVars
  <2>5. QueueIsFifo'
    <3> SUFFICES ASSUME NEW g \in Facade
                 PROVE  /\ stage'[g] # "failed" => wire'[g] \o queue'[g] = accepted'[g]
                        /\ stage'[g] = "open" => queue'[g] = <<>>
      BY DEF QueueIsFifo
    <3>1. CASE g = f
      <4>1. wire'[f] = wire[f] \o queue[f] /\ queue'[f] = <<>>
        BY <1>1, <2>1 DEF TypeOK
      <4>2. wire[f] \o queue[f] = accepted[f]
        BY <1>1 DEF QueueIsFifo
      <4> QED
        BY <1>1, <2>2, <3>1, <4>1, <4>2, EmptyRight
    <3>2. CASE g # f
      BY <1>1, <2>1, <3>2 DEF TypeOK, QueueIsFifo
    <3> QED
      BY <3>1, <3>2
  <2>6. DroppedSendsAreRecorded'
    BY <1>1, <2>1 DEF TypeOK, DroppedSendsAreRecorded
  <2> QED
    BY <2>3, <2>4, <2>5, <2>6 DEF IInv
<1> QED
  BY <1>2, <1>3

LEMMA OpenStepInvariant ==
    ASSUME IInv, NEW f \in Facade, OpenStep(f)
    PROVE  IInv'
<1>1. /\ TypeOK /\ WaitersListen /\ QueueIsFifo /\ WaitersAreDiagnosed
      /\ DroppedSendsAreRecorded
  BY DEF IInv
<1>2. CASE Search(f)
  <2>1. CASE FailOpen(f)
    BY <1>2, <2>1, FailOpenStep DEF Search
  <2>2. CASE /\ stage' = [stage EXCEPT ![f] = IF closed[f] THEN "aborted" ELSE "opening"]
             /\ UNCHANGED <<queue, sendErr, recv>>
    <3>1. /\ stage[f] = "searching"
          /\ UNCHANGED <<portVars, cur, closed, isOpen, on, historyVars>>
      BY <1>2 DEF Search
    <3>2. TypeOK'
      BY <1>1, <2>2, <3>1 DEF TypeOK, Stages, portVars, historyVars
    <3>3. WaitersListen' /\ WaitersAreDiagnosed' /\ QueueIsFifo'
      BY <1>1, <2>2, <3>1 DEF TypeOK, WaitersListen, WaitersAreDiagnosed, QueueIsFifo, historyVars
    <3>4. DroppedSendsAreRecorded'
      BY <1>1, <2>2, <3>1 DEF TypeOK, DroppedSendsAreRecorded, historyVars
    <3> QED
      BY <3>2, <3>3, <3>4 DEF IInv
  <2> QED
    BY <1>2, <2>1, <2>2 DEF Search
<1>3. CASE OsOpen(f)
  <2>1. /\ stage[f] = "opening"
        /\ \/ stage' = [stage EXCEPT ![f] = "granted"]
           \/ stage' = [stage EXCEPT ![f] = "refused"]
        /\ owner' \in {f, owner}
        /\ UNCHANGED <<present, editor, cur, closed, isOpen, queue, sendErr,
                       recvVars, historyVars>>
    BY <1>3 DEF OsOpen
  <2>2. TypeOK'
    BY <1>1, <2>1 DEF TypeOK, Stages, recvVars, historyVars
  <2>3. \A g \in Facade : stage'[g] = stage[g] \/ stage'[g] \notin {"failed", "open"}
    BY <1>1, <2>1 DEF TypeOK
  <2>4. \A g \in Facade : stage'[g] = stage[g] \/ stage[g] \notin {"failed", "open"}
    BY <1>1, <2>1 DEF TypeOK
  <2>5. WaitersListen' /\ WaitersAreDiagnosed'
    BY <1>1, <2>1, <2>3 DEF WaitersListen, WaitersAreDiagnosed, Pending, recvVars
  <2>6. QueueIsFifo'
    BY <1>1, <2>1, <2>3, <2>4, Zenon DEF QueueIsFifo, historyVars
  <2>7. DroppedSendsAreRecorded'
    BY <1>1, <2>1, <2>3, Zenon DEF DroppedSendsAreRecorded, historyVars
  <2> QED
    BY <2>2, <2>5, <2>6, <2>7 DEF IInv
<1>4. CASE Granted(f)
  BY <1>4, GrantedStep
<1>5. CASE Refused(f)
  BY <1>5, FailOpenStep DEF Refused
<1>6. CASE OsClosed(f)
  <2>1. /\ stage[f] = "closing"
        /\ stage' = [stage EXCEPT ![f] = "released"]
        /\ owner' \in {None, owner}
        /\ UNCHANGED <<present, editor, cur, closed, isOpen, queue, sendErr,
                       recvVars, historyVars>>
    BY <1>6 DEF OsClosed
  <2>2. TypeOK'
    BY <1>1, <2>1 DEF TypeOK, Stages, recvVars, historyVars
  <2>3. \A g \in Facade : stage'[g] = stage[g] \/ stage'[g] \notin {"failed", "open"}
    BY <1>1, <2>1 DEF TypeOK
  <2>4. \A g \in Facade : stage'[g] = stage[g] \/ stage[g] \notin {"failed", "open"}
    BY <1>1, <2>1 DEF TypeOK
  <2>5. WaitersListen' /\ WaitersAreDiagnosed'
    BY <1>1, <2>1, <2>3 DEF WaitersListen, WaitersAreDiagnosed, Pending, recvVars
  <2>6. QueueIsFifo'
    BY <1>1, <2>1, <2>3, <2>4, Zenon DEF QueueIsFifo, historyVars
  <2>7. DroppedSendsAreRecorded'
    BY <1>1, <2>1, <2>3, Zenon DEF DroppedSendsAreRecorded, historyVars
  <2> QED
    BY <2>2, <2>5, <2>6, <2>7 DEF IInv
<1> QED
  BY <1>2, <1>3, <1>4, <1>5, <1>6 DEF OpenStep

-----------------------------------------------------------------------------
(* The calls. *)

LEMMA RenewStep ==
    ASSUME IInv, NEW f \in Facade, Renew(f)
    PROVE  IInv'
<1>1. /\ TypeOK /\ WaitersListen /\ QueueIsFifo /\ WaitersAreDiagnosed
      /\ DroppedSendsAreRecorded
      /\ stage[f] = "unused"
      /\ UNCHANGED <<portVars, isOpen, queue, sendErr, on, historyVars>>
  BY DEF IInv, Renew, StageAfterClose, RecvAfterClose
<1>2. \A g \in Facade : \/ stage'[g] = stage[g]
                        \/ stage'[g] = "searching" /\ stage[g] = "unused"
                        \/ stage'[g] = "closing" /\ stage[g] = "open"
  BY <1>1 DEF Renew, StageAfterClose, RecvAfterClose
<1>3. \A r \in Receiver : recv'[r] = recv[r] \/ (recv'[r] = "deaf" /\ recv[r] = "waiting")
  BY DEF Renew, StageAfterClose, RecvAfterClose
<1>4. /\ \A g \in Facade : closed[g] => closed'[g]
      /\ \A r \in Receiver : recv'[r] = "deaf" /\ recv[r] = "waiting"
                            => on[r] \in Facade /\ closed'[on[r]]
  <2>1. /\ closed' = [g \in Facade |-> closed[g] \/ g = cur]
        /\ recv' = [r \in Receiver |->
                      IF recv[r] = "waiting" /\ on[r] = cur THEN "deaf" ELSE recv[r]]
    BY DEF Renew, RecvAfterClose
  <2> QED
    BY <1>1, <2>1 DEF WaitersListen, Pending
<1>5. TypeOK'
  <2>1. stage' \in [Facade -> Stages]
    BY <1>1 DEF Renew, StageAfterClose, RecvAfterClose, TypeOK, Stages
  <2>2. closed' \in [Facade -> BOOLEAN]
    BY <1>1 DEF Renew, StageAfterClose, RecvAfterClose, TypeOK
  <2>3. recv' \in [Receiver -> RecvStates]
    BY <1>1 DEF Renew, StageAfterClose, RecvAfterClose, TypeOK, RecvStates
  <2>4. cur' \in Facade \cup {None}
    BY DEF Renew, StageAfterClose, RecvAfterClose
  <2> QED
    BY <1>1, <2>1, <2>2, <2>3, <2>4 DEF TypeOK, portVars, historyVars
<1>6. WaitersListen' /\ WaitersAreDiagnosed'
  <2>1. /\ TypeOK /\ WaitersListen /\ WaitersAreDiagnosed
        /\ UNCHANGED on
    BY <1>1
  <2>2. WaitersListen'
    BY <1>3, <1>4, <2>1 DEF WaitersListen, Pending
  <2>3. WaitersAreDiagnosed'
    <3> SUFFICES ASSUME NEW r \in Receiver, recv'[r] \in Pending, stage'[on[r]] = "failed"
                 PROVE  recv'[r] = "deaf" /\ closed'[on[r]]
      BY <2>1 DEF WaitersAreDiagnosed
    <3>1. recv[r] \in Pending /\ on[r] \in Facade
      BY <1>3, <2>1 DEF WaitersListen, Pending
    <3>2. stage[on[r]] = "failed"
      BY <1>2, <3>1
    <3>3. recv[r] = "deaf" /\ closed[on[r]]
      BY <2>1, <3>1, <3>2 DEF WaitersAreDiagnosed
    <3> QED
      BY <1>3, <1>4, <3>1, <3>3
  <2> QED
    BY <2>2, <2>3
<1>7. QueueIsFifo' /\ DroppedSendsAreRecorded'
  BY <1>1, <1>2 DEF TypeOK, QueueIsFifo, DroppedSendsAreRecorded, historyVars
<1> QED
  BY <1>5, <1>6, <1>7 DEF IInv

LEMMA SendStep ==
    ASSUME IInv, NEW f \in Facade, Send(f)
    PROVE  IInv'
<1> DEFINE n == NextMessage(f)
<1>1. /\ TypeOK /\ WaitersListen /\ QueueIsFifo /\ WaitersAreDiagnosed
      /\ DroppedSendsAreRecorded
      /\ stage[f] # "failed"
      /\ UNCHANGED <<portVars, cur, stage, closed, isOpen, recvVars>>
  BY DEF IInv, Send
<1>2. /\ queue[f] \in Seq(Nat) /\ wire[f] \in Seq(Nat) /\ accepted[f] \in Seq(Nat)
      /\ n \in Nat
      /\ wire[f] \o queue[f] = accepted[f]
      /\ stage[f] = "open" => queue[f] = <<>>
  BY <1>1 DEF TypeOK, QueueIsFifo, NextMessage
<1>3. WaitersListen' /\ WaitersAreDiagnosed'
  BY <1>1 DEF WaitersListen, WaitersAreDiagnosed, recvVars
<1>4. DroppedSendsAreRecorded'
  BY <1>1 DEF Send, TypeOK, DroppedSendsAreRecorded, historyVars
<1>5. CASE /\ stage[f] # "open"
           /\ queue' = [queue EXCEPT ![f] = Append(@, n)]
           /\ accepted' = [accepted EXCEPT ![f] = Append(@, n)]
           /\ UNCHANGED <<sendErr, wire>>
  <2>1. TypeOK'
    BY <1>1, <1>2, <1>5 DEF TypeOK, portVars, recvVars
  <2>2. wire[f] \o Append(queue[f], n) = Append(accepted[f], n)
    <3> HIDE DEF n
    <3>1. wire[f] \o Append(queue[f], n) = Append(wire[f] \o queue[f], n)
      BY <1>2, AppendConcat
    <3> QED
      BY <1>2, <3>1
  <2>3. /\ queue'[f] = Append(queue[f], n) /\ accepted'[f] = Append(accepted[f], n)
        /\ \A g \in Facade : g # f => queue'[g] = queue[g] /\ accepted'[g] = accepted[g]
    BY <1>1, <1>5 DEF TypeOK
  <2>4. QueueIsFifo'
    BY <1>1, <1>5, <2>2, <2>3, Zenon DEF QueueIsFifo
  <2> QED
    BY <1>3, <1>4, <2>1, <2>4 DEF IInv
<1>6. CASE /\ stage[f] = "open"
           /\ wire' = [wire EXCEPT ![f] = Append(@, n)]
           /\ accepted' = [accepted EXCEPT ![f] = Append(@, n)]
           /\ sendErr' = [sendErr EXCEPT ![f] = FALSE]
           /\ UNCHANGED queue
  <2>1. TypeOK'
    BY <1>1, <1>2, <1>6 DEF TypeOK, portVars, recvVars
  <2>2. /\ queue[f] = <<>> /\ wire[f] = accepted[f]
        /\ Append(wire[f], n) \in Seq(Nat)
        /\ Append(wire[f], n) \o <<>> = Append(accepted[f], n)
    <3>1. queue[f] = <<>> /\ wire[f] = accepted[f]
      BY <1>2, <1>6, EmptyRight
    <3>2. Append(wire[f], n) \in Seq(Nat)
      BY <1>2
    <3> QED
      BY <3>1, <3>2, EmptyRight
  <2>3. /\ wire'[f] = Append(wire[f], n) /\ accepted'[f] = Append(accepted[f], n)
        /\ \A g \in Facade : g # f => wire'[g] = wire[g] /\ accepted'[g] = accepted[g]
    BY <1>1, <1>6 DEF TypeOK
  <2>4. QueueIsFifo'
    BY <1>1, <1>6, <2>2, <2>3, Zenon DEF QueueIsFifo
  <2> QED
    BY <1>3, <1>4, <2>1, <2>4 DEF IInv
<1>7. CASE /\ sendErr' = [sendErr EXCEPT ![f] = TRUE]
           /\ UNCHANGED <<queue, historyVars>>
  BY <1>1, <1>3, <1>7, <1>4 DEF IInv, TypeOK, QueueIsFifo, portVars, recvVars, historyVars
<1> QED
  BY <1>5, <1>6, <1>7 DEF Send

LEMMA ReceiverInvariant ==
    ASSUME IInv, NEW r \in Receiver,
           \/ \E f \in Facade : Receive(r, f)
           \/ Answered(r)
           \/ TimesOut(r)
    PROVE  IInv'
<1>1. /\ TypeOK /\ WaitersListen /\ QueueIsFifo /\ WaitersAreDiagnosed
      /\ DroppedSendsAreRecorded
      /\ UNCHANGED <<portVars, facadeVars, historyVars>>
  BY DEF IInv, Receive, Answered, TimesOut
<1>2. QueueIsFifo' /\ DroppedSendsAreRecorded'
  BY <1>1 DEF QueueIsFifo, DroppedSendsAreRecorded, facadeVars, historyVars
<1>3. /\ recv' \in [Receiver -> RecvStates]
      /\ on' \in [Receiver -> Facade \cup {None}]
      /\ WaitersListen' /\ WaitersAreDiagnosed'
  <2>1. CASE \E f \in Facade : Receive(r, f)
    BY <1>1, <2>1
    DEF Receive, TypeOK, RecvStates, Pending, WaitersListen, WaitersAreDiagnosed, facadeVars
  <2>2. CASE Answered(r) \/ TimesOut(r)
    BY <1>1, <2>2
    DEF Answered, TimesOut, TypeOK, RecvStates, Pending, WaitersListen, WaitersAreDiagnosed,
        facadeVars
  <2> QED
    BY <2>1, <2>2
<1> QED
  BY <1>1, <1>2, <1>3 DEF IInv, TypeOK, portVars, facadeVars, historyVars

LEMMA EnvironmentInvariant ==
    ASSUME IInv, Environment
    PROVE  IInv'
<1>1. /\ TypeOK
      /\ present' \in BOOLEAN /\ editor' \in BOOLEAN /\ owner' \in Facade \cup {None}
      /\ isOpen' \in [Facade -> BOOLEAN]
      /\ UNCHANGED <<cur, stage, closed, queue, sendErr, recvVars, historyVars>>
  BY DEF IInv, TypeOK, Environment, Unplug, Replug, EditorTakesPort, EditorQuits, facadeVars
<1>2. TypeOK'
  BY <1>1 DEF TypeOK, recvVars, historyVars
<1>3. WaitersListen' /\ QueueIsFifo' /\ WaitersAreDiagnosed' /\ DroppedSendsAreRecorded'
  BY <1>1 DEF IInv, WaitersListen, QueueIsFifo, WaitersAreDiagnosed, DroppedSendsAreRecorded,
              recvVars, historyVars
<1> QED
  BY <1>2, <1>3 DEF IInv

-----------------------------------------------------------------------------
(* The theorems. *)

(***************************************************************************)
(* The inductive invariant holds throughout.                               *)
(***************************************************************************)
THEOREM Inductive == Spec => []IInv
<1>1. Init => IInv
  BY EmptyRight DEF Init, IInv, TypeOK, WaitersListen, QueueIsFifo, WaitersAreDiagnosed,
                    DroppedSendsAreRecorded, Stages, RecvStates, Pending
<1>2. IInv /\ [Next]_vars => IInv'
  <2> SUFFICES ASSUME IInv, [Next]_vars PROVE IInv'
    OBVIOUS
  <2>1. CASE UNCHANGED vars
    BY <2>1 DEF IInv, TypeOK, WaitersListen, QueueIsFifo, WaitersAreDiagnosed,
                DroppedSendsAreRecorded, vars, portVars, facadeVars, recvVars, historyVars
  <2>2. ASSUME NEW f \in Facade, CallStep(f) PROVE IInv'
    <3>1. CASE Renew(f)
      BY <3>1, RenewStep
    <3>2. CASE Send(f)
      BY <3>2, SendStep
    <3>3. CASE WriteFails(f)
      BY <3>3 DEF WriteFails, IInv, TypeOK, WaitersListen, QueueIsFifo, WaitersAreDiagnosed,
                  DroppedSendsAreRecorded, portVars, recvVars, historyVars
    <3> QED
      BY <2>2, <3>1, <3>2, <3>3 DEF CallStep, Acquire, ForceReconnect
  <2> QED
    BY <2>1, <2>2, OpenStepInvariant, ReceiverInvariant, EnvironmentInvariant DEF Next
<1> QED
  BY <1>1, <1>2, PTL DEF Spec

(***************************************************************************)
(* Every variable stays in its range.                                      *)
(***************************************************************************)
THEOREM TypeCorrect == Spec => []TypeOK
BY Inductive, PTL DEF IInv

(***************************************************************************)
(* The deferred open delivers what it accepted, once and in order          *)
(* (sendQueue and its flush in connectSerial).                             *)
(***************************************************************************)
THEOREM Fifo == Spec => []QueueIsFifo
BY Inductive, PTL DEF IInv

(***************************************************************************)
(* On a facade whose open failed only receivers that a close() made deaf   *)
(* are left to their timers (openFailureRejecters, failOpen, close).       *)
(***************************************************************************)
THEOREM Diagnosed == Spec => []WaitersAreDiagnosed
BY Inductive, PTL DEF IInv

(***************************************************************************)
(* A failed open records the sends it drops (failOpen's sendErrCell).      *)
(***************************************************************************)
THEOREM Recorded == Spec => []DroppedSendsAreRecorded
BY Inductive, PTL DEF IInv
=============================================================================
