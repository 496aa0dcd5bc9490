---------------------------- MODULE SerialFacade ----------------------------
(***************************************************************************)
(* The deferred-open serial connection of the FM3:                         *)
(*                                                                         *)
(*   serialTransport.ts   connectSerial: the facade, its queue, its open   *)
(*   gen3 midi.ts         doConnect: the connector that returns it         *)
(*   connections.ts       ensureConnection, as far as it replaces facades  *)
(*                                                                         *)
(* A facade exists before its port does: discovery and open run in the     *)
(* background, in stages, while calls already send and listen.  The OS     *)
(* port is exclusive, and both its open and its close take effect some     *)
(* time after they were asked for.  Messages are numbered in the order in  *)
(* which send() accepts them.                                              *)
(***************************************************************************)
EXTENDS Naturals, Sequences

CONSTANTS
    Facade,     \* facades the process may create (bound)
    Receiver,   \* receiveSysExMatching promises that may be pending at once
    None,       \* no facade
    MaxSends    \* bound: sends per facade

ASSUME NoneIsNoFacade == None \notin Facade
ASSUME MaxSendsAssumption == MaxSends \in Nat

VARIABLES
    present,    \* the device is on the bus
    editor,     \* another application holds the port
    owner,      \* the facade whose port the OS has open, or None
    cur,        \* the facade in the connection registry
    stage,      \* stage[f]: how far the background open of f has come
    closed,     \* closed[f]: close() ran
    isOpen,     \* isOpen[f]: SerialPort.isOpen, once opened
    queue,      \* sendQueue
    sendErr,    \* sendErrCell is set: the original's lastSendError
    recv,       \* recv[r]: state of a receiver
    on,         \* on[r]: the facade it listens to
    accepted,   \* history: messages for which send() returned
    wire        \* history: messages handed to port.write()

portVars == <<present, editor, owner>>
facadeVars == <<cur, stage, closed, isOpen, queue, sendErr>>
recvVars == <<recv, on>>
historyVars == <<accepted, wire>>
vars == <<portVars, facadeVars, recvVars, historyVars>>

(***************************************************************************)
(* "searching": waiting for the serialport module and for the port list.   *)
(* "opening": open() asked for.  "granted", "refused": the OS decided, the *)
(* callback has not run.  "open": opened.  "failed": openError set.        *)
(* "aborted": found itself closed before it asked for a port.  "closing":  *)
(* close() asked for.  "released": the OS closed the port.                 *)
(***************************************************************************)
Stages == {"unused", "searching", "opening", "granted", "refused", "open",
           "failed", "aborted", "closing", "released"}
RecvStates == {"idle", "waiting", "deaf", "diagnosed", "timedOut", "answered"}
Pending == {"waiting", "deaf"}

(***************************************************************************)
(* TypeOK: every variable stays in its range.                              *)
(***************************************************************************)
TypeOK ==
    /\ present \in BOOLEAN
    /\ editor \in BOOLEAN
    /\ owner \in Facade \cup {None}
    /\ cur \in Facade \cup {None}
    /\ stage \in [Facade -> Stages]
    /\ closed \in [Facade -> BOOLEAN]
    /\ isOpen \in [Facade -> BOOLEAN]
    /\ queue \in [Facade -> Seq(Nat)]
    /\ sendErr \in [Facade -> BOOLEAN]
    /\ recv \in [Receiver -> RecvStates]
    /\ on \in [Receiver -> Facade \cup {None}]
    /\ accepted \in [Facade -> Seq(Nat)]
    /\ wire \in [Facade -> Seq(Nat)]

Init ==
    /\ present \in BOOLEAN
    /\ editor \in BOOLEAN
    /\ owner = None
    /\ cur = None
    /\ stage = [f \in Facade |-> "unused"]
    /\ closed = [f \in Facade |-> FALSE]
    /\ isOpen = [f \in Facade |-> FALSE]
    /\ queue = [f \in Facade |-> <<>>]
    /\ sendErr = [f \in Facade |-> FALSE]
    /\ recv = [r \in Receiver |-> "idle"]
    /\ on = [r \in Receiver |-> None]
    /\ accepted = [f \in Facade |-> <<>>]
    /\ wire = [f \in Facade |-> <<>>]

-----------------------------------------------------------------------------
(* The registry. *)

\* isPortOpen(): a port that does not exist yet is not dead.
IsPortOpen(f) == ~closed[f] /\ (stage[f] = "open" => isOpen[f])

\* close() of the cached facade, if any: a port that is open is asked to close,
\* one still opening is left to notice.
StageAfterClose ==
    [g \in Facade |-> IF g = cur /\ stage[g] = "open" THEN "closing" ELSE stage[g]]

\* Its listeners hear nothing more: neither a message, handlers being cleared,
\* nor a failure of the open, openFailureRejecters being cleared with them.
RecvAfterClose ==
    [r \in Receiver |-> IF recv[r] = "waiting" /\ on[r] = cur THEN "deaf" ELSE recv[r]]

\* ensureConnection drops the cached facade and caches a fresh one.
Renew(f) ==
    /\ stage[f] = "unused"
    /\ cur' = f
    /\ stage' = [StageAfterClose EXCEPT ![f] = "searching"]
    /\ closed' = [g \in Facade |-> closed[g] \/ g = cur]
    /\ recv' = RecvAfterClose
    /\ UNCHANGED <<portVars, isOpen, queue, sendErr, on, historyVars>>

\* A call finds no facade, or the canary says its port closed: isPortOpen is
\* the one signal that survives the copy.
Acquire(f) == (cur # None => ~IsPortOpen(cur)) /\ Renew(f)

\* reconnect_midi, a retry, or too many missing acks.
ForceReconnect(f) == cur # None /\ Renew(f)

-----------------------------------------------------------------------------
(* The background open. *)

\* The failure of an open leaves its receivers to their timers.
FailOpenSilently(f) ==
    /\ stage' = [stage EXCEPT ![f] = "failed"]
    /\ sendErr' = [sendErr EXCEPT ![f] = @ \/ queue[f] # <<>>]
    /\ queue' = [queue EXCEPT ![f] = <<>>]
    /\ UNCHANGED recv

\* The queue is discarded before it is looked at.
FailOpenForgetful(f) ==
    /\ stage' = [stage EXCEPT ![f] = "failed"]
    /\ queue' = [queue EXCEPT ![f] = <<>>]
    /\ recv' = [r \in Receiver |->
                  IF recv[r] = "waiting" /\ on[r] = f THEN "diagnosed" ELSE recv[r]]
    /\ UNCHANGED sendErr

\* failOpen(): drop the queue, and tell every receiver that waits for it.
FailOpen(f) ==
    /\ stage' = [stage EXCEPT ![f] = "failed"]
    /\ sendErr' = [sendErr EXCEPT ![f] = @ \/ queue[f] # <<>>]
    /\ queue' = [queue EXCEPT ![f] = <<>>]
    /\ recv' = [r \in Receiver |->
                  IF recv[r] = "waiting" /\ on[r] = f THEN "diagnosed" ELSE recv[r]]

\* The port list came back; an explicit path skips it and finds a port always.
Search(f) ==
    /\ stage[f] = "searching"
    /\ \/ ~present /\ FailOpen(f)
       \/ /\ stage' = [stage EXCEPT ![f] = IF closed[f] THEN "aborted" ELSE "opening"]
          /\ UNCHANGED <<queue, sendErr, recv>>
    /\ UNCHANGED <<portVars, cur, closed, isOpen, on, historyVars>>

\* The OS grants the port to one holder.
OsOpen(f) ==
    /\ stage[f] = "opening"
    /\ IF present /\ ~editor /\ owner = None
       THEN stage' = [stage EXCEPT ![f] = "granted"] /\ owner' = f
       ELSE stage' = [stage EXCEPT ![f] = "refused"] /\ UNCHANGED owner
    /\ UNCHANGED <<present, editor, cur, closed, isOpen, queue, sendErr,
                   recvVars, historyVars>>

\* The queue leaves behind the sends that came after the open.
FlushLate(f) ==
    /\ wire' = [wire EXCEPT ![f] = @ \o queue[f]]
    /\ UNCHANGED <<queue, sendErr>>

\* The queue is dropped for good instead of being emptied.
FlushUnset(f) ==
    /\ wire' = [wire EXCEPT ![f] = @ \o queue[f]]
    /\ queue' = [queue EXCEPT ![f] = None]
    /\ sendErr' = [sendErr EXCEPT ![f] = @ /\ queue[f] = <<>>]

\* for (bytes of sendQueue.splice(0)) writeNow(bytes)
Flush(f) ==
    /\ wire' = [wire EXCEPT ![f] = @ \o queue[f]]
    /\ queue' = [queue EXCEPT ![f] = <<>>]
    /\ sendErr' = [sendErr EXCEPT ![f] = @ /\ queue[f] = <<>>]

\* The open arrives at a facade without a look at closed.
OpenedUnchecked(f) ==
    /\ stage' = [stage EXCEPT ![f] = "open"]
    /\ isOpen' = [isOpen EXCEPT ![f] = owner = f]
    /\ Flush(f)

\* The callback of a granted open: a facade closed meanwhile gives it back.
Opened(f) ==
    IF closed[f]
    THEN /\ stage' = [stage EXCEPT ![f] = "closing"]
         /\ UNCHANGED <<isOpen, queue, sendErr, wire>>
    ELSE /\ stage' = [stage EXCEPT ![f] = "open"]
         /\ isOpen' = [isOpen EXCEPT ![f] = owner = f]
         /\ Flush(f)

Granted(f) ==
    /\ stage[f] = "granted"
    /\ Opened(f)
    /\ UNCHANGED <<portVars, cur, closed, recvVars, accepted>>

Refused(f) ==
    /\ stage[f] = "refused"
    /\ FailOpen(f)
    /\ UNCHANGED <<portVars, cur, closed, isOpen, on, historyVars>>

OsClosed(f) ==
    /\ stage[f] = "closing"
    /\ stage' = [stage EXCEPT ![f] = "released"]
    /\ owner' = IF owner = f THEN None ELSE owner
    /\ UNCHANGED <<present, editor, cur, closed, isOpen, queue, sendErr,
                   recvVars, historyVars>>

-----------------------------------------------------------------------------
(* The calls.  A call may hold a facade the registry has already replaced. *)

NextMessage(f) == Len(accepted[f]) + 1

\* send(): throws on a failed open or a dead port, queues before the open (and
\* after close()), writes when the port is open.
Send(f) ==
    /\ stage[f] \notin {"unused", "failed"}
    /\ Len(accepted[f]) < MaxSends
    /\ \/ /\ stage[f] # "open"
          /\ queue' = [queue EXCEPT ![f] = Append(@, NextMessage(f))]
          /\ accepted' = [accepted EXCEPT ![f] = Append(@, NextMessage(f))]
          /\ UNCHANGED <<sendErr, wire>>
       \/ /\ stage[f] = "open" /\ isOpen[f]
          /\ wire' = [wire EXCEPT ![f] = Append(@, NextMessage(f))]
          /\ accepted' = [accepted EXCEPT ![f] = Append(@, NextMessage(f))]
          /\ sendErr' = [sendErr EXCEPT ![f] = FALSE]
          /\ UNCHANGED queue
       \/ /\ stage[f] = "open" /\ ~isOpen[f]
          /\ sendErr' = [sendErr EXCEPT ![f] = TRUE]
          /\ UNCHANGED <<queue, historyVars>>
    /\ UNCHANGED <<portVars, cur, stage, closed, isOpen, recvVars>>

\* The callback of a write, or the port's error event, arrives.
WriteFails(f) ==
    /\ stage[f] \in {"open", "closing", "released"} /\ wire[f] # <<>>
    /\ sendErr' = [sendErr EXCEPT ![f] = TRUE]
    /\ UNCHANGED <<portVars, cur, stage, closed, isOpen, queue, recvVars, historyVars>>

\* makeReceiver(): on a failed open it rejects at once.
Receive(r, f) ==
    /\ recv[r] \notin Pending
    /\ stage[f] # "unused"
    /\ recv' = [recv EXCEPT ![r] = IF stage[f] = "failed" THEN "diagnosed" ELSE "waiting"]
    /\ on' = [on EXCEPT ![r] = f]
    /\ UNCHANGED <<portVars, facadeVars, historyVars>>

Answered(r) ==
    /\ recv[r] = "waiting"
    /\ stage[on[r]] = "open" /\ isOpen[on[r]]
    /\ recv' = [recv EXCEPT ![r] = "answered"]
    /\ UNCHANGED <<portVars, facadeVars, on, historyVars>>

TimesOut(r) ==
    /\ recv[r] \in Pending
    /\ recv' = [recv EXCEPT ![r] = "timedOut"]
    /\ UNCHANGED <<portVars, facadeVars, on, historyVars>>

-----------------------------------------------------------------------------
(* The environment. *)

Unplug ==
    /\ present
    /\ present' = FALSE
    /\ owner' = None
    /\ isOpen' = [f \in Facade |-> isOpen[f] /\ owner # f]
    /\ UNCHANGED <<editor, cur, stage, closed, queue, sendErr, recvVars, historyVars>>

Replug ==
    /\ ~present
    /\ present' = TRUE
    /\ UNCHANGED <<editor, owner, facadeVars, recvVars, historyVars>>

EditorTakesPort ==
    /\ present /\ ~editor /\ owner = None
    /\ editor' = TRUE
    /\ UNCHANGED <<present, owner, facadeVars, recvVars, historyVars>>

EditorQuits ==
    /\ editor
    /\ editor' = FALSE
    /\ UNCHANGED <<present, owner, facadeVars, recvVars, historyVars>>

-----------------------------------------------------------------------------
OpenStep(f) == Search(f) \/ OsOpen(f) \/ Granted(f) \/ Refused(f) \/ OsClosed(f)

CallStep(f) == Acquire(f) \/ ForceReconnect(f) \/ Send(f) \/ WriteFails(f)

Environment == Unplug \/ Replug \/ EditorTakesPort \/ EditorQuits

Next ==
    \/ \E f \in Facade : OpenStep(f) \/ CallStep(f)
    \/ \E r \in Receiver, f \in Facade : Receive(r, f)
    \/ \E r \in Receiver : Answered(r) \/ TimesOut(r)
    \/ Environment

Spec == Init /\ [][Next]_vars

(***************************************************************************)
(* Fairness: what was asked of the OS completes and the callbacks run.     *)
(* Nothing makes a call send, or a device answer.                          *)
(***************************************************************************)
FairSpec == Spec /\ \A f \in Facade : WF_vars(OpenStep(f))

-----------------------------------------------------------------------------
(* Properties. *)

(***************************************************************************)
(* QueueIsFifo: until the open fails, the bytes handed to the port and the *)
(* bytes still queued are together the accepted sends, each once and in    *)
(* order ("order preserved"), across the deferred open, its flush and a    *)
(* close; and once the port is open no accepted send is left in the queue, *)
(* where nothing would ever flush it.                                      *)
(***************************************************************************)
QueueIsFifo ==
    \A f \in Facade :
        /\ stage[f] # "failed" => wire[f] \o queue[f] = accepted[f]
        /\ stage[f] = "open" => queue[f] = <<>>

(***************************************************************************)
(* WaitersAreDiagnosed: on a facade whose open failed, the only receivers  *)
(* left to their timers are those a close() during the open made deaf; one *)
(* registered after that close() is rejected with the diagnostic like any  *)
(* other (failOpen, close, makeReceiver).  The comment on                  *)
(* openFailureRejecters makes no exception: "Waiters registered before the *)
(* open settles; rejected with the full diagnostic if discovery/open fails *)
(* (instead of a vague timeout)".                                          *)
(***************************************************************************)
WaitersAreDiagnosed ==
    \A r \in Receiver :
        recv[r] \in Pending /\ stage[on[r]] = "failed"
        => recv[r] = "deaf" /\ closed[on[r]]

(***************************************************************************)
(* PortComesBack: the exclusive port is never leaked: when a facade was    *)
(* closed, whatever its open was doing, the OS gets the port back from it. *)
(***************************************************************************)
PortComesBack == \A f \in Facade : closed[f] ~> owner # f

(***************************************************************************)
(* DroppedSendsAreRecorded: "Queued sends are discarded - record that      *)
(* loudly" (failOpen): once an open has failed, whatever send() accepted   *)
(* and no port took stands in lastSendError, over every order of sends,    *)
(* searches, refusals and closes before it.                                *)
(***************************************************************************)
DroppedSendsAreRecorded ==
    \A f \in Facade : stage[f] = "failed" /\ wire[f] # accepted[f] => sendErr[f]
=============================================================================
