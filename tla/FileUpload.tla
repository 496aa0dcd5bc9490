----------------------------- MODULE FileUpload -----------------------------
(***************************************************************************)
(* Uploads to the Circuit Tracks, one at a time:                           *)
(*                                                                         *)
(*   uploadProject.ts   runUploadFramePlan, runFramePlanOnce, the inbox    *)
(*   transfer.ts, sampleTransfer.ts   the frame plans                      *)
(*   handleHealth.ts    withReconnectRetry                                 *)
(*                                                                         *)
(* A plan is a sequence of frames inside one session of the device.  The   *)
(* sender waits for an ACK after some frames and a fixed time after the    *)
(* others; any ACK will do.  A playing device ignores what it gets, the    *)
(* handle may die at any moment, and a transfer that met a dead handle is  *)
(* run once more, from the start, on a fresh one.                          *)
(*                                                                         *)
(* The four handshake frames and the scan of a sample directory, whose     *)
(* replies are drained and are no ACKs, are the one frame "scope".  A file *)
(* is the number of the upload that sent it.                               *)
(***************************************************************************)
EXTENDS Naturals, Sequences

CONSTANTS
    Slot,       \* slots of the pack
    Kind,       \* what is uploaded: a subset of Kinds
    Blocks,     \* data blocks per file (bound; a project has 20)
    MaxUploads, \* bound: uploads
    Late,       \* may a reply outlast the sender's wait?
    None

Kinds == {"project", "sample"}

ASSUME KindAssumption == Kind \subseteq Kinds
ASSUME BlocksAssumption == Blocks \in Nat \ {0}
ASSUME MaxUploadsAssumption == MaxUploads \in Nat
ASSUME LateAssumption == Late \in BOOLEAN
ASSUME NoneIsNoUpload == None \notin Nat

VARIABLES
    n,          \* uploads begun
    job,        \* the upload in progress, or the last one
    pc,         \* where it is
    frame,      \* the frame of the plan it sent last
    attempt,    \* 1, or 2 after a reconnect
    inbox,      \* ACKs the listener buffered
    outcome,    \* how the last upload ended
    handle,     \* "ok", or "dead"
    toDev,      \* frames on their way to the device
    toHost,     \* ACKs on their way back
    session,    \* the device has a session open
    file,       \* the file it is receiving
    stored,     \* stored[k][s]: the file in slot s
    ready,      \* the sample directory is initialised
    closeLost   \* history: a CLOSE of the last attempt was lost

hostVars == <<n, job, pc, frame, attempt, inbox, outcome>>
wireVars == <<handle, toDev, toHost>>
deviceVars == <<session, file, stored, ready>>
vars == <<hostVars, wireVars, deviceVars, closeLost>>

-----------------------------------------------------------------------------
(* The frame plans. *)

F(op, s, b) == [op |-> op, slot |-> s, block |-> b]

\* A project goes to one slot, a kit of samples to one or two (bound).
Jobs ==
    {[kind |-> k, slots |-> <<s>>] : k \in Kind, s \in Slot}
        \cup {[kind |-> k, slots |-> <<s, t>>] : k \in Kind \ {"project"},
                                                s \in Slot, t \in Slot}

\* One block too many.
WriteMore(s) ==
    <<F("init", s, 0)>> \o [b \in 1 .. Blocks + 1 |-> F("data", s, b)]
        \o <<F("finish", s, 0), F("name", s, 0)>>

Write(s) ==
    <<F("init", s, 0)>> \o [b \in 1 .. Blocks |-> F("data", s, b)]
        \o <<F("finish", s, 0), F("name", s, 0)>>

\* A kit deletes what its first slot holds before it writes.
Plan(j) ==
    LET first == j.slots[1]
    IN  <<F("open", first, 0), F("scope", first, 0)>>
            \o (IF j.kind = "sample" THEN <<F("delete", first, 0)>> ELSE <<>>)
            \o Write(first)
            \o (IF Len(j.slots) > 1 THEN Write(j.slots[2]) ELSE <<>>)
            \o <<F("close", first, 0)>>

\* A name that nobody waits for; a checksum; the blocks.
GatedNoName(k, op) == op \in {"open", "init", "data", "finish"}

GatedNoFinish(k, op) ==
    op \in {"open", "init", "data"} \/ (op = "name" /\ k = "sample")

GatedNoData(k, op) ==
    op \in {"open", "init", "finish"} \/ (op = "name" /\ k = "sample")

\* Frames the sender waits for an ACK of.
Gated(k, op) ==
    op \in {"open", "init", "data", "finish"} \/ (op = "name" /\ k = "sample")

Message(f, j, num) ==
    [op |-> f.op, slot |-> f.slot, block |-> f.block, kind |-> j.kind, n |-> num]

CloseOf(j, num) == Message(F("close", j.slots[1], 0), j, num)

-----------------------------------------------------------------------------
(***************************************************************************)
(* TypeOK: every variable stays in its range.                              *)
(***************************************************************************)
PC == {"idle", "settle", "ack", "pace", "retry"}
Ops == {"open", "scope", "delete", "init", "data", "finish", "name", "close"}
Messages == [op : Ops, slot : Slot, block : 0 .. Blocks, kind : Kind,
             n : 1 .. MaxUploads]
Files == [slot : Slot, n : 1 .. MaxUploads, got : 0 .. Blocks, whole : BOOLEAN]

TypeOK ==
    /\ n \in 0 .. MaxUploads
    /\ job \in Jobs \cup {None}
    /\ pc \in PC
    /\ job \in Jobs => frame \in 0 .. Len(Plan(job))
    /\ attempt \in {1, 2}
    /\ inbox \in Seq(Messages)
    /\ outcome \in {"none", "ok", "failed"}
    /\ handle \in {"ok", "dead"}
    /\ toDev \in Seq(Messages)
    /\ toHost \in Seq(Messages)
    /\ session \in BOOLEAN
    /\ file \in Files \cup {None}
    /\ stored \in [Kind -> [Slot -> 0 .. MaxUploads \cup {None}]]
    /\ ready \in BOOLEAN
    /\ closeLost \in BOOLEAN

\* Every slot holds a file from before, and no session is open.
Init ==
    /\ n = 0
    /\ job = None
    /\ pc = "idle"
    /\ frame = 0
    /\ attempt = 1
    /\ inbox = <<>>
    /\ outcome = "none"
    /\ handle = "ok"
    /\ toDev = <<>>
    /\ toHost = <<>>
    /\ session = FALSE
    /\ file = None
    /\ stored = [k \in Kind |-> [s \in Slot |-> 0]]
    /\ ready \in BOOLEAN
    /\ closeLost = FALSE

-----------------------------------------------------------------------------
(* The sender.  Each action runs from one await to the next. *)

\* send() on a handle that works, or on a dead one that swallows the bytes.
Sends(h, m) ==
    /\ toDev' = IF h = "ok" THEN Append(toDev, m) ELSE toDev
    /\ closeLost' = (closeLost \/ (h = "dead" /\ m.op = "close"))

Goes(p) == pc' = p /\ outcome' = "none"

Returns(r) == pc' = "idle" /\ outcome' = r

\* A wrapper that never stops retrying.
EndsNever(fault, a) == IF fault THEN Goes("retry") ELSE Returns("failed")

\* withReconnectRetry: a fault of the handle earns a second attempt, a missing
\* ACK does not.
Ends(fault, a) == IF fault /\ a = 1 THEN Goes("retry") ELSE Returns("failed")

\* No finally: an abort leaves the session open.
AbortsOpen(fault) == UNCHANGED <<toDev, closeLost>> /\ Ends(fault, attempt)

\* An early return, and the finally that closes the session.
Aborts(fault) == Sends(handle, CloseOf(job, n)) /\ Ends(fault, attempt)

\* Every transfer opens cold: nothing resets the device.
StartsCold(h, j, num, a) ==
    /\ inbox' = <<>> /\ frame' = 0
    /\ UNCHANGED toDev
    /\ \/ h = "dead" /\ Ends(TRUE, a) /\ UNCHANGED closeLost
       \/ Goes("settle") /\ closeLost' = FALSE

\* An attempt on handle h: a fresh inbox; a check of the handle, which may
\* refuse a dead one; and, but for samples, a CLOSE that resets the device and
\* that a dead handle may throw on (so that the finally sends another).
Starts(h, j, num, a) ==
    /\ inbox' = <<>> /\ frame' = 0
    /\ \/ h = "dead" /\ Ends(TRUE, a) /\ UNCHANGED <<toDev, closeLost>>
       \/ /\ j.kind = "sample" /\ Goes("settle")
          /\ closeLost' = FALSE /\ UNCHANGED toDev
       \/ /\ j.kind = "project"
          /\ toDev' = IF h = "ok" THEN Append(toDev, CloseOf(j, num)) ELSE toDev
          /\ closeLost' = (h = "dead")
          /\ Goes("settle") \/ (h = "dead" /\ Ends(TRUE, a))

\* A tool call uploads j, on the handle it found or on one it forced anew.
Begin(j) ==
    /\ pc = "idle" /\ n < MaxUploads
    /\ n' = n + 1
    /\ job' = j
    /\ attempt' = 1
    /\ handle' \in {handle, "ok"}
    /\ Starts(handle', j, n + 1, 1)
    /\ UNCHANGED <<toHost, deviceVars>>

\* withReconnectRetry's second attempt: a fresh handle and a short wait, in
\* which it may die again; or a reconnect that throws.
Retry ==
    /\ pc = "retry"
    /\ attempt' = 2
    /\ \/ handle' \in {"ok", "dead"} /\ Starts(handle', job, n, 2)
       \/ Returns("failed") /\ UNCHANGED <<inbox, frame, handle, toDev, closeLost>>
    /\ UNCHANGED <<n, job, toHost, deviceVars>>

\* The fixed waits outlast every reply, unless replies may be late.
Quiet == Late \/ (toDev = <<>> /\ toHost = <<>>)

\* After the last frame the transfer returns ok; for a project the finally
\* closes the session once more.
Finishes ==
    /\ IF job.kind = "project" THEN Sends(handle, CloseOf(job, n))
                               ELSE UNCHANGED <<toDev, closeLost>>
    /\ Returns("ok")

\* The next frame, with what is left in the inbox drained if it waits for an
\* ACK.  A dead handle may throw, or report an error.
SendsNext(left) ==
    LET f == Plan(job)[frame + 1]
        gated == Gated(job.kind, f.op)
    IN  /\ inbox' = IF gated THEN <<>> ELSE left
        /\ \/ Sends(handle, Message(f, job, n))
              /\ Goes(IF gated THEN "ack" ELSE "settle")
           \/ handle = "dead" /\ Aborts(TRUE)

hostRest == <<n, job, attempt, handle, toHost, deviceVars>>

Proceeds(left) ==
    /\ IF frame = Len(Plan(job))
       THEN Finishes /\ inbox' = left /\ UNCHANGED frame
       ELSE SendsNext(left) /\ frame' = frame + 1
    /\ UNCHANGED hostRest

\* The wait after a reset, or after a frame that needs no ACK, ends, and the
\* inbox is cleared.
SettleEnds == pc = "settle" /\ Quiet /\ Proceeds(<<>>)

\* The pause after an ACK ends.
PaceEnds == pc = "pace" /\ Proceeds(inbox)

\* The inbox is polled every 3 ms: the first ACK in it is taken, whatever it
\* acknowledges.
TakesAck ==
    /\ pc = "ack" /\ inbox # <<>>
    /\ inbox' = Tail(inbox)
    /\ Goes("pace")
    /\ UNCHANGED <<frame, toDev, closeLost, hostRest>>

\* No ACK in time: not retried.
TimesOut ==
    /\ pc = "ack" /\ inbox = <<>> /\ Quiet
    /\ Aborts(FALSE)
    /\ UNCHANGED <<inbox, frame, hostRest>>

-----------------------------------------------------------------------------
(* The device and the wire. *)

\* The device takes a frame: its session, its file, the slots, and the ACKs.
Becomes(sess, fl, st, acks) ==
    /\ session' = sess
    /\ file' = fl
    /\ stored' = st
    /\ toHost' = toHost \o acks

Put(m, x) == [stored EXCEPT ![m.kind][m.slot] = x]

\* m goes on with the file the device is receiving.
Continues(m) ==
    file # None /\ file.n = m.n /\ file.slot = m.slot
        /\ file.got = (IF m.op = "data" THEN m.block - 1 ELSE Blocks)

\* What the device makes of a frame it takes: a project is stored when its
\* checksum agrees, a sample when its name enters an initialised directory.
Answers(m) ==
    \/ m.op = "close" /\ Becomes(FALSE, None, stored, <<>>)
    \/ m.op = "open" /\ ~session /\ Becomes(TRUE, None, stored, <<m>>)
    \/ session /\
       \/ m.op = "delete" /\ Becomes(TRUE, file, Put(m, None), <<m>>)
       \/ /\ m.op = "init"
          /\ Becomes(TRUE, [slot |-> m.slot, n |-> m.n, got |-> 0, whole |-> FALSE],
                     stored, <<m>>)
       \/ /\ m.op = "data" /\ Continues(m)
          /\ Becomes(TRUE, [file EXCEPT !.got = m.block], stored, <<m>>)
       \/ /\ m.op = "finish" /\ Continues(m)
          /\ Becomes(TRUE, [file EXCEPT !.whole = TRUE],
                     IF m.kind = "project" THEN Put(m, m.n) ELSE stored, <<m>>)
       \/ /\ m.op = "name" /\ m.kind = "sample" /\ ready
          /\ Continues(m) /\ file.whole
          /\ Becomes(TRUE, file, Put(m, m.n), <<m>>)

\* The device takes the next frame.
Process ==
    /\ toDev # <<>>
    /\ toDev' = Tail(toDev)
    /\ Answers(Head(toDev))
    /\ UNCHANGED <<hostVars, handle, ready, closeLost>>

\* A playing device ignores it, and one that does not expect it, or rejects it,
\* acknowledges nothing.
Ignore ==
    /\ toDev # <<>>
    /\ toDev' = Tail(toDev)
    /\ closeLost' = (closeLost \/ Head(toDev).op = "close")
    /\ UNCHANGED <<hostVars, handle, toHost, deviceVars>>

\* An ACK reaches the listener, or nobody.
Deliver ==
    /\ toHost # <<>>
    /\ toHost' = Tail(toHost)
    /\ inbox' = IF pc \in {"idle", "retry"} THEN inbox
                                            ELSE Append(inbox, Head(toHost))
    /\ UNCHANGED <<n, job, pc, frame, attempt, outcome, handle, toDev,
                   deviceVars, closeLost>>

\* The handle dies: what is under way is lost.
HandleDies ==
    /\ handle = "ok"
    /\ handle' = "dead"
    /\ closeLost' = (closeLost \/ \E i \in DOMAIN toDev : toDev[i].op = "close")
    /\ toDev' = <<>> /\ toHost' = <<>>
    /\ UNCHANGED <<hostVars, deviceVars>>

Host == Retry \/ SettleEnds \/ PaceEnds \/ TakesAck \/ TimesOut

Wire == Process \/ Ignore \/ Deliver \/ HandleDies

Next == (\E j \in Jobs : Begin(j)) \/ Host \/ Wire

\* Every wait of the sender has a timer, and nothing stays on the wire for ever:
\* it is taken, ignored or lost.  The device need not answer.
Fairness == WF_vars(Host) /\ WF_vars(Process \/ Ignore \/ Deliver)

Spec == Init /\ [][Next]_vars
FairSpec == Spec /\ Fairness

-----------------------------------------------------------------------------
(***************************************************************************)
(* OkMeansStored: when an upload reports success, every slot it was for    *)
(* holds the file it sent, whatever died, was retried or was ignored on    *)
(* the way.                                                                *)
(***************************************************************************)
OkMeansStored ==
    outcome = "ok" =>
        \A i \in DOMAIN job.slots : stored[job.kind][job.slots[i]] = n

(***************************************************************************)
(* SessionClosed: however an upload ends, it does not leave the device in  *)
(* a session, unless a CLOSE was lost or ignored.                          *)
(***************************************************************************)
SessionClosed ==
    pc = "idle" /\ handle = "ok" /\ toDev = <<>> /\ ~closeLost => ~session

(***************************************************************************)
(* ResetReopens: whatever state the attempt before left the device in, it  *)
(* takes the OPEN of a project upload with no session open, unless a CLOSE *)
(* of this attempt was lost or ignored.                                    *)
(***************************************************************************)
ResetReopens ==
    [][toDev # <<>> /\ toDev' = Tail(toDev) /\ Head(toDev).op = "open"
           /\ Head(toDev).kind = "project" /\ session
       => closeLost]_vars

(***************************************************************************)
(* UploadEnds: every upload reports an outcome, even if the device never   *)
(* answers and every fresh handle dies.                                    *)
(***************************************************************************)
UploadEnds == pc # "idle" ~> pc = "idle"

(***************************************************************************)
(* AckIsForFrame: an ACK the sender takes is the ACK of the frame it sent  *)
(* last.  The comment on the drain says it keeps a late ACK from being     *)
(* taken for this frame's.                                                 *)
(***************************************************************************)
AckIsForFrame ==
    [][pc = "ack" /\ pc' = "pace"
       => Head(inbox) = Message(Plan(job)[frame], job, n)]_vars
=============================================================================
