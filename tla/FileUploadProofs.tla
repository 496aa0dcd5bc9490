-------------------------- MODULE FileUploadProofs --------------------------
(***************************************************************************)
(* What TLAPS proves of FileUpload, for every set of slots and kinds and   *)
(* any number of blocks and of uploads.                                    *)
(*                                                                         *)
(* That an upload leaves no session open is not inductive: what has to be  *)
(* kept is that the last frame on its way to the device is a CLOSE, from   *)
(* the plan's own CLOSE on, and that only a dead handle earns a retry.     *)
(*                                                                         *)
(* That success means stored, and that an ACK is the one of the last       *)
(* frame, need the sender and the device in step (Sync): after a frame     *)
(* that waits there is that frame, its ACK or nothing between them, and    *)
(* nothing else that the device would acknowledge.  The files of the       *)
(* frames behind the sender are then in their slots (Kept).  These hold    *)
(* when no reply outlasts a wait, and for one late project (InStep): with  *)
(* two late uploads the second may take an ACK of the first.               *)
(***************************************************************************)
EXTENDS FileUpload, TLAPS

Frames == [op : Ops, slot : Slot, block : 0 .. Blocks]

\* What the sender is busy with.
Busy == pc # "idle" => job \in Jobs /\ n \in 1 .. MaxUploads

\* Unless a CLOSE was lost, the device is out of its session once it has taken
\* the frames on their way.
EndsClosed ==
    handle = "ok" /\ ~closeLost =>
        IF toDev = <<>> THEN ~session ELSE toDev[Len(toDev)].op = "close"

AtTheEnd == pc = "idle" \/ frame = Len(Plan(job))

Types == TypeOK /\ Busy

Closing ==
    /\ pc = "retry" => handle = "dead"
    /\ AtTheEnd => EndsClosed

-----------------------------------------------------------------------------
(* The plans. *)

\* An upload is of one kind, to one slot or two.
LEMMA JobType ==
    ASSUME NEW j \in Jobs
    PROVE  /\ j.kind \in Kind
           /\ Len(j.slots) \in {1, 2}
           /\ j.slots[1] \in Slot
           /\ Len(j.slots) > 1 => j.slots[2] \in Slot
  BY DEF Jobs

\* The frames that write one file.
LEMMA WriteType ==
    ASSUME NEW s \in Slot
    PROVE  Write(s) \in Seq(Frames)
<1>1. <<F("init", s, 0)>> \in Seq(Frames)
  BY BlocksAssumption DEF F, Frames, Ops
<1>2. [b \in 1 .. Blocks |-> F("data", s, b)] \in Seq(Frames)
  BY BlocksAssumption DEF F, Frames, Ops
<1>3. <<F("finish", s, 0), F("name", s, 0)>> \in Seq(Frames)
  BY BlocksAssumption DEF F, Frames, Ops
<1> QED
  BY <1>1, <1>2, <1>3 DEF Write

\* What ends with a single element ends with that element.
LEMMA EndsWith ==
    ASSUME NEW S, NEW a \in Seq(S), NEW x \in S
    PROVE  /\ a \o <<x>> \in Seq(S)
           /\ Len(a \o <<x>>) = Len(a) + 1
           /\ (a \o <<x>>)[Len(a \o <<x>>)] = x
  OBVIOUS

\* Taking the first of several elements keeps the last.
LEMMA TailKeepsLast ==
    ASSUME NEW S, NEW q \in Seq(S), q # <<>>, Len(q) # 1
    PROVE  Tail(q) # <<>> /\ Tail(q)[Len(Tail(q))] = q[Len(q)]
<1>1. Len(q) \in Nat /\ Len(q) # 0
  OBVIOUS
<1>2. Tail(q) \in Seq(S) /\ Len(Tail(q)) = Len(q) - 1
  BY <1>1
<1>3. Tail(q)[Len(q) - 1] = q[Len(q)]
  BY <1>1
<1>4. Tail(q)[Len(Tail(q))] = q[Len(q)]
  BY <1>2, <1>3
<1>5. Len(Tail(q)) # 0
  BY <1>1, <1>2
<1>6. Tail(q) # <<>>
  <2>1. Len(<<>>) = 0
    OBVIOUS
  <2> QED
    BY <1>5, <2>1, Zenon
<1> QED
  BY <1>4, <1>6

\* A plan is made of frames, and its last one is the CLOSE.
LEMMA PlanType ==
    ASSUME NEW j \in Jobs
    PROVE  /\ Plan(j) \in Seq(Frames)
           /\ Len(Plan(j)) \in Nat \ {0}
           /\ Plan(j)[Len(Plan(j))].op = "close"
<1> DEFINE first == j.slots[1]
           open == <<F("open", first, 0), F("scope", first, 0)>>
           delete == IF j.kind = "sample" THEN <<F("delete", first, 0)>> ELSE <<>>
           second == IF Len(j.slots) > 1 THEN Write(j.slots[2]) ELSE <<>>
           front == open \o delete \o Write(first) \o second
           last == F("close", first, 0)
<1>1. first \in Slot
  BY JobType
<1>2. open \in Seq(Frames)
  BY <1>1, BlocksAssumption DEF F, Frames, Ops
<1>3. delete \in Seq(Frames)
  <2>1. <<F("delete", first, 0)>> \in Seq(Frames)
    BY <1>1, BlocksAssumption DEF F, Frames, Ops
  <2>2. <<>> \in Seq(Frames)
    OBVIOUS
  <2> QED
    BY <2>1, <2>2
<1>4. Write(first) \in Seq(Frames)
  BY <1>1, WriteType
<1>5. second \in Seq(Frames)
  <2>1. CASE Len(j.slots) > 1
    BY <2>1, JobType, WriteType
  <2>2. CASE ~(Len(j.slots) > 1)
    BY <2>2
  <2> QED
    BY <2>1, <2>2
<1>6. last \in Frames /\ last.op = "close"
  BY <1>1, BlocksAssumption DEF F, Frames, Ops
<1>7. front \in Seq(Frames)
  <2> HIDE DEF open, delete, second
  <2> QED
    BY <1>2, <1>3, <1>4, <1>5
<1>8. Plan(j) = front \o <<last>>
  BY DEF Plan
<1> HIDE DEF front, last
<1>9. Len(front) \in Nat
  BY <1>7
<1> QED
  BY <1>6, <1>7, <1>8, <1>9, EndsWith

\* Messages made of frames of the plan.
LEMMA MessageType ==
    ASSUME NEW j \in Jobs, NEW f \in Frames, NEW k \in 1 .. MaxUploads
    PROVE  Message(f, j, k) \in Messages /\ CloseOf(j, k) \in Messages
               /\ CloseOf(j, k).op = "close" /\ Message(f, j, k).op = f.op
<1>1. j.kind \in Kind /\ j.slots[1] \in Slot
  BY JobType
<1>2. F("close", j.slots[1], 0) \in Frames
  BY <1>1, BlocksAssumption DEF F, Frames, Ops
<1> QED
  BY <1>1, <1>2, BlocksAssumption DEF Message, CloseOf, Messages, Frames, F

-----------------------------------------------------------------------------
(* What the parts of an action do. *)

\* send() keeps the types, and a frame that a working handle took is the last
\* on its way.
LEMMA SendsType ==
    ASSUME TypeOK, NEW m \in Messages, NEW h, Sends(h, m)
    PROVE  /\ toDev' \in Seq(Messages)
           /\ closeLost' \in BOOLEAN
           /\ h = "ok" => toDev' # <<>> /\ toDev'[Len(toDev')] = m
<1>1. toDev \in Seq(Messages) /\ closeLost \in BOOLEAN
  BY DEF TypeOK
<1>2. closeLost' \in BOOLEAN
  BY DEF Sends
<1>3. toDev' = IF h = "ok" THEN Append(toDev, m) ELSE toDev
  BY DEF Sends
<1> QED
  BY <1>1, <1>2, <1>3

\* The wrapper: only a fault earns a retry.
LEMMA EndsType ==
    ASSUME NEW fault, NEW a, Ends(fault, a)
    PROVE  /\ pc' \in {"idle", "retry"}
           /\ outcome' \in {"none", "failed"}
           /\ pc' = "retry" => fault
  BY DEF Ends, Goes, Returns

\* The start of an attempt ends at once only on a dead handle.
LEMMA StartsType ==
    ASSUME TypeOK, NEW h, NEW j \in Jobs, NEW k \in 1 .. MaxUploads, NEW a,
           Starts(h, j, k, a)
    PROVE  /\ inbox' = <<>> /\ frame' = 0
           /\ toDev' \in Seq(Messages)
           /\ closeLost' \in BOOLEAN
           /\ pc' \in {"idle", "retry", "settle"}
           /\ outcome' \in {"none", "failed"}
           /\ pc' # "settle" => h = "dead"
<1> DEFINE refused == h = "dead" /\ Ends(TRUE, a) /\ UNCHANGED <<toDev, closeLost>>
           cold == j.kind = "sample" /\ Goes("settle") /\ closeLost' = FALSE
                       /\ UNCHANGED toDev
           reset == /\ j.kind = "project"
                    /\ toDev' = IF h = "ok" THEN Append(toDev, CloseOf(j, k)) ELSE toDev
                    /\ closeLost' = (h = "dead")
                    /\ Goes("settle") \/ (h = "dead" /\ Ends(TRUE, a))
<1>1. inbox' = <<>> /\ frame' = 0 /\ (refused \/ cold \/ reset)
  BY DEF Starts
<1>2. toDev \in Seq(Messages) /\ closeLost \in BOOLEAN
  BY DEF TypeOK
<1>3. CASE refused
  BY <1>1, <1>2, <1>3, EndsType
<1>4. CASE cold
  BY <1>1, <1>2, <1>4 DEF Goes
<1>5. CASE reset
  <2>1. toDev' \in Seq(Messages)
    <3>1. CloseOf(j, k) \in Messages
      BY BlocksAssumption, JobType DEF CloseOf, Message, Messages, F, Ops
    <3> QED
      BY <1>2, <1>5, <3>1
  <2>2. closeLost' \in BOOLEAN
    BY <1>5
  <2>3. Goes("settle") \/ (h = "dead" /\ Ends(TRUE, a))
    BY <1>5
  <2> QED
    BY <1>1, <2>1, <2>2, <2>3, EndsType DEF Goes
<1> HIDE DEF refused, cold, reset
<1> QED
  BY <1>1, <1>3, <1>4, <1>5

\* An abort closes the session, or has nothing to send on.
LEMMA AbortsType ==
    ASSUME Types, pc # "idle", NEW fault, Aborts(fault), handle' = handle
    PROVE  /\ toDev' \in Seq(Messages)
           /\ closeLost' \in BOOLEAN
           /\ pc' \in {"idle", "retry"}
           /\ outcome' \in {"none", "failed"}
           /\ pc' = "retry" => fault
           /\ EndsClosed'
<1>1. job \in Jobs /\ n \in 1 .. MaxUploads
  BY DEF Types, Busy
<1>2. CloseOf(job, n) \in Messages /\ CloseOf(job, n).op = "close"
  BY <1>1, BlocksAssumption, JobType DEF CloseOf, Message, Messages, F, Ops
<1>3. Sends(handle, CloseOf(job, n)) /\ Ends(fault, attempt)
  BY DEF Aborts
<1>4. /\ toDev' \in Seq(Messages) /\ closeLost' \in BOOLEAN
      /\ handle = "ok" => toDev' # <<>> /\ toDev'[Len(toDev')].op = "close"
  BY <1>2, <1>3, SendsType DEF Types
<1>5. EndsClosed'
  BY <1>4 DEF EndsClosed
<1> QED
  BY <1>3, <1>4, <1>5, EndsType

-----------------------------------------------------------------------------
(* The steps. *)

\* Sending the next frame, or finishing: only the plan's last frame leads to
\* the end of the plan, and it is a CLOSE.
LEMMA ProceedsKeeps ==
    ASSUME Types, Closing, pc # "idle", pc # "retry",
           NEW left \in Seq(Messages), Proceeds(left)
    PROVE  Types' /\ Closing'
<1> USE DEF Types
<1>1. /\ job \in Jobs /\ n \in 1 .. MaxUploads
      /\ frame \in 0 .. Len(Plan(job)) /\ Plan(job) \in Seq(Frames)
      /\ Len(Plan(job)) \in Nat \ {0}
      /\ Plan(job)[Len(Plan(job))].op = "close"
  BY PlanType DEF Busy, TypeOK
<1>2. /\ job' = job /\ n' = n /\ handle' = handle /\ session' = session
      /\ attempt' = attempt /\ toHost' = toHost
      /\ file' = file /\ stored' = stored /\ ready' = ready
  BY DEF Proceeds, hostRest, deviceVars
<1>3. Plan(job)' = Plan(job)
  BY <1>2 DEF Plan, Write, F
<1>4. SUFFICES
          /\ frame' \in 0 .. Len(Plan(job)) /\ pc' \in PC /\ inbox' \in Seq(Messages)
          /\ outcome' \in {"none", "ok", "failed"}
          /\ toDev' \in Seq(Messages) /\ closeLost' \in BOOLEAN
          /\ Closing'
  <2>1. TypeOK'
    BY <1>2, <1>3, <1>4 DEF TypeOK
  <2>2. Busy'
    BY <1>1, <1>2 DEF Busy
  <2> QED
    BY <1>4, <2>1, <2>2
<1>5. CASE frame = Len(Plan(job))
  <2>1. Finishes /\ inbox' = left /\ frame' = frame
    BY <1>5 DEF Proceeds
  <2>2. CASE job.kind = "project"
    <3>1. Sends(handle, CloseOf(job, n)) /\ pc' = "idle" /\ outcome' = "ok"
      BY <2>1, <2>2 DEF Finishes, Returns
    <3>2. CloseOf(job, n) \in Messages /\ CloseOf(job, n).op = "close"
      BY <1>1, BlocksAssumption, JobType DEF CloseOf, Message, Messages, F, Ops
    <3>3. /\ toDev' \in Seq(Messages) /\ closeLost' \in BOOLEAN
          /\ handle = "ok" => toDev' # <<>> /\ toDev'[Len(toDev')].op = "close"
      BY <3>1, <3>2, SendsType
    <3>4. Closing'
      BY <1>2, <3>1, <3>3 DEF Closing, EndsClosed
    <3> QED
      BY <1>1, <2>1, <3>1, <3>3, <3>4 DEF PC
  <2>3. CASE job.kind # "project"
    <3>1. toDev' = toDev /\ closeLost' = closeLost /\ pc' = "idle" /\ outcome' = "ok"
      BY <2>1, <2>3 DEF Finishes, Returns
    <3>2. Closing'
      BY <1>2, <1>5, <3>1 DEF Closing, AtTheEnd, EndsClosed
    <3> QED
      BY <1>1, <2>1, <3>1, <3>2 DEF PC, TypeOK
  <2> QED
    BY <2>2, <2>3
<1>6. CASE frame # Len(Plan(job))
  <2> DEFINE f == Plan(job)[frame + 1]
             gated == Gated(job.kind, f.op)
  <2>1. SendsNext(left) /\ frame' = frame + 1
    BY <1>6 DEF Proceeds
  <2>2. f \in Frames /\ frame' \in 1 .. Len(Plan(job))
    BY <1>1, <1>6, <2>1
  <2>3. Message(f, job, n) \in Messages /\ Message(f, job, n).op = f.op
    BY <1>1, <2>2, MessageType
  <2>4. inbox' \in Seq(Messages)
    BY <2>1 DEF SendsNext
  <2>5. CASE Sends(handle, Message(f, job, n)) /\ Goes(IF gated THEN "ack" ELSE "settle")
    <3>1. /\ toDev' \in Seq(Messages) /\ closeLost' \in BOOLEAN
          /\ handle = "ok" => toDev' # <<>> /\ toDev'[Len(toDev')].op = f.op
      BY <2>3, <2>5, SendsType
    <3>2. pc' \in {"ack", "settle"} /\ outcome' = "none"
      <4> HIDE DEF gated
      <4> QED
        BY <2>5 DEF Goes
    <3>3. frame' = Len(Plan(job)) => f.op = "close"
      BY <1>1, <2>1
    <3>4. Closing'
      <4> HIDE DEF f
      <4> QED
        BY <1>2, <1>3, <3>1, <3>2, <3>3 DEF Closing, AtTheEnd, EndsClosed
    <3> QED
      BY <2>2, <2>4, <3>1, <3>2, <3>4 DEF PC
  <2>6. CASE handle = "dead" /\ Aborts(TRUE)
    <3>1. /\ toDev' \in Seq(Messages) /\ closeLost' \in BOOLEAN
          /\ pc' \in {"idle", "retry"} /\ outcome' \in {"none", "failed"}
          /\ EndsClosed'
      BY <1>2, <2>6, AbortsType
    <3>2. Closing'
      BY <1>2, <2>6, <3>1 DEF Closing
    <3> QED
      BY <2>2, <2>4, <3>1, <3>2 DEF PC
  <2> QED
    BY <2>1, <2>5, <2>6 DEF SendsNext
<1> QED
  BY <1>5, <1>6

\* The transfer's own steps.
LEMMA HostKeeps ==
    ASSUME Types, Closing, Host
    PROVE  Types' /\ Closing'
<1> USE DEF Types
<1>1. CASE Retry
  <2>1. /\ job' = job /\ n' = n /\ toHost' = toHost
        /\ session' = session /\ file' = file /\ stored' = stored /\ ready' = ready
        /\ attempt' = 2 /\ pc = "retry" /\ handle = "dead"
    BY <1>1 DEF Retry, deviceVars, Closing
  <2>2. job \in Jobs /\ n \in 1 .. MaxUploads /\ Len(Plan(job)) \in Nat \ {0}
    BY <2>1, PlanType DEF Busy
  <2>3. Plan(job)' = Plan(job)
    BY <2>1 DEF Plan, Write, F
  <2>4. CASE handle' \in {"ok", "dead"} /\ Starts(handle', job, n, 2)
    <3>1. /\ inbox' = <<>> /\ frame' = 0
          /\ toDev' \in Seq(Messages) /\ closeLost' \in BOOLEAN
          /\ pc' \in {"idle", "retry", "settle"} /\ outcome' \in {"none", "failed"}
          /\ pc' # "settle" => handle' = "dead"
      BY <2>2, <2>4, StartsType
    <3>2. Closing'
      BY <2>2, <2>3, <3>1 DEF Closing, AtTheEnd, EndsClosed
    <3>3. TypeOK'
      BY <2>1, <2>2, <2>3, <2>4, <3>1 DEF TypeOK, PC
    <3> QED
      BY <2>1, <2>2, <3>2, <3>3 DEF Busy
  <2>5. CASE Returns("failed") /\ UNCHANGED <<inbox, frame, handle, toDev, closeLost>>
    <3>1. Closing'
      BY <2>1, <2>5 DEF Closing, EndsClosed, Returns
    <3>2. TypeOK'
      BY <2>1, <2>3, <2>5 DEF TypeOK, PC, Returns
    <3> QED
      BY <2>1, <2>2, <3>1, <3>2 DEF Busy
  <2> QED
    BY <1>1, <2>4, <2>5 DEF Retry
<1>2. CASE SettleEnds
  <2>1. <<>> \in Seq(Messages)
    OBVIOUS
  <2>2. pc = "settle" /\ Proceeds(<<>>)
    BY <1>2 DEF SettleEnds
  <2> QED
    BY <2>1, <2>2, ProceedsKeeps
<1>3. CASE PaceEnds
  BY <1>3, ProceedsKeeps DEF PaceEnds, TypeOK
<1>4. CASE TakesAck
  <2>1. /\ pc = "ack" /\ inbox # <<>> /\ inbox' = Tail(inbox) /\ pc' = "pace"
        /\ outcome' = "none" /\ frame' = frame /\ toDev' = toDev
        /\ closeLost' = closeLost /\ n' = n /\ job' = job /\ attempt' = attempt
        /\ handle' = handle /\ toHost' = toHost
        /\ session' = session /\ file' = file /\ stored' = stored /\ ready' = ready
    BY <1>4 DEF TakesAck, Goes, hostRest, deviceVars
  <2>2. Plan(job)' = Plan(job)
    BY <2>1 DEF Plan, Write, F
  <2>3. inbox' \in Seq(Messages)
    BY <2>1 DEF TypeOK
  <2>4. TypeOK'
    BY <2>1, <2>2, <2>3 DEF TypeOK, PC
  <2>5. Busy'
    BY <2>1 DEF Busy
  <2>6. EndsClosed' <=> EndsClosed
    BY <2>1 DEF EndsClosed
  <2>7. AtTheEnd' => AtTheEnd
    BY <2>1, <2>2 DEF AtTheEnd
  <2> QED
    BY <2>1, <2>4, <2>5, <2>6, <2>7 DEF Closing
<1>5. CASE TimesOut
  <2>1. /\ pc = "ack" /\ inbox' = inbox /\ frame' = frame
        /\ n' = n /\ job' = job /\ attempt' = attempt
        /\ handle' = handle /\ toHost' = toHost
        /\ session' = session /\ file' = file /\ stored' = stored /\ ready' = ready
        /\ Aborts(FALSE)
    BY <1>5 DEF TimesOut, hostRest, deviceVars
  <2>2. Plan(job)' = Plan(job)
    BY <2>1 DEF Plan, Write, F
  <2>3. /\ toDev' \in Seq(Messages) /\ closeLost' \in BOOLEAN
        /\ pc' = "idle" /\ outcome' \in {"none", "failed"} /\ EndsClosed'
    BY <2>1, AbortsType
  <2>4. TypeOK'
    BY <2>1, <2>2, <2>3 DEF TypeOK, PC
  <2> QED
    BY <2>1, <2>3, <2>4 DEF Busy, Closing
<1> QED
  BY <1>1, <1>2, <1>3, <1>4, <1>5 DEF Host

\* A new upload.
LEMMA BeginKeeps ==
    ASSUME Types, Closing, NEW j \in Jobs, Begin(j)
    PROVE  Types' /\ Closing'
<1> USE DEF Types
<1>1. /\ n < MaxUploads /\ n' = n + 1 /\ job' = j /\ attempt' = 1
      /\ handle' \in {handle, "ok"} /\ toHost' = toHost
      /\ session' = session /\ file' = file /\ stored' = stored /\ ready' = ready
      /\ Starts(handle', j, n + 1, 1)
  BY DEF Begin, deviceVars
<1>2. n + 1 \in 1 .. MaxUploads
  BY <1>1, MaxUploadsAssumption DEF TypeOK
<1>3. /\ inbox' = <<>> /\ frame' = 0
      /\ toDev' \in Seq(Messages) /\ closeLost' \in BOOLEAN
      /\ pc' \in {"idle", "retry", "settle"} /\ outcome' \in {"none", "failed"}
      /\ pc' # "settle" => handle' = "dead"
  BY <1>1, <1>2, StartsType
<1>4. Plan(j) \in Seq(Frames) /\ Len(Plan(j)) \in Nat \ {0}
  BY PlanType
<1>5. Plan(job)' = Plan(j)
  BY <1>1 DEF Plan, Write, F
<1>6. TypeOK'
  BY <1>1, <1>2, <1>3, <1>4, <1>5 DEF TypeOK, PC
<1>7. Busy'
  BY <1>1, <1>2 DEF Busy
<1>8. Closing'
  BY <1>3, <1>4, <1>5 DEF Closing, AtTheEnd, EndsClosed
<1> QED
  BY <1>6, <1>7, <1>8

\* The device puts a file into a slot.
LEMMA PutType ==
    ASSUME TypeOK, NEW m \in Messages, NEW x \in 0 .. MaxUploads \cup {None}
    PROVE  Put(m, x) \in [Kind -> [Slot -> 0 .. MaxUploads \cup {None}]]
  BY DEF TypeOK, Put, Messages

\* The device's answers, one by one.
LEMMA AnswersType ==
    ASSUME TypeOK, NEW m \in Messages, Answers(m)
    PROVE  /\ session' \in BOOLEAN
           /\ file' \in Files \cup {None}
           /\ stored' \in [Kind -> [Slot -> 0 .. MaxUploads \cup {None}]]
           /\ toHost' \in Seq(Messages)
           /\ m.op = "close" => ~session'
<1>1. /\ m.n \in 1 .. MaxUploads /\ m.slot \in Slot /\ m.block \in 0 .. Blocks
      /\ toHost \in Seq(Messages) /\ file \in Files \cup {None}
      /\ stored \in [Kind -> [Slot -> 0 .. MaxUploads \cup {None}]]
  BY DEF TypeOK, Messages
<1>2. toHost \o <<>> \in Seq(Messages) /\ toHost \o <<m>> \in Seq(Messages)
  BY <1>1
<1>3. CASE m.op = "close" /\ Becomes(FALSE, None, stored, <<>>)
  BY <1>1, <1>2, <1>3 DEF Becomes
<1>4. CASE m.op = "open" /\ Becomes(TRUE, None, stored, <<m>>)
  BY <1>1, <1>2, <1>4 DEF Becomes
<1>5. CASE m.op = "delete" /\ Becomes(TRUE, file, Put(m, None), <<m>>)
  BY <1>1, <1>2, <1>5, PutType DEF Becomes
<1>6. CASE m.op = "init" /\ Becomes(TRUE, [slot |-> m.slot, n |-> m.n, got |-> 0,
                                           whole |-> FALSE], stored, <<m>>)
  BY <1>1, <1>2, <1>6, BlocksAssumption DEF Becomes, Files
<1>7. CASE m.op = "data" /\ Continues(m)
               /\ Becomes(TRUE, [file EXCEPT !.got = m.block], stored, <<m>>)
  <2>1. file \in Files
    BY <1>1, <1>7 DEF Continues
  <2>2. [file EXCEPT !.got = m.block] \in Files
    BY <1>1, <2>1 DEF Files
  <2> QED
    BY <1>1, <1>2, <1>7, <2>2 DEF Becomes
<1>8. CASE m.op = "finish" /\ Continues(m)
               /\ Becomes(TRUE, [file EXCEPT !.whole = TRUE],
                          IF m.kind = "project" THEN Put(m, m.n) ELSE stored, <<m>>)
  <2>1. file \in Files
    BY <1>1, <1>8 DEF Continues
  <2>2. [file EXCEPT !.whole = TRUE] \in Files
    BY <1>1, <2>1 DEF Files
  <2>3. (IF m.kind = "project" THEN Put(m, m.n) ELSE stored)
            \in [Kind -> [Slot -> 0 .. MaxUploads \cup {None}]]
    BY <1>1, PutType
  <2> QED
    BY <1>1, <1>2, <1>8, <2>2, <2>3 DEF Becomes
<1>9. CASE m.op = "name" /\ Becomes(TRUE, file, Put(m, m.n), <<m>>)
  BY <1>1, <1>2, <1>9, PutType DEF Becomes
<1> QED
  BY <1>3, <1>4, <1>5, <1>6, <1>7, <1>8, <1>9 DEF Answers

\* The device and the wire leave the CLOSE the last frame on its way.
LEMMA WireEndsClosed ==
    ASSUME TypeOK, EndsClosed, Wire
    PROVE  EndsClosed'
<1>1. CASE Process \/ Ignore
  <2>1. /\ toDev # <<>> /\ toDev' = Tail(toDev) /\ handle' = handle
        /\ toDev \in Seq(Messages) /\ Head(toDev) \in Messages
    BY <1>1 DEF Process, Ignore, TypeOK
  <2>2. /\ closeLost => closeLost'
        /\ Head(toDev).op = "close" => closeLost' \/ ~session'
    <3>1. CASE Process
      BY <2>1, <3>1, AnswersType DEF Process
    <3>2. CASE Ignore
      BY <3>2 DEF Ignore
    <3> QED
      BY <1>1, <3>1, <3>2
  <2> SUFFICES ASSUME handle = "ok", ~closeLost'
               PROVE  IF toDev' = <<>> THEN ~session'
                                       ELSE toDev'[Len(toDev')].op = "close"
    BY <2>1 DEF EndsClosed
  <2>3. toDev[Len(toDev)].op = "close"
    BY <2>1, <2>2 DEF EndsClosed
  <2>4. CASE Len(toDev) = 1
    <3>1. toDev' = <<>> /\ Head(toDev).op = "close"
      BY <2>1, <2>3, <2>4
    <3> QED
      BY <2>2, <3>1
  <2>5. CASE Len(toDev) # 1
    BY <2>1, <2>3, <2>5, TailKeepsLast
  <2> QED
    BY <2>4, <2>5
<1>2. CASE Deliver
  BY <1>2 DEF Deliver, deviceVars, EndsClosed
<1>3. CASE HandleDies
  BY <1>3 DEF HandleDies, EndsClosed
<1> QED
  BY <1>1, <1>2, <1>3 DEF Wire

\* The wire and the device: they take frames in order.
LEMMA WireKeeps ==
    ASSUME Types, Closing, Wire
    PROVE  Types' /\ Closing'
<1> USE DEF Types
<1>1. CASE Process \/ Ignore
  <2> DEFINE m == Head(toDev)
  <2>1. /\ toDev # <<>> /\ toDev' = Tail(toDev) /\ UNCHANGED hostVars
        /\ handle' = handle /\ ready' = ready
    BY <1>1 DEF Process, Ignore, deviceVars
  <2>2. toDev \in Seq(Messages) /\ m \in Messages /\ toDev' \in Seq(Messages)
    BY <2>1 DEF TypeOK
  <2>3. /\ session' \in BOOLEAN /\ file' \in Files \cup {None}
        /\ stored' \in [Kind -> [Slot -> 0 .. MaxUploads \cup {None}]]
        /\ toHost' \in Seq(Messages) /\ closeLost' \in BOOLEAN
        /\ closeLost => closeLost'
        /\ m.op = "close" => closeLost' \/ ~session'
    <3>1. CASE Process
      <4>1. Answers(m) /\ closeLost' = closeLost
        BY <3>1 DEF Process
      <4> QED
        BY <2>2, <4>1, AnswersType DEF TypeOK
    <3>2. CASE Ignore
      <4>1. /\ closeLost' = (closeLost \/ m.op = "close")
            /\ session' = session /\ file' = file /\ stored' = stored
            /\ toHost' = toHost
        BY <3>2 DEF Ignore, deviceVars
      <4> QED
        BY <4>1 DEF TypeOK
    <3> QED
      BY <1>1, <3>1, <3>2
  <2>4. Plan(job)' = Plan(job)
    BY <2>1 DEF hostVars, Plan, Write, F
  <2>5. TypeOK'
    BY <2>1, <2>2, <2>3, <2>4 DEF TypeOK, hostVars
  <2>6. Busy' /\ (AtTheEnd' => AtTheEnd)
    BY <2>1, <2>4 DEF Busy, AtTheEnd, hostVars
  <2>7. EndsClosed => EndsClosed'
    BY <1>1, WireEndsClosed DEF Wire
  <2> QED
    BY <2>1, <2>5, <2>6, <2>7 DEF Closing, hostVars
<1>2. CASE Deliver
  <2>1. /\ toHost # <<>> /\ toHost' = Tail(toHost)
        /\ inbox' = (IF pc \in {"idle", "retry"} THEN inbox
                                                 ELSE Append(inbox, Head(toHost)))
        /\ n' = n /\ job' = job /\ pc' = pc /\ frame' = frame /\ attempt' = attempt
        /\ outcome' = outcome /\ handle' = handle
        /\ toDev' = toDev /\ session' = session /\ file' = file
        /\ stored' = stored /\ ready' = ready /\ closeLost' = closeLost
    BY <1>2 DEF Deliver, deviceVars
  <2>2. inbox' \in Seq(Messages) /\ toHost' \in Seq(Messages)
    BY <2>1 DEF TypeOK
  <2>3. Plan(job)' = Plan(job)
    BY <2>1 DEF Plan, Write, F
  <2>4. TypeOK'
    BY <2>1, <2>2, <2>3 DEF TypeOK
  <2>5. Busy' /\ (AtTheEnd' => AtTheEnd)
    BY <2>1, <2>3 DEF Busy, AtTheEnd
  <2>6. EndsClosed => EndsClosed'
    BY <1>2, WireEndsClosed DEF Wire
  <2> QED
    BY <2>1, <2>4, <2>5, <2>6 DEF Closing
<1>3. CASE HandleDies
  <2>1. /\ handle' = "dead" /\ closeLost' \in BOOLEAN
        /\ toDev' = <<>> /\ toHost' = <<>>
        /\ n' = n /\ job' = job /\ pc' = pc /\ frame' = frame /\ attempt' = attempt
        /\ inbox' = inbox /\ outcome' = outcome
        /\ session' = session /\ file' = file /\ stored' = stored /\ ready' = ready
    BY <1>3 DEF HandleDies, hostVars, deviceVars
  <2>2. Plan(job)' = Plan(job)
    BY <2>1 DEF Plan, Write, F
  <2>3. TypeOK'
    BY <2>1, <2>2 DEF TypeOK
  <2>4. Busy'
    BY <2>1 DEF Busy
  <2>5. Closing'
    BY <2>1 DEF Closing, EndsClosed
  <2> QED
    BY <2>3, <2>4, <2>5
<1> QED
  BY <1>1, <1>2, <1>3 DEF Wire

-----------------------------------------------------------------------------
(***************************************************************************)
(* The invariant is inductive.                                             *)
(***************************************************************************)
THEOREM Inductive == Spec => [](Types /\ Closing)
<1>1. Init => Types /\ Closing
  <2> SUFFICES ASSUME Init PROVE Types /\ Closing
    OBVIOUS
  <2>1. job \in Jobs => frame \in 0 .. Len(Plan(job))
    BY PlanType DEF Init
  <2>2. /\ inbox \in Seq(Messages) /\ toDev \in Seq(Messages)
        /\ toHost \in Seq(Messages)
    BY DEF Init
  <2>3. stored \in [Kind -> [Slot -> 0 .. MaxUploads \cup {None}]]
    BY MaxUploadsAssumption DEF Init
  <2>4. n \in 0 .. MaxUploads
    BY MaxUploadsAssumption DEF Init
  <2>5. TypeOK
    BY <2>1, <2>2, <2>3, <2>4 DEF Init, TypeOK, PC
  <2> QED
    BY <2>5 DEF Init, Types, Busy, Closing, EndsClosed
<1>2. Types /\ Closing /\ [Next]_vars => Types' /\ Closing'
  <2> SUFFICES ASSUME Types, Closing, [Next]_vars PROVE Types' /\ Closing'
    OBVIOUS
  <2>1. CASE UNCHANGED vars
    <3>1. Plan(job)' = Plan(job)
      BY <2>1 DEF vars, hostVars, Plan, Write, F
    <3>2. TypeOK'
      BY <2>1, <3>1 DEF Types, TypeOK, vars, hostVars, wireVars, deviceVars
    <3>3. Busy' /\ (AtTheEnd' => AtTheEnd) /\ (EndsClosed' <=> EndsClosed)
      BY <2>1, <3>1 DEF Types, Busy, AtTheEnd, EndsClosed, vars, hostVars,
                        wireVars, deviceVars
    <3> QED
      BY <2>1, <3>2, <3>3 DEF Types, Closing, vars, hostVars, wireVars
  <2> QED
    BY <2>1, BeginKeeps, HostKeeps, WireKeeps DEF Next
<1> QED
  BY <1>1, <1>2, PTL DEF Spec

(***************************************************************************)
(* Every variable stays in its range.                                      *)
(***************************************************************************)
THEOREM TypeCorrect == Spec => []TypeOK
<1>1. Types /\ Closing => TypeOK
  BY DEF Types
<1> QED
  BY <1>1, Inductive, PTL

(***************************************************************************)
(* However an upload ends, with success, a missing ACK, a fault of the     *)
(* handle or a failed reconnect, it does not leave the device in a         *)
(* session, unless a CLOSE was lost or ignored.                            *)
(***************************************************************************)
THEOREM AlwaysClosed == Spec => []SessionClosed
<1>1. Types /\ Closing => SessionClosed
  BY DEF Closing, AtTheEnd, EndsClosed, SessionClosed
<1> QED
  BY <1>1, Inductive, PTL
-----------------------------------------------------------------------------
(* Frames and ACKs. *)

\* Replies come before the sender gives up waiting; or there is one upload, of a
\* project, whose frames that nobody waits for have no reply that could be late.
InStep == ~Late \/ (Kind \subseteq {"project"} /\ MaxUploads = 1)

At(p) == Message(Plan(job)[p], job, n)

\* The frame the sender is at.
Current == At(frame)

\* What the device may acknowledge.
Answerable(m) == m.op \notin {"close", "scope"} /\ (m.op = "name" => m.kind = "sample")

Silent(q) == \A i \in DOMAIN q : ~Answerable(q[i])

NoReply == Silent(toDev) /\ toHost = <<>> /\ inbox = <<>>

\* q ends in m, after frames without a reply.
LastOnly(q, m) ==
    /\ q # <<>> /\ q[Len(q)] = m
    /\ \A i \in DOMAIN q : i # Len(q) => ~Answerable(q[i])

\* The only reply there may still be is the ACK of the frame sent last.
OneReply ==
    \/ NoReply
    \/ LastOnly(toDev, Current) /\ toHost = <<>> /\ inbox = <<>>
    \/ Silent(toDev) /\ toHost = <<Current>> /\ inbox = <<>>
    \/ Silent(toDev) /\ toHost = <<>> /\ inbox = <<Current>>

\* No frame but m can still change the device.
Only(q, m) == \A i \in DOMAIN q : Answerable(q[i]) => q[i] = m

Sync ==
    /\ pc = "ack" => OneReply /\ frame >= 1
    /\ pc = "pace" => NoReply /\ frame >= 1
    /\ pc = "settle" => /\ Late => NoReply
                        /\ IF frame = 0 THEN Silent(toDev)
                           ELSE Only(toDev, Current) /\ ~Gated(Current.kind, Current.op)
    /\ pc = "idle" => /\ ~Late \/ outcome = "ok" => Silent(toDev)
                      /\ Late => NoReply \/ n = MaxUploads
    /\ handle = "dead" => toDev = <<>> /\ toHost = <<>>

\* The frame whose ACK means that a file is stored.
Stores(m) == IF m.kind = "project" THEN m.op = "finish" ELSE m.op = "name"

Holds(m) == Stores(m) => stored[m.kind][m.slot] = m.n

\* The frames the sender has an ACK of, or needs none of.
Behind(p) == p < frame \/ (p = frame /\ pc = "pace")

Kept ==
    /\ pc \in {"settle", "ack", "pace"} => \A p \in 1 .. frame : Behind(p) => Holds(At(p))
    /\ pc = "ack" /\ (toHost # <<>> \/ inbox # <<>>) => Holds(Current)
    /\ outcome = "ok" => pc = "idle" /\ job \in Jobs /\ OkMeansStored

\* The OPEN of a project comes after a CLOSE, or meets a device without a session.
AfterClose(q) ==
    \A i \in DOMAIN q : q[i].op = "open" /\ q[i].kind = "project" =>
        IF i = 1 THEN ~session ELSE q[i - 1].op = "close"

Reopens ==
    /\ pc = "settle" /\ frame = 0 /\ job.kind = "project" => EndsClosed
    /\ ~closeLost => AfterClose(toDev)

\* e is a followed by b, position by position.
Joined(a, b, e) ==
    /\ e \in Seq(Frames)
    /\ Len(e) = Len(a) + Len(b)
    /\ \A p \in DOMAIN e :
          \/ p \in DOMAIN a /\ p =< Len(a) /\ e[p] = a[p]
          \/ p > Len(a) /\ \E q \in DOMAIN b : e[p] = b[q]
    /\ \A p \in DOMAIN a : p \in DOMAIN e /\ e[p] = a[p]
    /\ \A q \in DOMAIN b : \E p \in DOMAIN e : e[p] = b[q]

\* An element of two sequences, one after the other, is of one or of the other.
LEMMA SplitAt ==
    ASSUME NEW a \in Seq(Frames), NEW b \in Seq(Frames)
    PROVE  Joined(a, b, a \o b)
<1> DEFINE e == a \o b
<1>1. \A p \in DOMAIN e : \/ p \in DOMAIN a /\ p =< Len(a) /\ e[p] = a[p]
                          \/ p > Len(a) /\ p - Len(a) \in DOMAIN b /\ e[p] = b[p - Len(a)]
  OBVIOUS
<1>2. \A q \in DOMAIN b : Len(a) + q \in DOMAIN e /\ e[Len(a) + q] = b[q]
  OBVIOUS
<1>3. /\ e \in Seq(Frames) /\ Len(e) = Len(a) + Len(b)
      /\ \A p \in DOMAIN a : p \in DOMAIN e /\ e[p] = a[p]
  OBVIOUS
<1> HIDE DEF e
<1> QED
  BY <1>1, <1>2, <1>3 DEF Joined, e

\* The frames that write a file: none opens, deletes or closes, and the FINISH
\* and the name are there.
LEMMA WriteFrames ==
    ASSUME NEW s \in Slot
    PROVE  /\ \A p \in DOMAIN Write(s) :
                 Write(s)[p].op \in {"init", "data", "finish", "name"}
           /\ \E p \in DOMAIN Write(s) : Write(s)[p] = F("finish", s, 0)
           /\ \E p \in DOMAIN Write(s) : Write(s)[p] = F("name", s, 0)
<1> DEFINE a == <<F("init", s, 0)>>
           b == [i \in 1 .. Blocks |-> F("data", s, i)]
           c == <<F("finish", s, 0), F("name", s, 0)>>
<1>1. a \in Seq(Frames) /\ b \in Seq(Frames) /\ c \in Seq(Frames)
  BY BlocksAssumption DEF F, Frames, Ops
<1>2. \A p \in DOMAIN a : a[p].op = "init"
  BY DEF F
<1>3. \A p \in DOMAIN b : b[p].op = "data"
  BY DEF F
<1>4. /\ \A p \in DOMAIN c : c[p].op \in {"finish", "name"}
      /\ 1 \in DOMAIN c /\ 2 \in DOMAIN c
      /\ c[1] = F("finish", s, 0) /\ c[2] = F("name", s, 0)
  BY DEF F
<1>5. Write(s) = (a \o b) \o c
  BY DEF Write
<1> HIDE DEF a, b, c
<1> DEFINE e == a \o b
<1>6. Joined(a, b, e)
  BY <1>1, SplitAt
<1> HIDE DEF e
<1>7. Joined(e, c, Write(s))
  <2>1. e \in Seq(Frames)
    BY <1>6 DEF Joined
  <2>2. Joined(e, c, e \o c)
    BY <1>1, <2>1, SplitAt
  <2> QED
    BY <1>5, <2>2 DEF e
<1>8. \A p \in DOMAIN e : e[p].op \in {"init", "data"}
  BY <1>2, <1>3, <1>6 DEF Joined
<1>9. \A p \in DOMAIN Write(s) : Write(s)[p].op \in {"init", "data", "finish", "name"}
  BY <1>4, <1>7, <1>8 DEF Joined
<1>10. \A p \in DOMAIN c : \E q \in DOMAIN Write(s) : Write(s)[q] = c[p]
  BY <1>7 DEF Joined
<1> QED
  BY <1>4, <1>9, <1>10

\* A plan opens once, deletes (if it is of samples) before it writes, and writes
\* every file it is for.
LEMMA PlanFrames ==
    ASSUME NEW j \in Jobs
    PROVE  /\ Plan(j)[1].op = "open"
           /\ \A p \in DOMAIN Plan(j) : Plan(j)[p].op = "open" => p = 1
           /\ \A p \in DOMAIN Plan(j) : Plan(j)[p].op = "delete" => j.kind = "sample"
           /\ \A p, q \in DOMAIN Plan(j) :
                 Plan(j)[p].op = "delete" /\ Plan(j)[q].op \in {"finish", "name"} => p < q
           /\ \A i \in DOMAIN j.slots, op \in {"finish", "name"} :
                 \E p \in DOMAIN Plan(j) : Plan(j)[p] = F(op, j.slots[i], 0)
<1> DEFINE first == j.slots[1]
           a == <<F("open", first, 0), F("scope", first, 0)>>
           d == IF j.kind = "sample" THEN <<F("delete", first, 0)>> ELSE <<>>
           w == Write(first)
           v == IF Len(j.slots) > 1 THEN Write(j.slots[2]) ELSE <<>>
           z == <<F("close", first, 0)>>
           Files1 == {"init", "data", "finish", "name"}
<1>1. first \in Slot
  BY JobType
<1>2. /\ a \in Seq(Frames) /\ d \in Seq(Frames) /\ w \in Seq(Frames) /\ z \in Seq(Frames)
      /\ v \in Seq(Frames)
  <2>1. a \in Seq(Frames) /\ z \in Seq(Frames)
    BY <1>1, BlocksAssumption DEF F, Frames, Ops
  <2>2. <<F("delete", first, 0)>> \in Seq(Frames) /\ <<>> \in Seq(Frames)
    BY <1>1, BlocksAssumption DEF F, Frames, Ops
  <2>3. d \in Seq(Frames)
    BY <2>2
  <2>4. w \in Seq(Frames)
    BY <1>1, WriteType
  <2>5. v \in Seq(Frames)
    BY <2>2, WriteType, JobType
  <2> QED BY <2>1, <2>3, <2>4, <2>5
<1>3. /\ a[1].op = "open" /\ 1 \in DOMAIN a
      /\ \A p \in DOMAIN a : a[p].op \in {"open", "scope"} /\ (a[p].op = "open" => p = 1)
  BY DEF F
<1>4. \A p \in DOMAIN d : d[p].op = "delete" /\ j.kind = "sample"
  BY DEF F
<1>5. /\ \A p \in DOMAIN w : w[p].op \in Files1
      /\ \A op \in {"finish", "name"} : \E p \in DOMAIN w : w[p] = F(op, first, 0)
  BY <1>1, WriteFrames
<1>6. \A p \in DOMAIN v : v[p].op \in Files1
  BY JobType, WriteFrames
<1>7. \A op \in {"finish", "name"} :
         Len(j.slots) > 1 => \E p \in DOMAIN v : v[p] = F(op, j.slots[2], 0)
  BY JobType, WriteFrames
<1>8. \A p \in DOMAIN z : z[p].op = "close"
  BY DEF F
<1>9. DOMAIN j.slots = 1 .. Len(j.slots) /\ Len(j.slots) \in {1, 2}
  BY JobType DEF Jobs
<1>10. Plan(j) = (((a \o d) \o w) \o v) \o z
  BY DEF Plan
<1> HIDE DEF first, a, d, w, v, z
<1> DEFINE b == a \o d
           e == b \o w
           g == e \o v
<1>11. Joined(a, d, b)
  BY <1>2, SplitAt
<1> HIDE DEF b
<1>12. Joined(b, w, e)
  BY <1>2, <1>11, SplitAt DEF Joined
<1> HIDE DEF e
<1>13. Joined(e, v, g)
  BY <1>2, <1>12, SplitAt DEF Joined
<1> HIDE DEF g
<1>14. Joined(g, z, Plan(j))
  <2>1. g \in Seq(Frames)
    BY <1>13 DEF Joined
  <2>2. Joined(g, z, g \o z)
    BY <1>2, <2>1, SplitAt
  <2> QED
    BY <1>10, <2>2 DEF g, e, b
<1>15. /\ b[1].op = "open" /\ 1 \in DOMAIN b
       /\ \A p \in DOMAIN b : /\ b[p].op \in {"open", "scope", "delete"}
                              /\ b[p].op = "open" => p = 1
                              /\ b[p].op = "delete" => j.kind = "sample"
  BY <1>3, <1>4, <1>11 DEF Joined
<1>16. /\ \A p \in DOMAIN e : \/ p \in DOMAIN b /\ p =< Len(b) /\ e[p] = b[p]
                              \/ p > Len(b) /\ e[p].op \in Files1
       /\ 1 \in DOMAIN e /\ e[1].op = "open"
       /\ \A op \in {"finish", "name"} : \E p \in DOMAIN e : e[p] = F(op, first, 0)
  <2>1. \A p \in DOMAIN e : \/ p \in DOMAIN b /\ p =< Len(b) /\ e[p] = b[p]
                            \/ p > Len(b) /\ e[p].op \in Files1
    BY <1>5, <1>12 DEF Joined
  <2>2. 1 \in DOMAIN e /\ e[1].op = "open"
    BY <1>12, <1>15 DEF Joined
  <2>3. ASSUME NEW op \in {"finish", "name"} PROVE \E p \in DOMAIN e : e[p] = F(op, first, 0)
    <3>1. PICK q \in DOMAIN w : w[q] = F(op, first, 0)
      BY <1>5
    <3> QED BY <1>12, <3>1 DEF Joined
  <2> QED BY <2>1, <2>2, <2>3
<1>17. Len(b) \in Nat /\ Len(e) \in Nat /\ Len(b) =< Len(e) /\ Len(g) \in Nat /\ Len(b) =< Len(g)
  <2>1. /\ Len(b) \in Nat /\ Len(e) \in Nat /\ Len(g) \in Nat /\ Len(w) \in Nat /\ Len(v) \in Nat
        /\ Len(e) = Len(b) + Len(w) /\ Len(g) = Len(e) + Len(v)
    BY <1>2, <1>11, <1>12, <1>13 DEF Joined
  <2> QED BY <2>1
<1>18. /\ \A p \in DOMAIN g : \/ p \in DOMAIN b /\ p =< Len(b) /\ g[p] = b[p]
                              \/ p > Len(b) /\ g[p].op \in Files1
       /\ 1 \in DOMAIN g /\ g[1].op = "open"
       /\ \A op \in {"finish", "name"} : \E p \in DOMAIN g : g[p] = F(op, first, 0)
       /\ \A op \in {"finish", "name"} :
             Len(j.slots) > 1 => \E p \in DOMAIN g : g[p] = F(op, j.slots[2], 0)
  <2>1. ASSUME NEW p \in DOMAIN g
        PROVE  \/ p \in DOMAIN b /\ p =< Len(b) /\ g[p] = b[p]
               \/ p > Len(b) /\ g[p].op \in Files1
    <3>1. CASE p \in DOMAIN e /\ p =< Len(e) /\ g[p] = e[p]
      BY <1>16, <3>1
    <3>2. CASE p > Len(e) /\ \E q \in DOMAIN v : g[p] = v[q]
      <4>1. p \in Nat
        BY <1>13 DEF Joined
      <4>2. p > Len(b)
        BY <1>17, <3>2, <4>1
      <4> QED BY <1>6, <3>2, <4>2
    <3> QED BY <1>13, <3>1, <3>2 DEF Joined
  <2>2. 1 \in DOMAIN g /\ g[1].op = "open"
    BY <1>13, <1>16 DEF Joined
  <2>3. ASSUME NEW op \in {"finish", "name"} PROVE \E p \in DOMAIN g : g[p] = F(op, first, 0)
    <3>1. PICK q \in DOMAIN e : e[q] = F(op, first, 0)
      BY <1>16
    <3> QED BY <1>13, <3>1 DEF Joined
  <2>4. ASSUME NEW op \in {"finish", "name"}, Len(j.slots) > 1
        PROVE  \E p \in DOMAIN g : g[p] = F(op, j.slots[2], 0)
    <3>1. PICK q \in DOMAIN v : v[q] = F(op, j.slots[2], 0)
      BY <1>7, <2>4
    <3> QED BY <1>13, <3>1 DEF Joined
  <2> QED BY <2>1, <2>2, <2>3, <2>4
<1>19. \A p \in DOMAIN Plan(j) : \/ p \in DOMAIN b /\ p =< Len(b) /\ Plan(j)[p] = b[p]
                                 \/ p > Len(b) /\ Plan(j)[p].op \in Files1 \cup {"close"}
  <2> SUFFICES ASSUME NEW p \in DOMAIN Plan(j)
               PROVE  \/ p \in DOMAIN b /\ p =< Len(b) /\ Plan(j)[p] = b[p]
                      \/ p > Len(b) /\ Plan(j)[p].op \in Files1 \cup {"close"}
    OBVIOUS
  <2>1. CASE p \in DOMAIN g /\ p =< Len(g) /\ Plan(j)[p] = g[p]
    BY <1>18, <2>1
  <2>2. CASE p > Len(g) /\ \E q \in DOMAIN z : Plan(j)[p] = z[q]
    <3>1. p \in Nat
      BY <1>14 DEF Joined
    <3>2. p > Len(b)
      BY <1>17, <2>2, <3>1
    <3> QED BY <1>8, <2>2, <3>2
  <2> QED BY <1>14, <2>1, <2>2 DEF Joined
<1>20. Plan(j)[1].op = "open"
  BY <1>14, <1>18 DEF Joined
<1>21. \A p \in DOMAIN g : \E q \in DOMAIN Plan(j) : Plan(j)[q] = g[p]
  BY <1>14 DEF Joined
<1>22. \A p \in DOMAIN Plan(j) : Plan(j)[p].op = "open" => p = 1
  BY <1>15, <1>19
<1>23. \A p \in DOMAIN Plan(j) : Plan(j)[p].op = "delete" => j.kind = "sample"
  BY <1>15, <1>19
<1>24. ASSUME NEW p \in DOMAIN Plan(j), NEW q \in DOMAIN Plan(j),
              Plan(j)[p].op = "delete", Plan(j)[q].op \in {"finish", "name"}
       PROVE  p < q
  <2>1. p =< Len(b)
    BY <1>19, <1>24
  <2>2. q > Len(b)
    BY <1>15, <1>19, <1>24
  <2>3. p \in Nat /\ q \in Nat
    BY <1>14 DEF Joined
  <2> QED BY <1>17, <2>1, <2>2, <2>3, SMT
<1>25. ASSUME NEW i \in DOMAIN j.slots, NEW op \in {"finish", "name"}
       PROVE  \E p \in DOMAIN Plan(j) : Plan(j)[p] = F(op, j.slots[i], 0)
  <2>1. CASE Len(j.slots) = 1
    BY <1>9, <1>18, <1>21, <2>1 DEF first
  <2>2. CASE Len(j.slots) = 2
    <3>1. i = 1 \/ i = 2
      BY <1>9, <2>2
    <3>2. CASE i = 1
      BY <1>18, <1>21, <3>2 DEF first
    <3>3. CASE i = 2
      BY <1>18, <1>21, <2>2, <3>3
    <3> QED BY <3>1, <3>2, <3>3
  <2> QED BY <1>9, <2>1, <2>2
<1> QED
  BY <1>20, <1>22, <1>23, <1>24, <1>25

-----------------------------------------------------------------------------
(* Queues of frames without a reply. *)

\* Nothing is silent; a silent queue stays so when its first frame is taken, or
\* one that nobody acknowledges is added.
LEMMA SilentQueue ==
    ASSUME NEW q \in Seq(Messages), NEW m \in Messages
    PROVE  /\ q = <<>> => Silent(q)
           /\ q # <<>> /\ Silent(q) => Silent(Tail(q)) /\ ~Answerable(Head(q))
           /\ Silent(q) /\ ~Answerable(m) => Silent(Append(q, m))
           /\ Silent(q) => LastOnly(Append(q, m), m) /\ Only(Append(q, m), m)
  BY DEF Silent, LastOnly, Only

\* What is left of a queue that ends in m.
LEMMA LastOnlyTail ==
    ASSUME NEW q \in Seq(Messages), NEW m \in Messages, LastOnly(q, m)
    PROVE  \/ Tail(q) = <<>> /\ Head(q) = m
           \/ LastOnly(Tail(q), m) /\ ~Answerable(Head(q))
<1>1. CASE Len(q) = 1
  <2>1. q[Len(q)] = m
    BY DEF LastOnly
  <2>2. q # <<>> /\ Head(q) = q[1]
    BY DEF LastOnly
  <2>3. Tail(q) \in Seq(Messages) /\ Len(Tail(q)) = 0
    BY <1>1, <2>2
  <2>4. \A r \in Seq(Messages) : Len(r) = 0 => r = <<>>
    OBVIOUS
  <2> QED
    BY <1>1, <2>1, <2>2, <2>3, <2>4, Zenon
<1>2. CASE Len(q) # 1
  <2>1. Tail(q) # <<>> /\ Tail(q)[Len(Tail(q))] = m
    BY <1>2, TailKeepsLast DEF LastOnly
  <2>2. \A i \in DOMAIN Tail(q) : i # Len(Tail(q)) => ~Answerable(Tail(q)[i])
    BY DEF LastOnly
  <2>3. ~Answerable(Head(q))
    <3>1. /\ \A i \in DOMAIN q : i # Len(q) => ~Answerable(q[i])
          /\ q # <<>>
      BY DEF LastOnly
    <3>2. 1 \in DOMAIN q /\ Head(q) = q[1]
      BY <3>1
    <3> QED
      BY <1>2, <3>1, <3>2, Zenon
  <2> QED
    BY <2>1, <2>2, <2>3 DEF LastOnly
<1> QED
  BY <1>1, <1>2

\* Likewise when only m counts.
LEMMA OnlyTail ==
    ASSUME NEW q \in Seq(Messages), NEW m \in Messages, q # <<>>, Only(q, m)
    PROVE  Only(Tail(q), m) /\ (Answerable(Head(q)) => Head(q) = m)
  BY DEF Only

\* A frame of the plan, as it is sent.
LEMMA AtType ==
    ASSUME job \in Jobs, n \in 1 .. MaxUploads, NEW p \in 1 .. Len(Plan(job))
    PROVE  /\ At(p) \in Messages /\ p \in DOMAIN Plan(job)
           /\ At(p).op = Plan(job)[p].op /\ At(p).slot = Plan(job)[p].slot
           /\ At(p).kind = job.kind /\ At(p).n = n
<1>1. Plan(job) \in Seq(Frames) /\ p \in DOMAIN Plan(job) /\ Plan(job)[p] \in Frames
  BY PlanType
<1>2. Message(Plan(job)[p], job, n) \in Messages
  BY <1>1, MessageType
<1> QED
  BY <1>1, <1>2 DEF At, Message

-----------------------------------------------------------------------------
(* What a step does to the frames and the ACKs. *)

\* Only an ACK tells of a change of the slots; apart from a delete, a slot
\* keeps its file or gets the one of the frame.
LEMMA AnswersAck ==
    ASSUME TypeOK, NEW m \in Messages, Answers(m)
    PROVE  \/ toHost' = toHost /\ stored' = stored
           \/ /\ Answerable(m) /\ toHost' = toHost \o <<m>>
              /\ Stores(m) => stored'[m.kind][m.slot] = m.n
              /\ m.op # "delete" => \A k \in Kind, s \in Slot :
                                        stored'[k][s] \in {stored[k][s], m.n}
<1>1. /\ toHost \in Seq(Messages) /\ m.kind \in Kind /\ m.slot \in Slot
      /\ stored \in [Kind -> [Slot -> 0 .. MaxUploads \cup {None}]]
      /\ m.kind \in Kinds
  BY KindAssumption DEF TypeOK, Messages
<1>2. \A x : LET st == Put(m, x) IN /\ st[m.kind][m.slot] = x
                                    /\ \A k \in Kind, s \in Slot : st[k][s] \in {stored[k][s], x}
  BY <1>1 DEF Put
<1>3. CASE m.op = "close"
  <2>1. toHost' = toHost \o <<>> /\ stored' = stored
    BY <1>3 DEF Answers, Becomes
  <2> QED
    BY <1>1, <2>1
<1>4. CASE m.op # "close"
  <2>1. /\ toHost' = toHost \o <<m>>
        /\ m.op \in {"open", "delete", "init", "data", "finish", "name"}
        /\ m.op = "name" => m.kind = "sample"
    BY <1>4 DEF Answers, Becomes
  <2>2. Answerable(m)
    BY <2>1 DEF Answerable
  <2>3. \/ m.op = "delete"
        \/ stored' = stored /\ ~Stores(m)
        \/ stored' = Put(m, m.n)
    BY <1>1, <1>4 DEF Answers, Becomes, Stores, Kinds
  <2>4. CASE m.op = "delete"
    BY <1>1, <2>1, <2>2, <2>4 DEF Stores, Kinds
  <2>5. CASE stored' = stored /\ ~Stores(m)
    BY <2>1, <2>2, <2>5
  <2>6. CASE stored' = Put(m, m.n)
    BY <1>2, <2>1, <2>2, <2>6
  <2> QED
    BY <2>3, <2>4, <2>5, <2>6
<1> QED
  BY <1>3, <1>4

\* The frames of an upload stay what they are while the upload does.
LEMMA SameFrames ==
    ASSUME job' = job, n' = n
    PROVE  /\ Plan(job)' = Plan(job)
           /\ \A p : At(p)' = At(p)
           /\ frame' = frame => Current' = Current
<1>1. Plan(job)' = Plan(job)
  BY DEF Plan, Write, F
<1> QED
  BY <1>1 DEF At, Current, Message

\* A CLOSE has no reply.
LEMMA CloseSilent ==
    ASSUME NEW j \in Jobs, NEW k \in 1 .. MaxUploads
    PROVE  CloseOf(j, k) \in Messages /\ CloseOf(j, k).op = "close"
               /\ ~Answerable(CloseOf(j, k))
<1>1. CloseOf(j, k) \in Messages /\ CloseOf(j, k).op = "close"
  BY BlocksAssumption, JobType DEF CloseOf, Message, Messages, F, Ops
<1> QED
  BY <1>1 DEF Answerable

\* What is sent to a dead handle is gone.
LEMMA SendsWhat ==
    ASSUME NEW h, NEW m, Sends(h, m)
    PROVE  /\ toDev' = IF h = "ok" THEN Append(toDev, m) ELSE toDev
           /\ closeLost => closeLost'
  BY DEF Sends

\* An attempt starts with no reply on its way.
LEMMA StartsSync ==
    ASSUME TypeOK, NEW j \in Jobs, NEW k \in 1 .. MaxUploads, NEW a,
           Starts(handle', j, k, a), handle' \in {"ok", "dead"},
           toHost' = toHost, n' = k,
           Silent(toDev), Late => toHost = <<>>,
           handle' = "dead" => toDev = <<>> /\ toHost = <<>>
    PROVE  Sync' /\ Silent(toDev')
<1>1. CloseOf(j, k) \in Messages /\ ~Answerable(CloseOf(j, k))
  BY CloseSilent
<1>2. \/ toDev' = toDev
      \/ toDev' = IF handle' = "ok" THEN Append(toDev, CloseOf(j, k)) ELSE toDev
  BY DEF Starts
<1>3. Silent(toDev')
  BY <1>1, <1>2, SilentQueue DEF TypeOK
<1>4. /\ inbox' = <<>> /\ frame' = 0 /\ pc' \in {"idle", "retry", "settle"}
      /\ outcome' \in {"none", "failed"}
  BY StartsType
<1>5. handle' = "dead" => toDev' = <<>> /\ toHost' = <<>>
  BY <1>2
<1>6. Silent(toDev)'
  BY <1>3 DEF Silent, Answerable
<1>7. Late => NoReply'
  BY <1>4, <1>6 DEF NoReply
<1> QED
  BY <1>3, <1>4, <1>5, <1>6, <1>7 DEF Sync

\* What the sender sends, once nothing is on its way and nothing is left in the
\* inbox.
LEMMA ProceedsSync ==
    ASSUME InStep, Types, pc \in {"settle", "pace"},
           Silent(toDev), toHost = <<>>, handle = "dead" => toDev = <<>>,
           Proceeds(<<>>)
    PROVE  Sync'
<1>0. TypeOK /\ Busy
  BY DEF Types
<1>1. /\ job \in Jobs /\ n \in 1 .. MaxUploads
      /\ frame \in 0 .. Len(Plan(job)) /\ Len(Plan(job)) \in Nat \ {0}
      /\ toDev \in Seq(Messages) /\ handle \in {"ok", "dead"}
  BY <1>0, PlanType DEF Busy, TypeOK
<1>2. job' = job /\ n' = n /\ handle' = handle /\ toHost' = toHost
  BY DEF Proceeds, hostRest
<1>3. CloseOf(job, n) \in Messages /\ ~Answerable(CloseOf(job, n))
  BY <1>1, CloseSilent
<1>4. ASSUME \/ toDev' = toDev
             \/ Sends(handle, CloseOf(job, n))
      PROVE  Silent(toDev)' /\ (handle' = "dead" => toDev' = <<>>)
  <2>1. Silent(toDev')
    BY <1>1, <1>3, <1>4, SendsWhat, SilentQueue
  <2>2. handle' = "dead" => toDev' = <<>>
    BY <1>1, <1>2, <1>4, SendsWhat
  <2> QED
    BY <2>1, <2>2 DEF Silent, Answerable
<1>5. CASE frame = Len(Plan(job))
  <2>1. Finishes /\ inbox' = <<>>
    BY <1>5 DEF Proceeds
  <2>2. /\ \/ toDev' = toDev
           \/ Sends(handle, CloseOf(job, n))
        /\ pc' = "idle"
    BY <2>1 DEF Finishes, Returns
  <2>3. NoReply'
    BY <1>2, <1>4, <2>1, <2>2 DEF NoReply
  <2> QED
    BY <1>2, <1>4, <2>2, <2>3 DEF Sync, NoReply
<1>6. CASE frame # Len(Plan(job))
  <2> DEFINE f == Plan(job)[frame + 1]
             gated == Gated(job.kind, f.op)
  <2>1. SendsNext(<<>>) /\ frame' = frame + 1
    BY <1>6 DEF Proceeds
  <2>2. frame + 1 \in 1 .. Len(Plan(job)) /\ frame + 1 # 0
    BY <1>1, <1>6
  <2>3. /\ At(frame + 1) = Message(f, job, n) /\ At(frame + 1) \in Messages
        /\ At(frame + 1).op = f.op /\ At(frame + 1).kind = job.kind
    BY <1>1, <2>2, AtType DEF At
  <2>4. Current' = At(frame + 1)
    BY <1>2, <2>1, SameFrames DEF Current, At
  <2>5. inbox' = <<>>
    BY <2>1 DEF SendsNext
  <2>6. CASE Sends(handle, Message(f, job, n)) /\ Goes(IF gated THEN "ack" ELSE "settle")
    <3>1. toDev' = IF handle = "ok" THEN Append(toDev, At(frame + 1)) ELSE toDev
      BY <2>3, <2>6, SendsWhat
    <3>2. handle' = "dead" => toDev' = <<>>
      BY <1>1, <1>2, <3>1
    <3>3. /\ Silent(toDev') \/ LastOnly(toDev', At(frame + 1))
          /\ Only(toDev', At(frame + 1))
      <4>1. CASE handle = "ok"
        BY <1>1, <2>3, <3>1, <4>1, SilentQueue
      <4>2. CASE handle # "ok"
        BY <3>1, <4>2 DEF Silent, Only
      <4> QED
        BY <4>1, <4>2
    <3>4. /\ Silent(toDev)' \/ LastOnly(toDev, Current)'
          /\ Only(toDev, Current)'
      BY <2>4, <3>3 DEF Silent, LastOnly, Only, Answerable
    <3>5. CASE gated
      <4>1. pc' = "ack"
        <5> HIDE DEF gated
        <5> QED BY <2>6, <3>5 DEF Goes
      <4>2. OneReply'
        BY <1>2, <2>5, <3>4 DEF OneReply, NoReply
      <4> QED
        BY <1>2, <2>1, <2>2, <3>2, <4>1, <4>2 DEF Sync
    <3>6. CASE ~gated
      <4>1. pc' = "settle"
        <5> HIDE DEF gated
        <5> QED BY <2>6, <3>6 DEF Goes
      <4>2. ~Gated(Current.kind, Current.op)'
        BY <2>3, <2>4, <3>6 DEF Gated
      <4>3. ASSUME Late PROVE NoReply'
        <5>1. job.kind = "project"
          BY <1>1, <4>3, JobType DEF InStep
        <5>2. f.op # "delete"
          BY <1>1, <2>2, <5>1, PlanFrames, AtType
        <5>3. f.op \in Ops
          BY <1>1, <2>3 DEF Messages
        <5>4. ~Answerable(At(frame + 1))
          BY <2>3, <3>6, <5>1, <5>2, <5>3 DEF Answerable, Gated, Ops
        <5>5. Silent(toDev')
          BY <1>1, <2>3, <3>1, <5>4, SilentQueue
        <5>6. Silent(toDev)'
          BY <5>5 DEF Silent, Answerable
        <5> QED
          BY <1>2, <2>5, <5>6 DEF NoReply
      <4> QED
        BY <1>2, <2>1, <2>2, <3>2, <3>4, <4>1, <4>2, <4>3 DEF Sync
    <3> QED
      BY <3>5, <3>6
  <2>7. CASE handle = "dead" /\ Aborts(TRUE)
    <3>1. Sends(handle, CloseOf(job, n)) /\ pc' \in {"idle", "retry"}
      BY <2>7, EndsType DEF Aborts
    <3>2. NoReply'
      BY <1>2, <1>4, <2>5, <3>1 DEF NoReply
    <3> QED
      BY <1>2, <1>4, <3>1, <3>2 DEF Sync, NoReply
  <2> QED
    BY <2>1, <2>6, <2>7 DEF SendsNext
<1> QED
  BY <1>5, <1>6

\* The steps of the sender, and a new upload.
LEMMA SenderSync ==
    ASSUME InStep, Types, Closing, Sync, Host \/ \E j \in Jobs : Begin(j)
    PROVE  Sync'
<1>0. TypeOK /\ Busy
  BY DEF Types
<1>1. /\ toDev \in Seq(Messages) /\ toHost \in Seq(Messages) /\ handle \in {"ok", "dead"}
      /\ n \in 0 .. MaxUploads /\ MaxUploads \in Nat
      /\ handle = "dead" => toDev = <<>> /\ toHost = <<>>
  BY <1>0, MaxUploadsAssumption DEF TypeOK, Sync
<1>2. Silent(<<>>)
  BY DEF Silent
<1>3. ASSUME NEW j \in Jobs, Begin(j) PROVE Sync'
  <2>1. /\ pc = "idle" /\ n < MaxUploads /\ n' = n + 1 /\ handle' \in {handle, "ok"}
        /\ toHost' = toHost /\ Starts(handle', j, n + 1, 1)
    BY <1>3 DEF Begin
  <2>2. n + 1 \in 1 .. MaxUploads /\ n # MaxUploads
    BY <1>1, <2>1
  <2>3. Silent(toDev) /\ (Late => toHost = <<>>)
    BY <2>1, <2>2 DEF Sync, NoReply
  <2>4. handle' = "dead" => toDev = <<>> /\ toHost = <<>>
    BY <1>1, <2>1
  <2>5. handle' \in {"ok", "dead"}
    BY <1>1, <2>1
  <2> QED
    BY <1>0, <2>1, <2>2, <2>3, <2>4, <2>5, StartsSync
<1>4. CASE Retry
  <2>1. /\ handle = "dead" /\ toDev = <<>> /\ toHost = <<>> /\ n' = n /\ toHost' = toHost
        /\ pc = "retry"
    BY <1>1, <1>4 DEF Closing, Retry
  <2>2. job \in Jobs /\ n \in 1 .. MaxUploads
    BY <1>0, <2>1 DEF Busy
  <2>3. CASE handle' \in {"ok", "dead"} /\ Starts(handle', job, n, 2)
    <3>1. Silent(toDev)
      BY <1>2, <2>1
    <3> QED
      BY <1>0, <2>1, <2>2, <2>3, <3>1, StartsSync
  <2>4. CASE Returns("failed") /\ UNCHANGED <<inbox, frame, handle, toDev, closeLost>>
    <3>1. /\ pc' = "idle" /\ outcome' = "failed" /\ toDev' = <<>> /\ toHost' = <<>>
      BY <2>1, <2>4 DEF Returns
    <3>2. Silent(toDev)'
      BY <3>1 DEF Silent
    <3>3. Late => n' = MaxUploads
      BY <2>1, <2>2 DEF InStep
    <3> QED
      BY <3>1, <3>2, <3>3 DEF Sync
  <2> QED
    BY <1>4, <2>3, <2>4 DEF Retry
<1>5. CASE SettleEnds
  <2>1. pc = "settle" /\ Proceeds(<<>>)
    BY <1>5 DEF SettleEnds
  <2>2. Silent(toDev) /\ toHost = <<>>
    BY <1>2, <1>5 DEF SettleEnds, Quiet, Sync, NoReply
  <2> QED
    BY <1>1, <2>1, <2>2, ProceedsSync
<1>6. CASE PaceEnds
  <2>1. pc = "pace" /\ Proceeds(inbox) /\ NoReply
    BY <1>6 DEF PaceEnds, Sync
  <2>2. inbox = <<>> /\ Silent(toDev) /\ toHost = <<>>
    BY <2>1 DEF NoReply
  <2>3. Proceeds(<<>>)
    BY <2>1, <2>2
  <2> QED
    BY <1>1, <2>1, <2>2, <2>3, ProceedsSync
<1>7. CASE TakesAck
  <2>1. /\ pc = "ack" /\ inbox # <<>> /\ inbox' = Tail(inbox) /\ pc' = "pace"
        /\ frame' = frame /\ toDev' = toDev /\ toHost' = toHost /\ handle' = handle
    BY <1>7 DEF TakesAck, Goes, hostRest
  <2>2. Silent(toDev) /\ toHost = <<>> /\ inbox = <<Current>> /\ frame >= 1
    BY <2>1 DEF Sync, OneReply, NoReply
  <2>3. inbox' = <<>>
    BY <2>1, <2>2
  <2>4. NoReply'
    BY <2>1, <2>2, <2>3 DEF NoReply, Silent, Answerable
  <2> QED
    BY <1>1, <2>1, <2>2, <2>4 DEF Sync
<1>8. CASE TimesOut
  <2>1. /\ pc = "ack" /\ Quiet /\ n' = n /\ handle' = handle /\ toHost' = toHost
        /\ Sends(handle, CloseOf(job, n)) /\ pc' = "idle" /\ outcome' = "failed"
    BY <1>8 DEF TimesOut, Aborts, Ends, Returns, Goes, hostRest
  <2>2. job \in Jobs /\ n \in 1 .. MaxUploads
    BY <1>0, <2>1 DEF Busy
  <2>3. CloseOf(job, n) \in Messages /\ ~Answerable(CloseOf(job, n))
    BY <2>2, CloseSilent
  <2>4. toDev' = IF handle = "ok" THEN Append(toDev, CloseOf(job, n)) ELSE toDev
    BY <2>1, SendsWhat
  <2>5. ~Late => Silent(toDev')
    BY <1>1, <1>2, <2>1, <2>3, <2>4, SilentQueue DEF Quiet
  <2>6. ~Late => Silent(toDev)'
    BY <2>5 DEF Silent, Answerable
  <2>7. Late => n' = MaxUploads
    BY <2>1, <2>2 DEF InStep
  <2>8. handle' = "dead" => toDev' = <<>> /\ toHost' = <<>>
    BY <1>1, <2>1, <2>4
  <2> QED
    BY <2>1, <2>6, <2>7, <2>8 DEF Sync
<1> QED
  BY <1>3, <1>4, <1>5, <1>6, <1>7, <1>8 DEF Host

\* The steps of the wire and the device.
LEMMA WireSync ==
    ASSUME Types, Sync, Wire
    PROVE  Sync'
<1>0. TypeOK /\ Busy
  BY DEF Types
<1>1. /\ toDev \in Seq(Messages) /\ toHost \in Seq(Messages)
      /\ handle = "dead" => toDev = <<>> /\ toHost = <<>>
  BY <1>0 DEF TypeOK, Sync
<1>2. /\ job' = job /\ n' = n /\ pc' = pc /\ frame' = frame /\ outcome' = outcome
  BY DEF Wire, Process, Ignore, Deliver, HandleDies, hostVars
<1>3. Current' = Current
  BY <1>2, SameFrames
<1>4. Gated(Current.kind, Current.op)' <=> Gated(Current.kind, Current.op)
  BY <1>3 DEF Gated
<1>5. CASE Process \/ Ignore
  <2>0. PICK m \in Messages : m = Head(toDev)
    BY <1>1, <1>5 DEF Process, Ignore
  <2>1. /\ toDev # <<>> /\ toDev' = Tail(toDev) /\ inbox' = inbox /\ handle' = handle
        /\ handle # "dead"
    BY <1>1, <1>5 DEF Process, Ignore, hostVars
  <2>2. \/ toHost' = toHost
        \/ Answerable(m) /\ toHost' = toHost \o <<m>>
    BY <1>0, <1>5, <2>0, AnswersAck DEF Process, Ignore
  <2>3. Silent(toDev) => Silent(toDev') /\ toHost' = toHost
    BY <1>1, <2>0, <2>1, <2>2, SilentQueue
  <2>4. Silent(toDev) => Silent(toDev)' /\ toHost' = toHost
    BY <2>3 DEF Silent, Answerable
  <2>5. NoReply => NoReply'
    BY <2>1, <2>4 DEF NoReply
  <2>6. ASSUME pc = "ack" PROVE OneReply'
    <3>0. job \in Jobs /\ n \in 1 .. MaxUploads /\ frame \in 1 .. Len(Plan(job))
      BY <1>0, <2>6 DEF Busy, TypeOK, Sync
    <3>1. PICK x \in Messages : x = Current
      BY <3>0, AtType DEF Current
    <3>2. CASE NoReply
      BY <2>5, <3>2 DEF OneReply
    <3>3. CASE LastOnly(toDev, x) /\ toHost = <<>> /\ inbox = <<>>
      <4>1. CASE Tail(toDev) = <<>> /\ Head(toDev) = x
        <5>1. toDev' = <<>> /\ Silent(toDev)'
          BY <2>1, <4>1 DEF Silent
        <5>2. toHost' = <<>> \/ toHost' = <<x>>
          BY <2>0, <2>2, <3>3, <4>1
        <5> QED
          BY <1>3, <2>1, <3>1, <3>3, <5>1, <5>2 DEF OneReply, NoReply
      <4>2. CASE LastOnly(Tail(toDev), x) /\ ~Answerable(Head(toDev))
        <5>1. LastOnly(toDev', x) /\ toHost' = <<>>
          BY <2>0, <2>1, <2>2, <3>3, <4>2
        <5>2. LastOnly(toDev, Current)'
          BY <1>3, <3>1, <5>1 DEF LastOnly, Answerable
        <5> QED
          BY <2>1, <3>3, <5>1, <5>2 DEF OneReply
      <4> QED
        BY <1>1, <3>3, <4>1, <4>2, LastOnlyTail
    <3>4. CASE \/ Silent(toDev) /\ toHost = <<Current>> /\ inbox = <<>>
               \/ Silent(toDev) /\ toHost = <<>> /\ inbox = <<Current>>
      BY <1>3, <2>1, <2>4, <3>4 DEF OneReply
    <3>5. OneReply
      BY <2>6 DEF Sync
    <3>6. LastOnly(toDev, Current) => LastOnly(toDev, x)
      BY <3>1
    <3> QED
      BY <3>2, <3>3, <3>4, <3>5, <3>6, Zenon DEF OneReply
  <2>7. ASSUME pc = "settle", frame # 0, Only(toDev, Current) PROVE Only(toDev, Current)'
    <3>0. job \in Jobs /\ n \in 1 .. MaxUploads /\ frame \in 1 .. Len(Plan(job))
      BY <1>0, <2>7, PlanType DEF Busy, TypeOK
    <3>1. PICK x \in Messages : x = Current
      BY <3>0, AtType DEF Current
    <3>2. Only(toDev', x)
      BY <1>1, <2>1, <2>7, <3>1, OnlyTail
    <3> QED
      BY <1>3, <3>1, <3>2 DEF Only, Answerable
  <2> QED
    BY <1>2, <1>4, <2>1, <2>4, <2>5, <2>6, <2>7 DEF Sync
<1>6. CASE Deliver
  <2>1. /\ toHost # <<>> /\ toHost' = Tail(toHost)
        /\ inbox' = (IF pc \in {"idle", "retry"} THEN inbox
                                                 ELSE Append(inbox, Head(toHost)))
        /\ handle' = handle /\ toDev' = toDev
    BY <1>6 DEF Deliver
  <2>2. ~NoReply
    BY <2>1 DEF NoReply
  <2>3. /\ Silent(toDev)' <=> Silent(toDev)
        /\ Only(toDev, Current)' <=> Only(toDev, Current)
    BY <1>3, <2>1 DEF Silent, Only, Answerable
  <2>4. ASSUME pc = "ack" PROVE OneReply'
    <3>1. Silent(toDev) /\ toHost = <<Current>> /\ inbox = <<>>
      BY <2>1, <2>2, <2>4 DEF Sync, OneReply
    <3>2. toHost' = <<>> /\ inbox' = <<Current>>
      BY <2>1, <2>4, <3>1
    <3> QED
      BY <1>3, <2>3, <3>1, <3>2 DEF OneReply
  <2> QED
    BY <1>1, <1>2, <1>4, <2>1, <2>2, <2>3, <2>4 DEF Sync
<1>7. CASE HandleDies
  <2>1. toDev' = <<>> /\ toHost' = <<>> /\ inbox' = inbox
    BY <1>7 DEF HandleDies, hostVars
  <2>2. /\ Silent(toDev)' /\ Only(toDev, Current)'
        /\ NoReply => NoReply'
    BY <2>1 DEF Silent, Only, NoReply
  <2>3. OneReply => OneReply'
    BY <1>3, <2>1, <2>2 DEF OneReply, NoReply
  <2> QED
    BY <1>2, <1>4, <2>1, <2>2, <2>3 DEF Sync
<1> QED
  BY <1>5, <1>6, <1>7 DEF Wire

-----------------------------------------------------------------------------
(* What a step does to the files. *)

\* A frame that no ACK is waited for stores nothing.
LEMMA StoresGated ==
    ASSUME NEW m, m.kind \in Kinds, ~Gated(m.kind, m.op)
    PROVE  ~Stores(m)
  BY DEF Gated, Stores, Kinds

\* At the end of a wait every frame so far is behind the sender.
LEMMA AllBehind ==
    ASSUME Types, Sync, Kept, pc \in {"settle", "pace"}
    PROVE  \A p \in 1 .. frame : Holds(At(p))
<1>1. /\ job \in Jobs /\ n \in 1 .. MaxUploads /\ frame \in 0 .. Len(Plan(job))
      /\ Len(Plan(job)) \in Nat
  BY PlanType DEF Types, Busy, TypeOK
<1> SUFFICES ASSUME NEW p \in 1 .. frame PROVE Holds(At(p))
  OBVIOUS
<1>2. p \in 1 .. Len(Plan(job)) /\ frame \in Nat /\ p \in Nat /\ frame # 0
  BY <1>1
<1>3. At(p).kind \in Kinds
  BY <1>1, <1>2, AtType, JobType, KindAssumption
<1>4. CASE p # frame \/ pc = "pace"
  <2>1. Behind(p)
    BY <1>2, <1>4 DEF Behind
  <2> QED
    BY <2>1 DEF Kept
<1>5. CASE p = frame /\ pc = "settle"
  <2>1. ~Gated(At(p).kind, At(p).op)
    BY <1>2, <1>5 DEF Sync, Current
  <2> QED
    BY <1>3, <2>1, StoresGated DEF Holds
<1> QED
  BY <1>4, <1>5

\* Every slot of an upload has a frame that stores its file.
LEMMA EverySlotStored ==
    ASSUME job \in Jobs, n \in 1 .. MaxUploads, NEW i \in DOMAIN job.slots,
           \A p \in 1 .. Len(Plan(job)) : Holds(At(p))
    PROVE  stored[job.kind][job.slots[i]] = n
<1>1. job.kind \in Kinds
  BY JobType, KindAssumption
<1>2. PICK op \in {"finish", "name"} :
          op = IF job.kind = "project" THEN "finish" ELSE "name"
  OBVIOUS
<1>3. PICK p \in DOMAIN Plan(job) : Plan(job)[p] = F(op, job.slots[i], 0)
  BY PlanFrames
<1>4. p \in 1 .. Len(Plan(job))
  BY PlanType
<1>5. At(p).op = op /\ At(p).slot = job.slots[i] /\ At(p).kind = job.kind /\ At(p).n = n
  BY <1>3, <1>4, AtType DEF F
<1>6. Stores(At(p))
  BY <1>1, <1>2, <1>5 DEF Stores, Kinds
<1> QED
  BY <1>4, <1>5, <1>6 DEF Holds

\* The sender's steps.
LEMMA ProceedsKept ==
    ASSUME Types, Sync, Kept, pc \in {"settle", "pace"}, toHost = <<>>, Proceeds(<<>>)
    PROVE  Kept'
<1>1. /\ job \in Jobs /\ n \in 1 .. MaxUploads /\ frame \in 0 .. Len(Plan(job))
      /\ Len(Plan(job)) \in Nat
  BY PlanType DEF Types, Busy, TypeOK
<1>2. \A p \in 1 .. frame : Holds(At(p))
  BY AllBehind
<1>3. job' = job /\ n' = n /\ stored' = stored /\ toHost' = <<>>
  BY DEF Proceeds, hostRest, deviceVars
<1>4. \A p : (Holds(At(p)) => Holds(At(p))')
  BY <1>3, SameFrames DEF Holds, Stores
<1>5. CASE frame = Len(Plan(job))
  <2>1. pc' = "idle" /\ outcome' = "ok"
    BY <1>5 DEF Proceeds, Finishes, Returns
  <2>2. ASSUME NEW i \in DOMAIN job.slots PROVE stored[job.kind][job.slots[i]] = n
    BY <1>1, <1>2, <1>5, EverySlotStored
  <2>3. OkMeansStored'
    BY <1>3, <2>2 DEF OkMeansStored
  <2> QED
    BY <1>1, <1>3, <2>1, <2>3 DEF Kept
<1>6. CASE frame # Len(Plan(job))
  <2>1. SendsNext(<<>>) /\ frame' = frame + 1
    BY <1>6 DEF Proceeds
  <2>2. /\ inbox' = <<>> /\ pc' \in {"ack", "settle", "idle", "retry"}
        /\ outcome' \in {"none", "failed"}
    BY <2>1, EndsType DEF SendsNext, Goes, Aborts
  <2>3. ASSUME NEW p \in 1 .. frame', Behind(p)' PROVE Holds(At(p))'
    <3>1. p \in 1 .. frame
      BY <1>1, <2>1, <2>2, <2>3 DEF Behind
    <3> QED
      BY <1>2, <1>4, <3>1
  <2> QED
    BY <1>3, <2>2, <2>3 DEF Kept
<1> QED
  BY <1>5, <1>6

LEMMA SenderKept ==
    ASSUME Types, Sync, Kept, Host \/ \E j \in Jobs : Begin(j)
    PROVE  Kept'
<1>0. TypeOK /\ Busy
  BY DEF Types
<1>1. n \in 0 .. MaxUploads /\ MaxUploads \in Nat
  BY <1>0, MaxUploadsAssumption DEF TypeOK
<1>2. ASSUME frame' = 0, pc' # "ack", outcome' # "ok" PROVE Kept'
  BY <1>2 DEF Kept
<1>3. ASSUME NEW j \in Jobs, Begin(j) PROVE Kept'
  <2>1. Starts(handle', j, n + 1, 1) /\ n < MaxUploads
    BY <1>3 DEF Begin
  <2>2. n + 1 \in 1 .. MaxUploads
    BY <1>1, <2>1
  <2>3. frame' = 0 /\ pc' # "ack" /\ outcome' # "ok"
    <3>1. /\ frame' = 0
          /\ pc' \in {"idle", "retry", "settle"}
          /\ outcome' \in {"none", "failed"}
      BY <1>0, <2>1, <2>2, StartsType
    <3> QED BY <3>1
  <2> QED
    BY <1>2, <2>3
<1>4. CASE Retry
  <2>1. job \in Jobs /\ n \in 1 .. MaxUploads
    BY <1>0, <1>4 DEF Busy, Retry
  <2>2. CASE Starts(handle', job, n, 2)
    <3>1. /\ frame' = 0
          /\ pc' \in {"idle", "retry", "settle"}
          /\ outcome' \in {"none", "failed"}
      BY <1>0, <2>1, <2>2, StartsType
    <3> QED
      BY <1>2, <3>1
  <2>3. CASE Returns("failed")
    BY <2>3 DEF Returns, Kept
  <2> QED
    BY <1>4, <2>2, <2>3 DEF Retry
<1>5. CASE SettleEnds
  <2>1. pc = "settle" /\ Proceeds(<<>>) /\ toHost = <<>>
    BY <1>5 DEF SettleEnds, Quiet, Sync, NoReply
  <2> QED
    BY <2>1, ProceedsKept
<1>6. CASE PaceEnds
  <2>1. pc = "pace" /\ Proceeds(inbox) /\ inbox = <<>> /\ toHost = <<>>
    BY <1>6 DEF PaceEnds, Sync, NoReply
  <2>2. Proceeds(<<>>)
    BY <2>1
  <2> QED
    BY <2>1, <2>2, ProceedsKept
<1>7. CASE TakesAck
  <2>1. /\ pc = "ack" /\ inbox # <<>> /\ pc' = "pace" /\ outcome' = "none"
        /\ frame' = frame /\ job' = job /\ n' = n /\ stored' = stored
    BY <1>7 DEF TakesAck, Goes, hostRest, deviceVars
  <2>2. ASSUME NEW p \in 1 .. frame, Behind(p)' PROVE Holds(At(p))'
    <3>1. Holds(At(p))
      <4>1. CASE p = frame
        BY <2>1, <4>1 DEF Kept, Current
      <4>2. CASE p # frame
        BY <2>1, <2>2, <4>2 DEF Kept, Behind
      <4> QED
        BY <4>1, <4>2
    <3> QED
      BY <2>1, <3>1, SameFrames DEF Holds, Stores
  <2> QED
    BY <2>1, <2>2 DEF Kept
<1>8. CASE TimesOut
  <2>1. pc' = "idle" /\ outcome' = "failed"
    BY <1>8 DEF TimesOut, Aborts, Ends, Returns, Goes
  <2> QED
    BY <2>1 DEF Kept
<1> QED
  BY <1>3, <1>4, <1>5, <1>6, <1>7, <1>8 DEF Host

\* The device takes a frame: no file that the sender knows to be stored is lost,
\* for the delete of a plan comes before anything is stored.
LEMMA ProcessKept ==
    ASSUME Types, Sync, Kept, Process
    PROVE  Kept'
<1>0. TypeOK /\ Busy
  BY DEF Types
<1>1. /\ job' = job /\ n' = n /\ pc' = pc /\ frame' = frame /\ outcome' = outcome
      /\ inbox' = inbox /\ toDev # <<>> /\ toDev \in Seq(Messages)
      /\ stored \in [Kind -> [Slot -> 0 .. MaxUploads \cup {None}]]
  BY <1>0 DEF Process, hostVars, TypeOK
<1>2. PICK m \in Messages : m = Head(toDev)
  BY <1>1
<1>3. Answers(m)
  BY <1>2 DEF Process
<1>4. \A p : At(p)' = At(p)
  BY <1>1, SameFrames
<1>5. Current' = Current
  BY <1>1, SameFrames
<1>6. CASE toHost' = toHost /\ stored' = stored
  <2>1. \A p : (Holds(At(p)) => Holds(At(p))')
    BY <1>4, <1>6 DEF Holds, Stores
  <2>2. Holds(Current) => Holds(Current)'
    BY <1>5, <1>6 DEF Holds, Stores
  <2>3. OkMeansStored => OkMeansStored'
    BY <1>1, <1>6 DEF OkMeansStored
  <2>4. \A p : (Behind(p)' <=> Behind(p))
    BY <1>1 DEF Behind
  <2> QED
    BY <1>1, <1>6, <2>1, <2>2, <2>3, <2>4 DEF Kept
<1>7. CASE /\ Answerable(m) /\ toHost' = toHost \o <<m>>
           /\ Stores(m) => stored'[m.kind][m.slot] = m.n
           /\ m.op # "delete" => \A k \in Kind, s \in Slot :
                                     stored'[k][s] \in {stored[k][s], m.n}
  <2>1. ~Silent(toDev)
    BY <1>1, <1>2, <1>7, SilentQueue
  <2>2. outcome # "ok"
    BY <2>1 DEF Kept, Sync
  <2>3. pc # "pace"
    BY <2>1 DEF Sync, NoReply
  <2>4. CASE pc \in {"ack", "settle"}
    <3>1. frame # 0
      BY <2>1, <2>4 DEF Sync
    <3>2. job \in Jobs /\ n \in 1 .. MaxUploads /\ frame \in 1 .. Len(Plan(job))
          /\ Plan(job) \in Seq(Frames)
      BY <1>0, <2>4, <3>1, PlanType DEF Busy, TypeOK
    <3>3. PICK x \in Messages : x = Current
      BY <3>2, AtType DEF Current
    <3>4. m = x
      <4>1. CASE pc = "settle"
        <5>1. Only(toDev, x)
          BY <3>1, <3>3, <4>1 DEF Sync
        <5> QED
          BY <1>1, <1>2, <1>7, <5>1, OnlyTail
      <4>2. CASE pc = "ack"
        <5>1. LastOnly(toDev, Current)
          BY <2>1, <4>2 DEF Sync, OneReply, NoReply
        <5>2. LastOnly(toDev, x)
          BY <3>3, <5>1
        <5> QED
          BY <1>1, <1>2, <1>7, <5>2, LastOnlyTail
      <4> QED
        BY <2>4, <4>1, <4>2
    <3>5. m = At(frame)
      BY <3>3, <3>4 DEF Current
    <3>6. Holds(Current)'
      BY <1>5, <1>7, <3>3, <3>4 DEF Holds, Stores
    <3>7. ASSUME NEW p \in 1 .. frame, Behind(p)' PROVE Holds(At(p))'
      <4>1. p < frame /\ p \in 1 .. Len(Plan(job))
        BY <1>1, <2>3, <3>2, <3>7 DEF Behind
      <4>2. Holds(At(p)) /\ At(p).n = n
        BY <2>4, <3>2, <4>1, AtType DEF Kept, Behind
      <4>3. m.n = n /\ At(p).kind \in Kind /\ At(p).slot \in Slot
        BY <3>2, <3>5, <4>1, AtType DEF Messages
      <4>4. CASE Stores(At(p))
        <5>1. At(p).op \in {"finish", "name"}
          BY <4>4 DEF Stores
        <5>2. /\ Plan(job)[p].op \in {"finish", "name"} /\ p \in DOMAIN Plan(job)
              /\ Plan(job)[frame].op = m.op /\ frame \in DOMAIN Plan(job)
          BY <3>2, <3>5, <4>1, <5>1, AtType
        <5>3. m.op # "delete"
          <6>1. m.op = "delete" => frame < p
            BY <3>2, <5>2, PlanFrames
          <6> QED
            BY <3>2, <4>1, <6>1
        <5>4. stored'[At(p).kind][At(p).slot] = n
          BY <1>7, <4>2, <4>3, <4>4, <5>3 DEF Holds
        <5> QED
          BY <1>4, <4>2, <5>4 DEF Holds, Stores
      <4>5. CASE ~Stores(At(p))
        BY <1>4, <4>5 DEF Holds, Stores
      <4> QED
        BY <4>4, <4>5
    <3> QED
      BY <1>1, <2>2, <3>6, <3>7 DEF Kept
  <2>5. CASE pc \notin {"ack", "settle"}
    BY <1>1, <2>2, <2>3, <2>5 DEF Kept
  <2> QED
    BY <2>4, <2>5
<1> QED
  BY <1>0, <1>3, <1>6, <1>7, AnswersAck

LEMMA WireKept ==
    ASSUME Types, Sync, Kept, Wire
    PROVE  Kept'
<1>1. CASE Process
  BY <1>1, ProcessKept
<1>2. CASE Ignore \/ Deliver \/ HandleDies
  <2>1. /\ job' = job /\ n' = n /\ pc' = pc /\ frame' = frame /\ outcome' = outcome
        /\ stored' = stored
    BY <1>2 DEF Ignore, Deliver, HandleDies, hostVars, deviceVars
  <2>2. \A p : (Holds(At(p)) => Holds(At(p))')
    BY <2>1, SameFrames DEF Holds, Stores
  <2>3. Holds(Current) => Holds(Current)'
    BY <2>1, SameFrames DEF Holds, Stores
  <2>4. toHost' # <<>> \/ inbox' # <<>> => toHost # <<>> \/ inbox # <<>>
    BY <1>2 DEF Ignore, Deliver, HandleDies, hostVars
  <2>5. OkMeansStored => OkMeansStored'
    BY <2>1 DEF OkMeansStored
  <2>6. \A p : (Behind(p)' <=> Behind(p))
    BY <2>1 DEF Behind
  <2> QED
    BY <2>1, <2>2, <2>3, <2>4, <2>5, <2>6 DEF Kept
<1> QED
  BY <1>1, <1>2 DEF Wire

-----------------------------------------------------------------------------
(* The OPEN of a project. *)

\* A queue that nobody replies to has no OPEN in it.
LEMMA SilentAfterClose ==
    ASSUME NEW q \in Seq(Messages), Silent(q)
    PROVE  AfterClose(q)
  BY DEF Silent, Answerable, AfterClose

\* A frame that is no OPEN, or that follows a CLOSE, may be added.
LEMMA AddedAfterClose ==
    ASSUME NEW q \in Seq(Messages), NEW m \in Messages, AfterClose(q),
           m.op = "open" /\ m.kind = "project" =>
               IF q = <<>> THEN ~session ELSE q[Len(q)].op = "close"
    PROVE  AfterClose(Append(q, m))
<1> SUFFICES ASSUME NEW i \in DOMAIN Append(q, m),
                    Append(q, m)[i].op = "open", Append(q, m)[i].kind = "project"
             PROVE  IF i = 1 THEN ~session ELSE Append(q, m)[i - 1].op = "close"
  BY DEF AfterClose
<1>1. i \in 1 .. Len(q) + 1 /\ Len(q) \in Nat
  OBVIOUS
<1>2. CASE i = Len(q) + 1
  <2>1. Append(q, m)[i] = m
    BY <1>1, <1>2
  <2>2. CASE q = <<>>
    BY <1>2, <2>1, <2>2
  <2>3. CASE q # <<>>
    <3>1. i - 1 = Len(q) /\ i # 1 /\ Append(q, m)[i - 1] = q[Len(q)]
      BY <1>1, <1>2, <2>3
    <3> QED
      BY <2>1, <2>3, <3>1
  <2> QED
    BY <2>2, <2>3
<1>3. CASE i # Len(q) + 1
  <2>1. i \in DOMAIN q /\ Append(q, m)[i] = q[i]
    BY <1>1, <1>3
  <2>2. i # 1 => i - 1 \in DOMAIN q /\ Append(q, m)[i - 1] = q[i - 1]
    BY <1>1, <2>1
  <2> QED
    BY <2>1, <2>2 DEF AfterClose
<1> QED
  BY <1>2, <1>3

\* What is sent after the reset of an attempt.
LEMMA StartsReopens ==
    ASSUME TypeOK, NEW j \in Jobs, NEW k \in 1 .. MaxUploads, NEW a,
           Starts(handle', j, k, a), handle' \in {"ok", "dead"},
           job' = j, session' = session, Silent(toDev')
    PROVE  Reopens'
<1>1. CloseOf(j, k) \in Messages /\ CloseOf(j, k).op = "close"
  BY CloseSilent
<1>2. toDev \in Seq(Messages) /\ toDev' \in Seq(Messages)
  BY StartsType DEF TypeOK
<1>3. AfterClose(toDev)'
  <2>1. AfterClose(toDev')
    BY <1>2, SilentAfterClose
  <2> QED
    BY <2>1 DEF AfterClose
<1>4. ASSUME pc' = "settle", j.kind = "project", handle' = "ok" PROVE EndsClosed'
  <2>1. toDev' = Append(toDev, CloseOf(j, k))
    BY <1>4 DEF Starts
  <2>2. toDev' # <<>> /\ toDev'[Len(toDev')] = CloseOf(j, k)
    BY <1>1, <1>2, <2>1
  <2> QED
    BY <1>1, <2>2 DEF EndsClosed
<1>5. handle' = "dead" => EndsClosed'
  BY DEF EndsClosed
<1> QED
  BY <1>3, <1>4, <1>5 DEF Reopens

LEMMA SenderReopens ==
    ASSUME InStep, Types, Closing, Sync, Reopens, Host \/ \E j \in Jobs : Begin(j)
    PROVE  Reopens'
<1>0. TypeOK /\ Busy
  BY DEF Types
<1>1. /\ toDev \in Seq(Messages) /\ toHost \in Seq(Messages) /\ handle \in {"ok", "dead"}
      /\ n \in 0 .. MaxUploads /\ MaxUploads \in Nat
      /\ handle = "dead" => toDev = <<>> /\ toHost = <<>>
  BY <1>0, MaxUploadsAssumption DEF TypeOK, Sync
<1>2. Silent(<<>>)
  BY DEF Silent
<1>3. ASSUME NEW j \in Jobs, Begin(j) PROVE Reopens'
  <2>1. /\ pc = "idle" /\ n < MaxUploads /\ n' = n + 1 /\ handle' \in {handle, "ok"}
        /\ toHost' = toHost /\ Starts(handle', j, n + 1, 1)
        /\ job' = j /\ session' = session
    BY <1>3 DEF Begin, deviceVars
  <2>2. n + 1 \in 1 .. MaxUploads /\ n # MaxUploads
    BY <1>1, <2>1
  <2>3. Silent(toDev) /\ (Late => toHost = <<>>)
    BY <2>1, <2>2 DEF Sync, NoReply
  <2>4. handle' = "dead" => toDev = <<>> /\ toHost = <<>>
    BY <1>1, <2>1
  <2>5. handle' \in {"ok", "dead"}
    BY <1>1, <2>1
  <2>6. Silent(toDev')
    BY <1>0, <2>1, <2>2, <2>3, <2>4, <2>5, StartsSync
  <2> QED
    BY <1>0, <2>1, <2>2, <2>5, <2>6, StartsReopens
<1>4. CASE Retry
  <2>1. /\ handle = "dead" /\ toDev = <<>> /\ toHost = <<>> /\ n' = n /\ toHost' = toHost
        /\ pc = "retry" /\ job' = job /\ session' = session
    BY <1>1, <1>4 DEF Closing, Retry, deviceVars
  <2>2. job \in Jobs /\ n \in 1 .. MaxUploads
    BY <1>0, <2>1 DEF Busy
  <2>3. CASE handle' \in {"ok", "dead"} /\ Starts(handle', job, n, 2)
    <3>1. Silent(toDev)
      BY <1>2, <2>1
    <3>2. Silent(toDev')
      BY <1>0, <2>1, <2>2, <2>3, <3>1, StartsSync
    <3> QED
      BY <1>0, <2>1, <2>2, <2>3, <3>2, StartsReopens
  <2>4. CASE Returns("failed") /\ UNCHANGED <<inbox, frame, handle, toDev, closeLost>>
    <3>1. pc' = "idle" /\ toDev' = <<>>
      BY <2>1, <2>4 DEF Returns
    <3> QED
      BY <3>1 DEF Reopens, AfterClose
  <2> QED
    BY <1>4, <2>3, <2>4 DEF Retry
<1>5. ASSUME pc \notin {"idle", "retry"}, handle' = handle, session' = session,
             pc' = "settle" => frame' # 0,
             \/ toDev' = toDev /\ (closeLost => closeLost')
             \/ Sends(handle, CloseOf(job, n))
             \/ /\ frame + 1 \in 1 .. Len(Plan(job))
                /\ Sends(handle, Message(Plan(job)[frame + 1], job, n))
                /\ frame = 0 => pc = "settle"
      PROVE  Reopens'
  <2>1. job \in Jobs /\ n \in 1 .. MaxUploads /\ frame \in 0 .. Len(Plan(job))
    BY <1>0, <1>5 DEF Busy, TypeOK
  <2>2. closeLost => closeLost'
    BY <1>5, SendsWhat
  <2> SUFFICES ASSUME ~closeLost' PROVE AfterClose(toDev')
    BY <1>5 DEF Reopens, AfterClose
  <2>3. AfterClose(toDev)
    BY <2>2 DEF Reopens
  <2>4. CASE Sends(handle, CloseOf(job, n))
    <3>1. toDev' = toDev \/ toDev' = Append(toDev, CloseOf(job, n))
      BY <2>4, SendsWhat
    <3>2. CloseOf(job, n) \in Messages /\ CloseOf(job, n).op = "close"
      BY <2>1, CloseSilent
    <3> QED
      BY <1>1, <2>3, <3>1, <3>2, AddedAfterClose
  <2>5. CASE /\ frame + 1 \in 1 .. Len(Plan(job))
             /\ Sends(handle, Message(Plan(job)[frame + 1], job, n))
             /\ frame = 0 => pc = "settle"
    <3>1. /\ At(frame + 1) = Message(Plan(job)[frame + 1], job, n)
          /\ At(frame + 1) \in Messages /\ At(frame + 1).kind = job.kind
          /\ At(frame + 1).op = "open" => frame + 1 = 1
      BY <2>1, <2>5, AtType, PlanFrames DEF At
    <3>2. toDev' = IF handle = "ok" THEN Append(toDev, At(frame + 1)) ELSE toDev
      BY <2>5, <3>1, SendsWhat
    <3>3. At(frame + 1).op = "open" /\ At(frame + 1).kind = "project" /\ handle = "ok" =>
              IF toDev = <<>> THEN ~session ELSE toDev[Len(toDev)].op = "close"
      <4>1. At(frame + 1).op = "open" => frame = 0
        BY <2>1, <3>1
      <4> QED
        BY <2>2, <2>5, <3>1, <4>1 DEF Reopens, EndsClosed
    <3> QED
      BY <1>1, <2>3, <3>1, <3>2, <3>3, AddedAfterClose
  <2> QED
    BY <1>5, <2>3, <2>4, <2>5
<1>6. ASSUME NEW left, pc \in {"settle", "pace"}, Proceeds(left) PROVE Reopens'
  <2>1. /\ job \in Jobs /\ frame \in 0 .. Len(Plan(job)) /\ Len(Plan(job)) \in Nat
        /\ frame = 0 => pc = "settle"
    BY <1>0, <1>6, PlanType DEF Busy, TypeOK, Sync
  <2>2. handle' = handle /\ session' = session
    BY <1>6 DEF Proceeds, hostRest, deviceVars
  <2>3. CASE frame = Len(Plan(job))
    <3>1. Finishes
      BY <1>6, <2>3 DEF Proceeds
    <3> QED
      BY <1>5, <1>6, <2>2, <3>1 DEF Finishes, Returns
  <2>4. CASE frame # Len(Plan(job))
    <3>1. SendsNext(left) /\ frame' = frame + 1
      BY <1>6, <2>4 DEF Proceeds
    <3>2. frame + 1 \in 1 .. Len(Plan(job)) /\ frame' # 0
      BY <2>1, <2>4, <3>1
    <3> QED
      BY <1>5, <1>6, <2>1, <2>2, <3>1, <3>2 DEF SendsNext, Aborts
  <2> QED
    BY <2>3, <2>4
<1>7. CASE SettleEnds \/ PaceEnds
  BY <1>6, <1>7 DEF SettleEnds, PaceEnds
<1>8. CASE TakesAck
  <2>1. /\ pc = "ack" /\ pc' = "pace" /\ handle' = handle /\ session' = session
        /\ toDev' = toDev /\ closeLost' = closeLost
    BY <1>8 DEF TakesAck, Goes, hostRest, deviceVars
  <2> QED
    BY <1>5, <2>1
<1>9. CASE TimesOut
  <2>1. /\ pc = "ack" /\ pc' \in {"idle", "retry"} /\ handle' = handle
        /\ session' = session /\ Sends(handle, CloseOf(job, n))
    BY <1>9, EndsType DEF TimesOut, Aborts, hostRest, deviceVars
  <2> QED
    BY <1>5, <2>1
<1> QED
  BY <1>3, <1>4, <1>7, <1>8, <1>9 DEF Host

LEMMA WireReopens ==
    ASSUME Types, Reopens, Wire
    PROVE  Reopens'
<1>0. TypeOK
  BY DEF Types
<1>1. pc' = pc /\ frame' = frame /\ job' = job
  BY DEF Wire, Process, Ignore, Deliver, HandleDies, hostVars
<1>2. EndsClosed => EndsClosed'
  BY <1>0, WireEndsClosed
<1>3. ~closeLost' => AfterClose(toDev)'
  <2>1. CASE Process \/ Ignore
    <3>1. /\ toDev # <<>> /\ toDev' = Tail(toDev)
          /\ toDev \in Seq(Messages) /\ Head(toDev) \in Messages
      BY <1>0, <2>1 DEF Process, Ignore, TypeOK
    <3>2. /\ closeLost => closeLost'
          /\ Head(toDev).op = "close" => closeLost' \/ ~session'
      <4>1. CASE Process
        BY <1>0, <3>1, <4>1, AnswersType DEF Process
      <4>2. CASE Ignore
        BY <4>2 DEF Ignore
      <4> QED
        BY <2>1, <4>1, <4>2
    <3> SUFFICES ASSUME ~closeLost', NEW i \in DOMAIN Tail(toDev),
                        Tail(toDev)[i].op = "open", Tail(toDev)[i].kind = "project"
                 PROVE  IF i = 1 THEN ~session' ELSE Tail(toDev)[i - 1].op = "close"
      BY <3>1 DEF AfterClose
    <3>3. /\ i \in 1 .. Len(toDev) - 1 /\ i + 1 \in DOMAIN toDev /\ i + 1 # 1
          /\ Tail(toDev)[i] = toDev[i + 1] /\ (i + 1) - 1 = i
      BY <3>1
    <3>4. toDev[i].op = "close"
      BY <3>2, <3>3 DEF Reopens, AfterClose
    <3>5. CASE i = 1
      BY <3>1, <3>2, <3>4, <3>5
    <3>6. CASE i # 1
      <4>1. Tail(toDev)[i - 1] = toDev[i]
        BY <3>1, <3>3, <3>6
      <4> QED
        BY <3>4, <3>6, <4>1
    <3> QED
      BY <3>5, <3>6
  <2>2. CASE Deliver
    BY <2>2 DEF Deliver, deviceVars, Reopens, AfterClose
  <2>3. CASE HandleDies
    BY <2>3 DEF HandleDies, AfterClose
  <2> QED
    BY <2>1, <2>2, <2>3 DEF Wire
<1> QED
  BY <1>1, <1>2, <1>3 DEF Reopens

-----------------------------------------------------------------------------
(***************************************************************************)
(* The sender and the device stay in step: at any moment at most one reply *)
(* is outstanding, and it is the ACK of the frame sent last; the files of  *)
(* the frames behind the sender are stored; and the OPEN of a project      *)
(* comes after a CLOSE.  It takes the fixed waits, after which nothing is  *)
(* under way, and the order of the plan; the drain before a frame that     *)
(* waits for an ACK finds nothing to drain.                                *)
(***************************************************************************)
THEOREM StaysInStep ==
    ASSUME InStep
    PROVE  Spec => [](Sync /\ Kept /\ Reopens)
<1>1. Init => Sync /\ Kept /\ Reopens
  BY DEF Init, Sync, Kept, Reopens, NoReply, Silent, AfterClose
<1>2. Types /\ Closing /\ (Sync /\ Kept /\ Reopens) /\ [Next]_vars
          => (Sync /\ Kept /\ Reopens)'
  <2> SUFFICES ASSUME Types, Closing, Sync, Kept, Reopens, [Next]_vars
               PROVE  (Sync /\ Kept /\ Reopens)'
    OBVIOUS
  <2>1. CASE UNCHANGED vars
    <3> USE DEF vars, hostVars, wireVars, deviceVars
    <3>1. \A p : At(p)' = At(p)
      BY <2>1, SameFrames
    <3>2. Current' = Current
      BY <2>1, SameFrames
    <3>3. NoReply' <=> NoReply
      BY <2>1 DEF NoReply, Silent
    <3>4. OneReply' <=> OneReply
      BY <2>1, <3>2, <3>3 DEF OneReply, LastOnly, Silent
    <3>5. Sync'
      BY <2>1, <3>2, <3>3, <3>4 DEF Sync, Only, Silent, Gated
    <3>6. Kept'
      BY <2>1, <3>1, <3>2 DEF Kept, Holds, Stores, Behind, OkMeansStored
    <3>7. Reopens'
      BY <2>1 DEF Reopens, EndsClosed, AfterClose
    <3> QED
      BY <3>5, <3>6, <3>7
  <2>2. CASE Wire
    BY <2>2, WireSync, WireKept, WireReopens
  <2>3. CASE Host \/ \E j \in Jobs : Begin(j)
    BY <2>3, SenderSync, SenderKept, SenderReopens
  <2> QED
    BY <2>1, <2>2, <2>3 DEF Next
<1> QED
  BY <1>1, <1>2, Inductive, PTL DEF Spec

(***************************************************************************)
(* An upload that reports success has stored its file in every slot it was *)
(* for, whatever died, was retried or was ignored on the way.              *)
(***************************************************************************)
THEOREM SuccessMeansStored ==
    ASSUME InStep
    PROVE  Spec => []OkMeansStored
<1>1. Kept => OkMeansStored
  BY DEF Kept, OkMeansStored
<1>2. Sync /\ Kept /\ Reopens => OkMeansStored
  BY <1>1
<1> QED
  BY <1>2, StaysInStep, PTL

(***************************************************************************)
(* The ACK the sender takes is the ACK of the frame it sent last.          *)
(***************************************************************************)
THEOREM AckMatches ==
    ASSUME InStep
    PROVE  Spec => AckIsForFrame
<1>1. Types /\ Sync /\ [Next]_vars =>
          [pc = "ack" /\ pc' = "pace"
              => Head(inbox) = Message(Plan(job)[frame], job, n)]_vars
  <2> SUFFICES ASSUME Types, Sync, Next, pc = "ack", pc' = "pace"
               PROVE  Head(inbox) = Message(Plan(job)[frame], job, n)
    BY DEF vars, hostVars
  <2>1. TakesAck
    <3>1. CASE \E j \in Jobs : Begin(j)
      BY <3>1 DEF Begin
    <3>2. CASE Retry \/ SettleEnds \/ PaceEnds
      BY <3>2 DEF Retry, SettleEnds, PaceEnds
    <3>3. CASE TimesOut
      BY <3>3, EndsType DEF TimesOut, Aborts
    <3>4. CASE Wire
      BY <3>4 DEF Wire, Process, Ignore, Deliver, HandleDies, hostVars
    <3> QED
      BY <3>1, <3>2, <3>3, <3>4 DEF Next, Host
  <2>2. inbox = <<Current>>
    BY <2>1 DEF TakesAck, Sync, OneReply, NoReply
  <2> QED
    BY <2>2 DEF Current, At
<1>2. Types /\ Closing /\ (Sync /\ Kept /\ Reopens) => Types /\ Sync
  OBVIOUS
<1> QED
  BY <1>1, <1>2, Inductive, StaysInStep, PTL DEF Spec, AckIsForFrame

(***************************************************************************)
(* The device takes the OPEN of a project upload with no session open,     *)
(* whatever state the attempt before left it in, unless a CLOSE of this    *)
(* attempt was lost or ignored.                                            *)
(***************************************************************************)
THEOREM ResetsFirst ==
    ASSUME InStep
    PROVE  Spec => ResetReopens
<1>1. Types /\ Reopens =>
          [toDev # <<>> /\ toDev' = Tail(toDev) /\ Head(toDev).op = "open"
              /\ Head(toDev).kind = "project" /\ session
           => closeLost]_vars
  <2> SUFFICES ASSUME Types, Reopens, toDev # <<>>, Head(toDev).op = "open",
                      Head(toDev).kind = "project", session, ~closeLost
               PROVE  FALSE
    OBVIOUS
  <2>1. 1 \in DOMAIN toDev /\ Head(toDev) = toDev[1]
    BY DEF Types, TypeOK
  <2> QED
    BY <2>1 DEF Reopens, AfterClose
<1>2. Types /\ Closing /\ (Sync /\ Kept /\ Reopens) => Types /\ Reopens
  OBVIOUS
<1> QED
  BY <1>1, <1>2, Inductive, StaysInStep, PTL DEF Spec, ResetReopens

=============================================================================
