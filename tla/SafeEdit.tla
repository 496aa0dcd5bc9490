------------------------------ MODULE SafeEdit ------------------------------
(***************************************************************************)
(* The AM4's working buffer, and what keeps a navigation from silently     *)
(* discarding what was edited in it:                                       *)
(*                                                                         *)
(*   bufferDirty.ts   the flag of unsaved edits                            *)
(*   safeEdit.ts      guardActiveAM4BufferOrSave                           *)
(*   writer.ts, applyExecutor.ts, navigation.ts   the calls                *)
(*                                                                         *)
(* Calls interleave at their awaits; their requests reach the device in    *)
(* order, and an answer is taken by every call that waits for one of its   *)
(* kind.  Meanwhile somebody turns knobs, saves and changes presets on the *)
(* device itself.  A location's content is the set of edits in it.         *)
(***************************************************************************)
EXTENDS Naturals, Sequences

CONSTANTS
    Call,       \* tool calls in progress at once
    Kinds,      \* what each of them may be: a set of job kinds
    Loc,        \* locations of the device
    MaxEdits,   \* bound: edits, of the server and by hand
    MaxFlight,  \* bound: requests and answers under way when a call begins or gives up
    None

ASSUME NoneAssumption == None \notin Loc
ASSUME BoundsAssumption == MaxEdits \in Nat /\ MaxFlight \in Nat

VARIABLES
    active,  \* the location that is loaded
    buffer,  \* the working buffer
    stored,  \* what each location holds
    bit,     \* the device's "edited" bit
    lag,     \* it was set by a write just now and may not show yet
    dirty,   \* isDirty
    recent,  \* markDirty ran less than DIRTY_MARK_TRUST_WINDOW_MS ago
    pc,      \* what a call waits for the answer of
    call,    \* what it was asked to do
    woken,   \* calls that go on with the answer got
    got,     \* that answer
    wire,    \* requests on their way to the device
    answers, \* answers on their way back
    edits,   \* edits begun
    done,    \* history: edits the device made
    clean,   \* history: edits made before the last acknowledged save, or switch of
             \*     switch_preset: those that the code clears its flag for
    acked    \* history: edits acknowledged to a client

deviceVars == <<active, buffer, stored, bit, lag>>
trackerVars == <<dirty, recent>>
callVars == <<pc, call>>
historyVars == <<done, clean, acked>>
vars == <<deviceVars, trackerVars, callVars, woken, got, wire, answers, edits, historyVars>>

Edit == 1 .. MaxEdits
Modes == {"warn", "discard", "save_active_first"}
Stages == {"idle", "edit", "bit", "where", "store", "switch", "save", "after"}

Job(kind, mode, loc, save) == [kind |-> kind, mode |-> mode, loc |-> loc, save |-> save]

\* set_param, save_preset, switch_preset and apply_preset at a location.
Jobs ==
    {Job("edit", "discard", None, FALSE)}
        \cup {Job("save", "discard", l, TRUE) : l \in Loc}
        \cup {Job("switch", m, l, FALSE) : m \in Modes, l \in Loc}
        \cup {Job("apply", m, l, s) : m \in Modes, l \in Loc, s \in BOOLEAN}

\* A call in progress.  History: the edits it must keep, and what was clean when
\* it began.
Calls == [job : Jobs, spares : SUBSET Edit, clean : SUBSET Edit]

\* Acknowledgements name neither the location nor the call: isWriteEcho of a
\* switch, isCommandAck of a save, and the echo of a parameter's write.
Kind(stage) ==
    IF stage = "store" THEN "save" ELSE IF stage = "after" THEN "switch" ELSE stage

\* spares is history: the edits a request must not discard.
Requests == [op : Stages, loc : Loc \cup {None}, edit : 0 .. MaxEdits,
             spares : SUBSET Edit]

\* held is history: the edits an acknowledged save or switch comes after, or
\* those an edited bit that does not lag speaks for.
Answers == [kind : Stages, bit : BOOLEAN, loc : Loc \cup {None},
            held : SUBSET Edit]

(***************************************************************************)
(* TypeOK: every variable stays in its range, and a request that changes   *)
(* the preset names a location.                                            *)
(***************************************************************************)
TypeOK ==
    /\ active \in Loc
    /\ buffer \in SUBSET Edit
    /\ stored \in [Loc -> SUBSET Edit]
    /\ bit \in BOOLEAN /\ lag \in BOOLEAN
    /\ dirty \in BOOLEAN /\ recent \in BOOLEAN
    /\ pc \in [Call -> Stages]
    /\ call \in [Call -> Calls \cup {None}]
    /\ woken \in SUBSET Call
    /\ got \in Answers \cup {None}
    /\ wire \in Seq(Requests)
    /\ \A i \in DOMAIN wire : wire[i].op \in {"save", "store", "switch", "after"} =>
                                  wire[i].loc \in Loc
    /\ answers \in Seq(Answers)
    /\ edits \in 0 .. MaxEdits
    /\ done \in SUBSET Edit /\ clean \in SUBSET Edit /\ acked \in SUBSET Edit

Init ==
    /\ active \in Loc
    /\ buffer = {}
    /\ stored = [l \in Loc |-> {}]
    /\ bit = FALSE /\ lag = FALSE
    /\ dirty = FALSE /\ recent = FALSE
    /\ pc = [c \in Call |-> "idle"]
    /\ call = [c \in Call |-> None]
    /\ woken = {} /\ got = None
    /\ wire = <<>> /\ answers = <<>>
    /\ edits = 0
    /\ done = {} /\ clean = {} /\ acked = {}

-----------------------------------------------------------------------------
(* The calls.  Each step runs from one await to the next. *)

\* History: what the switch of a call that was not told to discard edits, and
\* the one that follows a save, must not discard.
Spares(k, stage) ==
    IF stage = "after" \/ (stage = "switch" /\ k.job.mode # "discard")
    THEN k.spares ELSE {}

\* sendAndAwaitAck, or a read: the request goes out and the call waits.
Asks(c, k, stage, loc) ==
    /\ pc' = [pc EXCEPT ![c] = stage]
    /\ call' = [call EXCEPT ![c] = k]
    /\ wire' = Append(wire, [op |-> stage, loc |-> loc, edit |-> 0,
                             spares |-> Spares(k, stage)])
    /\ UNCHANGED edits

\* A parameter write.
Writes(c, k) ==
    /\ edits < MaxEdits
    /\ edits' = edits + 1
    /\ pc' = [pc EXCEPT ![c] = "edit"]
    /\ call' = [call EXCEPT ![c] = k]
    /\ wire' = Append(wire, [op |-> "edit", loc |-> None, edit |-> edits + 1,
                             spares |-> {}])

Ends(c) ==
    /\ pc' = [pc EXCEPT ![c] = "idle"]
    /\ call' = [call EXCEPT ![c] = None]
    /\ UNCHANGED <<wire, edits>>

Begin(c, j) ==
    /\ pc[c] = "idle" /\ woken = {} /\ j.kind \in Kinds[c]
    /\ Len(wire) + Len(answers) =< MaxFlight
    /\ LET k == [job |-> j, spares |-> acked, clean |-> clean]
       IN  \/ j.kind = "edit" /\ Writes(c, k)
           \/ j.kind = "save" /\ Asks(c, k, "save", j.loc)
           \/ /\ j.kind \in {"switch", "apply"}
              /\ IF j.mode = "discard" THEN Asks(c, k, "switch", j.loc)
                                       ELSE Asks(c, k, "bit", None)
    /\ UNCHANGED <<deviceVars, trackerVars, woken, got, answers, historyVars>>

MarkClean == dirty' = FALSE /\ UNCHANGED recent
MarkDirty == dirty' = TRUE /\ recent' = TRUE
KeepFlag == UNCHANGED <<dirty, recent>>

\* The device's bit alone.
BufferDirtyByBit(ok, shown) == IF ok THEN shown ELSE dirty

\* isActiveBufferDirty: the device's bit, unless it reads clean right after a
\* write of ours; the flag when the read failed.
BufferDirty(ok, shown) == IF ok THEN shown \/ (dirty /\ recent) ELSE dirty

\* Saves to whatever was read as the active location.
StoresAnyway(c, ok, loc) ==
    /\ call[c].job.mode = "save_active_first"
    /\ Asks(c, call[c], "store", IF ok THEN loc ELSE None)

\* save_active_first needs the location to save to.
Stores(c, ok, loc) ==
    /\ call[c].job.mode = "save_active_first" /\ ok
    /\ Asks(c, call[c], "store", loc)

\* The guard refuses: it was asked to warn, or cannot save.
Refuses(c, ok) ==
    (call[c].job.mode = "warn" \/ ~ok) /\ Ends(c)

Applies(c) == call[c].job.kind = "apply"

\* What a call does when its answer came, or did not (ok).  apply_preset,
\* switched to its location, writes its edits (one of them; none when the bound
\* on edits is reached) and saves if it may: also after a write that was not
\* acknowledged, unless the budget for those is spent.
Continues(c, ok, a) ==
    LET k == call[c]
        known == [k EXCEPT !.spares = @ \cup a.held]
    IN  \/ /\ pc[c] = "edit"
           /\ \/ Applies(c) /\ k.job.save /\ Asks(c, k, "save", k.job.loc)
              \/ (Applies(c) /\ k.job.save => ~ok) /\ Ends(c)
        \/ /\ pc[c] = "bit"
           /\ IF BufferDirty(ok, a.bit) THEN Asks(c, known, "where", None)
                                        ELSE Asks(c, known, "switch", k.job.loc)
        \/ pc[c] = "where" /\ (Stores(c, ok, a.loc) \/ Refuses(c, ok))
        \/ /\ pc[c] = "store"
           /\ IF ok THEN Asks(c, k, "switch", k.job.loc) ELSE Ends(c)
        \/ /\ pc[c] = "switch"
           /\ IF ok /\ Applies(c) /\ edits < MaxEdits THEN Writes(c, k) ELSE Ends(c)
        \/ /\ pc[c] = "save"
           /\ IF ok /\ ~Applies(c) THEN Asks(c, k, "after", k.job.loc) ELSE Ends(c)
        \/ pc[c] = "after" /\ Ends(c)

\* The flag is cleared by the switch that follows a save, not by the save.
CleansLate(c) ==
    \/ pc[c] \in {"store", "after"}
    \/ pc[c] = "switch" /\ ~Applies(c)
    \/ pc[c] = "save" /\ Applies(c)

\* What clears the flag when it is acknowledged: a save, and the switch of
\* switch_preset, but not that of apply_preset.
Cleans(c) == pc[c] \in {"store", "save"} \/ (pc[c] = "switch" /\ ~Applies(c))

Tracks(c, ok) ==
    IF ok /\ pc[c] = "edit" THEN MarkDirty
    ELSE IF ok /\ Cleans(c) THEN MarkClean
    ELSE KeepFlag

\* receiveSysExMatching: an answer resolves every wait it matches; nobody takes
\* the answer of a call that gave up.
Deliver ==
    /\ answers # <<>> /\ woken = {}
    /\ answers' = Tail(answers)
    /\ LET a == Head(answers)
       IN  /\ woken' = {c \in Call : pc[c] # "idle" /\ Kind(pc[c]) = a.kind}
           /\ got' = IF woken' = {} THEN None ELSE a
    /\ UNCHANGED <<deviceVars, trackerVars, callVars, wire, edits, historyVars>>

\* The calls it resolves go on, one after the other.
Goes(c) ==
    /\ c \in woken
    /\ woken' = woken \ {c}
    /\ got' = IF woken' = {} THEN None ELSE got
    /\ Continues(c, TRUE, got)
    /\ Tracks(c, TRUE)
    /\ clean' = IF Kind(pc[c]) = "save" \/ (pc[c] = "switch" /\ ~Applies(c))
                THEN got.held ELSE clean
    /\ acked' = IF pc[c] = "edit" THEN acked \cup got.held ELSE acked
    /\ UNCHANGED <<deviceVars, answers, done>>

NoAnswer == [bit |-> FALSE, loc |-> active, held |-> {}]

\* The wait ran out: the request or its answer was lost, or will be late.
TimesOut(c) ==
    /\ pc[c] # "idle" /\ woken = {}
    /\ Len(wire) + Len(answers) =< MaxFlight
    /\ Continues(c, FALSE, NoAnswer)
    /\ Tracks(c, FALSE)
    /\ UNCHANGED <<deviceVars, woken, got, answers, historyVars>>

\* Two seconds after the last write of ours.  The bit shows it by then, and an
\* answer that old is nobody's: reads wait 300 ms.
Forgets ==
    /\ recent /\ ~lag /\ answers = <<>> /\ woken = {}
    /\ recent' = FALSE
    /\ UNCHANGED <<deviceVars, dirty, callVars, woken, got, wire, answers, edits, historyVars>>

-----------------------------------------------------------------------------
(* The device. *)

Unsaved == buffer \ UNION {stored[l] : l \in Loc}

Edited(e) ==
    /\ buffer' = buffer \cup {e}
    /\ bit' = TRUE
    /\ done' = done \cup {e}
    /\ UNCHANGED <<active, stored>>

Loads(l) ==
    /\ active' = l
    /\ buffer' = stored[l]
    /\ bit' = FALSE /\ lag' = FALSE
    /\ UNCHANGED <<stored, done>>

Stored(l) ==
    /\ stored' = [stored EXCEPT ![l] = buffer]
    /\ bit' = FALSE /\ lag' = FALSE
    /\ UNCHANGED <<active, buffer, done>>

\* What a request does to the device.
Executes(r) ==
    \/ r.op = "edit" /\ Edited(r.edit) /\ lag' = (lag \/ ~bit)
    \/ r.op \in {"switch", "after"} /\ Loads(r.loc)
    \/ r.op \in {"save", "store"} /\ Stored(r.loc)
    \/ r.op \in {"bit", "where"} /\ UNCHANGED <<deviceVars, done>>

Held(r) ==
    IF r.op = "edit" THEN {r.edit}
    ELSE IF r.op = "bit" THEN IF lag THEN {} ELSE Unsaved
    ELSE IF r.op = "where" THEN {}
    ELSE done

\* The device takes the next request and answers; a bit that was set just now
\* may not show.
Replies ==
    /\ wire # <<>>
    /\ wire' = Tail(wire)
    /\ LET r == Head(wire)
       IN  /\ Executes(r)
           /\ \E shown \in IF lag THEN {FALSE, bit} ELSE {bit} :
                answers' = Append(answers, [kind |-> Kind(r.op),
                                            bit |-> r.op = "bit" /\ shown,
                                            loc |-> IF r.op = "where" THEN active ELSE None,
                                            held |-> Held(r)])
    /\ UNCHANGED <<trackerVars, callVars, woken, got, edits, clean, acked>>

\* The request, or its answer, is lost.
Swallows ==
    /\ wire # <<>>
    /\ wire' = Tail(wire)
    /\ \/ Executes(Head(wire))
       \/ UNCHANGED <<deviceVars, done>>
    /\ UNCHANGED <<trackerVars, callVars, woken, got, answers, edits, clean, acked>>

Shows ==
    /\ lag
    /\ lag' = FALSE
    /\ UNCHANGED <<active, buffer, stored, bit, trackerVars, callVars, woken, got, wire,
                   answers, edits, historyVars>>

\* Somebody at the device turns a knob, saves, or changes the preset.
ByHand ==
    /\ \/ /\ edits < MaxEdits /\ edits' = edits + 1
          /\ Edited(edits + 1) /\ UNCHANGED lag
       \/ Stored(active) /\ UNCHANGED edits
       \/ \E l \in Loc : Loads(l) /\ UNCHANGED edits
    /\ UNCHANGED <<trackerVars, callVars, woken, got, wire, answers, clean, acked>>

Next ==
    \/ \E c \in Call : (\E j \in Jobs : Begin(c, j)) \/ Goes(c) \/ TimesOut(c)
    \/ Deliver \/ Forgets
    \/ Replies \/ Swallows \/ Shows \/ ByHand

Spec == Init /\ [][Next]_vars

-----------------------------------------------------------------------------
(***************************************************************************)
(* NoSilentDiscard: neither a navigation that was not told to discard      *)
(* edits nor the switch that follows a save takes from the working buffer, *)
(* unsaved, an edit that was acknowledged before the call began, or one    *)
(* that the edited bit the call was answered spoke for: not when that bit  *)
(* lags, not when answers are lost or late, and not when other calls edit, *)
(* save and navigate in between.                                           *)
(***************************************************************************)
NoSilentDiscard ==
    [][wire # <<>> /\ wire' = Tail(wire) =>
          (Unsaved \ buffer') \cap Head(wire).spares = {}]_vars

(***************************************************************************)
(* RefusalHasCause: a navigation is only refused when the device was       *)
(* edited since the last save, or switch of switch_preset, that was        *)
(* acknowledged when it began: no answer that is lost, late or another     *)
(* call's makes a buffer that was saved, or loaded by switch_preset, look  *)
(* edited (isActiveBufferDirty, markClean).  The switch of apply_preset    *)
(* and the one that follows a save load a preset too, but leave the flag   *)
(* as it was (runApplyPresetAt, savePreset): after them a navigation may   *)
(* be refused over a buffer that nobody has edited.                        *)
(***************************************************************************)
Refused(c) == pc[c] = "where" /\ pc'[c] = "idle" /\ call[c].job.mode = "warn"

RefusalHasCause == [][\A c \in Call : Refused(c) => done \ call[c].clean # {}]_vars
=============================================================================
