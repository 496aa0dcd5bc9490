------------------------------ MODULE FlagGate ------------------------------
(***************************************************************************)
(* The dirty-buffer gate of the Axe-Fx II (gen2) and of the III, FM3 and   *)
(* FM9 (gen3), which rely on the server's own flag:                        *)
(*                                                                         *)
(*   bufferDirty.ts                    the flag                            *)
(*   fractal-gen2, fractal-gen3 midi.ts  the send hook and the listener    *)
(*   shared.ts, guard.ts               the guards                          *)
(*   writer.ts of both                 set_param, save_preset, switch      *)
(*                                                                         *)
(* The hook clears the flag when a store or a switch goes out, before the  *)
(* device has answered and before the send that may throw.  A frame takes  *)
(* effect when it is sent; what the device sends back arrives in order and *)
(* as late as it likes.  A location's content is the set of edits in it.   *)
(* A call that is refused changes nothing, and is no step.                 *)
(***************************************************************************)
EXTENDS Naturals, Sequences

CONSTANTS
    Call,       \* tool calls in progress at once
    Gens,       \* the devices considered, of "gen2" and "gen3"
    Loc,        \* locations of the device
    MaxEdits,   \* bound: edits, of the server and by hand
    MaxFlight,  \* bound: messages on their way back when somebody acts
    None

ASSUME NoneAssumption == None \notin Loc
ASSUME GensAssumption == Gens \subseteq {"gen2", "gen3"}
ASSUME BoundsAssumption == MaxEdits \in Nat /\ MaxFlight \in Nat

VARIABLES
    gen,      \* which device it is
    active,   \* the location that is loaded
    buffer,   \* the working buffer
    stored,   \* what each location holds
    flag,     \* isDirty
    pc,       \* what a call waits for
    call,     \* what it was asked to do
    woken,    \* calls that go on with the answer got
    got,      \* that answer
    inbox,    \* what the device sent and the listener has not seen
    edits,    \* edits begun
    noticed,  \* history: edits a client was told of, or a broadcast spoke of
    forsaken, \* history: of those, what a failed store or switch left unflagged
    lost      \* history: what guarded switches must not have discarded, and did

deviceVars == <<active, buffer, stored>>
callVars == <<pc, call>>
wakeVars == <<woken, got>>
vars == <<gen, deviceVars, flag, callVars, wakeVars, inbox, edits, noticed, forsaken, lost>>

Edit == 1 .. MaxEdits
Modes == {"warn", "discard", "save_active_first"}
Stages == {"idle", "edit", "where", "store", "save"}

\* A call in progress: the location it is for and the edit it makes.  History:
\* the noticed edits it found unsaved when its guard began, those of them that
\* no flag spoke for, and those its own store was to save.
Calls == [loc : Loc \cup {None}, edit : 0 .. MaxEdits, guards : SUBSET Edit,
          excused : SUBSET Edit, covers : SUBSET Edit]

\* The broadcast of an edit, the active preset's number, and the result of a
\* store (gen3: the rejection of any frame).  held is history: what is stored.
Answers == [kind : {"edited", "number", "result"}, ok : BOOLEAN, edit : 0 .. MaxEdits,
            loc : Loc \cup {None}, held : SUBSET Edit]

(***************************************************************************)
(* TypeOK: every variable stays in its range; a call that asked for the    *)
(* active preset or stored to it knows where it will switch to.            *)
(***************************************************************************)
TypeOK ==
    /\ gen \in Gens
    /\ active \in Loc
    /\ buffer \in SUBSET Edit
    /\ stored \in [Loc -> SUBSET Edit]
    /\ flag \in BOOLEAN
    /\ pc \in [Call -> Stages]
    /\ call \in [Call -> Calls]
    /\ \A c \in Call : pc[c] \in {"where", "store"} => call[c].loc \in Loc
    /\ woken \in SUBSET Call
    /\ got \in Answers \cup {None}
    /\ inbox \in Seq(Answers)
    /\ edits \in 0 .. MaxEdits
    /\ noticed \in SUBSET Edit /\ forsaken \in SUBSET Edit
    /\ lost \in SUBSET Edit

NoCall == [loc |-> None, edit |-> 0, guards |-> {}, excused |-> {}, covers |-> {}]

Init ==
    /\ gen \in Gens
    /\ active \in Loc
    /\ buffer = {}
    /\ stored = [l \in Loc |-> {}]
    /\ flag = FALSE
    /\ pc = [c \in Call |-> "idle"]
    /\ call = [c \in Call |-> NoCall]
    /\ woken = {} /\ got = None
    /\ inbox = <<>>
    /\ edits = 0
    /\ noticed = {} /\ forsaken = {} /\ lost = {}

-----------------------------------------------------------------------------
(* The device. *)

Unsaved == buffer \ UNION {stored[l] : l \in Loc}

Edited(e) == buffer' = buffer \cup {e} /\ UNCHANGED <<active, stored>>
Loads(l) == active' = l /\ buffer' = stored[l] /\ UNCHANGED stored
Stored(l) == stored' = [stored EXCEPT ![l] = buffer] /\ UNCHANGED <<active, buffer>>

Answer(kind, ok, e, l, held) ==
    [kind |-> kind, ok |-> ok, edit |-> e, loc |-> l, held |-> held]

Quiet == UNCHANGED inbox
Says(a) == inbox' = Append(inbox, a)

-----------------------------------------------------------------------------
(* The flag. *)

\* markDirty: whatever is unsaved is flagged again.
MarkDirty == flag' = TRUE /\ forsaken' = {}

\* Noticed edits that are nowhere but in the buffer.
AtRisk == noticed \cap Unsaved

\* isCleanOutbound on a frame the device did not act on.
CleanedInVain == flag' = FALSE /\ forsaken' = forsaken \cup AtRisk

\* isCleanOutbound on one it did, or whose fate is not known yet.
MarkClean == flag' = FALSE /\ UNCHANGED forsaken

\* Edits that calls in progress have sent to flash without an answer yet.
Pending == UNION {call[c].covers : c \in {d \in Call : pc[d] \in {"store", "save"}}}

-----------------------------------------------------------------------------
(* The calls.  Each step runs from one await to the next. *)

Waits(c, stage, k) ==
    /\ pc' = [pc EXCEPT ![c] = stage]
    /\ call' = [call EXCEPT ![c] = k]

Ends(c) == Waits(c, "idle", NoCall)

\* switchPreset: a clean flag and one frame without an answer, which may not
\* get there.  guards is what it must not discard.
Switches(c, l, guards, excused) ==
    /\ Ends(c)
    /\ UNCHANGED <<gen, inbox, edits, noticed>>
    /\ \/ CleanedInVain /\ UNCHANGED <<deviceVars, lost>>
       \/ /\ MarkClean
          /\ Loads(l)
          /\ lost' = lost \cup (((guards \cap Unsaved) \ stored[l]) \ excused)

\* A store: the flag is cleared as it goes out.  It throws, and the call ends
\* with the flag clear; or it is ignored, rejected or carried out.  Of gen3's,
\* only a rejection is answered; gen2's result may be lost.
Stores(c, stage, l, k) ==
    LET waits == Waits(c, stage, [k EXCEPT !.covers = AtRisk])
    IN  /\ UNCHANGED <<gen, edits, noticed, lost>>
        /\ \/ CleanedInVain /\ Ends(c) /\ Quiet /\ UNCHANGED deviceVars
           \/ /\ MarkClean /\ waits
              /\ \/ UNCHANGED deviceVars /\ Quiet
                 \/ UNCHANGED deviceVars /\ Says(Answer("result", FALSE, 0, None, {}))
                 \/ Stored(l) /\ Quiet
                 \/ Stored(l) /\ gen = "gen2" /\ Says(Answer("result", TRUE, 0, None, buffer))

\* It lets pass what it could save first, and does not.
PassesUnsaved(mode) == ~flag \/ mode # "warn"

\* guardActiveBufferOrSave lets the switch pass.
Passes(mode) == ~flag \/ mode = "discard"

\* Only gen2 stores by itself; it reads the active number and name first.
SavesFirst(mode) == gen = "gen2" /\ mode = "save_active_first"

\* Where to is forgotten while the guard is busy.
TargetForgotten(l, guards) == [NoCall EXCEPT !.guards = guards]

\* What a switch remembers while its guard reads and stores.
Target(l, guards) == [NoCall EXCEPT !.loc = l, !.guards = guards]

SwitchPreset(c, mode, l) ==
    LET guards == IF mode = "discard" THEN {} ELSE AtRisk
    IN  \/ Passes(mode) /\ Switches(c, l, guards, forsaken \cup Pending)
        \/ /\ ~Passes(mode) /\ SavesFirst(mode)
           /\ Waits(c, "where", Target(l, guards))
           /\ Quiet \/ Says(Answer("number", TRUE, 0, active, {}))
           /\ UNCHANGED <<gen, deviceVars, flag, edits, noticed, forsaken, lost>>

\* set_param.  gen2 marks when it sends and waits for nothing; the edit's
\* broadcast does not always reach the listener.
SetParam2(c) ==
    /\ gen = "gen2"
    /\ MarkDirty
    /\ edits' = edits + 1
    /\ UNCHANGED <<gen, callVars, lost>>
    /\ \/ UNCHANGED <<deviceVars, noticed, inbox>>
       \/ /\ noticed' = noticed \cup {edits + 1}
          /\ \/ UNCHANGED deviceVars /\ Quiet
             \/ Edited(edits + 1) /\ (Quiet \/ Says(Answer("edited", TRUE, edits + 1, None, {})))

\* gen3 watches for a rejection or an echo, and marks after that.
SetParam3(c) ==
    /\ gen = "gen3"
    /\ edits' = edits + 1
    /\ Waits(c, "edit", [NoCall EXCEPT !.edit = edits + 1])
    /\ UNCHANGED <<gen, flag, noticed, forsaken, lost>>
    /\ \/ UNCHANGED deviceVars /\ (Quiet \/ Says(Answer("result", FALSE, 0, None, {})))
       \/ Edited(edits + 1) /\ Quiet

Idle(c) == pc[c] = "idle" /\ woken = {} /\ Len(inbox) =< MaxFlight

Begin(c) ==
    /\ Idle(c)
    /\ \/ edits < MaxEdits /\ (SetParam2(c) \/ SetParam3(c))
       \/ \E l \in Loc : Stores(c, "save", l, NoCall)
       \/ \E m \in Modes, l \in Loc : SwitchPreset(c, m, l)
    /\ UNCHANGED wakeVars

\* A store failed, and nobody flags the buffer again.
StoreFailsSilently(c) ==
    /\ forsaken' = IF gen = "gen2" /\ pc[c] = "save" THEN forsaken
                   ELSE forsaken \cup call[c].covers
    /\ UNCHANGED flag
    /\ Ends(c)
    /\ UNCHANGED <<gen, deviceVars, inbox, edits, noticed, lost>>

\* A store failed: gen2's save_preset flags the buffer again, the guard and
\* gen3's save_preset do not.
StoreFails(c) ==
    /\ IF gen = "gen2" /\ pc[c] = "save"
       THEN MarkDirty
       ELSE forsaken' = forsaken \cup call[c].covers /\ UNCHANGED flag
    /\ Ends(c)
    /\ UNCHANGED <<gen, deviceVars, inbox, edits, noticed, lost>>

\* What its result does not speak for, it was given another store's.
Unspoken(c) == call[c].covers \ got.held

\* A call goes on with the answer it waited for.
Continues(c) ==
    \/ /\ pc[c] = "edit"
       /\ MarkDirty /\ noticed' = noticed \cup {call[c].edit}
       /\ Ends(c)
       /\ UNCHANGED <<gen, deviceVars, inbox, edits, lost>>
    \/ pc[c] = "where" /\ Stores(c, "store", got.loc, call[c])
    \/ pc[c] \in {"store", "save"} /\ ~got.ok /\ StoreFails(c)
    \/ /\ pc[c] = "save" /\ got.ok
       /\ forsaken' = forsaken \cup Unspoken(c)
       /\ Ends(c)
       /\ UNCHANGED <<gen, deviceVars, flag, inbox, edits, noticed, lost>>
    \/ /\ pc[c] = "store" /\ got.ok
       /\ Switches(c, call[c].loc, call[c].guards, call[c].guards \ got.held)

\* A wait runs out.  gen3 takes silence for success.
TimesOut(c) ==
    /\ pc[c] # "idle" /\ woken = {} /\ Len(inbox) =< MaxFlight
    /\ UNCHANGED wakeVars
    /\ \/ /\ pc[c] = "edit"
          /\ MarkDirty /\ noticed' = noticed \cup {call[c].edit}
          /\ Ends(c)
          /\ UNCHANGED <<gen, deviceVars, inbox, edits, lost>>
       \/ /\ pc[c] = "where"
          /\ Ends(c)
          /\ UNCHANGED <<gen, deviceVars, flag, inbox, edits, noticed, forsaken, lost>>
       \/ pc[c] \in {"store", "save"} /\ StoreFails(c)

-----------------------------------------------------------------------------
(* What arrives. *)

Expects(c) == IF pc[c] = "where" THEN "number" ELSE "result"

\* The listener flags every broadcast; an answer resolves every wait it fits.
Deliver ==
    /\ inbox # <<>> /\ woken = {}
    /\ inbox' = Tail(inbox)
    /\ LET a == Head(inbox)
       IN  \/ /\ a.kind = "edited"
              /\ MarkDirty /\ noticed' = noticed \cup {a.edit}
              /\ UNCHANGED wakeVars
           \/ /\ a.kind # "edited"
              /\ woken' = {c \in Call : pc[c] # "idle" /\ Expects(c) = a.kind}
              /\ got' = IF woken' = {} THEN None ELSE a
              /\ UNCHANGED <<flag, noticed, forsaken>>
    /\ UNCHANGED <<gen, deviceVars, callVars, edits, lost>>

\* The calls it resolves go on one after the other, before anything else does.
Goes(c) ==
    /\ c \in woken
    /\ woken' = woken \ {c}
    /\ got' = IF woken' = {} THEN None ELSE got
    /\ Continues(c)

\* Somebody at the device turns a knob, saves, or changes the preset.
ByHand ==
    /\ woken = {} /\ Len(inbox) =< MaxFlight
    /\ \/ /\ edits < MaxEdits /\ edits' = edits + 1
          /\ Edited(edits + 1)
          /\ Says(Answer("edited", TRUE, edits + 1, None, {}))
       \/ Stored(active) /\ Quiet /\ UNCHANGED edits
       \/ \E l \in Loc : Loads(l) /\ Quiet /\ UNCHANGED edits
    /\ UNCHANGED <<gen, flag, callVars, wakeVars, noticed, forsaken, lost>>

Next ==
    \/ \E c \in Call : Begin(c) \/ Goes(c) \/ TimesOut(c)
    \/ Deliver
    \/ ByHand

Spec == Init /\ [][Next]_vars

-----------------------------------------------------------------------------
(***************************************************************************)
(* CleanMeansSafe: while the flag says clean, every edit that a client was *)
(* told of or that the device announced is saved or gone, except what went *)
(* out with a store that is not answered yet, and what a store or a switch *)
(* that failed left behind (forsaken): not when answers are late or taken  *)
(* by the wrong call, not when two calls interleave, and not when somebody *)
(* plays with the device.                                                  *)
(***************************************************************************)
CleanMeansSafe == ~flag => AtRisk \subseteq forsaken \cup Pending

(***************************************************************************)
(* NoSilentDiscard: a switch that was not told to discard edits takes none *)
(* from the buffer unsaved that was noticed before its guard began, except *)
(* what an earlier failure had left unflagged, or when it took the result  *)
(* of another store for its own.                                           *)
(***************************************************************************)
NoSilentDiscard == lost = {}

(***************************************************************************)
(* FailedStoreStaysFlagged: when a store was rejected or not answered, the *)
(* call that sent it leaves the flag set if an edit is still at risk, so   *)
(* that the gate protects it from the next navigation, as the refusal and  *)
(* the comments of save_preset say.                                        *)
(***************************************************************************)
FailedStoreStaysFlagged ==
    [][\A c \in Call :
          /\ pc[c] \in {"store", "save"} /\ pc'[c] = "idle"
          /\ c \in woken => ~got.ok
          /\ AtRisk' # {}
          => flag']_vars
=============================================================================
