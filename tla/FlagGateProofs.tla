--------------------------- MODULE FlagGateProofs ---------------------------
(***************************************************************************)
(* What TLAPS proves of FlagGate, for every number of calls, locations,    *)
(* edits and messages on their way.                                        *)
(*                                                                         *)
(* That a clean flag is safe is not inductive: a result that is accepted   *)
(* must speak for edits that are in flash, and stay there, while it waits  *)
(* in the inbox and while the calls it resolves go on one after the other. *)
(***************************************************************************)
EXTENDS FlagGate, TLAPS

\* The types of all but what woken calls share.
CoreTypes ==
    /\ gen \in Gens
    /\ active \in Loc /\ buffer \in SUBSET Edit /\ stored \in [Loc -> SUBSET Edit]
    /\ flag \in BOOLEAN
    /\ pc \in [Call -> Stages] /\ call \in [Call -> Calls]
    /\ \A c \in Call : pc[c] \in {"where", "store"} => call[c].loc \in Loc
    /\ inbox \in Seq(Answers)
    /\ edits \in 0 .. MaxEdits
    /\ noticed \in SUBSET Edit /\ forsaken \in SUBSET Edit /\ lost \in SUBSET Edit

\* Every edit that is known of has been begun.
Begun ==
    /\ noticed \subseteq 1 .. edits /\ buffer \subseteq 1 .. edits
    /\ \A l \in Loc : stored[l] \subseteq 1 .. edits
    /\ \A c \in Call : pc[c] = "edit" => call[c].edit \in 1 .. edits

\* What a store put into flash is not unsaved any more, however late its result.
Sound(a) ==
    /\ a.held \subseteq 1 .. edits /\ a.held \cap Unsaved = {}
    /\ a.kind = "edited" => a.edit \in 1 .. edits
    /\ a.kind = "number" => a.loc \in Loc

InboxSound ==
    \A a \in Answers : (\E m \in 1 .. Len(inbox) : inbox[m] = a) => Sound(a)

WokenSound ==
    \A c \in woken : pc[c] # "idle" /\ got \in Answers /\ Sound(got) /\ Expects(c) = got.kind

\* What every step of a call keeps.
Core == CoreTypes /\ Begun /\ InboxSound /\ CleanMeansSafe /\ NoSilentDiscard

IInv ==
    /\ Core
    /\ woken \in SUBSET Call /\ got \in Answers \cup {None}
    /\ WokenSound

\* Such a step leaves the other calls and the answers alone.
Steps(c) ==
    /\ Core'
    /\ \A d \in Call \ {c} : pc'[d] = pc[d]
    /\ \A a \in Answers : Sound(a) => Sound(a)'

-----------------------------------------------------------------------------
(* The device. *)

LEMMA LoadsType ==
    ASSUME CoreTypes, Begun, NEW l \in Loc, Loads(l)
    PROVE  /\ active' \in Loc /\ buffer' \in SUBSET Edit /\ stored' \in [Loc -> SUBSET Edit]
           /\ Unsaved' = {}
           /\ buffer' \subseteq 1 .. edits /\ \A k \in Loc : stored'[k] \subseteq 1 .. edits
  BY SMT DEF CoreTypes, Begun, Loads, Unsaved

LEMMA StoredType ==
    ASSUME CoreTypes, Begun, NEW l \in Loc, Stored(l)
    PROVE  /\ active' \in Loc /\ buffer' \in SUBSET Edit /\ stored' \in [Loc -> SUBSET Edit]
           /\ Unsaved' = {}
           /\ buffer' \subseteq 1 .. edits /\ \A k \in Loc : stored'[k] \subseteq 1 .. edits
<1>1. stored' \in [Loc -> SUBSET Edit] /\ stored'[l] = buffer
  BY SMT DEF CoreTypes, Stored
<1>2. \A k \in Loc : stored'[k] = stored[k] \/ stored'[k] = buffer
  BY SMT DEF CoreTypes, Stored
<1>3. active' \in Loc /\ buffer' \in SUBSET Edit /\ buffer' \subseteq 1 .. edits
  BY DEF CoreTypes, Begun, Stored
<1>4. Unsaved' = {}
  BY <1>1 DEF Stored, Unsaved
<1>5. \A k \in Loc : stored'[k] \subseteq 1 .. edits
  BY <1>2 DEF Begun
<1> QED
  BY <1>1, <1>3, <1>4, <1>5

LEMMA EditedType ==
    ASSUME CoreTypes, Begun, edits < MaxEdits, Edited(edits + 1)
    PROVE  /\ active' \in Loc /\ buffer' \in SUBSET Edit /\ stored' \in [Loc -> SUBSET Edit]
           /\ Unsaved' \subseteq Unsaved \cup {edits + 1}
           /\ buffer' \subseteq 1 .. edits + 1 /\ \A k \in Loc : stored'[k] \subseteq 1 .. edits + 1
           /\ edits + 1 \in Edit
  BY BoundsAssumption, SMT DEF CoreTypes, Begun, Edited, Unsaved, Edit

\* An answer stays sound if nothing old becomes unsaved.
LEMMA SoundStays ==
    ASSUME edits \in Nat, edits' \in {edits, edits + 1},
           Unsaved' \subseteq Unsaved \cup {edits + 1}
    PROVE  \A a : Sound(a) => Sound(a)'
  BY SMT DEF Sound

LEMMA InboxStays ==
    ASSUME InboxSound, \A a : Sound(a) => Sound(a)', inbox' = inbox
    PROVE  InboxSound'
  BY DEF InboxSound

LEMMA SaysType ==
    ASSUME inbox \in Seq(Answers), InboxSound, \A a : Sound(a) => Sound(a)',
           NEW b \in Answers, Sound(b)', Says(b)
    PROVE  inbox' \in Seq(Answers) /\ InboxSound'
<1>1. /\ inbox' \in Seq(Answers)
      /\ Len(inbox') = Len(inbox) + 1
      /\ \A m \in 1 .. Len(inbox) : inbox'[m] = inbox[m]
      /\ inbox'[Len(inbox')] = b
  BY SMT DEF Says
<1>2. \A m \in 1 .. Len(inbox') : (m \in 1 .. Len(inbox) /\ inbox'[m] = inbox[m]) \/ inbox'[m] = b
  BY <1>1, SMT
<1>3. ASSUME NEW a \in Answers, NEW m \in 1 .. Len(inbox'), inbox'[m] = a
      PROVE  Sound(a)'
  <2>1. CASE m \in 1 .. Len(inbox) /\ inbox'[m] = inbox[m]
    BY <1>3, <2>1 DEF InboxSound
  <2>2. CASE inbox'[m] = b
    BY <1>3, <2>2
  <2> QED
    BY <1>2, <2>1, <2>2
<1> QED
  BY <1>1, <1>3 DEF InboxSound

LEMMA AnswerType ==
    ASSUME NEW k \in {"edited", "number", "result"}, NEW ok \in BOOLEAN,
           NEW e \in 0 .. MaxEdits, NEW l \in Loc \cup {None}, NEW h \in SUBSET Edit
    PROVE  LET a == Answer(k, ok, e, l, h)
           IN  a \in Answers /\ a.kind = k /\ a.ok = ok /\ a.edit = e /\ a.loc = l /\ a.held = h
  BY SMT DEF Answer, Answers

\* An answer that speaks for no store.
LEMMA PlainSound ==
    ASSUME NEW k \in {"edited", "number", "result"}, NEW ok \in BOOLEAN,
           NEW e \in 0 .. MaxEdits, NEW l \in Loc \cup {None},
           k = "edited" => e \in 1 .. edits', k = "number" => l \in Loc
    PROVE  Answer(k, ok, e, l, {}) \in Answers /\ Sound(Answer(k, ok, e, l, {}))'
  BY AnswerType, SMT DEF Sound

-----------------------------------------------------------------------------
(* The calls. *)

LEMMA WaitsType ==
    ASSUME CoreTypes, NEW c \in Call, NEW stage \in Stages, NEW k \in Calls,
           stage \in {"where", "store"} => k.loc \in Loc, Waits(c, stage, k)
    PROVE  /\ pc' \in [Call -> Stages] /\ call' \in [Call -> Calls]
           /\ \A d \in Call : pc'[d] \in {"where", "store"} => call'[d].loc \in Loc
           /\ pc'[c] = stage /\ call'[c] = k
           /\ \A d \in Call \ {c} : pc'[d] = pc[d] /\ call'[d] = call[d]
  BY SMT DEF CoreTypes, Waits

LEMMA NoCallType == NoCall \in Calls
  BY BoundsAssumption, SMT DEF NoCall, Calls, Edit

LEMMA EndsType ==
    ASSUME CoreTypes, NEW c \in Call, Ends(c)
    PROVE  /\ pc' \in [Call -> Stages] /\ call' \in [Call -> Calls]
           /\ \A d \in Call : pc'[d] \in {"where", "store"} => call'[d].loc \in Loc
           /\ pc'[c] = "idle"
           /\ \A d \in Call \ {c} : pc'[d] = pc[d] /\ call'[d] = call[d]
  BY WaitsType, NoCallType DEF Ends, Stages

\* What other calls sent to flash is still on its way.
LEMMA PendingStays ==
    ASSUME NEW c \in Call, pc \in [Call -> Stages],
           \A d \in Call \ {c} : pc'[d] = pc[d] /\ call'[d] = call[d]
    PROVE  /\ Pending \subseteq Pending' \cup call[c].covers
           /\ pc[c] \notin {"store", "save"} => Pending \subseteq Pending'
           /\ pc'[c] \in {"store", "save"} => call'[c].covers \subseteq Pending'
  BY DEF Pending

LEMMA SwitchesSteps ==
    ASSUME Core, NEW c \in Call, NEW l \in Loc, NEW guards, NEW excused,
           ((guards \cap Unsaved) \ stored[l]) \subseteq excused,
           Switches(c, l, guards, excused)
    PROVE  Steps(c)
<1>1. Ends(c) /\ UNCHANGED <<gen, inbox, edits, noticed>>
  BY DEF Switches
<1>2. /\ pc' \in [Call -> Stages] /\ call' \in [Call -> Calls]
      /\ \A d \in Call : pc'[d] \in {"where", "store"} => call'[d].loc \in Loc
      /\ pc'[c] = "idle"
      /\ \A d \in Call \ {c} : pc'[d] = pc[d] /\ call'[d] = call[d]
  BY <1>1, EndsType DEF Core
<1>3. CASE CleanedInVain /\ UNCHANGED <<deviceVars, lost>>
  <2>1. Unsaved' = Unsaved /\ AtRisk' = AtRisk
    BY <1>1, <1>3 DEF Unsaved, AtRisk, deviceVars
  <2>2. \A a : Sound(a) => Sound(a)'
    BY <1>1, <2>1, SoundStays DEF Core, CoreTypes
  <2>3. InboxSound'
    BY <1>1, <2>2, InboxStays DEF Core
  <2>4. forsaken' \in SUBSET Edit /\ flag' = FALSE /\ AtRisk' \subseteq forsaken'
    BY <1>3, <2>1 DEF CleanedInVain, AtRisk, Core, CoreTypes
  <2>5. CoreTypes' /\ Begun'
    BY <1>1, <1>2, <1>3, <2>4 DEF Core, CoreTypes, Begun, deviceVars
  <2>6. CleanMeansSafe' /\ NoSilentDiscard'
    BY <1>3, <2>4 DEF Core, CleanMeansSafe, NoSilentDiscard
  <2> QED
    BY <1>2, <2>2, <2>3, <2>5, <2>6 DEF Core, Steps
<1>4. CASE MarkClean /\ Loads(l)
  <2>1. /\ active' \in Loc /\ buffer' \in SUBSET Edit /\ stored' \in [Loc -> SUBSET Edit]
        /\ Unsaved' = {}
        /\ buffer' \subseteq 1 .. edits /\ \A k \in Loc : stored'[k] \subseteq 1 .. edits
    BY <1>4, LoadsType DEF Core
  <2>2. \A a : Sound(a) => Sound(a)'
    BY <1>1, <2>1, SoundStays DEF Core, CoreTypes
  <2>3. InboxSound'
    BY <1>1, <2>2, InboxStays DEF Core
  <2>4. lost' = {}
    <3>1. lost' = lost \cup (((guards \cap Unsaved) \ stored[l]) \ excused) \/ lost' = lost
      BY <1>4 DEF Switches
    <3> QED
      BY <3>1 DEF Core, NoSilentDiscard
  <2>5. CoreTypes' /\ Begun'
    BY <1>1, <1>2, <1>4, <2>1, <2>4 DEF Core, CoreTypes, Begun, MarkClean
  <2>6. CleanMeansSafe' /\ NoSilentDiscard'
    BY <2>1, <2>4 DEF CleanMeansSafe, AtRisk, NoSilentDiscard
  <2> QED
    BY <1>2, <2>2, <2>3, <2>5, <2>6 DEF Core, Steps
<1> QED
  BY <1>3, <1>4 DEF Switches

LEMMA CoversType ==
    ASSUME NEW k \in Calls, NEW s \in SUBSET Edit
    PROVE  LET j == [k EXCEPT !.covers = s]
           IN  j \in Calls /\ j.covers = s /\ j.loc = k.loc
  BY SMT DEF Calls

LEMMA ZeroIsEdit == 0 \in 0 .. MaxEdits
  BY BoundsAssumption, SMT

LEMMA StoresSteps ==
    ASSUME Core, NEW c \in Call, NEW stage \in {"store", "save"}, NEW l \in Loc,
           NEW k \in Calls, stage = "store" => k.loc \in Loc, Stores(c, stage, l, k)
    PROVE  Steps(c)
<1> DEFINE j == [k EXCEPT !.covers = AtRisk]
<1>1. UNCHANGED <<gen, edits, noticed, lost>>
  BY DEF Stores
<1>2. j \in Calls /\ j.covers = AtRisk /\ j.loc = k.loc
  BY CoversType DEF AtRisk, Core, CoreTypes
<1>3. CASE CleanedInVain /\ Ends(c) /\ Quiet /\ UNCHANGED deviceVars
  <2>1. Unsaved' = Unsaved /\ AtRisk' = AtRisk
    BY <1>1, <1>3 DEF Unsaved, AtRisk, deviceVars
  <2>2. \A a : Sound(a) => Sound(a)'
    BY <1>1, <2>1, SoundStays DEF Core, CoreTypes
  <2>3. InboxSound'
    BY <1>3, <2>2, InboxStays DEF Core, Quiet
  <2>4. forsaken' \in SUBSET Edit /\ flag' = FALSE /\ AtRisk' \subseteq forsaken'
    BY <1>3, <2>1 DEF CleanedInVain, AtRisk, Core, CoreTypes
  <2>a. /\ pc' \in [Call -> Stages] /\ call' \in [Call -> Calls]
        /\ \A d \in Call : pc'[d] \in {"where", "store"} => call'[d].loc \in Loc
        /\ pc'[c] = "idle"
        /\ \A d \in Call \ {c} : pc'[d] = pc[d] /\ call'[d] = call[d]
    BY <1>3, EndsType DEF Core
  <2>5. CoreTypes' /\ Begun'
    BY <1>1, <1>3, <2>4, <2>a DEF Core, CoreTypes, Begun, deviceVars, Quiet
  <2>6. CleanMeansSafe' /\ NoSilentDiscard'
    BY <1>1, <2>4 DEF Core, CleanMeansSafe, NoSilentDiscard
  <2> QED
    BY <2>2, <2>3, <2>5, <2>6, <2>a DEF Core, Steps
<1>4. CASE MarkClean /\ Waits(c, stage, j)
  <2>1. /\ pc' \in [Call -> Stages] /\ call' \in [Call -> Calls]
        /\ \A d \in Call : pc'[d] \in {"where", "store"} => call'[d].loc \in Loc
        /\ pc'[c] = stage /\ call'[c] = j
        /\ \A d \in Call \ {c} : pc'[d] = pc[d] /\ call'[d] = call[d]
    <3> HIDE DEF j
    <3> QED
      BY <1>2, <1>4, WaitsType DEF Core, Stages
  <2>2. /\ active' \in Loc /\ buffer' \in SUBSET Edit /\ stored' \in [Loc -> SUBSET Edit]
        /\ Unsaved' \subseteq Unsaved
        /\ buffer' \subseteq 1 .. edits /\ \A m \in Loc : stored'[m] \subseteq 1 .. edits
    <3>1. CASE UNCHANGED deviceVars
      BY <3>1 DEF deviceVars, Unsaved, Core, CoreTypes, Begun
    <3>2. CASE Stored(l)
      BY <3>2, StoredType DEF Core
    <3>3. CASE CleanedInVain /\ Ends(c) /\ Quiet /\ UNCHANGED deviceVars
      BY <3>1, <3>3
    <3> QED
      BY <3>1, <3>2, <3>3 DEF Stores
  <2>3. \A a : Sound(a) => Sound(a)'
    BY <1>1, <2>2, SoundStays DEF Core, CoreTypes
  <2>4. inbox' \in Seq(Answers) /\ InboxSound'
    <3>1. CASE Quiet
      BY <2>3, <3>1, InboxStays DEF Core, CoreTypes, Quiet
    <3>2. CASE Says(Answer("result", FALSE, 0, None, {}))
      <4>1. Answer("result", FALSE, 0, None, {}) \in Answers
            /\ Sound(Answer("result", FALSE, 0, None, {}))'
        BY PlainSound, ZeroIsEdit
      <4> QED
        BY <2>3, <3>2, <4>1, SaysType DEF Core, CoreTypes
    <3>3. CASE Stored(l) /\ Says(Answer("result", TRUE, 0, None, buffer))
      <4> DEFINE b == Answer("result", TRUE, 0, None, buffer)
      <4>0. buffer \in SUBSET Edit /\ TRUE \in BOOLEAN
        BY DEF Core, CoreTypes
      <4>1. b \in Answers /\ b.held = buffer /\ b.kind = "result"
        BY <4>0, ZeroIsEdit, SMT DEF Answer, Answers
      <4>2. Unsaved' = {} /\ buffer \subseteq 1 .. edits'
        BY <1>1, <3>3, StoredType DEF Core, Begun
      <4> HIDE DEF b
      <4>3. PICK a \in Answers : a = b
        BY <4>1
      <4>4. Sound(a)'
        BY <4>1, <4>2, <4>3 DEF Sound
      <4> QED
        BY <2>3, <3>3, <4>3, <4>4, SaysType DEF b, Core, CoreTypes
    <3> QED
      BY <3>1, <3>2, <3>3 DEF Stores
  <2>5. CoreTypes'
    BY <1>1, <1>4, <2>1, <2>2, <2>4 DEF Core, CoreTypes, MarkClean
  <2>6. Begun'
    BY <1>1, <2>1, <2>2 DEF Core, Begun
  <2>7. CleanMeansSafe'
    <3>1. AtRisk' \subseteq AtRisk
      BY <1>1, <2>2 DEF AtRisk
    <3>2. AtRisk \subseteq Pending'
      BY <1>2, <2>1 DEF Pending
    <3> QED
      BY <3>1, <3>2 DEF CleanMeansSafe
  <2>8. NoSilentDiscard'
    BY <1>1 DEF Core, NoSilentDiscard
  <2> QED
    BY <2>1, <2>3, <2>4, <2>5, <2>6, <2>7, <2>8 DEF Core, Steps
<1> QED
  BY <1>3, <1>4 DEF Stores

\* A step of a call that neither touches the device nor clears the flag.
LEMMA EndsSteps ==
    ASSUME Core, NEW c \in Call, Ends(c),
           UNCHANGED <<gen, deviceVars, inbox, lost, edits>>,
           flag' \in BOOLEAN, noticed' \subseteq 1 .. edits, forsaken' \in SUBSET Edit,
           flag' \/ (noticed' = noticed /\ flag' = flag /\ forsaken \subseteq forsaken'
                     /\ (pc[c] \in {"store", "save"} =>
                           call[c].covers \cap Unsaved \subseteq forsaken'))
    PROVE  Steps(c)
<1>1. /\ pc' \in [Call -> Stages] /\ call' \in [Call -> Calls]
      /\ \A d \in Call : pc'[d] \in {"where", "store"} => call'[d].loc \in Loc
      /\ pc'[c] = "idle"
      /\ \A d \in Call \ {c} : pc'[d] = pc[d] /\ call'[d] = call[d]
  BY EndsType DEF Core
<1>2. Unsaved' = Unsaved
  BY DEF Unsaved, deviceVars
<1>3. \A a : Sound(a) => Sound(a)'
  BY <1>2, SoundStays DEF Core, CoreTypes
<1>4. InboxSound'
  BY <1>3, InboxStays DEF Core
<1>5. noticed' \in SUBSET Edit
  BY BoundsAssumption, SMT DEF Core, CoreTypes, Edit
<1>6. CoreTypes' /\ Begun'
  BY <1>1, <1>5 DEF Core, CoreTypes, Begun, deviceVars
<1>7. CleanMeansSafe'
  <2> SUFFICES ASSUME ~flag' PROVE AtRisk' \subseteq forsaken' \cup Pending'
    BY DEF CleanMeansSafe
  <2>1. AtRisk' = AtRisk /\ AtRisk \subseteq forsaken \cup Pending
    BY <1>2 DEF AtRisk, CleanMeansSafe, Core
  <2>2. Pending \subseteq Pending' \cup call[c].covers
    BY <1>1, PendingStays DEF Core, CoreTypes
  <2>3. pc[c] \notin {"store", "save"} => Pending \subseteq Pending'
    BY <1>1, PendingStays DEF Core, CoreTypes
  <2> QED
    BY <2>1, <2>2, <2>3 DEF AtRisk
<1>8. NoSilentDiscard'
  BY DEF Core, NoSilentDiscard
<1> QED
  BY <1>1, <1>3, <1>4, <1>6, <1>7, <1>8 DEF Core, Steps

LEMMA CoversOf ==
    ASSUME NEW k \in Calls PROVE k.covers \in SUBSET Edit /\ k.guards \in SUBSET Edit
  BY DEF Calls

LEMMA StoreFailsSteps ==
    ASSUME Core, NEW c \in Call, pc[c] \in {"store", "save"}, StoreFails(c)
    PROVE  Steps(c)
<1>1. call[c].covers \in SUBSET Edit
  BY CoversOf DEF Core, CoreTypes
<1>2. Ends(c) /\ UNCHANGED <<gen, deviceVars, inbox, lost, edits>> /\ noticed' = noticed
  BY DEF StoreFails
<1>3. noticed' \subseteq 1 .. edits
  BY <1>2 DEF Core, Begun
<1>4. CASE MarkDirty
  BY <1>2, <1>3, <1>4, EndsSteps DEF MarkDirty
<1>5. CASE forsaken' = forsaken \cup call[c].covers /\ UNCHANGED flag
  <2>1. forsaken' \in SUBSET Edit /\ flag' \in BOOLEAN
    BY <1>1, <1>5 DEF Core, CoreTypes
  <2> QED
    BY <1>2, <1>3, <1>5, <2>1, EndsSteps
<1> QED
  BY <1>4, <1>5 DEF StoreFails

LEMMA NoticesSteps ==
    ASSUME Core, NEW c \in Call, pc[c] = "edit",
           MarkDirty, noticed' = noticed \cup {call[c].edit}, Ends(c),
           UNCHANGED <<gen, deviceVars, inbox, edits, lost>>
    PROVE  Steps(c)
<1>1. noticed' \subseteq 1 .. edits
  BY DEF Core, Begun
<1> QED
  BY <1>1, EndsSteps DEF MarkDirty

LEMMA ContinuesSteps ==
    ASSUME Core, NEW c \in Call, pc[c] # "idle", got \in Answers, Sound(got),
           Expects(c) = got.kind, Continues(c)
    PROVE  Steps(c)
<1>1. CASE pc[c] = "edit"
  BY <1>1, NoticesSteps DEF Continues
<1>2. CASE pc[c] = "where"
  <2>1. Stores(c, "store", got.loc, call[c]) /\ got.loc \in Loc
    BY <1>2 DEF Continues, Sound, Expects
  <2>2. call[c] \in Calls /\ call[c].loc \in Loc
    BY <1>2 DEF Core, CoreTypes
  <2> QED
    BY <2>1, <2>2, StoresSteps
<1>3. CASE pc[c] \in {"store", "save"} /\ StoreFails(c)
  BY <1>3, StoreFailsSteps
<1>4. CASE pc[c] = "save" /\ got.ok /\ ~StoreFails(c)
  <2>1. /\ forsaken' = forsaken \cup Unspoken(c)
        /\ Ends(c)
        /\ UNCHANGED <<gen, deviceVars, flag, inbox, edits, noticed, lost>>
    BY <1>4 DEF Continues
  <2>2. call[c].covers \in SUBSET Edit
    BY CoversOf DEF Core, CoreTypes
  <2>3. forsaken' \in SUBSET Edit /\ flag' \in BOOLEAN /\ noticed' \subseteq 1 .. edits
    BY <2>1, <2>2 DEF Unspoken, Core, CoreTypes, Begun
  <2>4. call[c].covers \cap Unsaved \subseteq forsaken'
    BY <2>1 DEF Unspoken, Sound
  <2> QED
    BY <2>1, <2>3, <2>4, EndsSteps
<1>5. CASE pc[c] = "store" /\ got.ok /\ ~StoreFails(c)
  <2>1. Switches(c, call[c].loc, call[c].guards, call[c].guards \ got.held)
    BY <1>5 DEF Continues
  <2>2. call[c].loc \in Loc
    BY <1>5 DEF Core, CoreTypes
  <2>3. (call[c].guards \cap Unsaved) \ stored[call[c].loc] \subseteq call[c].guards \ got.held
    BY DEF Sound
  <2> QED
    BY <2>1, <2>2, <2>3, SwitchesSteps
<1> QED
  BY <1>1, <1>2, <1>3, <1>4, <1>5 DEF Continues
-----------------------------------------------------------------------------
(* A call begins. *)

\* A step that clears no flag and makes no old edit unsaved.
LEMMA KeepsSafe ==
    ASSUME Core, NEW c \in Call, pc[c] = "idle",
           \A d \in Call \ {c} : pc'[d] = pc[d] /\ call'[d] = call[d],
           flag' = flag, forsaken' = forsaken, noticed' = noticed, edits' \in {edits, edits + 1},
           Unsaved' \subseteq Unsaved \cup {edits + 1}
    PROVE  CleanMeansSafe'
<1>1. edits + 1 \notin noticed
  BY SMT DEF Core, CoreTypes, Begun
<1>2. AtRisk' \subseteq AtRisk
  BY <1>1 DEF AtRisk
<1>3. Pending \subseteq Pending'
  BY PendingStays DEF Core, CoreTypes
<1> QED
  BY <1>2, <1>3 DEF CleanMeansSafe, Core

\* It makes an edit, or none.
LEMMA EditStep ==
    ASSUME CoreTypes, Begun, edits < MaxEdits, edits' = edits + 1,
           UNCHANGED deviceVars \/ Edited(edits + 1)
    PROVE  /\ edits' \in 0 .. MaxEdits /\ edits' \in Edit /\ edits' \in 1 .. edits'
           /\ edits \in Nat /\ 1 .. edits \subseteq 1 .. edits'
           /\ active' \in Loc /\ buffer' \in SUBSET Edit /\ stored' \in [Loc -> SUBSET Edit]
           /\ Unsaved' \subseteq Unsaved \cup {edits + 1}
           /\ buffer' \subseteq 1 .. edits' /\ \A k \in Loc : stored'[k] \subseteq 1 .. edits'
<1>1. /\ edits' \in 0 .. MaxEdits /\ edits' \in Edit /\ edits' \in 1 .. edits'
      /\ edits \in Nat /\ 1 .. edits \subseteq 1 .. edits'
  BY BoundsAssumption, SMT DEF CoreTypes, Edit
<1>2. CASE UNCHANGED deviceVars
  BY <1>1, <1>2 DEF deviceVars, Unsaved, CoreTypes, Begun
<1>3. CASE Edited(edits + 1)
  BY <1>1, <1>3, EditedType
<1> QED
  BY <1>2, <1>3

LEMMA SetParam2Steps ==
    ASSUME Core, NEW c \in Call, edits < MaxEdits, SetParam2(c)
    PROVE  Core'
<1>1. /\ MarkDirty /\ edits' = edits + 1 /\ UNCHANGED <<gen, callVars, lost>>
      /\ UNCHANGED deviceVars \/ Edited(edits + 1)
      /\ noticed' = noticed \/ noticed' = noticed \cup {edits'}
  BY DEF SetParam2
<1>2. /\ edits' \in 0 .. MaxEdits /\ edits' \in Edit /\ edits' \in 1 .. edits'
      /\ edits \in Nat /\ 1 .. edits \subseteq 1 .. edits'
      /\ active' \in Loc /\ buffer' \in SUBSET Edit /\ stored' \in [Loc -> SUBSET Edit]
      /\ Unsaved' \subseteq Unsaved \cup {edits + 1}
      /\ buffer' \subseteq 1 .. edits' /\ \A k \in Loc : stored'[k] \subseteq 1 .. edits'
  BY <1>1, EditStep DEF Core
<1>3. \A a : Sound(a) => Sound(a)'
  BY <1>1, <1>2, SoundStays
<1>4. inbox' \in Seq(Answers) /\ InboxSound'
  <2>1. CASE Quiet
    BY <1>3, <2>1, InboxStays DEF Core, CoreTypes, Quiet
  <2>2. PICK e \in 0 .. MaxEdits : e = edits + 1
    BY <1>1, <1>2
  <2>3. CASE Says(Answer("edited", TRUE, e, None, {}))
    <3>1. Answer("edited", TRUE, e, None, {}) \in Answers
          /\ Sound(Answer("edited", TRUE, e, None, {}))'
      BY <1>1, <1>2, <2>2, PlainSound
    <3> QED
      BY <1>3, <2>3, <3>1, SaysType DEF Core, CoreTypes
  <2> QED
    BY <2>1, <2>2, <2>3 DEF SetParam2, Quiet
<1>5. noticed' \in SUBSET Edit /\ noticed' \subseteq 1 .. edits'
  BY <1>1, <1>2 DEF Core, CoreTypes, Begun
<1>6. CoreTypes'
  BY <1>1, <1>2, <1>4, <1>5 DEF Core, CoreTypes, MarkDirty, callVars
<1>7. Begun'
  BY <1>1, <1>2, <1>5 DEF Core, Begun, callVars
<1>8. CleanMeansSafe' /\ NoSilentDiscard'
  BY <1>1 DEF MarkDirty, CleanMeansSafe, NoSilentDiscard, Core
<1> QED
  BY <1>4, <1>6, <1>7, <1>8 DEF Core
LEMMA SetParam3Steps ==
    ASSUME Core, NEW c \in Call, pc[c] = "idle", edits < MaxEdits, SetParam3(c)
    PROVE  Core'
<1>1. /\ edits' = edits + 1
      /\ UNCHANGED <<gen, flag, noticed, forsaken, lost>>
      /\ UNCHANGED deviceVars \/ Edited(edits + 1)
  BY DEF SetParam3
<1>2. /\ edits' \in 0 .. MaxEdits /\ edits' \in Edit /\ edits' \in 1 .. edits'
      /\ edits \in Nat /\ 1 .. edits \subseteq 1 .. edits'
      /\ active' \in Loc /\ buffer' \in SUBSET Edit /\ stored' \in [Loc -> SUBSET Edit]
      /\ Unsaved' \subseteq Unsaved \cup {edits + 1}
      /\ buffer' \subseteq 1 .. edits' /\ \A k \in Loc : stored'[k] \subseteq 1 .. edits'
  BY <1>1, EditStep DEF Core
<1>3. \A a : Sound(a) => Sound(a)'
  BY <1>1, <1>2, SoundStays
<1> DEFINE k == [NoCall EXCEPT !.edit = edits + 1]
<1>4. k \in Calls /\ k.edit = edits'
  BY <1>1, <1>2, NoCallType, SMT DEF NoCall, Calls
<1>5. Waits(c, "edit", k)
  BY DEF SetParam3
<1> HIDE DEF k
<1>6. /\ pc' \in [Call -> Stages] /\ call' \in [Call -> Calls]
      /\ \A d \in Call : pc'[d] \in {"where", "store"} => call'[d].loc \in Loc
      /\ pc'[c] = "edit" /\ call'[c] = k
      /\ \A d \in Call \ {c} : pc'[d] = pc[d] /\ call'[d] = call[d]
  BY <1>4, <1>5, WaitsType DEF Core, Stages
<1>7. inbox' \in Seq(Answers) /\ InboxSound'
  <2>1. CASE Quiet
    BY <1>3, <2>1, InboxStays DEF Core, CoreTypes, Quiet
  <2>2. CASE Says(Answer("result", FALSE, 0, None, {}))
    BY <1>3, <2>2, PlainSound, ZeroIsEdit, SaysType DEF Core, CoreTypes
  <2> QED
    BY <2>1, <2>2 DEF SetParam3
<1>8. CoreTypes'
  BY <1>1, <1>2, <1>6, <1>7 DEF Core, CoreTypes
<1>9. Begun'
  BY <1>1, <1>2, <1>4, <1>6 DEF Core, Begun
<1>10. CleanMeansSafe'
  BY <1>1, <1>2, <1>6, KeepsSafe
<1> QED
  BY <1>1, <1>7, <1>8, <1>9, <1>10 DEF Core, NoSilentDiscard

LEMMA TargetType ==
    ASSUME NEW l \in Loc, NEW guards \in SUBSET Edit
    PROVE  Target(l, guards) \in Calls /\ Target(l, guards).loc = l
<1> DEFINE i == [NoCall EXCEPT !.loc = l]
           j == [i EXCEPT !.guards = guards]
<1>1. \A k \in Calls : [k EXCEPT !.loc = l] \in Calls /\ [k EXCEPT !.loc = l].loc = l
  BY SMT DEF Calls
<1>2. i \in Calls /\ i.loc = l
  BY <1>1, NoCallType
<1>3. \A k \in Calls : [k EXCEPT !.guards = guards] \in Calls
                      /\ [k EXCEPT !.guards = guards].loc = k.loc
  BY SMT DEF Calls
<1> HIDE DEF i
<1>4. j \in Calls /\ j.loc = l
  BY <1>2, <1>3
<1> QED
  BY <1>4 DEF i, Target

LEMMA SwitchPresetSteps ==
    ASSUME Core, NEW c \in Call, pc[c] = "idle", NEW mode, NEW l \in Loc,
           SwitchPreset(c, mode, l)
    PROVE  Core'
<1> DEFINE guards == IF mode = "discard" THEN {} ELSE AtRisk
<1>1. guards \in SUBSET Edit
  BY DEF AtRisk, Core, CoreTypes
<1>2. CASE Passes(mode) /\ Switches(c, l, guards, forsaken \cup Pending)
  <2>1. guards \subseteq forsaken \cup Pending
    BY <1>2 DEF Passes, CleanMeansSafe, Core
  <2> HIDE DEF guards
  <2>2. (guards \cap Unsaved) \ stored[l] \subseteq forsaken \cup Pending
    BY <2>1
  <2>3. Steps(c)
    BY <1>2, <2>2, SwitchesSteps
  <2> QED
    BY <2>3 DEF Steps
<1>3. CASE /\ Waits(c, "where", Target(l, guards))
           /\ Quiet \/ Says(Answer("number", TRUE, 0, active, {}))
           /\ UNCHANGED <<gen, deviceVars, flag, edits, noticed, forsaken, lost>>
  <2> HIDE DEF guards
  <2>1. Target(l, guards) \in Calls /\ Target(l, guards).loc = l
    BY <1>1, TargetType
  <2>2. /\ pc' \in [Call -> Stages] /\ call' \in [Call -> Calls]
        /\ \A d \in Call : pc'[d] \in {"where", "store"} => call'[d].loc \in Loc
        /\ pc'[c] = "where"
        /\ \A d \in Call \ {c} : pc'[d] = pc[d] /\ call'[d] = call[d]
    BY <1>3, <2>1, WaitsType DEF Core, Stages
  <2>3. Unsaved' = Unsaved
    BY <1>3 DEF Unsaved, deviceVars
  <2>4. \A a : Sound(a) => Sound(a)'
    BY <1>3, <2>3, SoundStays DEF Core, CoreTypes
  <2>5. inbox' \in Seq(Answers) /\ InboxSound'
    <3>1. CASE Quiet
      BY <2>4, <3>1, InboxStays DEF Core, CoreTypes, Quiet
    <3>2. PICK where \in Loc : where = active
      BY DEF Core, CoreTypes
    <3>3. CASE Says(Answer("number", TRUE, 0, where, {}))
      <4>1. Answer("number", TRUE, 0, where, {}) \in Answers
            /\ Sound(Answer("number", TRUE, 0, where, {}))'
        BY PlainSound, ZeroIsEdit
      <4> QED
        BY <2>4, <3>3, <4>1, SaysType DEF Core, CoreTypes
    <3> QED
      BY <1>3, <3>1, <3>2, <3>3
  <2>6. CoreTypes' /\ Begun'
    BY <1>3, <2>2, <2>5 DEF Core, CoreTypes, Begun, deviceVars
  <2>7. CleanMeansSafe'
    BY <1>3, <2>2, <2>3, KeepsSafe
  <2> QED
    BY <1>3, <2>5, <2>6, <2>7 DEF Core, NoSilentDiscard
<1> QED
  BY <1>2, <1>3 DEF SwitchPreset

LEMMA BeginSteps ==
    ASSUME IInv, NEW c \in Call, Begin(c)
    PROVE  IInv'
<1>1. pc[c] = "idle" /\ woken = {} /\ UNCHANGED wakeVars
  BY DEF Begin, Idle
<1>2. Core'
  <2>1. CASE edits < MaxEdits /\ (SetParam2(c) \/ SetParam3(c))
    BY <1>1, <2>1, SetParam2Steps, SetParam3Steps DEF IInv
  <2>2. CASE \E l \in Loc : Stores(c, "save", l, NoCall)
    BY <2>2, NoCallType, StoresSteps DEF IInv, Steps
  <2>3. CASE \E m \in Modes, l \in Loc : SwitchPreset(c, m, l)
    BY <1>1, <2>3, SwitchPresetSteps DEF IInv
  <2> QED
    BY <2>1, <2>2, <2>3 DEF Begin
<1> QED
  BY <1>1, <1>2 DEF IInv, WokenSound, wakeVars

-----------------------------------------------------------------------------
(* Answers arrive, or do not. *)

LEMMA TimesOutSteps ==
    ASSUME IInv, NEW c \in Call, TimesOut(c)
    PROVE  IInv'
<1>1. woken = {} /\ UNCHANGED wakeVars
  BY DEF TimesOut
<1>2. CASE /\ pc[c] = "edit"
           /\ MarkDirty /\ noticed' = noticed \cup {call[c].edit}
           /\ Ends(c)
           /\ UNCHANGED <<gen, deviceVars, inbox, edits, lost>>
  BY <1>1, <1>2, NoticesSteps DEF IInv, Steps, WokenSound, wakeVars
<1>3. CASE /\ pc[c] = "where"
           /\ Ends(c)
           /\ UNCHANGED <<gen, deviceVars, flag, inbox, edits, noticed, forsaken, lost>>
  <2>1. flag' \in BOOLEAN /\ noticed' \subseteq 1 .. edits /\ forsaken' \in SUBSET Edit
    BY <1>3 DEF IInv, Core, CoreTypes, Begun
  <2>2. Steps(c)
    BY <1>3, <2>1, EndsSteps DEF IInv
  <2> QED
    BY <1>1, <2>2 DEF IInv, Steps, WokenSound, wakeVars
<1>4. CASE pc[c] \in {"store", "save"} /\ StoreFails(c)
  BY <1>1, <1>4, StoreFailsSteps DEF IInv, Steps, WokenSound, wakeVars
<1> QED
  BY <1>2, <1>3, <1>4 DEF TimesOut

LEMMA GoesSteps ==
    ASSUME IInv, NEW c \in Call, Goes(c)
    PROVE  IInv'
<1>1. /\ c \in woken /\ woken' = woken \ {c} /\ Continues(c)
      /\ got' = IF woken' = {} THEN None ELSE got
  BY DEF Goes
<1>2. pc[c] # "idle" /\ got \in Answers /\ Sound(got) /\ Expects(c) = got.kind
  BY <1>1 DEF IInv, WokenSound
<1>3. Steps(c)
  BY <1>1, <1>2, ContinuesSteps DEF IInv
<1>4. PICK a \in Answers : a = got
  BY <1>2
<1>5. Sound(a)'
  BY <1>2, <1>3, <1>4 DEF Steps
<1>6. ASSUME NEW d \in woken'
      PROVE  (pc[d] # "idle" /\ got \in Answers /\ Sound(got) /\ Expects(d) = got.kind)'
  <2>1. d \in woken /\ d \in Call \ {c} /\ got' = a
    BY <1>1, <1>4 DEF IInv
  <2>2. pc'[d] = pc[d] /\ pc[d] # "idle" /\ Expects(d) = a.kind
    BY <1>3, <1>4, <2>1 DEF Steps, IInv, WokenSound
  <2> QED
    BY <1>5, <2>1, <2>2 DEF Expects
<1>7. woken' \in SUBSET Call /\ got' \in Answers \cup {None}
  BY <1>1 DEF IInv
<1> QED
  BY <1>3, <1>6, <1>7 DEF IInv, Steps, WokenSound

LEMMA TailType ==
    ASSUME NEW s \in Seq(Answers), s # <<>>
    PROVE  /\ Head(s) \in Answers /\ Tail(s) \in Seq(Answers)
           /\ \E m \in 1 .. Len(s) : s[m] = Head(s)
           /\ \A m \in 1 .. Len(Tail(s)) : m + 1 \in 1 .. Len(s) /\ Tail(s)[m] = s[m + 1]
  BY SMT

LEMMA DeliverSteps ==
    ASSUME IInv, Deliver
    PROVE  IInv'
<1>1. /\ inbox # <<>> /\ woken = {} /\ inbox' = Tail(inbox)
      /\ UNCHANGED <<gen, deviceVars, callVars, edits, lost>>
  BY DEF Deliver
<1>2. inbox \in Seq(Answers)
  BY DEF IInv, Core, CoreTypes
<1>3. PICK a \in Answers : a = Head(inbox)
  BY <1>1, <1>2, TailType
<1>4. Sound(a) /\ inbox' \in Seq(Answers)
  BY <1>1, <1>2, <1>3, TailType DEF IInv, Core, InboxSound
<1>5. Unsaved' = Unsaved /\ Pending' = Pending
  BY <1>1 DEF Unsaved, Pending, deviceVars, callVars
<1>6. \A b : Sound(b) => Sound(b)'
  BY <1>1, <1>5, SoundStays DEF IInv, Core, CoreTypes
<1>7. InboxSound'
  <2>1. \A m \in 1 .. Len(inbox') : m + 1 \in 1 .. Len(inbox) /\ inbox'[m] = inbox[m + 1]
    BY <1>1, <1>2, TailType
  <2>2. \A b \in Answers : (\E m \in 1 .. Len(inbox) : inbox[m] = b) => Sound(b)
    BY DEF IInv, Core, InboxSound
  <2> QED
    BY <1>6, <2>1, <2>2 DEF InboxSound
<1>8. NoSilentDiscard'
  BY <1>1 DEF IInv, Core, NoSilentDiscard
<1>9. CASE /\ a.kind = "edited"
           /\ MarkDirty /\ noticed' = noticed \cup {a.edit}
           /\ UNCHANGED wakeVars
  <2>1. a.edit \in 1 .. edits /\ 1 .. edits \subseteq Edit
    BY <1>4, <1>9, BoundsAssumption, SMT DEF Sound, IInv, Core, CoreTypes, Edit
  <2>2. CoreTypes' /\ Begun'
    BY <1>1, <1>4, <1>9, <2>1 DEF IInv, Core, CoreTypes, Begun, MarkDirty, deviceVars, callVars
  <2> QED
    BY <1>1, <1>7, <1>8, <1>9, <2>2
    DEF IInv, Core, MarkDirty, CleanMeansSafe, WokenSound, wakeVars
<1>10. CASE /\ a.kind # "edited"
            /\ woken' = {c \in Call : pc[c] # "idle" /\ Expects(c) = a.kind}
            /\ got' = IF woken' = {} THEN None ELSE a
            /\ UNCHANGED <<flag, noticed, forsaken>>
  <2>1. CoreTypes' /\ Begun' /\ CleanMeansSafe'
    BY <1>1, <1>4, <1>5, <1>10
    DEF IInv, Core, CoreTypes, Begun, CleanMeansSafe, AtRisk, deviceVars, callVars
  <2>2. Sound(a)'
    BY <1>4, <1>6
  <2>3. ASSUME NEW d \in woken'
        PROVE  (pc[d] # "idle" /\ got \in Answers /\ Sound(got) /\ Expects(d) = got.kind)'
    <3>1. got' = a /\ pc'[d] = pc[d] /\ pc[d] # "idle" /\ Expects(d) = a.kind
      BY <1>1, <1>10 DEF callVars
    <3> QED
      BY <2>2, <3>1 DEF Expects
  <2>4. woken' \in SUBSET Call /\ got' \in Answers \cup {None}
    BY <1>10
  <2> QED
    BY <1>7, <1>8, <2>1, <2>3, <2>4 DEF IInv, Core, WokenSound
<1> QED
  BY <1>3, <1>9, <1>10 DEF Deliver
-----------------------------------------------------------------------------
(* Somebody at the device. *)

LEMMA ByHandSteps ==
    ASSUME IInv, ByHand
    PROVE  IInv'
<1>1. woken = {} /\ UNCHANGED <<gen, flag, callVars, wakeVars, noticed, forsaken, lost>>
  BY DEF ByHand
<1>2. CASE /\ edits < MaxEdits /\ edits' = edits + 1
           /\ Edited(edits + 1)
           /\ Says(Answer("edited", TRUE, edits + 1, None, {}))
  <2>1. /\ edits' \in 0 .. MaxEdits /\ edits' \in Edit /\ edits' \in 1 .. edits'
        /\ edits \in Nat /\ 1 .. edits \subseteq 1 .. edits'
        /\ active' \in Loc /\ buffer' \in SUBSET Edit /\ stored' \in [Loc -> SUBSET Edit]
        /\ Unsaved' \subseteq Unsaved \cup {edits + 1}
        /\ buffer' \subseteq 1 .. edits' /\ \A k \in Loc : stored'[k] \subseteq 1 .. edits'
    BY <1>2, EditStep DEF IInv, Core
  <2>2. \A a : Sound(a) => Sound(a)'
    BY <1>2, <2>1, SoundStays
  <2>3. PICK e \in 0 .. MaxEdits : e = edits + 1
    BY <1>2, <2>1
  <2>4. Answer("edited", TRUE, e, None, {}) \in Answers
        /\ Sound(Answer("edited", TRUE, e, None, {}))'
    BY <1>2, <2>1, <2>3, PlainSound
  <2>5. inbox' \in Seq(Answers) /\ InboxSound'
    BY <1>2, <2>2, <2>3, <2>4, SaysType DEF IInv, Core, CoreTypes
  <2>6. edits + 1 \notin noticed
    BY SMT DEF IInv, Core, CoreTypes, Begun
  <2>7. AtRisk' \subseteq AtRisk /\ Pending' = Pending
    BY <1>1, <2>1, <2>6 DEF AtRisk, Pending, callVars
  <2>8. CoreTypes'
    BY <1>1, <2>1, <2>5 DEF IInv, Core, CoreTypes, callVars
  <2>9. Begun'
    BY <1>1, <2>1 DEF IInv, Core, Begun, callVars
  <2> QED
    BY <1>1, <2>5, <2>7, <2>8, <2>9
    DEF IInv, Core, CleanMeansSafe, NoSilentDiscard, WokenSound, wakeVars
<1>3. CASE Quiet /\ UNCHANGED edits /\ (Stored(active) \/ \E l \in Loc : Loads(l))
  <2>1. /\ active' \in Loc /\ buffer' \in SUBSET Edit /\ stored' \in [Loc -> SUBSET Edit]
        /\ Unsaved' = {}
        /\ buffer' \subseteq 1 .. edits /\ \A k \in Loc : stored'[k] \subseteq 1 .. edits
    <3>1. CASE Stored(active)
      <4>1. PICK here \in Loc : here = active
        BY DEF IInv, Core, CoreTypes
      <4> QED
        BY <3>1, <4>1, StoredType DEF IInv, Core
    <3>2. CASE \E l \in Loc : Loads(l)
      BY <3>2, LoadsType DEF IInv, Core
    <3> QED
      BY <1>3, <3>1, <3>2
  <2>2. \A a : Sound(a) => Sound(a)'
    BY <1>3, <2>1, SoundStays DEF IInv, Core, CoreTypes
  <2>3. InboxSound'
    BY <1>3, <2>2, InboxStays DEF IInv, Core, Quiet
  <2>4. CoreTypes' /\ Begun'
    BY <1>1, <1>3, <2>1 DEF IInv, Core, CoreTypes, Begun, callVars, Quiet
  <2>5. CleanMeansSafe'
    BY <2>1 DEF CleanMeansSafe, AtRisk
  <2> QED
    BY <1>1, <2>3, <2>4, <2>5 DEF IInv, Core, NoSilentDiscard, WokenSound, wakeVars
<1> QED
  BY <1>2, <1>3 DEF ByHand

-----------------------------------------------------------------------------
(* The theorems. *)

LEMMA Starts == Init => IInv
<1> SUFFICES ASSUME Init PROVE IInv
  OBVIOUS
<1>1. CoreTypes
  <2>1. pc \in [Call -> Stages] /\ \A c \in Call : pc[c] = "idle"
    BY DEF Init, Stages
  <2>2. call \in [Call -> Calls]
    BY NoCallType DEF Init
  <2>3. inbox \in Seq(Answers) /\ edits \in 0 .. MaxEdits
    BY ZeroIsEdit, SMT DEF Init
  <2>4. gen \in Gens /\ active \in Loc /\ buffer \in SUBSET Edit /\ stored \in [Loc -> SUBSET Edit]
        /\ flag \in BOOLEAN /\ noticed \in SUBSET Edit /\ forsaken \in SUBSET Edit /\ lost \in SUBSET Edit
    BY DEF Init
  <2> QED
    BY <2>1, <2>2, <2>3, <2>4 DEF CoreTypes
<1>2. Unsaved = {} /\ Begun
  BY DEF Init, Unsaved, Begun
<1>3. InboxSound
  BY SMT DEF Init, InboxSound
<1>4. CleanMeansSafe /\ NoSilentDiscard
  BY <1>2 DEF Init, CleanMeansSafe, AtRisk, NoSilentDiscard
<1> QED
  BY <1>1, <1>2, <1>3, <1>4 DEF Init, IInv, Core, WokenSound

LEMMA StutterSteps ==
    ASSUME IInv, UNCHANGED vars
    PROVE  IInv'
<1>1. UNCHANGED <<gen, active, buffer, stored, flag, pc, call, woken, got, inbox, edits,
                  noticed, forsaken, lost>>
  BY DEF vars, deviceVars, callVars, wakeVars
<1>2. Unsaved' = Unsaved /\ Pending' = Pending
  BY <1>1 DEF Unsaved, Pending
<1>3. \A a : Sound(a) => Sound(a)'
  BY <1>1, <1>2, SoundStays DEF IInv, Core, CoreTypes
<1>4. InboxSound'
  BY <1>1, <1>3, InboxStays DEF IInv, Core
<1>5. CoreTypes' /\ Begun' /\ CleanMeansSafe' /\ NoSilentDiscard'
  BY <1>1, <1>2
  DEF IInv, Core, CoreTypes, Begun, CleanMeansSafe, AtRisk, NoSilentDiscard
<1>6. WokenSound'
  BY <1>1, <1>2 DEF IInv, WokenSound, Sound, Expects
<1> QED
  BY <1>1, <1>4, <1>5, <1>6 DEF IInv, Core

(***************************************************************************)
(* The strengthened invariant is inductive: it holds before the first call *)
(* of the server and after every step of calls, device and listener.       *)
(***************************************************************************)
THEOREM Inductive == Spec => []IInv
<1>1. ASSUME IInv, [Next]_vars
      PROVE  IInv'
  <2>1. ASSUME NEW c \in Call, Begin(c) \/ Goes(c) \/ TimesOut(c)
        PROVE  IInv'
    BY <1>1, <2>1, BeginSteps, GoesSteps, TimesOutSteps
  <2> QED
    BY <1>1, <2>1, DeliverSteps, ByHandSteps, StutterSteps DEF Next
<1> QED
  BY <1>1, Starts, PTL DEF Spec

(***************************************************************************)
(* The flag, the calls and what is on its way back stay well formed.       *)
(***************************************************************************)
THEOREM TypeCorrect == Spec => []TypeOK
<1>1. IInv => TypeOK
  BY DEF IInv, Core, CoreTypes, TypeOK
<1> QED
  BY <1>1, Inductive, PTL

(***************************************************************************)
(* A clean flag is safe, for any number of calls, locations and edits.     *)
(***************************************************************************)
THEOREM AlwaysSafe == Spec => []CleanMeansSafe
<1>1. IInv => CleanMeansSafe
  BY DEF IInv, Core
<1> QED
  BY <1>1, Inductive, PTL

(***************************************************************************)
(* No guarded switch discards what it was there to protect.                *)
(***************************************************************************)
THEOREM NeverDiscards == Spec => []NoSilentDiscard
<1>1. IInv => NoSilentDiscard
  BY DEF IInv, Core
<1> QED
  BY <1>1, Inductive, PTL
=============================================================================
