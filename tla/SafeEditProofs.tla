--------------------------- MODULE SafeEditProofs ---------------------------
(***************************************************************************)
(* SafeEdit, for any calls, kinds, locations and bounds.  IInv is type     *)
(* correctness: among other things, no request that changes the preset is  *)
(* ever sent without a location to change it to.  Knows is what the flag,  *)
(* the answers under way and the calls know of the device; from it follow  *)
(* that no navigation discards an edit silently and that none is refused   *)
(* for nothing.                                                            *)
(***************************************************************************)
EXTENDS SafeEdit, TLAPS

\* A call under way has its job; only an edit has no location.
Busy ==
    \A c \in Call : pc[c] # "idle" =>
        /\ call[c] \in Calls
        /\ pc[c] # "edit" \/ call[c].job.kind = "apply" => call[c].job.loc \in Loc

\* Who was woken waits for an answer of the kind there is.
Woken ==
    \A c \in woken : pc[c] # "idle" /\ got \in Answers /\ Kind(pc[c]) = got.kind

\* The answer to "which location" is a location.
Located(a) == a.kind = "where" => a.loc \in Loc

\* A request names what it is about.
Named(r) ==
    /\ r.op \in {"save", "store", "switch", "after"} => r.loc \in Loc
    /\ r.op = "edit" => r.edit \in Edit

WireTypes ==
    /\ wire \in Seq(Requests)
    /\ \A i \in DOMAIN wire : Named(wire[i])

IInv ==
    /\ TypeOK
    /\ Busy
    /\ Woken
    /\ WireTypes
    /\ \A i \in DOMAIN answers : Located(answers[i])
    /\ \A c \in woken : Located(got)

\* What the calls keep of it.
CallTypes ==
    /\ pc \in [Call -> Stages]
    /\ call \in [Call -> Calls \cup {None}]
    /\ Busy

LEMMA JobType ==
    ASSUME NEW j \in Jobs
    PROVE  /\ j.kind \in {"edit", "save", "switch", "apply"}
           /\ j.mode \in Modes
           /\ j.kind # "edit" => j.loc \in Loc
BY SMT DEF Jobs, Job, Modes

LEMMA KindType ==
    ASSUME NEW s \in Stages
    PROVE  /\ Kind(s) \in Stages
           /\ Kind(s) = "where" <=> s = "where"
BY SMT DEF Stages, Kind

-----------------------------------------------------------------------------
(* The calls. *)

LEMMA AppendKeeps ==
    ASSUME WireTypes, NEW r \in Requests, Named(r),
           wire' = Append(wire, r)
    PROVE  WireTypes'
BY SMT DEF WireTypes

\* A call that asks has a location to ask for.
LEMMA AsksType ==
    ASSUME CallTypes, WireTypes, NEW c \in Call, NEW k \in Calls, k.job.loc \in Loc,
           NEW stage \in Stages \ {"idle", "edit"}, NEW l \in Loc \cup {None},
           stage \in {"save", "store", "switch", "after"} => l \in Loc,
           Asks(c, k, stage, l)
    PROVE  CallTypes' /\ WireTypes' /\ edits' = edits
<1> DEFINE r == [op |-> stage, loc |-> l, edit |-> 0, spares |-> Spares(k, stage)]
<1>1. Spares(k, stage) \in SUBSET Edit
  BY SMT DEF Spares, Calls
<1>2. r \in Requests /\ Named(r)
  BY <1>1, BoundsAssumption, SMT DEF Requests, Stages, Named
<1>3. WireTypes'
  <2>1. wire' = Append(wire, r)
    BY DEF Asks
  <2> QED BY <1>2, <2>1, AppendKeeps
<1>4. CallTypes'
  <2>1. pc' \in [Call -> Stages] /\ call' \in [Call -> Calls \cup {None}]
    BY SMT DEF Asks, CallTypes, Stages
  <2>2. Busy'
    BY SMT DEF Asks, CallTypes, Busy
  <2> QED BY <2>1, <2>2 DEF CallTypes
<1> QED BY <1>3, <1>4 DEF Asks

LEMMA WritesType ==
    ASSUME CallTypes, WireTypes, edits \in 0 .. MaxEdits, NEW c \in Call, NEW k \in Calls,
           k.job.kind = "apply" => k.job.loc \in Loc,
           Writes(c, k)
    PROVE  CallTypes' /\ WireTypes' /\ edits' \in 0 .. MaxEdits
<1> DEFINE r == [op |-> "edit", loc |-> None, edit |-> edits + 1, spares |-> {}]
<1>1. edits' \in 0 .. MaxEdits
  BY BoundsAssumption, SMT DEF Writes
<1>2. r \in Requests /\ Named(r)
  BY BoundsAssumption, SMT DEF Writes, Requests, Stages, Edit, Named
<1>3. WireTypes'
  <2>1. wire' = Append(wire, r)
    BY DEF Writes
  <2> QED BY <1>2, <2>1, AppendKeeps
<1>4. pc' \in [Call -> Stages] /\ call' \in [Call -> Calls \cup {None}]
  BY SMT DEF Writes, CallTypes, Stages
<1>5. Busy'
  BY SMT DEF Writes, CallTypes, Busy
<1> QED BY <1>1, <1>3, <1>4, <1>5 DEF CallTypes

LEMMA EndsType ==
    ASSUME CallTypes, WireTypes, NEW c \in Call, Ends(c)
    PROVE  CallTypes' /\ WireTypes' /\ edits' = edits
<1>1. pc' \in [Call -> Stages] /\ call' \in [Call -> Calls \cup {None}]
  BY SMT DEF Ends, CallTypes, Stages
<1>2. Busy'
  BY SMT DEF Ends, CallTypes, Busy
<1> QED BY <1>1, <1>2 DEF CallTypes, WireTypes, Ends

Heard(a) == a.bit \in BOOLEAN /\ a.held \in SUBSET Edit /\ a.loc \in Loc \cup {None}

\* Whatever a call does next, it does to a location it has.
LEMMA ContinuesType ==
    ASSUME CallTypes, WireTypes, edits \in 0 .. MaxEdits,
           NEW c \in Call, pc[c] # "idle", NEW ok \in BOOLEAN, NEW a, Heard(a),
           ok /\ pc[c] = "where" => a.loc \in Loc,
           Continues(c, ok, a)
    PROVE  CallTypes' /\ WireTypes' /\ edits' \in 0 .. MaxEdits
<1> DEFINE k == call[c]
           known == [k EXCEPT !.spares = @ \cup a.held]
<1>1. /\ k \in Calls
      /\ pc[c] # "edit" \/ k.job.kind = "apply" => k.job.loc \in Loc
  BY DEF CallTypes, Busy
<1>2. known \in Calls /\ known.job = k.job
  BY <1>1, SMT DEF Calls, Heard
<1> HIDE DEF known
<1>3. CASE Ends(c)
  BY <1>3, EndsType
<1>4. CASE Writes(c, k) /\ pc[c] = "switch"
  BY <1>1, <1>4, WritesType
<1>5. CASE Asks(c, k, "save", k.job.loc) /\ Applies(c)
  BY <1>1, <1>5, AsksType, SMT DEF Applies, Stages
<1>6. CASE pc[c] = "bit" /\ Asks(c, known, "where", None)
  BY <1>1, <1>2, <1>6, AsksType, SMT DEF Stages
<1>7. CASE pc[c] = "bit" /\ Asks(c, known, "switch", k.job.loc)
  BY <1>1, <1>2, <1>7, AsksType, SMT DEF Stages
<1>8. CASE pc[c] = "where" /\ Stores(c, ok, a.loc)
  BY <1>1, <1>8, AsksType, SMT DEF Stages, Stores
<1>9. CASE pc[c] = "store" /\ Asks(c, k, "switch", k.job.loc)
  BY <1>1, <1>9, AsksType, SMT DEF Stages
<1>10. CASE pc[c] = "save" /\ Asks(c, k, "after", k.job.loc)
  BY <1>1, <1>10, AsksType, SMT DEF Stages
<1>11. QED
  BY <1>3, <1>4, <1>5, <1>6, <1>7, <1>8, <1>9, <1>10 DEF Continues, Refuses, known

LEMMA TracksType ==
    ASSUME dirty \in BOOLEAN, recent \in BOOLEAN, NEW c, NEW ok \in BOOLEAN, Tracks(c, ok)
    PROVE  dirty' \in BOOLEAN /\ recent' \in BOOLEAN
BY DEF Tracks, MarkDirty, MarkClean, KeepFlag

LEMMA BeginKeeps ==
    ASSUME IInv, NEW c \in Call, NEW j \in Jobs, Begin(c, j)
    PROVE  IInv'
<1> DEFINE k == [job |-> j, spares |-> acked, clean |-> clean]
<1>1. k \in Calls /\ k.job = j
  BY SMT DEF IInv, TypeOK, Calls
<1>2. CallTypes /\ WireTypes /\ edits \in 0 .. MaxEdits
  BY DEF IInv, TypeOK, CallTypes, WireTypes
<1>3. CallTypes' /\ WireTypes' /\ edits' \in 0 .. MaxEdits
  <2>1. CASE j.kind = "edit" /\ Writes(c, k)
    BY <1>1, <1>2, <2>1, WritesType
  <2>2. CASE j.kind = "save" /\ Asks(c, k, "save", j.loc)
    BY <1>1, <1>2, <2>2, JobType, AsksType, SMT DEF Stages
  <2>3. CASE j.kind \in {"switch", "apply"} /\ Asks(c, k, "switch", j.loc)
    BY <1>1, <1>2, <2>3, JobType, AsksType, SMT DEF Stages
  <2>4. CASE j.kind \in {"switch", "apply"} /\ Asks(c, k, "bit", None)
    BY <1>1, <1>2, <2>4, JobType, AsksType, SMT DEF Stages
  <2> QED BY <2>1, <2>2, <2>3, <2>4 DEF Begin
<1>4. UNCHANGED <<deviceVars, trackerVars, woken, got, answers, historyVars>> /\ woken = {}
  BY DEF Begin
<1>5. TypeOK'
  BY <1>3, <1>4 DEF IInv, TypeOK, CallTypes, WireTypes, Named, deviceVars, trackerVars, historyVars
<1> QED BY <1>3, <1>4, <1>5 DEF IInv, CallTypes, Woken, historyVars, Located

LEMMA GoesKeeps ==
    ASSUME IInv, NEW c \in Call, Goes(c)
    PROVE  IInv'
<1>1. CallTypes /\ WireTypes /\ edits \in 0 .. MaxEdits
  BY DEF IInv, TypeOK, CallTypes, WireTypes
<1>2. c \in woken /\ pc[c] # "idle" /\ got \in Answers /\ Kind(pc[c]) = got.kind /\ Located(got)
  BY DEF Goes, IInv, Woken
<1>3. Heard(got) /\ (pc[c] = "where" => got.loc \in Loc)
  BY <1>2, SMT DEF Heard, Answers, Located, Kind
<1>4. CallTypes' /\ WireTypes' /\ edits' \in 0 .. MaxEdits
  BY <1>1, <1>2, <1>3, ContinuesType DEF Goes
<1>5. dirty' \in BOOLEAN /\ recent' \in BOOLEAN
  BY TracksType DEF Goes, IInv, TypeOK
<1>6. woken' \in SUBSET Call /\ got' \in Answers \cup {None}
  BY DEF Goes, IInv, TypeOK
<1>7. clean' \in SUBSET Edit /\ acked' \in SUBSET Edit
  BY <1>3 DEF Goes, IInv, TypeOK, Heard
<1>8. TypeOK'
  BY <1>4, <1>5, <1>6, <1>7 DEF Goes, IInv, TypeOK, CallTypes, WireTypes, Named, deviceVars
<1>9. Woken' /\ \A d \in woken' : Located(got')
  <2> SUFFICES ASSUME NEW d \in woken'
               PROVE  /\ pc'[d] # "idle" /\ got' \in Answers /\ Kind(pc'[d]) = got'.kind
                      /\ Located(got')
    BY DEF Woken, Located, Kind
  <2>1. d \in woken /\ d # c /\ d \in Call
    BY DEF Goes, IInv, TypeOK
  <2>2. got' = got
    BY DEF Goes
  <2>3. pc'[d] = pc[d]
    BY <1>1, <2>1 DEF Goes, Continues, Asks, Writes, Ends, Stores, Refuses, CallTypes
  <2> QED BY <2>1, <2>2, <2>3 DEF IInv, Woken, Located, Kind
<1> QED BY <1>4, <1>8, <1>9 DEF IInv, CallTypes, Goes, Located

LEMMA TimesOutKeeps ==
    ASSUME IInv, NEW c \in Call, TimesOut(c)
    PROVE  IInv'
<1>1. CallTypes /\ WireTypes /\ edits \in 0 .. MaxEdits
  BY DEF IInv, TypeOK, CallTypes, WireTypes
<1>2. Heard(NoAnswer)
  BY SMT DEF Heard, NoAnswer, IInv, TypeOK
<1>3. CallTypes' /\ WireTypes' /\ edits' \in 0 .. MaxEdits
  BY <1>1, <1>2, ContinuesType DEF TimesOut
<1>4. dirty' \in BOOLEAN /\ recent' \in BOOLEAN
  BY TracksType DEF TimesOut, IInv, TypeOK
<1>5. TypeOK'
  BY <1>3, <1>4 DEF TimesOut, IInv, TypeOK, CallTypes, WireTypes, Named, deviceVars, historyVars
<1> QED BY <1>3, <1>5 DEF TimesOut, IInv, CallTypes, Woken, Located

LEMMA DeliverKeeps ==
    ASSUME IInv, Deliver
    PROVE  IInv'
<1> DEFINE a == Head(answers)
<1>1. a \in Answers /\ Located(a) /\ answers' \in Seq(Answers)
  BY SMT DEF Deliver, IInv, TypeOK
<1>2. \A i \in DOMAIN answers' : Located(answers'[i])
  <2> SUFFICES ASSUME NEW i \in DOMAIN answers'
               PROVE  answers'[i] = answers[i + 1] /\ i + 1 \in DOMAIN answers
    BY DEF IInv, Located
  <2> QED BY SMT DEF Deliver, IInv, TypeOK
<1>3. woken' \in SUBSET Call /\ got' \in Answers \cup {None}
  BY <1>1 DEF Deliver
<1>4. TypeOK'
  BY <1>1, <1>3 DEF Deliver, IInv, TypeOK, deviceVars, trackerVars, callVars, historyVars
<1>5. Busy'
  BY DEF Deliver, IInv, Busy, callVars
<1>6. \A c \in woken' : got' = a /\ pc'[c] # "idle" /\ Kind(pc'[c]) = a.kind
  BY DEF Deliver, callVars, Kind
<1>7. WireTypes'
  BY DEF Deliver, IInv, WireTypes
<1>8. Woken' /\ \A c \in woken' : Located(got')
  BY <1>1, <1>6 DEF Woken, Located
<1> QED BY <1>2, <1>4, <1>5, <1>7, <1>8 DEF IInv, Located

-----------------------------------------------------------------------------
(* The device. *)

LEMMA ExecutesType ==
    ASSUME TypeOK, NEW r \in Requests, Named(r), Executes(r)
    PROVE  /\ active' \in Loc
           /\ buffer' \in SUBSET Edit
           /\ stored' \in [Loc -> SUBSET Edit]
           /\ bit' \in BOOLEAN /\ lag' \in BOOLEAN
           /\ done' \in SUBSET Edit
<1>1. CASE r.op = "edit" /\ Edited(r.edit) /\ lag' = (lag \/ ~bit)
  BY <1>1 DEF Edited, TypeOK, Named
<1>2. CASE r.op \in {"switch", "after"} /\ Loads(r.loc)
  BY <1>2 DEF Loads, TypeOK, Named
<1>3. CASE r.op \in {"save", "store"} /\ Stored(r.loc)
  BY <1>3 DEF Stored, TypeOK, Named
<1>4. CASE UNCHANGED <<deviceVars, done>>
  BY <1>4 DEF deviceVars, TypeOK
<1> QED BY <1>1, <1>2, <1>3, <1>4 DEF Executes

LEMMA HeadType ==
    ASSUME WireTypes, wire # <<>>
    PROVE  /\ Head(wire) \in Requests /\ Named(Head(wire))
           /\ Tail(wire) \in Seq(Requests)
           /\ \A i \in DOMAIN Tail(wire) : Named(Tail(wire)[i])
<1>1. wire \in Seq(Requests) /\ Len(wire) > 0
  BY SMT DEF WireTypes
<1>2. 1 \in DOMAIN wire /\ Head(wire) = wire[1]
  BY <1>1, SMT
<1>3. Head(wire) \in Requests /\ Tail(wire) \in Seq(Requests)
  BY <1>1, SMT
<1>4. ASSUME NEW i \in DOMAIN Tail(wire)
      PROVE  i + 1 \in DOMAIN wire /\ Tail(wire)[i] = wire[i + 1]
  BY <1>1, <1>4, SMT
<1> QED BY <1>2, <1>3, <1>4 DEF WireTypes

LEMMA HeldType ==
    ASSUME TypeOK, NEW r \in Requests, Named(r)
    PROVE  Held(r) \in SUBSET Edit
BY DEF Held, TypeOK, Named, Unsaved

LEMMA RepliesKeeps ==
    ASSUME IInv, Replies
    PROVE  IInv'
<1> DEFINE r == Head(wire)
<1>1. r \in Requests /\ Named(r) /\ Executes(r)
  BY HeadType DEF Replies, IInv
<1>2. WireTypes'
  BY HeadType DEF Replies, IInv, WireTypes
<1>3. PICK shown \in BOOLEAN :
        answers' = Append(answers, [kind |-> Kind(r.op), bit |-> r.op = "bit" /\ shown,
                                    loc |-> IF r.op = "where" THEN active ELSE None,
                                    held |-> Held(r)])
  BY DEF Replies, IInv, TypeOK
<1> DEFINE a == [kind |-> Kind(r.op), bit |-> r.op = "bit" /\ shown,
                 loc |-> IF r.op = "where" THEN active ELSE None, held |-> Held(r)]
<1>4. r.op \in Stages
  BY <1>1, SMT DEF Requests
<1>5. a \in Answers
  <2>1. Kind(r.op) \in Stages
    BY <1>4, KindType
  <2>2. Held(r) \in SUBSET Edit
    BY <1>1, HeldType DEF IInv
  <2>3. active \in Loc
    BY DEF IInv, TypeOK
  <2> QED BY <2>1, <2>2, <2>3 DEF Answers
<1>6. Located(a)
  <2>1. Kind(r.op) = "where" => r.op = "where"
    BY <1>4, KindType
  <2> QED BY <2>1 DEF Located, IInv, TypeOK
<1> HIDE DEF a
<1>7. answers' = Append(answers, a) /\ answers \in Seq(Answers)
  BY <1>3 DEF a, IInv, TypeOK
<1>8. answers' \in Seq(Answers) /\ \A i \in DOMAIN answers' : Located(answers'[i])
  <2>1. answers' \in Seq(Answers)
    BY <1>5, <1>7, SMT
  <2>2. ASSUME NEW i \in DOMAIN answers'
        PROVE  answers'[i] = a \/ (i \in DOMAIN answers /\ answers'[i] = answers[i])
    BY <1>7, <2>2, SMT
  <2> QED BY <1>6, <2>1, <2>2 DEF IInv
<1>9. TypeOK'
  BY <1>1, <1>2, <1>8, ExecutesType
  DEF Replies, IInv, TypeOK, WireTypes, Named, trackerVars, callVars
<1> QED BY <1>2, <1>8, <1>9
        DEF Replies, IInv, Busy, Woken, Located, Kind, trackerVars, callVars

LEMMA SwallowsKeeps ==
    ASSUME IInv, Swallows
    PROVE  IInv'
<1>1. WireTypes'
  BY HeadType DEF Swallows, IInv, WireTypes
<1>2. /\ active' \in Loc
      /\ buffer' \in SUBSET Edit
      /\ stored' \in [Loc -> SUBSET Edit]
      /\ bit' \in BOOLEAN /\ lag' \in BOOLEAN
      /\ done' \in SUBSET Edit
  <2>1. CASE Executes(Head(wire))
    BY <2>1, HeadType, ExecutesType DEF Swallows, IInv
  <2>2. CASE UNCHANGED <<deviceVars, done>>
    BY <2>2 DEF deviceVars, IInv, TypeOK
  <2> QED BY <2>1, <2>2 DEF Swallows
<1>3. TypeOK'
  BY <1>1, <1>2 DEF Swallows, IInv, TypeOK, WireTypes, Named, trackerVars, callVars
<1> QED BY <1>1, <1>3 DEF Swallows, IInv, Busy, Woken, Located, Kind, trackerVars, callVars

LEMMA ByHandKeeps ==
    ASSUME IInv, ByHand
    PROVE  IInv'
<1>1. /\ active' \in Loc
      /\ buffer' \in SUBSET Edit
      /\ stored' \in [Loc -> SUBSET Edit]
      /\ bit' \in BOOLEAN /\ lag' \in BOOLEAN
      /\ done' \in SUBSET Edit
      /\ edits' \in 0 .. MaxEdits
  <2>1. CASE edits < MaxEdits /\ edits' = edits + 1 /\ Edited(edits + 1) /\ UNCHANGED lag
    <3>1. edits + 1 \in Edit /\ edits' \in 0 .. MaxEdits
      BY <2>1, BoundsAssumption, SMT DEF IInv, TypeOK, Edit
    <3> QED BY <2>1, <3>1 DEF Edited, IInv, TypeOK
  <2>2. CASE Stored(active) /\ UNCHANGED edits
    BY <2>2 DEF Stored, IInv, TypeOK
  <2>3. CASE \E l \in Loc : Loads(l) /\ UNCHANGED edits
    BY <2>3 DEF Loads, IInv, TypeOK
  <2> QED BY <2>1, <2>2, <2>3 DEF ByHand
<1>2. UNCHANGED <<trackerVars, callVars, woken, got, wire, answers, clean, acked>>
  BY DEF ByHand
<1>3. TypeOK'
  BY <1>1, <1>2 DEF IInv, TypeOK, trackerVars, callVars
<1> QED BY <1>2, <1>3 DEF IInv, Busy, Woken, WireTypes, Named, Located, Kind, trackerVars, callVars

LEMMA TimePasses ==
    ASSUME IInv, Forgets \/ Shows \/ UNCHANGED vars
    PROVE  IInv'
<1>1. CASE Forgets
  <2>1. TypeOK'
    BY <1>1 DEF Forgets, IInv, TypeOK, deviceVars, callVars, historyVars
  <2> QED BY <1>1, <2>1 DEF Forgets, IInv, Busy, Woken, WireTypes, Named, Located, Kind, callVars
<1>2. CASE Shows
  <2>1. TypeOK'
    BY <1>2 DEF Shows, IInv, TypeOK, trackerVars, callVars, historyVars
  <2> QED BY <1>2, <2>1 DEF Shows, IInv, Busy, Woken, WireTypes, Named, Located, Kind, callVars
<1>3. CASE UNCHANGED vars
  <2>1. TypeOK'
    BY <1>3 DEF IInv, TypeOK, vars, deviceVars, trackerVars, callVars, historyVars
  <2> QED BY <1>3, <2>1 DEF IInv, Busy, Woken, WireTypes, Named, Located, Kind, vars, callVars
<1> QED BY <1>1, <1>2, <1>3

-----------------------------------------------------------------------------
(***************************************************************************)
(* The invariant holds in every reachable state: what a call knows, what   *)
(* its requests name and what the answers say fit together.                *)
(***************************************************************************)
THEOREM Inductive == Spec => []IInv
<1>1. Init => IInv
  <2> SUFFICES ASSUME Init PROVE IInv
    OBVIOUS
  <2>1. TypeOK
    <3>1. wire \in Seq(Requests) /\ answers \in Seq(Answers) /\ DOMAIN wire = {}
      BY SMT DEF Init
    <3>2. edits \in 0 .. MaxEdits
      BY BoundsAssumption, SMT DEF Init
    <3> QED BY <3>1, <3>2 DEF Init, TypeOK, Stages
  <2>2. DOMAIN wire = {} /\ DOMAIN answers = {}
    BY SMT DEF Init
  <2> QED BY <2>1, <2>2 DEF Init, IInv, Busy, Woken, WireTypes, TypeOK
<1>2. IInv /\ [Next]_vars => IInv'
  <2> SUFFICES ASSUME IInv, [Next]_vars PROVE IInv'
    OBVIOUS
  <2>1. ASSUME NEW c \in Call, NEW j \in Jobs, Begin(c, j) PROVE IInv'
    BY <2>1, BeginKeeps
  <2>2. ASSUME NEW c \in Call, Goes(c) PROVE IInv'
    BY <2>2, GoesKeeps
  <2>3. ASSUME NEW c \in Call, TimesOut(c) PROVE IInv'
    BY <2>3, TimesOutKeeps
  <2>4. CASE Deliver
    BY <2>4, DeliverKeeps
  <2>5. CASE Replies
    BY <2>5, RepliesKeeps
  <2>6. CASE Swallows
    BY <2>6, SwallowsKeeps
  <2>7. CASE ByHand
    BY <2>7, ByHandKeeps
  <2>8. CASE Forgets \/ Shows \/ UNCHANGED vars
    BY <2>8, TimePasses
  <2> QED BY <2>1, <2>2, <2>3, <2>4, <2>5, <2>6, <2>7, <2>8 DEF Next
<1> QED BY <1>1, <1>2, PTL DEF Spec

(***************************************************************************)
(* Type correctness: for any calls, locations and bounds, every variable   *)
(* stays in its range, and no save or switch is sent without a location -  *)
(* not even when the location could not be read (safeEdit.ts, "needs a     *)
(* concrete target location").                                             *)
(***************************************************************************)
THEOREM TypeCorrect == Spec => []TypeOK
BY Inductive, PTL DEF IInv
-----------------------------------------------------------------------------
(* What the calls, the requests and the answers know of the device. *)

\* An edit is made once: one that is still to come is nowhere yet.
Fresh ==
    /\ done \subseteq 1 .. edits
    /\ \A i \in DOMAIN wire : wire[i].op = "edit" => wire[i].edit \in (1 .. edits) \ done
    /\ \A i, j \in DOMAIN wire :
          i < j /\ wire[i].op = "edit" /\ wire[j].op = "edit" => wire[i].edit # wire[j].edit

\* What the device holds, and what is known of it, was done.
Known ==
    /\ buffer \subseteq done
    /\ \A l \in Loc : stored[l] \subseteq done
    /\ acked \subseteq done /\ clean \subseteq done

\* Edits that a client was told of and that a navigation would lose now.
AtRisk == acked \cap Unsaved

\* The device's bit and the server's flag are set when they must be, and not
\* long after there is nothing left to set them for.
Flagged ==
    /\ Unsaved # {} => bit
    /\ AtRisk # {} => dirty
    /\ AtRisk # {} /\ lag => recent
    /\ bit \/ dirty => done \ clean # {}

\* The acknowledgement of a save or a switch.
Marks(a) == a.kind \in {"save", "switch"}

\* The answer that the buffer is clean.
Quiet(a) == a.kind = "bit" /\ ~a.bit

\* The answers that set the flag, or say that the buffer is edited.
Speaks(a) == a.kind = "edit" \/ (a.kind = "bit" /\ a.bit)

\* What an answer says is still so when it is taken: what an acknowledged save
\* or switch covers stays safe, and a bit that read clean is only wrong about an
\* edit the server still remembers.
Sound(a) ==
    /\ a.held \subseteq done
    /\ Marks(a) => /\ acked \subseteq a.held /\ clean \subseteq a.held
                   /\ Unsaved \cap a.held = {}
                   /\ bit => done \ a.held # {}
    /\ Quiet(a) => a.held = {} /\ (AtRisk # {} => recent)
    /\ Speaks(a) => done \ clean # {}

\* An acknowledged save or switch covers what any call knows.
Covers(a) ==
    Marks(a) => \A c \in Call : pc[c] # "idle" => call[c].spares \subseteq a.held

\* What answer b, taken after a, says when a has been taken.
After(a, b) ==
    /\ Marks(b) => a.held \subseteq b.held
    /\ Marks(a) /\ Speaks(b) => done \ a.held # {}

\* The answers under way, and the one that is being taken.
Pending ==
    {answers[i] : i \in DOMAIN answers} \cup (IF woken = {} THEN {} ELSE {got})

Ordered ==
    /\ \A i, j \in DOMAIN answers : i < j => After(answers[i], answers[j])
    /\ woken # {} => \A j \in DOMAIN answers : After(got, answers[j])

Queued ==
    /\ \A a \in Pending : Sound(a) /\ Covers(a)
    /\ Ordered

\* What a call under way goes by.
Keeps(c) ==
    pc[c] # "idle" =>
        /\ call[c].spares \subseteq done
        /\ call[c].clean \subseteq clean
        /\ pc[c] = "bit" => call[c].spares \subseteq acked
        /\ pc[c] = "where" => done \ call[c].clean # {}

\* What a request on its way must not discard is not in danger.
Spared(r) == r.spares \subseteq done /\ r.spares \cap Unsaved = {}

WireKnows == Fresh /\ \A i \in DOMAIN wire : Spared(wire[i])

Knows ==
    /\ WireKnows
    /\ Known
    /\ Flagged
    /\ Queued
    /\ \A c \in Call : Keeps(c)

LEMMA TailOf ==
    ASSUME NEW S, NEW s \in Seq(S), s # <<>>
    PROVE  /\ 1 \in DOMAIN s /\ Head(s) = s[1] /\ Tail(s) \in Seq(S)
           /\ \A i \in DOMAIN Tail(s) :
                 i \in Nat /\ 1 < i + 1 /\ i + 1 \in DOMAIN s /\ Tail(s)[i] = s[i + 1]
BY SMT

LEMMA AppendOf ==
    ASSUME NEW S, NEW s \in Seq(S), NEW x \in S
    PROVE  \A i \in DOMAIN Append(s, x) :
              \/ i \in DOMAIN s /\ i < Len(s) + 1 /\ Append(s, x)[i] = s[i]
              \/ i = Len(s) + 1 /\ Append(s, x)[i] = x
BY SMT

-----------------------------------------------------------------------------
(* The device. *)

\* What the device does to the edits it holds, whoever makes it.
Moves ==
    /\ done \subseteq done'
    /\ Unsaved' \subseteq Unsaved \cup (done' \ done)
    /\ Unsaved' # {} => bit'
    /\ bit' => bit \/ done' # done
    /\ lag' => lag \/ Unsaved = {}
    /\ buffer' \subseteq done'
    /\ \A l \in Loc : stored'[l] \subseteq done'

LEMMA EditedMoves ==
    ASSUME Known, Flagged, NEW e, e \notin done, Edited(e), lag' => lag \/ ~bit
    PROVE  Moves
<1>1. /\ buffer' = buffer \cup {e} /\ bit' /\ done' = done \cup {e} /\ stored' = stored
  BY DEF Edited
<1>2. Unsaved' \subseteq Unsaved \cup {e}
  BY <1>1 DEF Unsaved
<1>3. lag' => lag \/ Unsaved = {}
  BY DEF Flagged
<1> QED BY <1>1, <1>2, <1>3 DEF Moves, Known

LEMMA LoadsMoves ==
    ASSUME Known, NEW l \in Loc, Loads(l)
    PROVE  Moves /\ Unsaved' = {} /\ bit' = FALSE /\ done' = done
<1>1. /\ buffer' = stored[l] /\ bit' = FALSE /\ lag' = FALSE
      /\ stored' = stored /\ done' = done
  BY DEF Loads
<1>2. Unsaved' = {}
  BY <1>1 DEF Unsaved
<1> QED BY <1>1, <1>2 DEF Moves, Known

LEMMA StoredMoves ==
    ASSUME TypeOK, Known, NEW l \in Loc, Stored(l)
    PROVE  Moves /\ Unsaved' = {} /\ bit' = FALSE /\ done' = done
<1>1. /\ stored' = [stored EXCEPT ![l] = buffer] /\ bit' = FALSE /\ lag' = FALSE
      /\ buffer' = buffer /\ done' = done
  BY DEF Stored
<1>2. stored'[l] = buffer /\ \A m \in Loc \ {l} : stored'[m] = stored[m]
  BY <1>1 DEF TypeOK
<1>3. Unsaved' = {}
  BY <1>1, <1>2 DEF Unsaved
<1> QED BY <1>1, <1>2, <1>3 DEF Moves, Known

LEMMA StaysMoves ==
    ASSUME Known, Flagged, UNCHANGED <<buffer, stored, bit, done>>, lag' => lag
    PROVE  Moves
<1>1. Unsaved' = Unsaved
  BY DEF Unsaved
<1> QED BY <1>1 DEF Moves, Known, Flagged

LEMMA ExecutesMoves ==
    ASSUME TypeOK, Known, Flagged, NEW r, Named(r), r.op = "edit" => r.edit \notin done,
           Executes(r)
    PROVE  Moves
<1>1. CASE r.op = "edit" /\ Edited(r.edit) /\ lag' = (lag \/ ~bit)
  BY <1>1, EditedMoves
<1>2. CASE r.op \in {"switch", "after"} /\ Loads(r.loc)
  BY <1>2, LoadsMoves DEF Named
<1>3. CASE r.op \in {"save", "store"} /\ Stored(r.loc)
  BY <1>3, StoredMoves DEF Named
<1>4. CASE UNCHANGED <<deviceVars, done>>
  BY <1>4, StaysMoves DEF deviceVars
<1> QED BY <1>1, <1>2, <1>3, <1>4 DEF Executes

\* What was known before the device moved is known after.
LEMMA MovesKeeps ==
    ASSUME Known, Flagged, Moves,
           UNCHANGED <<dirty, recent, pc, call, acked, clean>>
    PROVE  /\ Known' /\ Flagged'
           /\ \A a : Sound(a) => Sound(a)'
           /\ \A a : Covers(a) => Covers(a)'
           /\ \A a, b : After(a, b) => After(a, b)'
           /\ \A c \in Call : Keeps(c) => Keeps(c)'
           /\ \A r : Spared(r) => Spared(r)'
<1>1. done \subseteq done' /\ Unsaved' \subseteq Unsaved \cup (done' \ done)
  BY DEF Moves
<1>2. Known'
  BY <1>1 DEF Known, Moves
<1>3. AtRisk' \subseteq AtRisk
  BY <1>1 DEF AtRisk, Known
<1>4. Flagged'
  <2>1. AtRisk' # {} => dirty'
    BY <1>3 DEF Flagged
  <2>2. AtRisk' # {} /\ lag' => recent'
    BY <1>3 DEF Flagged, Moves, AtRisk
  <2>3. bit' \/ dirty' => done' \ clean' # {}
    BY <1>1 DEF Flagged, Moves, Known
  <2> QED BY <2>1, <2>2, <2>3 DEF Flagged, Moves
<1>5. ASSUME NEW a, Sound(a) PROVE Sound(a)'
  <2>1. Marks(a) => Unsaved' \cap a.held = {} /\ (bit' => done' \ a.held # {})
    BY <1>1, <1>5 DEF Sound, Moves
  <2>2. Quiet(a) => (AtRisk' # {} => recent')
    BY <1>3, <1>5 DEF Sound
  <2> QED BY <1>1, <1>5, <2>1, <2>2 DEF Sound, Marks, Quiet, Speaks
<1>6. ASSUME NEW a, Covers(a) PROVE Covers(a)'
  BY <1>6 DEF Covers, Marks
<1>7. ASSUME NEW a, NEW b, After(a, b) PROVE After(a, b)'
  BY <1>1, <1>7 DEF After, Marks, Speaks
<1>8. ASSUME NEW c \in Call, Keeps(c) PROVE Keeps(c)'
  BY <1>1, <1>8 DEF Keeps
<1>9. ASSUME NEW r, Spared(r) PROVE Spared(r)'
  BY <1>1, <1>9 DEF Spared
<1> QED BY <1>2, <1>4, <1>5, <1>6, <1>7, <1>8, <1>9

\* A request joins those under way.
LEMMA WireGrows ==
    ASSUME WireTypes, WireKnows, edits \in Nat, NEW r \in Requests, wire' = Append(wire, r),
           done' = done, Unsaved' = Unsaved, Spared(r),
           IF r.op = "edit" THEN r.edit = edits + 1 /\ edits' = edits + 1 ELSE edits' = edits
    PROVE  WireKnows'
<1>1. wire \in Seq(Requests)
  BY DEF WireTypes
<1>2. \A i \in DOMAIN wire' :
         \/ i \in DOMAIN wire /\ i < Len(wire) + 1 /\ wire'[i] = wire[i]
         \/ i = Len(wire) + 1 /\ wire'[i] = r
  BY <1>1, AppendOf
<1>3. \A q : Spared(q) => Spared(q)'
  BY DEF Spared
<1>4. (\A i \in DOMAIN wire : Spared(wire[i]))'
  BY <1>2, <1>3 DEF WireKnows, Spared
<1>5. 1 .. edits \subseteq 1 .. edits' /\ (r.op = "edit" => r.edit \in (1 .. edits') \ (1 .. edits))
  BY SMT
<1>6. done' \subseteq 1 .. edits'
  BY <1>5 DEF WireKnows, Fresh
<1>7. \A i \in DOMAIN wire' : wire'[i].op = "edit" => wire'[i].edit \in (1 .. edits') \ done'
  BY <1>2, <1>5 DEF WireKnows, Fresh
<1>8. ASSUME NEW i \in DOMAIN wire', NEW j \in DOMAIN wire',
             i < j, wire'[i].op = "edit", wire'[j].op = "edit"
      PROVE  wire'[i].edit # wire'[j].edit
  <2>1. i \in DOMAIN wire /\ wire'[i] = wire[i]
    <3>1. i \in 1 .. Len(wire) + 1 /\ j \in 1 .. Len(wire) + 1 /\ Len(wire) \in Nat
      BY <1>1, <1>2, <1>8, SMT
    <3> QED BY <1>2, <1>8, <3>1, SMT
  <2>2. CASE j \in DOMAIN wire /\ wire'[j] = wire[j]
    BY <1>8, <2>1, <2>2 DEF WireKnows, Fresh
  <2>3. CASE wire'[j] = r
    BY <1>5, <1>8, <2>1, <2>3 DEF WireKnows, Fresh
  <2> QED BY <1>2, <2>2, <2>3
<1> QED BY <1>4, <1>6, <1>7, <1>8 DEF WireKnows, Fresh

\* The device takes a request.
LEMMA WireShrinks ==
    ASSUME WireTypes, WireKnows, wire # <<>>, wire' = Tail(wire), edits' = edits,
           \A q : Spared(q) => Spared(q)',
           \/ done' = done
           \/ Head(wire).op = "edit" /\ done' = done \cup {Head(wire).edit}
    PROVE  WireKnows'
<1>1. wire \in Seq(Requests)
  BY DEF WireTypes
<1>2. 1 \in DOMAIN wire /\ Head(wire) = wire[1]
  BY <1>1, TailOf
<1>3. \A i \in DOMAIN wire' :
         i \in Nat /\ 1 < i + 1 /\ i + 1 \in DOMAIN wire /\ wire'[i] = wire[i + 1]
  BY <1>1, TailOf
<1>4. (\A i \in DOMAIN wire : Spared(wire[i]))'
  BY <1>3 DEF WireKnows, Spared
<1>5. done' \subseteq 1 .. edits'
  BY <1>2 DEF WireKnows, Fresh
<1>6. ASSUME NEW i \in DOMAIN wire', wire'[i].op = "edit"
      PROVE  wire'[i].edit \in (1 .. edits') \ done'
  BY <1>2, <1>3, <1>6 DEF WireKnows, Fresh
<1>7. ASSUME NEW i \in DOMAIN wire', NEW j \in DOMAIN wire',
             i < j, wire'[i].op = "edit", wire'[j].op = "edit"
      PROVE  wire'[i].edit # wire'[j].edit
  <2>1. i + 1 < j + 1
    BY <1>3, <1>7, SMT
  <2> QED BY <1>3, <1>7, <2>1 DEF WireKnows, Fresh
<1> QED BY <1>4, <1>5, <1>6, <1>7 DEF WireKnows, Fresh

\* Somebody edits at the device, or nobody does.
LEMMA WireStays ==
    ASSUME WireKnows, edits \in Nat, wire' = wire,
           \A q : Spared(q) => Spared(q)',
           \/ edits' = edits /\ done' = done
           \/ edits' = edits + 1 /\ done' = done \cup {edits + 1}
    PROVE  WireKnows'
<1>1. done \subseteq 1 .. edits
  BY DEF WireKnows, Fresh
<1>2. done' \subseteq 1 .. edits' /\ (1 .. edits) \ done \subseteq (1 .. edits') \ done'
  <2>1. CASE edits' = edits /\ done' = done
    BY <1>1, <2>1
  <2>2. CASE edits' = edits + 1 /\ done' = done \cup {edits + 1}
    <3>1. 1 .. edits \subseteq 1 .. edits' /\ edits + 1 \in (1 .. edits') \ (1 .. edits)
      BY <2>2, SMT
    <3> QED BY <1>1, <2>2, <3>1
  <2> QED BY <2>1, <2>2
<1>3. \A i \in DOMAIN wire : wire[i].op = "edit" => wire[i].edit \in (1 .. edits') \ done'
  BY <1>2 DEF WireKnows, Fresh
<1>4. (\A i \in DOMAIN wire : Spared(wire[i]))'
  BY DEF WireKnows, Spared
<1> QED BY <1>2, <1>3, <1>4 DEF WireKnows, Fresh

-----------------------------------------------------------------------------
(* The answers. *)

LEMMA QueueShrinks ==
    ASSUME Queued, answers \in Seq(Answers), answers # <<>>, woken = {},
           answers' = Tail(answers), woken' # {} => got' = Head(answers),
           UNCHANGED <<deviceVars, trackerVars, callVars, historyVars>>
    PROVE  Queued'
<1>1. 1 \in DOMAIN answers /\ Head(answers) = answers[1]
  BY TailOf
<1>2. \A i \in DOMAIN answers' :
         i \in Nat /\ 1 < i + 1 /\ i + 1 \in DOMAIN answers /\ answers'[i] = answers[i + 1]
  BY TailOf
<1>3. Unsaved' = Unsaved
  BY DEF Unsaved, deviceVars
<1>4. \A a : Sound(a) => Sound(a)'
  BY <1>3 DEF Sound, Marks, Quiet, Speaks, AtRisk, deviceVars, trackerVars, historyVars
<1>5. \A a : Covers(a) => Covers(a)'
  BY DEF Covers, Marks, callVars
<1>6. \A a, b : After(a, b) => After(a, b)'
  BY DEF After, Marks, Speaks, historyVars
<1>7. Pending' \subseteq Pending
  BY <1>1, <1>2 DEF Pending
<1>8. Ordered'
  <2>1. \A i, j \in DOMAIN answers' : i < j => i + 1 < j + 1
    BY <1>2, SMT
  <2>2. done' = done
    BY DEF historyVars
  <2> QED BY <1>1, <1>2, <2>1, <2>2 DEF Queued, Ordered, After, Marks, Speaks
<1> QED BY <1>4, <1>5, <1>7, <1>8 DEF Queued

LEMMA QueueGrows ==
    ASSUME Queued, answers \in Seq(Answers), NEW x \in Answers, answers' = Append(answers, x),
           woken' = woken, got' = got, done \subseteq done',
           \A a : Sound(a) => Sound(a)',
           \A a : Covers(a) => Covers(a)',
           Sound(x)', Covers(x)',
           \A a \in Pending : After(a, x)'
    PROVE  Queued'
<1>1. \A i \in DOMAIN answers' :
         \/ i \in DOMAIN answers /\ i < Len(answers) + 1 /\ answers'[i] = answers[i]
         \/ i = Len(answers) + 1 /\ answers'[i] = x
  BY AppendOf
<1>2. \A a \in Pending' : a \in Pending \/ a = x
  BY <1>1 DEF Pending
<1>3. \A a \in Pending' : Sound(a)' /\ Covers(a)'
  BY <1>2 DEF Queued
<1>4. ASSUME NEW i \in DOMAIN answers', NEW j \in DOMAIN answers', i < j
      PROVE  After(answers[i], answers[j])'
  <2>1. i \in DOMAIN answers /\ answers'[i] = answers[i]
    <3>1. i \in 1 .. Len(answers) + 1 /\ j \in 1 .. Len(answers) + 1 /\ Len(answers) \in Nat
      BY <1>1, <1>4, SMT
    <3> QED BY <1>1, <1>4, <3>1, SMT
  <2>2. CASE j \in DOMAIN answers /\ answers'[j] = answers[j]
    <3>1. After(answers[i], answers[j])
      BY <1>4, <2>1, <2>2 DEF Queued, Ordered
    <3> QED BY <2>1, <2>2, <3>1 DEF After, Marks, Speaks
  <2>3. CASE answers'[j] = x
    <3>1. answers[i] \in Pending
      BY <2>1 DEF Pending
    <3> QED BY <2>1, <2>3, <3>1 DEF After, Marks, Speaks
  <2> QED BY <1>1, <2>2, <2>3
<1>5. ASSUME woken' # {}, NEW j \in DOMAIN answers'
      PROVE  After(got, answers[j])'
  <2>1. got \in Pending /\ (j \in DOMAIN answers => After(got, answers[j]))
    BY <1>5 DEF Pending, Queued, Ordered
  <2> QED BY <1>1, <2>1 DEF After, Marks, Speaks
<1>6. Ordered'
  BY <1>4, <1>5 DEF Ordered
<1> QED BY <1>3, <1>6 DEF Queued

\* Nothing is answered or taken, or a woken call goes on.
LEMMA QueueStays ==
    ASSUME Queued, answers' = answers, woken' \subseteq woken, woken' # {} => got' = got,
           done \subseteq done',
           \A a \in Pending : Sound(a)' /\ Covers(a)'
    PROVE  Queued'
<1>1. Pending' \subseteq Pending
  BY DEF Pending
<1>2. Ordered'
  BY DEF Queued, Ordered, After, Marks, Speaks
<1> QED BY <1>1, <1>2 DEF Queued

\* The answer to a request, as the device has just carried it out, is sound, and
\* says what it must of every answer before it.
LEMMA AnswerSound ==
    ASSUME TypeOK, Known, Flagged, \A c \in Call : Keeps(c),
           NEW r, Named(r), r.op = "edit" => r.edit \notin done, Executes(r),
           NEW shown \in IF lag THEN {FALSE, bit} ELSE {bit},
           UNCHANGED <<dirty, recent, pc, call, acked, clean>>,
           NEW x, x.kind = Kind(r.op), x.bit = (r.op = "bit" /\ shown), x.held = Held(r)
    PROVE  Sound(x)' /\ Covers(x)' /\ \A a : Sound(a) => After(a, x)'
<1>1. CASE r.op = "edit" /\ Edited(r.edit) /\ lag' = (lag \/ ~bit)
  <2>1. x.kind = "edit" /\ x.held = {r.edit} /\ done' = done \cup {r.edit} /\ clean' = clean
    BY <1>1 DEF Held, Kind, Edited
  <2>2. done' \ clean' # {} /\ ~Marks(x) /\ ~Quiet(x)
    BY <1>1, <2>1 DEF Known, Marks, Quiet
  <2>3. Sound(x)' /\ Covers(x)'
    BY <2>1, <2>2 DEF Sound, Covers, Marks, Quiet, Speaks
  <2>4. \A a : Sound(a) => After(a, x)'
    BY <1>1, <2>1 DEF Sound, After, Marks
  <2> QED BY <2>3, <2>4
<1>2. CASE \/ r.op \in {"switch", "after"} /\ Loads(r.loc)
           \/ r.op \in {"save", "store"} /\ Stored(r.loc)
  <2>1. Unsaved' = {} /\ bit' = FALSE /\ done' = done
    BY <1>2, LoadsMoves, StoredMoves DEF Named
  <2>2. x.kind \in {"save", "switch"} /\ x.held = done
    BY <1>2 DEF Held, Kind
  <2>3. Marks(x) /\ ~Quiet(x) /\ ~Speaks(x)
    BY <2>2 DEF Marks, Quiet, Speaks
  <2>4. Sound(x)'
    BY <2>1, <2>2, <2>3 DEF Sound, Marks, Quiet, Speaks, Known
  <2>5. Covers(x)'
    BY <2>2 DEF Covers, Keeps
  <2>6. \A a : Sound(a) => After(a, x)'
    BY <2>1, <2>2, <2>3 DEF Sound, After, Marks, Speaks
  <2> QED BY <2>4, <2>5, <2>6
<1>3. CASE r.op \in {"bit", "where"} /\ UNCHANGED <<deviceVars, done>>
  <2>1. Unsaved' = Unsaved /\ done' = done /\ bit' = bit
    BY <1>3 DEF Unsaved, deviceVars
  <2>2. AtRisk' = AtRisk
    BY <2>1 DEF AtRisk
  <2>3. x.kind = r.op /\ ~Marks(x)
    BY <1>3 DEF Kind, Marks
  <2>4. Unsaved \subseteq done
    BY DEF Unsaved, Known
  <2>5. x.held \subseteq done /\ (x.held # {} => r.op = "bit" /\ ~lag /\ x.held = Unsaved)
    BY <1>3, <2>4 DEF Held
  <2>6. CASE Quiet(x)
    <3>1. r.op = "bit" /\ ~shown
      BY <2>3, <2>6 DEF Quiet
    <3>2. ~lag => Unsaved = {}
      BY <3>1 DEF Flagged
    <3>3. x.held = {} /\ (AtRisk # {} => recent)
      BY <2>5, <3>2 DEF Flagged, AtRisk
    <3>4. ~Speaks(x)
      BY <2>6 DEF Speaks, Quiet
    <3>5. Sound(x)'
      BY <2>1, <2>2, <2>3, <3>3, <3>4 DEF Sound, Marks, Quiet, Speaks
    <3> QED BY <2>3, <3>4, <3>5 DEF Covers, After, Marks, Speaks
  <2>7. CASE ~Quiet(x)
    <3>1. Speaks(x) => bit
      <4>1. Speaks(x) => x.bit
        BY <1>3, <2>3 DEF Speaks
      <4>2. shown => bit
        OBVIOUS
      <4> QED BY <4>1, <4>2
    <3>2. Sound(x)'
      BY <2>1, <2>3, <2>5, <2>7, <3>1 DEF Sound, Marks, Quiet, Speaks, Flagged
    <3>3. \A a : Sound(a) => After(a, x)'
      BY <2>1, <2>3, <3>1 DEF Sound, After, Marks, Speaks
    <3> QED BY <2>3, <3>2, <3>3 DEF Covers, Marks
  <2> QED BY <2>6, <2>7
<1> QED BY <1>1, <1>2, <1>3 DEF Executes

\* The next request is a new edit or names a location.
LEMMA HeadKnows ==
    ASSUME IInv, WireKnows, wire # <<>>
    PROVE  /\ Head(wire) \in Requests /\ Named(Head(wire)) /\ Spared(Head(wire))
           /\ Head(wire).op = "edit" => Head(wire).edit \notin done
<1>1. wire \in Seq(Requests)
  BY DEF IInv, WireTypes
<1>2. 1 \in DOMAIN wire /\ Head(wire) = wire[1]
  BY <1>1, TailOf
<1> QED BY <1>2, HeadType DEF IInv, WireKnows, Fresh

LEMMA ExecutesDone ==
    ASSUME NEW r, Executes(r)
    PROVE  done' = done \/ (r.op = "edit" /\ done' = done \cup {r.edit})
BY DEF Executes, Edited, Loads, Stored

LEMMA RepliesKnows ==
    ASSUME IInv, Knows, Replies
    PROVE  Knows'
<1> DEFINE r == Head(wire)
<1>1. /\ r \in Requests /\ Named(r) /\ (r.op = "edit" => r.edit \notin done)
      /\ Executes(r) /\ wire # <<>> /\ wire' = Tail(wire)
      /\ UNCHANGED <<dirty, recent, pc, call, woken, got, edits, acked, clean>>
  BY HeadKnows DEF Replies, Knows, trackerVars, callVars
<1>2. Kind(r.op) \in Stages /\ Held(r) \in SUBSET Edit /\ active \in Loc
  <2>1. Kind(r.op) \in Stages
    BY <1>1, KindType, SMT DEF Requests
  <2> QED BY <1>1, <2>1, HeldType DEF IInv, TypeOK
<1>3. PICK shown \in IF lag THEN {FALSE, bit} ELSE {bit} :
        answers' = Append(answers, [kind |-> Kind(r.op), bit |-> r.op = "bit" /\ shown,
                                    loc |-> IF r.op = "where" THEN active ELSE None,
                                    held |-> Held(r)])
  BY DEF Replies
<1>4. PICK x \in Answers :
        /\ x.kind = Kind(r.op) /\ x.bit = (r.op = "bit" /\ shown) /\ x.held = Held(r)
        /\ answers' = Append(answers, x)
  <2> DEFINE y == [kind |-> Kind(r.op), bit |-> r.op = "bit" /\ shown,
                   loc |-> IF r.op = "where" THEN active ELSE None, held |-> Held(r)]
  <2>1. y \in Answers
    BY <1>2 DEF Answers
  <2>2. /\ y.kind = Kind(r.op) /\ y.bit = (r.op = "bit" /\ shown) /\ y.held = Held(r)
        /\ answers' = Append(answers, y)
    BY <1>3
  <2> QED BY <2>1, <2>2
<1>5. Moves
  BY <1>1, ExecutesMoves DEF IInv, Knows
<1>6. /\ Known' /\ Flagged'
      /\ \A a : Sound(a) => Sound(a)'
      /\ \A a : Covers(a) => Covers(a)'
      /\ \A c \in Call : Keeps(c) => Keeps(c)'
      /\ \A q : Spared(q) => Spared(q)'
  BY <1>1, <1>5, MovesKeeps DEF Knows
<1>7. WireKnows'
  BY <1>1, <1>6, WireShrinks, ExecutesDone DEF IInv, Knows
<1>8. Sound(x)' /\ Covers(x)' /\ \A a : Sound(a) => After(a, x)'
  BY <1>1, <1>4, AnswerSound DEF IInv, Knows
<1>9. Queued'
  <2>1. \A a \in Pending : After(a, x)'
    BY <1>8 DEF Knows, Queued
  <2>2. answers \in Seq(Answers) /\ done \subseteq done'
    BY <1>5 DEF IInv, TypeOK, Moves
  <2> QED BY <1>1, <1>4, <1>6, <1>8, <2>1, <2>2, QueueGrows DEF Knows
<1> QED BY <1>6, <1>7, <1>9 DEF Knows

LEMMA SwallowsKnows ==
    ASSUME IInv, Knows, Swallows
    PROVE  Knows'
<1> DEFINE r == Head(wire)
<1>1. /\ Named(r) /\ (r.op = "edit" => r.edit \notin done)
      /\ wire # <<>> /\ wire' = Tail(wire)
      /\ UNCHANGED <<dirty, recent, pc, call, woken, got, answers, edits, acked, clean>>
  BY HeadKnows DEF Swallows, Knows, trackerVars, callVars
<1>2. Moves /\ (done' = done \/ (r.op = "edit" /\ done' = done \cup {r.edit}))
  <2>1. CASE Executes(r)
    BY <1>1, <2>1, ExecutesMoves, ExecutesDone DEF IInv, Knows
  <2>2. CASE UNCHANGED <<deviceVars, done>>
    BY <2>2, StaysMoves DEF deviceVars, Knows
  <2> QED BY <2>1, <2>2 DEF Swallows
<1>3. /\ Known' /\ Flagged'
      /\ \A a : Sound(a) => Sound(a)'
      /\ \A a : Covers(a) => Covers(a)'
      /\ \A c \in Call : Keeps(c) => Keeps(c)'
      /\ \A q : Spared(q) => Spared(q)'
  BY <1>1, <1>2, MovesKeeps DEF Knows
<1>4. WireKnows'
  BY <1>1, <1>2, <1>3, WireShrinks DEF IInv, Knows
<1>5. Queued'
  <2>1. \A a \in Pending : Sound(a)' /\ Covers(a)'
    BY <1>3 DEF Knows, Queued
  <2>2. done \subseteq done' /\ woken' \subseteq woken
    BY <1>1, <1>2 DEF Moves
  <2> QED BY <1>1, <2>1, <2>2, QueueStays DEF Knows
<1> QED BY <1>3, <1>4, <1>5 DEF Knows

LEMMA ByHandKnows ==
    ASSUME IInv, Knows, ByHand \/ Shows
    PROVE  Knows'
<1>1. UNCHANGED <<dirty, recent, pc, call, woken, got, wire, answers, acked, clean>>
  BY DEF ByHand, Shows, trackerVars, callVars, historyVars
<1>2. edits \in Nat
  BY BoundsAssumption, SMT DEF IInv, TypeOK
<1>3. /\ Moves
      /\ \/ edits' = edits /\ done' = done
         \/ edits' = edits + 1 /\ done' = done \cup {edits + 1}
  <2>1. CASE edits' = edits + 1 /\ Edited(edits + 1) /\ UNCHANGED lag
    <3>1. edits + 1 \notin done
      BY <1>2, SMT DEF Knows, WireKnows, Fresh
    <3> QED BY <2>1, <3>1, EditedMoves DEF Edited, Knows
  <2>2. CASE Stored(active) /\ UNCHANGED edits
    BY <2>2, StoredMoves DEF IInv, TypeOK, Knows
  <2>3. CASE \E l \in Loc : Loads(l) /\ UNCHANGED edits
    BY <2>3, LoadsMoves DEF Knows
  <2>4. CASE Shows
    BY <2>4, StaysMoves DEF Shows, Knows, historyVars
  <2> QED BY <2>1, <2>2, <2>3, <2>4 DEF ByHand
<1>4. /\ Known' /\ Flagged'
      /\ \A a : Sound(a) => Sound(a)'
      /\ \A a : Covers(a) => Covers(a)'
      /\ \A c \in Call : Keeps(c) => Keeps(c)'
      /\ \A q : Spared(q) => Spared(q)'
  BY <1>1, <1>3, MovesKeeps DEF Knows
<1>5. WireKnows'
  BY <1>1, <1>2, <1>3, <1>4, WireStays DEF Knows
<1>6. Queued'
  <2>1. \A a \in Pending : Sound(a)' /\ Covers(a)'
    BY <1>4 DEF Knows, Queued
  <2>2. done \subseteq done' /\ woken' \subseteq woken
    BY <1>1, <1>3 DEF Moves
  <2> QED BY <1>1, <2>1, <2>2, QueueStays DEF Knows
<1> QED BY <1>4, <1>5, <1>6 DEF Knows

-----------------------------------------------------------------------------
(* The calls. *)

\* A call sends a request, having learnt nothing that is not so.
LEMMA AsksKnows ==
    ASSUME CallTypes, WireTypes, WireKnows, edits \in Nat,
           NEW c \in Call, NEW k \in Calls, NEW stage \in Stages \ {"idle", "edit"},
           NEW l \in Loc \cup {None}, Asks(c, k, stage, l),
           UNCHANGED <<done, buffer, stored>>,
           Spares(k, stage) \subseteq done, Spares(k, stage) \cap Unsaved = {}
    PROVE  WireKnows'
<1> DEFINE r == [op |-> stage, loc |-> l, edit |-> 0, spares |-> Spares(k, stage)]
<1>1. Spares(k, stage) \in SUBSET Edit
  BY SMT DEF Spares, Calls
<1>2. r \in Requests /\ r.op # "edit" /\ r.spares = Spares(k, stage)
  BY <1>1, BoundsAssumption, SMT DEF Requests, Stages
<1>3. wire' = Append(wire, r) /\ edits' = edits
  BY DEF Asks
<1> HIDE DEF r
<1>4. Spared(r) /\ Unsaved' = Unsaved
  BY <1>2 DEF Spared, Unsaved
<1> QED BY <1>2, <1>3, <1>4, WireGrows

\* An edit that is begun is a new one.
LEMMA WritesKnows ==
    ASSUME WireTypes, WireKnows, edits \in 0 .. MaxEdits, NEW c, NEW k, Writes(c, k),
           UNCHANGED <<done, buffer, stored>>
    PROVE  WireKnows'
<1> DEFINE r == [op |-> "edit", loc |-> None, edit |-> edits + 1, spares |-> {}]
<1>1. r \in Requests /\ r.op = "edit" /\ r.edit = edits + 1 /\ r.spares = {}
  BY BoundsAssumption, SMT DEF Writes, Requests, Stages, Edit
<1>2. wire' = Append(wire, r) /\ edits' = edits + 1 /\ edits \in Nat
  BY BoundsAssumption, SMT DEF Writes
<1> HIDE DEF r
<1>3. Spared(r) /\ Unsaved' = Unsaved
  BY <1>1 DEF Spared, Unsaved
<1> QED BY <1>1, <1>2, <1>3, WireGrows

\* What the rest of a call goes by: what it knew, and the answer it has.
Learns(c, ok, a) ==
    pc'[c] # "idle" =>
        /\ pc'[c] # "bit"
        /\ pc'[c] = "where" => pc[c] = "bit" /\ BufferDirty(ok, a.bit)
        /\ call'[c].clean = call[c].clean
        /\ \/ call'[c].spares = call[c].spares
           \/ pc[c] = "bit" /\ call'[c].spares = call[c].spares \cup a.held

LEMMA ContinuesLearns ==
    ASSUME CallTypes, NEW c \in Call, pc[c] # "idle", NEW ok, NEW a, Heard(a),
           Continues(c, ok, a)
    PROVE  /\ Learns(c, ok, a)
           /\ \A d \in Call \ {c} : pc'[d] = pc[d] /\ call'[d] = call[d]
<1> DEFINE k == call[c]
           known == [k EXCEPT !.spares = @ \cup a.held]
<1>1. k \in Calls
  BY DEF CallTypes, Busy
<1>2. known.spares = k.spares \cup a.held /\ known.clean = k.clean
  BY <1>1, SMT DEF Calls
<1> HIDE DEF known
<1>3. \/ Ends(c)
      \/ Writes(c, k)
      \/ \E l : \E stage \in {"save", "switch", "store", "after"} : Asks(c, k, stage, l)
      \/ pc[c] = "bit" /\ BufferDirty(ok, a.bit) /\ Asks(c, known, "where", None)
      \/ pc[c] = "bit" /\ Asks(c, known, "switch", k.job.loc)
  BY DEF Continues, Refuses, Stores, known
<1>4. pc \in [Call -> Stages] /\ DOMAIN call = Call
  BY DEF CallTypes
<1>5. CASE Ends(c)
  BY <1>4, <1>5 DEF Ends, Learns
<1>6. CASE Writes(c, k)
  BY <1>4, <1>6 DEF Writes, Learns
<1>7. CASE \E l : \E stage \in {"save", "switch", "store", "after"} : Asks(c, k, stage, l)
  BY <1>4, <1>7 DEF Asks, Learns
<1>8. CASE pc[c] = "bit" /\ BufferDirty(ok, a.bit) /\ Asks(c, known, "where", None)
  BY <1>2, <1>4, <1>8 DEF Asks, Learns
<1>9. CASE pc[c] = "bit" /\ Asks(c, known, "switch", k.job.loc)
  BY <1>2, <1>4, <1>9 DEF Asks, Learns
<1> QED BY <1>3, <1>5, <1>6, <1>7, <1>8, <1>9

\* A navigation is only sent when it discards nothing it must not.
LEMMA ContinuesWire ==
    ASSUME CallTypes, WireTypes, WireKnows, edits \in 0 .. MaxEdits,
           NEW c \in Call, pc[c] # "idle", NEW ok \in BOOLEAN, NEW a, Heard(a),
           ok /\ pc[c] = "where" => a.loc \in Loc,
           Continues(c, ok, a),
           UNCHANGED <<done, buffer, stored>>,
           call[c].spares \subseteq done, a.held \subseteq done,
           pc[c] = "bit" /\ ~BufferDirty(ok, a.bit) =>
               (call[c].spares \cup a.held) \cap Unsaved = {},
           ok /\ pc[c] \in {"save", "store"} => call[c].spares \cap Unsaved = {}
    PROVE  WireKnows'
<1> DEFINE k == call[c]
           known == [k EXCEPT !.spares = @ \cup a.held]
<1>1. /\ k \in Calls /\ edits \in Nat
      /\ pc[c] # "edit" \/ k.job.kind = "apply" => k.job.loc \in Loc
  BY SMT DEF CallTypes, Busy
<1>2. known \in Calls /\ known.spares = k.spares \cup a.held /\ known.job = k.job
  BY <1>1, SMT DEF Calls, Heard
<1> HIDE DEF known
<1>3. CASE Ends(c)
  <2>1. wire' = wire /\ edits' = edits /\ Unsaved' = Unsaved
    BY <1>3 DEF Ends, Unsaved
  <2> QED BY <2>1 DEF WireKnows, Fresh, Spared
<1>4. CASE Writes(c, k)
  BY <1>4, WritesKnows
<1>5. CASE Applies(c) /\ Asks(c, k, "save", k.job.loc)
  <2>1. Spares(k, "save") = {} /\ "save" \in Stages \ {"idle", "edit"} /\ k.job.loc \in Loc
    BY <1>1, <1>5 DEF Spares, Stages, Applies
  <2> QED BY <1>1, <1>5, <2>1, AsksKnows
<1>6. CASE pc[c] = "bit" /\ Asks(c, known, "where", None)
  <2>1. Spares(known, "where") = {} /\ "where" \in Stages \ {"idle", "edit"}
    BY DEF Spares, Stages
  <2> QED BY <1>1, <1>2, <1>6, <2>1, AsksKnows
<1>7. CASE pc[c] = "bit" /\ ~BufferDirty(ok, a.bit) /\ Asks(c, known, "switch", k.job.loc)
  <2>1. Spares(known, "switch") \subseteq k.spares \cup a.held
    BY <1>2 DEF Spares
  <2>2. "switch" \in Stages \ {"idle", "edit"} /\ k.job.loc \in Loc
    BY <1>1, <1>7 DEF Stages
  <2> QED BY <1>1, <1>2, <1>7, <2>1, <2>2, AsksKnows
<1>8. CASE pc[c] = "where" /\ Stores(c, ok, a.loc)
  <2>1. Spares(k, "store") = {} /\ "store" \in Stages \ {"idle", "edit"}
    BY DEF Spares, Stages
  <2> QED BY <1>1, <1>8, <2>1, AsksKnows DEF Stores
<1>9. CASE pc[c] = "store" /\ ok /\ Asks(c, k, "switch", k.job.loc)
  <2>1. Spares(k, "switch") \subseteq k.spares
    BY DEF Spares
  <2>2. "switch" \in Stages \ {"idle", "edit"} /\ k.job.loc \in Loc
    BY <1>1, <1>9 DEF Stages
  <2> QED BY <1>1, <1>9, <2>1, <2>2, AsksKnows
<1>10. CASE pc[c] = "save" /\ ok /\ Asks(c, k, "after", k.job.loc)
  <2>1. Spares(k, "after") \subseteq k.spares
    BY DEF Spares
  <2>2. "after" \in Stages \ {"idle", "edit"} /\ k.job.loc \in Loc
    BY <1>1, <1>10 DEF Stages
  <2> QED BY <1>1, <1>10, <2>1, <2>2, AsksKnows
<1> QED
  BY <1>3, <1>4, <1>5, <1>6, <1>7, <1>8, <1>9, <1>10 DEF Continues, Refuses, known

LEMMA BeginKnows ==
    ASSUME IInv, Knows, NEW c \in Call, NEW j \in Jobs, Begin(c, j)
    PROVE  Knows'
<1> DEFINE k == [job |-> j, spares |-> acked, clean |-> clean]
<1>1. k \in Calls /\ k.job = j /\ k.spares = acked /\ k.clean = clean
  BY SMT DEF IInv, TypeOK, Calls
<1>2. /\ \/ Writes(c, k)
         \/ j.kind = "save" /\ Asks(c, k, "save", j.loc)
         \/ j.kind # "edit" /\ j.mode = "discard" /\ Asks(c, k, "switch", j.loc)
         \/ Asks(c, k, "bit", None)
      /\ woken = {}
      /\ UNCHANGED <<deviceVars, trackerVars, woken, got, answers, historyVars>>
  BY DEF Begin
<1> HIDE DEF k
<1>3. /\ CallTypes /\ WireTypes /\ WireKnows /\ edits \in 0 .. MaxEdits /\ edits \in Nat
      /\ pc \in [Call -> Stages] /\ DOMAIN call = Call
  BY BoundsAssumption, SMT DEF IInv, TypeOK, CallTypes, Knows
<1>4. UNCHANGED <<buffer, stored, bit, lag, dirty, recent, done, clean, acked>>
  BY <1>2 DEF deviceVars, trackerVars, historyVars
<1>5. Unsaved' = Unsaved /\ AtRisk' = AtRisk
  BY <1>4 DEF Unsaved, AtRisk
<1>6. WireKnows'
  <2>1. CASE Writes(c, k)
    BY <1>3, <1>4, <2>1, WritesKnows
  <2>2. CASE j.kind = "save" /\ Asks(c, k, "save", j.loc)
    <3>1. Spares(k, "save") = {} /\ "save" \in Stages \ {"idle", "edit"} /\ j.loc \in Loc
      BY <2>2, JobType DEF Spares, Stages
    <3> QED BY <1>1, <1>3, <1>4, <2>2, <3>1, AsksKnows
  <2>3. CASE j.kind # "edit" /\ j.mode = "discard" /\ Asks(c, k, "switch", j.loc)
    <3>1. Spares(k, "switch") = {} /\ "switch" \in Stages \ {"idle", "edit"} /\ j.loc \in Loc
      BY <1>1, <2>3, JobType DEF Spares, Stages
    <3> QED BY <1>1, <1>3, <1>4, <2>3, <3>1, AsksKnows
  <2>4. CASE Asks(c, k, "bit", None)
    <3>1. Spares(k, "bit") = {} /\ "bit" \in Stages \ {"idle", "edit"}
      BY DEF Spares, Stages
    <3> QED BY <1>1, <1>3, <1>4, <2>4, <3>1, AsksKnows
  <2> QED BY <1>2, <2>1, <2>2, <2>3, <2>4
<1>7. /\ call'[c] = k /\ pc'[c] \in {"edit", "save", "switch", "bit"}
      /\ \A d \in Call \ {c} : pc'[d] = pc[d] /\ call'[d] = call[d]
  BY <1>2, <1>3 DEF Writes, Asks
<1>8. Known' /\ Flagged'
  BY <1>4, <1>5 DEF Knows, Known, Flagged
<1>9. \A d \in Call : Keeps(d)'
  <2>1. Keeps(c)'
    BY <1>1, <1>4, <1>7 DEF Keeps, Knows, Known
  <2>2. ASSUME NEW d \in Call \ {c} PROVE Keeps(d)'
    BY <1>4, <1>7, <2>2 DEF Keeps, Knows
  <2> QED BY <2>1, <2>2
<1>10. ASSUME NEW a \in Pending PROVE Sound(a)' /\ Covers(a)'
  <2>1. Sound(a) /\ Covers(a)
    BY <1>10 DEF Knows, Queued
  <2>2. Sound(a)'
    BY <1>4, <1>5, <2>1 DEF Sound, Marks, Quiet, Speaks
  <2>3. Covers(a)'
    <3> SUFFICES ASSUME Marks(a), NEW d \in Call, pc'[d] # "idle"
                 PROVE  call'[d].spares \subseteq a.held
      BY DEF Covers, Marks
    <3>1. CASE d = c
      BY <1>1, <1>7, <2>1, <3>1 DEF Sound
    <3>2. CASE d # c
      BY <1>7, <2>1, <3>2 DEF Covers
    <3> QED BY <3>1, <3>2
  <2> QED BY <2>2, <2>3
<1>11. Queued'
  <2>1. woken' \subseteq woken /\ answers' = answers /\ got' = got /\ done \subseteq done'
    BY <1>2, <1>4
  <2> QED BY <1>10, <2>1, QueueStays DEF Knows
<1> QED BY <1>6, <1>8, <1>9, <1>11 DEF Knows

\* What an answer does to the flag, and to what is known.
Takes(a) ==
    \/ /\ a.kind = "edit"
       /\ acked' = acked \cup a.held /\ clean' = clean /\ dirty' = TRUE /\ recent' = TRUE
    \/ /\ Marks(a)
       /\ acked' = acked /\ clean' = a.held /\ dirty' = FALSE /\ recent' = recent
    \/ UNCHANGED <<acked, clean, dirty, recent>>

LEMMA GoesTakes ==
    ASSUME IInv, NEW c \in Call, Goes(c)
    PROVE  Takes(got)
<1>1. Kind(pc[c]) = got.kind
  BY DEF Goes, IInv, Woken
<1>2. CASE pc[c] = "edit"
  BY <1>1, <1>2 DEF Goes, Tracks, MarkDirty, Takes, Kind
<1>3. CASE Cleans(c)
  <2>1. pc[c] # "edit" /\ Marks(got)
    BY <1>1, <1>3 DEF Cleans, Kind, Marks
  <2>2. dirty' = FALSE /\ recent' = recent
    BY <1>3, <2>1 DEF Goes, Tracks, MarkClean
  <2>3. clean' = got.held /\ acked' = acked
    BY <1>3, <2>1 DEF Goes, Cleans, Kind
  <2> QED BY <2>1, <2>2, <2>3 DEF Takes
<1>4. CASE pc[c] # "edit" /\ ~Cleans(c)
  <2>1. UNCHANGED <<dirty, recent>>
    BY <1>4 DEF Goes, Tracks, KeepFlag
  <2>2. Kind(pc[c]) # "save" /\ ~(pc[c] = "switch" /\ ~Applies(c))
    BY <1>4 DEF Cleans, Kind
  <2>3. clean' = clean /\ acked' = acked
    BY <1>4, <2>2 DEF Goes
  <2> QED BY <2>1, <2>3 DEF Takes
<1> QED BY <1>2, <1>3, <1>4

\* Taking an answer leaves the flag right, and what the other answers say true.
LEMMA TakesKeeps ==
    ASSUME Known, Flagged, NEW g, Sound(g), Takes(g),
           UNCHANGED <<buffer, stored, bit, lag, done>>
    PROVE  /\ Known' /\ Flagged'
           /\ acked \subseteq acked' /\ clean \subseteq clean'
           /\ \A a : Sound(a) /\ (a = g \/ After(g, a)) => Sound(a)'
<1>1. Unsaved' = Unsaved
  BY DEF Unsaved
<1>2. CASE /\ g.kind = "edit"
           /\ acked' = acked \cup g.held /\ clean' = clean /\ dirty' = TRUE /\ recent' = TRUE
  <2>1. Speaks(g) /\ ~Marks(g) /\ ~Quiet(g)
    BY <1>2 DEF Speaks, Marks, Quiet
  <2>2. Known' /\ Flagged'
    BY <1>1, <1>2, <2>1 DEF Known, Flagged, Sound
  <2>3. ASSUME NEW a, Sound(a), a = g \/ After(g, a) PROVE Sound(a)'
    <3>1. Marks(a) => acked' \subseteq a.held
      BY <1>2, <2>1, <2>3 DEF Sound, After
    <3> QED BY <1>1, <1>2, <2>3, <3>1 DEF Sound, Marks, Quiet, Speaks
  <2> QED BY <1>2, <2>2, <2>3
<1>3. CASE /\ Marks(g)
           /\ acked' = acked /\ clean' = g.held /\ dirty' = FALSE /\ recent' = recent
  <2>1. AtRisk' = {} /\ AtRisk = {}
    BY <1>1, <1>3 DEF AtRisk, Sound
  <2>2. Known' /\ Flagged'
    BY <1>1, <1>3, <2>1 DEF Known, Flagged, Sound
  <2>3. ASSUME NEW a, Sound(a), a = g \/ After(g, a) PROVE Sound(a)'
    <3>1. Marks(a) => clean' \subseteq a.held
      BY <1>3, <2>3 DEF After
    <3>2. Speaks(a) => done' \ clean' # {}
      <4>1. ~Speaks(g)
        BY <1>3 DEF Marks, Speaks
      <4> QED BY <1>3, <2>3, <4>1 DEF After
    <3> QED BY <1>1, <1>3, <2>1, <2>3, <3>1, <3>2 DEF Sound, Marks, Quiet, Speaks
  <2>4. clean \subseteq clean'
    BY <1>3 DEF Sound
  <2> QED BY <1>3, <2>2, <2>3, <2>4
<1>4. CASE UNCHANGED <<acked, clean, dirty, recent>>
  <2>1. AtRisk' = AtRisk
    BY <1>1, <1>4 DEF AtRisk
  <2>2. Known' /\ Flagged'
    BY <1>1, <1>4, <2>1 DEF Known, Flagged
  <2>3. \A a : Sound(a) => Sound(a)'
    BY <1>1, <1>4, <2>1 DEF Sound, Marks, Quiet, Speaks
  <2> QED BY <1>4, <2>2, <2>3
<1> QED BY <1>2, <1>3, <1>4 DEF Takes

\* What a call learnt is covered by the acknowledgements still to come.
LEMMA LearnsKeeps ==
    ASSUME NEW c \in Call, pc[c] # "idle", NEW ok, NEW g, NEW a, Learns(c, ok, g), Covers(a),
           \A d \in Call \ {c} : pc'[d] = pc[d] /\ call'[d] = call[d],
           Marks(a) /\ pc[c] = "bit" => g.held \subseteq a.held
    PROVE  Covers(a)'
<1> SUFFICES ASSUME Marks(a), NEW d \in Call, pc'[d] # "idle"
             PROVE  call'[d].spares \subseteq a.held
  BY DEF Covers, Marks
<1>1. CASE d = c
  BY <1>1 DEF Covers, Learns
<1>2. CASE d # c
  BY <1>2 DEF Covers
<1> QED BY <1>1, <1>2

\* So is what it refuses for, and what it must spare, still so.
LEMMA LearnsKeepsCalls ==
    ASSUME NEW c \in Call, pc[c] # "idle", NEW ok, NEW g, Learns(c, ok, g),
           \A d \in Call \ {c} : pc'[d] = pc[d] /\ call'[d] = call[d],
           done' = done, acked \subseteq acked', clean \subseteq clean',
           \A d \in Call : Keeps(d),
           g.held \subseteq done,
           pc[c] = "bit" /\ BufferDirty(ok, g.bit) => done \ clean # {}
    PROVE  \A d \in Call : Keeps(d)'
<1>1. Keeps(c)'
  BY DEF Keeps, Learns
<1>2. ASSUME NEW d \in Call \ {c} PROVE Keeps(d)'
  BY <1>2 DEF Keeps
<1> QED BY <1>1, <1>2

LEMMA GoesKnows ==
    ASSUME IInv, Knows, NEW c \in Call, Goes(c)
    PROVE  Knows'
<1>1. /\ CallTypes /\ WireTypes /\ WireKnows /\ edits \in 0 .. MaxEdits
      /\ woken # {} /\ pc[c] # "idle" /\ got \in Answers /\ Kind(pc[c]) = got.kind
      /\ Located(got)
  BY DEF Goes, IInv, Woken, TypeOK, CallTypes, Knows
<1>2. Heard(got) /\ (pc[c] = "where" => got.loc \in Loc)
  BY <1>1, SMT DEF Heard, Answers, Located, Kind
<1>3. /\ Continues(c, TRUE, got) /\ answers' = answers /\ woken' \subseteq woken
      /\ woken' # {} => got' = got
      /\ UNCHANGED <<buffer, stored, bit, lag, done>>
  BY DEF Goes, deviceVars
<1>4. got \in Pending /\ Sound(got) /\ Covers(got) /\ Keeps(c)
  BY <1>1 DEF Knows, Queued, Pending
<1>5. /\ Learns(c, TRUE, got)
      /\ \A d \in Call \ {c} : pc'[d] = pc[d] /\ call'[d] = call[d]
  BY <1>1, <1>2, <1>3, ContinuesLearns
<1>6. /\ Known' /\ Flagged'
      /\ acked \subseteq acked' /\ clean \subseteq clean'
      /\ \A a : Sound(a) /\ (a = got \/ After(got, a)) => Sound(a)'
  BY <1>3, <1>4, GoesTakes, TakesKeeps DEF Knows
<1>7. WireKnows'
  <2>1. ASSUME pc[c] = "bit", ~BufferDirty(TRUE, got.bit)
        PROVE  (call[c].spares \cup got.held) \cap Unsaved = {}
    <3>1. Quiet(got) /\ ~(dirty /\ recent)
      BY <1>1, <2>1 DEF Quiet, BufferDirty, Kind
    <3>2. AtRisk = {} /\ got.held = {}
      BY <1>4, <3>1 DEF Sound, Knows, Flagged
    <3> QED BY <1>1, <1>4, <2>1, <3>2 DEF Keeps, AtRisk
  <2>2. ASSUME pc[c] \in {"save", "store"} PROVE call[c].spares \cap Unsaved = {}
    <3>1. Marks(got)
      BY <1>1, <2>2 DEF Marks, Kind
    <3> QED BY <1>1, <1>4, <3>1 DEF Sound, Covers
  <2>3. call[c].spares \subseteq done /\ got.held \subseteq done
    BY <1>1, <1>4 DEF Keeps, Sound
  <2> QED BY <1>1, <1>2, <1>3, <2>1, <2>2, <2>3, ContinuesWire
<1>8. \A d \in Call : Keeps(d)'
  <2>1. ASSUME pc[c] = "bit", BufferDirty(TRUE, got.bit) PROVE done \ clean # {}
    <3>1. got.kind = "bit" /\ (got.bit \/ dirty)
      BY <1>1, <2>1 DEF BufferDirty, Kind
    <3> QED BY <1>4, <3>1 DEF Sound, Speaks, Knows, Flagged
  <2>2. got.held \subseteq done /\ \A d \in Call : Keeps(d)
    BY <1>4 DEF Sound, Knows
  <2> QED BY <1>1, <1>3, <1>5, <1>6, <2>1, <2>2, LearnsKeepsCalls
<1>9. ASSUME NEW a \in Pending, a = got \/ After(got, a) PROVE Sound(a)' /\ Covers(a)'
  <2>1. Sound(a) /\ Covers(a)
    BY <1>9 DEF Knows, Queued
  <2>2. Marks(a) /\ pc[c] = "bit" => got.held \subseteq a.held
    BY <1>9 DEF After
  <2> QED BY <1>1, <1>5, <1>6, <1>9, <2>1, <2>2, LearnsKeeps
<1>10. \A a \in Pending : a = got \/ After(got, a)
  BY <1>1 DEF Pending, Knows, Queued, Ordered
<1>11. Queued'
  BY <1>3, <1>9, <1>10, QueueStays DEF Knows
<1> QED BY <1>6, <1>7, <1>8, <1>11 DEF Knows

LEMMA TimesOutKnows ==
    ASSUME IInv, Knows, NEW c \in Call, TimesOut(c)
    PROVE  Knows'
<1>1. /\ CallTypes /\ WireTypes /\ WireKnows /\ edits \in 0 .. MaxEdits
      /\ pc[c] # "idle" /\ Keeps(c)
  BY DEF TimesOut, IInv, TypeOK, CallTypes, Knows
<1>2. Heard(NoAnswer) /\ NoAnswer.held = {}
  BY SMT DEF Heard, NoAnswer, IInv, TypeOK
<1>3. /\ Continues(c, FALSE, NoAnswer) /\ answers' = answers /\ woken' = woken /\ got' = got
      /\ UNCHANGED <<buffer, stored, bit, lag, done, acked, clean>>
  BY DEF TimesOut, deviceVars, historyVars
<1>4. UNCHANGED <<dirty, recent>>
  BY DEF TimesOut, Tracks, KeepFlag
<1>5. Unsaved' = Unsaved /\ AtRisk' = AtRisk
  BY <1>3 DEF Unsaved, AtRisk
<1>6. /\ Learns(c, FALSE, NoAnswer)
      /\ \A d \in Call \ {c} : pc'[d] = pc[d] /\ call'[d] = call[d]
  BY <1>1, <1>2, <1>3, ContinuesLearns
<1>7. Known' /\ Flagged'
  BY <1>3, <1>4, <1>5 DEF Knows, Known, Flagged
<1>8. WireKnows'
  <2>1. ASSUME pc[c] = "bit", ~BufferDirty(FALSE, NoAnswer.bit)
        PROVE  (call[c].spares \cup NoAnswer.held) \cap Unsaved = {}
    <3>1. AtRisk = {}
      BY <2>1 DEF BufferDirty, Knows, Flagged
    <3> QED BY <1>1, <1>2, <2>1, <3>1 DEF Keeps, AtRisk
  <2>2. call[c].spares \subseteq done
    BY <1>1 DEF Keeps
  <2> QED BY <1>1, <1>2, <1>3, <2>1, <2>2, ContinuesWire
<1>9. \A d \in Call : Keeps(d)'
  <2>1. ASSUME pc[c] = "bit", BufferDirty(FALSE, NoAnswer.bit) PROVE done \ clean # {}
    BY <2>1 DEF BufferDirty, Knows, Flagged
  <2> QED BY <1>1, <1>2, <1>3, <1>6, <2>1, LearnsKeepsCalls DEF Knows
<1>10. ASSUME NEW a \in Pending PROVE Sound(a)' /\ Covers(a)'
  <2>1. Sound(a) /\ Covers(a)
    BY <1>10 DEF Knows, Queued
  <2>2. Sound(a)'
    BY <1>3, <1>4, <1>5, <2>1 DEF Sound, Marks, Quiet, Speaks
  <2> QED BY <1>1, <1>2, <1>6, <2>1, <2>2, LearnsKeeps
<1>11. Queued'
  BY <1>3, <1>10, QueueStays DEF Knows
<1> QED BY <1>7, <1>8, <1>9, <1>11 DEF Knows

LEMMA DeliverKnows ==
    ASSUME IInv, Knows, Deliver
    PROVE  Knows'
<1>1. UNCHANGED <<buffer, stored, bit, lag, dirty, recent, pc, call, wire, edits,
                  done, clean, acked>>
  BY DEF Deliver, deviceVars, trackerVars, callVars, historyVars
<1>2. Unsaved' = Unsaved /\ AtRisk' = AtRisk
  BY <1>1 DEF Unsaved, AtRisk
<1>3. Queued'
  <2>1. woken' # {} => got' = Head(answers)
    BY DEF Deliver
  <2> QED BY <2>1, QueueShrinks DEF Deliver, IInv, TypeOK, Knows
<1>4. Known' /\ Flagged' /\ \A c \in Call : Keeps(c)'
  BY <1>1, <1>2 DEF Knows, Known, Flagged, Keeps
<1>5. WireKnows'
  BY <1>1, <1>2 DEF Knows, WireKnows, Fresh, Spared
<1> QED BY <1>3, <1>4, <1>5 DEF Knows

LEMMA ForgetsKnows ==
    ASSUME IInv, Knows, Forgets \/ UNCHANGED vars
    PROVE  Knows'
<1>1. CASE Forgets
  <2>1. /\ UNCHANGED <<buffer, stored, bit, lag, dirty, pc, call, woken, got, wire, answers,
                       edits, done, clean, acked>>
        /\ ~lag /\ answers = <<>> /\ woken = {}
    BY <1>1 DEF Forgets, deviceVars, callVars, historyVars
  <2>2. Unsaved' = Unsaved /\ AtRisk' = AtRisk
    BY <2>1 DEF Unsaved, AtRisk
  <2>3. Pending' = {} /\ DOMAIN answers' = {}
    BY <2>1, SMT DEF Pending
  <2>4. Queued'
    BY <2>1, <2>3 DEF Queued, Ordered
  <2>5. Known' /\ Flagged' /\ \A c \in Call : Keeps(c)'
    BY <2>1, <2>2 DEF Knows, Known, Flagged, Keeps
  <2>6. WireKnows'
    BY <2>1, <2>2 DEF Knows, WireKnows, Fresh, Spared
  <2> QED BY <2>4, <2>5, <2>6 DEF Knows
<1>2. CASE UNCHANGED vars
  <2>1. UNCHANGED <<buffer, stored, bit, lag, dirty, recent, pc, call, woken, got, wire,
                    answers, edits, done, clean, acked>>
    BY <1>2 DEF vars, deviceVars, trackerVars, callVars, historyVars
  <2>2. Unsaved' = Unsaved /\ AtRisk' = AtRisk
    BY <2>1 DEF Unsaved, AtRisk
  <2>3. \A a \in Pending : Sound(a)' /\ Covers(a)'
    BY <2>1, <2>2 DEF Knows, Queued, Sound, Covers, Marks, Quiet, Speaks
  <2>4. Queued'
    BY <2>1, <2>3, QueueStays DEF Knows
  <2>5. Known' /\ Flagged' /\ \A c \in Call : Keeps(c)'
    BY <2>1, <2>2 DEF Knows, Known, Flagged, Keeps
  <2>6. WireKnows'
    BY <2>1, <2>2 DEF Knows, WireKnows, Fresh, Spared
  <2> QED BY <2>4, <2>5, <2>6 DEF Knows
<1> QED BY <1>1, <1>2

-----------------------------------------------------------------------------
(***************************************************************************)
(* What the flag, the answers under way and the calls know of the device   *)
(* is so in every reachable state: the flag is set while an acknowledged   *)
(* edit is unsaved, an acknowledged save covers what was done before it    *)
(* whenever its answer comes, and a bit that read clean too early is made  *)
(* up for by the two seconds the flag is trusted (bufferDirty.ts).         *)
(***************************************************************************)
THEOREM FlagIsRight == Spec => []Knows
<1>1. Init => Knows
  <2> SUFFICES ASSUME Init PROVE Knows
    OBVIOUS
  <2>1. DOMAIN wire = {} /\ DOMAIN answers = {} /\ Unsaved = {}
    BY SMT DEF Init, Unsaved
  <2>2. WireKnows
    BY <2>1 DEF Init, WireKnows, Fresh
  <2>3. Known /\ Flagged /\ \A c \in Call : Keeps(c)
    BY <2>1 DEF Init, Known, Flagged, AtRisk, Keeps
  <2>4. Queued
    BY <2>1 DEF Init, Queued, Ordered, Pending
  <2> QED BY <2>2, <2>3, <2>4 DEF Knows
<1>2. IInv /\ Knows /\ [Next]_vars => Knows'
  <2> SUFFICES ASSUME IInv, Knows, [Next]_vars PROVE Knows'
    OBVIOUS
  <2>1. ASSUME NEW c \in Call, NEW j \in Jobs, Begin(c, j) PROVE Knows'
    BY <2>1, BeginKnows
  <2>2. ASSUME NEW c \in Call, Goes(c) PROVE Knows'
    BY <2>2, GoesKnows
  <2>3. ASSUME NEW c \in Call, TimesOut(c) PROVE Knows'
    BY <2>3, TimesOutKnows
  <2>4. CASE Deliver
    BY <2>4, DeliverKnows
  <2>5. CASE Replies
    BY <2>5, RepliesKnows
  <2>6. CASE Swallows
    BY <2>6, SwallowsKnows
  <2>7. CASE ByHand \/ Shows
    BY <2>7, ByHandKnows
  <2>8. CASE Forgets \/ UNCHANGED vars
    BY <2>8, ForgetsKnows
  <2> QED BY <2>1, <2>2, <2>3, <2>4, <2>5, <2>6, <2>7, <2>8 DEF Next
<1> QED BY <1>1, <1>2, Inductive, PTL DEF Spec

(***************************************************************************)
(* Neither a navigation that was not told to discard edits nor the switch  *)
(* after a save takes an edit from the buffer, unsaved, that was           *)
(* acknowledged before the call began or that the edited bit spoke for:    *)
(* for any number of calls of any kinds, of locations, edits and requests  *)
(* under way.                                                              *)
(***************************************************************************)
THEOREM NeverDiscardsSilently == Spec => NoSilentDiscard
<1>1. IInv /\ Knows =>
        (wire # <<>> /\ wire' = Tail(wire) => (Unsaved \ buffer') \cap Head(wire).spares = {})
  BY HeadKnows DEF Knows, Spared
<1> QED BY <1>1, Inductive, FlagIsRight, PTL DEF NoSilentDiscard

(***************************************************************************)
(* A navigation is only refused when the device was edited since the last  *)
(* save, or switch of switch_preset, that was acknowledged when it began:  *)
(* no answer that came late or for another call refuses one.  The switch   *)
(* of apply_preset and the one after a save leave the flag as it was.      *)
(***************************************************************************)
THEOREM RefusesForCause == Spec => RefusalHasCause
<1>1. Knows => \A c \in Call : Refused(c) => done \ call[c].clean # {}
  BY DEF Knows, Keeps, Refused
<1> QED BY <1>1, FlagIsRight, PTL DEF RefusalHasCause
=============================================================================
