--------------------------- MODULE ChannelMemory ---------------------------
(***************************************************************************)
(* What the server remembers of a block of the AM4 between calls:          *)
(*                                                                         *)
(*   channels.ts           the channel it switched the block to, its type  *)
(*   writer.ts             who uses, sets and clears that memory           *)
(*   applyExecutor.ts      likewise                                        *)
(*   midi-control.ts, connections.ts   what a new handle does to it        *)
(*                                                                         *)
(* Each channel of the block holds a type of its own.  A request takes     *)
(* effect when it is sent, or is swallowed; its echo comes in order, as    *)
(* late as it likes or never, and names the register but not the value.    *)
(* Calls interleave at their awaits, and somebody plays with the device.   *)
(***************************************************************************)
EXTENDS Naturals, Sequences

CONSTANTS
    Call,       \* tool calls in progress at once
    Channel,    \* channels of the block
    Type,       \* its types
    Exposing,   \* the types that expose the knob that is written
    MaxCalls,   \* bound: calls and reconnects
    MaxByHand,  \* bound: changes at the device
    MaxLost,    \* bound: requests or echoes lost
    None

ASSUME NoneAssumption == None \notin Channel \cup Type
ASSUME ExposingAssumption == Exposing \subseteq Type
ASSUME BoundsAssumption == MaxCalls \in Nat /\ MaxByHand \in Nat /\ MaxLost \in Nat

VARIABLES
    chan,       \* the channel the block is on
    types,      \* the type each channel holds
    knownChan,  \* lastKnownChannel
    knownType,  \* lastKnownType
    conn,       \* the handle, by number
    pc,         \* what a call waits for
    job,        \* what it is to do
    woken,      \* calls that go on with an echo they waited for
    inbox,      \* echoes on their way
    calls, changes, losses, \* counted, for the bounds
    doubt,      \* history: a request was swallowed or not confirmed, two calls
                \* moved the block at once, or somebody changed something by
                \* hand, since the channel was forgotten
    retyped,    \* history: the type may have changed since it was written
    astray,     \* history: a write landed on another channel than it was to
    baseless    \* history: a knob was refused that the type exposes

deviceVars == <<chan, types>>
memoryVars == <<knownChan, knownType>>
callVars == <<pc, job>>
wireVars == <<inbox, losses>>
countVars == <<calls, changes>>
pastVars == <<retyped, astray, baseless>>
vars == <<deviceVars, memoryVars, conn, callVars, woken, wireVars, countVars, doubt, pastVars>>

\* A write of a knob or of the type, perhaps for a channel; a write of the
\* channel itself; a switch.  alone: no other call changed anything meanwhile.
Kinds == {"knob", "type", "channel", "preset", "scene"}
Jobs == [kind : Kinds, chan : Channel \cup {None}, type : Type \cup {None},
         conn : 0 .. MaxCalls, alone : BOOLEAN]

(***************************************************************************)
(* TypeOK: every variable stays in its range; an echo wakes only calls in  *)
(* progress, on the handle they began with; and a switch that is waited    *)
(* for is to the channel that the write after it is for.                   *)
(***************************************************************************)
TypeOK ==
    /\ chan \in Channel /\ types \in [Channel -> Type]
    /\ knownChan \in Channel \cup {None} /\ knownType \in Type \cup {None}
    /\ conn \in 0 .. MaxCalls
    /\ pc \in [Call -> {"idle", "channel", "write"}] /\ job \in [Call -> Jobs]
    /\ woken \in SUBSET Call
    /\ \A c \in woken : pc[c] # "idle" /\ job[c].conn = conn
    /\ \A c \in Call : pc[c] = "channel" => job[c].chan \in Channel /\ job[c].kind \in {"knob", "type"}
    /\ inbox \in Seq(Kinds)
    /\ calls \in 0 .. MaxCalls /\ changes \in 0 .. MaxByHand /\ losses \in 0 .. MaxLost
    /\ doubt \in BOOLEAN /\ retyped \in BOOLEAN
    /\ astray \in BOOLEAN /\ baseless \in BOOLEAN

NoJob == [kind |-> "knob", chan |-> None, type |-> None, conn |-> 0, alone |-> TRUE]

Init ==
    /\ chan \in Channel /\ types \in [Channel -> Type]
    /\ knownChan = None /\ knownType = None
    /\ conn = 0
    /\ pc = [c \in Call |-> "idle"] /\ job = [c \in Call |-> NoJob]
    /\ woken = {} /\ inbox = <<>>
    /\ calls = 0 /\ changes = 0 /\ losses = 0
    /\ doubt = FALSE /\ retyped = FALSE
    /\ astray = FALSE /\ baseless = FALSE

-----------------------------------------------------------------------------
(* The device and the wire. *)

Obeys(kind, ch, t) ==
    \/ kind = "knob" /\ UNCHANGED deviceVars
    \/ kind = "type" /\ types' = [types EXCEPT ![chan] = t] /\ UNCHANGED chan
    \/ kind = "channel" /\ chan' = ch /\ UNCHANGED types
    \/ kind = "scene" /\ chan' \in Channel /\ UNCHANGED types
    \/ kind = "preset" /\ chan' \in Channel /\ types' \in [Channel -> Type]

\* A request that gets lost on its way out, or its echo on the way back.
Loses == losses < MaxLost /\ losses' = losses + 1

\* Requests after which the block is on another channel, or has another type.
Moves(kind) == kind \in {"channel", "preset", "scene"}
Retypes(kind) == Moves(kind) \/ kind = "type"

-----------------------------------------------------------------------------
(* The calls.  Each step runs from one await to the next. *)

\* The register whose echo a call waits for.
Register(c) == IF pc[c] = "write" THEN job[c].kind ELSE pc[c]

OthersMove(c) == \E d \in Call \ {c} : Moves(Register(d))

Sends(c, kind, ch, t) ==
    \/ Loses /\ UNCHANGED <<deviceVars, inbox>> /\ doubt' = (doubt \/ Retypes(kind))
    \/ /\ Obeys(kind, ch, t)
       /\ doubt' = (doubt \/ (Moves(kind) /\ OthersMove(c)))
       /\ \/ inbox' = Append(inbox, kind) /\ UNCHANGED losses
          \/ UNCHANGED inbox /\ Loses

\* What the call was to do is not kept over the await.
WaitsForgetful(c, stage, j) ==
    /\ pc' = [pc EXCEPT ![c] = stage]
    /\ job' = [job EXCEPT ![c] = [NoJob EXCEPT !.conn = j.conn]]

\* A call that changes something disturbs the others.
Waits(c, stage, j) ==
    /\ pc' = [pc EXCEPT ![c] = stage]
    /\ job' = [d \in Call |-> IF d = c THEN j
                              ELSE [job[d] EXCEPT !.alone = @ /\ j.kind = "knob" /\ stage = "write"]]

Ends(c) ==
    /\ pc' = [pc EXCEPT ![c] = "idle"]
    /\ job' = [job EXCEPT ![c] = NoJob]

\* The write itself.
Writes(c, j) ==
    /\ Sends(c, j.kind, j.chan, j.type)
    /\ Waits(c, "write", j)
    /\ retyped' = (retyped \/ Retypes(j.kind))
    /\ astray' = (astray \/ /\ ~Moves(j.kind) /\ j.chan \notin {None, chan}
                            /\ ~doubt /\ ~OthersMove(c))
    /\ UNCHANGED baseless

\* switchBlockChannel: nothing is sent if the channel is the remembered one.
Switches(j) == ~Moves(j.kind) /\ j.chan \notin {None, knownChan}

\* A knob is refused unless the remembered type exposes it.
GatedUnknown(j) == j.kind = "knob" /\ knownType \notin Exposing

\* The gate of set_params and of apply_preset: a knob of a type that is
\* remembered and does not expose it.
Gated(j) == j.kind = "knob" /\ knownType \notin Exposing \cup {None}

AllIdle == \A c \in Call : pc[c] = "idle"

\* A call that begins now.
Job(kind, ch, t) ==
    [kind |-> kind, chan |-> ch, type |-> t, conn |-> conn, alone |-> AllIdle]

Requests ==
    {Job("knob", ch, None) : ch \in Channel \cup {None}}
        \cup {Job("type", ch, t) : ch \in Channel \cup {None}, t \in Type}
        \cup {Job("channel", ch, None) : ch \in Channel}
        \cup {Job(k, None, None) : k \in {"preset", "scene"}}

\* set_params refuses a gated knob, set_param writes it.
Begin(c) ==
    /\ pc[c] = "idle" /\ woken = {} /\ calls < MaxCalls
    /\ calls' = calls + 1
    /\ \E j \in Requests :
          \/ /\ Gated(j)
             /\ baseless' = (baseless \/ /\ types[chan] \in Exposing /\ j.chan \in {None, chan}
                                         /\ ~retyped)
             /\ UNCHANGED <<deviceVars, callVars, wireVars, doubt, retyped, astray>>
          \/ /\ Switches(j)
             /\ Sends(c, "channel", j.chan, None)
             /\ Waits(c, "channel", j)
             /\ retyped' = TRUE
             /\ UNCHANGED <<astray, baseless>>
          \/ ~Switches(j) /\ Writes(c, j)
    /\ UNCHANGED <<memoryVars, conn, woken, changes>>

\* A scene is taken for a matter of volume.
LearnsNoScene(j, acked) ==
    /\ knownChan' = IF j.kind = "preset" THEN None
                    ELSE IF j.kind = "channel" /\ acked THEN j.chan ELSE knownChan
    /\ knownType' = IF j.kind = "type" /\ acked THEN j.type ELSE knownType

\* What is cleared on the echo or without it, and what the echo shows.
Learns(j, acked) ==
    /\ knownChan' = IF j.kind \in {"preset", "scene"} THEN None
                    ELSE IF j.kind = "channel" /\ acked THEN j.chan ELSE knownChan
    /\ knownType' = IF j.kind = "type" /\ acked THEN j.type ELSE knownType

\* The calls an echo resolves go on one after the other.
Goes(c) ==
    /\ c \in woken
    /\ woken' = woken \ {c}
    /\ LET j == job[c]
       IN  \/ /\ pc[c] = "channel"
              /\ knownChan' = j.chan
              /\ Writes(c, j)
              /\ UNCHANGED knownType
           \/ /\ pc[c] = "write"
              /\ Learns(j, TRUE)
              /\ Ends(c)
              /\ doubt' = (doubt /\ (j.kind \notin {"preset", "scene"} \/ OthersMove(c)))
              /\ retyped' = (retyped /\ ~(j.kind = "type" /\ j.alone /\ ~doubt))
              /\ UNCHANGED <<deviceVars, wireVars, astray, baseless>>
    /\ UNCHANGED <<conn, countVars>>

\* A wait runs out: a write to a channel that was not confirmed is not made.
TimesOut(c) ==
    /\ pc[c] # "idle" /\ woken = {}
    /\ Ends(c)
    /\ \/ pc[c] = "channel" /\ doubt' = TRUE /\ UNCHANGED memoryVars
       \/ /\ pc[c] = "write"
          /\ Learns(job[c], FALSE)
          /\ doubt' = (doubt \/ Retypes(job[c].kind))
    /\ UNCHANGED <<deviceVars, conn, woken, wireVars, countVars, pastVars>>

-----------------------------------------------------------------------------
(* What arrives, and the handle. *)

\* An echo resolves every wait on its register.
Deliver ==
    /\ inbox # <<>> /\ woken = {}
    /\ inbox' = Tail(inbox)
    /\ woken' = {c \in Call : job[c].conn = conn /\ Register(c) = Head(inbox)}
    /\ UNCHANGED <<deviceVars, memoryVars, conn, callVars, losses, countVars, doubt, pastVars>>

\* reconnect_midi forgets the channel; a handle that ensureConnection replaces
\* for its silence leaves the memory as it was.
Reconnects ==
    /\ woken = {} /\ calls < MaxCalls
    /\ calls' = calls + 1 /\ conn' = conn + 1
    /\ inbox' = <<>>
    /\ \/ knownChan' = None /\ doubt' = (\E c \in Call : Moves(Register(c)))
       \/ UNCHANGED <<knownChan, doubt>>
    /\ UNCHANGED <<deviceVars, knownType, callVars, woken, losses, changes, pastVars>>

\* Somebody changes the channel, a type, the scene or the preset.
ByHand ==
    /\ changes < MaxByHand /\ woken = {}
    /\ changes' = changes + 1
    /\ chan' \in Channel /\ types' \in [Channel -> Type]
    /\ doubt' = TRUE /\ retyped' = TRUE
    /\ job' = [c \in Call |-> [job[c] EXCEPT !.alone = FALSE]]
    /\ UNCHANGED <<memoryVars, conn, pc, woken, wireVars, calls, astray, baseless>>

Next ==
    \/ \E c \in Call : Begin(c) \/ Goes(c) \/ TimesOut(c)
    \/ Deliver \/ Reconnects \/ ByHand

Spec == Init /\ [][Next]_vars

-----------------------------------------------------------------------------
(***************************************************************************)
(* LandsWhereAsked: a write that asks for a channel is made to that        *)
(* channel, unless somebody moved it by hand, two calls moved it at once,  *)
(* or a request went unconfirmed since the channel was last forgotten, or  *)
(* another call is moving it at that moment; late and mistaken echoes do   *)
(* no harm beyond that.                                                    *)
(***************************************************************************)
LandsWhereAsked == ~astray

(***************************************************************************)
(* RefusalIsFounded: a knob is refused for the type of the channel the     *)
(* block is on only if that type does not expose it, unless the channel,   *)
(* the scene or the preset may have changed since the type was written.    *)
(***************************************************************************)
RefusalIsFounded == ~baseless

(***************************************************************************)
(* NeverTheWrongChannel: after a switch that was not confirmed nothing is  *)
(* written to the wrong channel, as switchBlockChannel says: with one call *)
(* at a time and nobody at the device, a write that asks for a channel is  *)
(* made to it.                                                             *)
(***************************************************************************)
NeverTheWrongChannel ==
    [][\A c \in Call :
          pc[c] # "write" /\ pc'[c] = "write" /\ ~Moves(job'[c].kind)
              => job'[c].chan \in {None, chan}]_vars
=============================================================================
