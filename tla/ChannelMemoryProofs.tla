------------------------ MODULE ChannelMemoryProofs ------------------------
(***************************************************************************)
(* What TLAPS proves of ChannelMemory, for every number of calls, channels *)
(* and types, and any number of changes by hand and of losses.             *)
(*                                                                         *)
(* That writes land where they are asked to is not inductive.  What is     *)
(* kept is that, while nothing is in doubt, at most one call is moving the *)
(* block, the block is where a switch in progress wants it, and where the  *)
(* server remembers it to be once no call is moving it.                    *)
(***************************************************************************)
EXTENDS ChannelMemory, TLAPS

\* The call has the block in motion.
Moving(c) == Moves(Register(c))

\* The call changes neither channel nor type.
Plain(c) == pc[c] = "idle" \/ (pc[c] = "write" /\ job[c].kind = "knob")

\* What a call under way has, and that it was alone only if it still is.
JobSound(c) ==
    /\ job[c].conn =< conn
    /\ pc[c] # "idle" => /\ job[c].kind = "type" => job[c].type \in Type
                         /\ job[c].kind = "channel" => job[c].chan \in Channel
                         /\ job[c].alone => \A d \in Call \ {c} : Plain(d)

JobsSound == conn =< calls /\ \A c \in Call : JobSound(c)

\* Whatever may have changed the type is on record.
Changed == (doubt => retyped) /\ \A c \in Call : Plain(c) \/ retyped

\* Where the block is, while nothing is in doubt.
Followed ==
    ~doubt => /\ \A c, d \in Call : Moving(c) /\ Moving(d) => c = d
              /\ \A c \in Call : Register(c) = "channel" => chan = job[c].chan
              /\ (\A c \in Call : ~Moving(c)) => knownChan \in {None, chan}

\* A type that is being written, and that is remembered, is the block's.
TypesSound ==
    /\ \A c \in Call :
          /\ pc[c] = "write" /\ job[c].kind = "type" /\ job[c].alone
          /\ job[c].conn = conn /\ ~doubt
          => types[chan] = job[c].type
    /\ ~retyped => knownType \in {None, types[chan]}

IInv ==
    /\ TypeOK /\ JobsSound /\ Changed /\ Followed /\ TypesSound
    /\ LandsWhereAsked /\ RefusalIsFounded

USE NoneAssumption, BoundsAssumption

-----------------------------------------------------------------------------
(* Requests and jobs. *)

\* A request that is sent leaves the block with a channel and types, and only
\* one that moves it, or gives it a type, changes these.
LEMMA SendsSteps ==
    ASSUME TypeOK, NEW c \in Call, NEW kind \in Kinds, NEW ch, NEW t,
           kind = "channel" => ch \in Channel, kind = "type" => t \in Type,
           Sends(c, kind, ch, t)
    PROVE  /\ chan' \in Channel /\ types' \in [Channel -> Type]
           /\ inbox' \in Seq(Kinds) /\ losses' \in 0 .. MaxLost /\ doubt' \in BOOLEAN
           /\ ~doubt' => ~doubt /\ ~(Moves(kind) /\ OthersMove(c))
           /\ doubt' => doubt \/ Retypes(kind)
           /\ ~Moves(kind) => chan' = chan
           /\ ~Retypes(kind) => types' = types
           /\ ~doubt' /\ kind = "channel" => chan' = ch
           /\ ~doubt' /\ kind = "type" => types'[chan'] = t
<1>1. /\ chan \in Channel /\ types \in [Channel -> Type]
      /\ inbox \in Seq(Kinds) /\ losses \in 0 .. MaxLost /\ doubt \in BOOLEAN
  BY DEF TypeOK
<1>2. OthersMove(c) \in BOOLEAN /\ Moves(kind) \in BOOLEAN /\ Retypes(kind) \in BOOLEAN
  BY DEF OthersMove, Moves, Retypes
<1>3. Loses => losses' \in 0 .. MaxLost
  BY <1>1, SMT DEF Loses
<1>4. Append(inbox, kind) \in Seq(Kinds)
  BY <1>1, SMT
<1>5. CASE Loses /\ UNCHANGED <<deviceVars, inbox>> /\ doubt' = (doubt \/ Retypes(kind))
  BY <1>1, <1>2, <1>3, <1>5 DEF deviceVars, Moves, Retypes
<1>6. CASE /\ Obeys(kind, ch, t)
           /\ doubt' = (doubt \/ (Moves(kind) /\ OthersMove(c)))
           /\ \/ inbox' = Append(inbox, kind) /\ UNCHANGED losses
              \/ UNCHANGED inbox /\ Loses
  <2>1. /\ inbox' \in Seq(Kinds) /\ losses' \in 0 .. MaxLost
    BY <1>1, <1>3, <1>4, <1>6
  <2>2. /\ chan' \in Channel /\ types' \in [Channel -> Type]
        /\ ~Moves(kind) => chan' = chan
        /\ ~Retypes(kind) => types' = types
        /\ kind = "channel" => chan' = ch
        /\ kind = "type" => types'[chan'] = t
    BY <1>1, <1>6, SMT DEF Obeys, Kinds, Moves, Retypes, deviceVars
  <2>3. /\ doubt' \in BOOLEAN
        /\ ~doubt' => ~doubt /\ ~(Moves(kind) /\ OthersMove(c))
        /\ doubt' => doubt \/ Retypes(kind)
    BY <1>1, <1>2, <1>6 DEF Retypes
  <2> QED  BY <2>1, <2>2, <2>3
<1> QED  BY <1>5, <1>6 DEF Sends

\* A call that goes on to wait keeps the jobs of the others, but for what it
\* does to their being alone.
LEMMA WaitsSteps ==
    ASSUME TypeOK, NEW c \in Call, NEW stage \in {"channel", "write"}, NEW j \in Jobs,
           Waits(c, stage, j)
    PROVE  /\ pc' \in [Call -> {"idle", "channel", "write"}] /\ job' \in [Call -> Jobs]
           /\ pc'[c] = stage /\ job'[c] = j
           /\ \A d \in Call \ {c} :
                 /\ pc'[d] = pc[d] /\ job'[d].kind = job[d].kind
                 /\ job'[d].chan = job[d].chan /\ job'[d].type = job[d].type
                 /\ job'[d].conn = job[d].conn
                 /\ job'[d].alone => job[d].alone /\ j.kind = "knob" /\ stage = "write"
<1>1. pc \in [Call -> {"idle", "channel", "write"}] /\ job \in [Call -> Jobs]
  BY DEF TypeOK
<1>2. \A d \in Call : [job[d] EXCEPT !.alone = @ /\ j.kind = "knob" /\ stage = "write"] \in Jobs
  <2> TAKE d \in Call
  <2>1. job[d] \in Jobs
    BY <1>1
  <2>2. (job[d].alone /\ j.kind = "knob" /\ stage = "write") \in BOOLEAN
    OBVIOUS
  <2> QED  BY <2>1, <2>2 DEF Jobs
<1>3. job' \in [Call -> Jobs]
  BY <1>1, <1>2 DEF Waits
<1>4. pc' \in [Call -> {"idle", "channel", "write"}] /\ pc'[c] = stage
      /\ \A d \in Call \ {c} : pc'[d] = pc[d]
  BY <1>1 DEF Waits
<1>5. job'[c] = j
  BY DEF Waits
<1>6. ASSUME NEW d \in Call \ {c}
      PROVE  /\ job'[d].kind = job[d].kind /\ job'[d].chan = job[d].chan
             /\ job'[d].type = job[d].type /\ job'[d].conn = job[d].conn
             /\ job'[d].alone => job[d].alone /\ j.kind = "knob" /\ stage = "write"
  <2>1. job'[d] = [job[d] EXCEPT !.alone = @ /\ j.kind = "knob" /\ stage = "write"]
    BY DEF Waits
  <2>2. job[d] \in Jobs
    BY <1>1
  <2> QED  BY <2>1, <2>2 DEF Jobs
<1> QED  BY <1>3, <1>4, <1>5, <1>6

\* Such a call leaves the others where they were.
LEMMA OthersStay ==
    ASSUME NEW d \in Call, pc'[d] = pc[d], job'[d].kind = job[d].kind
    PROVE  /\ Register(d)' = Register(d) /\ (Moving(d))' = Moving(d) /\ (Plain(d))' = Plain(d)
  BY DEF Register, Moving, Plain, Moves

-----------------------------------------------------------------------------
(* A request goes out, and its call waits. *)

\* What every step keeps but for what has gone wrong.
Kept ==
    /\ chan \in Channel /\ types \in [Channel -> Type]
    /\ knownChan \in Channel \cup {None} /\ knownType \in Type \cup {None}
    /\ conn \in 0 .. MaxCalls
    /\ pc \in [Call -> {"idle", "channel", "write"}] /\ job \in [Call -> Jobs]
    /\ woken \in SUBSET Call
    /\ \A c \in woken : pc[c] # "idle" /\ job[c].conn = conn
    /\ \A c \in Call : pc[c] = "channel" => job[c].chan \in Channel /\ job[c].kind \in {"knob", "type"}
    /\ inbox \in Seq(Kinds)
    /\ calls \in 0 .. MaxCalls /\ changes \in 0 .. MaxByHand /\ losses \in 0 .. MaxLost
    /\ doubt \in BOOLEAN /\ retyped \in BOOLEAN
    /\ JobsSound /\ Changed /\ Followed /\ TypesSound

LEMMA GoesOut ==
    ASSUME IInv, NEW c \in Call, NEW stage \in {"channel", "write"}, NEW j \in Jobs, NEW t,
           NEW kind \in Kinds, kind = IF stage = "write" THEN j.kind ELSE "channel",
           kind = "type" => t = j.type,
           stage = "channel" => j.chan \in Channel /\ j.kind \in {"knob", "type"},
           j.kind = "channel" => j.chan \in Channel,
           j.kind = "type" => j.type \in Type,
           j.conn =< conn, j.alone => \A d \in Call \ {c} : Plain(d),
           Sends(c, kind, j.chan, t), Waits(c, stage, j),
           retyped' = (retyped \/ Retypes(kind)),
           knownChan' \in Channel \cup {None}, knownType' = knownType,
           ~doubt /\ ~OthersMove(c) => knownChan' \in {None, chan},
           conn' = conn, calls' \in 0 .. MaxCalls, conn =< calls',
           woken' \in SUBSET Call, woken' \subseteq woken \ {c}, changes' = changes
    PROVE  Kept'
<1>1. TypeOK /\ JobsSound /\ Changed /\ Followed /\ TypesSound
  BY DEF IInv
<1>2. /\ chan' \in Channel /\ types' \in [Channel -> Type]
      /\ inbox' \in Seq(Kinds) /\ losses' \in 0 .. MaxLost /\ doubt' \in BOOLEAN
      /\ ~doubt' => ~doubt /\ ~(Moves(kind) /\ OthersMove(c))
      /\ doubt' => doubt \/ Retypes(kind)
      /\ ~Moves(kind) => chan' = chan
      /\ ~Retypes(kind) => types' = types
      /\ ~doubt' /\ kind = "channel" => chan' = j.chan
      /\ ~doubt' /\ kind = "type" => types'[chan'] = t
  BY <1>1, SendsSteps
<1>3. /\ pc' \in [Call -> {"idle", "channel", "write"}] /\ job' \in [Call -> Jobs]
      /\ pc'[c] = stage /\ job'[c] = j
      /\ \A d \in Call \ {c} :
            /\ pc'[d] = pc[d] /\ job'[d].kind = job[d].kind
            /\ job'[d].chan = job[d].chan /\ job'[d].type = job[d].type
            /\ job'[d].conn = job[d].conn
            /\ job'[d].alone => job[d].alone /\ j.kind = "knob" /\ stage = "write"
  BY <1>1, WaitsSteps
<1>4. \A d \in Call \ {c} :
         Register(d)' = Register(d) /\ (Moving(d))' = Moving(d) /\ (Plain(d))' = Plain(d)
  BY <1>3, OthersStay
<1>5. Register(c)' = kind /\ (Moving(c))' = Moves(kind)
  BY <1>3, SMT DEF Register, Moving, Moves
<1>6. OthersMove(c) <=> \E d \in Call \ {c} : Moving(d)
  BY DEF OthersMove, Moving
<1>7. j.kind = "knob" /\ stage = "write" => ~Retypes(kind) /\ ~Moves(kind)
  BY DEF Retypes, Moves
<1>8. Moves(kind) => Retypes(kind)
  BY DEF Retypes
<1>9. JobsSound'
  <2>1. JobSound(c)'
    BY <1>3, <1>4, SMT DEF JobSound
  <2>2. ASSUME NEW d \in Call \ {c}
        PROVE  JobSound(d)'
    <3>1. JobSound(d)
      BY <1>1 DEF JobsSound
    <3>2. job'[d].alone => (Plain(c))'
      BY <1>3 DEF Plain
    <3>3. pc[d] # "idle" /\ job'[d].alone => \A e \in Call \ {d} : (Plain(e))'
      BY <1>3, <1>4, <3>1, <3>2 DEF JobSound
    <3>4. job'[d].conn =< conn'
      BY <1>3, <3>1 DEF JobSound
    <3> QED  BY <1>3, <3>1, <3>3, <3>4 DEF JobSound
  <2> QED  BY <2>1, <2>2 DEF JobsSound
<1>10. Changed'
  <2>1. doubt' => retyped'
    BY <1>1, <1>2 DEF Changed
  <2>2. kind = "knob" => (Plain(c))'
    BY <1>3 DEF Plain
  <2>3. kind # "knob" => Retypes(kind)
    BY DEF Retypes, Moves, Kinds
  <2>4. \A d \in Call \ {c} : (Plain(d))' \/ retyped'
    BY <1>1, <1>4 DEF Changed
  <2> QED  BY <2>1, <2>2, <2>3, <2>4 DEF Changed
<1>11. Followed'
  <2> SUFFICES ASSUME ~doubt'
               PROVE  /\ \A a, b \in Call : (Moving(a))' /\ (Moving(b))' => a = b
                      /\ \A d \in Call : Register(d)' = "channel" => chan' = job'[d].chan
                      /\ (\A d \in Call : ~(Moving(d))') => knownChan' \in {None, chan'}
    BY DEF Followed
  <2>1. ~doubt /\ ~(Moves(kind) /\ OthersMove(c))
    BY <1>2
  <2>2. /\ \A a, b \in Call : Moving(a) /\ Moving(b) => a = b
        /\ \A d \in Call : Register(d) = "channel" => chan = job[d].chan
    BY <1>1, <2>1 DEF Followed
  <2>3. \A a, b \in Call : (Moving(a))' /\ (Moving(b))' => a = b
    BY <1>4, <1>5, <1>6, <2>1, <2>2
  <2>4. ASSUME NEW d \in Call, Register(d)' = "channel"
        PROVE  chan' = job'[d].chan
    <3>1. CASE d = c
      BY <1>2, <1>3, <1>5, <2>4, <3>1
    <3>2. CASE d # c
      <4>1. Register(d) = "channel" /\ Moving(d)
        BY <1>4, <2>4, <3>2 DEF Moving, Moves
      <4>2. chan' = chan
        BY <1>2, <1>6, <2>1, <3>2, <4>1
      <4> QED  BY <1>3, <2>2, <3>2, <4>1, <4>2
    <3> QED  BY <3>1, <3>2
  <2>5. (\A d \in Call : ~(Moving(d))') => knownChan' \in {None, chan'}
    BY <1>2, <1>4, <1>5, <1>6, <2>1
  <2> QED  BY <2>3, <2>4, <2>5
<1>12. TypesSound'
  <2>1. ASSUME NEW d \in Call, pc'[d] = "write", job'[d].kind = "type", job'[d].alone,
               job'[d].conn = conn', ~doubt'
        PROVE  types'[chan'] = job'[d].type
    <3>1. CASE d = c
      BY <1>2, <1>3, <2>1, <3>1
    <3>2. CASE d # c
      <4>1. j.kind = "knob" /\ stage = "write" /\ job[d].alone
        BY <1>3, <2>1, <3>2
      <4>2. chan' = chan /\ types' = types
        BY <1>2, <1>7, <4>1
      <4>3. types[chan] = job[d].type
        BY <1>1, <1>2, <1>3, <2>1, <3>2, <4>1 DEF TypesSound
      <4> QED  BY <1>3, <3>2, <4>2, <4>3
    <3> QED  BY <3>1, <3>2
  <2>2. ~retyped' => knownType' \in {None, types'[chan']}
    BY <1>1, <1>2, <1>8 DEF TypesSound
  <2> QED  BY <2>1, <2>2 DEF TypesSound
<1>13. \A d \in woken' : pc'[d] # "idle" /\ job'[d].conn = conn'
  BY <1>1, <1>3 DEF TypeOK
<1>14. \A d \in Call : pc'[d] = "channel"
          => job'[d].chan \in Channel /\ job'[d].kind \in {"knob", "type"}
  BY <1>1, <1>3 DEF TypeOK
<1>15. retyped' \in BOOLEAN /\ changes' \in 0 .. MaxByHand /\ knownType' \in Type \cup {None}
       /\ conn' \in 0 .. MaxCalls
  BY <1>1 DEF TypeOK, Retypes, Moves
<1> QED  BY <1>2, <1>3, <1>9, <1>10, <1>11, <1>12, <1>13, <1>14, <1>15 DEF Kept

\* A request of a call, as set_params finds it, is a job on the handle of now.
LEMMA RequestType ==
    ASSUME IInv, NEW j \in Requests, NEW c \in Call
    PROVE  /\ j \in Jobs /\ j.conn = conn
           /\ j.kind \in Kinds /\ j.chan \in Channel \cup {None}
           /\ j.kind = "channel" => j.chan \in Channel
           /\ j.kind = "type" => j.type \in Type
           /\ j.alone => \A d \in Call \ {c} : Plain(d)
<1>1. conn \in 0 .. MaxCalls
  BY DEF IInv, TypeOK
<1>2. AllIdle \in BOOLEAN /\ (AllIdle => \A d \in Call : Plain(d))
  BY DEF Plain, AllIdle
<1>3. PICK k \in Kinds, ch \in Channel \cup {None}, t \in Type \cup {None} :
         /\ j = Job(k, ch, t)
         /\ k = "channel" => ch \in Channel
         /\ k = "type" => t \in Type
  BY DEF Requests, Kinds
<1>4. j = [kind |-> k, chan |-> ch, type |-> t, conn |-> conn, alone |-> AllIdle]
  BY <1>3 DEF Job
<1>5. j \in Jobs
  BY <1>1, <1>2, <1>4 DEF Jobs
<1>6. j.kind = k /\ j.chan = ch /\ j.type = t /\ j.conn = conn
  BY <1>4
<1>7. j.alone = AllIdle
  BY <1>2, <1>4
<1> QED  BY <1>2, <1>3, <1>5, <1>6, <1>7

\* A call that waits for nothing moves nothing.
LEMMA IdleIsStill ==
    ASSUME IInv, NEW c \in Call, pc[c] = "idle"
    PROVE  /\ ~Moving(c)
           /\ ~doubt /\ ~OthersMove(c) => knownChan \in {None, chan}
<1>1. ~Moving(c)
  BY DEF Moving, Moves, Register
<1>2. ~OthersMove(c) => \A d \in Call : ~Moving(d)
  BY <1>1 DEF OthersMove, Moving
<1> QED  BY <1>1, <1>2 DEF IInv, Followed

LEMMA BeginSteps ==
    ASSUME IInv, NEW c \in Call, Begin(c)
    PROVE  IInv'
<1>1. /\ pc[c] = "idle" /\ woken = {} /\ calls' = calls + 1 /\ calls < MaxCalls
      /\ UNCHANGED <<memoryVars, conn, woken, changes>>
  BY DEF Begin
<1>2. PICK j \in Requests :
         \/ /\ Gated(j)
            /\ baseless' = (baseless \/ /\ types[chan] \in Exposing /\ j.chan \in {None, chan}
                                        /\ ~retyped)
            /\ UNCHANGED <<deviceVars, callVars, wireVars, doubt, retyped, astray>>
         \/ /\ Switches(j) /\ Sends(c, "channel", j.chan, None) /\ Waits(c, "channel", j)
            /\ retyped' = TRUE /\ UNCHANGED <<astray, baseless>>
         \/ ~Switches(j) /\ Writes(c, j)
  BY Zenon DEF Begin
<1>3. /\ j \in Jobs /\ j.conn = conn
      /\ j.kind \in Kinds /\ j.chan \in Channel \cup {None}
      /\ j.kind = "channel" => j.chan \in Channel
      /\ j.kind = "type" => j.type \in Type
      /\ j.alone => \A d \in Call \ {c} : Plain(d)
  BY <1>1, <1>2, RequestType
<1>5. /\ TypeOK /\ JobsSound /\ Changed /\ Followed /\ TypesSound
      /\ astray = FALSE /\ baseless = FALSE
      /\ ~Moving(c) /\ (~doubt /\ ~OthersMove(c) => knownChan \in {None, chan})
  BY <1>1, IdleIsStill DEF IInv, LandsWhereAsked, RefusalIsFounded, TypeOK
<1>6. /\ calls' \in 0 .. MaxCalls /\ conn =< conn /\ conn =< calls' /\ conn \in 0 .. MaxCalls
      /\ calls \in 0 .. MaxCalls
  BY <1>1, <1>5, SMT DEF TypeOK, JobsSound
<1>7. /\ knownChan' = knownChan /\ knownType' = knownType /\ conn' = conn /\ woken' = woken
      /\ changes' = changes
      /\ knownChan \in Channel \cup {None} /\ woken' \in SUBSET Call /\ woken' \subseteq woken \ {c}
  BY <1>1, <1>5 DEF memoryVars, TypeOK
<1>8. CASE /\ Gated(j)
           /\ baseless' = (baseless \/ /\ types[chan] \in Exposing /\ j.chan \in {None, chan}
                                       /\ ~retyped)
           /\ UNCHANGED <<deviceVars, callVars, wireVars, doubt, retyped, astray>>
  <2>1. /\ chan' = chan /\ types' = types /\ pc' = pc /\ job' = job /\ inbox' = inbox
        /\ losses' = losses /\ doubt' = doubt /\ retyped' = retyped /\ astray' = FALSE
    BY <1>5, <1>8 DEF deviceVars, callVars, wireVars
  <2>2. baseless' = FALSE
    BY <1>5, <1>8 DEF Gated, TypesSound
  <2>3. TypeOK'
    BY <1>5, <1>6, <1>7, <2>1, <2>2 DEF TypeOK
  <2>4. \A d \in Call : (Plain(d))' = Plain(d) /\ (Moving(d))' = Moving(d)
                        /\ Register(d)' = Register(d)
    BY <2>1 DEF Plain, Moving, Register, Moves
  <2>5. JobsSound'
    BY <1>5, <1>6, <1>7, <2>1, <2>4 DEF JobsSound, JobSound
  <2>6. Changed' /\ Followed' /\ TypesSound'
    BY <1>5, <1>7, <2>1, <2>4 DEF Changed, Followed, TypesSound
  <2> QED  BY <2>1, <2>2, <2>3, <2>5, <2>6 DEF IInv, LandsWhereAsked, RefusalIsFounded
<1>9. CASE Switches(j) /\ Sends(c, "channel", j.chan, None) /\ Waits(c, "channel", j)
           /\ retyped' = TRUE /\ UNCHANGED <<astray, baseless>>
  <2>1. j.chan \in Channel /\ j.kind \in {"knob", "type"}
    BY <1>3, <1>9 DEF Switches, Moves, Kinds
  <2>2. retyped' = (retyped \/ Retypes("channel")) /\ "channel" \in Kinds
    BY <1>9 DEF Retypes, Moves, Kinds
  <2>3. Kept'
    BY <1>3, <1>5, <1>6, <1>7, <1>9, <2>1, <2>2, GoesOut
  <2>4. astray' = FALSE /\ baseless' = FALSE
    BY <1>5, <1>9
  <2> QED  BY <2>3, <2>4 DEF Kept, IInv, TypeOK, LandsWhereAsked, RefusalIsFounded
<1>10. CASE ~Switches(j) /\ Writes(c, j)
  <2>1. /\ Sends(c, j.kind, j.chan, j.type) /\ Waits(c, "write", j)
        /\ retyped' = (retyped \/ Retypes(j.kind)) /\ UNCHANGED baseless
        /\ astray' = (astray \/ /\ ~Moves(j.kind) /\ j.chan \notin {None, chan}
                                /\ ~doubt /\ ~OthersMove(c))
    BY <1>10 DEF Writes
  <2>2. Kept'
    BY <1>3, <1>5, <1>6, <1>7, <2>1, GoesOut
  <2>3. astray' = FALSE /\ baseless' = FALSE
    BY <1>5, <1>10, <2>1 DEF Switches
  <2> QED  BY <2>2, <2>3 DEF Kept, IInv, TypeOK, LandsWhereAsked, RefusalIsFounded
<1> QED  BY <1>2, <1>8, <1>9, <1>10

-----------------------------------------------------------------------------
(* A call ends. *)

LEMMA EndsKept ==
    ASSUME IInv, NEW c \in Call, Ends(c), conn' = conn, calls' = calls, changes' = changes,
           UNCHANGED <<deviceVars, wireVars>>, woken' \subseteq woken \ {c},
           knownChan' \in Channel \cup {None}, knownType' \in Type \cup {None},
           doubt' \in BOOLEAN, retyped' \in BOOLEAN, doubt' => retyped',
           \A d \in Call \ {c} : Plain(d) \/ retyped',
           ~doubt' => ~doubt \/ ~OthersMove(c),
           ~doubt' /\ ~OthersMove(c) => knownChan' \in {None, chan},
           ~retyped' => knownType' \in {None, types[chan]},
           ~doubt' => ~doubt \/ ~Plain(c)
    PROVE  Kept'
<1>1. TypeOK /\ JobsSound /\ Changed /\ Followed /\ TypesSound
  BY DEF IInv
<1>2. chan' = chan /\ types' = types /\ inbox' = inbox /\ losses' = losses
  BY DEF deviceVars, wireVars
<1>3. pc \in [Call -> {"idle", "channel", "write"}] /\ job \in [Call -> Jobs]
  BY <1>1 DEF TypeOK
<1>4. NoJob \in Jobs /\ NoJob.conn = 0
  BY DEF NoJob, Jobs, Kinds
<1>5. pc' \in [Call -> {"idle", "channel", "write"}] /\ job' \in [Call -> Jobs]
  BY <1>3, <1>4 DEF Ends
<1>6. pc'[c] = "idle" /\ job'[c].conn = 0
  BY <1>3, <1>4 DEF Ends
<1>7. \A d \in Call \ {c} : pc'[d] = pc[d] /\ job'[d] = job[d]
  BY <1>3 DEF Ends
<1>8. /\ ~(Moving(c))' /\ (Plain(c))' /\ Register(c)' # "channel"
      /\ \A d \in Call \ {c} :
            Register(d)' = Register(d) /\ (Moving(d))' = Moving(d) /\ (Plain(d))' = Plain(d)
  BY <1>6, <1>7, OthersStay DEF Moving, Moves, Register, Plain
<1>9. OthersMove(c) <=> \E d \in Call \ {c} : Moving(d)
  BY DEF OthersMove, Moving
<1>10. JobsSound'
  <2>1. 0 =< conn
    BY <1>1 DEF TypeOK
  <2>2. \A d \in Call : JobSound(d)'
    BY <1>1, <1>6, <1>7, <1>8, <2>1 DEF JobsSound, JobSound
  <2> QED  BY <1>1, <2>2 DEF JobsSound
<1>11. Changed'
  BY <1>8 DEF Changed
<1>12. Followed'
  BY <1>1, <1>2, <1>7, <1>8, <1>9 DEF Followed, Moving, Moves
<1>13. TypesSound'
  <2>1. ASSUME NEW d \in Call, pc'[d] = "write", job'[d].kind = "type", job'[d].alone,
               job'[d].conn = conn', ~doubt'
        PROVE  types'[chan'] = job'[d].type
    <3>1. d # c /\ pc[d] = "write" /\ job[d] = job'[d]
      BY <1>6, <1>7, <2>1
    <3>2. Plain(c)
      BY <1>1, <2>1, <3>1 DEF JobsSound, JobSound
    <3> QED  BY <1>1, <1>2, <2>1, <3>1, <3>2 DEF TypesSound
  <2> QED  BY <1>2, <2>1 DEF TypesSound
<1>14. \A d \in woken' : pc'[d] # "idle" /\ job'[d].conn = conn'
  BY <1>1, <1>7 DEF TypeOK
<1>15. \A d \in Call : pc'[d] = "channel"
          => job'[d].chan \in Channel /\ job'[d].kind \in {"knob", "type"}
  BY <1>1, <1>6, <1>7 DEF TypeOK
<1>16. woken' \in SUBSET Call
  BY <1>1 DEF TypeOK
<1> QED  BY <1>1, <1>2, <1>5, <1>10, <1>11, <1>12, <1>13, <1>14, <1>15, <1>16 DEF Kept, TypeOK

\* A call whose job changes the block is on record.
LEMMA BusyIsOnRecord ==
    ASSUME IInv, NEW c \in Call, ~Plain(c)
    PROVE  retyped
  BY DEF IInv, Changed

LEMMA GoesSteps ==
    ASSUME IInv, NEW c \in Call, Goes(c)
    PROVE  IInv'
<1> DEFINE j == job[c]
<1>1. /\ TypeOK /\ JobsSound /\ Changed /\ Followed /\ TypesSound
      /\ astray = FALSE /\ baseless = FALSE
  BY DEF IInv, LandsWhereAsked, RefusalIsFounded, TypeOK
<1>2. /\ c \in woken /\ woken' = woken \ {c}
      /\ conn' = conn /\ calls' = calls /\ changes' = changes
      /\ \/ /\ pc[c] = "channel" /\ knownChan' = j.chan /\ Writes(c, j) /\ knownType' = knownType
         \/ /\ pc[c] = "write" /\ Learns(j, TRUE) /\ Ends(c)
            /\ doubt' = (doubt /\ (j.kind \notin {"preset", "scene"} \/ OthersMove(c)))
            /\ retyped' = (retyped /\ ~(j.kind = "type" /\ j.alone /\ ~doubt))
            /\ UNCHANGED <<deviceVars, wireVars, astray, baseless>>
  BY DEF Goes, countVars
<1>3. /\ j \in Jobs /\ j.kind \in Kinds /\ j.alone \in BOOLEAN /\ j.conn = conn
      /\ pc[c] # "idle" /\ woken' \in SUBSET Call /\ woken' \subseteq woken \ {c}
      /\ calls' \in 0 .. MaxCalls
      /\ j.chan \in Channel \cup {None} /\ j.type \in Type \cup {None}
  BY <1>1, <1>2 DEF TypeOK, Jobs
<1>4. /\ j.conn =< conn /\ conn =< calls'
      /\ j.kind = "type" => j.type \in Type
      /\ j.kind = "channel" => j.chan \in Channel
      /\ j.alone => \A d \in Call \ {c} : Plain(d)
  BY <1>1, <1>2, <1>3 DEF JobsSound, JobSound
<1>5. OthersMove(c) <=> \E d \in Call \ {c} : Moving(d)
  BY DEF OthersMove, Moving
<1>6. CASE pc[c] = "channel" /\ knownChan' = j.chan /\ Writes(c, j) /\ knownType' = knownType
  <2>1. /\ Sends(c, j.kind, j.chan, j.type) /\ Waits(c, "write", j)
        /\ retyped' = (retyped \/ Retypes(j.kind)) /\ baseless' = baseless
        /\ astray' = (astray \/ /\ ~Moves(j.kind) /\ j.chan \notin {None, chan}
                                /\ ~doubt /\ ~OthersMove(c))
    BY <1>6 DEF Writes
  <2>2. ~doubt => chan = j.chan
    BY <1>1, <1>6 DEF Followed, Register
  <2>3. j.chan \in Channel /\ j.kind \in {"knob", "type"}
    BY <1>1, <1>6 DEF TypeOK
  <2> HIDE DEF j
  <2>4. Kept'
    BY <1>2, <1>3, <1>4, <1>6, <2>1, <2>2, <2>3, GoesOut
  <2>5. astray' = FALSE /\ baseless' = FALSE
    BY <1>1, <2>1, <2>2
  <2> QED  BY <2>4, <2>5 DEF Kept, IInv, TypeOK, LandsWhereAsked, RefusalIsFounded
<1>7. CASE /\ pc[c] = "write" /\ Learns(j, TRUE) /\ Ends(c)
           /\ doubt' = (doubt /\ (j.kind \notin {"preset", "scene"} \/ OthersMove(c)))
           /\ retyped' = (retyped /\ ~(j.kind = "type" /\ j.alone /\ ~doubt))
           /\ UNCHANGED <<deviceVars, wireVars, astray, baseless>>
  <2>1. Register(c) = j.kind /\ (Plain(c) <=> j.kind = "knob")
    BY <1>7 DEF Register, Plain
  <2>2. j.kind # "knob" => retyped
    BY <1>1, <2>1 DEF Changed
  <2>3. /\ doubt \in BOOLEAN /\ retyped \in BOOLEAN
        /\ knownChan \in Channel \cup {None} /\ knownType \in Type \cup {None}
    BY <1>1 DEF TypeOK
  <2>4. /\ knownChan' = IF j.kind \in {"preset", "scene"} THEN None
                        ELSE IF j.kind = "channel" THEN j.chan ELSE knownChan
        /\ knownType' = IF j.kind = "type" THEN j.type ELSE knownType
    BY <1>7 DEF Learns
  <2>5. ~doubt /\ j.kind = "channel" => chan = j.chan
    BY <1>1, <2>1 DEF Followed
  <2>6. ~doubt /\ j.kind = "type" /\ j.alone => types[chan] = j.type
    BY <1>1, <1>3, <1>7 DEF TypesSound
  <2>7. ~doubt /\ ~OthersMove(c) /\ j.kind \in {"knob", "type"} => knownChan \in {None, chan}
    BY <1>1, <1>5, <2>1 DEF Followed, Moving, Moves
  <2> HIDE DEF j
  <2>8. doubt' \in BOOLEAN /\ retyped' \in BOOLEAN
    BY <1>7, <2>3, Zenon
  <2>9. knownChan' \in Channel \cup {None} /\ knownType' \in Type \cup {None}
    BY <1>4, <2>3, <2>4
  <2>10. /\ doubt' => retyped'
         /\ \A d \in Call \ {c} : Plain(d) \/ retyped'
    BY <1>1, <1>4, <1>7 DEF Changed
  <2>11. ~doubt' => (~doubt \/ ~OthersMove(c)) /\ (~doubt \/ ~Plain(c))
    BY <1>7, <2>1
  <2>12. ~doubt' /\ ~OthersMove(c) => knownChan' \in {None, chan}
    BY <1>3, <1>7, <2>4, <2>5, <2>7 DEF Kinds
  <2>13. ~retyped' => knownType' \in {None, types[chan]}
    BY <1>1, <1>7, <2>2, <2>4, <2>6 DEF TypesSound
  <2>14. Kept'
    BY <1>2, <1>3, <1>7, <2>8, <2>9, <2>10, <2>11, <2>12, <2>13, EndsKept
  <2>15. astray' = FALSE /\ baseless' = FALSE
    BY <1>1, <1>7
  <2> QED  BY <2>14, <2>15 DEF Kept, IInv, TypeOK, LandsWhereAsked, RefusalIsFounded
<1> QED  BY <1>2, <1>6, <1>7
\* A wait that runs out.
LEMMA TimesOutSteps ==
    ASSUME IInv, NEW c \in Call, TimesOut(c)
    PROVE  IInv'
<1> DEFINE j == job[c]
<1>1. /\ TypeOK /\ JobsSound /\ Changed /\ Followed /\ TypesSound
      /\ astray = FALSE /\ baseless = FALSE
  BY DEF IInv, LandsWhereAsked, RefusalIsFounded, TypeOK
<1>2. /\ Ends(c) /\ conn' = conn /\ calls' = calls /\ changes' = changes
      /\ UNCHANGED <<deviceVars, wireVars>> /\ woken' \subseteq woken \ {c}
      /\ retyped' = retyped /\ astray' = FALSE /\ baseless' = FALSE
  BY <1>1 DEF TimesOut, countVars, pastVars
<1>3. \/ pc[c] = "channel" /\ doubt' = TRUE /\ UNCHANGED memoryVars
      \/ pc[c] = "write" /\ Learns(j, FALSE) /\ doubt' = (doubt \/ Retypes(j.kind))
  BY DEF TimesOut
<1>4. /\ doubt \in BOOLEAN /\ retyped \in BOOLEAN
      /\ knownChan \in Channel \cup {None} /\ knownType \in Type \cup {None}
      /\ job[c] \in Jobs
  BY <1>1 DEF TypeOK
<1>5. \A d \in Call : Plain(d) \/ retyped'
  BY <1>1, <1>2 DEF Changed
<1>6. /\ doubt' \in BOOLEAN /\ (doubt' => retyped')
      /\ knownChan' \in Channel \cup {None} /\ knownType' = knownType
      /\ ~doubt' => ~doubt
      /\ ~doubt' /\ ~OthersMove(c) => knownChan' \in {None, chan}
  <2>1. CASE pc[c] = "channel" /\ doubt' = TRUE /\ UNCHANGED memoryVars
    <3>1. ~Plain(c)
      BY <2>1 DEF Plain
    <3> QED  BY <1>4, <1>5, <2>1, <3>1 DEF memoryVars
  <2>2. CASE pc[c] = "write" /\ Learns(j, FALSE) /\ doubt' = (doubt \/ Retypes(j.kind))
    <3>1. Register(c) = j.kind /\ (Plain(c) <=> j.kind = "knob")
      BY <2>2 DEF Register, Plain
    <3>2. Retypes(j.kind) \in BOOLEAN /\ (Retypes(j.kind) => j.kind # "knob")
          /\ (Moves(j.kind) => Retypes(j.kind))
      BY DEF Retypes, Moves
    <3>3. ~OthersMove(c) => \A d \in Call \ {c} : ~Moving(d)
      BY DEF OthersMove, Moving
    <3>4. Moving(c) = Moves(j.kind)
      BY <3>1 DEF Moving
    <3>5. /\ knownChan' = IF j.kind \in {"preset", "scene"} THEN None ELSE knownChan
          /\ knownType' = knownType
      BY <2>2 DEF Learns
    <3>6. ~doubt /\ ~OthersMove(c) /\ ~Moves(j.kind) => knownChan \in {None, chan}
      BY <1>1, <3>3, <3>4 DEF Followed
    <3> HIDE DEF j
    <3>7. doubt' \in BOOLEAN /\ (~doubt' => ~doubt /\ ~Retypes(j.kind))
          /\ (doubt' => doubt \/ Retypes(j.kind))
      BY <1>4, <2>2, <3>2, Zenon
    <3>8. doubt' => retyped'
      BY <1>1, <1>2, <1>5, <3>1, <3>2, <3>7 DEF Changed
    <3> QED  BY <1>4, <3>2, <3>5, <3>6, <3>7, <3>8
  <2> QED  BY <1>3, <2>1, <2>2
<1>7. ~retyped' => knownType' \in {None, types[chan]}
  BY <1>1, <1>2, <1>6 DEF TypesSound
<1>8. /\ retyped' \in BOOLEAN /\ knownType' \in Type \cup {None}
      /\ \A d \in Call \ {c} : Plain(d) \/ retyped'
      /\ ~doubt' => ~doubt \/ ~OthersMove(c)
      /\ ~doubt' => ~doubt \/ ~Plain(c)
  BY <1>2, <1>4, <1>5, <1>6
<1>9. Kept'
  BY <1>2, <1>6, <1>7, <1>8, EndsKept
<1> QED  BY <1>2, <1>9 DEF Kept, IInv, TypeOK, LandsWhereAsked, RefusalIsFounded

-----------------------------------------------------------------------------
(* What arrives, the handle, and somebody at the device. *)

LEMMA DeliverSteps ==
    ASSUME IInv, Deliver
    PROVE  IInv'
<1>1. /\ TypeOK /\ JobsSound /\ Changed /\ Followed /\ TypesSound
      /\ astray = FALSE /\ baseless = FALSE
  BY DEF IInv, LandsWhereAsked, RefusalIsFounded, TypeOK
<1>2. /\ inbox # <<>> /\ inbox' = Tail(inbox)
      /\ woken' = {c \in Call : job[c].conn = conn /\ Register(c) = Head(inbox)}
      /\ chan' = chan /\ types' = types /\ knownChan' = knownChan /\ knownType' = knownType
      /\ conn' = conn /\ pc' = pc /\ job' = job /\ losses' = losses
      /\ calls' = calls /\ changes' = changes /\ doubt' = doubt
      /\ retyped' = retyped /\ astray' = FALSE /\ baseless' = FALSE
  BY <1>1 DEF Deliver, deviceVars, memoryVars, callVars, countVars, pastVars
<1>3. Head(inbox) \in Kinds /\ inbox' \in Seq(Kinds)
  BY <1>1, <1>2, SMT DEF TypeOK
<1>4. \A c \in woken' : pc'[c] # "idle" /\ job'[c].conn = conn'
  BY <1>2, <1>3 DEF Register, Kinds
<1>5. TypeOK'
  BY <1>1, <1>2, <1>3, <1>4 DEF TypeOK
<1>6. \A c \in Call :
         Register(c)' = Register(c) /\ (Moving(c))' = Moving(c) /\ (Plain(c))' = Plain(c)
  BY <1>2, OthersStay
<1>7. JobsSound'
  BY <1>1, <1>2, <1>6 DEF JobsSound, JobSound
<1>8. Changed' /\ Followed' /\ TypesSound'
  BY <1>1, <1>2, <1>6 DEF Changed, Followed, TypesSound
<1> QED  BY <1>2, <1>5, <1>7, <1>8 DEF IInv, LandsWhereAsked, RefusalIsFounded

LEMMA ReconnectsSteps ==
    ASSUME IInv, Reconnects
    PROVE  IInv'
<1>1. /\ TypeOK /\ JobsSound /\ Changed /\ Followed /\ TypesSound
      /\ astray = FALSE /\ baseless = FALSE
  BY DEF IInv, LandsWhereAsked, RefusalIsFounded, TypeOK
<1>2. /\ woken' = {} /\ calls < MaxCalls /\ calls' = calls + 1 /\ conn' = conn + 1
      /\ inbox' = <<>>
      /\ \/ knownChan' = None /\ doubt' = (\E c \in Call : Moving(c))
         \/ knownChan' = knownChan /\ doubt' = doubt
      /\ chan' = chan /\ types' = types /\ knownType' = knownType
      /\ pc' = pc /\ job' = job /\ losses' = losses
      /\ changes' = changes
      /\ retyped' = retyped /\ astray' = FALSE /\ baseless' = FALSE
  BY <1>1 DEF Reconnects, deviceVars, callVars, pastVars, Moving
<1>3. /\ conn \in 0 .. MaxCalls /\ calls \in 0 .. MaxCalls /\ conn =< calls
      /\ conn' \in 0 .. MaxCalls /\ calls' \in 0 .. MaxCalls /\ conn' =< calls'
  BY <1>1, <1>2, SMT DEF TypeOK, JobsSound
<1>4. inbox' \in Seq(Kinds)
  BY <1>2
<1>5. doubt' \in BOOLEAN
  BY <1>1, <1>2 DEF TypeOK
<1>6. knownChan' \in Channel \cup {None}
  BY <1>1, <1>2 DEF TypeOK
<1>7. TypeOK'
  BY <1>1, <1>2, <1>3, <1>4, <1>5, <1>6 DEF TypeOK
<1>8. \A c \in Call :
         Register(c)' = Register(c) /\ (Moving(c))' = Moving(c) /\ (Plain(c))' = Plain(c)
  BY <1>2, OthersStay
<1>9. ASSUME NEW c \in Call
      PROVE  job[c].conn \in Nat /\ job[c].conn =< conn
  <2>1. job[c] \in Jobs
    BY <1>1 DEF TypeOK
  <2>2. job[c].conn \in Nat
    BY <2>1 DEF Jobs
  <2> QED  BY <1>1, <2>2 DEF JobsSound, JobSound
<1>10. JobsSound'
  <2>1. \A c \in Call : job'[c].conn =< conn'
    BY <1>2, <1>3, <1>9
  <2> QED  BY <1>1, <1>2, <1>3, <1>8, <2>1 DEF JobsSound, JobSound
<1>11. Changed'
  <2>1. \A c \in Call : Moving(c) => ~Plain(c)
    BY DEF Moving, Moves, Register, Plain
  <2>2. (\E c \in Call : Moving(c)) => retyped
    BY <1>1, <2>1 DEF Changed
  <2>3. doubt' => retyped'
    BY <1>1, <1>2, <2>2 DEF Changed
  <2> QED  BY <1>1, <1>2, <1>8, <2>3 DEF Changed
<1>12. Followed'
  <2>1. CASE knownChan' = None /\ doubt' = (\E c \in Call : Moving(c))
    <3>1. \A c \in Call : Register(c) = "channel" => Moving(c)
      BY DEF Moving, Moves
    <3> QED  BY <1>8, <2>1, <3>1 DEF Followed
  <2>2. CASE knownChan' = knownChan /\ doubt' = doubt
    BY <1>1, <1>2, <1>8, <2>2 DEF Followed
  <2> QED  BY <1>2, <2>1, <2>2
<1>13. TypesSound'
  <2>1. \A c \in Call : job'[c].conn # conn'
    BY <1>2, <1>3, <1>9
  <2> QED  BY <1>1, <1>2, <2>1 DEF TypesSound
<1> QED  BY <1>2, <1>7, <1>10, <1>11, <1>12, <1>13 DEF IInv, LandsWhereAsked, RefusalIsFounded

LEMMA ByHandSteps ==
    ASSUME IInv, ByHand
    PROVE  IInv'
<1>1. /\ TypeOK /\ JobsSound /\ Changed /\ Followed /\ TypesSound
      /\ astray = FALSE /\ baseless = FALSE
  BY DEF IInv, LandsWhereAsked, RefusalIsFounded, TypeOK
<1>2. /\ changes < MaxByHand /\ changes' = changes + 1 /\ woken' = {} /\ doubt' = TRUE
      /\ chan' \in Channel /\ types' \in [Channel -> Type] /\ retyped' = TRUE
      /\ job' = [c \in Call |-> [job[c] EXCEPT !.alone = FALSE]]
      /\ knownChan' = knownChan /\ knownType' = knownType /\ conn' = conn /\ pc' = pc
      /\ inbox' = inbox /\ losses' = losses /\ calls' = calls
      /\ astray' = FALSE /\ baseless' = FALSE
  BY <1>1 DEF ByHand, memoryVars, wireVars
<1>3. ASSUME NEW c \in Call
      PROVE  /\ job'[c] \in Jobs /\ job'[c].kind = job[c].kind /\ job'[c].chan = job[c].chan
             /\ job'[c].type = job[c].type /\ job'[c].conn = job[c].conn
             /\ job'[c].alone = FALSE
  <2>1. job[c] \in Jobs
    BY <1>1 DEF TypeOK
  <2>2. job'[c] = [job[c] EXCEPT !.alone = FALSE]
    BY <1>2
  <2> QED  BY <2>1, <2>2 DEF Jobs
<1>4. job' \in [Call -> Jobs]
  BY <1>2, <1>3
<1>5. changes' \in 0 .. MaxByHand
  BY <1>1, <1>2, SMT DEF TypeOK
<1>6. \A c \in Call : pc'[c] = "channel"
         => job'[c].chan \in Channel /\ job'[c].kind \in {"knob", "type"}
  BY <1>1, <1>2, <1>3 DEF TypeOK
<1>7. TypeOK'
  BY <1>1, <1>2, <1>4, <1>5, <1>6 DEF TypeOK
<1>8. JobsSound'
  BY <1>1, <1>2, <1>3 DEF JobsSound, JobSound
<1>9. Changed' /\ Followed' /\ TypesSound'
  BY <1>2 DEF Changed, Followed, TypesSound
<1> QED  BY <1>2, <1>7, <1>8, <1>9 DEF IInv, LandsWhereAsked, RefusalIsFounded

-----------------------------------------------------------------------------
(* The invariant. *)

LEMMA Starts ==
    ASSUME Init
    PROVE  IInv
<1>1. NoJob \in Jobs /\ NoJob.conn = 0
  BY DEF NoJob, Jobs, Kinds
<1>2. TypeOK
  <2>1. pc \in [Call -> {"idle", "channel", "write"}] /\ job \in [Call -> Jobs]
    BY <1>1 DEF Init
  <2>2. \A c \in Call : pc[c] # "channel"
    BY DEF Init
  <2>3. conn \in 0 .. MaxCalls
        /\ calls \in 0 .. MaxCalls /\ changes \in 0 .. MaxByHand /\ losses \in 0 .. MaxLost
    BY SMT DEF Init
  <2>4. inbox \in Seq(Kinds)
    BY DEF Init
  <2> QED  BY <2>1, <2>2, <2>3, <2>4 DEF Init, TypeOK
<1>3. \A c \in Call : ~Moving(c) /\ Plain(c) /\ Register(c) = "idle"
  BY DEF Init, Moving, Moves, Register, Plain
<1>4. JobsSound /\ Changed /\ Followed /\ TypesSound
  BY <1>1, <1>3 DEF Init, JobsSound, JobSound, Changed, Followed, TypesSound
<1> QED  BY <1>2, <1>4 DEF Init, IInv, LandsWhereAsked, RefusalIsFounded

LEMMA Stutters ==
    ASSUME IInv, UNCHANGED vars
    PROVE  IInv'
<1>1. /\ chan' = chan /\ types' = types /\ knownChan' = knownChan /\ knownType' = knownType
      /\ conn' = conn /\ pc' = pc /\ job' = job /\ woken' = woken
      /\ inbox' = inbox /\ losses' = losses
      /\ calls' = calls /\ changes' = changes /\ doubt' = doubt
      /\ retyped' = retyped /\ astray' = astray /\ baseless' = baseless
  BY DEF vars, deviceVars, memoryVars, callVars, wireVars, countVars, pastVars
<1>2. TypeOK'
  BY <1>1 DEF IInv, TypeOK
<1>3. \A c \in Call :
         Register(c)' = Register(c) /\ (Moving(c))' = Moving(c) /\ (Plain(c))' = Plain(c)
  BY <1>1, OthersStay
<1>4. JobsSound'
  BY <1>1, <1>3 DEF IInv, JobsSound, JobSound
<1>5. Changed' /\ Followed' /\ TypesSound'
  BY <1>1, <1>3 DEF IInv, Changed, Followed, TypesSound
<1> QED  BY <1>1, <1>2, <1>4, <1>5 DEF IInv, LandsWhereAsked, RefusalIsFounded

\* The block is where it is taken to be, or something that may have moved it
\* is on record: the invariant that the others rest on.
THEOREM Inductive == Spec => []IInv
<1>1. Init => IInv
  BY Starts
<1>2. IInv /\ [Next]_vars => IInv'
  <2> SUFFICES ASSUME IInv, [Next]_vars
               PROVE  IInv'
    OBVIOUS
  <2>1. CASE \E c \in Call : Begin(c)
    BY <2>1, BeginSteps
  <2>2. CASE \E c \in Call : Goes(c)
    BY <2>2, GoesSteps
  <2>3. CASE \E c \in Call : TimesOut(c)
    BY <2>3, TimesOutSteps
  <2>4. CASE Deliver
    BY <2>4, DeliverSteps
  <2>5. CASE Reconnects
    BY <2>5, ReconnectsSteps
  <2>6. CASE ByHand
    BY <2>6, ByHandSteps
  <2>7. CASE UNCHANGED vars
    BY <2>7, Stutters
  <2> QED  BY <2>1, <2>2, <2>3, <2>4, <2>5, <2>6, <2>7 DEF Next
<1> QED  BY <1>1, <1>2, PTL DEF Spec

\* Every variable keeps its type, an echo only wakes calls in progress on the
\* handle it came by, and a switch that is waited for is to a channel that was
\* asked for.
THEOREM TypeCorrect == Spec => []TypeOK
<1>1. IInv => TypeOK
  BY DEF IInv
<1> QED  BY <1>1, Inductive, PTL

\* A write for a channel lands on it, however many calls interleave with it,
\* unless something is in doubt or another call moves the block meanwhile.
THEOREM AlwaysLands == Spec => []LandsWhereAsked
<1>1. IInv => LandsWhereAsked
  BY DEF IInv
<1> QED  BY <1>1, Inductive, PTL

\* No knob is refused that the type of the block's channel exposes, unless
\* the type may have changed since it was written.
THEOREM AlwaysFounded == Spec => []RefusalIsFounded
<1>1. IInv => RefusalIsFounded
  BY DEF IInv
<1> QED  BY <1>1, Inductive, PTL
=============================================================================
