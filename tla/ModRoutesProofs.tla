-------------------------- MODULE ModRoutesProofs --------------------------
(***************************************************************************)
(* What TLAPS proves of ModRoutes, for every number of calls, items,       *)
(* depths and slots.                                                       *)
(*                                                                         *)
(* That a reported route stays is not inductive: what a call has not       *)
(* written yet must be in its list of parts, whoever else writes, and the  *)
(* allocator must know the slot as that item's and nobody else's.          *)
(***************************************************************************)
EXTENDS ModRoutes, TLAPS, WellFoundedInduction

Types ==
    /\ TypeOK
    /\ \A c \in Call : job[c].op = "route" => (job[c].given => job[c].table = "macro")
    /\ \A p \in Place : device[p].button = "unset" => p[1] = "macro"

\* A field the call is to write.
Owes(j, f) == f \in Range(Parts(j.table)) \/ (f = "button" /\ j.given)

\* Field f of the slot was never written.
Lacks(p, f) == device[p][f] = IF f = "button" THEN "unset" ELSE None

\* A call that is alone at its slot has written what is not left to be written.
AloneSound ==
    \A c \in Call, p \in Place :
        job[c].op = "route" /\ job[c].alone /\ At(job[c]) = p
        => /\ Routing(p) = {c}
           /\ \A f \in Field : Owes(job[c], f)
                  => f \in Range(job[c].todo) \/ device[p][f] = Wanted(job[c])[f]

\* A reported route is in its slot, and nobody is about to overwrite it.
RouteSound ==
    \A p \in Place : routes[p].op = "route"
        => /\ At(routes[p]) = p
           /\ p[2] \in used[p[1]]
           /\ Routing(p) = {}
           /\ \A i \in Item : itemToSlot[p[1]][i] = p[2] => i = routes[p].item
           /\ \A f \in Field : Owes(routes[p], f) => device[p][f] = Wanted(routes[p])[f]

\* What a slot that was handed out lacks, a call is still to write.
Built ==
    \A p \in UsedPlaces \ leftover :
        \A f \in Field : f \in Range(Parts(p[1])) \cup {"button"} /\ Lacks(p, f)
            => \E c \in Routing(p) : f \in Range(job[c].todo)

IInv == Types /\ AloneSound /\ RouteSound /\ Built

-----------------------------------------------------------------------------
(* Sequences, fields and slots. *)

LEMMA InRange == \A s, n : n \in DOMAIN s => s[n] \in Range(s)
  BY DEF Range

LEMMA Rest ==
    ASSUME NEW s \in Seq(Field), s # <<>>
    PROVE  /\ Head(s) \in Field
           /\ \A f : f \in Range(s) => f = Head(s) \/ f \in Range(Tail(s))
           /\ Len(s) = 1 => \A f : f \in Range(s) => f = Head(s)
           /\ Len(s) > 1 => Tail(s) \in Seq(Field) /\ Tail(s) # <<>>
           /\ Len(s) \in Nat /\ Len(s) >= 1
<1>1. ASSUME NEW i \in 1 .. Len(s)
      PROVE  s[i] = Head(s) \/ s[i] \in Range(Tail(s))
  <2>1. CASE i = 1
    BY <2>1, SMT
  <2>2. CASE i # 1
    <3>1. i - 1 \in DOMAIN Tail(s) /\ Tail(s)[i - 1] = s[i]
      BY <2>2, SMT
    <3> QED
      BY <3>1, InRange
  <2> QED
    BY <2>1, <2>2
<1>2. \A f : f \in Range(s) => f = Head(s) \/ f \in Range(Tail(s))
  BY <1>1, SMT DEF Range
<1>3. Len(s) = 1 => \A f : f \in Range(s) => f = Head(s)
  BY SMT DEF Range
<1>4. Head(s) \in Field /\ Len(s) \in Nat /\ Len(s) >= 1
  BY SMT
<1>5. Tail(s) \in Seq(Field) /\ Len(Tail(s)) = Len(s) - 1
  BY SMT
<1>6. Len(s) > 1 => Tail(s) # <<>>
  BY <1>4, <1>5, SMT
<1> QED
  BY <1>2, <1>3, <1>4, <1>5, <1>6

LEMMA PartsType ==
    ASSUME NEW t \in Table
    PROVE  /\ Range(Parts(t)) \subseteq Field \ {"button"}
           /\ Parts(t) \in Seq(Field) /\ Parts(t) # <<>>
<1>1. Range(Parts(t)) \subseteq Field
  BY SMT DEF Range, Parts, Field
<1>2. \A n \in DOMAIN Parts(t) : Parts(t)[n] # "button"
  BY SMT DEF Parts
<1>3. "button" \notin Range(Parts(t))
  BY <1>2 DEF Range
<1>4. Parts(t) \in Seq(Field) /\ Parts(t) # <<>>
  <2>1. CASE t = "mod"
    BY <2>1, SMT DEF Parts, Field
  <2>2. CASE t # "mod"
    BY <2>2, SMT DEF Parts, Field
  <2> QED
    BY <2>1, <2>2
<1> QED
  BY <1>1, <1>3, <1>4

LEMMA Joined ==
    ASSUME NEW s \in Seq(Field), NEW r \in Seq(Field)
    PROVE  /\ s \o r \in Seq(Field) /\ (s # <<>> => s \o r # <<>>)
           /\ Range(s) \subseteq Range(s \o r) /\ Range(r) \subseteq Range(s \o r)
<1>1. s \o r \in Seq(Field) /\ (s # <<>> => s \o r # <<>>)
  BY SMT
<1>2. \A n \in DOMAIN s : n \in DOMAIN (s \o r) /\ (s \o r)[n] = s[n]
  BY SMT
<1>3. \A n \in DOMAIN r : n + Len(s) \in DOMAIN (s \o r) /\ (s \o r)[n + Len(s)] = r[n]
  BY SMT
<1>4. Range(s) \subseteq Range(s \o r)
  BY <1>2 DEF Range
<1>5. Range(r) \subseteq Range(s \o r)
  BY <1>3 DEF Range
<1> QED
  BY <1>1, <1>4, <1>5

\* A plan has every part of a route, and the button of a new destination.
LEMMA PlanType ==
    ASSUME NEW t \in Table, NEW given \in BOOLEAN, NEW reused \in BOOLEAN
    PROVE  /\ Plan(t, given, reused) \in Seq(Field) /\ Plan(t, given, reused) # <<>>
           /\ Range(Parts(t)) \subseteq Range(Plan(t, given, reused))
           /\ t = "macro" /\ (given \/ ~reused) => "button" \in Range(Plan(t, given, reused))
<1> DEFINE u == <<"button">>
           b == IF t = "macro" /\ (given \/ ~reused) THEN u ELSE <<>>
<1>1. u \in Seq(Field) /\ "button" \in Range(u)
  <2>1. u \in Seq(Field)
    BY SMT DEF Field
  <2>2. (\A x : <<x>>[1] = x) /\ \A x : 1 \in DOMAIN <<x>>
    BY SMT
  <2>3. u[1] = "button" /\ 1 \in DOMAIN u
    BY <2>2, Zenon
  <2> HIDE DEF u
  <2>4. "button" \in Range(u)
    BY <2>3, InRange
  <2> QED
    BY <2>1, <2>4
<1> HIDE DEF u
<1>2. b \in Seq(Field) /\ (t = "macro" /\ (given \/ ~reused) => "button" \in Range(b))
  BY <1>1
<1>3. Plan(t, given, reused) = Parts(t) \o b
  BY DEF Plan, b, u
<1> HIDE DEF b
<1> QED
  BY <1>2, <1>3, PartsType, Joined

LEMMA Least ==
    ASSUME NEW S \in SUBSET Nat, S # {}
    PROVE  Min(S) \in S
<1>1. \E x \in S : \A y \in S : ~(<<y, x>> \in OpToRel(<, Nat))
  BY NatLessThanWellFounded, WFMin, Zenon
<1>2. ASSUME NEW x \in Nat, NEW y \in Nat, y < x
      PROVE  <<y, x>> \in OpToRel(<, Nat)
  BY <1>2, Zenon DEF OpToRel
<1>3. \E x \in S : \A y \in S : ~(y < x)
  BY <1>1, <1>2
<1>4. \E x \in S : \A y \in S : x =< y
  BY <1>3, SMT
<1> QED
  BY <1>4 DEF Min

LEMMA WantedType ==
    ASSUME NEW j \in Job, j.item \in Item, j.depth \in Depth
    PROVE  /\ Wanted(j) \in Content
           /\ \A f \in Field : Wanted(j)[f] # IF f = "button" THEN "unset" ELSE None
<1>1. /\ Wanted(j) \in Content
      /\ Wanted(j).source = j.item /\ Wanted(j).target = j.item /\ Wanted(j).depth = j.depth
      /\ Wanted(j).button \in {"zero", "given"}
  BY SMT DEF Wanted, Content
<1>2. j.item # None /\ j.depth # None
  BY NoneAssumption
<1> QED
  BY <1>1, <1>2 DEF Field

Put(q, w, f) == [q EXCEPT ![f] = w[f]]

LEMMA FieldWritten ==
    ASSUME NEW q \in Content, NEW w \in Content, NEW f \in Field
    PROVE  /\ Put(q, w, f) \in Content /\ Put(q, w, f)[f] = w[f]
           /\ \A g \in Field : g # f => Put(q, w, f)[g] = q[g]
<1>1. CASE f = "source"
  BY <1>1, SMT DEF Put, Field, Content
<1>2. CASE f = "target"
  BY <1>2, SMT DEF Put, Field, Content
<1>3. CASE f = "depth"
  BY <1>3, SMT DEF Put, Field, Content
<1>4. CASE f = "button"
  BY <1>4, SMT DEF Put, Field, Content
<1> QED
  BY <1>1, <1>2, <1>3, <1>4 DEF Field

LEMMA IdleType == Idle \in Job /\ Idle.op = "idle" /\ Idle.alone /\ ~Idle.given
  BY BoundsAssumption, SMT DEF Idle, Job, Table, Field

LEMMA BlankType ==
    Blank \in [Place -> Content] /\ \A p \in Place : Blank[p].button = "unset" => p[1] = "macro"
  BY SMT DEF Blank, Content

\* A call that routes is at a place, and it is one of that place's.
LEMMA AtType ==
    ASSUME Types, NEW c \in Call, job[c].op = "route"
    PROVE  /\ job[c] \in Job /\ job[c].table \in Table /\ job[c].slot \in Slot
           /\ At(job[c]) \in Place /\ c \in Routing(At(job[c]))
           /\ At(job[c])[1] = job[c].table /\ At(job[c])[2] = job[c].slot
<1>1. job[c] \in Job /\ job[c].table \in Table /\ job[c].slot \in 0 .. Slots
  BY DEF Types, TypeOK, Job
<1>2. job[c].slot \in Slot
  BY <1>1, BoundsAssumption, SMT DEF Types, TypeOK, Slot
<1> QED
  BY <1>1, <1>2 DEF At, Place, Routing
-----------------------------------------------------------------------------
(* A call leaves its slot: it throws, or it is done. *)

\* What the other calls are at stays, and so does what they have left to write.
LEMMA LeavesRouting ==
    ASSUME job \in [Call -> Job], NEW c \in Call, job' = [job EXCEPT ![c] = Idle]
    PROVE  /\ \A p : Routing(p)' = Routing(p) \ {c}
           /\ \A d \in Call \ {c} : job'[d] = job[d]
           /\ job'[c] = Idle /\ job' \in [Call -> Job]
  BY IdleType DEF Routing

LEMMA ThrowsSteps ==
    ASSUME IInv, NEW c \in Call, Throws(c)
    PROVE  IInv'
<1>1. /\ job' = [job EXCEPT ![c] = Idle] /\ faults < MaxFaults /\ faults' = faults + 1
      /\ UNCHANGED <<device, itemToSlot, used, calls, routes>>
      /\ leftover' = IF job[c].op = "route" THEN leftover \cup {At(job[c])} ELSE leftover
  BY DEF Throws
<1>2. /\ \A p : Routing(p)' = Routing(p) \ {c}
      /\ \A d \in Call \ {c} : job'[d] = job[d]
      /\ job'[c] = Idle /\ job' \in [Call -> Job]
  BY <1>1, LeavesRouting DEF IInv, Types, TypeOK
<1>3. leftover' \subseteq Place
  BY <1>1, AtType DEF IInv, Types, TypeOK
<1>4. faults' \in 0 .. MaxFaults
  BY <1>1, BoundsAssumption, SMT DEF IInv, Types, TypeOK
<1>5. Types'
  BY <1>1, <1>2, <1>3, <1>4, IdleType DEF IInv, Types, TypeOK
<1>6. AloneSound'
  <2> SUFFICES ASSUME NEW d \in Call, NEW p \in Place,
                      job'[d].op = "route" /\ job'[d].alone /\ At(job'[d]) = p
               PROVE  /\ Routing(p)' = {d}
                      /\ \A f \in Field : Owes(job'[d], f)
                            => f \in Range(job'[d].todo) \/ device'[p][f] = Wanted(job'[d])[f]
    BY DEF AloneSound, Owes, Wanted, At
  <2>1. d # c /\ job'[d] = job[d]
    BY <1>2, IdleType
  <2> QED
    BY <1>1, <1>2, <2>1 DEF IInv, AloneSound
<1>7. RouteSound'
  <2>1. \A p \in Place : Routing(p) = {} => Routing(p)' = {}
    BY <1>2
  <2> QED
    BY <1>1, <2>1 DEF IInv, RouteSound, Owes, Wanted, At
<1>8. Built'
  <2> SUFFICES ASSUME NEW p \in UsedPlaces' \ leftover', NEW f \in Field,
                      f \in Range(Parts(p[1])) \cup {"button"}, Lacks(p, f)'
               PROVE  \E d \in Routing(p)' : f \in Range(job'[d].todo)
    BY DEF Built
  <2>1. p \in UsedPlaces \ leftover /\ Lacks(p, f)
    BY <1>1 DEF UsedPlaces, Lacks
  <2>2. PICK d \in Routing(p) : f \in Range(job[d].todo)
    BY <2>1 DEF IInv, Built
  <2>3. d # c
    BY <1>1, <2>2 DEF Routing
  <2> QED
    BY <1>2, <2>2, <2>3 DEF Routing
<1> QED
  BY <1>5, <1>6, <1>7, <1>8 DEF IInv

-----------------------------------------------------------------------------
(* Another patch. *)

LEMMA CrowdedType ==
    ASSUME NEW j \in Job
    PROVE  LET k == Crowded(j)
           IN  /\ k \in Job /\ ~k.alone /\ k.op = j.op /\ k.item = j.item /\ k.depth = j.depth
               /\ k.slot = j.slot /\ k.todo = j.todo /\ k.given = j.given /\ k.table = j.table
<1> DEFINE k == Crowded(j)
<1>1. k.alone = FALSE
  BY DEF Crowded, Job
<1>2. /\ k.op = j.op /\ k.item = j.item /\ k.depth = j.depth
      /\ k.slot = j.slot /\ k.todo = j.todo /\ k.given = j.given /\ k.table = j.table
  BY DEF Crowded, Job
<1>3. k \in Job
  BY DEF Crowded, Job
<1> QED
  BY <1>1, <1>2, <1>3

LEMMA DisturbedType ==
    ASSUME NEW j \in Job, NEW op \in {"idle", "route", "switch", "recipe"}
    PROVE  LET k == Disturbed(j, op)
           IN  /\ k \in Job /\ ~k.alone /\ k.op = op /\ k.item = j.item /\ k.depth = j.depth
               /\ k.slot = j.slot /\ k.todo = j.todo /\ k.given = j.given /\ k.table = j.table
<1> DEFINE i == Crowded(j)
<1>1. i \in Job /\ ~i.alone /\ i.item = j.item /\ i.depth = j.depth
      /\ i.slot = j.slot /\ i.todo = j.todo /\ i.given = j.given /\ i.table = j.table
  BY CrowdedType
<1> HIDE DEF i
<1> DEFINE k == [i EXCEPT !.op = op]
<1>2. /\ k \in Job /\ k.op = op /\ k.alone = i.alone /\ k.item = i.item /\ k.depth = i.depth
      /\ k.slot = i.slot /\ k.todo = i.todo /\ k.given = i.given /\ k.table = i.table
  BY <1>1, SMT DEF Job
<1> QED
  BY <1>1, <1>2 DEF i, Disturbed

LEMMA LoadSteps ==
    ASSUME IInv, NEW c \in Call, Load(c)
    PROVE  IInv'
<1>1. /\ job[c].op = "idle" /\ calls < MaxCalls /\ calls' = calls + 1
      /\ device' = Blank /\ routes' = NoRoutes /\ leftover' = leftover \cup UsedPlaces
      /\ UNCHANGED <<itemToSlot, used, faults>>
  BY DEF Load
<1>2. PICK op \in {"switch", "recipe", "idle"} :
          job' = [b \in Call |-> Disturbed(job[b], IF b = c THEN op ELSE job[b].op)]
  BY DEF Load
<1>5. \A b \in Call : job[b] \in Job /\ job[b].op \in {"idle", "route", "switch", "recipe"}
  BY DEF IInv, Types, TypeOK, Job
<1>6. job'[c] = Disturbed(job[c], op)
      /\ \A b \in Call \ {c} : job'[b] = Disturbed(job[b], job[b].op)
  BY <1>2
<1>7. job'[c] \in Job /\ job'[c].op # "route" /\ ~job'[c].alone
  BY <1>5, <1>6, DisturbedType
<1>8. \A b \in Call \ {c} :
         /\ job'[b] \in Job /\ ~job'[b].alone /\ job'[b].op = job[b].op
         /\ job'[b].item = job[b].item /\ job'[b].depth = job[b].depth
         /\ job'[b].slot = job[b].slot /\ job'[b].todo = job[b].todo
         /\ job'[b].given = job[b].given /\ job'[b].table = job[b].table
  BY <1>5, <1>6, DisturbedType
<1>9. job' \in [Call -> Job]
  BY <1>2, <1>7, <1>8
<1>10. calls' \in 0 .. MaxCalls
  BY <1>1, BoundsAssumption, SMT DEF IInv, Types, TypeOK
<1>11. routes' \in [Place -> Job] /\ \A p \in Place : routes'[p].op = "idle"
  BY <1>1, IdleType DEF NoRoutes
<1>12. leftover' \subseteq Place
  BY <1>1 DEF IInv, Types, TypeOK, UsedPlaces
<1>13. \A b \in Call : job'[b].op = "route"
          => /\ job'[b].item \in Item /\ job'[b].depth \in Depth
             /\ job'[b].slot # 0 /\ job'[b].todo # <<>>
             /\ job'[b].given => job'[b].table = "macro"
  BY <1>7, <1>8 DEF IInv, Types, TypeOK
<1>14. Types'
  BY <1>1, <1>9, <1>10, <1>11, <1>12, <1>13, BlankType DEF IInv, Types, TypeOK
<1>15. AloneSound'
  BY <1>7, <1>8 DEF AloneSound
<1>16. RouteSound' /\ Built'
  BY <1>1, <1>11 DEF RouteSound, Built, UsedPlaces
<1> QED
  BY <1>14, <1>15, <1>16 DEF IInv

LEMMA ResetSteps ==
    ASSUME IInv, NEW c \in Call, Reset(c)
    PROVE  IInv'
<1>1. /\ job[c].op \in {"switch", "recipe"} /\ itemToSlot' = NoSlots /\ used' = NoneUsed
      /\ job' = [job EXCEPT ![c] = Idle]
      /\ routes' = NoRoutes /\ leftover' = {}
      /\ UNCHANGED <<device, calls, faults>>
  BY DEF Reset, Resets
<1>2. /\ \A p : Routing(p)' = Routing(p) \ {c}
      /\ \A d \in Call \ {c} : job'[d] = job[d]
      /\ job'[c] = Idle /\ job' \in [Call -> Job]
  BY <1>1, LeavesRouting DEF IInv, Types, TypeOK
<1>3. /\ itemToSlot' \in [Table -> [Item -> 0 .. Slots]] /\ used' \in [Table -> SUBSET Slot]
      /\ \A t \in Table, i \in Item : itemToSlot'[t][i] \in used'[t] \cup {0}
  BY <1>1, BoundsAssumption, SMT DEF NoSlots, NoneUsed
<1>4. routes' \in [Place -> Job] /\ \A p \in Place : routes'[p].op = "idle"
  BY <1>1, IdleType DEF NoRoutes
<1>5. Types'
  BY <1>1, <1>2, <1>3, <1>4, IdleType DEF IInv, Types, TypeOK
<1>6. AloneSound'
  <2> SUFFICES ASSUME NEW d \in Call, NEW p \in Place,
                      job'[d].op = "route" /\ job'[d].alone /\ At(job'[d]) = p
               PROVE  /\ Routing(p)' = {d}
                      /\ \A f \in Field : Owes(job'[d], f)
                            => f \in Range(job'[d].todo) \/ device'[p][f] = Wanted(job'[d])[f]
    BY DEF AloneSound, Owes, Wanted, At
  <2>1. d # c /\ job'[d] = job[d]
    BY <1>2, IdleType
  <2> QED
    BY <1>1, <1>2, <2>1 DEF IInv, AloneSound
<1>7. RouteSound'
  BY <1>4 DEF RouteSound
<1>8. UsedPlaces' = {}
  BY <1>1 DEF UsedPlaces, NoneUsed, Place
<1>9. Built'
  BY <1>8 DEF Built
<1> QED
  BY <1>5, <1>6, <1>7, <1>9 DEF IInv
-----------------------------------------------------------------------------
(* A call writes a part. *)

\* What a write does to its slot, and to no other.
LEMMA PartWritten ==
    ASSUME Types, NEW c \in Call, NEW p \in Place, NEW f \in Field,
           job[c].op = "route", p = At(job[c]),
           Puts(job[c], p, f)
    PROVE  /\ device' \in [Place -> Content]
           /\ \A q \in Place : q # p => device'[q] = device[q]
           /\ device'[p][f] = Wanted(job[c])[f]
           /\ \A g \in Field : g # f => device'[p][g] = device[p][g]
           /\ \A q \in Place : device'[q].button = "unset" => q[1] = "macro"
           /\ \A q \in Place, g \in Field : Lacks(q, g)' => Lacks(q, g) /\ ~(q = p /\ g = f)
<1>1. device \in [Place -> Content] /\ device[p] \in Content
  BY DEF Types, TypeOK
<1>2. /\ Wanted(job[c]) \in Content
      /\ \A g \in Field : Wanted(job[c])[g] # IF g = "button" THEN "unset" ELSE None
  BY AtType, WantedType DEF Types, TypeOK
<1> DEFINE w == Wanted(job[c])
           r == Put(device[p], w, f)
<1>3. r \in Content /\ r[f] = w[f] /\ \A g \in Field : g # f => r[g] = device[p][g]
  BY <1>1, <1>2, FieldWritten
<1>4. device' = [device EXCEPT ![p] = r]
  BY <1>1 DEF Puts, Put
<1> HIDE DEF r
<1>5. /\ device' \in [Place -> Content] /\ device'[p] = r
      /\ \A q \in Place : q # p => device'[q] = device[q]
  BY <1>1, <1>3, <1>4
<1>6. \A q \in Place, g \in Field : Lacks(q, g)' => Lacks(q, g) /\ ~(q = p /\ g = f)
  BY <1>2, <1>3, <1>5 DEF Lacks
<1>7. \A q \in Place : device'[q].button = "unset" => device[q].button = "unset"
  <2>1. "button" \in Field
    BY DEF Field
  <2>2. r["button"] = "unset" => device[p]["button"] = "unset"
    BY <1>2, <1>3, <2>1
  <2> QED
    BY <1>5, <2>2
<1> QED
  BY <1>3, <1>5, <1>6, <1>7 DEF Types

\* Another call that is alone is somewhere else.
LEMMA AloneElsewhere ==
    ASSUME IInv, NEW c \in Call, NEW d \in Call \ {c}, NEW q \in Place,
           job[c].op = "route", job[d].op = "route", job[d].alone, At(job[d]) = q
    PROVE  q # At(job[c]) /\ Routing(q) = {d} /\ c \notin Routing(q)
<1>1. Routing(q) = {d}
  BY DEF IInv, AloneSound
<1>2. c \in Routing(At(job[c]))
  BY AtType DEF IInv
<1> QED
  BY <1>1, <1>2

LEMMA PassesOn ==
    ASSUME IInv, NEW c \in Call, Write(c), Len(job[c].todo) > 1
    PROVE  IInv'
<1> DEFINE p == At(job[c])
           f == Head(job[c].todo)
<1>a. job[c].op = "route"
  BY Zenon DEF Write
<1>2. job[c].todo \in Seq(Field) /\ job[c].todo # <<>> /\ job[c] \in Job
  BY <1>a DEF IInv, Types, TypeOK, Job
<1>b. Len(job[c].todo) \in Nat
  BY <1>2, Rest
<1>c. Len(job[c].todo) # 1
  <2>1. \A n \in Nat : n > 1 => n # 1
    BY SMT
  <2> QED
    BY <1>b, <2>1
<1>1. /\ job[c].op = "route" /\ Puts(job[c], p, f)
      /\ job' = [job EXCEPT ![c].todo = Tail(@)]
      /\ UNCHANGED <<routes, leftover, itemToSlot, used, calls, faults>>
  BY <1>c, Zenon DEF Write
<1>3. /\ f \in Field /\ p \in Place
      /\ \A g : g \in Range(job[c].todo) => g = f \/ g \in Range(Tail(job[c].todo))
      /\ Tail(job[c].todo) \in Seq(Field) /\ Tail(job[c].todo) # <<>>
  BY <1>1, <1>2, Rest, AtType DEF IInv
<1>4. PICK pp \in Place, ff \in Field : pp = p /\ ff = f
  BY <1>3
<1>5. /\ device' \in [Place -> Content]
      /\ \A q \in Place : q # pp => device'[q] = device[q]
      /\ device'[pp][ff] = Wanted(job[c])[ff]
      /\ \A g \in Field : g # ff => device'[pp][g] = device[pp][g]
      /\ \A q \in Place : device'[q].button = "unset" => q[1] = "macro"
      /\ \A q \in Place, g \in Field : Lacks(q, g)' => Lacks(q, g) /\ ~(q = pp /\ g = ff)
  <2>1. Puts(job[c], pp, ff)
    BY <1>1, <1>4
  <2>2. pp = At(job[c]) /\ job[c].op = "route" /\ Types
    BY <1>1, <1>4 DEF IInv
  <2> QED
    BY <2>1, <2>2, PartWritten
<1> DEFINE j == [job[c] EXCEPT !.todo = Tail(job[c].todo)]
<1>6. /\ j \in Job /\ j.op = "route" /\ j.alone = job[c].alone /\ j.item = job[c].item
      /\ j.depth = job[c].depth /\ j.slot = job[c].slot /\ j.given = job[c].given
      /\ j.table = job[c].table /\ j.todo = Tail(job[c].todo)
  <2> DEFINE t == Tail(job[c].todo)
  <2>1. t \in Seq(Field)
    BY <1>3
  <2> HIDE DEF t
  <2>2. \A k \in Job :
           LET i == [k EXCEPT !.todo = t]
           IN  /\ i \in Job /\ i.op = k.op /\ i.alone = k.alone /\ i.item = k.item
               /\ i.depth = k.depth /\ i.slot = k.slot /\ i.given = k.given
               /\ i.table = k.table /\ i.todo = t
    BY <2>1 DEF Job
  <2> QED
    BY <1>1, <1>2, <2>2 DEF t
<1> HIDE DEF j
<1>7. job' \in [Call -> Job] /\ job'[c] = j /\ \A d \in Call \ {c} : job'[d] = job[d]
  <2>1. job' = [job EXCEPT ![c] = j]
    BY <1>1 DEF j
  <2> QED
    BY <1>6, <2>1 DEF IInv, Types, TypeOK
<1>8. At(j) = p /\ Wanted(j) = Wanted(job[c]) /\ \A g : Owes(j, g) <=> Owes(job[c], g)
  BY <1>6 DEF At, Wanted, Owes
<1>9. \A q : Routing(q)' = Routing(q)
  BY <1>1, <1>6, <1>7, <1>8 DEF Routing
<1>10. Types'
  BY <1>1, <1>3, <1>5, <1>6, <1>7 DEF IInv, Types, TypeOK
<1>11. AloneSound'
  <2> SUFFICES ASSUME NEW d \in Call, NEW q \in Place,
                      job'[d].op = "route" /\ job'[d].alone /\ At(job'[d]) = q
               PROVE  /\ Routing(q)' = {d}
                      /\ \A g \in Field : Owes(job'[d], g)
                            => g \in Range(job'[d].todo) \/ device'[q][g] = Wanted(job'[d])[g]
    BY DEF AloneSound, Owes, Wanted, At
  <2>1. CASE d = c
    <3>1. q = pp /\ job[c].alone
      BY <1>4, <1>6, <1>7, <1>8, <2>1
    <3>2. /\ Routing(q) = {c}
          /\ \A g \in Field : Owes(job[c], g)
                => g \in Range(job[c].todo) \/ device[q][g] = Wanted(job[c])[g]
      BY <1>1, <1>4, <3>1 DEF IInv, AloneSound
    <3>3. ASSUME NEW g \in Field, Owes(job'[d], g)
          PROVE  g \in Range(job'[d].todo) \/ device'[q][g] = Wanted(job'[d])[g]
      <4>1. Owes(job[c], g) /\ Wanted(job'[d]) = Wanted(job[c]) /\ job'[d].todo = Tail(job[c].todo)
        BY <1>6, <1>7, <1>8, <2>1, <3>3
      <4>2. CASE g = ff
        BY <1>5, <3>1, <4>1, <4>2
      <4>3. CASE g # ff
        BY <1>3, <1>4, <1>5, <3>1, <3>2, <4>1, <4>3
      <4> QED
        BY <4>2, <4>3
    <3> QED
      BY <1>9, <2>1, <3>2, <3>3
  <2>2. CASE d # c
    <3>1. job'[d] = job[d] /\ q # pp /\ Routing(q) = {d}
      BY <1>1, <1>4, <1>7, <2>2, AloneElsewhere
    <3> QED
      BY <1>5, <1>9, <3>1 DEF IInv, AloneSound
  <2> QED
    BY <2>1, <2>2
<1>12. RouteSound'
  <2>1. c \in Routing(pp)
    BY <1>1, <1>4, AtType DEF IInv
  <2>2. \A q \in Place : Routing(q) = {} => device'[q] = device[q]
    BY <1>5, <2>1
  <2> SUFFICES ASSUME NEW q \in Place, routes'[q].op = "route"
               PROVE  /\ At(routes'[q]) = q
                      /\ q[2] \in used'[q[1]]
                      /\ Routing(q)' = {}
                      /\ \A i \in Item : itemToSlot'[q[1]][i] = q[2] => i = routes'[q].item
                      /\ \A g \in Field : Owes(routes'[q], g)
                            => device'[q][g] = Wanted(routes'[q])[g]
    BY DEF RouteSound, Owes, Wanted, At
  <2>3. routes' = routes /\ itemToSlot' = itemToSlot /\ used' = used /\ Routing(q)' = Routing(q)
    BY <1>1, <1>9
  <2>4. Routing(q) = {}
    BY <2>3 DEF IInv, RouteSound
  <2> QED
    BY <2>2, <2>3, <2>4 DEF IInv, RouteSound
<1>13. Built'
  <2> SUFFICES ASSUME NEW q \in UsedPlaces' \ leftover', NEW g \in Field,
                      g \in Range(Parts(q[1])) \cup {"button"}, Lacks(q, g)'
               PROVE  \E d \in Routing(q)' : g \in Range(job'[d].todo)
    BY DEF Built
  <2>1. q \in UsedPlaces \ leftover /\ q \in Place
    BY <1>1 DEF UsedPlaces
  <2>2. Lacks(q, g) /\ ~(q = pp /\ g = ff)
    BY <1>5, <2>1
  <2>3. PICK d \in Routing(q) : g \in Range(job[d].todo)
    BY <2>1, <2>2 DEF IInv, Built
  <2>4. CASE d = c
    <3>1. q = pp
      BY <1>4, <2>3, <2>4 DEF Routing
    <3>2. g \in Range(job'[c].todo)
      BY <1>3, <1>4, <1>6, <1>7, <2>2, <2>3, <2>4, <3>1
    <3> QED
      BY <1>9, <2>3, <2>4, <3>2
  <2>5. CASE d # c
    BY <1>7, <1>9, <2>3, <2>5 DEF Routing
  <2> QED
    BY <2>4, <2>5
<1> QED
  BY <1>10, <1>11, <1>12, <1>13 DEF IInv
LEMMA Completes ==
    ASSUME IInv, NEW c \in Call, Write(c), ~(Len(job[c].todo) > 1)
    PROVE  IInv'
<1> DEFINE p == At(job[c])
           f == Head(job[c].todo)
<1>a. job[c].op = "route"
  BY Zenon DEF Write
<1>2. job[c].todo \in Seq(Field) /\ job[c].todo # <<>> /\ job[c] \in Job
  BY <1>a DEF IInv, Types, TypeOK, Job
<1>1. /\ Len(job[c].todo) = 1 /\ Puts(job[c], p, f)
      /\ job' = [job EXCEPT ![c] = Idle]
      /\ routes' = IF Stands(job[c]) THEN [routes EXCEPT ![p] = job[c]] ELSE routes
      /\ leftover' = IF Whole(job[c].table, device'[p]) THEN leftover \ {p} ELSE leftover
      /\ UNCHANGED <<itemToSlot, used, calls, faults>>
  BY Zenon DEF Write
<1>3. f \in Field /\ p \in Place /\ \A g : g \in Range(job[c].todo) => g = f
  BY <1>a, <1>1, <1>2, Rest, AtType DEF IInv
<1>4. PICK pp \in Place, ff \in Field : pp = p /\ ff = f
  BY <1>3
<1>5. /\ device' \in [Place -> Content]
      /\ \A q \in Place : q # pp => device'[q] = device[q]
      /\ device'[pp][ff] = Wanted(job[c])[ff]
      /\ \A g \in Field : g # ff => device'[pp][g] = device[pp][g]
      /\ \A q \in Place : device'[q].button = "unset" => q[1] = "macro"
      /\ \A q \in Place, g \in Field : Lacks(q, g)' => Lacks(q, g) /\ ~(q = pp /\ g = ff)
  <2>1. Puts(job[c], pp, ff)
    BY <1>1, <1>4
  <2>2. pp = At(job[c]) /\ job[c].op = "route" /\ Types
    BY <1>a, <1>4 DEF IInv
  <2> QED
    BY <2>1, <2>2, PartWritten
<1>6. /\ \A q : Routing(q)' = Routing(q) \ {c}
      /\ \A d \in Call \ {c} : job'[d] = job[d]
      /\ job'[c] = Idle /\ job' \in [Call -> Job]
  BY <1>1, LeavesRouting DEF IInv, Types, TypeOK
<1>7. c \in Routing(pp) /\ pp[1] = job[c].table /\ pp[2] = job[c].slot /\ job[c].table \in Table
      /\ job[c].slot \in Slot
  BY <1>a, <1>4, AtType DEF IInv
<1>8. Types'
  <2>1. routes' \in [Place -> Job] /\ leftover' \subseteq Place
    BY <1>1, <1>2 DEF IInv, Types, TypeOK
  <2> QED
    BY <1>1, <1>5, <1>6, <2>1, IdleType DEF IInv, Types, TypeOK
<1>9. AloneSound'
  <2> SUFFICES ASSUME NEW d \in Call, NEW q \in Place,
                      job'[d].op = "route" /\ job'[d].alone /\ At(job'[d]) = q
               PROVE  /\ Routing(q)' = {d}
                      /\ \A g \in Field : Owes(job'[d], g)
                            => g \in Range(job'[d].todo) \/ device'[q][g] = Wanted(job'[d])[g]
    BY DEF AloneSound, Owes, Wanted, At
  <2>1. d # c /\ job'[d] = job[d]
    BY <1>6, IdleType
  <2>2. q # pp /\ Routing(q) = {d}
    BY <1>a, <1>4, <2>1, AloneElsewhere
  <2>3. Routing(q)' = {d}
    BY <1>6, <2>1, <2>2
  <2> QED
    BY <1>5, <2>1, <2>2, <2>3 DEF IInv, AloneSound
<1>10. RouteSound'
  <2> SUFFICES ASSUME NEW q \in Place, routes'[q].op = "route"
               PROVE  /\ At(routes'[q]) = q
                      /\ q[2] \in used'[q[1]]
                      /\ Routing(q)' = {}
                      /\ \A i \in Item : itemToSlot'[q[1]][i] = q[2] => i = routes'[q].item
                      /\ \A g \in Field : Owes(routes'[q], g)
                            => device'[q][g] = Wanted(routes'[q])[g]
    BY DEF RouteSound, Owes, Wanted, At
  <2>1. CASE routes'[q] = routes[q]
    <3>1. Routing(q) = {} /\ q # pp
      BY <1>7, <2>1 DEF IInv, RouteSound
    <3>2. Routing(q)' = {} /\ device'[q] = device[q] /\ itemToSlot' = itemToSlot /\ used' = used
      BY <1>1, <1>5, <1>6, <3>1
    <3> QED
      BY <2>1, <3>2 DEF IInv, RouteSound
  <2>2. CASE Stands(job[c]) /\ q = pp
    <3>1. routes'[q] = job[c]
      BY <1>1, <1>2, <1>4, <2>2 DEF IInv, Types, TypeOK
    <3>2. job[c].alone /\ \A i \in Item : itemToSlot[q[1]][i] = q[2] <=> i = job[c].item
      BY <1>7, <2>2 DEF Stands
    <3>3. /\ Routing(q) = {c}
          /\ \A g \in Field : Owes(job[c], g)
                => g \in Range(job[c].todo) \/ device[q][g] = Wanted(job[c])[g]
      BY <1>a, <1>4, <2>2, <3>2 DEF IInv, AloneSound
    <3>4. Routing(q)' = {}
      BY <1>6, <3>3
    <3>5. q[2] \in used[q[1]]
      <4>1. job[c].item \in Item
        BY <1>a DEF IInv, Types, TypeOK
      <4>2. itemToSlot[q[1]][job[c].item] = q[2] /\ q[2] # 0 /\ q[1] \in Table
        BY <1>a, <1>7, <2>2, <3>2, <4>1 DEF IInv, Types, TypeOK
      <4> QED
        BY <4>1, <4>2 DEF IInv, Types, TypeOK
    <3>6. ASSUME NEW g \in Field, Owes(job[c], g)
          PROVE  device'[q][g] = Wanted(job[c])[g]
      <4>1. CASE g = ff
        BY <1>5, <2>2, <4>1
      <4>2. CASE g # ff
        BY <1>3, <1>4, <1>5, <2>2, <3>3, <3>6, <4>2
      <4> QED
        BY <4>1, <4>2
    <3> QED
      BY <1>1, <1>4, <2>2, <3>1, <3>2, <3>4, <3>5, <3>6
  <2> QED
    BY <1>1, <1>4, <2>1, <2>2 DEF IInv, Types, TypeOK
<1>11. Built'
  <2> SUFFICES ASSUME NEW q \in UsedPlaces' \ leftover', NEW g \in Field,
                      g \in Range(Parts(q[1])) \cup {"button"}, Lacks(q, g)'
               PROVE  \E d \in Routing(q)' : g \in Range(job'[d].todo)
    BY DEF Built
  <2>1. q \in UsedPlaces /\ q \in Place
    BY <1>1 DEF UsedPlaces
  <2>2. Lacks(q, g) /\ ~(q = pp /\ g = ff)
    BY <1>5, <2>1
  <2>3. q \notin leftover
    <3>1. CASE q = pp /\ Whole(job[c].table, device'[pp])
      <4>1. \A h \in Range(Parts(q[1])) : device'[q][h] # None
        BY <1>7, <3>1 DEF Whole
      <4>2. device'[q].button # "unset"
        BY <3>1 DEF Whole
      <4>3. g # "button" => device'[q][g] = None
        BY DEF Lacks
      <4>4. g = "button" => device'[q].button = "unset"
        BY DEF Lacks
      <4> QED
        BY <4>1, <4>2, <4>3, <4>4
    <3>2. CASE ~(q = pp /\ Whole(job[c].table, device'[pp]))
      BY <1>1, <1>4, <3>2
    <3> QED
      BY <3>1, <3>2
  <2>4. PICK d \in Routing(q) : g \in Range(job[d].todo)
    BY <2>1, <2>2, <2>3 DEF IInv, Built
  <2>5. d # c
    <3>1. c \in Routing(q) => q = pp
      BY <1>4 DEF Routing
    <3> QED
      BY <1>3, <1>4, <2>2, <2>4, <3>1
  <2> QED
    BY <1>6, <2>4, <2>5 DEF Routing
<1> QED
  BY <1>8, <1>9, <1>10, <1>11 DEF IInv
-----------------------------------------------------------------------------
(* A call begins. *)

\* The slot of a new call: handed out before, to that item, exactly if reused.
LEMMA AllocatedType ==
    ASSUME Types, NEW t \in Table, NEW i \in Item, NEW explicit \in 0 .. Slots,
           ~Full(t, i, explicit)
    PROVE  LET a == Allocated(t, i, explicit)
           IN  /\ a.slot \in Slot /\ a.reused \in BOOLEAN
               /\ a.reused => a.slot \in used[t]
               /\ explicit = 0 => itemToSlot[t][i] = a.slot \/ a.slot \notin used[t]
<1>1. /\ itemToSlot[t][i] \in used[t] \cup {0} /\ used[t] \in SUBSET Slot
  BY DEF Types, TypeOK
<1>2. CASE explicit # 0
  <2>1. explicit \in Slot
    BY <1>2, BoundsAssumption, SMT DEF Slot
  <2> QED
    BY <1>2, <2>1 DEF Allocated
<1>3. CASE explicit = 0 /\ itemToSlot[t][i] # 0
  BY <1>1, <1>3 DEF Allocated
<1>4. CASE explicit = 0 /\ itemToSlot[t][i] = 0
  <2>1. Free(t) # {}
    BY <1>4 DEF Full
  <2>2. Free(t) \in SUBSET Nat
    BY BoundsAssumption, SMT DEF Free, Slot
  <2>3. Min(Free(t)) \in Free(t)
    BY <2>1, <2>2, Least
  <2> HIDE DEF Min
  <2> QED
    BY <1>4, <2>3 DEF Allocated, Free
<1> QED
  BY <1>2, <1>3, <1>4

LEMMA RefusedSteps ==
    ASSUME IInv, calls < MaxCalls, calls' = calls + 1,
           UNCHANGED <<device, itemToSlot, used, job, faults, routes, leftover>>
    PROVE  IInv'
<1>1. calls' \in 0 .. MaxCalls
  BY BoundsAssumption, SMT DEF IInv, Types, TypeOK
<1>2. Types'
  BY <1>1 DEF IInv, Types, TypeOK
<1>3. \A p : Routing(p)' = Routing(p)
  BY DEF Routing
<1>4. UsedPlaces' = UsedPlaces /\ \A p, f : Lacks(p, f)' <=> Lacks(p, f)
  BY DEF UsedPlaces, Lacks
<1>5. AloneSound' /\ RouteSound' /\ Built'
  BY <1>3, <1>4 DEF IInv, AloneSound, RouteSound, Built, Owes, Wanted, At
<1> QED
  BY <1>2, <1>5 DEF IInv

\* The slot s of a new call for item i, and what the call is to do there.
Begins(c, t, i, explicit, given, s, reused, p, alone, j) ==
    /\ job[c].op = "idle" /\ calls < MaxCalls /\ calls' = calls + 1
    /\ UNCHANGED <<device, faults, leftover>>
    /\ given => t = "macro"
    /\ p = <<t, s>>
    /\ reused => s \in used[t]
    /\ explicit = 0 => itemToSlot[t][i] = s \/ s \notin used[t]
    /\ alone => Routing(p) = {}
    /\ Allocates(j)
    /\ job' = [b \in Call |-> IF b = c THEN j
                              ELSE IF b \in Routing(p) THEN Crowded(job[b]) ELSE job[b]]
    /\ routes' = [routes EXCEPT ![p] = IF explicit # 0 \/ @.item = i THEN Idle ELSE @]

LEMMA RouteBegins ==
    ASSUME IInv, NEW c \in Call, NEW t \in Table, NEW i \in Item, NEW d \in Depth,
           NEW explicit \in 0 .. Slots, NEW given \in BOOLEAN, NEW s \in Slot,
           NEW reused \in BOOLEAN, NEW alone \in BOOLEAN, NEW p, NEW j,
           j = [op |-> "route", table |-> t, item |-> i, depth |-> d, slot |-> s,
                given |-> given, todo |-> Plan(t, given, reused), alone |-> alone],
           Begins(c, t, i, explicit, given, s, reused, p, alone, j)
    PROVE  IInv'
<1> USE DEF Begins
<1>1. /\ Plan(t, given, reused) \in Seq(Field) /\ Plan(t, given, reused) # <<>>
      /\ Range(Parts(t)) \subseteq Range(Plan(t, given, reused))
      /\ t = "macro" /\ (given \/ ~reused) => "button" \in Range(Plan(t, given, reused))
  BY PlanType
<1>2. /\ j.op = "route" /\ j.table = t /\ j.item = i /\ j.depth = d /\ j.slot = s
      /\ j.given = given /\ j.todo = Plan(t, given, reused) /\ j.alone = alone
  OBVIOUS
<1>3. s \in 0 .. Slots /\ s # 0
  BY BoundsAssumption, SMT DEF Slot
<1>4. j \in Job
  BY <1>1, <1>3 DEF Job
<1>5. p \in Place /\ p[1] = t /\ p[2] = s /\ At(j) = p
  BY <1>2 DEF Place, At
<1>6. \A q \in Place : q # p => q[1] # t \/ q[2] # s
  BY <1>5 DEF Place
<1>7. \A b \in Call : job[b] \in Job
  BY DEF IInv, Types, TypeOK
<1>8. job'[c] = j /\ \A b \in Call \ {c} :
         /\ job'[b] \in Job /\ (job'[b].alone => job[b].alone /\ b \notin Routing(p))
         /\ job'[b].op = job[b].op /\ job'[b].item = job[b].item /\ job'[b].depth = job[b].depth
         /\ job'[b].slot = job[b].slot /\ job'[b].todo = job[b].todo
         /\ job'[b].given = job[b].given /\ job'[b].table = job[b].table
  <2>1. job'[c] = j /\ \A b \in Call \ {c} :
           job'[b] = IF b \in Routing(p) THEN Crowded(job[b]) ELSE job[b]
    OBVIOUS
  <2> QED
    BY <1>7, <2>1, CrowdedType
<1>9. job' \in [Call -> Job]
  BY <1>4, <1>8
<1>10. /\ \A q : q # p => Routing(q)' = Routing(q)
       /\ Routing(p)' = Routing(p) \cup {c} /\ c \notin Routing(p)
  BY <1>2, <1>5, <1>8 DEF Routing, At
<1>11. /\ itemToSlot' \in [Table -> [Item -> 0 .. Slots]]
       /\ itemToSlot'[t][i] = s
       /\ \A u \in Table, k \in Item : u # t \/ k # i => itemToSlot'[u][k] = itemToSlot[u][k]
  BY <1>2, <1>3 DEF Allocates, IInv, Types, TypeOK
<1>12. /\ used' \in [Table -> SUBSET Slot]
       /\ used'[t] = used[t] \cup {s} /\ \A u \in Table : u # t => used'[u] = used[u]
  BY <1>2 DEF Allocates, IInv, Types, TypeOK
<1>13. \A u \in Table, k \in Item : itemToSlot'[u][k] \in used'[u] \cup {0}
  <2> SUFFICES ASSUME NEW u \in Table, NEW k \in Item
               PROVE  itemToSlot'[u][k] \in used'[u] \cup {0}
    OBVIOUS
  <2>1. CASE u = t /\ k = i
    BY <1>11, <1>12, <2>1
  <2>2. CASE ~(u = t /\ k = i)
    <3>1. itemToSlot'[u][k] = itemToSlot[u][k] /\ used[u] \subseteq used'[u]
      BY <1>11, <1>12, <2>2
    <3>2. itemToSlot[u][k] \in used[u] \cup {0}
      BY DEF IInv, Types, TypeOK
    <3> QED
      BY <3>1, <3>2
  <2> QED
    BY <2>1, <2>2
<1>14. /\ routes' \in [Place -> Job] /\ \A q \in Place : q # p => routes'[q] = routes[q]
       /\ routes'[p].op = "route" => explicit = 0 /\ routes[p].item # i /\ routes'[p] = routes[p]
  BY <1>5, IdleType DEF IInv, Types, TypeOK
<1>15. calls' \in 0 .. MaxCalls
  BY BoundsAssumption, SMT DEF IInv, Types, TypeOK
<1>16. \A b \in Call : job'[b].op = "route"
          => /\ job'[b].item \in Item /\ job'[b].depth \in Depth
             /\ job'[b].slot # 0 /\ job'[b].todo # <<>>
             /\ job'[b].given => job'[b].table = "macro"
  <2>1. ASSUME NEW b \in Call \ {c}, job'[b].op = "route"
        PROVE  /\ job'[b].item \in Item /\ job'[b].depth \in Depth
               /\ job'[b].slot # 0 /\ job'[b].todo # <<>>
               /\ job'[b].given => job'[b].table = "macro"
    <3>1. job[b].op = "route" /\ job'[b].given = job[b].given /\ job'[b].table = job[b].table
          /\ job'[b].slot = job[b].slot /\ job'[b].todo = job[b].todo
          /\ job'[b].item = job[b].item /\ job'[b].depth = job[b].depth
      BY <1>8, <2>1
    <3>2. /\ job[b].item \in Item /\ job[b].depth \in Depth
          /\ job[b].slot # 0 /\ job[b].todo # <<>>
          /\ job[b].given => job[b].table = "macro"
      BY <3>1 DEF IInv, Types, TypeOK
    <3> QED
      BY <3>1, <3>2
  <2> QED
    BY <1>1, <1>2, <1>3, <1>8, <2>1
<1>17. Types'
  BY <1>9, <1>11, <1>12, <1>13, <1>14, <1>15, <1>16 DEF IInv, Types, TypeOK
<1>18. AloneSound'
  <2> SUFFICES ASSUME NEW b \in Call, NEW q \in Place,
                      job'[b].op = "route" /\ job'[b].alone /\ At(job'[b]) = q
               PROVE  /\ Routing(q)' = {b}
                      /\ \A g \in Field : Owes(job'[b], g)
                            => g \in Range(job'[b].todo) \/ device'[q][g] = Wanted(job'[b])[g]
    BY DEF AloneSound, Owes, Wanted, At
  <2>1. CASE b = c
    <3>1. q = p /\ Routing(q)' = {b}
      BY <1>2, <1>5, <1>8, <1>10, <2>1
    <3>2. \A g \in Field : Owes(j, g) => g \in Range(j.todo)
      BY <1>1, <1>2 DEF Owes
    <3> QED
      BY <1>8, <2>1, <3>1, <3>2
  <2>2. CASE b # c
    <3>1. /\ job[b].op = "route" /\ job[b].alone /\ b \notin Routing(p)
          /\ job'[b].todo = job[b].todo
      BY <1>8, <2>2
    <3>2. At(job[b]) = q /\ Wanted(job'[b]) = Wanted(job[b])
          /\ \A g : Owes(job'[b], g) <=> Owes(job[b], g)
      BY <1>8, <2>2 DEF At, Wanted, Owes
    <3>3. q # p
      BY <3>1, <3>2 DEF Routing
    <3>4. /\ Routing(q) = {b}
          /\ \A g \in Field : Owes(job[b], g)
                => g \in Range(job[b].todo) \/ device[q][g] = Wanted(job[b])[g]
      BY <3>1, <3>2 DEF IInv, AloneSound
    <3> QED
      BY <1>10, <3>1, <3>2, <3>3, <3>4
  <2> QED
    BY <2>1, <2>2
<1>19. RouteSound'
  <2> SUFFICES ASSUME NEW q \in Place, routes'[q].op = "route"
               PROVE  /\ At(routes'[q]) = q
                      /\ q[2] \in used'[q[1]]
                      /\ Routing(q)' = {}
                      /\ \A k \in Item : itemToSlot'[q[1]][k] = q[2] => k = routes'[q].item
                      /\ \A g \in Field : Owes(routes'[q], g)
                            => device'[q][g] = Wanted(routes'[q])[g]
    BY DEF RouteSound, Owes, Wanted, At
  <2>1. q # p
    <3> SUFFICES ASSUME q = p PROVE FALSE
      OBVIOUS
    <3>1. explicit = 0 /\ routes[p].item # i /\ routes[p].op = "route"
      BY <1>14
    <3>2. s \in used[t] /\ (itemToSlot[t][i] = s => i = routes[p].item)
      BY <1>5, <3>1 DEF IInv, RouteSound
    <3> QED
      BY <3>1, <3>2
  <2>2. routes'[q] = routes[q] /\ Routing(q)' = Routing(q) /\ q[1] \in Table
    BY <1>10, <1>14, <2>1 DEF Place
  <2>3. q[2] \in used'[q[1]]
    BY <1>12, <2>2 DEF IInv, RouteSound
  <2>4. \A k \in Item : itemToSlot'[q[1]][k] = q[2] => itemToSlot[q[1]][k] = q[2]
    BY <1>6, <1>11, <2>1, <2>2
  <2> QED
    BY <2>2, <2>3, <2>4 DEF IInv, RouteSound
<1>20. Built'
  <2> SUFFICES ASSUME NEW q \in UsedPlaces' \ leftover', NEW g \in Field,
                      g \in Range(Parts(q[1])) \cup {"button"}, Lacks(q, g)'
               PROVE  \E b \in Routing(q)' : g \in Range(job'[b].todo)
    BY DEF Built
  <2>1. Lacks(q, g) /\ q \in Place /\ q \notin leftover
    BY DEF Lacks, UsedPlaces
  <2>2. CASE q \in UsedPlaces
    <3>1. PICK b \in Routing(q) : g \in Range(job[b].todo)
      BY <2>1, <2>2 DEF IInv, Built
    <3>2. b \in Call \ {c} /\ b \in Routing(q)'
      BY <1>10, <3>1 DEF Routing
    <3> QED
      BY <1>8, <3>1, <3>2
  <2>3. CASE q \notin UsedPlaces
    <3>1. q = p
      <4>1. q[2] \in used'[q[1]] /\ q[2] \notin used[q[1]] /\ q[1] \in Table
        BY <2>1, <2>3 DEF UsedPlaces, Place
      <4> QED
        BY <1>6, <1>12, <2>1, <4>1
    <3>2. ~reused
      BY <1>5, <2>1, <2>3, <3>1 DEF UsedPlaces
    <3>3. g = "button" => t = "macro"
      BY <1>5, <2>1, <3>1 DEF Lacks, IInv, Types
    <3>4. g \in Range(j.todo)
      BY <1>1, <1>2, <1>5, <3>1, <3>2, <3>3
    <3> QED
      BY <1>8, <1>10, <3>1, <3>4
  <2> QED
    BY <2>2, <2>3
<1> QED
  BY <1>17, <1>18, <1>19, <1>20 DEF IInv

LEMMA BeginRouteSteps ==
    ASSUME IInv, NEW c \in Call, BeginRoute(c)
    PROVE  IInv'
<1>1. /\ job[c].op = "idle" /\ calls < MaxCalls /\ calls' = calls + 1
      /\ UNCHANGED <<device, faults, leftover>>
  BY DEF BeginRoute
<1>2. CASE UNCHANGED <<itemToSlot, used, job, routes>>
  BY <1>1, <1>2, RefusedSteps
<1>3. CASE ~UNCHANGED <<itemToSlot, used, job, routes>>
  <2>1. PICK t \in Table, i \in Item, d \in Depth, explicit \in 0 .. Slots, given \in BOOLEAN :
           (given => t = "macro") /\ ~Full(t, i, explicit) /\ Starts(c, t, i, d, explicit, given)
    BY <1>3 DEF BeginRoute
  <2>2. LET a == Allocated(t, i, explicit)
        IN  /\ a.slot \in Slot /\ a.reused \in BOOLEAN
            /\ a.reused => a.slot \in used[t]
            /\ explicit = 0 => itemToSlot[t][i] = a.slot \/ a.slot \notin used[t]
    BY <2>1, AllocatedType DEF IInv
  <2>3. PICK s \in Slot, reused \in BOOLEAN :
           s = Allocated(t, i, explicit).slot /\ reused = Allocated(t, i, explicit).reused
    BY <2>2
  <2>4. PICK alone \in BOOLEAN : alone = (Routing(<<t, s>>) = {})
    OBVIOUS
  <2> DEFINE p == <<t, s>>
             j == [op |-> "route", table |-> t, item |-> i, depth |-> d, slot |-> s,
                   given |-> given, todo |-> Plan(t, given, reused), alone |-> alone]
  <2>5. /\ Allocates(j)
        /\ job' = [b \in Call |-> IF b = c THEN j
                                  ELSE IF b \in Routing(p) THEN Crowded(job[b]) ELSE job[b]]
        /\ routes' = [routes EXCEPT ![p] = IF explicit # 0 \/ @.item = i THEN Idle ELSE @]
    BY <2>1, <2>3, <2>4 DEF Starts
  <2>6. /\ reused => s \in used[t]
        /\ explicit = 0 => itemToSlot[t][i] = s \/ s \notin used[t]
        /\ alone => Routing(p) = {}
    BY <2>2, <2>3, <2>4
  <2>7. /\ p = <<t, s>>
        /\ j = [op |-> "route", table |-> t, item |-> i, depth |-> d, slot |-> s,
                given |-> given, todo |-> Plan(t, given, reused), alone |-> alone]
    OBVIOUS
  <2> HIDE DEF p, j
  <2> QED
    <3>1. Begins(c, t, i, explicit, given, s, reused, p, alone, j)
      BY <1>1, <2>1, <2>5, <2>6, <2>7 DEF Begins
    <3> QED
      BY <2>7, <3>1, RouteBegins
<1> QED
  BY <1>2, <1>3
-----------------------------------------------------------------------------
(* The theorems. *)

LEMMA Starting == Init => IInv
<1> SUFFICES ASSUME Init PROVE IInv
  OBVIOUS
<1>1. /\ itemToSlot \in [Table -> [Item -> 0 .. Slots]] /\ used \in [Table -> SUBSET Slot]
      /\ \A t \in Table, i \in Item : itemToSlot[t][i] \in used[t] \cup {0}
  BY BoundsAssumption, SMT DEF Init, NoSlots, NoneUsed
<1>2. /\ job \in [Call -> Job] /\ \A c \in Call : job[c].op = "idle"
      /\ routes \in [Place -> Job] /\ \A p \in Place : routes[p].op = "idle"
  BY IdleType DEF Init, NoRoutes
<1>3. calls \in 0 .. MaxCalls /\ faults \in 0 .. MaxFaults
  BY BoundsAssumption, SMT DEF Init
<1>4. Types
  BY <1>1, <1>2, <1>3, BlankType DEF Init, Types, TypeOK
<1>5. UsedPlaces = {}
  BY DEF Init, UsedPlaces, NoneUsed, Place
<1> QED
  BY <1>2, <1>4, <1>5 DEF IInv, AloneSound, RouteSound, Built

(***************************************************************************)
(* The strengthened invariant is inductive: it holds of a fresh session    *)
(* and after every step of calls, writes, loads and resets.                *)
(***************************************************************************)
THEOREM Inductive == Spec => []IInv
<1>1. ASSUME IInv, [Next]_vars
      PROVE  IInv'
  <2>1. ASSUME NEW c \in Call, Write(c)
        PROVE  IInv'
    BY <1>1, <2>1, PassesOn, Completes
  <2>2. ASSUME NEW c \in Call,
               BeginRoute(c) \/ Throws(c) \/ Load(c) \/ Reset(c)
        PROVE  IInv'
    BY <1>1, <2>2, BeginRouteSteps, ThrowsSteps, LoadSteps, ResetSteps
  <2>3. CASE UNCHANGED vars
    <3>1. UNCHANGED <<device, itemToSlot, used, job, calls, faults, routes, leftover>>
      BY <2>3 DEF vars
    <3>2. \A p : Routing(p)' = Routing(p)
      BY <3>1 DEF Routing
    <3>3. UsedPlaces' = UsedPlaces /\ \A p, f : Lacks(p, f)' <=> Lacks(p, f)
      BY <3>1 DEF UsedPlaces, Lacks
    <3>4. Types'
      BY <1>1, <3>1 DEF IInv, Types, TypeOK
    <3>5. AloneSound'
      BY <1>1, <3>1, <3>2 DEF IInv, AloneSound, Owes, Wanted, At
    <3>6. RouteSound'
      BY <1>1, <3>1, <3>2 DEF IInv, RouteSound, Owes, Wanted, At
    <3>7. Built'
      BY <1>1, <3>1, <3>2, <3>3 DEF IInv, Built
    <3> QED
      BY <3>4, <3>5, <3>6, <3>7 DEF IInv
  <2> QED
    BY <1>1, <2>1, <2>2, <2>3 DEF Next
<1> QED
  BY <1>1, Starting, PTL DEF Spec

(***************************************************************************)
(* The allocator and the calls stay well formed.                           *)
(***************************************************************************)
THEOREM TypeCorrect == Spec => []TypeOK
<1>1. IInv => TypeOK
  BY DEF IInv, Types
<1> QED
  BY <1>1, Inductive, PTL

(***************************************************************************)
(* A reported route stays, for any number of calls, items and slots.       *)
(***************************************************************************)
THEOREM AlwaysStay == Spec => []RoutesStay
<1>1. IInv => RoutesStay
  <2> SUFFICES ASSUME IInv, NEW p \in Place, routes[p].op = "route"
               PROVE  /\ \A f \in Range(Parts(p[1])) : device[p][f] = Wanted(routes[p])[f]
                      /\ routes[p].given => device[p].button = "given"
    BY DEF RoutesStay
  <2>1. /\ At(routes[p]) = p
        /\ \A f \in Field : Owes(routes[p], f) => device[p][f] = Wanted(routes[p])[f]
    BY DEF IInv, RouteSound
  <2>2. p[1] \in Table /\ routes[p].table = p[1]
    BY <2>1 DEF At, Place
  <2>3. \A f \in Range(Parts(p[1])) : f \in Field /\ Owes(routes[p], f)
    BY <2>2, PartsType DEF Owes
  <2>4. routes[p].given => device[p]["button"] = Wanted(routes[p])["button"]
    BY <2>1 DEF Owes, Field
  <2>5. routes[p].given => Wanted(routes[p]).button = "given"
    BY DEF Wanted
  <2> QED
    BY <2>1, <2>3, <2>4, <2>5
<1> QED
  BY <1>1, Inductive, PTL

(***************************************************************************)
(* Every slot that was handed out is built, or its fault is known.         *)
(***************************************************************************)
THEOREM AlwaysBuilt == Spec => []SlotsAreBuilt
<1>1. IInv => SlotsAreBuilt
  <2> SUFFICES ASSUME IInv, NEW p \in UsedPlaces, ~Whole(p[1], device[p]), p \notin leftover
               PROVE  Routing(p) # {}
    BY DEF SlotsAreBuilt
  <2>1. p[1] \in Table
    BY DEF UsedPlaces, Place
  <2>2. PICK f \in Field : f \in Range(Parts(p[1])) \cup {"button"} /\ Lacks(p, f)
    <3>1. CASE device[p].button = "unset"
      BY <3>1 DEF Lacks, Field
    <3>2. CASE \E f \in Range(Parts(p[1])) : device[p][f] = None
      BY <2>1, <3>2, PartsType DEF Lacks
    <3> QED
      BY <3>1, <3>2 DEF Whole
  <2> QED
    BY <2>2 DEF IInv, Built
<1> QED
  BY <1>1, Inductive, PTL
=============================================================================
