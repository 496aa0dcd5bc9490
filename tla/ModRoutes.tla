----------------------------- MODULE ModRoutes -----------------------------
(***************************************************************************)
(* The routes of the Hydrasynth, whose patch cannot be read back:          *)
(*                                                                         *)
(*   dispatcher/modRouteState.ts        which slots this session has used  *)
(*   dispatcher/navigation-modroute.ts  set_mod_route, set_macro_route     *)
(*   dispatcher/navigation.ts           switch_preset                      *)
(*   hydrasynth/src/tools/patch.ts      init_patch, apply_patch            *)
(*                                                                         *)
(* One matrix of modulation routes and the destinations of one macro.  An  *)
(* item is what is routed; each call writes the parts of its route one     *)
(* after the other, and calls interleave at every write.  Patches that are *)
(* loaded have no routes of their own, as the allocator assumes.           *)
(***************************************************************************)
EXTENDS Integers, Sequences, Functions, FiniteSetsExt

CONSTANTS
    Call,       \* tool calls in progress at once
    Item,       \* what may be routed: a source and its target, or a target
    Depth,      \* the depths asked for
    Slots,      \* slots of each table
    MaxCalls,   \* bound: calls
    MaxFaults,  \* bound: calls that throw
    None

ASSUME NoneAssumption == None \notin Item \cup Depth
ASSUME BoundsAssumption == Slots \in Nat \ {0} /\ MaxCalls \in Nat /\ MaxFaults \in Nat

VARIABLES
    device,     \* what each slot holds
    itemToSlot, \* the slot of each item, 0 if it has none
    used,       \* the slots handed out
    job,        \* what each call is at
    calls, faults, \* counted, for the bounds
    routes,     \* history: the route last reported in a slot, while no call for
                \* that item or for that very slot, nor a load, came after it
    leftover    \* history: slots whose call threw, or that a load emptied
                \* without the allocator's being reset

vars == <<device, itemToSlot, used, job, calls, faults, routes, leftover>>

Table == {"mod", "macro"}
Slot == 1 .. Slots
Place == Table \X Slot

\* A macro's destination has a button besides: unset is the value that slams
\* it when the button is pressed.
Field == {"source", "target", "depth", "button"}
Content == [source : Item \cup {None}, target : Item \cup {None},
            depth : Depth \cup {None}, button : {"unset", "zero", "given"}]

\* alone: no other call was at the slot meanwhile, and no patch was loaded.
Job == [op : {"idle", "route", "switch", "recipe"}, table : Table, item : Item \cup {None},
        depth : Depth \cup {None}, slot : 0 .. Slots, given : BOOLEAN,
        todo : Seq(Field), alone : BOOLEAN]

Idle == [op |-> "idle", table |-> "mod", item |-> None, depth |-> None, slot |-> 0,
         given |-> FALSE, todo |-> <<>>, alone |-> TRUE]

(***************************************************************************)
(* TypeOK: every variable stays in its range; a call that routes knows what *)
(* it routes, and has a slot and something left to write; every item that  *)
(* has a slot has one that was handed out.                                 *)
(***************************************************************************)
TypeOK ==
    /\ device \in [Place -> Content]
    /\ itemToSlot \in [Table -> [Item -> 0 .. Slots]]
    /\ used \in [Table -> SUBSET Slot]
    /\ \A t \in Table, i \in Item : itemToSlot[t][i] \in used[t] \cup {0}
    /\ job \in [Call -> Job]
    /\ \A c \in Call : job[c].op = "route"
          => /\ job[c].item \in Item /\ job[c].depth \in Depth
             /\ job[c].slot # 0 /\ job[c].todo # <<>>
    /\ calls \in 0 .. MaxCalls /\ faults \in 0 .. MaxFaults
    /\ routes \in [Place -> Job]
    /\ leftover \subseteq Place

\* A patch from INIT: only the button of a macro's first destination is set.
Blank ==
    [p \in Place |-> [source |-> None, target |-> None, depth |-> None,
                      button |-> IF p[1] = "macro" /\ p[2] > 1 THEN "unset" ELSE "zero"]]

NoSlots == [t \in Table |-> [i \in Item |-> 0]]
NoneUsed == [t \in Table |-> {}]
NoRoutes == [p \in Place |-> Idle]

Init ==
    /\ device = Blank
    /\ itemToSlot = NoSlots /\ used = NoneUsed
    /\ job = [c \in Call |-> Idle]
    /\ calls = 0 /\ faults = 0
    /\ routes = NoRoutes /\ leftover = {}

-----------------------------------------------------------------------------
(* What a call is to do. *)

At(j) == <<j.table, j.slot>>
Routing(p) == {c \in Call : job[c].op = "route" /\ At(job[c]) = p}

\* What the slot holds once every part is written.
Wanted(j) == [source |-> j.item, target |-> j.item, depth |-> j.depth,
              button |-> IF j.given THEN "given" ELSE "zero"]

Parts(t) == IF t = "mod" THEN <<"source", "target", "depth">> ELSE <<"target", "depth">>

\* The button is written only if the caller gives its value.
PartsOnly(t, given, reused) == Parts(t) \o (IF given THEN <<"button">> ELSE <<>>)

\* A destination that is created has its button initialised.
Plan(t, given, reused) ==
    Parts(t) \o (IF t = "macro" /\ (given \/ ~reused) THEN <<"button">> ELSE <<>>)

\* A slot that no item has now.
Unclaimed(t) == Slot \ Range(itemToSlot[t])

\* A slot that was not handed out.
Free(t) == Slot \ used[t]

\* allocateSlot: the slot that is asked for, the item's own, or the lowest
\* that is free.
Allocated(t, i, explicit) ==
    IF explicit # 0 THEN [slot |-> explicit, reused |-> FALSE]
    ELSE IF itemToSlot[t][i] # 0 THEN [slot |-> itemToSlot[t][i], reused |-> TRUE]
    ELSE [slot |-> Min(Free(t)), reused |-> FALSE]

Full(t, i, explicit) == explicit = 0 /\ itemToSlot[t][i] = 0 /\ Free(t) = {}

-----------------------------------------------------------------------------
(* set_mod_route and set_macro_route. *)

Allocates(j) ==
    /\ itemToSlot' = [itemToSlot EXCEPT ![j.table][j.item] = j.slot]
    /\ used' = [used EXCEPT ![j.table] = @ \cup {j.slot}]

\* Another call came to its slot.
Crowded(j) == [j EXCEPT !.alone = FALSE]

\* The call has its slot, and its first write is next.
Starts(c, t, i, d, explicit, given) ==
    LET a == Allocated(t, i, explicit)
        p == <<t, a.slot>>
        j == [op |-> "route", table |-> t, item |-> i, depth |-> d, slot |-> a.slot,
              given |-> given, todo |-> Plan(t, given, a.reused), alone |-> Routing(p) = {}]
    IN  /\ Allocates(j)
        /\ job' = [b \in Call |-> IF b = c THEN j
                                  ELSE IF b \in Routing(p) THEN Crowded(job[b]) ELSE job[b]]
        /\ routes' = [routes EXCEPT ![p] = IF explicit # 0 \/ @.item = i THEN Idle ELSE @]

BeginRoute(c) ==
    /\ job[c].op = "idle" /\ calls < MaxCalls
    /\ calls' = calls + 1
    /\ \E t \in Table, i \in Item, d \in Depth, explicit \in 0 .. Slots, given \in BOOLEAN :
          /\ given => t = "macro"
          /\ \/ Full(t, i, explicit) /\ UNCHANGED <<itemToSlot, used, job, routes>>
             \/ ~Full(t, i, explicit) /\ Starts(c, t, i, d, explicit, given)
    /\ UNCHANGED <<device, faults, leftover>>

\* The route is reported once its last part is written.  It stands unless it
\* was forgotten meanwhile, or the allocator has another item in its slot too.
Stands(j) ==
    /\ j.alone
    /\ \A i \in Item : itemToSlot[j.table][i] = j.slot <=> i = j.item

\* One part goes out, and the device takes it.
Puts(j, p, f) == device' = [device EXCEPT ![p][f] = Wanted(j)[f]]

Whole(table, content) ==
    /\ \A f \in Range(Parts(table)) : content[f] # None
    /\ content.button # "unset"

Write(c) ==
    LET j == job[c]
        p == At(j)
        f == Head(j.todo)
    IN  /\ j.op = "route"
        /\ Puts(j, p, f)
        /\ \/ /\ Len(j.todo) > 1
              /\ job' = [job EXCEPT ![c].todo = Tail(@)]
              /\ UNCHANGED <<routes, leftover>>
           \/ /\ Len(j.todo) = 1
              /\ job' = [job EXCEPT ![c] = Idle]
              /\ routes' = IF Stands(j) THEN [routes EXCEPT ![p] = j] ELSE routes
              /\ leftover' = IF Whole(j.table, device'[p]) THEN leftover \ {p} ELSE leftover
        /\ UNCHANGED <<itemToSlot, used, calls, faults>>

\* A send, or the encoding of a value that is out of range, throws.
Throws(c) ==
    /\ job[c].op \in {"route", "recipe"} /\ faults < MaxFaults
    /\ faults' = faults + 1
    /\ job' = [job EXCEPT ![c] = Idle]
    /\ leftover' = IF job[c].op = "route" THEN leftover \cup {At(job[c])} ELSE leftover
    /\ UNCHANGED <<device, itemToSlot, used, calls, routes>>

-----------------------------------------------------------------------------
(* Another patch. *)

UsedPlaces == {p \in Place : p[2] \in used[p[1]]}

\* A patch was loaded while it was at work.
Disturbed(j, op) == [Crowded(j) EXCEPT !.op = op]

\* The patch is replaced.  switch_preset, and apply_patch if it has routes to
\* write, reset the allocator later; init_patch and a plain apply_patch do not.
Load(c) ==
    /\ job[c].op = "idle" /\ calls < MaxCalls
    /\ calls' = calls + 1
    /\ device' = Blank
    /\ \E op \in {"switch", "recipe", "idle"} :
          job' = [b \in Call |-> Disturbed(job[b], IF b = c THEN op ELSE job[b].op)]
    /\ routes' = NoRoutes
    /\ leftover' = leftover \cup UsedPlaces
    /\ UNCHANGED <<itemToSlot, used, faults>>

\* The slots are free again, but the items keep theirs.
ResetsSlots == used' = NoneUsed /\ UNCHANGED itemToSlot

\* resetModRouteState.
Resets == itemToSlot' = NoSlots /\ used' = NoneUsed

\* The routes of a recipe follow as calls of their own.
Reset(c) ==
    /\ job[c].op \in {"switch", "recipe"}
    /\ Resets
    /\ job' = [job EXCEPT ![c] = Idle]
    /\ routes' = NoRoutes /\ leftover' = {}
    /\ UNCHANGED <<device, calls, faults>>

Next == \E c \in Call : BeginRoute(c) \/ Write(c) \/ Throws(c) \/ Load(c) \/ Reset(c)

Spec == Init /\ [][Next]_vars

-----------------------------------------------------------------------------
(***************************************************************************)
(* RoutesStay: a route that was reported is in its slot with every part of *)
(* its call, and stays there, until a call for the same item or with that  *)
(* very slot begins or the patch is replaced: the allocator never hands    *)
(* the slot to another item.  Routes that met another call at their slot,  *)
(* or a load, on the way are excepted, and those made after a load but     *)
(* before its reset, which forgets them.                                   *)
(***************************************************************************)
RoutesStay ==
    \A p \in Place :
        LET j == routes[p]
        IN  j.op = "route"
            => /\ \A f \in Range(Parts(p[1])) : device[p][f] = Wanted(j)[f]
               /\ j.given => device[p].button = "given"

(***************************************************************************)
(* SlotsAreBuilt: a slot that was handed out holds a whole route, whose    *)
(* button is set, or a call is still at it, unless its call threw, or a    *)
(* patch was loaded by a tool that does not reset the allocator.  So no    *)
(* other slot is lost, a table is refused as full only then or when it is, *)
(* and no destination is left at the value that slams it.                  *)
(***************************************************************************)
SlotsAreBuilt ==
    \A p \in UsedPlaces : Whole(p[1], device[p]) \/ p \in leftover \/ Routing(p) # {}

=============================================================================
