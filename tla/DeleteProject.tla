--------------------------- MODULE DeleteProject ---------------------------
(***************************************************************************)
(* delete_project of the Circuit Tracks, one call at a time:               *)
(*                                                                         *)
(*   deleteProject.ts   executeDeleteProject and its gates                 *)
(*   fileDelete.ts      probeSlots, deleteSlots                            *)
(*   reader.ts, writer.ts, backup.ts   what they make of the device        *)
(*                                                                         *)
(* Four passes over the named slots: read what they hold, back each of     *)
(* them up, erase each after one more look, and look again in a fresh      *)
(* session.  The device may ignore any frame or answer it late, a send may *)
(* throw, a listing may be partial or behind the card, and somebody may    *)
(* store a project at the device at any moment.                            *)
(*                                                                         *)
(* A file is the number of the save that made it; a frame takes effect     *)
(* when it is sent, and its answer comes as late as it likes, in order.    *)
(***************************************************************************)
EXTENDS Naturals, Sequences, Functions

CONSTANTS
    Slot,     \* slots of the pack
    MaxNamed, \* MAX_DELETES_PER_CALL
    MaxCalls, \* bound: calls
    MaxSaves, \* bound: projects stored at the device meanwhile
    None

ASSUME MaxNamedAssumption == MaxNamed \in Nat
ASSUME BoundsAssumption == MaxCalls \in Nat /\ MaxSaves \in Nat
ASSUME NoneAssumption == None \notin Nat

VARIABLES
    card,     \* the file in each slot
    listed,   \* the slots the pack's directory names
    saves,    \* projects stored at the device
    calls,    \* calls begun
    named,    \* the slots of the call
    phase,    \* the pass it is in
    wait,     \* what it does or waits for next
    i,        \* the place in named it has got to
    names,    \* the listing of this session
    seen,     \* the answers of this probe, or of the last one
    backup,   \* the files it backed up
    wire,     \* what the erasing pass says of each slot
    inbox,    \* answers on their way
    report,   \* how the last call ended
    erased,   \* history: the file the call erased
    resaved   \* history: slots stored to since they were backed up

deviceVars == <<card, listed, saves>>
gateVars == <<backup, resaved>>
outVars == <<calls, named, report>>
vars == <<deviceVars, outVars, phase, wait, i, names, seen, gateVars, wire,
          inbox, erased>>

File == 0 .. MaxSaves
Verdicts == {"occupied", "free", "unknown"}
Phases == {"idle", "probe", "backup", "delete", "verify"}
Waits == {"open", "ask", "query", "send", "ack", "again", "after"}
Answers == [kind : {"occupied", "free", "deleted"}, slot : Slot]
Reports == [kind : {"none", "refused", "threw", "done"},
            ok : SUBSET Slot, unknown : SUBSET Slot]

(***************************************************************************)
(* TypeOK: every variable stays in its range, and a pass that reads or     *)
(* erases is at a slot that was named, or past the last one.               *)
(***************************************************************************)
TypeOK ==
    /\ card \in [Slot -> File \cup {None}]
    /\ listed \in SUBSET Slot
    /\ saves \in 0 .. MaxSaves
    /\ calls \in 0 .. MaxCalls
    /\ named \in Seq(Slot)
    /\ phase \in Phases
    /\ wait \in Waits
    /\ i \in 1 .. Len(named) + 1
    /\ phase = "delete" /\ wait \notin {"open", "ask"} => i \in 1 .. Len(named)
    /\ names \in SUBSET Slot
    /\ seen \in [Slot -> Verdicts]
    /\ backup \in [Slot -> File \cup {None}]
    /\ wire \in [Slot -> {"none", "alone", "unknown", "gone"}]
    /\ inbox \in Seq(Answers)
    /\ report \in Reports
    /\ erased \in [Slot -> File \cup {None}]
    /\ resaved \in SUBSET Slot

NoFile == [s \in Slot |-> None]
NoReport == [kind |-> "none", ok |-> {}, unknown |-> {}]

Init ==
    /\ card \in [Slot -> {0, None}]
    /\ listed = {s \in Slot : card[s] # None}
    /\ saves = 0
    /\ calls = 0 /\ named = <<>>
    /\ phase = "idle" /\ wait = "open" /\ i = 1
    /\ names = {}
    /\ seen = [s \in Slot |-> "unknown"]
    /\ backup = NoFile
    /\ wire = [s \in Slot |-> "none"]
    /\ inbox = <<>>
    /\ report = NoReport
    /\ erased = NoFile /\ resaved = {}

-----------------------------------------------------------------------------
(* The wire. *)

Quiet == UNCHANGED inbox
Says(kind, s) == inbox' = Append(inbox, [kind |-> kind, slot |-> s])

\* QUERY_EXISTS, ignored or answered.
Queries(s) ==
    Quiet \/ Says(IF card[s] = None THEN "free" ELSE "occupied", s)

\* parseExistsReply: an occupied slot echoes its id; EMPTY_RECORD names none.
Verdict(a, s) ==
    IF a.kind = "free" \/ a.slot = s THEN a.kind ELSE "unknown"

-----------------------------------------------------------------------------
(* The call. *)

Here == named[i]
AtSlot == i =< Len(named)

Turns(p, w, k) == phase' = p /\ wait' = w /\ i' = k

\* The slots of a call are in range, each is named once, and not too many.
Named == {q \in UNION {[1 .. k -> Slot] : k \in 1 .. MaxNamed} : IsInjective(q)}

Begin ==
    /\ phase = "idle" /\ calls < MaxCalls
    /\ named' \in Named
    /\ calls' = calls + 1
    /\ Turns("probe", "open", 1)
    /\ names' = {} /\ seen' = [s \in Slot |-> "unknown"]
    /\ backup' = NoFile /\ resaved' = {}
    /\ wire' = [s \in Slot |-> "none"]
    /\ report' = NoReport
    /\ erased' = NoFile
    /\ UNCHANGED <<deviceVars, inbox>>

Ends(kind) ==
    /\ Turns("idle", "open", 1)
    /\ report' = [NoReport EXCEPT !.kind = kind]
    /\ UNCHANGED <<calls, named, gateVars, wire>>

\* The listing alone.
ConfirmedByListing(s) == s \notin names

\* The query after the DELETE, the later one and the listing agree that it is
\* gone (probeProjectSlots calls a slot unreadable whose two oracles disagree);
\* answering like the spare slot is answering "free".
Confirmed(s) ==
    /\ wire[s] = "gone"
    /\ seen[s] = "free" /\ s \notin names

\* Both oracles' view of the named slots; a slot erased and not confirmed, or
\* whose DELETE was not answered, is unknown.
Reported ==
    LET touched == {s \in Range(named) : wire[s] \in {"unknown", "gone"}}
        ok == {s \in Range(named) : Confirmed(s)}
    IN  [kind |-> "done", ok |-> ok, unknown |-> touched \ ok]

\* requireAllOccupied, on a probe that trusts a slot if both oracles agree.
Accepted == \A s \in Range(named) : seen[s] = "occupied" /\ s \in names

\* The end of a session; whether the caller confirmed is not known here.
Closes ==
    \/ /\ phase = "probe" /\ Accepted
       /\ Turns("backup", "ask", 1)
       /\ UNCHANGED <<outVars, gateVars, wire>>
    \/ phase = "probe" /\ Ends("refused")
    \/ /\ phase = "delete"
       /\ Turns("verify", "open", 1)
       /\ UNCHANGED <<outVars, gateVars, wire>>
    \/ /\ phase = "verify"
       /\ Turns("idle", "open", 1)
       /\ report' = Reported
       /\ UNCHANGED <<calls, named, gateVars, wire>>

\* Slots that may show what "free" looks like; only a probe asks one.
Spare == Slot \ (Range(named) \cup names)
HasSpare == phase # "delete" /\ Spare # {}

\* A send throws: a failed look afterwards is caught, anything else ends the
\* call, and what it had done is not reported.
Throws ==
    /\ phase \in {"probe", "delete", "verify"}
    /\ wait \in {"open", "send", "again"} \/ (wait = "ask" /\ (AtSlot \/ HasSpare))
    /\ IF phase = "verify"
       THEN /\ Turns("idle", "open", 1)
            /\ report' = [Reported EXCEPT !.ok = {}, !.unknown = Reported.unknown \cup Reported.ok]
            /\ UNCHANGED <<calls, named, gateVars, wire>>
       ELSE Ends("threw")
    /\ UNCHANGED <<deviceVars, names, seen, inbox, erased>>

\* openScopedSession: a listing as far as it comes, by when all earlier answers
\* have come too; or none at all.
Opens ==
    /\ wait = "open" /\ phase \in {"probe", "delete", "verify"}
    /\ \/ names' \in SUBSET listed /\ inbox' = <<>>
       \/ names' = {} /\ Quiet
    /\ Turns(phase, "ask", 1)
    /\ seen' = [s \in Slot |-> "unknown"]
    /\ UNCHANGED <<deviceVars, outVars, gateVars, wire, erased>>

\* The next query of a session: a named slot, then, when probing, a spare one.
Asks ==
    /\ wait = "ask" /\ phase \in {"probe", "delete", "verify"}
    /\ \/ /\ AtSlot /\ Queries(Here)
          /\ Turns(phase, "query", i)
          /\ UNCHANGED <<outVars, gateVars, wire>>
       \/ /\ ~AtSlot /\ HasSpare
          /\ \E s \in Spare : Queries(s)
          /\ Turns(phase, "query", i)
          /\ UNCHANGED <<outVars, gateVars, wire>>
       \/ ~AtSlot /\ ~HasSpare /\ Quiet /\ Closes
    /\ UNCHANGED <<deviceVars, names, seen, erased>>

\* The slot that is looked at is done with.
Passes(w) ==
    /\ wire' = [wire EXCEPT ![Here] = w]
    /\ Turns(phase, "ask", i + 1)
    /\ UNCHANGED <<outVars, gateVars>>

\* A query is answered, or its wait ran out ("unknown").
Learns(v) ==
    \/ /\ phase \in {"probe", "verify"} /\ AtSlot
       /\ seen' = [seen EXCEPT ![Here] = v]
       /\ Turns(phase, "ask", i + 1)
       /\ UNCHANGED <<outVars, gateVars, wire>>
    \/ /\ phase \in {"probe", "verify"} /\ ~AtSlot
       /\ Closes
       /\ UNCHANGED seen
    \/ /\ phase = "delete" /\ v # "occupied"
       /\ Passes("alone")
       /\ UNCHANGED seen
    \/ /\ phase = "delete" /\ v = "occupied"
       /\ Turns(phase, "send", i)
       /\ UNCHANGED <<outVars, seen, gateVars, wire>>

\* DELETE_FILE, which the device may ignore.
Deletes ==
    /\ wait = "send" /\ phase = "delete"
    /\ Turns(phase, "ack", i)
    /\ \/ UNCHANGED <<card, erased>> /\ Quiet
       \/ /\ card' = [card EXCEPT ![Here] = None]
          /\ erased' = IF card[Here] = None THEN erased ELSE [erased EXCEPT ![Here] = card[Here]]
          /\ Quiet \/ Says("deleted", Here)
    /\ UNCHANGED <<listed, saves, outVars, names, seen, gateVars, wire>>

\* The loop moves on as soon as the DELETE is acknowledged.
AsksAgainTooLate ==
    /\ wait = "again" /\ phase = "delete"
    /\ Queries(Here)
    /\ Turns(phase, "after", i + 1)
    /\ UNCHANGED <<deviceVars, outVars, names, seen, gateVars, wire, erased>>

\* The same query again, after the ACK.
AsksAgain ==
    /\ wait = "again" /\ phase = "delete"
    /\ Queries(Here)
    /\ Turns(phase, "after", i)
    /\ UNCHANGED <<deviceVars, outVars, names, seen, gateVars, wire, erased>>

\* The query after the DELETE.
Checks(v) ==
    /\ Passes(IF v = "free" THEN "gone" ELSE "unknown")
    /\ UNCHANGED seen

\* An answer of the kind that is waited for; an ACK names the slot.
Fits(a) ==
    \/ wait \in {"query", "after"} /\ a.kind # "deleted"
    \/ wait = "ack" /\ a.kind = "deleted" /\ a.slot = Here

\* What is asked about: a named slot, or the spare one, whose answer is taken
\* as it comes.
Asked(a) == IF AtSlot THEN Here ELSE a.slot

\* An answer arrives: it resolves the wait it fits, and is dropped otherwise.
Deliver ==
    /\ inbox # <<>> /\ wait \notin {"ask", "send", "again"}
    /\ inbox' = Tail(inbox)
    /\ LET a == Head(inbox)
       IN  \/ wait = "query" /\ Fits(a) /\ Learns(Verdict(a, Asked(a)))
           \/ wait = "after" /\ Fits(a) /\ Checks(Verdict(a, Here))
           \/ /\ wait = "ack" /\ Fits(a)
              /\ Turns(phase, "again", i)
              /\ UNCHANGED <<outVars, seen, gateVars, wire>>
           \/ /\ ~Fits(a)
              /\ UNCHANGED <<outVars, phase, wait, i, seen, gateVars, wire>>
    /\ UNCHANGED <<deviceVars, names, erased>>

TimesOut ==
    /\ \/ wait = "query" /\ Learns("unknown")
       \/ wait = "after" /\ Checks("unknown")
       \/ wait = "ack" /\ Passes("unknown") /\ UNCHANGED seen
    /\ UNCHANGED <<deviceVars, names, inbox, erased>>

\* It goes on without the file it could not read.
BacksUpOrSkips ==
    /\ phase = "backup" /\ AtSlot
    /\ \E f \in {card[Here], None} : backup' = [backup EXCEPT ![Here] = f]
    /\ resaved' = resaved \ {Here}
    /\ Turns(phase, "ask", i + 1)
    /\ UNCHANGED <<deviceVars, outVars, names, seen, wire, inbox, erased>>

\* backupProjectSlot: a download of its own, of a file that reaches the disk.
ReachesDisk ==
    /\ card[Here] # None
    /\ backup' = [backup EXCEPT ![Here] = card[Here]]
    /\ resaved' = resaved \ {Here}

\* backupBeforeDelete: each slot in turn, or nothing is erased.
BacksUp ==
    /\ phase = "backup" /\ AtSlot
    /\ \/ Ends("refused")
       \/ /\ ReachesDisk
          /\ Turns(phase, "ask", i + 1)
          /\ UNCHANGED <<outVars, wire>>
    /\ UNCHANGED <<deviceVars, names, seen, inbox, erased>>

BackedUp ==
    /\ phase = "backup" /\ ~AtSlot
    /\ Turns("delete", "open", 1)
    /\ UNCHANGED <<deviceVars, outVars, names, seen, gateVars, wire, inbox, erased>>

-----------------------------------------------------------------------------
(* The device. *)

\* Somebody stores a project.
StoresByHand ==
    /\ saves < MaxSaves
    /\ saves' = saves + 1
    /\ \E s \in Slot :
          card' = [card EXCEPT ![s] = saves + 1] /\ resaved' = resaved \cup {s}
    /\ UNCHANGED <<listed, outVars, phase, wait, i, names, seen, backup, wire, inbox, erased>>

\* The manifest follows the card, seconds later.
Flushes ==
    /\ listed # {s \in Slot : card[s] # None}
    /\ listed' = {s \in Slot : card[s] # None}
    /\ UNCHANGED <<card, saves, outVars, phase, wait, i, names, seen, gateVars, wire,
                   inbox, erased>>

Next ==
    \/ Begin \/ Opens \/ Asks \/ Deletes \/ AsksAgain \/ BacksUp \/ BackedUp
    \/ Deliver \/ TimesOut \/ Throws
    \/ StoresByHand \/ Flushes

Spec == Init /\ [][Next]_vars

-----------------------------------------------------------------------------
(***************************************************************************)
(* ErasedIsBackedUp: nothing is erased before every project of the call is *)
(* on disk, and what is erased is the file that was backed up, unless      *)
(* somebody stored into its slot in between.                               *)
(***************************************************************************)
ErasedIsBackedUp ==
    \A s \in Slot : erased[s] # None =>
        /\ \A t \in Range(named) : backup[t] # None
        /\ erased[s] = backup[s] \/ s \in resaved

(***************************************************************************)
(* ReportIsTrue: a call that reports says "erased" only of slots whose     *)
(* file it did erase, with late answers, partial listings and somebody     *)
(* storing meanwhile; and any other slot it erased it calls unknown, never *)
(* left alone.                                                             *)
(***************************************************************************)
ReportIsTrue ==
    LET gone == {s \in Slot : erased[s] # None}
    IN  report.kind = "done" =>
            report.ok \subseteq gone /\ gone \subseteq report.ok \cup report.unknown
=============================================================================
