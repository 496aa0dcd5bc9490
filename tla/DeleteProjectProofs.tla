------------------------ MODULE DeleteProjectProofs ------------------------
(***************************************************************************)
(* What TLAPS proves of DeleteProject, for any slots, any limit on a call  *)
(* and any number of calls and of projects stored meanwhile.               *)
(*                                                                         *)
(* That the report is true is not inductive.  What has to be kept is that  *)
(* the slots whose DELETE is yet to come still hold a file, so that an ACK *)
(* of this call means that something was erased; and that no ACK of an     *)
(* earlier call outlives the listing this call began with.                 *)
(***************************************************************************)
EXTENDS DeleteProject, TLAPS

\* How a call goes on: it names each of its slots once, and only the erasing
\* pass sends a DELETE and waits for what it makes of it.
Erasing == wait \in {"send", "ack", "again", "after"}

Order ==
    /\ \A a, b \in 1 .. Len(named) : named[a] = named[b] => a = b
    /\ phase # "idle" => named # <<>>
    /\ phase = "idle" => wait = "open"
    /\ phase = "backup" => wait = "ask"
    /\ wait = "open" => i = 1
    /\ Erasing => phase = "delete"
    /\ report.kind = "done" => phase = "idle"

\* What the backups are worth.  A slot holds the file that was saved from it
\* until it is erased or stored to.
Saved ==
    /\ phase = "backup" => \A k \in 1 .. Len(named) :
          k < i => backup[named[k]] # None /\ card[named[k]] # None
    /\ phase \in {"delete", "verify"} => \A k \in 1 .. Len(named) : backup[named[k]] # None
    /\ \A s \in Slot : backup[s] # None => card[s] \in {None, backup[s]} \/ s \in resaved
    /\ phase \in {"probe", "backup"} => \A s \in Slot : erased[s] = None
    /\ ErasedIsBackedUp

\* The slots whose DELETE is yet to come.
Ahead(k) == k > i \/ (k = i /\ wait \in {"open", "ask", "query", "send"})

Untouched ==
    phase = "delete" => \A k \in 1 .. Len(named) :
        Ahead(k) => card[named[k]] # None /\ erased[named[k]] = None

\* Once the first listing has come, an ACK is of this call's own DELETE, and
\* that DELETE erased something.
NoAcks == \A m \in 1 .. Len(inbox) : inbox[m].kind # "deleted"

Acks ==
    /\ phase = "backup" \/ (phase = "probe" /\ wait # "open" /\ names # {}) => NoAcks
    /\ phase = "delete" => \A m \in 1 .. Len(inbox) :
          inbox[m].kind = "deleted" => erased[inbox[m].slot] # None
    /\ wait \in {"again", "after"} => erased[Here] # None

\* What the erasing pass writes down of a slot.
Marked(s) ==
    \/ wire[s] \in {"unknown", "gone"}
    \/ wait \in {"ack", "again", "after"} /\ s = Here

Marks ==
    /\ \A s \in Slot : wire[s] = "gone" => erased[s] # None
    /\ phase \in {"delete", "verify"} => \A s \in Slot :
          erased[s] # None => s \in Range(named) /\ Marked(s)
    /\ ReportIsTrue

IInv == TypeOK /\ Order /\ Saved /\ Untouched /\ Acks /\ Marks

-----------------------------------------------------------------------------
LEMMA NamedType ==
    ASSUME NEW q \in Named
    PROVE  /\ q \in Seq(Slot) /\ q # <<>>
           /\ \A a, b \in 1 .. Len(q) : q[a] = q[b] => a = b
<1>1. PICK k \in 1 .. MaxNamed : q \in [1 .. k -> Slot]
  BY SMT DEF Named
<1>2. IsInjective(q)
  BY SMT DEF Named
<1>3. q \in Seq(Slot) /\ Len(q) = k
  BY <1>1, MaxNamedAssumption, SMT
<1> QED
  BY <1>1, <1>2, <1>3, MaxNamedAssumption, SMT DEF IsInjective

LEMMA BeginKeeps == IInv /\ Begin => IInv'
<1> SUFFICES ASSUME IInv, Begin PROVE IInv'
  OBVIOUS
<1> USE DEF IInv, Begin, Turns
<1>0. /\ named' \in Seq(Slot) /\ named' # <<>>
      /\ \A a, b \in 1 .. Len(named') : named'[a] = named'[b] => a = b
  BY NamedType
<1>1. TypeOK'
  BY <1>0, BoundsAssumption, SMT DEF TypeOK, Phases, Waits, Verdicts, Reports, NoReport, NoFile, deviceVars, File
<1>2. Order'
  BY <1>0, SMT DEF Order, Erasing, NoReport
<1>3. Saved'
  BY <1>0, SMT DEF Saved, NoFile, ErasedIsBackedUp, TypeOK, deviceVars
<1>4. Untouched' /\ Acks'
  BY <1>0, SMT DEF Untouched, Acks, NoAcks
<1>5. Marks'
  BY <1>0, SMT DEF Marks, ReportIsTrue, NoReport
<1> QED
  BY <1>1, <1>2, <1>3, <1>4, <1>5

-----------------------------------------------------------------------------
(* The wire. *)

\* No ACK is on its way that was not before.
NoNewAcks ==
    \A m \in 1 .. Len(inbox') : inbox'[m].kind = "deleted" =>
        \E k \in 1 .. Len(inbox) : inbox[k] = inbox'[m]

LEMMA SaysType ==
    ASSUME inbox \in Seq(Answers), NEW s \in Slot, NEW k \in {"occupied", "free", "deleted"},
           Says(k, s)
    PROVE  /\ inbox' \in Seq(Answers)
           /\ Len(inbox') = Len(inbox) + 1
           /\ \A m \in 1 .. Len(inbox) : inbox'[m] = inbox[m]
           /\ inbox'[Len(inbox')] = [kind |-> k, slot |-> s]
<1> DEFINE a == [kind |-> k, slot |-> s]
<1>1. a \in Answers
  BY DEF Answers
<1>2. inbox' = Append(inbox, a)
  BY DEF Says
<1> HIDE DEF a
<1>3. /\ inbox' \in Seq(Answers)
      /\ Len(inbox') = Len(inbox) + 1
      /\ \A m \in 1 .. Len(inbox) : inbox'[m] = inbox[m]
      /\ inbox'[Len(inbox')] = a
  BY <1>1, <1>2, SMT
<1> QED
  BY <1>3 DEF a

LEMMA QueriesType ==
    ASSUME inbox \in Seq(Answers), NEW s \in Slot, Queries(s)
    PROVE  inbox' \in Seq(Answers) /\ NoNewAcks
<1>1. CASE Quiet
  BY <1>1, SMT DEF Quiet, NoNewAcks
<1>2. ASSUME NEW k \in {"free", "occupied"}, Says(k, s)
      PROVE  inbox' \in Seq(Answers) /\ NoNewAcks
  <2>1. /\ inbox' \in Seq(Answers)
        /\ Len(inbox') = Len(inbox) + 1
        /\ \A m \in 1 .. Len(inbox) : inbox'[m] = inbox[m]
        /\ inbox'[Len(inbox')] = [kind |-> k, slot |-> s]
    BY <1>2, SaysType
  <2>2. inbox'[Len(inbox')].kind # "deleted"
    BY <1>2, <2>1
  <2> QED
    BY <2>1, <2>2, SMT DEF NoNewAcks
<1> QED
  BY <1>1, <1>2, SMT DEF Queries

LEMMA TailType ==
    ASSUME inbox \in Seq(Answers), inbox # <<>>, inbox' = Tail(inbox)
    PROVE  inbox' \in Seq(Answers) /\ NoNewAcks
<1>1. /\ inbox' \in Seq(Answers)
      /\ Len(inbox') = Len(inbox) - 1
      /\ \A m \in 1 .. Len(inbox') : inbox'[m] = inbox[m + 1]
  BY SMT
<1> QED
  BY <1>1, SMT DEF NoNewAcks

LEMMA EmptyType == ASSUME inbox' = <<>> PROVE inbox' \in Seq(Answers) /\ NoAcks' /\ NoNewAcks
  BY SMT DEF NoAcks, NoNewAcks

\* Acks, for a step that stays in its pass and neither erases nor waits anew.
LEMMA AcksStay ==
    ASSUME Acks, NoNewAcks, phase' = phase, names' = names, erased' = erased,
           wait # "open", wait' \in {"again", "after"} => erased'[Here'] # None
    PROVE  Acks'
  BY SMT DEF Acks, NoAcks, NoNewAcks

-----------------------------------------------------------------------------
(* The steps. *)

LEMMA OpensKeeps == IInv /\ Opens => IInv'
<1> SUFFICES ASSUME IInv, Opens PROVE IInv'
  OBVIOUS
<1> USE DEF IInv, Opens, Turns, outVars, gateVars, deviceVars
<1>0. inbox' \in Seq(Answers) /\ NoNewAcks /\ (names' # {} => NoAcks')
  BY EmptyType, SMT DEF Quiet, NoNewAcks, TypeOK
<1>1. TypeOK'
  BY <1>0, SMT DEF TypeOK, Phases, Waits, Verdicts
<1>2. Order'
  BY SMT DEF TypeOK, Order, Erasing
<1>3. Saved'
  BY SMT DEF TypeOK, Order, Saved, ErasedIsBackedUp, Here
<1>4. Untouched'
  BY SMT DEF TypeOK, Order, Saved, Untouched, Ahead
<1>5. Acks'
  BY <1>0, SMT DEF Order, Acks, NoAcks, NoNewAcks
<1>6. Marks'
  BY SMT DEF TypeOK, Order, Marks, Marked, Here, ReportIsTrue
<1> QED
  BY <1>1, <1>2, <1>3, <1>4, <1>5, <1>6

LEMMA DeletesKeeps == IInv /\ Deletes => IInv'
<1> SUFFICES ASSUME IInv, Deletes PROVE IInv'
  OBVIOUS
<1> USE DEF IInv, Deletes, Turns, outVars, gateVars, deviceVars
<1>a. Here \in Slot /\ card[Here] # None /\ erased[Here] = None /\ i \in 1 .. Len(named)
  BY SMT DEF TypeOK, Untouched, Ahead, Here
<1>b. \/ erased' = erased /\ card' = card
      \/ /\ erased' = [erased EXCEPT ![Here] = card[Here]]
         /\ card' = [card EXCEPT ![Here] = None]
  BY <1>a, SMT
<1>f. /\ card' \in [Slot -> File \cup {None}] /\ erased' \in [Slot -> File \cup {None}]
      /\ \A t \in Slot : erased'[t] = erased[t] \/ (t = Here /\ erased'[t] = card[Here])
      /\ \A t \in Slot : card'[t] = card[t] \/ card'[t] = None
  BY <1>a, <1>b, SMT DEF TypeOK
<1>c. inbox' \in Seq(Answers)
  BY <1>a, SaysType DEF Quiet, TypeOK
<1>d. \A m \in 1 .. Len(inbox') : inbox'[m].kind = "deleted" =>
          erased'[inbox'[m].slot] # None
  <2>1. \A m \in 1 .. Len(inbox) : inbox[m].kind = "deleted" => erased[inbox[m].slot] # None
    BY DEF Acks
  <2>2. \A t \in Slot : erased[t] # None => erased'[t] # None
    BY <1>a, <1>b, SMT DEF TypeOK
  <2>3. \A m \in 1 .. Len(inbox) : inbox[m].slot \in Slot
    <3>1. \A m \in 1 .. Len(inbox) : inbox[m] \in Answers
      BY SMT DEF TypeOK
    <3> QED
      BY <3>1 DEF Answers
  <2>4. CASE Quiet
    BY <2>1, <2>2, <2>3, <2>4, SMT DEF Quiet
  <2>5. CASE Says("deleted", Here) /\ erased' = [erased EXCEPT ![Here] = card[Here]]
    <3>1. /\ Len(inbox') = Len(inbox) + 1
          /\ \A m \in 1 .. Len(inbox) : inbox'[m] = inbox[m]
          /\ inbox'[Len(inbox')] = [kind |-> "deleted", slot |-> Here]
      BY <1>a, <2>5, SaysType DEF TypeOK
    <3>2. inbox'[Len(inbox')].slot = Here /\ erased'[Here] # None
      BY <1>a, <2>5, <3>1 DEF TypeOK
    <3>3. inbox \in Seq(Answers)
      BY DEF TypeOK
    <3> QED
      BY <2>1, <2>2, <2>3, <3>1, <3>2, <3>3, SMT
  <2> QED
    BY <1>a, <2>4, <2>5
<1> HIDE DEF Deletes
<1>e. /\ wait = "send" /\ phase = "delete" /\ phase' = "delete" /\ wait' = "ack" /\ i' = i
      /\ UNCHANGED <<listed, saves, calls, named, report, names, seen, backup, resaved, wire>>
  BY DEF Deletes
<1>1. TypeOK'
  BY <1>a, <1>f, <1>c, <1>e, SMT DEF TypeOK, Phases, Waits, Verdicts
<1>2. Order'
  BY <1>e, SMT DEF TypeOK, Order, Erasing
<1>3. Saved'
  <2>1. card[Here] = backup[Here] \/ Here \in resaved
    BY <1>a, <1>e, SMT DEF Saved, Order, TypeOK, Here
  <2> QED
    BY <1>a, <1>e, <1>f, <2>1, SMT DEF TypeOK, Order, Saved, ErasedIsBackedUp, Range
<1>4. Untouched'
  BY <1>a, <1>b, <1>e, SMT DEF TypeOK, Order, Untouched, Ahead, Here
<1>5. Acks'
  BY <1>d, <1>e, SMT DEF Acks
<1>6. Marks'
  BY <1>a, <1>b, <1>e, SMT DEF TypeOK, Order, Marks, Marked, Here, Range, ReportIsTrue
<1> QED
  BY <1>1, <1>2, <1>3, <1>4, <1>5, <1>6

LEMMA AsksAgainKeeps == IInv /\ AsksAgain => IInv'
<1> SUFFICES ASSUME IInv, AsksAgain PROVE IInv'
  OBVIOUS
<1> USE DEF IInv, AsksAgain, Turns, outVars, gateVars, deviceVars
<1>0. inbox' \in Seq(Answers) /\ NoNewAcks
  BY QueriesType, SMT DEF TypeOK, Here
<1> HIDE DEF AsksAgain
<1>e. /\ wait = "again" /\ phase = "delete" /\ phase' = "delete" /\ wait' = "after" /\ i' = i
      /\ UNCHANGED <<card, listed, saves, calls, named, report, names, seen, backup, resaved, wire, erased>>
  BY DEF AsksAgain
<1>1. TypeOK'
  BY <1>0, <1>e, SMT DEF TypeOK, Phases, Waits, Verdicts
<1>2. Order'
  BY <1>e, SMT DEF Order, Erasing
<1>3. Saved'
  BY <1>e, SMT DEF Saved, ErasedIsBackedUp
<1>4. Untouched'
  BY <1>e, SMT DEF Untouched, Ahead
<1>5. Acks'
  BY <1>0, <1>e, AcksStay, SMT DEF Acks, Here
<1>6. Marks'
  BY <1>e, SMT DEF Marks, Marked, Here, ReportIsTrue
<1> QED
  BY <1>1, <1>2, <1>3, <1>4, <1>5, <1>6

LEMMA BacksUpKeeps == IInv /\ BacksUp => IInv'
<1> SUFFICES ASSUME IInv, BacksUp PROVE IInv'
  OBVIOUS
<1> USE DEF IInv, BacksUp, ReachesDisk, Turns, outVars, gateVars, deviceVars
<1>1. TypeOK'
  <2>1. CASE Ends("refused")
    BY <2>1, SMT DEF TypeOK, Phases, Waits, Ends, Reports, NoReport
  <2>2. CASE ~Ends("refused")
    BY <2>2, SMT DEF TypeOK, Phases, Waits, AtSlot, Here
  <2> QED
    BY <2>1, <2>2
<1>2. Order'
  BY SMT DEF TypeOK, Order, Erasing, Ends, NoReport, AtSlot
<1>3. Saved'
  BY SMT DEF TypeOK, Order, Saved, ErasedIsBackedUp, Here, AtSlot, Ends, NoReport
<1>4. Untouched'
  BY SMT DEF TypeOK, Order, Saved, Untouched, Ahead, Ends
<1>5. Acks'
  BY SMT DEF TypeOK, Order, Acks, NoAcks, Here, Ends
<1>6. Marks'
  BY SMT DEF TypeOK, Order, Marks, Marked, Here, ReportIsTrue, Ends, NoReport
<1> QED
  BY <1>1, <1>2, <1>3, <1>4, <1>5, <1>6

LEMMA BackedUpKeeps == IInv /\ BackedUp => IInv'
<1> SUFFICES ASSUME IInv, BackedUp PROVE IInv'
  OBVIOUS
<1> USE DEF IInv, BackedUp, Turns, outVars, gateVars, deviceVars
<1>1. TypeOK'
  BY SMT DEF TypeOK, Phases, Waits, AtSlot
<1>2. Order'
  BY SMT DEF TypeOK, Order, Erasing
<1>3. Saved'
  BY SMT DEF TypeOK, Order, Saved, ErasedIsBackedUp, Here, AtSlot
<1>4. Untouched'
  BY SMT DEF TypeOK, Order, Saved, Untouched, Ahead, AtSlot
<1>5. Acks'
  BY SMT DEF TypeOK, Order, Acks, NoAcks, Here, Saved
<1>6. Marks'
  BY SMT DEF TypeOK, Order, Marks, Marked, Here, ReportIsTrue, Saved
<1> QED
  BY <1>1, <1>2, <1>3, <1>4, <1>5, <1>6

LEMMA StoresByHandKeeps == IInv /\ StoresByHand => IInv'
<1> SUFFICES ASSUME IInv, StoresByHand PROVE IInv'
  OBVIOUS
<1> USE DEF IInv, StoresByHand, Turns, outVars, gateVars, deviceVars
<1>0. PICK s \in Slot :
          card' = [card EXCEPT ![s] = saves + 1] /\ resaved' = resaved \cup {s}
  OBVIOUS
<1>a. saves + 1 \in File /\ saves' \in 0 .. MaxSaves /\ saves + 1 # None
  BY BoundsAssumption, NoneAssumption, SMT DEF TypeOK, File
<1>1. TypeOK'
  BY <1>0, <1>a, SMT DEF TypeOK, Phases, Waits, Verdicts
<1>2. Order'
  BY SMT DEF TypeOK, Order, Erasing
<1>3. Saved'
  BY <1>0, <1>a, SMT DEF TypeOK, Saved, ErasedIsBackedUp
<1>4. Untouched'
  BY <1>0, <1>a, SMT DEF TypeOK, Untouched, Ahead
<1>5. Acks'
  BY SMT DEF TypeOK, Order, Acks, NoAcks, Here
<1>6. Marks'
  BY SMT DEF TypeOK, Order, Marks, Marked, Here, ReportIsTrue
<1> QED
  BY <1>1, <1>2, <1>3, <1>4, <1>5, <1>6

LEMMA FlushesKeeps == IInv /\ Flushes => IInv'
<1> SUFFICES ASSUME IInv, Flushes PROVE IInv'
  OBVIOUS
<1> USE DEF IInv, Flushes, Turns, outVars, gateVars, deviceVars
<1>1. TypeOK'
  BY SMT DEF TypeOK, Phases, Waits, Verdicts
<1>2. Order'
  BY SMT DEF TypeOK, Order, Erasing
<1>3. Saved'
  BY SMT DEF TypeOK, Order, Saved, ErasedIsBackedUp, Here
<1>4. Untouched'
  BY SMT DEF TypeOK, Order, Saved, Untouched, Ahead
<1>5. Acks'
  BY SMT DEF TypeOK, Order, Acks, NoAcks, Here
<1>6. Marks'
  BY SMT DEF TypeOK, Order, Marks, Marked, Here, ReportIsTrue
<1> QED
  BY <1>1, <1>2, <1>3, <1>4, <1>5, <1>6

-----------------------------------------------------------------------------
(* What the passes do with an answer, or without it. *)

\* What such a step leaves alone, and what it may take from the wire.
Inward ==
    /\ UNCHANGED <<deviceVars, names, erased>>
    /\ seen' \in [Slot -> Verdicts]
    /\ inbox' \in Seq(Answers) /\ NoNewAcks

LEMMA ReportedIsTrue ==
    ASSUME TypeOK, Order, Marks, phase = "verify"
    PROVE  /\ Reported \in Reports
           /\ Reported.kind = "done"
           /\ \A s \in Reported.ok : erased[s] # None
           /\ \A s \in Slot : erased[s] # None => s \in Reported.ok \cup Reported.unknown
<1> DEFINE touched == {s \in Range(named) : wire[s] \in {"unknown", "gone"}}
           ok == {s \in Range(named) : Confirmed(s)}
<1>1. Range(named) \subseteq Slot
  BY SMT DEF TypeOK, Range
<1>2. Reported = [kind |-> "done", ok |-> ok, unknown |-> touched \ ok]
  BY DEF Reported
<1>3. \A s \in ok : erased[s] # None
  BY <1>1 DEF Confirmed, Marks
<1>4. \A s \in Slot : erased[s] # None => s \in touched
  BY DEF Marks, Marked, Order, Erasing
<1>5. ok \subseteq Slot /\ touched \subseteq Slot
  BY <1>1
<1> HIDE DEF ok, touched
<1> QED
  BY <1>2, <1>3, <1>4, <1>5, SMT DEF Reports

LEMMA EndsKeeps ==
    ASSUME IInv, Inward, NEW k \in {"refused", "threw"}, Ends(k)
    PROVE  IInv'
<1> USE DEF IInv, Inward, Ends, Turns, outVars, gateVars, deviceVars
<1>0. report' \in Reports /\ report'.kind = k
  BY SMT DEF Reports, NoReport
<1>1. TypeOK'
  BY <1>0, SMT DEF TypeOK, Phases, Waits
<1>2. Order' /\ Untouched'
  BY <1>0, SMT DEF Order, Erasing, Untouched
<1>3. Saved' /\ Acks'
  BY SMT DEF Saved, ErasedIsBackedUp, Acks
<1>4. Marks'
  BY <1>0, SMT DEF Marks, ReportIsTrue
<1> QED
  BY <1>1, <1>2, <1>3, <1>4

LEMMA ReportsKeeps ==
    ASSUME IInv, Inward, phase = "verify", Turns("idle", "open", 1),
           report' \in Reports, report'.kind = "done",
           \A s \in report'.ok : erased[s] # None,
           \A s \in Slot : erased[s] # None => s \in report'.ok \cup report'.unknown,
           UNCHANGED <<calls, named, gateVars, wire>>
    PROVE  IInv'
<1> USE DEF IInv, Inward, Turns, gateVars, deviceVars
<1>1. TypeOK'
  BY SMT DEF TypeOK, Phases, Waits
<1>2. Order' /\ Untouched'
  BY SMT DEF Order, Erasing, Untouched
<1>3. Saved' /\ Acks'
  BY SMT DEF Saved, ErasedIsBackedUp, Acks
<1>4. ReportIsTrue'
  BY SMT DEF ReportIsTrue, Reports
<1>5. Marks'
  BY <1>4, SMT DEF Marks
<1> QED
  BY <1>1, <1>2, <1>3, <1>5

LEMMA ClosesKeeps ==
    ASSUME IInv, Inward, wait \in {"ask", "query"}, Closes
    PROVE  IInv'
<1> USE DEF IInv, Inward, Turns, outVars, gateVars, deviceVars
<1>1. CASE /\ phase = "probe" /\ Accepted
           /\ Turns("backup", "ask", 1)
           /\ UNCHANGED <<outVars, gateVars, wire>>
  <2>1. TypeOK'
    BY <1>1, SMT DEF TypeOK, Phases, Waits
  <2>2. Order' /\ Saved'
    BY <1>1, SMT DEF Order, Erasing, Saved, ErasedIsBackedUp
  <2>3. names # {}
    BY <1>1, SMT DEF Accepted, Order, Range, TypeOK
  <2>4. Acks'
    BY <1>1, <2>3, SMT DEF Acks, NoAcks, NoNewAcks
  <2>5. Untouched' /\ Marks'
    BY <1>1, SMT DEF Untouched, Marks, ReportIsTrue
  <2> QED
    BY <2>1, <2>2, <2>4, <2>5
<1>2. CASE Ends("refused")
  BY <1>2, EndsKeeps
<1>3. CASE /\ phase = "delete"
           /\ Turns("verify", "open", 1)
           /\ UNCHANGED <<outVars, gateVars, wire>>
  <2>1. TypeOK'
    BY <1>3, SMT DEF TypeOK, Phases, Waits
  <2>2. Order' /\ Saved'
    BY <1>3, SMT DEF Order, Erasing, Saved, ErasedIsBackedUp
  <2>3. Acks' /\ Untouched'
    BY <1>3, SMT DEF Acks, Untouched
  <2>4. Marks'
    BY <1>3, SMT DEF Marks, Marked, ReportIsTrue
  <2> QED
    BY <2>1, <2>2, <2>3, <2>4
<1>4. CASE /\ phase = "verify"
           /\ Turns("idle", "open", 1)
           /\ report' = Reported
           /\ UNCHANGED <<calls, named, gateVars, wire>>
  BY <1>4, ReportedIsTrue, ReportsKeeps
<1> QED
  BY <1>1, <1>2, <1>3, <1>4 DEF Closes

LEMMA PassesKeeps ==
    ASSUME IInv, Inward, phase = "delete", wait \in {"query", "ack", "after"},
           NEW w \in {"alone", "unknown", "gone"}, Passes(w),
           w = "gone" => erased[Here] # None,
           w = "alone" => erased[Here] = None
    PROVE  IInv'
<1> USE DEF IInv, Inward, Passes, Turns, outVars, gateVars, deviceVars
<1>0. i \in 1 .. Len(named) /\ Here \in Slot
  BY SMT DEF TypeOK, Here
<1>1. TypeOK'
  BY <1>0, SMT DEF TypeOK, Phases, Waits
<1>2. Order' /\ Saved'
  BY SMT DEF Order, Erasing, Saved, ErasedIsBackedUp
<1>3. Acks'
  BY SMT DEF Acks, NoAcks, NoNewAcks, TypeOK
<1>4. Untouched'
  BY <1>0, SMT DEF Untouched, Ahead, TypeOK
<1>5. Marks'
  BY <1>0, SMT DEF Marks, Marked, ReportIsTrue, Order, TypeOK
<1> QED
  BY <1>1, <1>2, <1>3, <1>4, <1>5

LEMMA LearnsKeeps ==
    ASSUME IInv, UNCHANGED <<deviceVars, names, erased>>,
           inbox' \in Seq(Answers), NoNewAcks, wait = "query",
           NEW v \in Verdicts, Learns(v)
    PROVE  IInv'
<1> USE DEF IInv, Turns, outVars, gateVars, deviceVars
<1>1. CASE /\ phase \in {"probe", "verify"} /\ AtSlot
           /\ seen' = [seen EXCEPT ![Here] = v]
           /\ Turns(phase, "ask", i + 1)
           /\ UNCHANGED <<outVars, gateVars, wire>>
  <2>0. i \in 1 .. Len(named) /\ Here \in Slot
    BY <1>1, SMT DEF TypeOK, AtSlot, Here
  <2>a. seen' \in [Slot -> Verdicts]
    BY <1>1, <2>0 DEF TypeOK
  <2>1. TypeOK'
    BY <1>1, <2>0, <2>a, SMT DEF TypeOK, Phases, Waits
  <2>2. Order' /\ Saved'
    BY <1>1, SMT DEF Order, Erasing, Saved, ErasedIsBackedUp
  <2>3. Acks' /\ Untouched'
    BY <1>1, SMT DEF Acks, NoAcks, NoNewAcks, Untouched
  <2>4. Marks'
    BY <1>1, SMT DEF Marks, Marked, ReportIsTrue
  <2> QED
    BY <2>1, <2>2, <2>3, <2>4
<1>2. CASE Closes /\ UNCHANGED seen
  BY <1>2, ClosesKeeps DEF Inward, TypeOK
<1>3. CASE phase = "delete" /\ Passes("alone") /\ UNCHANGED seen
  <2>1. erased[Here] = None
    BY <1>3, SMT DEF Untouched, Ahead, Here, TypeOK
  <2> QED
    BY <1>3, <2>1, PassesKeeps DEF Inward, TypeOK
<1>4. CASE /\ phase = "delete" /\ v = "occupied"
           /\ Turns(phase, "send", i)
           /\ UNCHANGED <<outVars, seen, gateVars, wire>>
  <2>1. TypeOK'
    BY <1>4, SMT DEF TypeOK, Phases, Waits
  <2>2. Order' /\ Saved'
    BY <1>4, SMT DEF Order, Erasing, Saved, ErasedIsBackedUp
  <2>3. Acks'
    BY <1>4, SMT DEF Acks, NoNewAcks
  <2>5. Untouched'
    BY <1>4, SMT DEF Untouched, Ahead
  <2>4. Marks'
    BY <1>4, SMT DEF Marks, Marked, ReportIsTrue
  <2> QED
    BY <2>1, <2>2, <2>3, <2>4, <2>5
<1> QED
  BY <1>1, <1>2, <1>3, <1>4 DEF Learns

LEMMA ChecksKeeps ==
    ASSUME IInv, Inward, wait = "after", NEW v \in Verdicts, Checks(v)
    PROVE  IInv'
<1>1. phase = "delete" /\ erased[Here] # None
  BY SMT DEF IInv, Order, Erasing, Acks
<1> QED
  BY <1>1, PassesKeeps DEF Checks

LEMMA AsksKeeps == IInv /\ Asks => IInv'
<1> SUFFICES ASSUME IInv, Asks PROVE IInv'
  OBVIOUS
<1>1. /\ wait = "ask" /\ phase \in {"probe", "delete", "verify"}
      /\ UNCHANGED <<deviceVars, names, seen, erased>>
  BY DEF Asks
<1>2. CASE AtSlot \/ HasSpare
  <2>1. /\ AtSlot \/ phase # "delete"
        /\ \E s \in Slot : Queries(s)
        /\ Turns(phase, "query", i)
        /\ UNCHANGED <<outVars, gateVars, wire>>
    BY <1>2, SMT DEF Asks, IInv, TypeOK, AtSlot, Here, HasSpare, Spare
  <2>2. inbox' \in Seq(Answers) /\ NoNewAcks
    BY <2>1, QueriesType DEF IInv, TypeOK
  <2> USE DEF IInv, Turns, outVars, gateVars, deviceVars
  <2>3. TypeOK'
    BY <1>1, <2>1, <2>2, SMT DEF TypeOK, Phases, Waits, AtSlot
  <2>4. Order' /\ Saved'
    BY <1>1, <2>1, SMT DEF Order, Erasing, Saved, ErasedIsBackedUp
  <2>5. Acks'
    BY <1>1, <2>1, <2>2, AcksStay, SMT
  <2>6. Untouched'
    BY <1>1, <2>1, SMT DEF Untouched, Ahead
  <2>7. Marks'
    BY <1>1, <2>1, SMT DEF Marks, Marked, ReportIsTrue
  <2> QED
    BY <2>3, <2>4, <2>5, <2>6, <2>7
<1>3. CASE ~AtSlot /\ ~HasSpare
  <2>1. Quiet /\ Closes
    BY <1>3 DEF Asks
  <2>2. Inward
    BY <1>1, <2>1, SMT DEF Inward, Quiet, NoNewAcks, IInv, TypeOK
  <2> QED
    BY <1>1, <2>1, <2>2, ClosesKeeps
<1> QED
  BY <1>2, <1>3

LEMMA VerdictType ==
    ASSUME NEW a \in Answers, NEW s, a.kind # "deleted"
    PROVE  Verdict(a, s) \in Verdicts
  BY SMT DEF Answers, Verdict, Verdicts

LEMMA DeliverKeeps == IInv /\ Deliver => IInv'
<1> SUFFICES ASSUME IInv, Deliver PROVE IInv'
  OBVIOUS
<1> DEFINE a == Head(inbox)
<1>1. inbox' \in Seq(Answers) /\ NoNewAcks /\ a \in Answers
  BY TailType, SMT DEF Deliver, IInv, TypeOK
<1>2. wait \notin {"ask", "send", "again"} /\ UNCHANGED <<deviceVars, names, erased>>
  BY DEF Deliver
<1>3. CASE wait = "query" /\ Fits(a) /\ Learns(Verdict(a, Asked(a)))
  <2>1. Verdict(a, Asked(a)) \in Verdicts
    BY <1>1, <1>3, VerdictType DEF Fits
  <2> QED
    BY <1>1, <1>2, <1>3, <2>1, LearnsKeeps
<1>4. CASE wait = "after" /\ Fits(a) /\ Checks(Verdict(a, Here))
  <2>1. Verdict(a, Here) \in Verdicts
    BY <1>1, <1>4, VerdictType DEF Fits
  <2>2. Inward
    BY <1>1, <1>2, <1>4 DEF Inward, Checks, IInv, TypeOK
  <2> QED
    BY <1>4, <2>1, <2>2, ChecksKeeps
<1>5. CASE /\ wait = "ack" /\ Fits(a)
           /\ Turns(phase, "again", i)
           /\ UNCHANGED <<outVars, seen, gateVars, wire>>
  <2> USE DEF IInv, Turns, outVars, gateVars, deviceVars
  <2>1. phase = "delete" /\ i \in 1 .. Len(named)
    BY <1>5, SMT DEF Order, Erasing, TypeOK
  <2>2. erased[Here] # None
    <3>1. a.kind = "deleted" /\ a.slot = Here
      BY <1>5 DEF Fits
    <3>2. a = inbox[1] /\ 1 \in 1 .. Len(inbox)
      BY SMT DEF Deliver, TypeOK
    <3> QED
      BY <2>1, <3>1, <3>2 DEF Acks
  <2>3. TypeOK'
    BY <1>1, <1>2, <1>5, <2>1, SMT DEF TypeOK, Phases, Waits
  <2>4. Order' /\ Saved'
    BY <1>2, <1>5, <2>1, SMT DEF Order, Erasing, Saved, ErasedIsBackedUp
  <2>5. Acks'
    BY <1>1, <1>2, <1>5, <2>1, <2>2, SMT DEF Acks, NoNewAcks, Here
  <2>6. Untouched'
    BY <1>2, <1>5, SMT DEF Untouched, Ahead
  <2>7. Marks'
    BY <1>2, <1>5, SMT DEF Marks, Marked, Here, ReportIsTrue
  <2> QED
    BY <2>3, <2>4, <2>5, <2>6, <2>7
<1>6. CASE ~Fits(a) /\ UNCHANGED <<outVars, phase, wait, i, seen, gateVars, wire>>
  <2> USE DEF IInv, outVars, gateVars, deviceVars
  <2>1. TypeOK'
    BY <1>1, <1>2, <1>6, SMT DEF TypeOK
  <2>2. Order' /\ Saved' /\ Untouched'
    BY <1>2, <1>6, SMT DEF Order, Erasing, Saved, ErasedIsBackedUp, Untouched, Ahead
  <2>3. Acks'
    BY <1>1, <1>2, <1>6, SMT DEF Acks, NoAcks, NoNewAcks, Here
  <2>4. Marks'
    BY <1>2, <1>6, SMT DEF Marks, Marked, Here, ReportIsTrue
  <2> QED
    BY <2>1, <2>2, <2>3, <2>4
<1> QED
  BY <1>3, <1>4, <1>5, <1>6 DEF Deliver

LEMMA TimesOutKeeps == IInv /\ TimesOut => IInv'
<1> SUFFICES ASSUME IInv, TimesOut PROVE IInv'
  OBVIOUS
<1>1. UNCHANGED <<deviceVars, names, inbox, erased>>
  BY DEF TimesOut
<1>2. inbox' \in Seq(Answers) /\ NoNewAcks
  BY <1>1, SMT DEF IInv, TypeOK, NoNewAcks
<1>3. CASE wait = "query" /\ Learns("unknown")
  BY <1>1, <1>2, <1>3, LearnsKeeps DEF Verdicts
<1>4. CASE wait = "after" /\ Checks("unknown")
  <2>1. Inward
    BY <1>1, <1>2, <1>4 DEF Inward, Checks, IInv, TypeOK
  <2> QED
    BY <1>4, <2>1, ChecksKeeps DEF Verdicts
<1>5. CASE wait = "ack" /\ Passes("unknown") /\ UNCHANGED seen
  <2>1. Inward /\ phase = "delete"
    BY <1>1, <1>2, <1>5 DEF Inward, IInv, TypeOK, Order, Erasing
  <2> QED
    BY <1>5, <2>1, PassesKeeps
<1> QED
  BY <1>3, <1>4, <1>5 DEF TimesOut

\* A report whose slots all became unknown.
LEMMA DoubtfulType ==
    ASSUME NEW q \in Reports
    PROVE  LET r == [q EXCEPT !.ok = {}, !.unknown = q.unknown \cup q.ok]
           IN  /\ r \in Reports /\ r.kind = q.kind /\ r.ok = {}
               /\ r.unknown = q.unknown \cup q.ok
<1>1. q.ok \in SUBSET Slot /\ q.unknown \in SUBSET Slot
  BY DEF Reports
<1> DEFINE all == q.unknown \cup q.ok
<1>2. all \in SUBSET Slot
  BY <1>1
<1> HIDE DEF all
<1>3. LET r == [q EXCEPT !.ok = {}, !.unknown = all]
      IN  r \in Reports /\ r.kind = q.kind /\ r.ok = {} /\ r.unknown = all
  BY <1>2 DEF Reports
<1> QED
  BY <1>3 DEF all

LEMMA ThrowsKeeps == IInv /\ Throws => IInv'
<1> SUFFICES ASSUME IInv, Throws PROVE IInv'
  OBVIOUS
<1>1. Inward
  BY SMT DEF Throws, Inward, IInv, TypeOK, NoNewAcks
<1>2. CASE phase = "verify"
  <2> DEFINE r == [Reported EXCEPT !.ok = {}, !.unknown = Reported.unknown \cup Reported.ok]
  <2>1. /\ Turns("idle", "open", 1) /\ report' = r
        /\ UNCHANGED <<calls, named, gateVars, wire>>
    BY <1>2 DEF Throws
  <2>2. /\ Reported \in Reports /\ Reported.kind = "done"
        /\ \A s \in Slot : erased[s] # None => s \in Reported.ok \cup Reported.unknown
    BY <1>2, ReportedIsTrue DEF IInv
  <2>3. /\ r \in Reports /\ r.kind = "done" /\ r.ok = {}
        /\ r.unknown = Reported.unknown \cup Reported.ok
    BY <2>2, DoubtfulType
  <2> HIDE DEF r
  <2> QED
    BY <1>1, <1>2, <2>1, <2>2, <2>3, ReportsKeeps
<1>3. CASE phase # "verify"
  BY <1>1, <1>3, EndsKeeps DEF Throws
<1> QED
  BY <1>2, <1>3

-----------------------------------------------------------------------------
(***************************************************************************)
(* The invariant is inductive.                                             *)
(***************************************************************************)
THEOREM Inductive == Spec => []IInv
<1>1. Init => IInv
  <2> SUFFICES ASSUME Init PROVE IInv
    OBVIOUS
  <2>1. TypeOK
    BY BoundsAssumption, SMT DEF Init, TypeOK, File, Phases, Waits, Verdicts, Reports,
                                 NoReport, NoFile
  <2>2. Order /\ Saved /\ Untouched
    BY SMT DEF Init, Order, Erasing, NoReport, Saved, NoFile, ErasedIsBackedUp, Untouched
  <2>3. Acks /\ Marks
    BY SMT DEF Init, Acks, Marks, ReportIsTrue, NoReport
  <2> QED
    BY <2>1, <2>2, <2>3 DEF IInv
<1>2. IInv /\ [Next]_vars => IInv'
  <2> SUFFICES ASSUME IInv, [Next]_vars PROVE IInv'
    OBVIOUS
  <2>1. CASE UNCHANGED vars
    <3> USE <2>1 DEF IInv, vars, deviceVars, outVars, gateVars
    <3>1. TypeOK' /\ Order'
      BY SMT DEF TypeOK, Order, Erasing
    <3>2. Saved' /\ Untouched'
      BY SMT DEF Saved, ErasedIsBackedUp, Untouched, Ahead
    <3>3. Acks' /\ Marks'
      BY SMT DEF Acks, NoAcks, Marks, Marked, Here, ReportIsTrue
    <3> QED
      BY <3>1, <3>2, <3>3
  <2> QED
    BY <2>1, BeginKeeps, OpensKeeps, AsksKeeps, DeletesKeeps, AsksAgainKeeps,
       BacksUpKeeps, BackedUpKeeps, DeliverKeeps, TimesOutKeeps, ThrowsKeeps,
       StoresByHandKeeps, FlushesKeeps DEF Next
<1> QED
  BY <1>1, <1>2, PTL DEF Spec

(***************************************************************************)
(* Every variable stays in its range, and a pass that erases is always at  *)
(* a slot that was named.                                                  *)
(***************************************************************************)
THEOREM TypeCorrect == Spec => []TypeOK
<1>1. IInv => TypeOK
  BY DEF IInv
<1> QED
  BY <1>1, Inductive, PTL

(***************************************************************************)
(* Nothing is erased before everything is backed up, and only the file     *)
(* that was backed up, unless somebody stored into its slot in between.    *)
(***************************************************************************)
THEOREM AlwaysBackedUp == Spec => []ErasedIsBackedUp
<1>1. IInv => ErasedIsBackedUp
  BY DEF IInv, Saved
<1> QED
  BY <1>1, Inductive, PTL

(***************************************************************************)
(* A call that reports tells the truth about every slot, whatever is lost, *)
(* late, or stored meanwhile.                                              *)
(***************************************************************************)
THEOREM AlwaysTrue == Spec => []ReportIsTrue
<1>1. IInv => ReportIsTrue
  BY DEF IInv, Marks
<1> QED
  BY <1>1, Inductive, PTL
=============================================================================
