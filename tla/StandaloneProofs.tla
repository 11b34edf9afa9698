--------------------------- MODULE StandaloneProofs ---------------------------
(***************************************************************************)
(* The safety properties of the standalone product for any number of       *)
(* commands, journal rows and faults.                                      *)
(*                                                                         *)
(* Two arguments.  The journal's: a row moves the pointer once, because    *)
(* the compare-and-swap finds it PREPARING under its lock.  The registry's,*)
(* for an operator who does not overlap maintenance with promotion: a row  *)
(* is inserted for the version at which the candidate was found eligible,  *)
(* and no candidate is eligible while a cutover is half done.              *)
(***************************************************************************)
EXTENDS StandaloneLifecycle, WellFoundedInduction, NaturalsInduction, TLAPS

Working == {"cas", "observe", "runtime", "verify", "finalize"}
Half == Unfinished \cap Cut

-----------------------------------------------------------------------------
(***************************************************************************)
(* The steps, by what they do to slots, pointer and journal.               *)
(***************************************************************************)

\* A run works on a row of the journal.
JobsKnown == \A c \in Commands : cli[c].pc \in Working => cli[c].job \in 1..Len(journal)

\* What a run may know and do after a step of its own.
Takes(c, r) ==
    /\ cli' = [cli EXCEPT ![c] = r] /\ r \in CliRow
    /\ r.pc \in Working => r.job \in 1..Len(journal')
    /\ r.read \in {cli[c].read, pointer}
    /\ r.pc = "insert" => /\ r.read = cli[c].read
                          /\ CandidateReady(slots[Other(cli[c].read.gen)], cli[c].mode)

Row(c) == journal[cli[c].job]

Stays == UNCHANGED <<slots, pointer, journal>>
Inserts(c) ==
    /\ At(c, "insert")
    /\ journal' = Append(journal, [from |-> cli[c].read.gen, to |-> Other(cli[c].read.gen),
                                   phase |-> "PREPARING", expected |-> cli[c].read.version,
                                   resulting |-> 0])
    /\ UNCHANGED <<slots, pointer>>
Cuts(c) ==
    /\ At(c, "cas")
    /\ Row(c).phase = "PREPARING" /\ PointerMatches(Row(c))
    /\ pointer' = [gen |-> Row(c).to, prev |-> pointer.gen, version |-> pointer.version + 1]
    /\ journal' = [journal EXCEPT ![cli[c].job] =
                      [@ EXCEPT !.phase = "POINTER_UPDATED", !.resulting = pointer.version + 1]]
    /\ UNCHANGED slots
Verifies(c) ==
    /\ At(c, "verify")
    /\ Row(c).phase = "POINTER_UPDATED"
    /\ journal' = [journal EXCEPT ![cli[c].job] = [@ EXCEPT !.phase = "ROUTER_VERIFIED"]]
    /\ UNCHANGED <<slots, pointer>>
Finalizes(c) ==
    /\ At(c, "finalize")
    /\ CanFinalize(Row(c))
    /\ slots' = Rotated(Row(c))
    /\ journal' = [journal EXCEPT ![cli[c].job] = [@ EXCEPT !.phase = "GENERATION_FINALIZED"]]
    /\ UNCHANGED pointer

\* What the router has cached, the workers and the faults keep their types.
Sides == /\ workers' \in [Slots -> BOOLEAN] /\ resolved' \in {resolved, pointer.version}
         /\ faults' \in 0..MaxFaults

CliMoves(c) ==
    /\ \E r : Takes(c, r)
    /\ ~At(c, "idle") \/ MayStart
    /\ Stays \/ Inserts(c) \/ Cuts(c) \/ Verifies(c) \/ Finalizes(c)
    /\ Sides /\ UNCHANGED <<tool, plan>>

\* The slots change in nothing but their distance to the ingestion cursor.
OnlySync ==
    /\ \A s \in Slots : \E y \in {"BEHIND", "CURRENT"} :
          slots'[s] = slots[s] \/ slots'[s] = [slots[s] EXCEPT !.sync = y]
    /\ slots' = [s \in Slots |-> slots'[s]]
    /\ Sides /\ UNCHANGED <<pointer, journal, cli, tool, plan>>

\* The oldest unfinished row exists (oldest by created_at).
LEMMA OldestExists ==
    ASSUME NEW U \in SUBSET Nat, U # {}
    PROVE  (CHOOSE i \in U : \A k \in U : i <= k) \in U
<1>1. PICK i \in U : \A k \in U : ~(<<k, i>> \in OpToRel(<, Nat))
  BY WFMin, NatLessThanWellFounded, Zenon
<1>2. \A k \in U : ~(k < i)
  BY <1>1, Zenon DEF OpToRel
<1>3. \A k \in U : i <= k
  BY <1>2
<1> QED
  BY <1>3

LEMMA RowTypes ==
    ASSUME TypeOK, NEW j \in 1..Len(journal)
    PROVE  /\ j \in Nat /\ journal[j] \in JournalRow
           /\ journal[j].phase \in Phases /\ journal[j].from \in Slots /\ journal[j].to \in Slots
           /\ journal[j].expected \in Nat /\ journal[j].resulting \in Nat
<1>1. journal \in Seq(JournalRow)
  BY DEF TypeOK, SlotsTypeOK
<1>2. journal[j] \in JournalRow
  BY <1>1
<1> QED
  BY <1>1, <1>2 DEF JournalRow

LEMMA ResumePcs ==
    ASSUME NEW phase \in Phases
    PROVE  Resume(phase) \in PromotionPcs \ {"insert"}
BY DEF Resume, Phases, PromotionPcs

LEMMA WorkOnRow ==
    ASSUME TypeOK, NEW c \in Commands, NEW j \in 1..Len(journal'), j \in Nat,
           NEW phase \in Phases, WorkOn(c, j, phase)
    PROVE  \E r : Takes(c, r)
<1> DEFINE r == [cli[c] EXCEPT !.pc = Resume(phase), !.job = j, !.phase = phase]
<1>1. cli[c] \in CliRow
  BY DEF TypeOK, PromotionTypeOK
<1>2. Resume(phase) \in PromotionPcs \ {"insert"}
  BY ResumePcs
<1>3. r \in CliRow /\ r.read = cli[c].read /\ r.pc # "insert" /\ r.job = j
  BY <1>1, <1>2 DEF CliRow
<1>4. cli' = [cli EXCEPT ![c] = r]
  BY DEF WorkOn
<1> QED
  BY <1>3, <1>4 DEF Takes

LEMMA GotoRow ==
    ASSUME TypeOK, JobsKnown, NEW c \in Commands, NEW pc \in PromotionPcs \ {"insert"}, Goto(c, pc),
           pc \in Working => cli[c].pc \in Working, journal' = journal
    PROVE  \E r : Takes(c, r)
<1> DEFINE r == [cli[c] EXCEPT !.pc = pc]
<1>1. cli[c] \in CliRow
  BY DEF TypeOK, PromotionTypeOK
<1>2. r \in CliRow /\ r.read = cli[c].read /\ r.pc = pc /\ r.job = cli[c].job
  BY <1>1 DEF CliRow
<1>3. cli' = [cli EXCEPT ![c] = r]
  BY DEF Goto
<1> QED
  BY <1>2, <1>3 DEF Takes, JobsKnown

LEMMA EndRow ==
    ASSUME TypeOK, NEW c \in Commands, End(c)
    PROVE  \E r : Takes(c, r)
<1> DEFINE r == [pc |-> "idle", mode |-> "PROMOTE", read |-> cli[c].read,
                 job |-> 0, phase |-> "PREPARING"]
<1>1. cli[c].read \in Pointer
  BY DEF TypeOK, PromotionTypeOK, CliRow
<1>2. r \in CliRow
  BY <1>1 DEF CliRow, PromotionPcs, Phases
<1>3. cli' = [cli EXCEPT ![c] = r] /\ r.read = cli[c].read /\ r.pc = "idle"
  BY DEF End
<1> QED
  BY <1>2, <1>3 DEF Takes, Working

\* Every step of a run has one of the shapes, for type-correct states.
LEMMA CliStepShape ==
    ASSUME TypeOK, JobsKnown, NEW c \in Commands,
           CliStep(c) \/ Crash(c) \/ (MayStart /\ \E mode \in Modes : Invoke(c, mode)),
           UNCHANGED <<tool, plan>>
    PROVE  CliMoves(c)
<1> USE DEF At, slotVars
<1>0. /\ cli[c] \in CliRow /\ pointer \in Pointer /\ journal \in Seq(JournalRow)
      /\ resolved \in Nat /\ faults \in 0..MaxFaults /\ MaxFaults \in Nat
      /\ workers \in [Slots -> BOOLEAN]
  BY SlotsAssumption DEF TypeOK, PromotionTypeOK, SlotsTypeOK
<1>a. cli[c].pc \in Working =>
         cli[c].job \in 1..Len(journal) /\ cli[c].job \in Nat /\ Row(c).phase \in Phases
  BY RowTypes DEF JobsKnown, Row
<1>1. ASSUME NEW mode \in Modes, MayStart, Invoke(c, mode)
      PROVE  CliMoves(c)
  <2> DEFINE r == [cli[c] EXCEPT !.pc = "pointer", !.mode = mode]
  <2>1. r \in CliRow /\ r.read = cli[c].read /\ r.pc = "pointer"
    BY <1>0, PromotionAssumption DEF CliRow, PromotionPcs
  <2>2. cli' = [cli EXCEPT ![c] = r]
    BY <1>1 DEF Invoke
  <2>3. Takes(c, r)
    BY <2>1, <2>2 DEF Takes, Working
  <2> QED
    BY <1>0, <1>1, <2>3 DEF CliMoves, Sides, Stays, Invoke
<1>2. CASE ReadPointer(c)
  <2> DEFINE r == [cli[c] EXCEPT !.pc = "pending", !.read = pointer]
  <2>1. r \in CliRow /\ r.read = pointer /\ r.pc = "pending"
    BY <1>0 DEF CliRow, PromotionPcs
  <2>2. cli' = [cli EXCEPT ![c] = r]
    BY <1>2 DEF ReadPointer
  <2>3. Takes(c, r)
    BY <2>1, <2>2 DEF Takes, Working
  <2> QED
    BY <1>0, <1>2, <2>3 DEF CliMoves, Sides, Stays, ReadPointer
<1>3. CASE ReadPending(c)
  <2>1. \E r : Takes(c, r)
    <3>1. CASE Unfinished # {}
      <4> DEFINE j == CHOOSE i \in Unfinished : \A k \in Unfinished : i <= k
      <4>1. Unfinished \in SUBSET Nat /\ Unfinished \subseteq 1..Len(journal)
        BY <1>0 DEF Unfinished
      <4>2. j \in Unfinished
        BY <3>1, <4>1, OldestExists
      <4>3. j \in 1..Len(journal') /\ j \in Nat /\ journal[j].phase \in Phases
        BY <1>3, <4>1, <4>2, RowTypes DEF ReadPending
      <4>4. WorkOn(c, j, journal[j].phase)
        BY <1>3, <3>1 DEF ReadPending
      <4> HIDE DEF j
      <4> QED
        BY <4>3, <4>4, WorkOnRow
    <3>2. CASE Unfinished = {}
      <4>1. PICK pc \in {"completed", "precondition"} : Goto(c, pc)
        BY <1>3, <3>2 DEF ReadPending
      <4>2. journal' = journal
        BY <1>3 DEF ReadPending
      <4> QED
        BY <4>1, <4>2, GotoRow DEF PromotionPcs, Working
    <3> QED
      BY <3>1, <3>2
  <2> QED
    BY <1>0, <1>3, <2>1 DEF CliMoves, Sides, Stays, ReadPending
<1>4. CASE CheckCompleted(c)
  <2>1. \E r : Takes(c, r)
    BY <1>4, EndRow, GotoRow DEF CheckCompleted, PromotionPcs, Working
  <2> QED
    BY <1>0, <1>4, <2>1 DEF CliMoves, Sides, Stays, CheckCompleted
<1>5. CASE CheckPointer(c)
  <2>1. \E r : Takes(c, r)
    <3>1. CASE End(c)
      BY <3>1, EndRow
    <3>2. CASE ~End(c)
      <4> DEFINE r == [cli[c] EXCEPT !.pc = "candidate", !.read = pointer]
      <4>1. r \in CliRow /\ r.read = pointer /\ r.pc = "candidate"
        BY <1>0 DEF CliRow, PromotionPcs
      <4>2. cli' = [cli EXCEPT ![c] = r]
        BY <1>5, <3>2 DEF CheckPointer
      <4> QED
        BY <4>1, <4>2 DEF Takes, Working
    <3> QED
      BY <3>1, <3>2
  <2> QED
    BY <1>0, <1>5, <2>1 DEF CliMoves, Sides, Stays, CheckPointer
<1>6. CASE CheckCandidate(c)
  <2>1. \E r : Takes(c, r)
    <3>1. CASE CandidateReady(slots[Other(cli[c].read.gen)], cli[c].mode)
      <4> DEFINE r == [cli[c] EXCEPT !.pc = "insert"]
      <4>1. r \in CliRow /\ r.read = cli[c].read /\ r.pc = "insert"
        BY <1>0 DEF CliRow, PromotionPcs
      <4>2. cli' = [cli EXCEPT ![c] = r]
        BY <1>6, <3>1 DEF CheckCandidate, Goto
      <4> QED
        BY <3>1, <4>1, <4>2 DEF Takes, Working
    <3>2. CASE ~CandidateReady(slots[Other(cli[c].read.gen)], cli[c].mode)
      BY <1>6, <3>2, EndRow DEF CheckCandidate
    <3> QED
      BY <3>1, <3>2
  <2> QED
    BY <1>0, <1>6, <2>1 DEF CliMoves, Sides, Stays, CheckCandidate
<1>7. CASE InsertJournal(c)
  <2>1. Len(journal) + 1 \in 1..Len(journal') /\ Len(journal) + 1 \in Nat
    BY <1>0, <1>7 DEF InsertJournal
  <2>2. \E r : Takes(c, r)
    BY <1>7, <2>1, WorkOnRow DEF InsertJournal, Phases
  <2> QED
    BY <1>0, <1>7, <2>2 DEF CliMoves, Sides, Inserts, InsertJournal
<1>8. CASE Cas(c)
  <2>1. cli[c].job \in 1..Len(journal) /\ cli[c].job \in Nat /\ Row(c).phase \in Phases
    BY <1>8, <1>a DEF Cas, Working
  <2>2. CASE Row(c).phase # "PREPARING"
    <3>1. WorkOn(c, cli[c].job, Row(c).phase) /\ UNCHANGED slotVars
      BY <1>8, <2>2 DEF Cas, Row
    <3>2. \E r : Takes(c, r)
      BY <2>1, <3>1, WorkOnRow
    <3> QED
      BY <1>0, <1>8, <3>1, <3>2 DEF CliMoves, Sides, Stays, Cas
  <2>3. CASE Row(c).phase = "PREPARING" /\ PointerMatches(Row(c))
    <3>1. /\ Cuts(c) /\ WorkOn(c, cli[c].job, "POINTER_UPDATED")
          /\ UNCHANGED <<workers, resolved, faults>>
      BY <1>8, <2>3 DEF Cas, Row, Cuts
    <3>2. Len(journal') = Len(journal)
      BY <1>0, <3>1 DEF Cuts
    <3>3. \E r : Takes(c, r)
      BY <2>1, <3>1, <3>2, WorkOnRow DEF Phases
    <3> QED
      BY <1>0, <1>8, <3>1, <3>3 DEF CliMoves, Sides, Cas
  <2>4. CASE Row(c).phase = "PREPARING" /\ ~PointerMatches(Row(c))
    <3>1. End(c) /\ UNCHANGED slotVars
      BY <1>8, <2>4 DEF Cas, Row
    <3> QED
      BY <1>0, <1>8, <3>1, EndRow DEF CliMoves, Sides, Stays, Cas
  <2> QED
    BY <2>2, <2>3, <2>4
<1>9. CASE ObserveVersion(c)
  <2>1. \E r : Takes(c, r)
    BY <1>9, GotoRow DEF ObserveVersion, PromotionPcs, Working
  <2> QED
    BY <1>0, <1>9, <2>1 DEF CliMoves, Sides, Stays, ObserveVersion
<1>10. CASE ObserveRuntime(c)
  <2>1. \E r : Takes(c, r)
    BY <1>10, GotoRow DEF ObserveRuntime, PromotionPcs, Working
  <2> QED
    BY <1>0, <1>10, <2>1 DEF CliMoves, Sides, Stays, ObserveRuntime
<1>11. CASE MarkVerified(c)
  <2>1. cli[c].job \in 1..Len(journal) /\ cli[c].job \in Nat
    BY <1>11, <1>a DEF MarkVerified, Working
  <2>2. CASE Row(c).phase = "POINTER_UPDATED"
    <3>1. Verifies(c) /\ WorkOn(c, cli[c].job, "ROUTER_VERIFIED")
      BY <1>11, <2>2 DEF MarkVerified, Row, Verifies
    <3>2. Len(journal') = Len(journal)
      BY <1>0, <3>1 DEF Verifies
    <3>3. \E r : Takes(c, r)
      BY <2>1, <3>1, <3>2, WorkOnRow DEF Phases
    <3> QED
      BY <1>0, <1>11, <3>1, <3>3 DEF CliMoves, Sides, MarkVerified
  <2>3. CASE Row(c).phase # "POINTER_UPDATED"
    <3>1. End(c) /\ journal' = journal
      BY <1>11, <2>3 DEF MarkVerified, Row
    <3> QED
      BY <1>0, <1>11, <3>1, EndRow DEF CliMoves, Sides, Stays, MarkVerified
  <2> QED
    BY <2>2, <2>3
<1>12. CASE Finalize(c)
  <2>1. \E r : Takes(c, r)
    BY <1>12, EndRow DEF Finalize
  <2>2. Stays \/ Finalizes(c)
    BY <1>12 DEF Finalize, Finalizes, Stays, Row
  <2> QED
    BY <1>0, <1>12, <2>1, <2>2 DEF CliMoves, Sides, Finalize
<1>13. CASE Crash(c)
  <2>1. \E r : Takes(c, r)
    BY <1>13, EndRow DEF Crash
  <2> QED
    BY <1>0, <1>13, <2>1 DEF CliMoves, Sides, Stays, Crash, Fault
<1> QED
  BY <1>1, <1>2, <1>3, <1>4, <1>5, <1>6, <1>7, <1>8, <1>9, <1>10, <1>11, <1>12, <1>13 DEF CliStep

\* Steps that concern neither control plane nor commands.
Rests == Sides /\ UNCHANGED <<slots, pointer, journal, cli, tool, plan>>
ToolMoves == Maintain \/ ((ToolStep \/ ToolFails) /\ UNCHANGED <<cli, plan>>)

LEMMA StepShapes ==
    ASSUME TypeOK, JobsKnown, [Next]_vars
    PROVE  \/ Rests
           \/ OnlySync
           \/ \E c \in Commands : CliMoves(c)
           \/ ToolMoves
<1> USE DEF slotVars
<1>0. /\ slots \in [Slots -> SlotRow] /\ workers \in [Slots -> BOOLEAN] /\ faults \in 0..MaxFaults
  BY DEF TypeOK, SlotsTypeOK
<1>1. CASE UNCHANGED vars
  BY <1>0, <1>1 DEF vars, Rests, Sides
<1>2. CASE SlotsStep /\ UNCHANGED <<cli, tool, plan>>
  <2>1. CASE Ingest
    <3>1. slots' = [s \in Slots |->
                       [slots[s] EXCEPT !.sync = IF @ = "CURRENT" THEN "BEHIND" ELSE @]]
      BY <2>1 DEF Ingest
    <3>2. ASSUME NEW s \in Slots
          PROVE  \E y \in {"BEHIND", "CURRENT"} :
                    slots'[s] = slots[s] \/ slots'[s] = [slots[s] EXCEPT !.sync = y]
      <4>1. CASE slots[s].sync = "CURRENT"
        <5>1. slots'[s] = [slots[s] EXCEPT !.sync = "BEHIND"]
          BY <3>1, <4>1
        <5> QED
          BY <5>1
      <4>2. CASE slots[s].sync # "CURRENT"
        <5>1. slots'[s] = slots[s]
          BY <1>0, <3>1, <4>2 DEF SlotRow
        <5> QED
          BY <5>1
      <4> QED
        BY <4>1, <4>2
    <3>3. slots' = [s \in Slots |-> slots'[s]]
      BY <3>1
    <3> QED
      BY <1>0, <1>2, <2>1, <3>2, <3>3 DEF Ingest, OnlySync, Sides
  <2>2. ASSUME NEW t \in Slots, CatchUp(t)
        PROVE  OnlySync
    <3>1. slots' = [slots EXCEPT ![t] = [@ EXCEPT !.sync = "CURRENT"]]
      BY <2>2 DEF CatchUp
    <3>2. \A s \in Slots : slots'[s] = slots[s] \/ slots'[s] = [slots[s] EXCEPT !.sync = "CURRENT"]
      BY <1>0, <3>1
    <3>3. slots' = [s \in Slots |-> slots'[s]]
      BY <1>0, <3>1
    <3> QED
      BY <1>0, <1>2, <2>2, <3>2, <3>3 DEF CatchUp, OnlySync, Sides
  <2>3. CASE Query \/ StartProduct
    BY <1>0, <1>2, <2>3 DEF Query, StartProduct, Rests, Sides
  <2> QED
    BY <1>2, <2>1, <2>2, <2>3 DEF SlotsStep
<1>3. CASE Command
  <2>1. PICK c \in plan.commands, mode \in Modes : Invoke(c, mode)
    BY <1>3 DEF Command
  <2>2. c \in Commands /\ MayStart /\ UNCHANGED <<tool, plan>>
    BY <1>3, <2>1, LifecycleAssumption DEF Command, TypeOK
  <2> QED
    BY <2>1, <2>2, CliStepShape
<1>4. ASSUME NEW c \in Commands, CliStep(c) \/ Crash(c), UNCHANGED <<tool, plan>>
      PROVE  CliMoves(c)
  BY <1>4, CliStepShape
<1> QED
  BY <1>1, <1>2, <1>3, <1>4 DEF Next, ToolMoves

-----------------------------------------------------------------------------
(***************************************************************************)
(* Type correctness.                                                       *)
(***************************************************************************)

Types == TypeOK /\ JobsKnown

LEMMA RotatedTypes ==
    ASSUME slots \in [Slots -> SlotRow], NEW row
    PROVE  Rotated(row) \in [Slots -> SlotRow]
<1>1. ASSUME NEW s \in Slots
      PROVE  /\ [slots[s] EXCEPT !.state = "SERVING", !.protection = "SERVING"] \in SlotRow
             /\ [slots[s] EXCEPT !.state = "RETIRING", !.protection = "ROLLBACK"] \in SlotRow
  BY DEF SlotRow
<1> QED
  BY <1>1 DEF Rotated

\* What a run appends or writes is a row of the journal.
LEMMA JournalTypes ==
    ASSUME TypeOK, JobsKnown, NEW c \in Commands,
           Inserts(c) \/ Cuts(c) \/ Verifies(c) \/ Finalizes(c)
    PROVE  /\ journal' \in Seq(JournalRow) /\ Len(journal') >= Len(journal)
           /\ pointer' \in Pointer
<1>0. /\ journal \in Seq(JournalRow) /\ pointer \in Pointer /\ cli[c].read \in Pointer
      /\ Len(journal) \in Nat
  BY DEF TypeOK, SlotsTypeOK, PromotionTypeOK, CliRow
<1>1. CASE Inserts(c)
  <2> DEFINE row == [from |-> cli[c].read.gen, to |-> Other(cli[c].read.gen),
                     phase |-> "PREPARING", expected |-> cli[c].read.version, resulting |-> 0]
  <2>1. row \in JournalRow
    BY <1>0 DEF JournalRow, Pointer, Phases, Slots, Other
  <2>2. journal' = Append(journal, row) /\ pointer' = pointer
    BY <1>1 DEF Inserts
  <2> HIDE DEF row
  <2> QED
    BY <1>0, <2>1, <2>2
<1>2. CASE Cuts(c) \/ Verifies(c) \/ Finalizes(c)
  <2>1. cli[c].job \in 1..Len(journal)
    BY <1>2 DEF JobsKnown, Cuts, Verifies, Finalizes, At, Working
  <2>2. Row(c) \in JournalRow /\ pointer.version \in Nat
    BY <1>0, <2>1, RowTypes DEF Row, Pointer
  <2>3. \E r \in JournalRow : journal' = [journal EXCEPT ![cli[c].job] = r]
    <3>1. CASE Cuts(c)
      <4> DEFINE r == [Row(c) EXCEPT !.phase = "POINTER_UPDATED", !.resulting = pointer.version + 1]
      <4>1. pointer.version + 1 \in Nat /\ "POINTER_UPDATED" \in Phases
        BY <2>2 DEF Phases
      <4>2. r \in JournalRow
        BY <2>2, <4>1 DEF JournalRow
      <4>3. journal' = [journal EXCEPT ![cli[c].job] = r]
        BY <1>0, <3>1 DEF Cuts, Row
      <4> QED
        BY <4>2, <4>3
    <3>2. ASSUME NEW ph \in {"ROUTER_VERIFIED", "GENERATION_FINALIZED"},
                 journal' = [journal EXCEPT ![cli[c].job] = [@ EXCEPT !.phase = ph]]
          PROVE  \E r \in JournalRow : journal' = [journal EXCEPT ![cli[c].job] = r]
      <4> DEFINE r == [Row(c) EXCEPT !.phase = ph]
      <4>1. r \in JournalRow
        BY <2>2 DEF JournalRow, Phases
      <4>2. journal' = [journal EXCEPT ![cli[c].job] = r]
        BY <3>2 DEF Row
      <4> QED
        BY <4>1, <4>2
    <3> QED
      BY <1>2, <3>1, <3>2 DEF Verifies, Finalizes
  <2>4. journal' \in Seq(JournalRow) /\ Len(journal') = Len(journal)
    BY <1>0, <2>1, <2>3
  <2>5. pointer' \in Pointer
    <3>1. CASE Cuts(c)
      BY <1>0, <2>2, <3>1 DEF Cuts, Pointer, JournalRow
    <3>2. CASE Verifies(c) \/ Finalizes(c)
      BY <1>0, <3>2 DEF Verifies, Finalizes
    <3> QED
      BY <1>2, <3>1, <3>2
  <2> QED
    BY <1>0, <2>4, <2>5
<1> QED
  BY <1>1, <1>2

\* The maintenance tool leaves pointer, journal and commands alone.
LEMMA ToolFrame ==
    ASSUME ToolMoves
    PROVE  UNCHANGED <<pointer, journal, cli, resolved, plan>>
BY DEF slotVars, ToolMoves, Maintain, Rebuild, Validate, ToolStep, ToolFails, StopWorker,
       LoadInspect, LoadReset, WipeStore, FillStore, MarkCatchingUp, StartWorker, ToolRefused,
       ObserveCandidate, ValidateSelect, WriteVerdict

LEMMA ToolTypes ==
    ASSUME TypeOK, ToolMoves
    PROVE  /\ slots' \in [Slots -> SlotRow] /\ workers' \in [Slots -> BOOLEAN]
           /\ faults' \in 0..MaxFaults /\ tool' \in ToolRow
<1> USE DEF slotVars
<1>0. /\ slots \in [Slots -> SlotRow] /\ workers \in [Slots -> BOOLEAN]
      /\ faults \in 0..MaxFaults /\ tool \in ToolRow /\ MaxFaults \in Nat
      /\ pointer.version \in Nat /\ Candidate \in Slots /\ tool.slot \in Slots
  BY SlotsAssumption DEF TypeOK, SlotsTypeOK, RebuildTypeOK, Candidate, Other, Slots, Pointer, ToolRow
<1>1. NoTool \in ToolRow /\ [NoTool EXCEPT !.pc = "validate"] \in ToolRow
      /\ [NoTool EXCEPT !.pc = "stop", !.worker = Candidate] \in ToolRow
  BY <1>0 DEF NoTool, ToolRow, RebuildPcs, Slots
<1>2. \A pc \in RebuildPcs : [tool EXCEPT !.pc = pc] \in ToolRow
  BY <1>0 DEF ToolRow
<1>3. tool' \in ToolRow
  <2>1. CASE LoadInspect
    <3>1. [tool EXCEPT !.pc = "reset", !.slot = Candidate, !.version = pointer.version] \in ToolRow
      BY <1>0 DEF ToolRow, RebuildPcs
    <3> QED
      BY <2>1, <3>1 DEF LoadInspect
  <2>2. CASE ValidateSelect
    <3>1. [tool EXCEPT !.pc = "compare", !.slot = Candidate] \in ToolRow
      BY <1>0 DEF ToolRow, RebuildPcs
    <3> QED
      BY <2>2, <3>1 DEF ValidateSelect
  <2>3. \A pc \in RebuildPcs : ToolGoto(pc) => tool' \in ToolRow
    BY <1>2 DEF ToolGoto
  <2>4. CASE \/ StopWorker \/ LoadReset \/ WipeStore \/ FillStore \/ MarkCatchingUp \/ StartWorker
             \/ ObserveCandidate
    BY <2>3, <2>4 DEF StopWorker, LoadReset, WipeStore, FillStore, MarkCatchingUp, StartWorker,
                      ObserveCandidate, RebuildPcs
  <2>5. CASE \/ Rebuild \/ Validate \/ ToolRefused \/ ToolFails \/ \E equal \in BOOLEAN : WriteVerdict(equal)
    BY <1>1, <2>5 DEF Rebuild, Validate, ToolRefused, ToolFails, WriteVerdict
  <2> QED
    BY <2>1, <2>2, <2>4, <2>5 DEF ToolMoves, Maintain, ToolStep
<1>4. slots' \in [Slots -> SlotRow]
  <2>1. \A r \in SlotRow : slots' = [slots EXCEPT ![tool.slot] = r] => slots' \in [Slots -> SlotRow]
    BY <1>0
  <2>2. slots[tool.slot] \in SlotRow
    BY <1>0
  <2>3. CASE LoadReset
    BY <2>1, <2>2, <2>3 DEF LoadReset, SlotRow
  <2>4. CASE WipeStore \/ FillStore \/ MarkCatchingUp
    BY <2>1, <2>2, <2>4 DEF WipeStore, FillStore, MarkCatchingUp, SlotRow
  <2>5. CASE \E equal \in BOOLEAN : WriteVerdict(equal)
    BY <2>1, <2>2, <2>5 DEF WriteVerdict, SlotRow
  <2>6. CASE slots' = slots
    BY <1>0, <2>6
  <2> QED
    BY <2>3, <2>4, <2>5, <2>6 DEF ToolMoves, Maintain, Rebuild, Validate, ToolStep, ToolFails,
       StopWorker, LoadInspect, StartWorker, ToolRefused, ObserveCandidate, ValidateSelect
<1>5. workers' \in [Slots -> BOOLEAN]
  <2>1. CASE workers' = workers
    BY <1>0, <2>1
  <2>2. CASE \E t, b : b \in BOOLEAN /\ workers' = [workers EXCEPT ![t] = b]
    BY <1>0, <2>2
  <2>3. CASE workers' = [s \in Slots |-> workers[s] \/ s = tool.worker]
    BY <2>3
  <2> QED
    BY <2>1, <2>2, <2>3 DEF ToolMoves, Maintain, Rebuild, Validate, ToolStep, ToolFails, StopWorker, StartWorker,
       LoadInspect, LoadReset, WipeStore, FillStore, MarkCatchingUp, ToolRefused, ObserveCandidate,
       ValidateSelect, WriteVerdict
<1>6. faults' \in 0..MaxFaults
  BY <1>0 DEF ToolMoves, Maintain, Rebuild, Validate, ToolStep, ToolFails, StopWorker, StartWorker,
     LoadInspect, LoadReset, WipeStore, FillStore, MarkCatchingUp, ToolRefused, ObserveCandidate,
     ValidateSelect, WriteVerdict, Fault
<1> QED
  BY <1>3, <1>4, <1>5, <1>6

LEMMA TypesStart == Init => Types
<1> SUFFICES ASSUME Init PROVE Types
  OBVIOUS
<1>1. pointer \in Pointer /\ journal = << >> /\ resolved = 0 /\ faults = 0
      /\ workers \in [Slots -> BOOLEAN] /\ plan \in Plans
  BY DEF Init, SlotsInit, Pointer, Slots
<1>2. slots \in [Slots -> SlotRow]
  <2>1. Bootstrapped("SERVING", "SERVING") \in SlotRow /\ Bootstrapped("READY", "NONE") \in SlotRow
    BY DEF Bootstrapped, SlotRow
  <2> QED
    BY <2>1 DEF Init, SlotsInit
<1>3. journal \in Seq(JournalRow) /\ 0 \in 0..MaxFaults
  BY <1>1, SlotsAssumption
<1>4. Quiet \in CliRow
  BY <1>1 DEF Quiet, CliRow, PromotionPcs, Phases
<1>5. PromotionTypeOK
  BY <1>4 DEF Init, PromotionInit, PromotionTypeOK
<1>6. RebuildTypeOK
  BY DEF Init, RebuildInit, RebuildTypeOK, NoTool, ToolRow, RebuildPcs, Slots
<1>7. JobsKnown
  BY DEF Init, PromotionInit, JobsKnown, Quiet, Working
<1> QED
  BY <1>1, <1>2, <1>3, <1>5, <1>6, <1>7 DEF Types, TypeOK, SlotsTypeOK

LEMMA TypesKept == Types /\ [Next]_vars => Types'
<1> SUFFICES ASSUME Types, [Next]_vars PROVE Types'
  OBVIOUS
<1> USE DEF Types
<1>0. /\ slots \in [Slots -> SlotRow] /\ pointer \in Pointer /\ pointer.version \in Nat
      /\ journal \in Seq(JournalRow) /\ resolved \in Nat /\ cli \in [Commands -> CliRow]
      /\ tool \in ToolRow /\ plan \in Plans
  BY DEF TypeOK, SlotsTypeOK, Pointer, PromotionTypeOK, RebuildTypeOK
<1>1. CASE Rests
  BY <1>0, <1>1 DEF Rests, Sides, TypeOK, SlotsTypeOK, PromotionTypeOK, RebuildTypeOK, JobsKnown
<1>2. CASE OnlySync
  <2>1. slots' \in [Slots -> SlotRow]
    <3>1. ASSUME NEW s \in Slots PROVE slots'[s] \in SlotRow
      <4>1. slots[s] \in SlotRow
        BY <1>0
      <4>2. \A y \in {"BEHIND", "CURRENT"} : [slots[s] EXCEPT !.sync = y] \in SlotRow
        BY <4>1 DEF SlotRow
      <4> QED
        BY <1>2, <4>1, <4>2 DEF OnlySync
    <3> QED
      BY <1>2, <3>1 DEF OnlySync
  <2> QED
    BY <1>0, <1>2, <2>1 DEF OnlySync, Sides, TypeOK, SlotsTypeOK, PromotionTypeOK, RebuildTypeOK, JobsKnown
<1>3. ASSUME NEW c \in Commands, CliMoves(c)
      PROVE  Types'
  <2>1. /\ journal' \in Seq(JournalRow) /\ Len(journal') >= Len(journal) /\ pointer' \in Pointer
    <3>1. CASE Stays
      BY <1>0, <3>1 DEF Stays
    <3> QED
      BY <1>3, <3>1, JournalTypes DEF CliMoves
  <2>2. slots' \in [Slots -> SlotRow]
    BY <1>0, <1>3, RotatedTypes DEF CliMoves, Stays, Inserts, Cuts, Verifies, Finalizes
  <2>3. PICK r \in CliRow : cli' = [cli EXCEPT ![c] = r] /\ (r.pc \in Working => r.job \in 1..Len(journal'))
    BY <1>3 DEF CliMoves, Takes
  <2>4. cli' \in [Commands -> CliRow]
    BY <1>0, <2>3
  <2>5. JobsKnown'
    <3> SUFFICES ASSUME NEW d \in Commands, cli'[d].pc \in Working
                 PROVE  cli'[d].job \in 1..Len(journal')
      BY DEF JobsKnown
    <3>1. CASE d = c
      BY <1>0, <2>3, <3>1
    <3>2. CASE d # c
      <4>1. cli'[d] = cli[d]
        BY <1>0, <2>3, <3>2
      <4>2. cli[d].job \in 1..Len(journal)
        BY <4>1 DEF JobsKnown
      <4> QED
        BY <1>0, <2>1, <4>1, <4>2
    <3> QED
      BY <3>1, <3>2
  <2>6. SlotsTypeOK'
    BY <1>0, <1>3, <2>1, <2>2 DEF CliMoves, Sides, SlotsTypeOK
  <2> QED
    BY <1>0, <1>3, <2>4, <2>5, <2>6 DEF CliMoves, TypeOK, PromotionTypeOK, RebuildTypeOK
<1>4. CASE ToolMoves
  BY <1>0, <1>4, ToolFrame, ToolTypes DEF TypeOK, SlotsTypeOK, PromotionTypeOK, RebuildTypeOK, JobsKnown
<1> QED
  BY <1>1, <1>2, <1>3, <1>4, StepShapes

LEMMA TypesAlways == Spec => []Types
BY TypesStart, TypesKept, PTL DEF Spec

\* Every variable keeps its type: what a run reads as the oldest unfinished
\* row exists, and the row it works on stays in the journal.
THEOREM StandaloneTypes == Spec => []TypeOK
<1>1. Types => TypeOK
  BY DEF Types
<1> QED
  BY <1>1, TypesAlways, PTL

-----------------------------------------------------------------------------
(***************************************************************************)
(* The journal: a row moves the pointer once.                              *)
(***************************************************************************)

\* What each kind of step does to the sets of rows.
LEMMA Inserted ==
    ASSUME Types, NEW c \in Commands, Inserts(c)
    PROVE  /\ Len(journal') = Len(journal) + 1 /\ Len(journal) \in Nat
           /\ \A i \in 1..Len(journal) : journal'[i] = journal[i]
           /\ journal'[Len(journal')].phase = "PREPARING"
           /\ journal'[Len(journal')].expected = cli[c].read.version
           /\ journal'[Len(journal')].to = Other(journal'[Len(journal')].from)
           /\ Cut' = Cut /\ Half' = Half
<1> DEFINE row == [from |-> cli[c].read.gen, to |-> Other(cli[c].read.gen),
                   phase |-> "PREPARING", expected |-> cli[c].read.version, resulting |-> 0]
<1>0. journal \in Seq(JournalRow)
  BY DEF Types, TypeOK, SlotsTypeOK
<1>1. journal' = Append(journal, row)
  BY DEF Inserts
<1>2. /\ row.phase = "PREPARING" /\ row.expected = cli[c].read.version /\ row.to = Other(row.from)
  OBVIOUS
<1> HIDE DEF row
<1>3. /\ Len(journal') = Len(journal) + 1 /\ Len(journal) \in Nat
      /\ \A i \in 1..Len(journal) : journal'[i] = journal[i]
      /\ journal'[Len(journal')] = row
  BY <1>0, <1>1
<1>4. Cut' = Cut /\ Half' = Half
  BY <1>2, <1>3 DEF Cut, Half, Unfinished
<1> QED
  BY <1>2, <1>3, <1>4

\* Updates of the row j of the journal.
LEMMA Written ==
    ASSUME Types, NEW c \in Commands, Cuts(c) \/ Verifies(c) \/ Finalizes(c)
    PROVE  /\ cli[c].job \in 1..Len(journal) /\ Len(journal') = Len(journal)
           /\ \A i \in 1..Len(journal) : i # cli[c].job => journal'[i] = journal[i]
           /\ \A i \in 1..Len(journal) : /\ journal'[i].from = journal[i].from
                                         /\ journal'[i].to = journal[i].to
                                         /\ journal'[i].expected = journal[i].expected
           /\ Cuts(c) => /\ journal'[cli[c].job].resulting = pointer.version + 1
                         /\ cli[c].job \notin Cut /\ Cut' = Cut \cup {cli[c].job}
                         /\ Half' = Half \cup {cli[c].job}
           /\ ~Cuts(c) => /\ journal'[cli[c].job].resulting = journal[cli[c].job].resulting
                          /\ cli[c].job \in Cut /\ Cut' = Cut
                          /\ pointer' = pointer
           /\ Verifies(c) => Half' = Half
           /\ Finalizes(c) => cli[c].job \in Half /\ Half' = Half \ {cli[c].job}
<1> DEFINE j == cli[c].job
<1>0. journal \in Seq(JournalRow)
  BY DEF Types, TypeOK, SlotsTypeOK
<1>1. j \in 1..Len(journal)
  BY DEF Types, JobsKnown, Cuts, Verifies, Finalizes, At, Working
<1>2. journal[j] \in [from : Slots, to : Slots, phase : Phases, expected : Nat, resulting : Nat]
  <2>1. journal[j] \in JournalRow
    BY <1>1, RowTypes DEF Types
  <2> QED
    BY <2>1 DEF JournalRow
<1>3. Row(c) = journal[j]
  BY DEF Row
<1> HIDE DEF j
<1>4. CASE Cuts(c)
  <2> DEFINE new == [journal[j] EXCEPT !.phase = "POINTER_UPDATED", !.resulting = pointer.version + 1]
  <2>1. journal' = [journal EXCEPT ![j] = new] /\ journal[j].phase = "PREPARING"
    BY <1>3, <1>4 DEF Cuts, j
  <2>2. /\ new.from = journal[j].from /\ new.to = journal[j].to /\ new.expected = journal[j].expected
        /\ new.phase = "POINTER_UPDATED" /\ new.resulting = pointer.version + 1
    BY <1>2
  <2> HIDE DEF new
  <2>3. /\ Len(journal') = Len(journal) /\ journal'[j] = new
        /\ \A i \in 1..Len(journal) : i # j => journal'[i] = journal[i]
    BY <1>0, <1>1, <2>1
  <2>4. j \notin Cut /\ Cut' = Cut \cup {j} /\ Half' = Half \cup {j}
    BY <1>1, <2>1, <2>2, <2>3 DEF Cut, Half, Unfinished
  <2>5. ~Verifies(c) /\ ~Finalizes(c)
    BY <1>4 DEF Cuts, Verifies, Finalizes, At
  <2> QED
    BY <1>1, <1>4, <2>2, <2>3, <2>4, <2>5 DEF j
<1>5. ASSUME NEW old \in {"POINTER_UPDATED", "ROUTER_VERIFIED"},
             NEW ph \in {"ROUTER_VERIFIED", "GENERATION_FINALIZED"}, journal[j].phase = old,
             journal' = [journal EXCEPT ![j] = [@ EXCEPT !.phase = ph]]
      PROVE  /\ Len(journal') = Len(journal)
             /\ \A i \in 1..Len(journal) : i # j => journal'[i] = journal[i]
             /\ journal'[j].from = journal[j].from /\ journal'[j].to = journal[j].to
             /\ journal'[j].expected = journal[j].expected
             /\ journal'[j].resulting = journal[j].resulting
             /\ j \in Cut /\ Cut' = Cut /\ j \in Half
             /\ ph = "ROUTER_VERIFIED" => Half' = Half
             /\ ph = "GENERATION_FINALIZED" => Half' = Half \ {j}
  <2> DEFINE new == [journal[j] EXCEPT !.phase = ph]
  <2>1. journal' = [journal EXCEPT ![j] = new]
    BY <1>5
  <2>2. /\ new.from = journal[j].from /\ new.to = journal[j].to /\ new.expected = journal[j].expected
        /\ new.phase = ph /\ new.resulting = journal[j].resulting
    BY <1>2
  <2> HIDE DEF new
  <2>3. /\ Len(journal') = Len(journal) /\ journal'[j] = new
        /\ \A i \in 1..Len(journal) : i # j => journal'[i] = journal[i]
    BY <1>0, <1>1, <2>1
  <2>4. j \in Cut /\ Cut' = Cut /\ j \in Half
    BY <1>1, <1>5, <2>2, <2>3 DEF Cut, Half, Unfinished
  <2>5. /\ ph = "ROUTER_VERIFIED" => Half' = Half
        /\ ph = "GENERATION_FINALIZED" => Half' = Half \ {j}
    BY <1>1, <1>5, <2>2, <2>3 DEF Cut, Half, Unfinished
  <2> QED
    BY <2>2, <2>3, <2>4, <2>5
<1>6. CASE Verifies(c)
  <2>1. ~Cuts(c) /\ ~Finalizes(c) /\ pointer' = pointer
    BY <1>6 DEF Cuts, Verifies, Finalizes, At
  <2>2. /\ journal[j].phase = "POINTER_UPDATED"
        /\ journal' = [journal EXCEPT ![j] = [@ EXCEPT !.phase = "ROUTER_VERIFIED"]]
    BY <1>3, <1>6 DEF Verifies, j
  <2> QED
    BY <1>1, <1>5, <2>1, <2>2 DEF j
<1>7. CASE Finalizes(c)
  <2>1. ~Cuts(c) /\ ~Verifies(c) /\ pointer' = pointer
    BY <1>7 DEF Cuts, Verifies, Finalizes, At
  <2>2. /\ journal[j].phase = "ROUTER_VERIFIED"
        /\ journal' = [journal EXCEPT ![j] = [@ EXCEPT !.phase = "GENERATION_FINALIZED"]]
    BY <1>3, <1>7 DEF Finalizes, CanFinalize, j
  <2> QED
    BY <1>1, <1>5, <2>1, <2>2 DEF j
<1> QED
  BY <1>4, <1>6, <1>7

\* The versions begin with the one bootstrap wrote.
CutInv == CutoverOnce /\ pointer.version >= 1

LEMMA CutKept ==
    ASSUME Types, CutInv, [Next]_vars
    PROVE  CutInv'
<1> USE DEF CutInv, CutoverOnce
<1>0. pointer.version \in Nat /\ journal \in Seq(JournalRow)
  BY DEF Types, TypeOK, SlotsTypeOK, Pointer
<1>1. CASE UNCHANGED <<pointer, journal>>
  <2>1. Cut' = Cut
    BY <1>1 DEF Cut
  <2> QED
    BY <1>1, <2>1
<1>2. ASSUME NEW c \in Commands, Inserts(c)
      PROVE  CutInv'
  <2>1. /\ Cut' = Cut /\ pointer' = pointer
        /\ \A i \in Cut : journal'[i] = journal[i]
    BY <1>2, Inserted DEF Inserts, Cut
  <2> QED
    BY <2>1
<1>3. ASSUME NEW c \in Commands, Verifies(c) \/ Finalizes(c)
      PROVE  CutInv'
  <2>1. ~Cuts(c)
    BY <1>3 DEF Cuts, Verifies, Finalizes, At
  <2>2. /\ Cut' = Cut /\ pointer' = pointer
        /\ \A i \in Cut : /\ journal'[i].resulting = journal[i].resulting
                          /\ journal'[i].from = journal[i].from /\ journal'[i].to = journal[i].to
    BY <1>3, <2>1, Written DEF Cut
  <2> QED
    BY <2>2
<1>4. ASSUME NEW c \in Commands, Cuts(c)
      PROVE  CutInv'
  <2> DEFINE j == cli[c].job
             v == pointer.version + 1
  <2>1. /\ j \notin Cut /\ Cut' = Cut \cup {j} /\ journal'[j].resulting = v
        /\ \A i \in Cut : journal'[i] = journal[i]
        /\ journal'[j].from = journal[j].from /\ journal'[j].to = journal[j].to
    BY <1>4, Written DEF Cut
  <2>2. /\ pointer'.version = v /\ pointer'.gen = journal[j].to /\ pointer'.prev = journal[j].from
    BY <1>4 DEF Cuts, Row, PointerMatches
  <2> HIDE DEF j
  <2>3. \A i \in Cut' : journal'[i].resulting \in 2..pointer'.version
    BY <1>0, <2>1, <2>2
  <2>4. ASSUME NEW w \in 2..pointer'.version
        PROVE  \E i \in Cut' : /\ journal'[i].resulting = w
                               /\ \A k \in Cut' : journal'[k].resulting = w => k = i
                               /\ w = pointer'.version =>
                                     pointer'.gen = journal'[i].to /\ pointer'.prev = journal'[i].from
    <3>1. CASE w = v
      <4>1. \A k \in Cut' : journal'[k].resulting = w => k = j
        BY <1>0, <2>1, <3>1
      <4> QED
        BY <2>1, <2>2, <3>1, <4>1
    <3>2. CASE w # v
      <4>1. w \in 2..pointer.version /\ w # pointer'.version
        BY <1>0, <2>2, <3>2
      <4>2. PICK i \in Cut : /\ journal[i].resulting = w
                             /\ \A k \in Cut : journal[k].resulting = w => k = i
        BY <4>1
      <4> QED
        BY <2>1, <3>2, <4>1, <4>2
    <3> QED
      BY <3>1, <3>2
  <2>5. pointer'.version >= 1
    BY <1>0, <2>2
  <2> QED
    BY <2>3, <2>4, <2>5
<1> QED
  BY <1>1, <1>2, <1>3, <1>4, StepShapes, ToolFrame DEF Types, CliMoves, Stays, Rests, OnlySync

LEMMA CutStart == Init => CutInv
BY DEF Init, SlotsInit, CutInv, CutoverOnce, Cut

LEMMA CutAlways == Spec => [](Types /\ CutInv)
<1>1. (Types /\ CutInv) /\ [Next]_vars => (Types /\ CutInv)'
  BY TypesKept, CutKept
<1>2. Init => Types /\ CutInv
  BY TypesStart, CutStart
<1> QED
  BY <1>1, <1>2, PTL DEF Spec

\* However many runs resume one row or race two, each row moves the pointer
\* once: #cas finds it PREPARING under its lock and compares the version.
THEOREM StandaloneCutoverOnce == Spec => []CutoverOnce
<1>1. CutInv => CutoverOnce
  BY DEF CutInv
<1> QED
  BY <1>1, CutAlways, PTL

\* A rebuild never resets the slot the pointer names: the reset compares the
\* pointer again inside its transaction (load, FOR UPDATE).
THEOREM ResetsSpareTheServed == Spec => ResetSparesTheServed
<1> DEFINE Spared == \A s \in Slots :
                        slots'[s].sync = "BOOTSTRAPPING" /\ slots[s].sync # "BOOTSTRAPPING" => pointer.gen # s
<1>1. ASSUME Types, [Next]_vars
      PROVE  Spared
  <2>0. slots \in [Slots -> SlotRow] /\ \A s \in Slots : slots[s] \in SlotRow
    BY <1>1 DEF Types, TypeOK, SlotsTypeOK
  <2>a. tool.slot \in Slots
    BY <1>1 DEF Types, TypeOK, RebuildTypeOK, ToolRow
  <2>1. CASE slots' = slots
    BY <2>1
  <2>2. CASE OnlySync
    <3>1. ASSUME NEW s \in Slots PROVE slots'[s].sync \in {slots[s].sync, "BEHIND", "CURRENT"}
      BY <2>0, <2>2 DEF OnlySync, SlotRow
    <3> QED
      BY <3>1
  <2>3. ASSUME NEW c \in Commands, Finalizes(c)
        PROVE  Spared
    <3>1. ASSUME NEW s \in Slots PROVE slots'[s].sync = slots[s].sync
      BY <2>0, <2>3 DEF Finalizes, Rotated, SlotRow
    <3> QED
      BY <3>1
  <2>4. CASE LoadReset
    <3>1. pointer.gen # tool.slot
      BY <2>4, <2>a DEF LoadReset, Other, Slots
    <3>2. \A s \in Slots : s # tool.slot => slots'[s] = slots[s]
      BY <2>0, <2>4 DEF LoadReset
    <3> QED
      BY <3>1, <3>2
  <2>5. CASE WipeStore \/ FillStore \/ MarkCatchingUp \/ \E equal \in BOOLEAN : WriteVerdict(equal)
    <3>1. \A s \in Slots : s # tool.slot => slots'[s] = slots[s]
      BY <2>0, <2>5, <2>a DEF WipeStore, FillStore, MarkCatchingUp, WriteVerdict
    <3>2. slots[tool.slot] \in SlotRow
      BY <2>0, <2>a
    <3>3. CASE WipeStore \/ FillStore \/ MarkCatchingUp
      <4>1. slots'[tool.slot].sync \in {slots[tool.slot].sync, "BEHIND"}
        BY <2>0, <2>a, <3>2, <3>3 DEF WipeStore, FillStore, MarkCatchingUp, SlotRow
      <4> QED
        BY <3>1, <4>1
    <3>4. ASSUME NEW equal \in BOOLEAN, WriteVerdict(equal)
          PROVE  Spared
      <4>1. slots'[tool.slot].sync = slots[tool.slot].sync
        BY <2>0, <2>a, <3>2, <3>4 DEF WriteVerdict, SlotRow
      <4> QED
        BY <3>1, <4>1
    <3> QED
      BY <2>5, <3>3, <3>4
  <2>6. ToolMoves => \/ slots' = slots \/ LoadReset \/ WipeStore \/ FillStore \/ MarkCatchingUp
                     \/ \E equal \in BOOLEAN : WriteVerdict(equal)
    BY DEF ToolMoves, Maintain, Rebuild, Validate, ToolStep, ToolFails, StopWorker, LoadInspect,
           StartWorker, ToolRefused, ObserveCandidate, ValidateSelect, slotVars
  <2> HIDE DEF Spared
  <2> QED
    BY <1>1, <2>1, <2>2, <2>3, <2>4, <2>5, <2>6, StepShapes
       DEF Types, CliMoves, Stays, Inserts, Cuts, Verifies, Rests
<1>2. Types /\ [Next]_vars => [Spared]_vars
  BY <1>1
<1> QED
  BY <1>2, TypesAlways, PTL DEF Spec, ResetSparesTheServed

-----------------------------------------------------------------------------
(***************************************************************************)
(* The registry, for an operator who does not overlap maintenance with     *)
(* promotion: at most one cutover is half done, and it is the newest.      *)
(***************************************************************************)

Orderly == plan.tools = {} \/ ~plan.overlapping

\* Maintenance and commands exclude each other.
ToolAlone ==
    ~ToolAt("idle") => plan.tools # {} /\ ~plan.overlapping /\ \A c \in Commands : At(c, "idle")

\* Who read the current version read the current pointer.
ReadsKnown ==
    \A c \in Commands : /\ cli[c].read.version <= pointer.version
                        /\ cli[c].read.version = pointer.version => cli[c].read = pointer

RowsOpposite == \A j \in 1..Len(journal) : journal[j].to = Other(journal[j].from)

\* Registry and pointer agree when nothing is half done.
PointerServes ==
    Half = {} =>
        /\ slots[pointer.gen].state = "SERVING" /\ slots[pointer.gen].protection = "SERVING"
        /\ slots[Other(pointer.gen)].state # "SERVING"
        /\ pointer.prev # None /\ plan.tools = {} =>
               CandidateLifecycleEligible(slots[pointer.prev], "ROLLBACK")

\* A half-done cutover is the newest; the registry still says what was.
HalfIsNewest ==
    \A j \in Half : /\ journal[j].resulting = pointer.version
                    /\ slots[journal[j].from].state = "SERVING"
                    /\ slots[journal[j].to].state # "SERVING"

\* Nobody is about to move on from a pointer that is half done.
MovesInOrder ==
    /\ \A j \in 1..Len(journal) : journal[j].phase = "PREPARING" =>
          /\ journal[j].expected <= pointer.version
          /\ journal[j].expected = pointer.version => Half = {}
    /\ \A c \in Commands :
          At(c, "insert") /\ cli[c].read.version = pointer.version => Half = {}

\* Maintenance works on the slot the pointer does not name.
ToolTargets ==
    /\ tool.pc \in {"reset", "wipe", "fill", "state", "compare"} =>
          Half = {} /\ tool.slot = Other(pointer.gen)
    /\ tool.pc \in {"wipe", "fill", "state"} => slots[tool.slot].state = "LOADING"

\* A slot that serves or may serve is whole and was validated.
WholeWhereLive ==
    ~plan.overlapping =>
        \A s \in Slots : slots[s].state \in {"READY", "SERVING", "RETIRING"} =>
            slots[s].validation = "VALID" /\ slots[s].store = "WHOLE"

OrderInv ==
    Orderly => /\ ToolAlone /\ PointerServes /\ HalfIsNewest /\ MovesInOrder
               /\ ToolTargets /\ WholeWhereLive

RegistryInv == Types /\ CutInv /\ ReadsKnown /\ RowsOpposite /\ OrderInv

LEMMA Opposites ==
    /\ \A s \in Slots : Other(s) \in Slots /\ Other(s) # s /\ Other(Other(s)) = s
    /\ \A s, t \in Slots : s # t => t = Other(s)
BY DEF Slots, Other

\* There is one half-done cutover, and the pointer is its.
LEMMA HalfDone ==
    ASSUME RegistryInv, Orderly, NEW j \in Half
    PROVE  /\ Half = {j} /\ j \in 1..Len(journal)
           /\ journal[j].from \in Slots /\ journal[j].to \in Slots
           /\ pointer.gen = journal[j].to /\ pointer.prev = journal[j].from
           /\ journal[j].from = Other(pointer.gen)
           /\ slots[Other(pointer.gen)].state = "SERVING"
<1>1. \A i \in Half : i \in Cut /\ i \in 1..Len(journal) /\ journal[i].resulting = pointer.version
  BY DEF RegistryInv, OrderInv, HalfIsNewest, Half, Cut
<1>2. pointer.version \in 2..pointer.version
  BY <1>1 DEF RegistryInv, CutInv, CutoverOnce
<1>3. PICK i \in Cut : /\ \A k \in Cut : journal[k].resulting = pointer.version => k = i
                       /\ pointer.gen = journal[i].to /\ pointer.prev = journal[i].from
  BY <1>2 DEF RegistryInv, CutInv, CutoverOnce
<1>4. Half = {j} /\ i = j
  BY <1>1, <1>3
<1>5. journal[j].from \in Slots /\ journal[j].to \in Slots /\ journal[j].to = Other(journal[j].from)
  BY <1>1, RowTypes DEF RegistryInv, Types, RowsOpposite
<1>6. slots[journal[j].from].state = "SERVING"
  BY DEF RegistryInv, OrderInv, HalfIsNewest
<1> QED
  BY <1>1, <1>3, <1>4, <1>5, <1>6, Opposites

LEMMA AloneWithCommands ==
    ASSUME RegistryInv, Orderly, NEW c \in Commands, CliMoves(c)
    PROVE  tool'.pc = "idle" /\ tool.pc = "idle" /\ plan' = plan
BY DEF RegistryInv, OrderInv, ToolAlone, ToolAt, CliMoves, MayStart, Orderly

LEMMA ReadsKept ==
    ASSUME RegistryInv, NEW c \in Commands, CliMoves(c)
    PROVE  ReadsKnown' /\ \A d \in Commands : cli'[d].read.version <= pointer.version
<1> USE DEF RegistryInv
<1>0. pointer.version \in Nat /\ cli \in [Commands -> CliRow]
  BY DEF Types, TypeOK, SlotsTypeOK, Pointer, PromotionTypeOK
<1>1. PICK r : cli' = [cli EXCEPT ![c] = r] /\ r.read \in {cli[c].read, pointer}
  BY DEF CliMoves, Takes
<1>2. \A d \in Commands : cli'[d].read \in {cli[d].read, pointer}
  BY <1>0, <1>1
<1>3. \A d \in Commands : /\ cli'[d].read.version <= pointer.version
                          /\ cli'[d].read.version = pointer.version => cli'[d].read = pointer
  BY <1>0, <1>2 DEF ReadsKnown
<1>4. pointer' = pointer \/ pointer'.version = pointer.version + 1
  BY DEF CliMoves, Stays, Inserts, Cuts, Verifies, Finalizes
<1>5. \A d \in Commands : cli'[d].read.version \in Nat
  BY <1>0, <1>2 DEF CliRow, Pointer
<1> QED
  BY <1>0, <1>3, <1>4, <1>5 DEF ReadsKnown

LEMMA OppositesKept ==
    ASSUME RegistryInv, NEW c \in Commands, CliMoves(c)
    PROVE  RowsOpposite'
<1> USE DEF RegistryInv
<1>1. CASE Stays
  BY <1>1 DEF Stays, RowsOpposite
<1>2. CASE Inserts(c)
  <2>1. \A i \in 1..Len(journal') : i \in 1..Len(journal) \/ i = Len(journal')
    BY <1>2, Inserted
  <2> QED
    BY <1>2, <2>1, Inserted DEF RowsOpposite
<1>3. CASE Cuts(c) \/ Verifies(c) \/ Finalizes(c)
  BY <1>3, Written DEF RowsOpposite
<1> QED
  BY <1>1, <1>2, <1>3 DEF CliMoves

\* A run that found its candidate eligible, and read what is current, knows
\* that nothing is half done.
LEMMA InsertsInOrder ==
    ASSUME RegistryInv, Orderly, NEW c \in Commands, CliMoves(c), pointer' = pointer,
           Half' \subseteq Half, NEW d \in Commands, cli'[d].pc = "insert",
           cli'[d].read.version = pointer.version
    PROVE  Half' = {}
<1>0. /\ cli \in [Commands -> CliRow] /\ pointer.gen \in Slots
  BY DEF RegistryInv, Types, TypeOK, SlotsTypeOK, PromotionTypeOK, Pointer
<1>1. PICK r : Takes(c, r)
  BY DEF CliMoves
<1>2. cli' = [cli EXCEPT ![c] = r]
  BY <1>1 DEF Takes
<1>3. CASE d # c
  <2>1. cli'[d] = cli[d]
    BY <1>0, <1>2, <1>3
  <2>2. Half = {}
    BY <2>1 DEF RegistryInv, OrderInv, MovesInOrder, At
  <2> QED
    BY <2>2
<1>4. CASE d = c
  <2>1. cli'[d] = r
    BY <1>0, <1>2, <1>4
  <2>2. r.read = cli[c].read /\ CandidateReady(slots[Other(cli[c].read.gen)], cli[c].mode)
    BY <1>1, <2>1 DEF Takes
  <2>3. cli[c].read = pointer
    BY <2>1, <2>2 DEF RegistryInv, ReadsKnown
  <2>4. slots[Other(pointer.gen)].state # "SERVING"
    BY <2>2, <2>3 DEF CandidateReady, CandidateLifecycleEligible
  <2>5. Half = {}
    BY <2>4, HalfDone
  <2> QED
    BY <2>5
<1> QED
  BY <1>3, <1>4

LEMMA RunKeepsOrder ==
    ASSUME RegistryInv, Orderly, NEW c \in Commands, CliMoves(c)
    PROVE  OrderInv'
<1>0. /\ tool'.pc = "idle" /\ plan' = plan
      /\ slots \in [Slots -> SlotRow] /\ pointer \in Pointer /\ pointer.version \in Nat
      /\ pointer.gen \in Slots /\ journal \in Seq(JournalRow)
  BY AloneWithCommands DEF RegistryInv, Types, TypeOK, SlotsTypeOK, Pointer
<1>1. ToolAlone' /\ ToolTargets'
  BY <1>0 DEF ToolAlone, ToolTargets, ToolAt
<1>2. PointerServes /\ HalfIsNewest /\ MovesInOrder /\ WholeWhereLive
  BY DEF RegistryInv, OrderInv
<1>3. ASSUME pointer' = pointer, Half' \subseteq Half
      PROVE  \A d \in Commands : (At(d, "insert") /\ cli[d].read.version = pointer.version)' => Half' = {}
  BY <1>3, InsertsInOrder DEF At
<1>4. CASE Stays
  <2>1. Half' = Half /\ pointer' = pointer
    BY <1>4 DEF Stays, Half, Cut, Unfinished
  <2>2. MovesInOrder'
    BY <1>2, <1>3, <1>4, <2>1 DEF Stays, MovesInOrder
  <2>3. PointerServes' /\ HalfIsNewest' /\ WholeWhereLive'
    BY <1>0, <1>2, <1>4, <2>1 DEF Stays, PointerServes, HalfIsNewest, WholeWhereLive
  <2> QED
    BY <1>1, <2>2, <2>3 DEF OrderInv
<1>5. CASE Inserts(c)
  <2>1. Half' = Half /\ pointer' = pointer /\ slots' = slots
    BY <1>5, Inserted DEF Inserts, RegistryInv
  <2>2. \A i \in Half : journal'[i] = journal[i]
    BY <1>5, Inserted DEF RegistryInv, Half, Cut
  <2>3. MovesInOrder'
    <3>1. cli[c].read.version <= pointer.version
          /\ (cli[c].read.version = pointer.version => Half = {})
      BY <1>2, <1>5 DEF RegistryInv, ReadsKnown, MovesInOrder, Inserts
    <3>2. \A i \in 1..Len(journal') : i \in 1..Len(journal) \/ i = Len(journal')
      BY <1>5, Inserted DEF RegistryInv
    <3>3. \A i \in 1..Len(journal') : journal'[i].phase = "PREPARING" =>
             /\ journal'[i].expected <= pointer'.version
             /\ journal'[i].expected = pointer'.version => Half' = {}
      BY <1>2, <1>5, <2>1, <3>1, <3>2, Inserted DEF RegistryInv, MovesInOrder
    <3> QED
      BY <1>3, <2>1, <3>3 DEF MovesInOrder
  <2>4. PointerServes' /\ HalfIsNewest' /\ WholeWhereLive'
    BY <1>0, <1>2, <2>1, <2>2 DEF PointerServes, HalfIsNewest, WholeWhereLive
  <2> QED
    BY <1>1, <2>3, <2>4 DEF OrderInv
<1>6. CASE Cuts(c)
  <2> DEFINE j == cli[c].job
  <2>1. /\ j \in 1..Len(journal) /\ Half' = Half \cup {j} /\ Len(journal') = Len(journal)
        /\ journal'[j].resulting = pointer.version + 1
        /\ journal'[j].from = journal[j].from /\ journal'[j].to = journal[j].to
        /\ \A i \in 1..Len(journal) : i # j => journal'[i] = journal[i]
        /\ \A i \in 1..Len(journal) : journal'[i].expected = journal[i].expected
        /\ j \in Half'
    BY <1>6, Written DEF RegistryInv
  <2>2. /\ pointer'.version = pointer.version + 1 /\ slots' = slots
        /\ journal[j].phase = "PREPARING" /\ journal[j].expected = pointer.version
        /\ journal[j].from = pointer.gen /\ journal'[j].phase = "POINTER_UPDATED"
    BY <1>0, <1>6, <2>1 DEF Cuts, Row, PointerMatches
  <2> HIDE DEF j
  <2>3. Half = {} /\ Half' = {j}
    BY <1>2, <2>1, <2>2 DEF MovesInOrder
  <2>4. HalfIsNewest'
    BY <1>2, <2>1, <2>2, <2>3 DEF RegistryInv, RowsOpposite, PointerServes, HalfIsNewest
  <2>5. MovesInOrder'
    <3>1. ASSUME NEW i \in 1..Len(journal'), journal'[i].phase = "PREPARING"
          PROVE  journal'[i].expected <= pointer.version
      <4>1. i # j /\ journal[i].phase = "PREPARING" /\ i \in 1..Len(journal)
        BY <2>1, <2>2, <3>1
      <4> QED
        BY <1>2, <2>1, <4>1 DEF MovesInOrder
    <3>2. \A i \in 1..Len(journal') : journal'[i].expected \in Nat
      BY <2>1, RowTypes DEF RegistryInv, Types
    <3>3. \A d \in Commands : cli'[d].read.version <= pointer.version /\ cli'[d].read.version \in Nat
      <4>1. cli' \in [Commands -> CliRow]
        <5>1. PICK r \in CliRow : cli' = [cli EXCEPT ![c] = r]
          BY DEF CliMoves, Takes
        <5> QED
          BY <5>1 DEF RegistryInv, Types, TypeOK, PromotionTypeOK
      <4>2. \A d \in Commands : cli'[d].read.version \in Nat
        BY <4>1 DEF CliRow, Pointer
      <4> QED
        BY <4>2, ReadsKept
    <3>4. \A i \in 1..Len(journal') : journal'[i].phase = "PREPARING" =>
             journal'[i].expected <= pointer'.version /\ journal'[i].expected # pointer'.version
      BY <1>0, <2>2, <3>1, <3>2
    <3>5. \A d \in Commands : cli'[d].read.version # pointer'.version
      BY <1>0, <2>2, <3>3
    <3> QED
      BY <3>4, <3>5 DEF MovesInOrder
  <2>6. PointerServes' /\ WholeWhereLive'
    BY <1>0, <1>2, <2>2, <2>3 DEF PointerServes, WholeWhereLive
  <2> QED
    BY <1>1, <2>4, <2>5, <2>6 DEF OrderInv
<1>7. CASE Verifies(c)
  <2> DEFINE j == cli[c].job
  <2>1. /\ j \in 1..Len(journal) /\ Half' = Half /\ Len(journal') = Len(journal)
        /\ \A i \in 1..Len(journal) : i # j => journal'[i] = journal[i]
        /\ \A i \in 1..Len(journal) : /\ journal'[i].from = journal[i].from
                                      /\ journal'[i].to = journal[i].to
    BY <1>7, Written DEF RegistryInv
  <2>2. journal'[j].resulting = journal[j].resulting /\ pointer' = pointer /\ slots' = slots
    <3>1. ~Cuts(c)
      BY <1>7 DEF Verifies, Cuts, At
    <3> QED
      BY <1>7, <3>1, Written DEF RegistryInv, Verifies
  <2>3. journal'[j].phase = "ROUTER_VERIFIED"
    BY <1>0, <1>7, <2>1 DEF Verifies
  <2> HIDE DEF j
  <2>4. HalfIsNewest'
    <3>1. \A i \in Half : journal'[i].resulting = journal[i].resulting /\ i \in 1..Len(journal)
      BY <2>1, <2>2 DEF Half, Cut
    <3> QED
      BY <1>2, <2>1, <2>2, <3>1 DEF HalfIsNewest
  <2>5. MovesInOrder'
    <3>1. \A i \in 1..Len(journal') : journal'[i].phase = "PREPARING" => journal'[i] = journal[i]
      BY <2>1, <2>3
    <3> QED
      BY <1>2, <1>3, <2>1, <2>2, <3>1 DEF MovesInOrder
  <2>6. PointerServes' /\ WholeWhereLive'
    BY <1>0, <1>2, <2>1, <2>2 DEF PointerServes, WholeWhereLive
  <2> QED
    BY <1>1, <2>4, <2>5, <2>6 DEF OrderInv
<1>8. CASE Finalizes(c)
  <2> DEFINE j == cli[c].job
  <2>1. /\ j \in 1..Len(journal) /\ j \in Half /\ Half' = Half \ {j}
        /\ Len(journal') = Len(journal)
        /\ \A i \in 1..Len(journal) : i # j => journal'[i] = journal[i]
    BY <1>8, Written DEF RegistryInv
  <2>2. /\ journal'[j].phase = "GENERATION_FINALIZED" /\ pointer' = pointer
        /\ CanFinalize(journal[j]) /\ slots' = Rotated(journal[j])
    BY <1>0, <1>8, <2>1 DEF Finalizes, Row
  <2> HIDE DEF j
  <2>3. /\ Half' = {} /\ pointer.gen = journal[j].to /\ pointer.prev = journal[j].from
        /\ pointer.prev = Other(pointer.gen)
    BY <2>1, HalfDone
  <2>4. HalfIsNewest'
    BY <2>3 DEF HalfIsNewest
  <2>5. MovesInOrder'
    <3>1. \A i \in 1..Len(journal') : journal'[i].phase = "PREPARING" => journal'[i] = journal[i]
      BY <2>1, <2>2
    <3> QED
      BY <1>2, <2>1, <2>2, <2>3, <3>1 DEF MovesInOrder
  <2>6. \A s \in Slots :
           /\ slots'[s].validation = slots[s].validation /\ slots'[s].store = slots[s].store
           /\ s = pointer.gen => slots'[s].state = "SERVING" /\ slots'[s].protection = "SERVING"
           /\ s # pointer.gen => slots'[s].state = "RETIRING" /\ slots'[s].protection = "ROLLBACK"
    BY <1>0, <2>2, <2>3 DEF Rotated, SlotRow
  <2>7. PointerServes'
    BY <1>0, <2>2, <2>3, <2>6, Opposites DEF PointerServes, CandidateLifecycleEligible
  <2>8. WholeWhereLive'
    <3>1. slots[pointer.gen].state \in {"READY", "RETIRING"}
      BY <2>2, <2>3 DEF CanFinalize, CandidateLifecycleEligible
    <3>2. slots[Other(pointer.gen)].state = "SERVING"
      BY <2>1, HalfDone
    <3>3. \A s \in Slots : s = pointer.gen \/ s = Other(pointer.gen)
      BY <1>0, Opposites
    <3> QED
      BY <1>0, <1>2, <2>6, <3>1, <3>2, <3>3 DEF WholeWhereLive
  <2> QED
    BY <1>1, <2>4, <2>5, <2>7, <2>8 DEF OrderInv
<1> QED
  BY <1>4, <1>5, <1>6, <1>7, <1>8 DEF CliMoves

\* What maintenance does to slots and to itself.
LEMMA ToolShapes ==
    ASSUME RegistryInv, Orderly, ToolMoves
    PROVE  /\ ToolAlone' /\ \A s \in Slots : s # tool.slot => slots'[s] = slots[s]
           /\ \/ slots' = slots /\ tool'.pc \notin {"reset", "wipe", "fill", "state", "compare"}
              \/ /\ slots' = slots /\ tool'.pc \in {"reset", "compare"}
                 /\ Inspectable /\ tool'.slot = Candidate
              \/ LoadReset \/ WipeStore \/ FillStore \/ MarkCatchingUp
              \/ \E equal \in BOOLEAN : WriteVerdict(equal)
<1> USE DEF slotVars, ToolAt
<1>0. slots \in [Slots -> SlotRow] /\ tool \in ToolRow /\ ToolAlone
  BY DEF RegistryInv, Types, TypeOK, SlotsTypeOK, RebuildTypeOK, OrderInv
<1>1. ToolAlone'
  <2>1. CASE Maintain
    BY <2>1 DEF Maintain, MayStart, Orderly, ToolAlone, Rebuild, Validate, At
  <2>2. CASE (ToolStep \/ ToolFails) /\ UNCHANGED <<cli, plan>>
    <3>1. ~ToolAt("idle")
      BY <2>2 DEF ToolStep, ToolFails, StopWorker, LoadInspect, LoadReset, WipeStore, FillStore,
             MarkCatchingUp, StartWorker, ToolRefused, Refused, ObserveCandidate, ValidateSelect, WriteVerdict
    <3> QED
      BY <1>0, <2>2, <3>1 DEF ToolAlone, At
  <2> QED
    BY <2>1, <2>2 DEF ToolMoves
<1>2. NoTool.pc = "idle" /\ \A pc : ToolGoto(pc) => tool'.pc = pc
  BY <1>0 DEF NoTool, ToolGoto, ToolRow
<1>3. CASE LoadReset \/ WipeStore \/ FillStore \/ MarkCatchingUp \/ \E equal \in BOOLEAN : WriteVerdict(equal)
  <2>1. \A s \in Slots : s # tool.slot => slots'[s] = slots[s]
    BY <1>0, <1>3 DEF LoadReset, WipeStore, FillStore, MarkCatchingUp, WriteVerdict
  <2> QED
    BY <1>1, <1>3, <2>1
<1>4. CASE LoadInspect
  <2>1. tool'.pc = "reset" /\ tool'.slot = Candidate /\ Inspectable /\ slots' = slots
    BY <1>0, <1>4 DEF LoadInspect, ToolRow
  <2> QED
    BY <1>1, <2>1
<1>5. CASE ValidateSelect
  <2>1. tool'.pc = "compare" /\ tool'.slot = Candidate /\ Inspectable /\ slots' = slots
    BY <1>0, <1>5 DEF ValidateSelect, ToolRow
  <2> QED
    BY <1>1, <2>1
<1>6. CASE Maintain \/ StopWorker \/ StartWorker \/ ObserveCandidate \/ ToolRefused \/ ToolFails
  <2>1. slots' = slots /\ tool'.pc \in {"idle", "stop", "load", "observe", "validate"}
    BY <1>2, <1>6 DEF Maintain, Rebuild, Validate, StopWorker, StartWorker, ObserveCandidate,
                      ToolRefused, ToolFails, NoTool
  <2> QED
    BY <1>1, <2>1
<1> QED
  BY <1>3, <1>4, <1>5, <1>6 DEF ToolMoves, ToolStep

LEMMA ToolKeepsOrder ==
    ASSUME RegistryInv, Orderly, ToolMoves
    PROVE  OrderInv'
<1>0. /\ pointer' = pointer /\ journal' = journal /\ cli' = cli /\ plan' = plan
      /\ slots \in [Slots -> SlotRow] /\ pointer.gen \in Slots /\ tool \in ToolRow /\ tool.slot \in Slots
      /\ Half' = Half
  BY ToolFrame DEF RegistryInv, Types, TypeOK, SlotsTypeOK, RebuildTypeOK, Pointer, ToolRow,
                   Half, Cut, Unfinished
<1>1. /\ ToolAlone /\ PointerServes /\ HalfIsNewest /\ MovesInOrder /\ ToolTargets /\ WholeWhereLive
  BY DEF RegistryInv, OrderInv
<1>2. MovesInOrder'
  BY <1>0, <1>1 DEF MovesInOrder, At
<1>3. ASSUME slots' = slots
      PROVE  PointerServes' /\ HalfIsNewest' /\ WholeWhereLive'
  BY <1>0, <1>1, <1>3 DEF PointerServes, HalfIsNewest, WholeWhereLive
<1>4. CASE slots' = slots /\ tool'.pc \notin {"reset", "wipe", "fill", "state", "compare"}
  BY <1>2, <1>3, <1>4, ToolShapes DEF OrderInv, ToolTargets
<1>5. CASE slots' = slots /\ tool'.pc \in {"reset", "compare"} /\ Inspectable /\ tool'.slot = Candidate
  <2>1. slots[pointer.gen].state = "SERVING" /\ slots[Other(pointer.gen)].state # "SERVING"
    BY <1>5 DEF Inspectable, ServingRows
  <2>2. Half = {}
    BY <2>1, HalfDone
  <2>3. ToolTargets'
    BY <1>0, <1>5, <2>2 DEF ToolTargets, Candidate
  <2> QED
    BY <1>2, <1>3, <1>5, <2>3, ToolShapes DEF OrderInv
\* A step that writes to the slot: the other one, and not one that serves.
<1>6. ASSUME Half = {}, tool.slot = Other(pointer.gen), \A s \in Slots : s # tool.slot => slots'[s] = slots[s],
             ~ToolAt("idle"),
             slots'[tool.slot].state # "SERVING",
             slots'[tool.slot].state \in {"READY", "RETIRING"} =>
                slots'[tool.slot].validation = "VALID" /\ slots'[tool.slot].store = "WHOLE",
             tool'.pc \in {"wipe", "fill", "state", "compare"} => tool'.slot = tool.slot,
             tool'.pc # "reset",
             tool'.pc \in {"wipe", "fill", "state"} => slots'[tool.slot].state = "LOADING"
      PROVE  OrderInv'
  <2>1. plan.tools # {}
    BY <1>1, <1>6 DEF ToolAlone
  <2>2. pointer.gen # tool.slot
    BY <1>0, <1>6, Opposites
  <2>3. PointerServes'
    BY <1>0, <1>1, <1>6, <2>1, <2>2 DEF PointerServes
  <2>4. HalfIsNewest'
    BY <1>0, <1>6 DEF HalfIsNewest
  <2>5. WholeWhereLive'
    <3> SUFFICES ASSUME ~plan.overlapping, NEW s \in Slots,
                        slots'[s].state \in {"READY", "SERVING", "RETIRING"}
                 PROVE  slots'[s].validation = "VALID" /\ slots'[s].store = "WHOLE"
      BY <1>0 DEF WholeWhereLive
    <3>1. CASE s = tool.slot
      BY <1>6, <3>1
    <3>2. CASE s # tool.slot
      BY <1>1, <1>6, <3>2 DEF WholeWhereLive
    <3> QED
      BY <3>1, <3>2
  <2>6. ToolTargets'
    BY <1>0, <1>6 DEF ToolTargets
  <2> QED
    BY <1>2, <2>3, <2>4, <2>5, <2>6, ToolShapes DEF OrderInv
<1>7. /\ \A s \in Slots : s # tool.slot => slots'[s] = slots[s]
      /\ slots[tool.slot] \in SlotRow
      /\ \A pc : ToolGoto(pc) => tool'.pc = pc /\ tool'.slot = tool.slot
  BY <1>0, ToolShapes DEF ToolGoto, ToolRow
<1>8. CASE LoadReset
  <2>1. Half = {} /\ tool.slot = Other(pointer.gen) /\ slots[tool.slot].state # "SERVING"
    BY <1>1, <1>8 DEF LoadReset, ToolAt, ToolTargets, PointerServes
  <2>2. slots'[tool.slot].state = "LOADING" /\ tool'.pc = "wipe" /\ tool'.slot = tool.slot
    BY <1>0, <1>7, <1>8, <2>1 DEF LoadReset, SlotRow
  <2> QED
    BY <1>6, <1>7, <1>8, <2>1, <2>2 DEF LoadReset, ToolAt
<1>9. CASE WipeStore \/ FillStore
  <2>1. Half = {} /\ tool.slot = Other(pointer.gen) /\ slots[tool.slot].state = "LOADING" /\ ~ToolAt("idle")
    BY <1>1, <1>9 DEF WipeStore, FillStore, ToolAt, ToolTargets
  <2>2. slots'[tool.slot].state = "LOADING" /\ tool'.pc \in {"fill", "state"} /\ tool'.slot = tool.slot
    <3>1. tool'.pc \in {"fill", "state"} /\ tool'.slot = tool.slot
      BY <1>7, <1>9 DEF WipeStore, FillStore
    <3>2. CASE WipeStore
      BY <1>0, <1>7, <2>1, <3>1, <3>2 DEF WipeStore, SlotRow
    <3>3. CASE FillStore
      BY <1>0, <1>7, <2>1, <3>1, <3>3 DEF FillStore, SlotRow
    <3> QED
      BY <1>9, <3>2, <3>3
  <2> QED
    BY <1>6, <1>7, <2>1, <2>2
<1>10. CASE MarkCatchingUp
  <2>1. Half = {} /\ tool.slot = Other(pointer.gen) /\ ~ToolAt("idle")
    BY <1>1, <1>10 DEF MarkCatchingUp, ToolAt, ToolTargets
  <2>2. slots'[tool.slot].state = "CATCHING_UP" /\ tool'.pc = "start"
    BY <1>0, <1>7, <1>10 DEF MarkCatchingUp, SlotRow
  <2> QED
    BY <1>6, <1>7, <2>1, <2>2
<1>11. ASSUME NEW equal \in BOOLEAN, WriteVerdict(equal)
       PROVE  OrderInv'
  <2>1. Half = {} /\ tool.slot = Other(pointer.gen) /\ ~ToolAt("idle")
    BY <1>1, <1>11 DEF WriteVerdict, ToolAt, ToolTargets
  <2>2. tool'.pc = "idle"
    BY <1>11 DEF WriteVerdict, NoTool
  <2>3. CASE equal
    <3>1. /\ slots'[tool.slot].state = "READY" /\ slots'[tool.slot].validation = "VALID"
          /\ slots'[tool.slot].store = "WHOLE"
      BY <1>0, <1>7, <1>11, <2>3 DEF WriteVerdict, SlotRow
    <3> QED
      BY <1>6, <1>7, <2>1, <2>2, <3>1
  <2>4. CASE ~equal
    <3>1. slots'[tool.slot].state = "FAILED"
      BY <1>0, <1>7, <1>11, <2>4 DEF WriteVerdict, SlotRow
    <3> QED
      BY <1>6, <1>7, <2>1, <2>2, <3>1
  <2> QED
    BY <2>3, <2>4
<1> QED
  BY <1>4, <1>5, <1>8, <1>9, <1>10, <1>11, ToolShapes

LEMMA RegistryKept == RegistryInv /\ [Next]_vars => RegistryInv'
<1> SUFFICES ASSUME RegistryInv, [Next]_vars PROVE RegistryInv'
  OBVIOUS
<1>0. Types' /\ CutInv' /\ Types
  BY TypesKept, CutKept DEF RegistryInv
<1>a. slots \in [Slots -> SlotRow] /\ pointer.gen \in Slots /\ tool.slot \in Slots
      /\ pointer.prev \in Slots \cup {None} /\ journal \in Seq(JournalRow)
  BY <1>0 DEF Types, TypeOK, SlotsTypeOK, RebuildTypeOK, ToolRow, Pointer
<1>1. CASE Rests
  BY <1>0, <1>1 DEF Rests, RegistryInv, ReadsKnown, RowsOpposite, OrderInv, Orderly, ToolAlone, PointerServes,
     HalfIsNewest, MovesInOrder, ToolTargets, WholeWhereLive, Half, Cut, Unfinished, ToolAt, At
<1>2. CASE OnlySync
  <2>1. \A s \in Slots : /\ slots'[s].state = slots[s].state
                         /\ slots'[s].protection = slots[s].protection
                         /\ slots'[s].validation = slots[s].validation
                         /\ slots'[s].store = slots[s].store
    <3> SUFFICES ASSUME NEW s \in Slots
                 PROVE  /\ slots'[s].state = slots[s].state
                        /\ slots'[s].protection = slots[s].protection
                        /\ slots'[s].validation = slots[s].validation
                        /\ slots'[s].store = slots[s].store
      OBVIOUS
    <3>1. slots[s] \in SlotRow
      BY <1>a
    <3> QED
      BY <1>2, <3>1 DEF OnlySync, SlotRow
  <2>2. /\ UNCHANGED <<pointer, journal, cli, tool, plan>> /\ Half' = Half
    BY <1>2 DEF OnlySync, Half, Cut, Unfinished
  <2>3. ReadsKnown' /\ RowsOpposite'
    BY <2>2 DEF RegistryInv, ReadsKnown, RowsOpposite
  <2>4. ASSUME Orderly
        PROVE  OrderInv'
    <3>1. /\ ToolAlone /\ PointerServes /\ HalfIsNewest /\ MovesInOrder /\ ToolTargets /\ WholeWhereLive
      BY <2>4 DEF RegistryInv, OrderInv
    <3>2. ToolAlone' /\ MovesInOrder'
      BY <2>2, <3>1 DEF ToolAlone, ToolAt, At, MovesInOrder
    <3>3. PointerServes'
      <4>1. pointer.prev # None => pointer.prev \in Slots
        BY <1>a
      <4> QED
        BY <1>a, <2>1, <2>2, <3>1, <4>1, Opposites DEF PointerServes, CandidateLifecycleEligible
    <3>4. HalfIsNewest'
      <4>1. \A j \in Half : journal[j].from \in Slots /\ journal[j].to \in Slots
        BY <1>0, RowTypes DEF Half, Cut, Types
      <4> QED
        BY <2>1, <2>2, <3>1, <4>1 DEF HalfIsNewest
    <3>5. ToolTargets' /\ WholeWhereLive'
      BY <1>a, <2>1, <2>2, <3>1 DEF ToolTargets, WholeWhereLive
    <3> QED
      BY <3>1, <3>2, <3>3, <3>4, <3>5 DEF OrderInv
  <2>5. Orderly' = Orderly
    BY <2>2 DEF Orderly
  <2> QED
    BY <1>0, <2>3, <2>4, <2>5 DEF RegistryInv, OrderInv
<1>3. ASSUME NEW c \in Commands, CliMoves(c)
      PROVE  RegistryInv'
  <2>1. Orderly' = Orderly
    BY <1>3 DEF CliMoves, Orderly
  <2> QED
    BY <1>0, <1>3, <2>1, ReadsKept, OppositesKept, RunKeepsOrder DEF RegistryInv, OrderInv
<1>4. CASE ToolMoves
  <2>1. UNCHANGED <<pointer, journal, cli, plan>>
    BY <1>4, ToolFrame
  <2>2. ReadsKnown' /\ RowsOpposite' /\ Orderly' = Orderly
    BY <2>1 DEF RegistryInv, ReadsKnown, RowsOpposite, Orderly
  <2> QED
    BY <1>0, <1>4, <2>2, ToolKeepsOrder DEF RegistryInv, OrderInv
<1> QED
  BY <1>0, <1>1, <1>2, <1>3, <1>4, StepShapes DEF Types

LEMMA RegistryStart == Init => RegistryInv
<1> SUFFICES ASSUME Init PROVE RegistryInv
  OBVIOUS
<1>0. Types /\ CutInv
  BY TypesStart, CutStart
<1>1. /\ pointer = [gen |-> "gen-a", prev |-> None, version |-> 1] /\ journal = << >>
      /\ tool.pc = "idle" /\ \A c \in Commands : cli[c].read = pointer /\ cli[c].pc = "idle"
  BY DEF Init, SlotsInit, PromotionInit, RebuildInit, NoTool, Quiet
<1>2. /\ slots["gen-a"] = [state |-> "SERVING", protection |-> "SERVING", validation |-> "VALID",
                           sync |-> "BOOTSTRAPPING", store |-> "WHOLE"]
      /\ slots["gen-b"] = [state |-> "READY", protection |-> "NONE", validation |-> "VALID",
                           sync |-> "BOOTSTRAPPING", store |-> "WHOLE"]
  BY DEF Init, SlotsInit, Bootstrapped, Slots
<1>3. Half = {}
  BY <1>1 DEF Half, Cut
<1>4. ReadsKnown /\ RowsOpposite
  BY <1>1 DEF ReadsKnown, RowsOpposite
<1>5. PointerServes /\ WholeWhereLive
  BY <1>1, <1>2 DEF PointerServes, WholeWhereLive, Other, Slots
<1>6. HalfIsNewest /\ MovesInOrder /\ ToolAlone /\ ToolTargets
  BY <1>1, <1>3 DEF HalfIsNewest, MovesInOrder, ToolAlone, ToolTargets, ToolAt, At
<1> QED
  BY <1>0, <1>4, <1>5, <1>6 DEF RegistryInv, OrderInv

LEMMA RegistryAlways == Spec => []RegistryInv
BY RegistryStart, RegistryKept, PTL DEF Spec

\* Registry and pointer agree whenever every cutover is finalized: finalize
\* rotates both slots in one transaction, and nothing is cut over meanwhile.
THEOREM StandaloneRegistryFollows == Spec => []RegistryFollowsPointer
<1>1. RegistryInv => RegistryFollowsPointer
  BY DEF RegistryInv, OrderInv, Orderly, PointerServes, RegistryFollowsPointer, Half
<1> QED
  BY <1>1, RegistryAlways, PTL

\* For an operator who does one thing at a time the served slot stays SERVING,
\* VALID and whole through every rebuild and validation of the other one.
THEOREM ServedSlotStaysWhole == Spec => []ServedSlotUntouched
<1>1. ASSUME RegistryInv PROVE ServedSlotUntouched
  <2> SUFFICES ASSUME Unfinished = {}, ~plan.overlapping
               PROVE  LET row == slots[pointer.gen]
                      IN  row.state = "SERVING" /\ row.validation = "VALID" /\ row.store = "WHOLE"
    BY DEF ServedSlotUntouched
  <2>1. Half = {} /\ Orderly
    BY DEF Half, Orderly
  <2>2. slots[pointer.gen].state = "SERVING" /\ pointer.gen \in Slots
    BY <1>1, <2>1 DEF RegistryInv, OrderInv, PointerServes, Types, TypeOK, SlotsTypeOK, Pointer
  <2> QED
    BY <1>1, <2>1, <2>2 DEF RegistryInv, OrderInv, WholeWhereLive
<1> QED
  BY <1>1, RegistryAlways, PTL
===============================================================================
