----------------------- MODULE AbQualificationProofs -----------------------
(***************************************************************************)
(* Theorems about the blue/green rebuild of AbQualification, for any       *)
(* number of coordinators and generations, any length of the wiki's log    *)
(* and any number of faults: what a coordinator may promote, and what a    *)
(* query sees while it is promoted.                                        *)
(***************************************************************************)
EXTENDS AbQualification, GenerationPromotionProofs

-----------------------------------------------------------------------------
(***************************************************************************)
(* The inductive invariant.                                                *)
(*                                                                         *)
(* The coordinators' half: one operation is ever requested, for B, and     *)
(* from the verdict of its validation on the evidence for B is there.      *)
(***************************************************************************)

OpRow == [state : STATES \cup {"ABSENT"}, candidate : Generations,
          owner : Coordinators \cup {None}, live : BOOLEAN, fence : Nat]

\* Steps a handler only takes after it saw the validated candidate.
ValidatedSteps == {"validated", "READY_TO_PROMOTE", "prepare:lookup", "prepare:insert"}

\* A handler of the operation; rows are the journal rows there are.
Handling(w, rows) ==
    /\ w = [pc |-> w.pc, op |-> w.op, fence |-> w.fence, mem |-> w.mem]
    /\ w.op = Op
    /\ w.pc \in PrepareSteps => w.mem \in Generations \X Nat
    /\ w.pc \in RowSteps => \E j \in rows : w.mem = <<j>>

OneOperation ==
    /\ op \in [Operations -> OpRow]
    /\ \A o \in Operations : o # Op => op[o].state = "ABSENT"
    /\ op[Op].state # "ABSENT" => op[Op].candidate = B

HandlersServeIt ==
    /\ DOMAIN work = Coordinators
    /\ \A c \in Coordinators :
         work[c] = Idle \/ (Handling(work[c], Rows) /\ op[Op].state # "ABSENT")

JournalMovesToB ==
    /\ journal \in Seq(JournalRow)
    /\ \A j \in Rows : journal[j].op = Op /\ journal[j].to = B

PointerAtAOrB ==
    /\ pointer \in Pointer
    /\ pointer.generation \in {A, B}

BDeclaredValid == B \in validation.valid

PromotedWhenValid ==
    /\ op[Op].state = "READY_TO_PROMOTE" => BDeclaredValid
    /\ \A c \in Coordinators : work[c].pc \in ValidatedSteps => BDeclaredValid
    /\ Rows # {} => BDeclaredValid
    /\ pointer.generation = B => BDeclaredValid

CoordinatorsInv ==
    /\ OneOperation
    /\ HandlersServeIt
    /\ JournalMovesToB
    /\ PointerAtAOrB
    /\ PromotedWhenValid

-----------------------------------------------------------------------------
(***************************************************************************)
(* The script's half: what holds at which step, and the evidence it leaves *)
(* behind when it fails or is killed.                                      *)
(***************************************************************************)

Requesting == {"start", "old", "syncA", "request"}
Registering == Requesting \cup {"loading", "healthy", "dump", "register"}
Loading == {"load", "loaded"}
Deploying == {"current", "equal", "deploy"}
Catching == {"available", "stopA", "edit", "more", "syncB", "equalB"}
Caught == {"sampler", "seeOld", "ready"}
Promoting == {"promoted", "verdict"}
Following == {"post", "syncPost", "equalPost"}
Leaving == {"finally", "ended", "abandoned", "killed"}
ScriptSteps == Registering \cup Loading \cup Deploying \cup Catching \cup Caught
               \cup Promoting \cup Following \cup Leaving

ScriptRow == [pc : ScriptSteps, cursor : Nat, dump : Nat, mark : Nat, before : Nat,
              old : Nat, new : Nat, seen : SUBSET Samples,
              result : {"none", "failed", "qualified"}]

QualTypeOK ==
    /\ head \in Nat
    /\ script \in ScriptRow
    /\ sync \in [Generations -> SyncRow]
    /\ content \in [Generations -> Nat \cup {Partial}]
    /\ worker \in [Generations -> [replicas : {0, 1}, running : BOOLEAN]]
    /\ target \in [Operations -> Nat]
    /\ validation \in [valid : SUBSET Generations, manifest : SUBSET Generations]

\* Nothing is ahead of the wiki, and only B is ever half loaded.
DatasetsFollowHead ==
    \A g \in Generations :
        /\ sync[g].cursor <= head
        /\ content[g] # Partial => content[g] <= head
        /\ content[g] = Partial => g = B

\* The cursor the script read is the operation's target until B is registered
\* at it, and the dump is not older.
CursorIsTarget ==
    /\ script.pc \in Requesting => op[Op].state = "ABSENT"
    /\ script.pc \in Registering \cup Loading => script.cursor <= head
    /\ script.pc \in (Registering \cup Loading) \ Requesting => target[Op] = script.cursor
    /\ script.pc \in {"register"} \cup Loading => script.cursor <= script.dump /\ script.dump <= head
    /\ script.pc \in Registering => sync[B].state = "NONE"
    /\ script.pc \in Loading => sync[B].state # "NONE" /\ sync[B].cursor = script.cursor
    /\ sync[B].state # "NONE" => sync[B].cursor >= target[Op]

\* The manifest comes with a whole dataset, which no worker follows before; the
\* verdict comes after the manifest and after a comparison with the wiki that
\* nobody has edited since.
EvidenceOfB ==
    /\ B \notin validation.manifest => worker[B] = Down
    /\ script.pc \in Registering \cup Loading => B \notin validation.manifest
    /\ script.pc \in Deploying \cup Catching \cup Caught => B \in validation.manifest
    /\ script.pc \notin Promoting \cup Following \cup Leaving => ~BDeclaredValid
    /\ script.pc \in Caught \cup Promoting => content[B] = head
    /\ script.pc \in Following => pointer.generation = B
    /\ B \in validation.manifest => /\ sync[B].state # "NONE"
                                    /\ content[B] # Partial
                                    /\ content[B] >= sync[B].cursor
    /\ BDeclaredValid => /\ B \in validation.manifest
                         /\ content[B] = head \/ pointer.generation = B

ScriptInv ==
    /\ QualTypeOK
    /\ DatasetsFollowHead
    /\ CursorIsTarget
    /\ EvidenceOfB

AbInv == CoordinatorsInv /\ ScriptInv
-----------------------------------------------------------------------------
(***************************************************************************)
(* The coordinators' steps keep their half.                                *)
(***************************************************************************)

\* There is an operation to request.
LEMMA OpExists == Op \in Operations
BY QualificationAssumption DEF Op

\* A handler that is not idle works on the operation, for B.
LEMMA AtWorkOnOp ==
    ASSUME CoordinatorsInv, NEW c \in Coordinators, NEW pc, At(c, pc), pc # "idle"
    PROVE  /\ Handling(work[c], Rows)
           /\ work[c].pc = pc
           /\ op[Op].state # "ABSENT"
           /\ Candidate(c) = B
<1>1. work[c].pc = pc /\ work[c] # Idle
  BY DEF At, Idle
<1>2. Handling(work[c], Rows) /\ op[Op].state # "ABSENT"
  BY <1>1 DEF CoordinatorsInv, HandlersServeIt
<1> QED
  BY <1>1, <1>2 DEF CoordinatorsInv, OneOperation, Handling, Candidate

\* What a step of coordinator c leaves to prove: its own entry of work, and
\* the rows it wrote.
LEMMA CoordinatorKept ==
    ASSUME CoordinatorsInv, NEW c \in Coordinators, NEW w,
           work' = [work EXCEPT ![c] = w],
           w = Idle \/ (Handling(w, Rows') /\ op[Op].state # "ABSENT"),
           w.pc \in ValidatedSteps => BDeclaredValid,
           Rows \subseteq Rows',
           OneOperation',
           op[Op].state # "ABSENT" => op'[Op].state # "ABSENT",
           op'[Op].state = "READY_TO_PROMOTE" => BDeclaredValid,
           JournalMovesToB',
           PointerAtAOrB',
           Rows' # {} => BDeclaredValid,
           pointer'.generation = B => BDeclaredValid,
           validation' = validation
    PROVE  CoordinatorsInv'
<1>1. DOMAIN work' = Coordinators /\ work'[c] = w
  BY DEF CoordinatorsInv, HandlersServeIt
<1>2. BDeclaredValid' <=> BDeclaredValid
  BY DEF BDeclaredValid
<1>3. ASSUME NEW d \in Coordinators
      PROVE  /\ work'[d] = Idle \/ (Handling(work'[d], Rows') /\ op'[Op].state # "ABSENT")
             /\ work'[d].pc \in ValidatedSteps => BDeclaredValid
  <2>1. CASE d = c
    BY <1>1, <2>1
  <2>2. CASE d # c
    <3>1. work'[d] = work[d]
      BY <2>2 DEF CoordinatorsInv, HandlersServeIt
    <3>2. CASE work[d] = Idle
      BY <3>1, <3>2 DEF Idle, ValidatedSteps
    <3>3. CASE Handling(work[d], Rows) /\ op[Op].state # "ABSENT"
      <4>1. Handling(work[d], Rows')
        BY <3>3 DEF Handling
      <4>2. work[d].pc \in ValidatedSteps => BDeclaredValid
        BY DEF CoordinatorsInv, PromotedWhenValid
      <4> QED
        BY <3>1, <3>3, <4>1, <4>2
    <3> QED
      BY <3>2, <3>3 DEF CoordinatorsInv, HandlersServeIt
  <2> QED
    BY <2>1, <2>2
<1>4. HandlersServeIt'
  BY <1>1, <1>3 DEF HandlersServeIt
<1>5. PromotedWhenValid'
  BY <1>2, <1>3 DEF PromotedWhenValid
<1> QED
  BY <1>4, <1>5 DEF CoordinatorsInv

\* Steps that write none of the rows this half is about.
LEMMA CoordinatorsIdle ==
    ASSUME CoordinatorsInv, UNCHANGED <<op, work, journal, pointer, validation>>
    PROVE  CoordinatorsInv'
BY DEF CoordinatorsInv, OneOperation, HandlersServeIt, JournalMovesToB, PointerAtAOrB,
       PromotedWhenValid, BDeclaredValid, Rows

\* The rows a step leaves alone.
LEMMA RowsKept ==
    ASSUME CoordinatorsInv, UNCHANGED <<op, journal, pointer, validation>>
    PROVE  /\ OneOperation' /\ JournalMovesToB' /\ PointerAtAOrB'
           /\ Rows' = Rows
           /\ op'[Op].state = "READY_TO_PROMOTE" => BDeclaredValid
           /\ Rows' # {} => BDeclaredValid
           /\ pointer'.generation = B => BDeclaredValid
BY DEF CoordinatorsInv, OneOperation, JournalMovesToB, PointerAtAOrB, PromotedWhenValid, Rows

\* A handler goes on, having written none of them.
LEMMA GoesOn ==
    ASSUME CoordinatorsInv, NEW c \in Coordinators, Handling(work[c], Rows),
           op[Op].state # "ABSENT",
           NEW pc, NEW mem, Goto(c, pc, mem),
           pc \in PrepareSteps => mem \in Generations \X Nat,
           pc \in RowSteps => \E j \in Rows : mem = <<j>>,
           pc \in ValidatedSteps => BDeclaredValid,
           UNCHANGED <<op, journal, pointer, validation>>
    PROVE  CoordinatorsInv'
<1> DEFINE w == [pc |-> pc, op |-> work[c].op, fence |-> work[c].fence, mem |-> mem]
<1>1. Rows' = Rows
  BY DEF Rows
<1>2. Handling(w, Rows')
  BY <1>1 DEF Handling
<1>3. work' = [work EXCEPT ![c] = w]
  BY DEF Goto
<1>4. w.pc \in ValidatedSteps => BDeclaredValid
  OBVIOUS
<1> HIDE DEF w
<1>5. w = Idle \/ (Handling(w, Rows') /\ op[Op].state # "ABSENT")
  BY <1>2
<1>6. /\ OneOperation' /\ JournalMovesToB' /\ PointerAtAOrB'
      /\ op'[Op].state = "READY_TO_PROMOTE" => BDeclaredValid
      /\ Rows' # {} => BDeclaredValid
      /\ pointer'.generation = B => BDeclaredValid
  BY RowsKept
<1> QED
  BY <1>1, <1>3, <1>4, <1>5, <1>6, CoordinatorKept

\* A handler returns or throws, having written none of them.
LEMMA Returns ==
    ASSUME CoordinatorsInv, NEW c \in Coordinators, Stop(c),
           UNCHANGED <<op, journal, pointer, validation>>
    PROVE  CoordinatorsInv'
<1>1. Idle.pc \notin ValidatedSteps
  BY DEF Idle, ValidatedSteps
<1>2. work' = [work EXCEPT ![c] = Idle]
  BY DEF Stop
<1> QED
  BY <1>1, <1>2, RowsKept, CoordinatorKept

\* A transition writes the state of its operation, if it writes at all.
LEMMA Transits ==
    ASSUME CoordinatorsInv, NEW c \in Coordinators, Handling(work[c], Rows),
           op[Op].state # "ABSENT",
           NEW from, NEW to \in STATES, Transition(c, from, to),
           to = "READY_TO_PROMOTE" => BDeclaredValid,
           UNCHANGED <<journal, pointer, validation>>
    PROVE  CoordinatorsInv'
<1> DEFINE row == [op[Op] EXCEPT !.state = to, !.owner = None, !.live = FALSE]
<1>1. op[Op] \in OpRow
  BY OpExists DEF CoordinatorsInv, OneOperation
<1>2. row \in OpRow /\ row.state = to /\ row.candidate = op[Op].candidate
  BY <1>1 DEF OpRow
<1>3. op' = [op EXCEPT ![Op] = row] \/ op' = op
  BY DEF Transition, Handling
<1>4. to # "ABSENT"
  BY DEF STATES, ACTIVE
<1> HIDE DEF row
<1>5. /\ OneOperation'
      /\ op'[Op].state # "ABSENT"
      /\ op'[Op].state = "READY_TO_PROMOTE" => BDeclaredValid
  <2>1. CASE op' = op
    BY <2>1 DEF CoordinatorsInv, OneOperation, PromotedWhenValid
  <2>2. CASE op' = [op EXCEPT ![Op] = row]
    BY <1>2, <1>4, <2>2, OpExists DEF CoordinatorsInv, OneOperation
  <2> QED
    BY <1>3, <2>1, <2>2
<1>6. Rows' = Rows /\ JournalMovesToB' /\ PointerAtAOrB'
  BY DEF CoordinatorsInv, JournalMovesToB, PointerAtAOrB, Rows
<1>7. (Rows # {} => BDeclaredValid) /\ (pointer.generation = B => BDeclaredValid)
  BY DEF CoordinatorsInv, PromotedWhenValid
<1>8. Idle.pc \notin ValidatedSteps
  BY DEF Idle, ValidatedSteps
<1>9. work' = [work EXCEPT ![c] = Idle]
  BY DEF Transition, Stop
<1> QED
  BY <1>5, <1>6, <1>7, <1>8, <1>9, CoordinatorKept

\* Every call of a handler that builds the candidate.
LEMMA BuildKeeps ==
    ASSUME CoordinatorsInv, NEW c \in Coordinators, BuildStep(c)
    PROVE  CoordinatorsInv'
<1> USE DEF PrepareSteps, RowSteps, ValidatedSteps, tableVars, evidenceVars
<1>1. CASE EnsureGeneration(c)
  BY <1>1, AtWorkOnOp, GoesOn DEF EnsureGeneration
<1>2. CASE AdvanceToCreating(c)
  BY <1>2, AtWorkOnOp, Transits DEF AdvanceToCreating, Advance, STATES, ACTIVE
<1>3. CASE CreateResources(c)
  BY <1>3, AtWorkOnOp, GoesOn DEF CreateResources
<1>4. CASE MarkLoading(c)
  BY <1>4, AtWorkOnOp, GoesOn, Returns DEF MarkLoading, SetGenerationState
<1>5. CASE AdvanceToLoading(c)
  BY <1>5, AtWorkOnOp, Transits DEF AdvanceToLoading, Advance, STATES, ACTIVE
<1>6. CASE ObserveSnapshot(c)
  <2>1. PICK pc \in {"snapshot:failed", "snapshot:wait", "snapshot:mark", "snapshot:loaded"} :
          Decide(c, pc)
    BY <1>6 DEF ObserveSnapshot
  <2> QED
    BY <1>6, <2>1, AtWorkOnOp, GoesOn DEF ObserveSnapshot, Decide
<1>7. CASE SnapshotFailed(c)
  BY <1>7, AtWorkOnOp, Transits DEF SnapshotFailed, Advance, STATES, ACTIVE
<1>8. CASE SnapshotAwaited(c)
  BY <1>8, AtWorkOnOp, Transits DEF SnapshotAwaited, Advance, STATES, ACTIVE
<1>9. CASE MarkCatchingUp(c)
  BY <1>9, AtWorkOnOp, GoesOn, Returns DEF MarkCatchingUp, SetGenerationState
<1>10. CASE AdvanceToCatchup(c)
  BY <1>10, AtWorkOnOp, Transits DEF AdvanceToCatchup, Advance, STATES, ACTIVE
<1>11. CASE ObserveCatchup(c)
  <2>1. PICK pc \in {"catchup:wait", "catchup:mark", "catchup:reached"} : Decide(c, pc)
    BY <1>11 DEF ObserveCatchup
  <2> QED
    BY <1>11, <2>1, AtWorkOnOp, GoesOn DEF ObserveCatchup, Decide
<1>12. CASE CatchupAwaited(c)
  BY <1>12, AtWorkOnOp, Transits DEF CatchupAwaited, Advance, STATES, ACTIVE
<1>13. CASE MarkValidating(c)
  BY <1>13, AtWorkOnOp, GoesOn, Returns DEF MarkValidating, SetGenerationState
<1>14. CASE AdvanceToValidating(c)
  BY <1>14, AtWorkOnOp, Transits DEF AdvanceToValidating, Advance, STATES, ACTIVE
<1>15. CASE ObserveValidation(c)
  <2>1. Candidate(c) = B /\ BDeclaredValid
    BY <1>15, AtWorkOnOp DEF ObserveValidation, Validated, BDeclaredValid
  <2> QED
    BY <1>15, <2>1, AtWorkOnOp, GoesOn DEF ObserveValidation, Decide
<1>16. CASE AdvanceToReady(c)
  <2>1. BDeclaredValid
    BY <1>16 DEF AdvanceToReady, At, CoordinatorsInv, PromotedWhenValid
  <2> QED
    BY <1>16, <2>1, AtWorkOnOp, Transits DEF AdvanceToReady, Advance, STATES, ACTIVE
<1> QED
  BY <1>1, <1>2, <1>3, <1>4, <1>5, <1>6, <1>7, <1>8, <1>9, <1>10, <1>11, <1>12, <1>13,
     <1>14, <1>15, <1>16 DEF BuildStep

\* The journal row a handler works on moves the pointer to B.
LEMMA RowOfB ==
    ASSUME CoordinatorsInv, NEW c \in Coordinators, NEW pc \in RowSteps, At(c, pc)
    PROVE  /\ Row(c) \in Rows /\ work[c].mem = <<Row(c)>>
           /\ journal[Row(c)] \in JournalRow
           /\ journal[Row(c)].to = B
           /\ BDeclaredValid
<1>1. Handling(work[c], Rows) /\ work[c].pc \in RowSteps
  BY AtWorkOnOp DEF RowSteps
<1>2. PICK j \in Rows : work[c].mem = <<j>>
  BY <1>1 DEF Handling
<1>3. Row(c) = j
  BY <1>2 DEF Row
<1> QED
  BY <1>2, <1>3, JournalElement DEF CoordinatorsInv, JournalMovesToB, PromotedWhenValid, Rows

\* What resuming a row leads to.
LEMMA ResumesRow ==
    ASSUME CoordinatorsInv, NEW c \in Coordinators, Handling(work[c], Rows),
           op[Op].state # "ABSENT", NEW j \in Rows, Resume(c, j),
           UNCHANGED <<op, journal, pointer, validation>>
    PROVE  CoordinatorsInv'
<1>1. journal[j].phase \in Phases
  BY JournalElement DEF CoordinatorsInv, JournalMovesToB, Rows, JournalRow
<1>2. StepAfter(journal[j].phase) \in RowSteps
  BY <1>1 DEF Phases, StepAfter, RowSteps
<1>3. /\ StepAfter(journal[j].phase) \notin PrepareSteps
      /\ StepAfter(journal[j].phase) \notin ValidatedSteps
  BY <1>2 DEF RowSteps, PrepareSteps, ValidatedSteps
<1> QED
  BY <1>3, GoesOn DEF Resume

\* A handler's step that rewrites a row of the journal, with the pointer or not.
LEMMA WritesRow ==
    ASSUME CoordinatorsInv, NEW c \in Coordinators, Handling(work[c], Rows),
           op[Op].state # "ABSENT", NEW j \in Rows, NEW row \in JournalRow,
           row.op = journal[j].op, row.to = B,
           journal' = [journal EXCEPT ![j] = row],
           NEW pc \in RowSteps, Goto(c, pc, <<j>>),
           pointer' = pointer \/ (pointer' \in Pointer /\ pointer'.generation = B),
           UNCHANGED <<op, validation>>
    PROVE  CoordinatorsInv'
<1> DEFINE w == [pc |-> pc, op |-> work[c].op, fence |-> work[c].fence, mem |-> <<j>>]
<1>1. BDeclaredValid
  BY DEF CoordinatorsInv, PromotedWhenValid
<1>2. /\ journal' \in Seq(JournalRow)
      /\ Rows' = Rows
      /\ \A i \in Rows : i # j => journal'[i] = journal[i]
      /\ journal'[j] = row
  BY JournalExcept DEF CoordinatorsInv, JournalMovesToB, Rows
<1>3. JournalMovesToB'
  BY <1>2 DEF CoordinatorsInv, JournalMovesToB
<1>4. PointerAtAOrB'
  BY DEF CoordinatorsInv, PointerAtAOrB
<1>5. OneOperation' /\ (op[Op].state # "ABSENT" => op'[Op].state # "ABSENT")
  BY DEF CoordinatorsInv, OneOperation
<1>6. Handling(w, Rows')
  BY <1>2 DEF Handling, RowSteps, PrepareSteps
<1>7. work' = [work EXCEPT ![c] = w]
  BY DEF Goto
<1> HIDE DEF w
<1> QED
  BY <1>1, <1>2, <1>3, <1>4, <1>5, <1>6, <1>7, CoordinatorKept

\* Every call of a handler that promotes the candidate.
LEMMA PromotionKeeps ==
    ASSUME CoordinatorsInv, NEW c \in Coordinators, PromotionStep(c), UNCHANGED evidenceVars
    PROVE  CoordinatorsInv'
<1> USE DEF tableVars, evidenceVars
<1>1. CASE ReadPointerToPrepare(c)
  <2>1. Handling(work[c], Rows) /\ op[Op].state # "ABSENT" /\ BDeclaredValid
    BY <1>1, AtWorkOnOp DEF ReadPointerToPrepare, At, ValidatedSteps, CoordinatorsInv, PromotedWhenValid
  <2>2. <<pointer.generation, pointer.version>> \in Generations \X Nat
    BY DEF CoordinatorsInv, PointerAtAOrB, Pointer
  <2>3. \/ Goto(c, "prepare:advance", <<>>)
        \/ Goto(c, "prepare:lookup", <<pointer.generation, pointer.version>>)
    BY <1>1 DEF ReadPointerToPrepare
  <2> QED
    BY <1>1, <2>1, <2>2, <2>3, GoesOn DEF ReadPointerToPrepare, PrepareSteps, RowSteps
<1>2. CASE LookupPromotion(c)
  <2>1. Handling(work[c], Rows) /\ op[Op].state # "ABSENT" /\ BDeclaredValid
    BY <1>2, AtWorkOnOp DEF LookupPromotion, At, ValidatedSteps, CoordinatorsInv, PromotedWhenValid
  <2>2. work[c].mem \in Generations \X Nat
    BY <1>2, <2>1 DEF LookupPromotion, At, Handling, PrepareSteps
  <2>3. Goto(c, "prepare:advance", <<>>) \/ Goto(c, "prepare:insert", work[c].mem)
    BY <1>2 DEF LookupPromotion
  <2> QED
    BY <1>2, <2>1, <2>2, <2>3, GoesOn DEF LookupPromotion, PrepareSteps, RowSteps
<1>3. CASE PreparePromotion(c)
  <2>1. /\ Handling(work[c], Rows) /\ op[Op].state # "ABSENT" /\ BDeclaredValid
        /\ Candidate(c) = B
    BY <1>3, AtWorkOnOp DEF PreparePromotion, At, ValidatedSteps, CoordinatorsInv, PromotedWhenValid
  <2>2. work[c].mem \in Generations \X Nat /\ work[c].op = Op
    BY <1>3, <2>1 DEF PreparePromotion, At, Handling, PrepareSteps
  <2> DEFINE row == [op |-> work[c].op, from |-> work[c].mem[1], to |-> Candidate(c),
                     expected |-> work[c].mem[2], phase |-> "PREPARING", resulting |-> 0]
             w == [pc |-> "prepare:advance", op |-> work[c].op, fence |-> work[c].fence, mem |-> <<>>]
  <2>3. row \in JournalRow /\ row.op = Op /\ row.to = B
    BY <2>1, <2>2, OpExists, QualificationAssumption DEF JournalRow, Phases
  <2>4. journal' = Append(journal, row) /\ work' = [work EXCEPT ![c] = w]
    BY <1>3 DEF PreparePromotion, Goto
  <2>5. w.pc \notin ValidatedSteps \cup PrepareSteps \cup RowSteps
    BY DEF ValidatedSteps, PrepareSteps, RowSteps
  <2>6. \A rows : Handling(w, rows)
    BY <2>2, <2>5 DEF Handling
  <2> HIDE DEF row, w
  <2>7. JournalMovesToB' /\ Rows \subseteq Rows'
    BY <2>3, <2>4, JournalAppend DEF CoordinatorsInv, JournalMovesToB, Rows
  <2>8. /\ OneOperation' /\ PointerAtAOrB'
        /\ UNCHANGED <<op, validation>>
    BY <1>3 DEF PreparePromotion, CoordinatorsInv, OneOperation, PointerAtAOrB
  <2> QED
    BY <2>1, <2>4, <2>5, <2>6, <2>7, <2>8, CoordinatorKept
<1>4. CASE AdvanceToPromoting(c)
  BY <1>4, AtWorkOnOp, Transits DEF AdvanceToPromoting, STATES, ACTIVE
<1>5. CASE LoadPromotion(c)
  <2>1. CASE JournalsOf(work[c].op) = {}
    BY <1>5, <2>1, Returns DEF LoadPromotion
  <2>2. CASE JournalsOf(work[c].op) # {}
    <3>1. PICK j \in Rows : Resume(c, j)
      BY <1>5, <2>2 DEF LoadPromotion, Newest, JournalsOf
    <3> QED
      BY <1>5, <3>1, AtWorkOnOp, ResumesRow DEF LoadPromotion
  <2> QED
    BY <2>1, <2>2
<1>6. CASE CasPointer(c)
  <2>0. Handling(work[c], Rows) /\ op[Op].state # "ABSENT"
    BY <1>6, AtWorkOnOp DEF CasPointer
  <2>1. PICK j \in Rows : j = Row(c) /\ journal[j] \in JournalRow /\ journal[j].to = B
    BY <1>6, RowOfB DEF CasPointer, RowSteps
  <2>2. CASE ~Cut(j) /\ PointerMatches(j)
    <3> DEFINE row == [journal[j] EXCEPT !.phase = "POINTER_UPDATED",
                                         !.resulting = pointer.version + 1]
    <3>1. pointer.version + 1 \in Nat /\ pointer.generation \in Generations
      BY DEF CoordinatorsInv, PointerAtAOrB, Pointer
    <3>2. row \in JournalRow /\ row.op = journal[j].op /\ row.to = B
      BY <2>1, <3>1 DEF JournalRow, Phases
    <3>3. /\ journal' = [journal EXCEPT ![j] = row]
          /\ pointer' = [generation |-> journal[j].to, previous |-> pointer.generation,
                         version |-> pointer.version + 1]
          /\ Goto(c, "promote:observe", <<j>>)
          /\ UNCHANGED <<op, validation>>
      BY <1>6, <2>1, <2>2 DEF CasPointer
    <3> HIDE DEF row
    <3>4. pointer' \in Pointer /\ pointer'.generation = B
      BY <2>1, <3>1, <3>3, QualificationAssumption DEF Pointer
    <3> QED
      BY <2>0, <3>2, <3>3, <3>4, WritesRow DEF RowSteps
  <2>3. CASE ~(~Cut(j) /\ PointerMatches(j))
    <3>1. /\ Resume(c, j) \/ Stop(c)
          /\ UNCHANGED <<op, journal, pointer, validation>>
      BY <1>6, <2>1, <2>3 DEF CasPointer
    <3> QED
      BY <2>0, <3>1, ResumesRow, Returns
  <2> QED
    BY <2>2, <2>3
<1>7. CASE ObserveRouters(c)
  <2>1. /\ Handling(work[c], Rows) /\ op[Op].state # "ABSENT"
        /\ Row(c) \in Rows /\ work[c].mem = <<Row(c)>>
    BY <1>7, AtWorkOnOp, RowOfB DEF ObserveRouters, RowSteps
  <2>2. Goto(c, "promote:mark", work[c].mem) \/ Stop(c)
    BY <1>7 DEF ObserveRouters
  <2> QED
    BY <1>7, <2>1, <2>2, GoesOn, Returns DEF ObserveRouters, PrepareSteps, ValidatedSteps
<1>8. CASE MarkRouterVerified(c)
  <2>0. Handling(work[c], Rows) /\ op[Op].state # "ABSENT"
    BY <1>8, AtWorkOnOp DEF MarkRouterVerified
  <2>1. PICK j \in Rows : j = Row(c) /\ journal[j] \in JournalRow /\ journal[j].to = B
    BY <1>8, RowOfB DEF MarkRouterVerified, RowSteps
  <2> DEFINE row == [journal[j] EXCEPT !.phase = "ROUTER_VERIFIED"]
  <2>2. row \in JournalRow /\ row.op = journal[j].op /\ row.to = B
    BY <2>1 DEF JournalRow, Phases
  <2>3. \/ /\ journal' = [journal EXCEPT ![j] = row]
           /\ Goto(c, "promote:finalize", <<j>>)
        \/ Stop(c) /\ journal' = journal
    BY <1>8, <2>1 DEF MarkRouterVerified
  <2> HIDE DEF row
  <2>4. UNCHANGED <<op, pointer, validation>>
    BY <1>8 DEF MarkRouterVerified
  <2> QED
    BY <2>0, <2>2, <2>3, <2>4, WritesRow, Returns DEF RowSteps
<1>9. CASE FinalizePromotion(c)
  <2>0. Handling(work[c], Rows) /\ op[Op].state # "ABSENT"
    BY <1>9, AtWorkOnOp DEF FinalizePromotion
  <2>1. PICK j \in Rows : j = Row(c) /\ journal[j] \in JournalRow /\ journal[j].to = B
    BY <1>9, RowOfB DEF FinalizePromotion, RowSteps
  <2> DEFINE row == [journal[j] EXCEPT !.phase = "GENERATION_FINALIZED"]
  <2>2. row \in JournalRow /\ row.op = journal[j].op /\ row.to = B
    BY <2>1 DEF JournalRow, Phases
  <2>3. \/ /\ journal' = [journal EXCEPT ![j] = row] \/ journal' = journal
           /\ Goto(c, "promote:advance", <<j>>)
        \/ Stop(c) /\ journal' = journal
    BY <1>9, <2>1 DEF FinalizePromotion
  <2> HIDE DEF row
  <2>4. UNCHANGED <<op, pointer, validation>>
    BY <1>9 DEF FinalizePromotion
  <2>5. "promote:advance" \in RowSteps \ (PrepareSteps \cup ValidatedSteps)
    BY DEF RowSteps, PrepareSteps, ValidatedSteps
  <2>6. CASE journal' = journal /\ Goto(c, "promote:advance", <<j>>)
    BY <2>0, <2>4, <2>5, <2>6, GoesOn
  <2> QED
    BY <2>0, <2>2, <2>3, <2>4, <2>5, <2>6, WritesRow, Returns
<1>10. CASE AdvanceToPromoted(c)
  BY <1>10, AtWorkOnOp, Transits DEF AdvanceToPromoted, STATES, ACTIVE
<1>11. CASE ReadPointerToProtect(c)
  <2>1. \/ Stop(c)
        \/ Goto(c, "protect:advance", <<>>)
        \/ Goto(c, "protect:retire", <<pointer.previous>>)
    BY <1>11 DEF ReadPointerToProtect
  <2> QED
    BY <1>11, <2>1, AtWorkOnOp, GoesOn, Returns
    DEF ReadPointerToProtect, PrepareSteps, RowSteps, ValidatedSteps
<1>12. CASE BeginRetirement(c)
  BY <1>12, AtWorkOnOp, GoesOn DEF BeginRetirement, PrepareSteps, RowSteps, ValidatedSteps
<1>13. CASE AdvanceToProtected(c)
  BY <1>13, AtWorkOnOp, Transits DEF AdvanceToProtected, STATES, ACTIVE
<1> QED
  BY <1>1, <1>2, <1>3, <1>4, <1>5, <1>6, <1>7, <1>8, <1>9, <1>10, <1>11, <1>12, <1>13
  DEF PromotionStep

\* A claim starts the handler of the state the operation is in.
LEMMA ClaimKeeps ==
    ASSUME CoordinatorsInv, NEW c \in Coordinators, BuildClaim(c)
    PROVE  CoordinatorsInv' /\ op'[Op].state = op[Op].state
<1>1. PICK o \in Claimable :
        /\ op' = [op EXCEPT ![o] = [@ EXCEPT !.owner = c, !.live = TRUE, !.fence = NextFence(o)]]
        /\ work' = [work EXCEPT ![c] = [pc |-> op[o].state, op |-> o,
                                        fence |-> NextFence(o), mem |-> <<>>]]
  BY DEF BuildClaim, ClaimNext
<1>2. o = Op /\ op[Op].state \in ACTIVE
  BY DEF Claimable, CoordinatorsInv, OneOperation, ACTIVE
<1> DEFINE w == [pc |-> op[o].state, op |-> o, fence |-> NextFence(o), mem |-> <<>>]
           row == [op[o] EXCEPT !.owner = c, !.live = TRUE, !.fence = NextFence(o)]
<1>3. op[Op] \in OpRow
  BY OpExists DEF CoordinatorsInv, OneOperation
<1>4. row \in OpRow /\ row.state = op[Op].state /\ row.candidate = op[Op].candidate
  <2>1. NextFence(o) \in Nat
    BY <1>2, <1>3 DEF OpRow, NextFence
  <2> QED
    BY <1>2, <1>3, <2>1 DEF OpRow
<1>5. \A rows : Handling(w, rows)
  BY <1>2 DEF Handling, ACTIVE, PrepareSteps, RowSteps
<1>6. w.pc \in ValidatedSteps => BDeclaredValid
  BY <1>2 DEF ACTIVE, ValidatedSteps, CoordinatorsInv, PromotedWhenValid
<1>7. op' = [op EXCEPT ![Op] = row] /\ work' = [work EXCEPT ![c] = w]
  BY <1>1, <1>2
<1> HIDE DEF w, row
<1>8. OneOperation' /\ op'[Op].state = op[Op].state
  BY <1>4, <1>7, OpExists DEF CoordinatorsInv, OneOperation
<1>9. /\ Rows' = Rows /\ JournalMovesToB' /\ PointerAtAOrB'
      /\ UNCHANGED <<journal, pointer, validation>>
  BY DEF BuildClaim, tableVars, evidenceVars, CoordinatorsInv, JournalMovesToB, PointerAtAOrB, Rows
<1>10. /\ op[Op].state = "READY_TO_PROMOTE" => BDeclaredValid
       /\ Rows # {} => BDeclaredValid
       /\ pointer.generation = B => BDeclaredValid
       /\ op[Op].state # "ABSENT"
  BY <1>2 DEF CoordinatorsInv, PromotedWhenValid, ACTIVE
<1> QED
  BY <1>5, <1>6, <1>7, <1>8, <1>9, <1>10, CoordinatorKept

\* So do crashes and leases that run out.
LEMMA StoreKeeps ==
    ASSUME CoordinatorsInv, BuildStoreStep
    PROVE  CoordinatorsInv' /\ op'[Op].state = op[Op].state
<1>1. UNCHANGED <<journal, pointer, validation>>
  BY DEF BuildStoreStep, tableVars, evidenceVars
<1>2. ASSUME NEW c \in Coordinators, Interrupt(c)
      PROVE  CoordinatorsInv' /\ op'[Op].state = op[Op].state
  BY <1>1, <1>2, Returns DEF Interrupt
<1>3. ASSUME NEW o \in Operations, LeaseRunsOut(o) \/ LeaseOutlived(o)
      PROVE  CoordinatorsInv' /\ op'[Op].state = op[Op].state
  <2>1. op' = [op EXCEPT ![o].live = FALSE] /\ work' = work
    BY <1>3 DEF LeaseRunsOut, LeaseOutlived
  <2> DEFINE row == [op[o] EXCEPT !.live = FALSE]
  <2>2. op[o] \in OpRow
    BY DEF CoordinatorsInv, OneOperation
  <2>3. row \in OpRow /\ row.state = op[o].state /\ row.candidate = op[o].candidate
    BY <2>2 DEF OpRow
  <2> HIDE DEF row
  <2>4. op' = [op EXCEPT ![o] = row]
    BY <2>1 DEF row
  <2>5. OneOperation' /\ op'[Op].state = op[Op].state
    BY <2>3, <2>4, OpExists DEF CoordinatorsInv, OneOperation
  <2>6. HandlersServeIt' /\ JournalMovesToB' /\ PointerAtAOrB' /\ Rows' = Rows
    BY <1>1, <2>1, <2>5 DEF CoordinatorsInv, HandlersServeIt, JournalMovesToB, PointerAtAOrB, Rows
  <2>7. PromotedWhenValid'
    BY <1>1, <2>1, <2>5, <2>6 DEF CoordinatorsInv, PromotedWhenValid, BDeclaredValid
  <2> QED
    BY <2>5, <2>6, <2>7 DEF CoordinatorsInv
<1> QED
  BY <1>2, <1>3 DEF BuildStoreStep

\* What the script's half reads of the rows the coordinators write.
CoordinatorsLeave ==
    /\ UNCHANGED <<target, sync, validation>>
    /\ op[Op].state = "ABSENT" => op'[Op].state = "ABSENT"
    /\ pointer'.generation = pointer.generation \/ pointer'.generation = B

\* A coordinator writes no evidence, and moves the pointer to B only.
LEMMA StepLeaves ==
    ASSUME CoordinatorsInv, NEW c \in Coordinators, CoordinatorStep(c)
    PROVE  CoordinatorsLeave
<1>1. work[c] # Idle
  BY DEF CoordinatorStep, BuildStep, PromotionStep, At, Idle,
     EnsureGeneration, AdvanceToCreating, CreateResources, MarkLoading, AdvanceToLoading,
     ObserveSnapshot, SnapshotFailed, SnapshotAwaited, MarkCatchingUp, AdvanceToCatchup,
     ObserveCatchup, CatchupAwaited, MarkValidating, AdvanceToValidating,
     ObserveValidation, AdvanceToReady,
     ReadPointerToPrepare, LookupPromotion, PreparePromotion, AdvanceToPromoting,
     LoadPromotion, CasPointer, ObserveRouters, MarkRouterVerified, FinalizePromotion,
     AdvanceToPromoted, ReadPointerToProtect, BeginRetirement, AdvanceToProtected
<1>2. op[Op].state # "ABSENT"
  BY <1>1 DEF CoordinatorsInv, HandlersServeIt
<1>3. UNCHANGED <<target, sync, validation>>
  BY DEF CoordinatorStep, BuildStep, evidenceVars,
     EnsureGeneration, AdvanceToCreating, CreateResources, MarkLoading, AdvanceToLoading,
     ObserveSnapshot, SnapshotFailed, SnapshotAwaited, MarkCatchingUp, AdvanceToCatchup,
     ObserveCatchup, CatchupAwaited, MarkValidating, AdvanceToValidating,
     ObserveValidation, AdvanceToReady, SetGenerationState, Advance, Decide
<1>4. CASE CasPointer(c)
  <2>1. journal[Row(c)].to = B
    BY <1>4, RowOfB DEF CasPointer, RowSteps
  <2> QED
    BY <1>2, <1>3, <1>4, <2>1 DEF CasPointer, CoordinatorsLeave
<1>5. CASE ~CasPointer(c)
  <2>1. pointer' = pointer
    BY <1>5 DEF CoordinatorStep, BuildStep, PromotionStep, evidenceVars, tableVars,
     EnsureGeneration, AdvanceToCreating, CreateResources, MarkLoading, AdvanceToLoading,
     ObserveSnapshot, SnapshotFailed, SnapshotAwaited, MarkCatchingUp, AdvanceToCatchup,
     ObserveCatchup, CatchupAwaited, MarkValidating, AdvanceToValidating,
     ObserveValidation, AdvanceToReady, SetGenerationState, Advance, Decide,
     ReadPointerToPrepare, LookupPromotion, PreparePromotion, AdvanceToPromoting,
     LoadPromotion, ObserveRouters, MarkRouterVerified, FinalizePromotion,
     AdvanceToPromoted, ReadPointerToProtect, BeginRetirement, AdvanceToProtected
  <2> QED
    BY <1>2, <1>3, <2>1 DEF CoordinatorsLeave
<1> QED
  BY <1>4, <1>5

\* One lemma for every step of the coordinators and their store.
LEMMA CoordinatorsKeep ==
    ASSUME CoordinatorsInv,
           \/ \E c \in Coordinators : CoordinatorStep(c) \/ BuildClaim(c)
           \/ BuildStoreStep
    PROVE  CoordinatorsInv' /\ CoordinatorsLeave
<1>1. ASSUME NEW c \in Coordinators, CoordinatorStep(c) PROVE CoordinatorsInv' /\ CoordinatorsLeave
  BY <1>1, BuildKeeps, PromotionKeeps, StepLeaves DEF CoordinatorStep
<1>2. ASSUME NEW c \in Coordinators, BuildClaim(c) PROVE CoordinatorsInv' /\ CoordinatorsLeave
  BY <1>2, ClaimKeeps DEF BuildClaim, tableVars, evidenceVars, CoordinatorsLeave
<1>3. CASE BuildStoreStep
  BY <1>3, StoreKeeps DEF BuildStoreStep, tableVars, evidenceVars, CoordinatorsLeave
<1> QED
  BY <1>1, <1>2, <1>3

-----------------------------------------------------------------------------
(***************************************************************************)
(* The steps around the script keep its half.                              *)
(***************************************************************************)

\* The coordinators.
LEMMA CoordinatorsKeepScript ==
    ASSUME ScriptInv, CoordinatorsInv', CoordinatorsLeave, UNCHANGED outside
    PROVE  ScriptInv'
<1> USE DEF CoordinatorsLeave, outside
<1>1. QualTypeOK'
  BY DEF ScriptInv, QualTypeOK
<1>2. DatasetsFollowHead'
  BY DEF ScriptInv, DatasetsFollowHead
<1>3. CursorIsTarget'
  BY DEF ScriptInv, CursorIsTarget
<1>4. EvidenceOfB'
  BY DEF ScriptInv, EvidenceOfB, BDeclaredValid
<1> QED
  BY <1>1, <1>2, <1>3, <1>4 DEF ScriptInv

\* Kubernetes starts no pod of B before its Deployment is there.
LEMMA PodKeepsScript ==
    ASSUME ScriptInv, NEW g \in Generations, PodFollows(g)
    PROVE  ScriptInv'
<1>1. UNCHANGED <<op, pointer, target, sync, validation, head, content, script>>
  BY DEF PodFollows, systemVars, storeVars, tableVars, evidenceVars
<1>2. worker' = [worker EXCEPT ![g].running = (worker[g].replicas = 1)]
  BY DEF PodFollows
<1>3. worker \in [Generations -> [replicas : {0, 1}, running : BOOLEAN]]
  BY DEF ScriptInv, QualTypeOK
<1>4. worker' \in [Generations -> [replicas : {0, 1}, running : BOOLEAN]]
  BY <1>2, <1>3
<1>5. worker[B] = Down => worker'[B] = Down
  <2>1. CASE g = B
    <3>1. ASSUME worker[B] = Down PROVE FALSE
      <4>1. worker[B].replicas = 0 /\ worker[B].running = FALSE
        BY <3>1 DEF Down
      <4>2. (worker[B].replicas = 1) = FALSE
        BY <4>1
      <4>3. worker[B].running # (worker[B].replicas = 1)
        BY <2>1 DEF PodFollows
      <4> QED
        BY <4>1, <4>2, <4>3, Zenon
    <3> QED
      BY <3>1
  <2>2. CASE g # B
    BY <1>2, <1>3, <2>2, QualificationAssumption
  <2> QED
    BY <2>1, <2>2
<1>6. QualTypeOK'
  BY <1>1, <1>4 DEF ScriptInv, QualTypeOK
<1>7. DatasetsFollowHead'
  BY <1>1 DEF ScriptInv, DatasetsFollowHead
<1>8. CursorIsTarget'
  BY <1>1 DEF ScriptInv, CursorIsTarget
<1>9. EvidenceOfB'
  BY <1>1, <1>5 DEF ScriptInv, EvidenceOfB, BDeclaredValid
<1> QED
  BY <1>6, <1>7, <1>8, <1>9 DEF ScriptInv

\* A worker that follows takes its dataset no further than the wiki, and none
\* back.
LEMMA WorkerFollowsTo ==
    ASSUME ScriptInv, NEW g \in Generations, WorkerFollows(g)
    PROVE  /\ sync'[g] = [sync[g] EXCEPT !.cursor = sync[g].cursor + 1]
           /\ sync[g].cursor + 1 \in Nat /\ sync[g].cursor + 1 <= head
           /\ content[g] \in Nat /\ content'[g] \in Nat
           /\ content[g] <= content'[g] /\ content'[g] <= head
           /\ sync[g].cursor + 1 <= content'[g]
           /\ content[g] = head => content'[g] = head
           /\ \A h \in Generations : h # g => sync'[h] = sync[h] /\ content'[h] = content[h]
<1> DEFINE n == sync[g].cursor + 1
<1>1. /\ sync' = [sync EXCEPT ![g].cursor = n]
      /\ content' = [content EXCEPT ![g] = IF content[g] < n THEN n ELSE content[g]]
      /\ sync[g].cursor < head
      /\ worker[g].running
  BY DEF WorkerFollows
<1>2. /\ sync \in [Generations -> SyncRow] /\ content \in [Generations -> Nat \cup {Partial}]
      /\ head \in Nat
  BY DEF ScriptInv, QualTypeOK
<1>3. content[g] # Partial
  BY <1>1 DEF ScriptInv, DatasetsFollowHead, EvidenceOfB, Down
<1>4. content[g] \in Nat /\ content[g] <= head
  BY <1>2, <1>3 DEF ScriptInv, DatasetsFollowHead
<1>5. sync[g].cursor \in Nat
  BY <1>2 DEF SyncRow
<1>6. n \in Nat /\ n <= head
  BY <1>1, <1>2, <1>5
<1> HIDE DEF n
<1>7. /\ sync'[g] = [sync[g] EXCEPT !.cursor = n]
      /\ content'[g] = IF content[g] < n THEN n ELSE content[g]
      /\ \A h \in Generations : h # g => sync'[h] = sync[h] /\ content'[h] = content[h]
  BY <1>1, <1>2
<1>8. /\ content'[g] \in Nat /\ content[g] <= content'[g] /\ content'[g] <= head
      /\ n <= content'[g]
      /\ content[g] = head => content'[g] = head
  BY <1>2, <1>4, <1>6, <1>7
<1> QED
  BY <1>4, <1>6, <1>7, <1>8 DEF n

LEMMA WorkerKeepsScript ==
    ASSUME ScriptInv, NEW g \in Generations, WorkerFollows(g)
    PROVE  ScriptInv'
<1>1. UNCHANGED <<op, pointer, target, validation, head, worker, script>>
  BY DEF WorkerFollows, storeVars, tableVars
<1>2. /\ sync'[g] = [sync[g] EXCEPT !.cursor = sync[g].cursor + 1]
      /\ sync[g].cursor + 1 \in Nat /\ sync[g].cursor + 1 <= head
      /\ content[g] \in Nat /\ content'[g] \in Nat
      /\ content'[g] <= head /\ sync[g].cursor + 1 <= content'[g]
      /\ content[g] = head => content'[g] = head
      /\ \A h \in Generations : h # g => sync'[h] = sync[h] /\ content'[h] = content[h]
  BY WorkerFollowsTo
<1>3. /\ sync \in [Generations -> SyncRow] /\ content \in [Generations -> Nat \cup {Partial}]
      /\ target \in [Operations -> Nat]
  BY DEF ScriptInv, QualTypeOK
<1>4. sync[g] \in SyncRow /\ sync[g].cursor \in Nat
  BY <1>3 DEF SyncRow
<1>5. /\ sync'[g] \in SyncRow
      /\ sync'[g].cursor = sync[g].cursor + 1 /\ sync'[g].state = sync[g].state
  BY <1>2, <1>4 DEF SyncRow
<1>6. /\ sync' = [sync EXCEPT ![g].cursor = sync[g].cursor + 1]
      /\ content' = [content EXCEPT ![g] = content'[g]]
      /\ worker[g].running
  BY <1>3 DEF WorkerFollows
<1>7. sync' \in [Generations -> SyncRow] /\ content' \in [Generations -> Nat \cup {Partial}]
  BY <1>2, <1>3, <1>5, <1>6
<1>8. QualTypeOK'
  BY <1>1, <1>7 DEF ScriptInv, QualTypeOK
<1>9. content'[g] # Partial
  BY <1>2, QualificationAssumption
<1>10. DatasetsFollowHead'
  <2> SUFFICES ASSUME NEW h \in Generations
               PROVE  /\ sync'[h].cursor <= head
                      /\ content'[h] # Partial => content'[h] <= head
                      /\ content'[h] = Partial => h = B
    BY <1>1 DEF DatasetsFollowHead
  <2>1. CASE h = g
    BY <1>2, <1>5, <1>9, <2>1
  <2>2. CASE h # g
    BY <1>2, <2>2 DEF ScriptInv, DatasetsFollowHead
  <2> QED
    BY <2>1, <2>2
<1>11. g = B => script.pc \notin Registering \cup Loading
  BY <1>6 DEF ScriptInv, EvidenceOfB, Down
<1>12. CursorIsTarget'
  <2>1. CASE g = B
    <3>1. script.pc \notin Registering \cup Loading
      BY <1>11, <2>1
    <3>2. sync[B].state # "NONE" => sync[B].cursor + 1 >= target[Op]
      BY <1>3, <1>4, <2>1, OpExists DEF ScriptInv, CursorIsTarget
    <3> QED
      BY <1>1, <1>5, <2>1, <3>1, <3>2 DEF ScriptInv, CursorIsTarget, Registering
  <2>2. CASE g # B
    <3>1. sync'[B] = sync[B]
      BY <1>2, <2>2, QualificationAssumption
    <3> QED
      BY <1>1, <3>1 DEF ScriptInv, CursorIsTarget
  <2> QED
    BY <2>1, <2>2
<1>13. EvidenceOfB'
  <2>1. CASE g = B
    BY <1>1, <1>2, <1>5, <1>9, <2>1 DEF ScriptInv, EvidenceOfB, BDeclaredValid
  <2>2. CASE g # B
    <3>1. sync'[B] = sync[B] /\ content'[B] = content[B]
      BY <1>2, <2>2, QualificationAssumption
    <3> QED
      BY <1>1, <3>1 DEF ScriptInv, EvidenceOfB, BDeclaredValid
  <2> QED
    BY <2>1, <2>2
<1> QED
  BY <1>8, <1>10, <1>12, <1>13 DEF ScriptInv

\* A gap is reported and moves nothing.
LEMMA GapKeepsScript ==
    ASSUME ScriptInv, NEW g \in Generations, WorkerMeetsGap(g)
    PROVE  ScriptInv'
<1>1. /\ UNCHANGED <<op, pointer, target, validation, head, content, worker, script>>
      /\ worker[g].running
      /\ sync' = [sync EXCEPT ![g].failed = TRUE, ![g].state = "STALE"]
  BY DEF WorkerMeetsGap, tableVars
<1>2. sync \in [Generations -> SyncRow]
  BY DEF ScriptInv, QualTypeOK
<1>3. /\ sync' \in [Generations -> SyncRow]
      /\ \A h \in Generations : sync'[h].cursor = sync[h].cursor
      /\ sync'[g].state = "STALE"
      /\ \A h \in Generations : h # g => sync'[h] = sync[h]
  BY <1>1, <1>2 DEF SyncRow
<1>4. QualTypeOK'
  BY <1>1, <1>3 DEF ScriptInv, QualTypeOK
<1>5. DatasetsFollowHead'
  BY <1>1, <1>3 DEF ScriptInv, DatasetsFollowHead
<1>6. g = B => sync[B].state # "NONE" /\ script.pc \notin Registering \cup Loading
  BY <1>1 DEF ScriptInv, EvidenceOfB, Down
<1>7. /\ sync'[B].cursor = sync[B].cursor
      /\ sync'[B].state # "NONE" <=> sync[B].state # "NONE"
  BY <1>3, <1>6, QualificationAssumption
<1>8. CursorIsTarget'
  BY <1>1, <1>7 DEF ScriptInv, CursorIsTarget
<1>9. EvidenceOfB'
  BY <1>1, <1>7 DEF ScriptInv, EvidenceOfB, BDeclaredValid
<1> QED
  BY <1>4, <1>5, <1>8, <1>9 DEF ScriptInv

-----------------------------------------------------------------------------
(***************************************************************************)
(* The script's steps keep its half.                                       *)
(***************************************************************************)

\* What a step of the script that only moves the script leaves to prove.
LEMMA ScriptMoves ==
    ASSUME ScriptInv, UNCHANGED <<op, pointer, target, sync, validation, head, content, worker>>,
           script' \in ScriptRow, CursorIsTarget', EvidenceOfB'
    PROVE  ScriptInv'
<1>1. QualTypeOK' /\ DatasetsFollowHead'
  BY DEF ScriptInv, QualTypeOK, DatasetsFollowHead
<1> QED
  BY <1>1 DEF ScriptInv

\* The record of the script after a step that only sets its pc.
LEMMA Proceeds ==
    ASSUME ScriptInv, NEW pc \in ScriptSteps, Proceed(pc)
    PROVE  /\ script' \in ScriptRow
           /\ script'.pc = pc /\ script'.cursor = script.cursor /\ script'.dump = script.dump
BY DEF ScriptInv, QualTypeOK, ScriptRow, Proceed

\* The script gives up, or is killed: it leaves the evidence as it is.
LEMMA GivesUp ==
    ASSUME ScriptInv, UNCHANGED <<op, pointer, target, sync, validation, head, content, worker>>,
           script' \in ScriptRow, script'.pc \in Leaving
    PROVE  ScriptInv'
<1> USE DEF Requesting, Registering, Loading, Deploying, Catching, Caught, Promoting,
            Following, Leaving
<1>1. CursorIsTarget'
  BY DEF ScriptInv, CursorIsTarget
<1>2. EvidenceOfB'
  BY DEF ScriptInv, EvidenceOfB, BDeclaredValid
<1> QED
  BY <1>1, <1>2, ScriptMoves

\* A failed check leads to the finally block.
LEMMA Fails ==
    ASSUME ScriptInv, UNCHANGED <<op, pointer, target, sync, validation, head, content, worker>>, Fail
    PROVE  ScriptInv'
<1>1. script' \in ScriptRow /\ script'.pc = "finally"
  BY DEF ScriptInv, QualTypeOK, ScriptRow, Fail, ScriptSteps, Leaving
<1> QED
  BY <1>1, GivesUp DEF Leaving

\* The steps of the script that write nothing but the script.
LEMMA QuietScriptKeeps ==
    ASSUME AbInv, UNCHANGED <<systemVars, head, content, worker>>,
           \/ RequireServingA \/ WaitForA \/ AwaitLoading \/ AwaitHealthy \/ Dump
           \/ EqualAfterLoad \/ AwaitBWorker \/ WaitForB \/ EqualAfterCatchup
           \/ StartSampler \/ Sample \/ SeeOld \/ AwaitPromotion \/ Verdict
           \/ WaitForBAgain \/ EqualAtTheEnd \/ TimesOut
    PROVE  ScriptInv'
<1>0. /\ ScriptInv
      /\ UNCHANGED <<op, pointer, target, sync, validation, head, content, worker>>
      /\ script \in ScriptRow /\ head \in Nat /\ pointer \in Pointer
  BY DEF AbInv, CoordinatorsInv, PointerAtAOrB, ScriptInv, QualTypeOK,
         systemVars, storeVars, tableVars, evidenceVars
<1> USE <1>0 DEF Requesting, Registering, Loading, Deploying, Catching, Caught, Promoting,
            Following, Leaving, ScriptSteps, On, Check
<1>1. CASE RequireServingA
  <2>1. CASE Proceed("old")
    <3>1. CursorIsTarget'
      BY <1>1, <2>1, Proceeds DEF RequireServingA, ScriptInv, CursorIsTarget
    <3>2. EvidenceOfB'
      BY <1>1, <2>1, Proceeds DEF RequireServingA, ScriptInv, EvidenceOfB, BDeclaredValid
    <3> QED
      BY <2>1, <3>1, <3>2, Proceeds, ScriptMoves
  <2> QED
    BY <1>1, <2>1, Fails DEF RequireServingA
<1>2. CASE WaitForA
  <2>1. script' = [script EXCEPT !.pc = "request", !.cursor = head] /\ script.pc = "syncA"
    BY <1>2 DEF WaitForA, Cursor
  <2>2. script' \in ScriptRow /\ script'.pc = "request" /\ script'.cursor = head
    BY <2>1 DEF ScriptRow
  <2>3. CursorIsTarget'
    BY <2>1, <2>2 DEF ScriptInv, CursorIsTarget
  <2>4. EvidenceOfB'
    BY <2>1, <2>2 DEF ScriptInv, EvidenceOfB, BDeclaredValid
  <2> QED
    BY <2>2, <2>3, <2>4, ScriptMoves
<1>3. CASE AwaitLoading
  <2>1. CASE Proceed("healthy")
    <3>1. CursorIsTarget'
      BY <1>3, <2>1, Proceeds DEF AwaitLoading, WaitOperation, ScriptInv, CursorIsTarget
    <3>2. EvidenceOfB'
      BY <1>3, <2>1, Proceeds DEF AwaitLoading, WaitOperation, ScriptInv, EvidenceOfB, BDeclaredValid
    <3> QED
      BY <2>1, <3>1, <3>2, Proceeds, ScriptMoves
  <2> QED
    BY <1>3, <2>1, Fails DEF AwaitLoading, WaitOperation
<1>4. CASE AwaitHealthy
  <2>1. CursorIsTarget'
    BY <1>4, Proceeds DEF AwaitHealthy, ScriptInv, CursorIsTarget
  <2>2. EvidenceOfB'
    BY <1>4, Proceeds DEF AwaitHealthy, ScriptInv, EvidenceOfB, BDeclaredValid
  <2> QED
    BY <1>4, <2>1, <2>2, Proceeds, ScriptMoves DEF AwaitHealthy
<1>5. CASE Dump
  <2>1. script' = [script EXCEPT !.pc = "register", !.dump = head] /\ script.pc = "dump"
    BY <1>5 DEF Dump, Dumped
  <2>2. /\ script' \in ScriptRow /\ script'.pc = "register" /\ script'.dump = head
        /\ script'.cursor = script.cursor
    BY <2>1 DEF ScriptRow
  <2>3. CursorIsTarget'
    BY <2>1, <2>2 DEF ScriptInv, CursorIsTarget
  <2>4. EvidenceOfB'
    BY <2>1, <2>2 DEF ScriptInv, EvidenceOfB, BDeclaredValid
  <2> QED
    BY <2>2, <2>3, <2>4, ScriptMoves
<1>6. CASE EqualAfterLoad
  <2>1. CASE Proceed("deploy")
    <3>1. CursorIsTarget'
      BY <1>6, <2>1, Proceeds DEF EqualAfterLoad, CheckEquality, ScriptInv, CursorIsTarget
    <3>2. EvidenceOfB'
      BY <1>6, <2>1, Proceeds DEF EqualAfterLoad, CheckEquality, ScriptInv, EvidenceOfB, BDeclaredValid
    <3> QED
      BY <2>1, <3>1, <3>2, Proceeds, ScriptMoves
  <2> QED
    BY <1>6, <2>1, Fails DEF EqualAfterLoad, CheckEquality
<1>7. CASE AwaitBWorker
  <2>1. CursorIsTarget'
    BY <1>7, Proceeds DEF AwaitBWorker, ScriptInv, CursorIsTarget
  <2>2. EvidenceOfB'
    BY <1>7, Proceeds DEF AwaitBWorker, ScriptInv, EvidenceOfB, BDeclaredValid
  <2> QED
    BY <1>7, <2>1, <2>2, Proceeds, ScriptMoves DEF AwaitBWorker
<1>8. CASE WaitForB
  <2>1. CASE Proceed("equalB")
    <3>1. CursorIsTarget'
      BY <1>8, <2>1, Proceeds DEF WaitForB, ScriptInv, CursorIsTarget
    <3>2. EvidenceOfB'
      BY <1>8, <2>1, Proceeds DEF WaitForB, ScriptInv, EvidenceOfB, BDeclaredValid
    <3> QED
      BY <2>1, <3>1, <3>2, Proceeds, ScriptMoves
  <2> QED
    BY <1>8, <2>1, Fails DEF WaitForB
<1>9. CASE EqualAfterCatchup
  <2>1. CASE content[B] = head /\ Proceed("sampler")
    <3>1. CursorIsTarget'
      BY <1>9, <2>1, Proceeds DEF EqualAfterCatchup, CheckEquality, ScriptInv, CursorIsTarget
    <3>2. EvidenceOfB'
      BY <1>9, <2>1, Proceeds DEF EqualAfterCatchup, CheckEquality, ScriptInv, EvidenceOfB, BDeclaredValid
    <3> QED
      BY <2>1, <3>1, <3>2, Proceeds, ScriptMoves
  <2> QED
    BY <1>9, <2>1, Fails DEF EqualAfterCatchup, CheckEquality, Dumped
<1>10. CASE StartSampler
  <2>1. script' = [script EXCEPT !.pc = "seeOld", !.before = pointer.version] /\ script.pc = "sampler"
    BY <1>10 DEF StartSampler
  <2>2. /\ script' \in ScriptRow /\ script'.pc = "seeOld" /\ script'.dump = script.dump
        /\ script'.cursor = script.cursor
    BY <2>1 DEF ScriptRow, Pointer
  <2>3. CursorIsTarget'
    BY <2>1, <2>2 DEF ScriptInv, CursorIsTarget
  <2>4. EvidenceOfB'
    BY <2>1, <2>2 DEF ScriptInv, EvidenceOfB, BDeclaredValid
  <2> QED
    BY <2>2, <2>3, <2>4, ScriptMoves
<1>11. CASE Sample
  <2>1. script' = [script EXCEPT !.seen = script.seen \cup {VisibilitySample}]
    BY <1>11 DEF Sample
  <2>2. VisibilitySample \in Samples
    BY DEF VisibilitySample, Samples
  <2>3. /\ script' \in ScriptRow /\ script'.pc = script.pc /\ script'.dump = script.dump
        /\ script'.cursor = script.cursor
    BY <2>1, <2>2 DEF ScriptRow
  <2>4. CursorIsTarget'
    BY <2>3 DEF ScriptInv, CursorIsTarget
  <2>5. EvidenceOfB'
    BY <2>3 DEF ScriptInv, EvidenceOfB, BDeclaredValid
  <2> QED
    BY <2>3, <2>4, <2>5, ScriptMoves
<1>12. CASE SeeOld
  <2>1. CursorIsTarget'
    BY <1>12, Proceeds DEF SeeOld, ScriptInv, CursorIsTarget
  <2>2. EvidenceOfB'
    BY <1>12, Proceeds DEF SeeOld, ScriptInv, EvidenceOfB, BDeclaredValid
  <2> QED
    BY <1>12, <2>1, <2>2, Proceeds, ScriptMoves DEF SeeOld
<1>13. CASE AwaitPromotion
  <2>1. CASE Proceed("verdict")
    <3>1. CursorIsTarget'
      BY <1>13, <2>1, Proceeds DEF AwaitPromotion, WaitOperation, ScriptInv, CursorIsTarget
    <3>2. EvidenceOfB'
      BY <1>13, <2>1, Proceeds DEF AwaitPromotion, WaitOperation, ScriptInv, EvidenceOfB, BDeclaredValid
    <3> QED
      BY <2>1, <3>1, <3>2, Proceeds, ScriptMoves
  <2> QED
    BY <1>13, <2>1, Fails DEF AwaitPromotion, WaitOperation
<1>14. CASE Verdict
  <2>1. CASE pointer.generation = B /\ Proceed("post")
    <3>1. CursorIsTarget'
      BY <1>14, <2>1, Proceeds DEF Verdict, ScriptInv, CursorIsTarget
    <3>2. EvidenceOfB'
      BY <1>14, <2>1, Proceeds DEF Verdict, ScriptInv, EvidenceOfB, BDeclaredValid
    <3> QED
      BY <2>1, <3>1, <3>2, Proceeds, ScriptMoves
  <2> QED
    BY <1>14, <2>1, Fails DEF Verdict
<1>15. CASE WaitForBAgain
  <2>1. CursorIsTarget'
    BY <1>15, Proceeds DEF WaitForBAgain, ScriptInv, CursorIsTarget
  <2>2. EvidenceOfB'
    BY <1>15, Proceeds DEF WaitForBAgain, ScriptInv, EvidenceOfB, BDeclaredValid
  <2> QED
    BY <1>15, <2>1, <2>2, Proceeds, ScriptMoves DEF WaitForBAgain
<1>16. CASE EqualAtTheEnd
  <2>1. CASE script' = [script EXCEPT !.pc = "finally", !.result = "qualified"]
    <3>1. script' \in ScriptRow /\ script'.pc = "finally"
      BY <2>1 DEF ScriptRow
    <3> QED
      BY <3>1, GivesUp
  <2> QED
    BY <1>16, <2>1, Fails DEF EqualAtTheEnd
<1>17. CASE TimesOut
  BY <1>17, Fails DEF TimesOut
<1> QED
  BY <1>1, <1>2, <1>3, <1>4, <1>5, <1>6, <1>7, <1>8, <1>9, <1>10, <1>11, <1>12, <1>13,
     <1>14, <1>15, <1>16, <1>17

\* An edit of the script moves the wiki on, and nothing else: after the verdict
\* on B there is none until the pointer is at B.
LEMMA EditKeeps ==
    ASSUME AbInv, UNCHANGED <<systemVars, content, worker>>,
           PostOldMarker \/ PostNewMarker \/ PostMore \/ PostAfterPromotion
    PROVE  ScriptInv'
<1>0. /\ ScriptInv /\ script \in ScriptRow /\ head \in Nat
      /\ UNCHANGED <<op, pointer, target, sync, validation, content, worker>>
  BY DEF AbInv, ScriptInv, QualTypeOK, systemVars, storeVars, tableVars, evidenceVars
<1>1. /\ head' = head + 1 /\ head + 1 \in Nat
      /\ script' \in ScriptRow /\ script'.cursor = script.cursor /\ script'.dump = script.dump
      /\ \/ script.pc = "old" /\ script'.pc = "syncA"
         \/ script.pc = "edit" /\ script'.pc = "more"
         \/ script.pc = "more" /\ script'.pc = "syncB"
         \/ script.pc = "post" /\ script'.pc = "syncPost"
  <2>0. /\ head' = head + 1 /\ head + 1 \in Nat
        /\ {"syncA", "more", "syncB", "syncPost"} \subseteq ScriptSteps
    BY <1>0 DEF PostOldMarker, PostNewMarker, PostMore, PostAfterPromotion, Edit,
       ScriptSteps, Registering, Requesting, Catching, Following
  <2>1. CASE PostOldMarker
    <3>1. /\ script.pc = "old"
          /\ script' = [script EXCEPT !.pc = "syncA", !.old = head + 1, !.mark = head + 1]
      BY <2>1 DEF PostOldMarker, On
    <3> QED
      BY <1>0, <2>0, <3>1 DEF ScriptRow
  <2>2. CASE PostNewMarker
    <3>1. script.pc = "edit" /\ script' = [script EXCEPT !.pc = "more", !.new = head + 1]
      BY <2>2 DEF PostNewMarker, On
    <3> QED
      BY <1>0, <2>0, <3>1 DEF ScriptRow
  <2>3. CASE PostMore
    <3>1. script.pc = "more" /\ script' = [script EXCEPT !.pc = "syncB", !.mark = head + 1]
      BY <2>3 DEF PostMore, On
    <3> QED
      BY <1>0, <2>0, <3>1 DEF ScriptRow
  <2>4. CASE PostAfterPromotion
    <3>1. script.pc = "post" /\ script' = [script EXCEPT !.pc = "syncPost", !.mark = head + 1]
      BY <2>4 DEF PostAfterPromotion, On
    <3> QED
      BY <1>0, <2>0, <3>1 DEF ScriptRow
  <2> QED
    BY <2>1, <2>2, <2>3, <2>4
<1> USE DEF Requesting, Registering, Loading, Deploying, Catching, Caught, Promoting,
            Following, Leaving
<1>2. QualTypeOK'
  BY <1>0, <1>1 DEF ScriptInv, QualTypeOK
<1>3. DatasetsFollowHead'
  <2>1. \A g \in Generations : sync[g].cursor \in Nat /\ (content[g] # Partial => content[g] \in Nat)
    BY <1>0 DEF ScriptInv, QualTypeOK, SyncRow
  <2> QED
    BY <1>0, <1>1, <2>1 DEF ScriptInv, DatasetsFollowHead
<1>4. CursorIsTarget'
  <2>1. script.cursor \in Nat
    BY <1>0 DEF ScriptRow
  <2> QED
    BY <1>0, <1>1, <2>1 DEF ScriptInv, CursorIsTarget
<1>5. EvidenceOfB'
  <2>1. UNCHANGED <<pointer, sync, validation, content, worker>>
    BY <1>0
  <2>2. BDeclaredValid => script.pc = "post"
    BY <1>0, <1>1 DEF ScriptInv, EvidenceOfB
  <2>3. script.pc = "post" => pointer.generation = B
    BY <1>0 DEF ScriptInv, EvidenceOfB
  <2> QED
    BY <1>0, <1>1, <2>1, <2>2, <2>3 DEF ScriptInv, EvidenceOfB, BDeclaredValid
<1> QED
  BY <1>2, <1>3, <1>4, <1>5 DEF ScriptInv

\* The script scales a Deployment; that of B only once B is loaded.
LEMMA ScalingKeeps ==
    ASSUME AbInv, UNCHANGED <<systemVars, head, content>>,
           DeployBWorker \/ StopAWorker \/ ScaledUp
    PROVE  ScriptInv'
<1>0. /\ ScriptInv /\ script \in ScriptRow
      /\ UNCHANGED <<op, pointer, target, sync, validation, head, content>>
      /\ worker \in [Generations -> [replicas : {0, 1}, running : BOOLEAN]]
  BY DEF AbInv, ScriptInv, QualTypeOK, systemVars, storeVars, tableVars, evidenceVars
<1>1. \/ worker' = [worker EXCEPT ![B].replicas = 1] /\ script.pc = "deploy"
      \/ worker' = [worker EXCEPT ![A].replicas = 0]
      \/ worker' = [worker EXCEPT ![A].replicas = 1]
  BY DEF DeployBWorker, StopAWorker, ScaledUp, On
<1>2. /\ script' \in ScriptRow /\ script'.cursor = script.cursor /\ script'.dump = script.dump
      /\ \/ script.pc = "deploy" /\ script'.pc = "available"
         \/ script.pc = "stopA" /\ script'.pc = "edit"
         \/ script.pc = "finally" /\ script'.pc = "ended"
  <2>1. {"available", "edit", "ended"} \subseteq ScriptSteps
    BY DEF ScriptSteps, Catching, Leaving
  <2>2. \/ script.pc = "deploy" /\ Proceed("available")
        \/ script.pc = "stopA" /\ Proceed("edit")
        \/ script.pc = "finally" /\ Proceed("ended")
    BY DEF DeployBWorker, StopAWorker, ScaledUp, On
  <2> QED
    BY <1>0, <2>1, <2>2, Proceeds
<1> USE DEF Requesting, Registering, Loading, Deploying, Catching, Caught, Promoting,
            Following, Leaving
<1>3. worker' \in [Generations -> [replicas : {0, 1}, running : BOOLEAN]]
  BY <1>0, <1>1
<1>4. B \notin validation.manifest => worker'[B] = worker[B]
  BY <1>0, <1>1, QualificationAssumption DEF ScriptInv, EvidenceOfB
<1>5. QualTypeOK' /\ DatasetsFollowHead'
  BY <1>0, <1>2, <1>3 DEF ScriptInv, QualTypeOK, DatasetsFollowHead
<1>6. CursorIsTarget'
  BY <1>0, <1>2 DEF ScriptInv, CursorIsTarget
<1>7. EvidenceOfB'
  BY <1>0, <1>2, <1>4 DEF ScriptInv, EvidenceOfB, BDeclaredValid
<1> QED
  BY <1>5, <1>6, <1>7 DEF ScriptInv

\* B is requested once, when no handler works yet.
LEMMA RequestKeeps ==
    ASSUME AbInv, RequestB
    PROVE  AbInv'
<1>0. /\ ScriptInv /\ CoordinatorsInv /\ script \in ScriptRow
      /\ UNCHANGED <<work, journal, pointer, sync, validation, head, content, worker>>
      /\ Request(Op, B, script.cursor) /\ Proceed("loading") /\ script.pc = "request"
  BY DEF AbInv, ScriptInv, QualTypeOK, RequestB, On, tableVars
<1> USE DEF Requesting, Registering, Loading, Deploying, Catching, Caught, Promoting,
            Following, Leaving, ScriptSteps
<1>1. op[Op].state = "ABSENT"
  BY <1>0 DEF ScriptInv, CursorIsTarget
<1>2. /\ op' = [op EXCEPT ![Op] = Unclaimed("REBUILD_REQUESTED", B)]
      /\ target' = [target EXCEPT ![Op] = script.cursor]
  BY <1>0, <1>1 DEF Request
<1>3. OneOperation' /\ op'[Op].state = "REBUILD_REQUESTED"
  BY <1>0, <1>2, OpExists, QualificationAssumption, StoreAssumption
  DEF CoordinatorsInv, OneOperation, OpRow, Unclaimed, STATES, ACTIVE
<1>4. HandlersServeIt'
  BY <1>0, <1>1, <1>3 DEF CoordinatorsInv, HandlersServeIt, Rows
<1>5. JournalMovesToB' /\ PointerAtAOrB' /\ PromotedWhenValid'
  BY <1>0, <1>3 DEF CoordinatorsInv, JournalMovesToB, PointerAtAOrB, PromotedWhenValid,
     BDeclaredValid, Rows
<1>6. CoordinatorsInv'
  BY <1>3, <1>4, <1>5 DEF CoordinatorsInv
<1>7. /\ script' \in ScriptRow /\ script'.pc = "loading" /\ script'.cursor = script.cursor
      /\ script'.dump = script.dump /\ script.cursor \in Nat
  BY <1>0, Proceeds DEF ScriptRow
<1>8. target' \in [Operations -> Nat] /\ target'[Op] = script.cursor
  BY <1>0, <1>2, <1>7, OpExists DEF ScriptInv, QualTypeOK
<1>9. QualTypeOK' /\ DatasetsFollowHead'
  BY <1>0, <1>7, <1>8 DEF ScriptInv, QualTypeOK, DatasetsFollowHead
<1>10. CursorIsTarget'
  BY <1>0, <1>7, <1>8 DEF ScriptInv, CursorIsTarget
<1>11. EvidenceOfB'
  BY <1>0, <1>7 DEF ScriptInv, EvidenceOfB, BDeclaredValid
<1> QED
  BY <1>6, <1>9, <1>10, <1>11 DEF AbInv, ScriptInv

\* B is registered at the operation's target, loaded and marked current.
LEMMA LoadKeeps ==
    ASSUME AbInv, RegisterSync \/ BeginLoad \/ EndLoad \/ MarkCurrent
    PROVE  AbInv'
<1>0. /\ ScriptInv /\ CoordinatorsInv /\ script \in ScriptRow
      /\ script.cursor \in Nat /\ script.dump \in Nat /\ head \in Nat
      /\ sync \in [Generations -> SyncRow] /\ content \in [Generations -> Nat \cup {Partial}]
      /\ target \in [Operations -> Nat]
      /\ validation \in [valid : SUBSET Generations, manifest : SUBSET Generations]
      /\ sync[B] \in SyncRow /\ sync[B].cursor \in Nat /\ B \in Generations
  BY QualificationAssumption DEF AbInv, ScriptInv, QualTypeOK, ScriptRow, SyncRow
<1> USE DEF Requesting, Registering, Loading, Deploying, Catching, Caught, Promoting,
            Following, Leaving, ScriptSteps, On
<1>1. /\ UNCHANGED <<op, work, journal, pointer, target, head, worker>>
      /\ validation'.valid = validation.valid
  BY <1>0 DEF RegisterSync, BeginLoad, EndLoad, MarkCurrent, systemVars, storeVars, tableVars, evidenceVars
<1>2. CoordinatorsInv'
  BY <1>0, <1>1 DEF CoordinatorsInv, OneOperation, HandlersServeIt, JournalMovesToB,
     PointerAtAOrB, PromotedWhenValid, BDeclaredValid, Rows
<1>3. CASE RegisterSync
  <2>1. /\ script' \in ScriptRow /\ script'.pc = "load" /\ script.pc = "register"
        /\ script'.cursor = script.cursor /\ script'.dump = script.dump
        /\ UNCHANGED <<validation, content>>
    BY <1>0, <1>3, Proceeds DEF RegisterSync
  <2> DEFINE row == [sync[B] EXCEPT !.cursor = script.cursor, !.state = "BOOTSTRAPPING"]
  <2>2. sync[B].state = "NONE"
    BY <1>0, <2>1 DEF ScriptInv, CursorIsTarget
  <2>3. row \in SyncRow /\ row.cursor = script.cursor /\ row.state = "BOOTSTRAPPING"
    BY <1>0 DEF SyncRow
  <2>4. sync' = [sync EXCEPT ![B] = row]
    BY <1>3, <2>2 DEF RegisterSync
  <2> HIDE DEF row
  <2>5. /\ sync' \in [Generations -> SyncRow] /\ sync'[B] = row
        /\ \A g \in Generations : g # B => sync'[g] = sync[g]
    BY <1>0, <2>3, <2>4
  <2>6. QualTypeOK'
    BY <1>0, <1>1, <2>1, <2>5 DEF ScriptInv, QualTypeOK
  <2>7. script.cursor <= head /\ target[Op] = script.cursor /\ B \notin validation.manifest
    BY <1>0, <2>1 DEF ScriptInv, CursorIsTarget, EvidenceOfB
  <2>8. DatasetsFollowHead'
    BY <1>0, <1>1, <2>1, <2>3, <2>5, <2>7 DEF ScriptInv, DatasetsFollowHead
  <2>9. CursorIsTarget'
    BY <1>0, <1>1, <2>1, <2>3, <2>5, <2>7 DEF ScriptInv, CursorIsTarget
  <2>10. EvidenceOfB'
    BY <1>0, <1>1, <2>1, <2>7 DEF ScriptInv, EvidenceOfB, BDeclaredValid
  <2> QED
    BY <1>2, <2>6, <2>8, <2>9, <2>10 DEF AbInv, ScriptInv
<1>4. CASE BeginLoad
  <2>1. /\ script' \in ScriptRow /\ script'.pc = "loaded" /\ script.pc = "load"
        /\ script'.cursor = script.cursor /\ script'.dump = script.dump
        /\ UNCHANGED <<validation, sync>>
        /\ content' = [content EXCEPT ![B] = Partial]
    BY <1>0, <1>4, Proceeds DEF BeginLoad, systemVars, evidenceVars
  <2>2. B \notin validation.manifest
    BY <1>0, <2>1 DEF ScriptInv, EvidenceOfB
  <2>3. /\ content' \in [Generations -> Nat \cup {Partial}]
        /\ content'[B] = Partial
        /\ \A g \in Generations : g # B => content'[g] = content[g]
    BY <1>0, <2>1
  <2>4. QualTypeOK'
    BY <1>0, <1>1, <2>1, <2>3 DEF ScriptInv, QualTypeOK
  <2>5. DatasetsFollowHead'
    BY <1>0, <1>1, <2>1, <2>3 DEF ScriptInv, DatasetsFollowHead
  <2>6. CursorIsTarget'
    BY <1>0, <1>1, <2>1 DEF ScriptInv, CursorIsTarget
  <2>7. EvidenceOfB'
    BY <1>0, <1>1, <2>1, <2>2 DEF ScriptInv, EvidenceOfB, BDeclaredValid
  <2> QED
    BY <1>2, <2>4, <2>5, <2>6, <2>7 DEF AbInv, ScriptInv
<1>5. CASE EndLoad
  <2>1. /\ script' \in ScriptRow /\ script'.pc = "current" /\ script.pc = "loaded"
        /\ script'.cursor = script.cursor /\ script'.dump = script.dump
        /\ content' = [content EXCEPT ![B] = script.dump]
        /\ sync' = [sync EXCEPT ![B].schema = "CURRENT"]
        /\ validation' = [validation EXCEPT !.manifest = validation.manifest \cup {B}]
    BY <1>0, <1>5, Proceeds DEF EndLoad
  <2>2. /\ script.cursor <= script.dump /\ script.dump <= head
        /\ sync[B].state # "NONE" /\ sync[B].cursor = script.cursor
    BY <1>0, <2>1 DEF ScriptInv, CursorIsTarget
  <2>3. /\ content' \in [Generations -> Nat \cup {Partial}]
        /\ content'[B] = script.dump
        /\ \A g \in Generations : g # B => content'[g] = content[g]
    BY <1>0, <2>1
  <2>4. /\ sync' \in [Generations -> SyncRow]
        /\ \A g \in Generations : sync'[g].cursor = sync[g].cursor /\ sync'[g].state = sync[g].state
    BY <1>0, <2>1 DEF SyncRow
  <2>5. /\ validation' \in [valid : SUBSET Generations, manifest : SUBSET Generations]
        /\ B \in validation'.manifest
    BY <1>0, <2>1
  <2>6. QualTypeOK'
    BY <1>0, <1>1, <2>1, <2>3, <2>4, <2>5 DEF ScriptInv, QualTypeOK
  <2>7. DatasetsFollowHead'
    BY <1>0, <1>1, <2>2, <2>3, <2>4, QualificationAssumption DEF ScriptInv, DatasetsFollowHead
  <2>8. CursorIsTarget'
    BY <1>0, <1>1, <2>1, <2>2, <2>4 DEF ScriptInv, CursorIsTarget
  <2>9. ~BDeclaredValid
    BY <1>0, <2>1 DEF ScriptInv, EvidenceOfB
  <2>10. EvidenceOfB'
    BY <1>0, <1>1, <2>1, <2>2, <2>3, <2>4, <2>5, <2>9, QualificationAssumption
    DEF EvidenceOfB, BDeclaredValid
  <2> QED
    BY <1>2, <2>6, <2>7, <2>8, <2>10 DEF AbInv, ScriptInv
<1>6. CASE MarkCurrent
  <2>1. /\ script' \in ScriptRow /\ script'.pc = "equal" /\ script.pc = "current"
        /\ script'.cursor = script.cursor /\ script'.dump = script.dump
        /\ UNCHANGED <<validation, content>>
        /\ sync' = [sync EXCEPT ![B].state = "CURRENT"]
    BY <1>0, <1>6, Proceeds DEF MarkCurrent
  <2>2. /\ sync' \in [Generations -> SyncRow]
        /\ \A g \in Generations : sync'[g].cursor = sync[g].cursor
        /\ sync'[B].state = "CURRENT"
    BY <1>0, <2>1 DEF SyncRow
  <2>3. sync[B].state # "NONE"
    BY <1>0, <2>1 DEF ScriptInv, EvidenceOfB
  <2>4. QualTypeOK' /\ DatasetsFollowHead'
    BY <1>0, <1>1, <2>1, <2>2 DEF ScriptInv, QualTypeOK, DatasetsFollowHead
  <2>5. CursorIsTarget'
    BY <1>0, <1>1, <2>1, <2>2, <2>3 DEF ScriptInv, CursorIsTarget
  <2>6. EvidenceOfB'
    BY <1>0, <1>1, <2>1, <2>2 DEF ScriptInv, EvidenceOfB, BDeclaredValid
  <2> QED
    BY <1>2, <2>4, <2>5, <2>6 DEF AbInv, ScriptInv
<1> QED
  BY <1>3, <1>4, <1>5, <1>6

\* The verdict on B comes when it holds what the wiki holds.
LEMMA DeclareReadyKeeps ==
    ASSUME AbInv, DeclareReady
    PROVE  AbInv'
<1>0. /\ ScriptInv /\ CoordinatorsInv /\ script \in ScriptRow
      /\ UNCHANGED <<op, work, journal, pointer, target, sync, head, content, worker>>
      /\ validation' = [validation EXCEPT !.valid = validation.valid \cup {B}]
      /\ validation \in [valid : SUBSET Generations, manifest : SUBSET Generations]
      /\ Proceed("promoted") /\ script.pc = "ready"
  BY DEF AbInv, ScriptInv, QualTypeOK, DeclareReady, On, storeVars
<1> USE DEF Requesting, Registering, Loading, Deploying, Catching, Caught, Promoting,
            Following, Leaving, ScriptSteps
<1>1. /\ validation' \in [valid : SUBSET Generations, manifest : SUBSET Generations]
      /\ validation'.manifest = validation.manifest /\ B \in validation'.valid
  BY <1>0, QualificationAssumption
<1>2. CoordinatorsInv'
  BY <1>0, <1>1 DEF CoordinatorsInv, OneOperation, HandlersServeIt, JournalMovesToB,
     PointerAtAOrB, PromotedWhenValid, BDeclaredValid, Rows
<1>3. /\ script' \in ScriptRow /\ script'.pc = "promoted"
      /\ script'.cursor = script.cursor /\ script'.dump = script.dump
  BY <1>0, Proceeds
<1>4. QualTypeOK' /\ DatasetsFollowHead'
  BY <1>0, <1>1, <1>3 DEF ScriptInv, QualTypeOK, DatasetsFollowHead
<1>5. CursorIsTarget'
  BY <1>0, <1>3 DEF ScriptInv, CursorIsTarget
<1>6. EvidenceOfB'
  BY <1>0, <1>1, <1>3 DEF ScriptInv, EvidenceOfB, BDeclaredValid
<1> QED
  BY <1>2, <1>4, <1>5, <1>6 DEF AbInv, ScriptInv

-----------------------------------------------------------------------------
(***************************************************************************)
(* The theorems.                                                           *)
(***************************************************************************)

\* The rebuild starts with nothing requested and A served.
LEMMA AbInitInv == AbInit => AbInv
<1> SUFFICES ASSUME AbInit PROVE AbInv
  OBVIOUS
<1> USE QualificationAssumption, StoreAssumption, OpExists DEF AbInit, BuildInit
<1>1. OneOperation
  BY DEF OneOperation, OpRow, Unclaimed
<1>2. HandlersServeIt
  BY DEF HandlersServeIt
<1>3. JournalMovesToB /\ Rows = {}
  BY EmptySeq DEF JournalMovesToB, Rows
<1>4. PointerAtAOrB /\ pointer.generation = A
  BY DEF PointerAtAOrB, Pointer
<1>5. PromotedWhenValid
  BY <1>3, <1>4 DEF PromotedWhenValid, Unclaimed, Idle, ValidatedSteps
<1>6. CoordinatorsInv
  BY <1>1, <1>2, <1>3, <1>4, <1>5 DEF CoordinatorsInv
<1>7. /\ \A g \in Generations : sync[g] \in SyncRow /\ sync[g].cursor = 0
      /\ sync[B] = Unsynced
  BY DEF SyncRow, Unsynced
<1>8. script \in ScriptRow /\ script.pc = "start" /\ script.cursor = 0
  BY DEF Fresh, ScriptRow, ScriptSteps, Registering, Requesting
<1>9. /\ worker \in [Generations -> [replicas : {0, 1}, running : BOOLEAN]]
      /\ worker[B] = Down
  BY DEF Down
<1>10. QualTypeOK
  BY <1>7, <1>8, <1>9 DEF QualTypeOK
<1>11. DatasetsFollowHead
  BY <1>7 DEF DatasetsFollowHead
<1>12. CursorIsTarget
  BY <1>7, <1>8 DEF CursorIsTarget, Unsynced, Unclaimed, Registering, Requesting, Loading
<1>13. EvidenceOfB
  BY <1>8, <1>9 DEF EvidenceOfB, BDeclaredValid, Registering, Requesting, Loading, Deploying,
     Catching, Caught, Promoting, Following
<1> QED
  BY <1>6, <1>10, <1>11, <1>12, <1>13 DEF AbInv, ScriptInv

\* Steps outside the script and the coordinators.
LEMMA AroundKeeps ==
    ASSUME AbInv,
           (\E g \in Generations : PodFollows(g) \/ WorkerFollows(g) \/ WorkerMeetsGap(g))
             \/ DeclareFailed(B)
    PROVE  AbInv'
<1>1. ASSUME NEW g \in Generations, PodFollows(g) PROVE AbInv'
  BY <1>1, PodKeepsScript, CoordinatorsIdle
  DEF AbInv, PodFollows, systemVars, storeVars, tableVars, evidenceVars
<1>2. ASSUME NEW g \in Generations, WorkerFollows(g) PROVE AbInv'
  BY <1>2, WorkerKeepsScript, CoordinatorsIdle DEF AbInv, WorkerFollows, storeVars, tableVars
<1>3. ASSUME NEW g \in Generations, WorkerMeetsGap(g) PROVE AbInv'
  BY <1>3, GapKeepsScript, CoordinatorsIdle DEF AbInv, WorkerMeetsGap, tableVars
<1>4. CASE DeclareFailed(B)
  <2>1. UNCHANGED <<op, work, journal, pointer, target, sync, validation, head, content, worker, script>>
    BY <1>4 DEF DeclareFailed, evidenceVars
  <2>2. CoordinatorsInv'
    BY <2>1, CoordinatorsIdle DEF AbInv
  <2> QED
    BY <2>1, <2>2 DEF AbInv, ScriptInv, QualTypeOK, DatasetsFollowHead, CursorIsTarget,
       EvidenceOfB, BDeclaredValid
<1> QED
  BY <1>1, <1>2, <1>3, <1>4

\* Steps of the script, the sampler's and its death included.
LEMMA ScriptKeeps ==
    ASSUME AbInv, ScriptStep \/ Sample \/ Killed
    PROVE  AbInv'
<1>1. CASE RequestB
  BY <1>1, RequestKeeps
<1>2. CASE RegisterSync \/ BeginLoad \/ EndLoad \/ MarkCurrent
  BY <1>2, LoadKeeps
<1>3. CASE DeclareReady
  BY <1>3, DeclareReadyKeeps
<1>4. CASE PostOldMarker \/ PostNewMarker \/ PostMore \/ PostAfterPromotion
  <2>1. UNCHANGED <<systemVars, content, worker>>
    BY <1>4 DEF PostOldMarker, PostNewMarker, PostMore, PostAfterPromotion
  <2> QED
    BY <1>4, <2>1, EditKeeps, CoordinatorsIdle
    DEF AbInv, systemVars, storeVars, tableVars, evidenceVars
<1>5. CASE DeployBWorker \/ StopAWorker \/ ScaledUp
  <2>1. UNCHANGED <<systemVars, head, content>>
    BY <1>5 DEF DeployBWorker, StopAWorker, ScaledUp
  <2> QED
    BY <1>5, <2>1, ScalingKeeps, CoordinatorsIdle
    DEF AbInv, systemVars, storeVars, tableVars, evidenceVars
<1>6. CASE Killed \/ PatchSwallowed
  <2>1. UNCHANGED <<op, work, journal, pointer, target, sync, validation, head, content, worker>>
    BY <1>6 DEF Killed, PatchSwallowed, tableVars, evidenceVars
  <2>2. script' \in ScriptRow /\ script'.pc \in {"killed", "abandoned"}
    BY <1>6, Proceeds DEF Killed, PatchSwallowed, AbInv, ScriptSteps, Leaving
  <2> QED
    BY <2>1, <2>2, GivesUp, CoordinatorsIdle DEF AbInv, Leaving
<1>7. CASE \/ RequireServingA \/ WaitForA \/ AwaitLoading \/ AwaitHealthy \/ Dump
           \/ EqualAfterLoad \/ AwaitBWorker \/ WaitForB \/ EqualAfterCatchup
           \/ StartSampler \/ Sample \/ SeeOld \/ AwaitPromotion \/ Verdict
           \/ WaitForBAgain \/ EqualAtTheEnd \/ TimesOut
  <2>1. UNCHANGED <<systemVars, head, content, worker>>
    BY <1>7 DEF RequireServingA, WaitForA, AwaitLoading, AwaitHealthy, Dump, EqualAfterLoad,
       AwaitBWorker, WaitForB, EqualAfterCatchup, StartSampler, Sample, SeeOld, AwaitPromotion,
       Verdict, WaitForBAgain, EqualAtTheEnd, TimesOut, WaitOperation, CheckEquality
  <2>2. ScriptInv'
    BY <1>7, <2>1, QuietScriptKeeps
  <2> QED
    BY <2>1, <2>2, CoordinatorsIdle DEF AbInv, systemVars, storeVars, tableVars, evidenceVars
<1> QED
  BY <1>1, <1>2, <1>3, <1>4, <1>5, <1>6, <1>7 DEF ScriptStep, Finally

LEMMA AbNextInv == AbInv /\ [AbNext]_abVars => AbInv'
<1> SUFFICES ASSUME AbInv, [AbNext]_abVars PROVE AbInv'
  OBVIOUS
<1>1. CASE /\ \/ \E c \in Coordinators : CoordinatorStep(c) \/ BuildClaim(c)
              \/ BuildStoreStep
           /\ UNCHANGED outside
  BY <1>1, CoordinatorsKeep, CoordinatorsKeepScript DEF AbInv
<1>2. CASE \/ \E g \in Generations : PodFollows(g) \/ WorkerFollows(g) \/ WorkerMeetsGap(g)
           \/ DeclareFailed(B)
  BY <1>2, AroundKeeps
<1>3. CASE ScriptStep \/ Sample \/ Killed
  BY <1>3, ScriptKeeps
<1>4. CASE UNCHANGED abVars
  BY <1>4, CoordinatorsIdle DEF AbInv, abVars, systemVars, storeVars, tableVars, evidenceVars,
     ScriptInv, QualTypeOK, DatasetsFollowHead, CursorIsTarget, EvidenceOfB, BDeclaredValid
<1> QED
  BY <1>1, <1>2, <1>3, <1>4 DEF AbNext

\* Every state of the rebuild keeps the correspondence between the script's step,
\* the coordinators' rows and the evidence for B.
THEOREM AbInvariant == AbSpec => []AbInv
BY AbInitInv, AbNextInv, PTL DEF AbSpec

\* A generation is only ever promoted when its cursor has reached the target of
\* its operation and its whole dataset was declared valid, whichever coordinator
\* went on with an expired claim (#observeCatchup, #observeValidation).
THEOREM PromotionNeedsEvidence == AbSpec => []PromotedOnceCaughtUp
<1>1. AbInv => PromotedOnceCaughtUp
  <2> SUFFICES ASSUME AbInv, NEW j \in Rows
               PROVE  /\ journal[j].to \in validation.valid \cap validation.manifest
                      /\ sync[journal[j].to].cursor >= target[journal[j].op]
                      /\ content[journal[j].to] # Partial
                      /\ content[journal[j].to] >= sync[journal[j].to].cursor
    BY DEF PromotedOnceCaughtUp
  <2>1. journal[j].to = B /\ journal[j].op = Op /\ BDeclaredValid
    BY DEF AbInv, CoordinatorsInv, JournalMovesToB, PromotedWhenValid
  <2>2. /\ B \in validation.manifest /\ sync[B].state # "NONE"
        /\ content[B] # Partial /\ content[B] >= sync[B].cursor
    BY <2>1 DEF AbInv, ScriptInv, EvidenceOfB
  <2>3. sync[B].cursor >= target[Op]
    BY <2>2 DEF AbInv, ScriptInv, CursorIsTarget
  <2> QED
    BY <2>1, <2>2, <2>3 DEF BDeclaredValid
<1> QED
  BY <1>1, AbInvariant, PTL

\* The generation queries read is never the one being loaded, and no dataset
\* in use ever goes back.
LEMMA VisibleGrows ==
    ASSUME AbInv, [AbNext]_abVars
    PROVE  LET g == pointer.generation
           IN  /\ content[g] \in Nat
               /\ content'[g] \in Nat /\ content[g] <= content'[g]
<1>0. /\ content \in [Generations -> Nat \cup {Partial}]
      /\ script \in ScriptRow /\ A \in Generations /\ B \in Generations
  BY QualificationAssumption DEF AbInv, ScriptInv, QualTypeOK
<1>1. PICK g \in {A, B} : g = pointer.generation
  BY DEF AbInv, CoordinatorsInv, PointerAtAOrB
<1>2. g = B => BDeclaredValid
  BY <1>1 DEF AbInv, CoordinatorsInv, PromotedWhenValid
<1>3. content[g] \in Nat
  <2>1. g = A => content[g] # Partial
    BY <1>0, QualificationAssumption DEF AbInv, ScriptInv, DatasetsFollowHead
  <2>2. g = B => content[g] # Partial
    BY <1>2 DEF AbInv, ScriptInv, EvidenceOfB
  <2> QED
    BY <1>0, <2>1, <2>2
<1>4. ASSUME content' = content
      PROVE  content'[g] \in Nat /\ content[g] <= content'[g]
  BY <1>3, <1>4
<1>5. ASSUME NEW h \in Generations, WorkerFollows(h)
      PROVE  content'[g] \in Nat /\ content[g] <= content'[g]
  <2>1. CASE h = g
    BY <1>5, <2>1, WorkerFollowsTo DEF AbInv
  <2>2. CASE h # g
    <3>1. content'[g] = content[g]
      BY <1>0, <1>5, <2>2, WorkerFollowsTo DEF AbInv
    <3> QED
      BY <1>3, <3>1
  <2> QED
    BY <2>1, <2>2
<1>6. ASSUME BeginLoad \/ EndLoad
      PROVE  content'[g] \in Nat /\ content[g] <= content'[g]
  <2>1. script.pc \in Loading
    BY <1>6 DEF BeginLoad, EndLoad, On, Loading
  <2>2. ~BDeclaredValid
    BY <2>1 DEF AbInv, ScriptInv, EvidenceOfB, Loading, Promoting, Following, Leaving
  <2>3. \E v : content' = [content EXCEPT ![B] = v]
    BY <1>6 DEF BeginLoad, EndLoad
  <2>4. content'[g] = content[g]
    BY <1>0, <1>2, <2>2, <2>3
  <2> QED
    BY <1>3, <2>4
<1>7. content' = content \/ (\E h \in Generations : WorkerFollows(h)) \/ BeginLoad \/ EndLoad
  <2>1. CASE UNCHANGED outside
    BY <2>1 DEF outside
  <2>2. CASE (\E h \in Generations : PodFollows(h) \/ WorkerMeetsGap(h)) \/ DeclareFailed(B)
    BY <2>2 DEF PodFollows, WorkerMeetsGap, DeclareFailed
  <2>3. CASE ScriptStep \/ Sample \/ Killed
    BY <2>3 DEF ScriptStep, Sample, Killed, RequireServingA, PostOldMarker, WaitForA, RequestB,
       AwaitLoading, AwaitHealthy, Dump, RegisterSync, MarkCurrent, EqualAfterLoad, DeployBWorker,
       AwaitBWorker, StopAWorker, PostNewMarker, PostMore, WaitForB, EqualAfterCatchup,
       StartSampler, SeeOld, DeclareReady, AwaitPromotion, Verdict, PostAfterPromotion,
       WaitForBAgain, EqualAtTheEnd, Finally, ScaledUp, PatchSwallowed, TimesOut, WaitOperation, CheckEquality
  <2>4. CASE UNCHANGED abVars
    BY <2>4 DEF abVars
  <2> QED
    BY <2>1, <2>2, <2>3, <2>4 DEF AbNext
<1>8. content'[g] \in Nat /\ content[g] <= content'[g]
  BY <1>4, <1>5, <1>6, <1>7
<1> QED
  BY <1>1, <1>3, <1>8

\* The pointer only ever leaves for B, which was declared valid before.
LEMMA PointerLeavesForB ==
    ASSUME AbInv, [AbNext]_abVars
    PROVE  \/ pointer'.generation = pointer.generation
           \/ /\ pointer'.generation = B
              /\ content' = content
              /\ validation' = validation
<1>1. CASE /\ \/ \E c \in Coordinators : CoordinatorStep(c) \/ BuildClaim(c)
              \/ BuildStoreStep
           /\ UNCHANGED outside
  BY <1>1, CoordinatorsKeep DEF AbInv, CoordinatorsLeave, outside
<1>2. CASE \/ \E g \in Generations : PodFollows(g) \/ WorkerFollows(g) \/ WorkerMeetsGap(g)
           \/ DeclareFailed(B)
  BY <1>2 DEF PodFollows, WorkerFollows, WorkerMeetsGap, DeclareFailed, systemVars, tableVars
<1>3. CASE ScriptStep \/ Sample \/ Killed
  BY <1>3 DEF ScriptStep, Sample, Killed, RequireServingA, PostOldMarker, WaitForA, RequestB,
     AwaitLoading, AwaitHealthy, Dump, RegisterSync, BeginLoad, EndLoad, MarkCurrent,
     EqualAfterLoad, DeployBWorker,
     AwaitBWorker, StopAWorker, PostNewMarker, PostMore, WaitForB, EqualAfterCatchup,
     StartSampler, SeeOld, DeclareReady, AwaitPromotion, Verdict, PostAfterPromotion,
     WaitForBAgain, EqualAtTheEnd, Finally, ScaledUp, PatchSwallowed, TimesOut, WaitOperation, CheckEquality,
     systemVars, tableVars
<1>4. CASE UNCHANGED abVars
  BY <1>4 DEF abVars, systemVars, tableVars
<1> QED
  BY <1>1, <1>2, <1>3, <1>4 DEF AbNext

\* What queries see is always a whole dataset and never an older one, through
\* load, catch-up and cutover (the samples of jwb-m10b-virtuoso-b.mjs).
THEOREM QueriesAdvance == AbSpec => QueriesNeverGoBack
<1>1. ASSUME AbInv, AbInv', [AbNext]_abVars
      PROVE  Visible' # Partial /\ Visible' >= Visible
  <2>1. PICK v \in Nat, w \in Nat :
          /\ v = content[pointer.generation] /\ w = content'[pointer.generation]
          /\ v <= w
    BY <1>1, VisibleGrows
  <2>2. CASE pointer'.generation = pointer.generation
    <3>1. Visible = v /\ Visible' = w
      BY <2>1, <2>2 DEF Visible
    <3> QED
      BY <2>1, <3>1, QualificationAssumption
  <2>3. CASE pointer'.generation # pointer.generation
    <3>1. /\ pointer'.generation = B /\ content' = content /\ validation' = validation
          /\ pointer.generation = A
      BY <1>1, <2>3, PointerLeavesForB DEF AbInv, CoordinatorsInv, PointerAtAOrB
    <3>2. BDeclaredValid
      <4>1. BDeclaredValid'
        BY <1>1, <3>1 DEF AbInv, CoordinatorsInv, PromotedWhenValid
      <4> QED
        BY <3>1, <4>1 DEF BDeclaredValid
    <3>3. content[B] = head /\ head \in Nat
      BY <1>1, <3>1, <3>2, QualificationAssumption
      DEF AbInv, ScriptInv, EvidenceOfB, QualTypeOK
    <3>4. v <= head
      BY <1>1, <2>1, <3>1, QualificationAssumption DEF AbInv, ScriptInv, DatasetsFollowHead
    <3>5. Visible = v /\ Visible' = head
      BY <2>1, <3>1, <3>3 DEF Visible
    <3> QED
      BY <2>1, <3>3, <3>4, <3>5, QualificationAssumption
  <2> QED
    BY <2>2, <2>3
<1>2. AbInv /\ AbInv' /\ [AbNext]_abVars => [Visible' # Partial /\ Visible' >= Visible]_abVars
  BY <1>1
<1> QED
  BY <1>2, AbInvariant, PTL DEF QueriesNeverGoBack, AbSpec
=============================================================================
