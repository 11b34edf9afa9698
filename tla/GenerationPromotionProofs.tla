--------------------- MODULE GenerationPromotionProofs ---------------------
(***************************************************************************)
(* Theorems about GenerationPromotion for any number of coordinators,      *)
(* operations and generations, and any number of faults: its fences and    *)
(* journal, the registry's agreement with the pointer, and that it         *)
(* implements ServingCutover.                                              *)
(***************************************************************************)
EXTENDS PromotionRefinement, SequenceTheorems, TLAPS

-----------------------------------------------------------------------------
(***************************************************************************)
(* Facts about the helpers.                                                *)
(***************************************************************************)

\* Appending a journal row keeps the rows before it.
LEMMA JournalAppend ==
    ASSUME NEW q \in Seq(JournalRow), NEW row \in JournalRow
    PROVE  /\ Append(q, row) \in Seq(JournalRow)
           /\ DOMAIN Append(q, row) = DOMAIN q \cup {Len(q) + 1}
           /\ \A i \in DOMAIN q : Append(q, row)[i] = q[i]
           /\ Append(q, row)[Len(q) + 1] = row
           /\ Len(q) + 1 \notin DOMAIN q
<1>1. Len(q) \in Nat /\ DOMAIN q = 1 .. Len(q)
  BY LenProperties
<1>2. /\ Append(q, row) \in Seq(JournalRow)
      /\ Len(Append(q, row)) = Len(q) + 1
      /\ \A i \in 1 .. Len(q) : Append(q, row)[i] = q[i]
      /\ Append(q, row)[Len(q) + 1] = row
  BY AppendProperties
<1>3. DOMAIN Append(q, row) = 1 .. Len(q) + 1
  BY <1>2, LenProperties
<1> QED
  BY <1>1, <1>2, <1>3

\* Replacing a journal row keeps the others.
LEMMA JournalExcept ==
    ASSUME NEW q \in Seq(JournalRow), NEW j \in DOMAIN q, NEW row \in JournalRow
    PROVE  /\ [q EXCEPT ![j] = row] \in Seq(JournalRow)
           /\ DOMAIN [q EXCEPT ![j] = row] = DOMAIN q
<1>1. q \in [1 .. Len(q) -> JournalRow] /\ Len(q) \in Nat /\ DOMAIN q = 1 .. Len(q)
  BY LenProperties
<1>2. [q EXCEPT ![j] = row] \in [1 .. Len(q) -> JournalRow]
  BY <1>1
<1> QED
  BY <1>1, <1>2, SeqDef

\* A journal row is a row.
LEMMA JournalElement ==
    ASSUME NEW q \in Seq(JournalRow), NEW j \in DOMAIN q
    PROVE  q[j] \in JournalRow /\ j \in Nat
BY LenProperties, ElementOfSeq

-----------------------------------------------------------------------------
(***************************************************************************)
(* Type correctness.                                                       *)
(***************************************************************************)

\* The initial rows and coordinators are well typed.
LEMMA InitTypeOK == PromotionInit => TypeOK
<1> SUFFICES ASSUME PromotionInit PROVE TypeOK
  OBVIOUS
<1> USE StoreAssumption, PromotionAssumption
<1>1. op \in [Operations -> Operation] /\ \A o \in Operations : op[o].state \in PromotionStates
  BY DEF PromotionInit, Unclaimed, Operation, PromotionStates, STATES, ACTIVE
<1>2. DOMAIN work = Coordinators /\ \A c \in Coordinators : work[c] = Idle
  BY DEF PromotionInit
<1>3. generation \in [Generations -> GenerationRow]
  BY DEF PromotionInit, GenerationRow, GenerationStates, Protections
<1>4. journal \in Seq(JournalRow)
  BY EmptySeq DEF PromotionInit
<1>5. pointer \in Pointer
  BY DEF PromotionInit, Pointer
<1>6. retirement \in [Generations -> RetirementRow \cup {None}] /\ faults \in Nat
  BY DEF PromotionInit
<1> QED
  BY <1>1, <1>2, <1>3, <1>4, <1>5, <1>6 DEF TypeOK

\* What a step of coordinator c leaves to prove: its own entry of work, and
\* the rows it wrote.
LEMMA StepTypeOK ==
    ASSUME TypeOK, NEW c \in Coordinators, NEW w,
           work' = [work EXCEPT ![c] = w],
           Rows \subseteq Rows',
           w = Idle \/ Working(w, Rows'),
           op' \in [Operations -> Operation],
           \A o \in Operations : op'[o].state \in PromotionStates,
           faults' \in Nat,
           generation' \in [Generations -> GenerationRow],
           journal' \in Seq(JournalRow),
           pointer' \in Pointer,
           retirement' \in [Generations -> RetirementRow \cup {None}]
    PROVE  TypeOK'
<1>1. DOMAIN work' = Coordinators /\ work'[c] = w
  BY DEF TypeOK
<1>2. ASSUME NEW d \in Coordinators PROVE work'[d] = Idle \/ Working(work'[d], Rows')
  <2>1. CASE d = c
    BY <1>1, <2>1
  <2>2. CASE d # c
    <3>1. work'[d] = work[d]
      BY <2>2 DEF TypeOK
    <3>2. CASE work[d] = Idle
      BY <3>1, <3>2
    <3>3. CASE Working(work[d], Rows)
      BY <3>1, <3>3 DEF Working, Remembers
    <3> QED
      BY <3>2, <3>3 DEF TypeOK
  <2> QED
    BY <2>1, <2>2
<1> QED
  BY <1>1, <1>2 DEF TypeOK

\* A handler is working on an operation whenever it is not idle.
LEMMA AtWork ==
    ASSUME TypeOK, NEW c \in Coordinators, NEW pc, At(c, pc), pc # "idle"
    PROVE  Working(work[c], Rows) /\ Remembers(pc, work[c].mem, Rows)
BY DEF TypeOK, At, Idle, Working

\* A handler that goes on remembers what its next call needs.
LEMMA GotoTypeOK ==
    ASSUME TypeOK, NEW c \in Coordinators, Working(work[c], Rows),
           NEW pc, NEW mem, Goto(c, pc, mem), Remembers(pc, mem, Rows'),
           Rows \subseteq Rows',
           op' = op, faults' = faults,
           generation' \in [Generations -> GenerationRow],
           journal' \in Seq(JournalRow),
           pointer' \in Pointer,
           retirement' \in [Generations -> RetirementRow \cup {None}]
    PROVE  TypeOK'
<1> DEFINE w == [pc |-> pc, op |-> work[c].op, fence |-> work[c].fence, mem |-> mem]
<1>2. Working(w, Rows')
  BY DEF Working
<1>3. work' = [work EXCEPT ![c] = w]
  BY DEF Goto
<1> HIDE DEF w
<1> QED
  BY <1>2, <1>3, StepTypeOK DEF TypeOK

\* A handler's step that only reads the tables.
LEMMA ReadingStepTypeOK ==
    ASSUME TypeOK, NEW c \in Coordinators, Working(work[c], Rows),
           NEW pc, NEW mem, Goto(c, pc, mem), Remembers(pc, mem, Rows),
           UNCHANGED <<op, faults, tableVars>>
    PROVE  TypeOK'
<1>1. Rows' = Rows
  BY DEF tableVars, Rows
<1> QED
  BY <1>1, GotoTypeOK DEF TypeOK, tableVars

\* A handler that returns or throws.
LEMMA StopTypeOK ==
    ASSUME TypeOK, NEW c \in Coordinators, Stop(c), UNCHANGED <<op, faults, tableVars>>
    PROVE  TypeOK'
BY StepTypeOK DEF Stop, TypeOK, tableVars, Rows

\* A transition ends the handler and writes at most the operation's state.
LEMMA TransitionTypeOK ==
    ASSUME TypeOK, NEW c \in Coordinators, work[c].op \in Operations,
           NEW from, NEW to \in PromotionStates,
           Transition(c, from, to), UNCHANGED tableVars
    PROVE  TypeOK'
<1> DEFINE row == [op[work[c].op] EXCEPT !.state = to, !.owner = None, !.live = FALSE]
<1>1. row \in Operation /\ row.state = to
  <2>1. op[work[c].op] \in Operation /\ to \in STATES
    BY DEF TypeOK, PromotionStates, STATES, ACTIVE
  <2> QED
    BY <2>1 DEF Operation
<1>2. op' = [op EXCEPT ![work[c].op] = row] \/ op' = op
  BY DEF Transition
<1> HIDE DEF row
<1>3. /\ op' \in [Operations -> Operation]
      /\ \A o \in Operations : op'[o].state \in PromotionStates
  BY <1>1, <1>2 DEF TypeOK
<1> QED
  BY <1>3, StepTypeOK DEF Transition, Stop, TypeOK, tableVars, Rows

\* Claiming, lease expiry and interruption keep every row well typed.
LEMMA StoreTypeOK ==
    ASSUME TypeOK, StoreStep, UNCHANGED tableVars
    PROVE  TypeOK'
<1>1. ASSUME NEW c \in Coordinators, ClaimNext(c) PROVE TypeOK'
  <2>1. PICK o \in Claimable :
          /\ op' = [op EXCEPT ![o] = [@ EXCEPT !.owner = c, !.live = TRUE,
                                                !.fence = NextFence(o)]]
          /\ work' = [work EXCEPT ![c] = [pc |-> op[o].state, op |-> o,
                                          fence |-> NextFence(o), mem |-> <<>>]]
    BY <1>1 DEF ClaimNext
  <2> DEFINE w == [pc |-> op[o].state, op |-> o, fence |-> NextFence(o), mem |-> <<>>]
  <2>2. /\ o \in Operations
        /\ op[o].state \in PlainSteps
        /\ NextFence(o) \in Nat
    BY StoreAssumption DEF Claimable, TypeOK, PromotionStates, PlainSteps, ACTIVE, NextFence, Operation
  <2>3. Working(w, Rows)
    BY <2>2 DEF Working, Remembers, PlainSteps
  <2>4. /\ op' \in [Operations -> Operation]
        /\ \A p \in Operations : op'[p].state \in PromotionStates
    <3> DEFINE row == [op[o] EXCEPT !.owner = c, !.live = TRUE, !.fence = NextFence(o)]
    <3>1. op[o] \in Operation /\ op[o].state \in PromotionStates
      BY <2>2 DEF TypeOK
    <3>2. row \in Operation /\ row.state = op[o].state
      BY <2>2, <3>1 DEF Operation
    <3> HIDE DEF row
    <3>3. op' = [op EXCEPT ![o] = row]
      BY <2>1 DEF row
    <3> QED
      BY <2>2, <3>1, <3>2, <3>3 DEF TypeOK
  <2>5. faults' \in Nat /\ Rows' = Rows
    BY <1>1 DEF ClaimNext, TypeOK, tableVars, Rows
  <2> HIDE DEF w
  <2>6. work' = [work EXCEPT ![c] = w]
    BY <2>1 DEF w
  <2> QED
    BY <2>3, <2>4, <2>5, <2>6, StepTypeOK DEF TypeOK, tableVars
<1>2. ASSUME NEW c \in Coordinators, Interrupt(c) PROVE TypeOK'
  <2>1. faults' \in Nat
    BY <1>2 DEF Interrupt, TypeOK
  <2> QED
    BY <1>2, <2>1, StepTypeOK DEF Interrupt, Stop, TypeOK, tableVars, Rows
<1>3. ASSUME NEW o \in Operations, LeaseRunsOut(o) \/ LeaseOutlived(o) PROVE TypeOK'
  <2>1. /\ op' = [op EXCEPT ![o].live = FALSE]
        /\ work' = work
        /\ faults' \in Nat
    BY <1>3 DEF LeaseRunsOut, LeaseOutlived, TypeOK
  <2>2. /\ op' \in [Operations -> Operation]
        /\ \A p \in Operations : op'[p].state \in PromotionStates
    BY <2>1 DEF TypeOK, Operation
  <2> QED
    BY <2>1, <2>2 DEF TypeOK, tableVars, Rows
<1> QED
  BY <1>1, <1>2, <1>3 DEF StoreStep

\* The journal row a coordinator works on exists.
LEMMA WorkingRow ==
    ASSUME TypeOK, NEW c \in Coordinators, NEW pc \in RowSteps, At(c, pc)
    PROVE  Row(c) \in Rows /\ work[c].mem = <<Row(c)>> /\ journal[Row(c)] \in JournalRow
<1>1. \E j \in Rows : work[c].mem = <<j>>
  BY AtWork DEF Remembers, RowSteps, PrepareSteps, PlainSteps
<1> QED
  BY <1>1, JournalElement DEF Row, Rows, TypeOK

\* The row StepAfter resumes is remembered.
LEMMA ResumeRemembers ==
    ASSUME NEW phase \in Phases, NEW rows, NEW j \in rows
    PROVE  Remembers(StepAfter(phase), <<j>>, rows)
BY DEF Phases, StepAfter, Remembers, RowSteps

\* Rotation keeps the registry well typed.
LEMMA RotatedRowType ==
    ASSUME TypeOK, NEW g \in Generations, NEW j
    PROVE  RotatedRow(g, j) \in GenerationRow
<1> DEFINE row == generation[g]
           released == row.protection \in {"SERVING", "ROLLBACK"}
           base == [row EXCEPT !.protection = IF released THEN "NONE" ELSE @,
                               !.version = IF released THEN @ + 1 ELSE @]
<1>1. base \in GenerationRow
  <2>1. row \in GenerationRow /\ row.version + 1 \in Nat
    BY DEF TypeOK, GenerationRow
  <2> HIDE DEF row
  <2>2. CASE released
    BY <2>1, <2>2 DEF GenerationRow, Protections
  <2>3. CASE ~released
    BY <2>1, <2>3 DEF GenerationRow, Protections
  <2> QED
    BY <2>2, <2>3
<1> HIDE DEF base
<1>2. RotatedRow(g, j) =
        IF g = journal[j].from
        THEN [state |-> "RETIRING", protection |-> "ROLLBACK", version |-> base.version + 1]
        ELSE IF g = journal[j].to
        THEN [state |-> "SERVING", protection |-> "SERVING", version |-> base.version + 1]
        ELSE base
  BY DEF RotatedRow, base
<1> QED
  BY <1>1, <1>2 DEF GenerationRow, GenerationStates, Protections

\* Every step keeps every row and every handler well typed: one step per
\* action.
LEMMA NextTypeOK == TypeOK /\ [PromotionNext]_vars => TypeOK'
<1> SUFFICES ASSUME TypeOK, [PromotionNext]_vars PROVE TypeOK'
  OBVIOUS
<1>1. ASSUME NEW c \in Coordinators, ReadPointerToPrepare(c) PROVE TypeOK'
  <2>1. Working(work[c], Rows)
    BY <1>1, AtWork DEF ReadPointerToPrepare
  <2>2. <<pointer.generation, pointer.version>> \in Generations \X Nat
    BY DEF TypeOK, Pointer
  <2>3. /\ Remembers("prepare:advance", <<>>, Rows)
        /\ Remembers("prepare:lookup", <<pointer.generation, pointer.version>>, Rows)
    BY <2>2 DEF Remembers, PrepareSteps, PlainSteps
  <2> QED
    BY <1>1, <2>1, <2>3, ReadingStepTypeOK DEF ReadPointerToPrepare
<1>2. ASSUME NEW c \in Coordinators, LookupPromotion(c) PROVE TypeOK'
  <2>1. Working(work[c], Rows) /\ work[c].mem \in Generations \X Nat
    BY <1>2, AtWork DEF LookupPromotion, Remembers, PrepareSteps, RowSteps, PlainSteps
  <2>2. /\ Remembers("prepare:advance", <<>>, Rows)
        /\ Remembers("prepare:insert", work[c].mem, Rows)
    BY <2>1 DEF Remembers, PrepareSteps, PlainSteps
  <2> QED
    BY <1>2, <2>1, <2>2, ReadingStepTypeOK DEF LookupPromotion
<1>3. ASSUME NEW c \in Coordinators, PreparePromotion(c) PROVE TypeOK'
  <2>1. Working(work[c], Rows) /\ work[c].mem \in Generations \X Nat
    BY <1>3, AtWork DEF PreparePromotion, Remembers, PrepareSteps, RowSteps, PlainSteps
  <2> DEFINE row == [op |-> work[c].op, from |-> work[c].mem[1], to |-> Candidate(c),
                     expected |-> work[c].mem[2], phase |-> "PREPARING", resulting |-> 0]
  <2>2. row \in JournalRow
    BY <2>1 DEF TypeOK, Working, Candidate, Operation, JournalRow, Phases
  <2> HIDE DEF row
  <2>3. journal' = Append(journal, row)
    BY <1>3 DEF PreparePromotion, row
  <2>4. journal' \in Seq(JournalRow) /\ Rows \subseteq Rows'
    BY <2>2, <2>3, JournalAppend DEF Rows, TypeOK
  <2>5. Remembers("prepare:advance", <<>>, Rows')
    BY DEF Remembers, PlainSteps
  <2> QED
    BY <1>3, <2>1, <2>4, <2>5, GotoTypeOK DEF PreparePromotion, TypeOK
<1>4. ASSUME NEW c \in Coordinators, AdvanceToPromoting(c) PROVE TypeOK'
  <2>1. work[c].op \in Operations
    BY <1>4, AtWork DEF AdvanceToPromoting, Working
  <2> QED
    BY <1>4, <2>1, TransitionTypeOK DEF AdvanceToPromoting, PromotionStates
<1>5. ASSUME NEW c \in Coordinators, LoadPromotion(c) PROVE TypeOK'
  <2>1. Working(work[c], Rows)
    BY <1>5, AtWork DEF LoadPromotion
  <2>2. CASE JournalsOf(work[c].op) = {}
    BY <1>5, <2>2, StopTypeOK DEF LoadPromotion
  <2>3. CASE JournalsOf(work[c].op) # {}
    <3>1. PICK j \in JournalsOf(work[c].op) : Resume(c, j)
      BY <1>5, <2>3 DEF LoadPromotion, Newest
    <3>2. Remembers(StepAfter(journal[j].phase), <<j>>, Rows)
      BY JournalElement, ResumeRemembers DEF TypeOK, Rows, JournalRow, JournalsOf
    <3> QED
      BY <1>5, <2>1, <3>1, <3>2, ReadingStepTypeOK DEF LoadPromotion, Resume
  <2> QED
    BY <2>2, <2>3
<1>6. ASSUME NEW c \in Coordinators, CasPointer(c) PROVE TypeOK'
  <2> DEFINE j == Row(c)
  <2>1. Working(work[c], Rows) /\ j \in Rows /\ journal[j] \in JournalRow
    BY <1>6, AtWork, WorkingRow DEF CasPointer, RowSteps
  <2>2. CASE ~Cut(j) /\ PointerMatches(j)
    <3> DEFINE row == [journal[j] EXCEPT !.phase = "POINTER_UPDATED",
                                         !.resulting = pointer.version + 1]
    <3>0. pointer.version + 1 \in Nat
      BY DEF TypeOK, Pointer
    <3>1. row \in JournalRow
      BY <2>1, <3>0 DEF JournalRow, Phases
    <3>2. /\ journal' = [journal EXCEPT ![j] = row]
          /\ pointer' = [generation |-> journal[j].to, previous |-> pointer.generation,
                         version |-> pointer.version + 1]
          /\ Goto(c, "promote:observe", <<j>>)
          /\ UNCHANGED <<op, faults, generation, retirement>>
      BY <1>6, <2>2 DEF CasPointer
    <3> HIDE DEF row
    <3>3. journal' \in Seq(JournalRow) /\ Rows' = Rows
      BY <2>1, <3>1, <3>2, JournalExcept DEF Rows, TypeOK
    <3>4. Remembers("promote:observe", <<j>>, Rows')
      BY <2>1, <3>3 DEF Remembers, RowSteps
    <3>5. pointer' \in Pointer
      BY <2>1, <3>2 DEF TypeOK, Pointer, JournalRow
    <3> QED
      BY <2>1, <3>2, <3>3, <3>4, <3>5, GotoTypeOK DEF TypeOK
  <2>3. CASE Cut(j)
    <3>1. Remembers(StepAfter(journal[j].phase), <<j>>, Rows)
      BY <2>1, ResumeRemembers DEF JournalRow
    <3> QED
      BY <1>6, <2>1, <2>3, <3>1, ReadingStepTypeOK DEF CasPointer, Resume, tableVars
  <2>4. CASE ~Cut(j) /\ ~PointerMatches(j)
    BY <1>6, <2>4, StopTypeOK DEF CasPointer, tableVars
  <2> QED
    BY <2>2, <2>3, <2>4
<1>7. ASSUME NEW c \in Coordinators, ObserveRouters(c) PROVE TypeOK'
  <2>1. Working(work[c], Rows) /\ Row(c) \in Rows /\ work[c].mem = <<Row(c)>>
    BY <1>7, AtWork, WorkingRow DEF ObserveRouters, RowSteps
  <2>2. Remembers("promote:mark", work[c].mem, Rows)
    BY <2>1 DEF Remembers, RowSteps
  <2> QED
    BY <1>7, <2>1, <2>2, ReadingStepTypeOK, StopTypeOK DEF ObserveRouters
<1>8. ASSUME NEW c \in Coordinators, MarkRouterVerified(c) PROVE TypeOK'
  <2> DEFINE j == Row(c)
             row == [journal[j] EXCEPT !.phase = "ROUTER_VERIFIED"]
  <2>1. Working(work[c], Rows) /\ j \in Rows /\ journal[j] \in JournalRow
    BY <1>8, AtWork, WorkingRow DEF MarkRouterVerified, RowSteps
  <2>2. CASE journal[j].phase \in {"POINTER_UPDATED", "ROUTER_VERIFIED"}
    <3>1. row \in JournalRow
      BY <2>1 DEF JournalRow, Phases
    <3>2. journal' = [journal EXCEPT ![j] = row] /\ Goto(c, "promote:finalize", <<j>>)
      BY <1>8, <2>2 DEF MarkRouterVerified
    <3> HIDE DEF row
    <3>3. journal' \in Seq(JournalRow) /\ Rows' = Rows
      BY <2>1, <3>1, <3>2, JournalExcept DEF Rows, TypeOK
    <3>4. Remembers("promote:finalize", <<j>>, Rows')
      BY <2>1, <3>3 DEF Remembers, RowSteps
    <3> QED
      BY <1>8, <2>1, <3>2, <3>3, <3>4, GotoTypeOK DEF MarkRouterVerified, TypeOK
  <2>3. CASE journal[j].phase \notin {"POINTER_UPDATED", "ROUTER_VERIFIED"}
    BY <1>8, <2>3, StopTypeOK DEF MarkRouterVerified, tableVars
  <2> QED
    BY <2>2, <2>3
<1>9. ASSUME NEW c \in Coordinators, FinalizePromotion(c) PROVE TypeOK'
  <2> DEFINE j == Row(c)
             row == [journal[j] EXCEPT !.phase = "GENERATION_FINALIZED"]
  <2>1. Working(work[c], Rows) /\ j \in Rows /\ journal[j] \in JournalRow
    BY <1>9, AtWork, WorkingRow DEF FinalizePromotion, RowSteps
  <2>2. Remembers("promote:advance", <<j>>, Rows)
    BY <2>1 DEF Remembers, RowSteps
  <2>3. CASE CanFinalize(j)
    <3>1. row \in JournalRow
      BY <2>1 DEF JournalRow, Phases
    <3>2. /\ journal' = [journal EXCEPT ![j] = row]
          /\ generation' = [g \in Generations |-> RotatedRow(g, j)]
          /\ Goto(c, "promote:advance", <<j>>)
          /\ UNCHANGED <<op, faults, pointer, retirement>>
      BY <1>9, <2>3 DEF FinalizePromotion, CanFinalize, Incomplete
    <3> HIDE DEF row
    <3>3. journal' \in Seq(JournalRow) /\ Rows' = Rows
      BY <2>1, <3>1, <3>2, JournalExcept DEF Rows, TypeOK
    <3>4. \A g \in Generations : RotatedRow(g, j) \in GenerationRow
      BY RotatedRowType
    <3> QED
      BY <2>1, <2>2, <3>2, <3>3, <3>4, GotoTypeOK DEF TypeOK
  <2>4. CASE ~Incomplete(j)
    BY <1>9, <2>1, <2>2, <2>4, ReadingStepTypeOK
    DEF FinalizePromotion, CanFinalize, Incomplete, tableVars
  <2>5. CASE Incomplete(j) /\ ~CanFinalize(j)
    BY <1>9, <2>5, StopTypeOK DEF FinalizePromotion, tableVars
  <2> QED
    BY <2>3, <2>4, <2>5
<1>10. ASSUME NEW c \in Coordinators, AdvanceToPromoted(c) PROVE TypeOK'
  <2>1. work[c].op \in Operations
    BY <1>10, AtWork DEF AdvanceToPromoted, Working
  <2> QED
    BY <1>10, <2>1, TransitionTypeOK DEF AdvanceToPromoted, PromotionStates
<1>11. ASSUME NEW c \in Coordinators, ReadPointerToProtect(c) PROVE TypeOK'
  <2>1. Working(work[c], Rows)
    BY <1>11, AtWork DEF ReadPointerToProtect
  <2>2. Remembers("protect:advance", <<>>, Rows)
    BY DEF Remembers, PlainSteps
  <2>3. pointer.previous # None => Remembers("protect:retire", <<pointer.previous>>, Rows)
    BY DEF Remembers, TypeOK, Pointer
  <2> QED
    BY <1>11, <2>1, <2>2, <2>3, ReadingStepTypeOK, StopTypeOK DEF ReadPointerToProtect
<1>12. ASSUME NEW c \in Coordinators, BeginRetirement(c) PROVE TypeOK'
  <2>1. Working(work[c], Rows) /\ work[c].op \in Operations
    BY <1>12, AtWork DEF BeginRetirement, Working
  <2>2. Rows' = Rows /\ Remembers("protect:advance", <<>>, Rows')
    BY <1>12 DEF BeginRetirement, Rows, Remembers, PlainSteps
  <2>3. [op |-> work[c].op, state |-> "WAITING_ELIGIBILITY"] \in RetirementRow
    BY <2>1 DEF RetirementRow, RetirementStates
  <2>4. retirement' \in [Generations -> RetirementRow \cup {None}]
    BY <1>12, <2>3 DEF BeginRetirement, TypeOK
  <2> QED
    BY <1>12, <2>1, <2>2, <2>4, GotoTypeOK DEF BeginRetirement, TypeOK
<1>13. ASSUME NEW c \in Coordinators, AdvanceToProtected(c) PROVE TypeOK'
  <2>1. work[c].op \in Operations
    BY <1>13, AtWork DEF AdvanceToProtected, Working
  <2> QED
    BY <1>13, <2>1, TransitionTypeOK DEF AdvanceToProtected, PromotionStates
<1>14. ASSUME NEW g \in Generations, ReleaseRollbackProtection(g) PROVE TypeOK'
  <2>1. pointer' \in Pointer
    <3>1. pointer \in Pointer /\ pointer.version + 1 \in Nat
      BY DEF TypeOK, Pointer
    <3>2. [pointer EXCEPT !.previous = None, !.version = @ + 1] \in Pointer
      BY <3>1 DEF Pointer
    <3> QED
      BY <1>14, <3>2 DEF ReleaseRollbackProtection
  <2>2. generation' \in [Generations -> GenerationRow]
    <3>1. [state |-> generation[g].state, protection |-> "NONE",
           version |-> generation[g].version + 1] \in GenerationRow
      BY DEF TypeOK, GenerationRow, Protections
    <3> QED
      BY <1>14, <3>1 DEF ReleaseRollbackProtection, TypeOK
  <2>3. retirement' \in [Generations -> RetirementRow \cup {None}]
    <3>1. retirement[g] # None =>
            [retirement[g] EXCEPT !.state = "WAITING_ELIGIBILITY"] \in RetirementRow
      BY DEF TypeOK, RetirementRow, RetirementStates
    <3> QED
      BY <1>14, <3>1 DEF ReleaseRollbackProtection, TypeOK
  <2> QED
    BY <1>14, <2>1, <2>2, <2>3 DEF ReleaseRollbackProtection, TypeOK, storeVars, Rows
<1>15. ASSUME StoreStep, UNCHANGED tableVars PROVE TypeOK'
  BY <1>15, StoreTypeOK
<1>16. CASE UNCHANGED vars
  BY <1>16 DEF TypeOK, vars, storeVars, tableVars, Rows
<1> QED
  BY <1>1, <1>2, <1>3, <1>4, <1>5, <1>6, <1>7, <1>8, <1>9, <1>10, <1>11, <1>12, <1>13,
     <1>14, <1>15, <1>16 DEF PromotionNext, PromotionStep

\* Every table row and every handler stays well typed (CHECK constraints of the
\* migrations; local variables of the handlers of reconcile).
THEOREM TypeCorrect == PromotionSpec => []TypeOK
<1>1. PromotionInit => TypeOK
  BY InitTypeOK
<1>2. TypeOK /\ [PromotionNext]_vars => TypeOK'
  BY NextTypeOK
<1> QED
  BY <1>1, <1>2, PTL DEF PromotionSpec
-----------------------------------------------------------------------------
(***************************************************************************)
(* What a step leaves alone.                                               *)
(***************************************************************************)

\* A step of one handler concerns its own entry of work, and keeps the claim
\* it works under.
LEMMA StepFrame ==
    ASSUME TypeOK, NEW c \in Coordinators, PromotionStep(c)
    PROVE  /\ Working(work[c], Rows)
           /\ \A d \in Coordinators : d # c => work'[d] = work[d]
           /\ \/ work'[c] = Idle
              \/ work'[c].op = work[c].op /\ work'[c].fence = work[c].fence
           /\ \A o \in Operations : /\ op'[o].fence = op[o].fence
                                    /\ op'[o].candidate = op[o].candidate
<1>1. Working(work[c], Rows)
  BY AtWork DEF PromotionStep, ReadPointerToPrepare, LookupPromotion, PreparePromotion,
     AdvanceToPromoting, LoadPromotion, CasPointer, ObserveRouters, MarkRouterVerified,
     FinalizePromotion, AdvanceToPromoted, ReadPointerToProtect, BeginRetirement,
     AdvanceToProtected
<1>2. \/ Stop(c) /\ op' = op
      \/ (\E pc, mem : Goto(c, pc, mem)) /\ op' = op
      \/ \E from, to : Transition(c, from, to)
  BY DEF PromotionStep, ReadPointerToPrepare, LookupPromotion, PreparePromotion,
     AdvanceToPromoting, LoadPromotion, CasPointer, ObserveRouters, MarkRouterVerified,
     FinalizePromotion, AdvanceToPromoted, ReadPointerToProtect, BeginRetirement,
     AdvanceToProtected, Resume
<1>3. CASE Stop(c) /\ op' = op
  BY <1>1, <1>3 DEF Stop, TypeOK
<1>4. CASE (\E pc, mem : Goto(c, pc, mem)) /\ op' = op
  BY <1>1, <1>4 DEF Goto, TypeOK
<1>5. ASSUME NEW from, NEW to, Transition(c, from, to)
      PROVE  /\ \A d \in Coordinators : d # c => work'[d] = work[d]
             /\ work'[c] = Idle
             /\ \A o \in Operations : /\ op'[o].fence = op[o].fence
                                      /\ op'[o].candidate = op[o].candidate
  BY <1>5 DEF Transition, Stop, TypeOK, Operation
<1> QED
  BY <1>1, <1>2, <1>3, <1>4, <1>5

-----------------------------------------------------------------------------
(***************************************************************************)
(* Fences.                                                                 *)
(***************************************************************************)

\* The fence of a claim is never above the one its operation row carries, so
\* the next claim's fence is new.
FenceInv ==
    /\ \A c \in Coordinators :
         ~At(c, "idle") => work[c].fence <= op[work[c].op].fence
    /\ FenceNamesOneClaim

\* Steps that take no claim, change no fence and let no claim move on to
\* another operation keep FenceInv.
LEMMA FenceKept ==
    ASSUME FenceInv,
           \A c \in Coordinators : ~At(c, "idle")' =>
                /\ ~At(c, "idle")
                /\ work'[c].op = work[c].op
                /\ work'[c].fence = work[c].fence
                /\ op'[work[c].op].fence = op[work[c].op].fence
    PROVE  FenceInv'
BY DEF FenceInv, FenceNamesOneClaim

\* Every step keeps the fences of the processes at work apart and at most
\* as high as the operation's.
LEMMA NextFenceInv == TypeOK /\ FenceInv /\ [PromotionNext]_vars => FenceInv'
<1> SUFFICES ASSUME TypeOK, FenceInv, [PromotionNext]_vars PROVE FenceInv'
  OBVIOUS
<1>1. ASSUME NEW d \in Coordinators, ~At(d, "idle") PROVE work[d].op \in Operations
  BY <1>1 DEF At, TypeOK, Idle, Working
<1>2. ASSUME NEW c \in Coordinators, PromotionStep(c) PROVE FenceInv'
  <2>1. ~At(c, "idle")
    BY <1>2, StepFrame DEF At, Working, Remembers, PrepareSteps, RowSteps, PlainSteps
  <2>2. ASSUME NEW d \in Coordinators, ~At(d, "idle")'
        PROVE  /\ ~At(d, "idle")
               /\ work'[d].op = work[d].op
               /\ work'[d].fence = work[d].fence
               /\ op'[work[d].op].fence = op[work[d].op].fence
    <3>1. CASE d = c
      BY <1>1, <1>2, <2>1, <2>2, <3>1, StepFrame DEF At, Idle
    <3>2. CASE d # c
      <4>1. work'[d] = work[d]
        BY <1>2, <3>2, StepFrame
      <4> QED
        BY <1>1, <1>2, <2>2, <4>1, StepFrame DEF At
    <3> QED
      BY <3>1, <3>2
  <2> QED
    BY <2>2, FenceKept
<1>3. ASSUME NEW c \in Coordinators, ClaimNext(c) PROVE FenceInv'
  <2>1. PICK o \in Claimable :
          /\ op' = [op EXCEPT ![o] = [@ EXCEPT !.owner = c, !.live = TRUE,
                                                !.fence = NextFence(o)]]
          /\ work' = [work EXCEPT ![c] = [pc |-> op[o].state, op |-> o,
                                          fence |-> NextFence(o), mem |-> <<>>]]
    BY <1>3 DEF ClaimNext
  <2>2. /\ o \in Operations
        /\ op[o].fence \in Nat
        /\ op'[o].fence = op[o].fence + 1
        /\ \A p \in Operations : p # o => op'[p] = op[p]
        /\ work'[c].op = o
        /\ work'[c].fence = op[o].fence + 1
        /\ \A d \in Coordinators : d # c => work'[d] = work[d]
    BY <2>1 DEF Claimable, NextFence, TypeOK, Operation
  <2>3. \A d \in Coordinators : d # c /\ ~At(d, "idle") =>
            /\ work[d].fence <= op[work[d].op].fence
            /\ work[d].op = o => work[d].fence # work'[c].fence
            /\ work[d].fence \in Nat
            /\ work[d].op \in Operations
    BY <1>1, <2>2 DEF FenceInv, At, TypeOK, Idle, Working
  <2>4. \A d \in Coordinators : d # c /\ ~At(d, "idle") =>
            work[d].fence <= op'[work[d].op].fence
    BY <2>2, <2>3
  <2> QED
    BY <2>2, <2>3, <2>4 DEF FenceInv, FenceNamesOneClaim, At
<1>4. ASSUME NEW c \in Coordinators, Interrupt(c) PROVE FenceInv'
  BY <1>1, <1>4, FenceKept DEF Interrupt, Stop, TypeOK, At, Idle
<1>5. ASSUME NEW o \in Operations, LeaseRunsOut(o) \/ LeaseOutlived(o) PROVE FenceInv'
  <2>1. /\ work' = work
        /\ \A p \in Operations : op'[p].fence = op[p].fence
    <3>1. work' = work /\ op' = [op EXCEPT ![o].live = FALSE]
      BY <1>5 DEF LeaseRunsOut, LeaseOutlived
    <3>2. op[o] \in Operation /\ [op[o] EXCEPT !.live = FALSE].fence = op[o].fence
      BY DEF TypeOK, Operation
    <3> QED
      BY <3>1, <3>2 DEF TypeOK
  <2> QED
    BY <1>1, <2>1, FenceKept DEF At
<1>6. ASSUME NEW g \in Generations, ReleaseRollbackProtection(g) PROVE FenceInv'
  BY <1>6, FenceKept DEF ReleaseRollbackProtection, storeVars, At
<1>7. CASE UNCHANGED vars
  BY <1>7, FenceKept DEF vars, storeVars, At
<1> QED
  BY <1>2, <1>3, <1>4, <1>5, <1>6, <1>7 DEF PromotionNext, StoreStep

\* Whatever the number of lost leases and takeovers, no two processes ever work
\* on an operation under the same fence (claimNext).
THEOREM FencesAreExclusive == PromotionSpec => []FenceNamesOneClaim
<1>1. PromotionInit => FenceInv
  BY DEF PromotionInit, FenceInv, FenceNamesOneClaim, At, Idle
<1>2. TypeOK /\ FenceInv /\ [PromotionNext]_vars => FenceInv'
  BY NextFenceInv
<1>3. FenceInv => FenceNamesOneClaim
  BY DEF FenceInv
<1> QED
  BY <1>1, <1>2, <1>3, TypeCorrect, PTL DEF PromotionSpec

-----------------------------------------------------------------------------
(***************************************************************************)
(* The registry has one serving generation.                                *)
(***************************************************************************)

\* Every step keeps one serving generation; only finalizePromotion and
\* releaseRollbackProtection disturb the registry.
LEMMA NextOneServing == TypeOK /\ OneServing /\ [PromotionNext]_vars => OneServing'
<1> SUFFICES ASSUME TypeOK, OneServing, [PromotionNext]_vars PROVE OneServing'
  OBVIOUS
<1>1. CASE generation' = generation
  BY <1>1 DEF OneServing
<1>2. ASSUME NEW c \in Coordinators, FinalizePromotion(c), generation' # generation
      PROVE  OneServing'
  <2> DEFINE j == Row(c)
             from == journal[j].from
             to == journal[j].to
  <2>1. /\ generation' = [g \in Generations |-> RotatedRow(g, j)]
        /\ generation[from].state = "SERVING"
        /\ generation[to].state = "READY"
    BY <1>2 DEF FinalizePromotion, CanFinalize
  <2>2. from \in Generations /\ to \in Generations /\ from # to
    BY <1>2, <2>1, WorkingRow DEF FinalizePromotion, RowSteps, JournalRow
  <2>3. \A g \in Generations : /\ generation[g].state = "SERVING" <=> g = from
                               /\ generation[g].protection = "SERVING" <=> g = from
    BY <2>2, <2>1 DEF OneServing
  <2>4. ASSUME NEW g \in Generations
        PROVE  /\ generation'[g].state = "SERVING" <=> g = to
               /\ generation'[g].protection = "SERVING" <=> g = to
               /\ generation'[g].protection = "ROLLBACK" <=> g = from
    <3>1. generation[g] \in GenerationRow /\ generation'[g] = RotatedRow(g, j)
      BY <2>1 DEF TypeOK
    <3>2. CASE g = from
      BY <2>2, <3>1, <3>2 DEF RotatedRow
    <3>3. CASE g # from /\ g = to
      BY <2>2, <3>1, <3>3 DEF RotatedRow
    <3>4. CASE g # from /\ g # to
      BY <2>3, <3>1, <3>4 DEF RotatedRow, GenerationRow
    <3> QED
      BY <3>2, <3>3, <3>4
  <2> QED
    BY <2>2, <2>4 DEF OneServing
<1>3. ASSUME NEW g \in Generations, ReleaseRollbackProtection(g) PROVE OneServing'
  <2>1. /\ generation[g].protection = "ROLLBACK"
        /\ generation' = [generation EXCEPT ![g] =
              [state |-> generation[g].state, protection |-> "NONE",
               version |-> generation[g].version + 1]]
    BY <1>3 DEF ReleaseRollbackProtection, ReleaseAllowed
  <2>2. \A h \in Generations :
          /\ generation'[h].state = generation[h].state
          /\ h # g => generation'[h].protection = generation[h].protection
          /\ generation'[g].protection = "NONE"
    BY <2>1 DEF TypeOK
  <2> QED
    BY <2>1, <2>2 DEF OneServing
<1>4. \/ generation' = generation
      \/ \E c \in Coordinators : FinalizePromotion(c)
      \/ \E g \in Generations : ReleaseRollbackProtection(g)
  BY DEF PromotionNext, PromotionStep, ReadPointerToPrepare, LookupPromotion,
     PreparePromotion, AdvanceToPromoting, LoadPromotion, CasPointer, ObserveRouters,
     MarkRouterVerified, AdvanceToPromoted, ReadPointerToProtect, BeginRetirement,
     AdvanceToProtected, tableVars, vars
<1> QED
  BY <1>1, <1>2, <1>3, <1>4

\* Exactly one generation serves and at most one is kept for rollback, whatever
\* the coordinators race about (finalizePromotion, releaseRollbackProtection).
THEOREM AlwaysOneServing == PromotionSpec => []OneServing
<1>1. PromotionInit => OneServing
  BY PromotionAssumption DEF PromotionInit, OneServing
<1>2. TypeOK /\ OneServing /\ [PromotionNext]_vars => OneServing'
  BY NextOneServing
<1> QED
  BY <1>1, <1>2, TypeCorrect, PTL DEF PromotionSpec

-----------------------------------------------------------------------------
(***************************************************************************)
(* One cutover per operation.                                              *)
(*                                                                         *)
(* A journal row can only move the pointer from the version its inserter   *)
(* read.  Every row of an operation that already moved the pointer was     *)
(* inserted from an older version, so its compare-and-swap must fail.      *)
(***************************************************************************)

\* Coordinator c has read the pointer and is about to insert a row for it.
Inserting(c) == At(c, "prepare:insert")

CutoverInv ==
    /\ \A c \in Coordinators :
         work[c].pc \in PrepareSteps => work[c].mem[2] <= pointer.version
    /\ \A j \in Rows : /\ journal[j].expected <= pointer.version
                       /\ Cut(j) => journal[j].resulting <= pointer.version
    /\ \A c \in Coordinators, i \in Rows :
         Inserting(c) /\ Cut(i) /\ journal[i].op = work[c].op =>
             work[c].mem[2] < journal[i].resulting
    /\ \A i, j \in Rows :
         Cut(i) /\ ~Cut(j) /\ journal[i].op = journal[j].op =>
             journal[j].expected < journal[i].resulting
    /\ CutoverOnce

\* The journal keeps its rows and their cutovers.
SameCuts ==
    /\ Rows' = Rows
    /\ \A j \in Rows : /\ journal'[j].op = journal[j].op
                       /\ journal'[j].expected = journal[j].expected
                       /\ journal'[j].resulting = journal[j].resulting
                       /\ Cut(j)' <=> Cut(j)

\* Nobody starts to insert a row for an operation that has one.
SafeInserts ==
    \A c \in Coordinators : work'[c].pc \in PrepareSteps =>
        /\ work'[c].mem[2] <= pointer'.version
        /\ work'[c].pc = "prepare:insert" =>
              \/ work'[c] = work[c]
              \/ \A j \in Rows : journal[j].op # work'[c].op

\* A step that leaves the cuts of the journal and the pointer version alone,
\* and prepares no stale insert, keeps CutoverInv.
LEMMA QuietCutover ==
    ASSUME TypeOK, CutoverInv, SameCuts, SafeInserts,
           pointer'.version \in Nat, pointer.version <= pointer'.version
    PROVE  CutoverInv'
<1>1. \A j \in Rows : journal[j] \in JournalRow
  BY JournalElement DEF TypeOK, Rows
<1>2. \A j \in Rows' : /\ journal'[j].expected <= pointer'.version
                       /\ Cut(j)' => journal'[j].resulting <= pointer'.version
  BY <1>1 DEF CutoverInv, SameCuts, TypeOK, Pointer, JournalRow
<1>3. ASSUME NEW c \in Coordinators, NEW i \in Rows', Inserting(c)', Cut(i)',
             journal'[i].op = work'[c].op
      PROVE  work'[c].mem[2] < journal'[i].resulting
  BY <1>3 DEF CutoverInv, SameCuts, SafeInserts, Inserting, At, PrepareSteps
<1> QED
  BY <1>2, <1>3 DEF CutoverInv, SameCuts, SafeInserts, CutoverOnce

\* The steps that touch neither the journal nor the pointer.
LEMMA ReadingCutover ==
    ASSUME TypeOK, CutoverInv, SafeInserts, journal' = journal, pointer' = pointer
    PROVE  CutoverInv'
<1>1. SameCuts
  BY DEF SameCuts, Rows, Cut
<1> QED
  BY <1>1, QuietCutover DEF TypeOK, Pointer

\* Coordinators that are not preparing a promotion are no concern.
LEMMA OtherInserts ==
    ASSUME CutoverInv, NEW c \in Coordinators,
           \A d \in Coordinators : d # c => work'[d] = work[d],
           work'[c].pc \notin PrepareSteps,
           pointer.version \in Nat, pointer'.version \in Nat,
           pointer.version <= pointer'.version,
           \A d \in Coordinators : work[d].pc \in PrepareSteps => work[d].mem[2] \in Nat
    PROVE  SafeInserts
BY DEF CutoverInv, SafeInserts

\* A coordinator that prepares a promotion remembers a generation and a
\* pointer version.
LEMMA RememberedVersion ==
    ASSUME TypeOK
    PROVE  \A d \in Coordinators : work[d].pc \in PrepareSteps => work[d].mem \in Generations \X Nat
BY DEF TypeOK, Working, Remembers, Idle, PrepareSteps, RowSteps, PlainSteps

\* Every step keeps CutoverInv; casPointer is the one that makes a cut.
LEMMA NextCutoverInv == TypeOK /\ CutoverInv /\ [PromotionNext]_vars => CutoverInv'
<1> SUFFICES ASSUME TypeOK, CutoverInv, [PromotionNext]_vars PROVE CutoverInv'
  OBVIOUS
<1>1. \A d \in Coordinators : work[d].pc \in PrepareSteps => work[d].mem[2] \in Nat
  BY RememberedVersion
<1>2. pointer.version \in Nat /\ \A j \in Rows : journal[j] \in JournalRow
  BY JournalElement DEF TypeOK, Pointer, Rows
<1>3. ASSUME NEW c \in Coordinators, ReadPointerToPrepare(c) PROVE CutoverInv'
  <2>1. \A d \in Coordinators : d # c => work'[d] = work[d]
    BY <1>3, StepFrame DEF PromotionStep
  <2>2. \/ work'[c].pc = "prepare:advance"
        \/ work'[c].pc = "prepare:lookup" /\ work'[c].mem[2] = pointer.version
    BY <1>3 DEF ReadPointerToPrepare, Goto, TypeOK
  <2>3. SafeInserts
    BY <1>2, <1>3, <2>1, <2>2 DEF SafeInserts, CutoverInv, PrepareSteps, ReadPointerToPrepare, tableVars
  <2> QED
    BY <1>3, <2>3, ReadingCutover DEF ReadPointerToPrepare, tableVars
<1>4. ASSUME NEW c \in Coordinators, LookupPromotion(c) PROVE CutoverInv'
  <2>1. \A d \in Coordinators : d # c => work'[d] = work[d]
    BY <1>4, StepFrame DEF PromotionStep
  <2>2. \/ work'[c].pc = "prepare:advance"
        \/ /\ work'[c].op = work[c].op
           /\ work'[c].mem = work[c].mem
           /\ JournalsOf(work[c].op) = {}
    BY <1>4 DEF LookupPromotion, Goto, TypeOK
  <2>3. work[c].pc \in PrepareSteps
    BY <1>4 DEF LookupPromotion, At, PrepareSteps
  <2>4. SafeInserts
    BY <1>2, <1>4, <2>1, <2>2, <2>3 DEF SafeInserts, CutoverInv, PrepareSteps,
       JournalsOf, LookupPromotion, tableVars
  <2> QED
    BY <1>4, <2>4, ReadingCutover DEF LookupPromotion, tableVars
<1>5. ASSUME NEW c \in Coordinators, PreparePromotion(c) PROVE CutoverInv'
  <2>0. PICK n : n = Len(journal) + 1
    OBVIOUS
  <2> DEFINE row == [op |-> work[c].op, from |-> work[c].mem[1], to |-> Candidate(c),
                     expected |-> work[c].mem[2], phase |-> "PREPARING", resulting |-> 0]
  <2>1. work[c].pc = "prepare:insert" /\ work[c].mem \in Generations \X Nat
    BY <1>5, RememberedVersion DEF PreparePromotion, At, PrepareSteps
  <2>2. row \in JournalRow
    BY <1>5, <2>1, AtWork DEF PreparePromotion, TypeOK, Working, Candidate, Operation,
                              JournalRow, Phases
  <2>3. journal' = Append(journal, row)
    BY <1>5 DEF PreparePromotion
  <2>4. /\ row.op = work[c].op
        /\ row.expected = work[c].mem[2]
        /\ row.phase = "PREPARING"
    OBVIOUS
  <2> HIDE DEF row
  <2>5. /\ Rows' = Rows \cup {n}
        /\ n \notin Rows
        /\ \A i \in Rows : journal'[i] = journal[i]
        /\ journal'[n] = row
    BY <2>0, <2>2, <2>3, JournalAppend DEF TypeOK, Rows
  <2>6. ~Cut(n)' /\ \A i \in Rows : Cut(i)' <=> Cut(i)
    BY <2>4, <2>5 DEF Cut
  <2>7. /\ pointer' = pointer
        /\ work'[c].pc = "prepare:advance"
        /\ \A d \in Coordinators : d # c => work'[d] = work[d]
    BY <1>5, StepFrame DEF PreparePromotion, PromotionStep, Goto, TypeOK
  <2>8. \A d \in Coordinators :
          work'[d].pc \in PrepareSteps => work'[d] = work[d]
    BY <2>7 DEF PrepareSteps
  <2>9. \A d \in Coordinators :
          work'[d].pc \in PrepareSteps => work'[d].mem[2] <= pointer'.version
    BY <2>7, <2>8 DEF CutoverInv
  <2>10. \A j \in Rows' : /\ journal'[j].expected <= pointer'.version
                          /\ Cut(j)' => journal'[j].resulting <= pointer'.version
    BY <2>1, <2>4, <2>5, <2>6, <2>7 DEF CutoverInv, PrepareSteps
  <2>11. ASSUME NEW d \in Coordinators, NEW i \in Rows', Inserting(d)', Cut(i)',
                journal'[i].op = work'[d].op
         PROVE  work'[d].mem[2] < journal'[i].resulting
    BY <2>5, <2>6, <2>8, <2>11 DEF CutoverInv, Inserting, At, PrepareSteps
  <2>12. ASSUME NEW i \in Rows', NEW j \in Rows', Cut(i)', ~Cut(j)',
                journal'[i].op = journal'[j].op
         PROVE  journal'[j].expected < journal'[i].resulting
    <3>1. i \in Rows
      BY <2>5, <2>6, <2>12
    <3>2. CASE j = n
      BY <2>1, <2>4, <2>5, <2>6, <2>12, <3>1, <3>2 DEF CutoverInv, Inserting, At
    <3>3. CASE j \in Rows
      BY <2>5, <2>6, <2>12, <3>1, <3>3 DEF CutoverInv
    <3> QED
      BY <2>5, <3>2, <3>3
  <2>13. CutoverOnce'
    BY <2>5, <2>6 DEF CutoverInv, CutoverOnce
  <2> QED
    BY <2>9, <2>10, <2>11, <2>12, <2>13 DEF CutoverInv
<1>6. ASSUME NEW c \in Coordinators, CasPointer(c) PROVE CutoverInv'
  <2>1. PICK j \in Rows : j = Row(c)
    BY <1>6, WorkingRow DEF CasPointer, RowSteps
  <2>2. /\ work'[c].pc \notin PrepareSteps
        /\ \A d \in Coordinators : d # c => work'[d] = work[d]
    <3>1. Stop(c) \/ (\E mem : Goto(c, "promote:observe", mem)) \/ Resume(c, j)
      BY <1>6, <2>1 DEF CasPointer
    <3>2. work'[c].pc \notin PrepareSteps
      <4>1. \A pc, mem : Goto(c, pc, mem) => work'[c].pc = pc
        BY DEF Goto, TypeOK
      <4>2. Stop(c) => work'[c].pc = "idle"
        BY DEF Stop, Idle, TypeOK
      <4>3. Resume(c, j) => work'[c].pc \in RowSteps
        <5>1. journal[j].phase \in Phases
          BY <2>1, JournalElement DEF TypeOK, Rows, JournalRow
        <5>2. StepAfter(journal[j].phase) \in RowSteps
          BY <5>1 DEF StepAfter, Phases, RowSteps
        <5> QED
          BY <4>1, <5>2 DEF Resume
      <4> QED
        BY <1>2, <3>1, <4>1, <4>2, <4>3 DEF PrepareSteps, RowSteps
    <3> QED
      BY <1>6, <3>2, StepFrame DEF PromotionStep
  <2>3. CASE pointer' = pointer /\ journal' = journal
    BY <1>1, <1>2, <2>2, <2>3, OtherInserts, ReadingCutover
  <2>4. CASE ~Cut(j) /\ PointerMatches(j)
    <3> DEFINE row == [journal[j] EXCEPT !.phase = "POINTER_UPDATED",
                                         !.resulting = pointer.version + 1]
    <3>1. /\ row.op = journal[j].op
          /\ row.expected = journal[j].expected
          /\ row.phase = "POINTER_UPDATED"
          /\ row.resulting = pointer.version + 1
      BY <1>2, <2>1 DEF JournalRow
    <3>2. /\ journal' = [journal EXCEPT ![j] = row]
          /\ pointer'.version = pointer.version + 1
      BY <1>6, <2>1, <2>4 DEF CasPointer
    <3> HIDE DEF row
    <3>3. /\ Rows' = Rows
          /\ journal'[j] = row
          /\ \A i \in Rows : i # j => journal'[i] = journal[i]
      BY <2>1, <3>2 DEF Rows
    <3>4. Cut(j)' /\ \A i \in Rows : i # j => (Cut(i)' <=> Cut(i))
      BY <3>1, <3>3 DEF Cut
    <3>5. journal[j].expected = pointer.version
      BY <2>4 DEF PointerMatches
    <3>6. \A i \in Rows : Cut(i) => /\ journal[i].op # journal[j].op
                                    /\ journal[i].resulting <= pointer.version
      BY <1>2, <2>1, <2>4, <3>5 DEF CutoverInv, JournalRow
    <3>7. \A d \in Coordinators : work'[d].pc \in PrepareSteps =>
              work'[d] = work[d] /\ work'[d].mem[2] <= pointer.version
      BY <2>2 DEF CutoverInv
    <3>8. \A i \in Rows' : /\ journal'[i].expected <= pointer'.version
                           /\ Cut(i)' => journal'[i].resulting <= pointer'.version
      BY <1>2, <3>1, <3>2, <3>3, <3>4, <3>5 DEF CutoverInv, JournalRow
    <3>9. ASSUME NEW d \in Coordinators, NEW i \in Rows', Inserting(d)', Cut(i)',
                 journal'[i].op = work'[d].op
          PROVE  work'[d].mem[2] < journal'[i].resulting
      <4>1. CASE i = j
        BY <1>1, <1>2, <3>1, <3>3, <3>7, <3>9, <4>1 DEF Inserting, At, PrepareSteps
      <4>2. CASE i # j
        BY <3>3, <3>4, <3>7, <3>9, <4>2 DEF CutoverInv, Inserting, At, PrepareSteps
      <4> QED
        BY <4>1, <4>2
    <3>10. ASSUME NEW i \in Rows', NEW k \in Rows', Cut(i)', ~Cut(k)',
                  journal'[i].op = journal'[k].op
           PROVE  journal'[k].expected < journal'[i].resulting
      <4>1. k # j /\ k \in Rows /\ ~Cut(k) /\ journal'[k] = journal[k]
        BY <3>3, <3>4, <3>10
      <4>2. CASE i = j
        BY <1>2, <3>1, <3>3, <4>1, <4>2 DEF CutoverInv, JournalRow
      <4>3. CASE i # j
        BY <3>3, <3>4, <3>10, <4>1, <4>3 DEF CutoverInv
      <4> QED
        BY <4>2, <4>3
    <3>11. CutoverOnce'
      BY <1>2, <3>1, <3>3, <3>4, <3>6 DEF CutoverInv, CutoverOnce, JournalRow
    <3>12. \A d \in Coordinators : work'[d].pc \in PrepareSteps =>
              work'[d].mem[2] <= pointer'.version
      BY <1>1, <1>2, <3>2, <3>7
    <3> QED
      BY <3>8, <3>9, <3>10, <3>11, <3>12 DEF CutoverInv
  <2> QED
    BY <1>6, <2>1, <2>3, <2>4 DEF CasPointer
<1>7. ASSUME NEW c \in Coordinators, MarkRouterVerified(c) \/ FinalizePromotion(c)
      PROVE  CutoverInv'
  <2> DEFINE j == Row(c)
  <2>1. j \in Rows
    BY <1>7, WorkingRow DEF MarkRouterVerified, FinalizePromotion, RowSteps
  <2>2. /\ work'[c].pc \notin PrepareSteps
        /\ \A d \in Coordinators : d # c => work'[d] = work[d]
    BY <1>7, StepFrame DEF PromotionStep, MarkRouterVerified, FinalizePromotion, Goto, Stop,
       Idle, TypeOK, PrepareSteps
  <2>3. pointer' = pointer
    BY <1>7 DEF MarkRouterVerified, FinalizePromotion
  <2>4. \/ journal' = journal
        \/ \E phase \in Phases \ {"PREPARING"} :
             Cut(j) /\ journal' = [journal EXCEPT ![j].phase = phase]
    BY <1>7 DEF MarkRouterVerified, FinalizePromotion, CanFinalize, Phases, Cut
  <2>5. SameCuts
    BY <1>2, <2>1, <2>4 DEF SameCuts, Cut, Rows, JournalRow, Phases
  <2> QED
    BY <1>1, <1>2, <2>2, <2>3, <2>5, OtherInserts, QuietCutover
<1>8. ASSUME NEW c \in Coordinators, work'[c].pc \notin PrepareSteps,
             \A d \in Coordinators : d # c => work'[d] = work[d],
             journal' = journal, pointer' = pointer
      PROVE  CutoverInv'
  BY <1>1, <1>2, <1>8, OtherInserts, ReadingCutover
<1>9. ASSUME NEW c \in Coordinators,
             \/ AdvanceToPromoting(c) \/ LoadPromotion(c) \/ ObserveRouters(c)
             \/ AdvanceToPromoted(c) \/ ReadPointerToProtect(c) \/ BeginRetirement(c)
             \/ AdvanceToProtected(c)
      PROVE  CutoverInv'
  <2>1. /\ \A d \in Coordinators : d # c => work'[d] = work[d]
        /\ journal' = journal
        /\ pointer' = pointer
    BY <1>9, StepFrame DEF PromotionStep, AdvanceToPromoting, LoadPromotion, ObserveRouters,
       AdvanceToPromoted, ReadPointerToProtect, BeginRetirement, AdvanceToProtected, tableVars
  <2>2. \/ Stop(c)
        \/ \E mem : Goto(c, "promote:mark", mem)
        \/ \E mem : Goto(c, "protect:advance", mem)
        \/ \E mem : Goto(c, "protect:retire", mem)
        \/ \E j \in Rows : Resume(c, j)
    BY <1>9 DEF AdvanceToPromoting, LoadPromotion, ObserveRouters, AdvanceToPromoted,
       ReadPointerToProtect, BeginRetirement, AdvanceToProtected, Transition, Newest, JournalsOf
  <2>3. work'[c].pc \notin PrepareSteps
    BY <1>2, <2>2 DEF Stop, Goto, Resume, StepAfter, Idle, TypeOK, PrepareSteps, JournalRow, Phases
  <2> QED
    BY <1>8, <2>1, <2>3
<1>10. ASSUME NEW c \in Coordinators, ClaimNext(c) \/ Interrupt(c), UNCHANGED tableVars
       PROVE  CutoverInv'
  <2>1. \A d \in Coordinators : d # c => work'[d] = work[d]
    BY <1>10 DEF ClaimNext, Interrupt, Stop, TypeOK
  <2>2. \/ work'[c] = Idle
        \/ \E o \in Operations : work'[c].pc = op[o].state
    <3>1. CASE Interrupt(c)
      BY <3>1 DEF Interrupt, Stop, TypeOK
    <3>2. CASE ClaimNext(c)
      BY <3>2 DEF ClaimNext, Claimable, TypeOK
    <3> QED
      BY <1>10, <3>1, <3>2
  <2>3. work'[c].pc \notin PrepareSteps
    BY <2>2 DEF Idle, TypeOK, PromotionStates, PrepareSteps
  <2> QED
    BY <1>8, <1>10, <2>1, <2>3 DEF tableVars
<1>11. ASSUME NEW g \in Generations, ReleaseRollbackProtection(g) PROVE CutoverInv'
  <2>1. /\ pointer'.version = pointer.version + 1
        /\ journal' = journal
        /\ work' = work
    BY <1>11 DEF ReleaseRollbackProtection, storeVars, TypeOK, Pointer
  <2>2. SameCuts
    BY <2>1 DEF SameCuts, Rows, Cut
  <2>3. SafeInserts
    BY <1>1, <1>2, <2>1 DEF SafeInserts, CutoverInv
  <2> QED
    BY <1>2, <2>1, <2>2, <2>3, QuietCutover
<1>12. CASE work' = work /\ journal' = journal /\ pointer' = pointer
  <2>1. SafeInserts
    BY <1>12 DEF SafeInserts, CutoverInv
  <2> QED
    BY <1>12, <2>1, ReadingCutover
<1>13. ASSUME NEW o \in Operations, LeaseRunsOut(o) \/ LeaseOutlived(o), UNCHANGED tableVars
       PROVE  CutoverInv'
  BY <1>12, <1>13 DEF LeaseRunsOut, LeaseOutlived, tableVars
<1>14. CASE UNCHANGED vars
  BY <1>12, <1>14 DEF vars, storeVars, tableVars
<1> QED
  BY <1>3, <1>4, <1>5, <1>6, <1>7, <1>9, <1>10, <1>11, <1>13, <1>14
  DEF PromotionNext, PromotionStep, StoreStep

\* However many owners an operation had and however many journal rows they left
\* behind, it moves the serving pointer at most once, and every cutover has a
\* pointer version of its own (preparePromotion, casPointer).
THEOREM CutoverHappensOnce == PromotionSpec => []CutoverOnce
<1>1. PromotionInit => CutoverInv
  BY DEF PromotionInit, CutoverInv, CutoverOnce, Rows, Inserting, At, Idle, PrepareSteps
<1>2. TypeOK /\ CutoverInv /\ [PromotionNext]_vars => CutoverInv'
  BY NextCutoverInv
<1>3. CutoverInv => CutoverOnce
  BY DEF CutoverInv
<1> QED
  BY <1>1, <1>2, <1>3, TypeCorrect, PTL DEF PromotionSpec

-----------------------------------------------------------------------------
(***************************************************************************)
(* A promoted operation is in the registry.                                *)
(***************************************************************************)

\* A coordinator works on rows of its own operation, and only advances from a
\* finalized one.
PromotedInv ==
    /\ \A c \in Coordinators : work[c].pc \in RowSteps =>
         /\ journal[Row(c)].op = work[c].op
         /\ At(c, "promote:advance") => ~Incomplete(Row(c))
    /\ PromotedMeansFinalized

\* Journal rows are never removed, keep their operation and never leave their
\* last phase.
JournalKept ==
    \A j \in Rows : /\ j \in Rows'
                    /\ journal'[j].op = journal[j].op
                    /\ ~Incomplete(j) => ~Incomplete(j)'

\* A step that takes no operation to PROMOTED and takes no journal row back
\* keeps PromotedInv.
LEMMA PromotedKept ==
    ASSUME TypeOK, PromotedInv, JournalKept,
           \A o \in Operations : op'[o].state \in {"PROMOTED", "ROLLBACK_PROTECTED"} =>
               \/ op[o].state \in {"PROMOTED", "ROLLBACK_PROTECTED"}
               \/ \E j \in JournalsOf(o) : ~Incomplete(j),
           \A c \in Coordinators : work'[c].pc \in RowSteps =>
               \/ work'[c] = work[c]
               \/ \E j \in Rows : /\ work'[c].mem = <<j>>
                                  /\ journal[j].op = work'[c].op
                                  /\ work'[c].pc = "promote:advance" => journal'[j].phase = "GENERATION_FINALIZED"
    PROVE  PromotedInv'
<1>1. PromotedMeansFinalized'
  BY DEF PromotedInv, PromotedMeansFinalized, JournalKept, JournalsOf
<1>2. ASSUME NEW c \in Coordinators, work'[c].pc \in RowSteps
      PROVE  /\ journal'[work'[c].mem[1]].op = work'[c].op
             /\ work'[c].pc = "promote:advance" =>
                  journal'[work'[c].mem[1]].phase = "GENERATION_FINALIZED"
  <2>1. CASE work'[c] = work[c]
    <3>1. PICK j \in Rows : j = work[c].mem[1]
      BY <1>2, <2>1, WorkingRow DEF At, Row
    <3>2. journal[j].op = work[c].op /\ (work[c].pc = "promote:advance" => ~Incomplete(j))
      BY <1>2, <2>1, <3>1 DEF PromotedInv, Row, At
    <3> QED
      BY <2>1, <3>1, <3>2 DEF JournalKept, Incomplete
  <2>2. CASE work'[c] # work[c]
    BY <1>2, <2>2 DEF JournalKept
  <2> QED
    BY <2>1, <2>2
<1> QED
  BY <1>1, <1>2 DEF PromotedInv, Row, At, Incomplete

\* No step of the system takes a journal row back.
LEMMA JournalNeverShrinks == TypeOK /\ [PromotionNext]_vars => JournalKept
<1> SUFFICES ASSUME TypeOK, [PromotionNext]_vars PROVE JournalKept
  OBVIOUS
<1>1. \A j \in Rows : journal[j] \in JournalRow
  BY JournalElement DEF TypeOK, Rows
<1>2. CASE journal' = journal
  BY <1>2 DEF JournalKept, Rows, Incomplete
<1>3. ASSUME NEW row \in JournalRow, journal' = Append(journal, row) PROVE JournalKept
  BY <1>3, JournalAppend DEF JournalKept, Rows, Incomplete, TypeOK
<1>4. ASSUME NEW c \in Coordinators, PreparePromotion(c) PROVE JournalKept
  <2>1. work[c].mem \in Generations \X Nat
    BY <1>4, RememberedVersion DEF PreparePromotion, At, PrepareSteps
  <2>2. [op |-> work[c].op, from |-> work[c].mem[1], to |-> Candidate(c),
         expected |-> work[c].mem[2], phase |-> "PREPARING", resulting |-> 0] \in JournalRow
    BY <1>4, <2>1, AtWork DEF PreparePromotion, TypeOK, Working, Candidate, Operation,
                              JournalRow, Phases
  <2> QED
    BY <1>3, <1>4, <2>2 DEF PreparePromotion
<1>5. ASSUME NEW c \in Coordinators, CasPointer(c) PROVE JournalKept
  <2>1. PICK j \in Rows : j = Row(c)
    BY <1>5, WorkingRow DEF CasPointer, RowSteps
  <2>2. CASE ~Cut(j) /\ PointerMatches(j)
    <3> DEFINE row == [journal[j] EXCEPT !.phase = "POINTER_UPDATED",
                                         !.resulting = pointer.version + 1]
    <3>1. row.op = journal[j].op
      BY <1>1, <2>1 DEF JournalRow
    <3>2. journal' = [journal EXCEPT ![j] = row]
      BY <1>5, <2>1, <2>2 DEF CasPointer
    <3>3. Incomplete(j)
      BY <2>2 DEF Cut, Incomplete
    <3> HIDE DEF row
    <3> QED
      BY <3>1, <3>2, <3>3 DEF JournalKept, Rows, Incomplete
  <2> QED
    BY <1>2, <1>5, <2>1, <2>2 DEF CasPointer
<1>6. ASSUME NEW c \in Coordinators, MarkRouterVerified(c) \/ FinalizePromotion(c)
      PROVE  JournalKept
  <2>1. PICK j \in Rows : j = Row(c)
    BY <1>6, WorkingRow DEF MarkRouterVerified, FinalizePromotion, RowSteps
  <2>2. \/ journal' = journal
        \/ journal' = [journal EXCEPT ![j].phase = "ROUTER_VERIFIED"] /\ Incomplete(j)
        \/ journal' = [journal EXCEPT ![j].phase = "GENERATION_FINALIZED"]
    BY <1>6, <2>1 DEF MarkRouterVerified, FinalizePromotion, CanFinalize, Incomplete
  <2> QED
    BY <1>1, <1>2, <2>2 DEF JournalKept, Rows, Incomplete, JournalRow
<1> QED
  BY <1>2, <1>4, <1>5, <1>6 DEF PromotionNext, PromotionStep, ReadPointerToPrepare,
     LookupPromotion, AdvanceToPromoting, LoadPromotion, ObserveRouters, AdvanceToPromoted,
     ReadPointerToProtect, BeginRetirement, AdvanceToProtected, ReleaseRollbackProtection,
     tableVars, vars

\* Every step keeps PromotedInv: an owner that finished, or saw finished, a
\* row is the only one to report the operation as promoted.
LEMMA NextPromotedInv == TypeOK /\ PromotedInv /\ [PromotionNext]_vars => PromotedInv'
<1> SUFFICES ASSUME TypeOK, PromotedInv, [PromotionNext]_vars PROVE PromotedInv'
  OBVIOUS
<1>1. JournalKept
  BY JournalNeverShrinks
<1>2. \A j \in Rows : journal[j] \in JournalRow
  BY JournalElement DEF TypeOK, Rows
<1>3. ASSUME NEW c \in Coordinators, PromotionStep(c), op' = op,
             \/ Stop(c)
             \/ \E pc, mem : Goto(c, pc, mem) /\ pc \notin RowSteps
             \/ \E j \in Rows : \E pc :
                    /\ Goto(c, pc, <<j>>)
                    /\ journal[j].op = work[c].op
                    /\ pc = "promote:advance" => journal'[j].phase = "GENERATION_FINALIZED"
      PROVE  PromotedInv'
  <2>1. \A d \in Coordinators : d # c => work'[d] = work[d]
    BY <1>3, StepFrame
  <2>2. work'[c].pc \in RowSteps =>
          \E j \in Rows : /\ work'[c].mem = <<j>>
                          /\ journal[j].op = work'[c].op
                          /\ work'[c].pc = "promote:advance" => journal'[j].phase = "GENERATION_FINALIZED"
    BY <1>3 DEF Stop, Goto, Idle, TypeOK, RowSteps
  <2> QED
    BY <1>1, <1>3, <2>1, <2>2, PromotedKept
<1>4. ASSUME NEW c \in Coordinators,
             \/ ReadPointerToPrepare(c) \/ LookupPromotion(c) \/ PreparePromotion(c)
             \/ ReadPointerToProtect(c) \/ BeginRetirement(c)
      PROVE  PromotedInv'
  <2>1. \/ Stop(c)
        \/ \E mem : Goto(c, "prepare:lookup", mem)
        \/ \E mem : Goto(c, "prepare:insert", mem)
        \/ \E mem : Goto(c, "prepare:advance", mem)
        \/ \E mem : Goto(c, "protect:retire", mem)
        \/ \E mem : Goto(c, "protect:advance", mem)
    BY <1>4 DEF ReadPointerToPrepare, LookupPromotion, PreparePromotion, ReadPointerToProtect,
       BeginRetirement
  <2>2. op' = op
    BY <1>4 DEF ReadPointerToPrepare, LookupPromotion, PreparePromotion, ReadPointerToProtect,
       BeginRetirement
  <2>3. Stop(c) \/ \E pc, mem : Goto(c, pc, mem) /\ pc \notin RowSteps
    BY <2>1 DEF RowSteps
  <2> QED
    BY <1>3, <1>4, <2>2, <2>3 DEF PromotionStep
<1>5. ASSUME NEW c \in Coordinators, LoadPromotion(c) PROVE PromotedInv'
  <2>1. Stop(c) \/ \E j \in JournalsOf(work[c].op) : Resume(c, j)
    BY <1>5 DEF LoadPromotion, Newest
  <2>2. ASSUME NEW j \in JournalsOf(work[c].op), Resume(c, j) PROVE PromotedInv'
    <3>1. /\ j \in Rows
          /\ journal[j].op = work[c].op
          /\ journal' = journal
          /\ op' = op
      BY <1>5 DEF JournalsOf, LoadPromotion, tableVars
    <3>2. StepAfter(journal[j].phase) = "promote:advance" => journal'[j].phase = "GENERATION_FINALIZED"
      BY <1>2, <3>1 DEF StepAfter, JournalRow, Phases
    <3> QED
      BY <1>3, <1>5, <2>2, <3>1, <3>2 DEF PromotionStep, Resume
  <2> QED
    BY <1>3, <1>5, <2>1, <2>2 DEF PromotionStep, LoadPromotion
<1>6. ASSUME NEW c \in Coordinators,
             \/ CasPointer(c) \/ ObserveRouters(c) \/ MarkRouterVerified(c) \/ FinalizePromotion(c)
      PROVE  PromotedInv'
  <2>1. PICK j \in Rows : /\ j = Row(c)
                          /\ work[c].mem = <<j>>
                          /\ journal[j].op = work[c].op
    <3>1. \E pc \in RowSteps : At(c, pc)
      BY <1>6 DEF CasPointer, ObserveRouters, MarkRouterVerified, FinalizePromotion, RowSteps
    <3> QED
      BY <3>1, WorkingRow DEF PromotedInv, At
  <2>2. op' = op
    BY <1>6 DEF CasPointer, ObserveRouters, MarkRouterVerified, FinalizePromotion
  <2>3. CASE Stop(c)
    BY <1>3, <1>6, <2>2, <2>3 DEF PromotionStep
  <2>4. ASSUME NEW pc \in {"promote:observe", "promote:mark", "promote:finalize"}, Goto(c, pc, <<j>>)
        PROVE  PromotedInv'
    BY <1>3, <1>6, <2>1, <2>2, <2>4 DEF PromotionStep
  <2>5. CASE Resume(c, j) /\ journal' = journal
    <3>1. StepAfter(journal[j].phase) = "promote:advance" => journal'[j].phase = "GENERATION_FINALIZED"
      BY <1>2, <2>5 DEF StepAfter, JournalRow, Phases
    <3> QED
      BY <1>3, <1>6, <2>1, <2>2, <2>5, <3>1 DEF PromotionStep, Resume
  <2>6. CASE Goto(c, "promote:advance", <<j>>) /\ journal'[j].phase = "GENERATION_FINALIZED"
    BY <1>3, <1>6, <2>1, <2>2, <2>6 DEF PromotionStep
  <2>7. CASE CasPointer(c)
    BY <2>1, <2>3, <2>4, <2>5, <2>7 DEF CasPointer
  <2>8. CASE ObserveRouters(c) \/ MarkRouterVerified(c)
    BY <2>1, <2>3, <2>4, <2>8 DEF ObserveRouters, MarkRouterVerified
  <2>9. CASE FinalizePromotion(c)
    <3>1. \/ Stop(c)
          \/ /\ Goto(c, "promote:advance", <<j>>)
             /\ \/ journal' = [journal EXCEPT ![j].phase = "GENERATION_FINALIZED"]
                \/ journal' = journal /\ journal[j].phase = "GENERATION_FINALIZED"
      BY <2>1, <2>9 DEF FinalizePromotion, Incomplete
    <3>2. journal' = [journal EXCEPT ![j].phase = "GENERATION_FINALIZED"] =>
            journal'[j].phase = "GENERATION_FINALIZED"
      BY <1>2 DEF Rows, JournalRow
    <3> QED
      BY <2>3, <2>6, <3>1, <3>2
  <2> QED
    BY <1>6, <2>7, <2>8, <2>9
<1>7. ASSUME NEW c \in Coordinators, NEW from, NEW to, Transition(c, from, to),
             to \in {"PROMOTED", "ROLLBACK_PROTECTED"} =>
                 \/ from = "PROMOTED"
                 \/ \E j \in JournalsOf(work[c].op) : ~Incomplete(j),
             work[c].op \in Operations
      PROVE  PromotedInv'
  <2>1. /\ \A d \in Coordinators : d # c => work'[d] = work[d]
        /\ work'[c].pc \notin RowSteps
    BY <1>7 DEF Transition, Stop, Idle, TypeOK, RowSteps
  <2>2. ASSUME NEW o \in Operations
        PROVE  \/ op'[o].state = op[o].state
               \/ o = work[c].op /\ op[o].state = from /\ op'[o].state = to
    BY <1>7 DEF Transition, TypeOK, Operation
  <2>3. ASSUME NEW o \in Operations, op'[o].state \in {"PROMOTED", "ROLLBACK_PROTECTED"}
        PROVE  \/ op[o].state \in {"PROMOTED", "ROLLBACK_PROTECTED"}
               \/ \E j \in JournalsOf(o) : ~Incomplete(j)
    BY <1>7, <2>2, <2>3
  <2> QED
    BY <1>1, <2>1, <2>3, PromotedKept
<1>8. ASSUME NEW c \in Coordinators, AdvanceToPromoting(c) \/ AdvanceToProtected(c)
      PROVE  PromotedInv'
  <2>1. work[c].op \in Operations
    BY <1>8, AtWork DEF AdvanceToPromoting, AdvanceToProtected, Working
  <2> QED
    BY <1>7, <1>8, <2>1 DEF AdvanceToPromoting, AdvanceToProtected
<1>9. ASSUME NEW c \in Coordinators, AdvanceToPromoted(c) PROVE PromotedInv'
  <2>1. work[c].op \in Operations /\ Row(c) \in Rows
    BY <1>9, AtWork, WorkingRow DEF AdvanceToPromoted, Working, RowSteps
  <2>2. Row(c) \in JournalsOf(work[c].op) /\ ~Incomplete(Row(c))
    BY <1>9, <2>1 DEF AdvanceToPromoted, PromotedInv, At, RowSteps, JournalsOf
  <2> QED
    BY <1>7, <1>9, <2>1, <2>2 DEF AdvanceToPromoted
<1>10. ASSUME NEW c \in Coordinators, ClaimNext(c) \/ Interrupt(c) PROVE PromotedInv'
  <2>1. /\ \A d \in Coordinators : d # c => work'[d] = work[d]
        /\ \A o \in Operations : op'[o].state = op[o].state
        /\ work'[c] = Idle \/ \E o \in Operations : work'[c].pc = op[o].state
    <3>1. CASE Interrupt(c)
      BY <3>1 DEF Interrupt, Stop, TypeOK
    <3>2. CASE ClaimNext(c)
      <4>1. PICK o \in Claimable :
              /\ op' = [op EXCEPT ![o] = [@ EXCEPT !.owner = c, !.live = TRUE,
                                                    !.fence = NextFence(o)]]
              /\ work' = [work EXCEPT ![c] = [pc |-> op[o].state, op |-> o,
                                              fence |-> NextFence(o), mem |-> <<>>]]
        BY <3>2 DEF ClaimNext
      <4> QED
        BY <4>1 DEF Claimable, TypeOK, Operation
    <3> QED
      BY <1>10, <3>1, <3>2
  <2>2. work'[c].pc \notin RowSteps
    BY <2>1 DEF Idle, TypeOK, PromotionStates, RowSteps
  <2> QED
    BY <1>1, <2>1, <2>2, PromotedKept
<1>11. ASSUME NEW o \in Operations, LeaseRunsOut(o) \/ LeaseOutlived(o) PROVE PromotedInv'
  <2>1. work' = work /\ op' = [op EXCEPT ![o].live = FALSE]
    BY <1>11 DEF LeaseRunsOut, LeaseOutlived
  <2>2. op[o] \in Operation /\ [op[o] EXCEPT !.live = FALSE].state = op[o].state
    BY DEF TypeOK, Operation
  <2>3. \A p \in Operations : op'[p].state = op[p].state
    BY <2>1, <2>2 DEF TypeOK
  <2> QED
    BY <1>1, <2>1, <2>3, PromotedKept
<1>12. CASE op' = op /\ work' = work
  BY <1>1, <1>12, PromotedKept
<1> QED
  BY <1>4, <1>5, <1>6, <1>8, <1>9, <1>10, <1>11, <1>12
  DEF PromotionNext, PromotionStep, StoreStep, ReleaseRollbackProtection, vars, storeVars

\* An operation that reports PROMOTED or ROLLBACK_PROTECTED has its own cutover
\* in the registry, whoever performed it (#promote, transition).
THEOREM PromotedIsFinalized == PromotionSpec => []PromotedMeansFinalized
<1>1. PromotionInit => PromotedInv
  BY DEF PromotionInit, PromotedInv, PromotedMeansFinalized, Unclaimed, Idle, RowSteps
<1>2. TypeOK /\ PromotedInv /\ [PromotionNext]_vars => PromotedInv'
  BY NextPromotedInv
<1>3. PromotedInv => PromotedMeansFinalized
  BY DEF PromotedInv
<1> QED
  BY <1>1, <1>2, <1>3, TypeCorrect, PTL DEF PromotionSpec

-----------------------------------------------------------------------------
(***************************************************************************)
(* The registry and the serving pointer: what finalizations, cutovers and  *)
(* releases that overlap leave in both; and from it, that                  *)
(* GenerationPromotion implements ServingCutover.                          *)
(***************************************************************************)
-----------------------------------------------------------------------------
(***************************************************************************)
(* The inductive invariant.  The cutovers form a chain from the initial    *)
(* generation to the pointer's target, because an operation cuts once and  *)
(* every candidate belongs to one operation; the finalized ones are its    *)
(* beginning, and the registry shows the last of them.                     *)
(***************************************************************************)

CandidatesApart ==
    \A o \in Operations :
        /\ op[o].candidate # InitialServing
        /\ \A p \in Operations : op[o].candidate = op[p].candidate => o = p

RowsNameCandidates == \A j \in Rows : journal[j].to = op[journal[j].op].candidate

\* Cutover j replaced what cutover k had made the pointer's target.
Replaces(j, k) ==
    /\ journal[j].from = journal[k].to
    /\ journal[k].resulting < journal[j].resulting
    /\ \A i \in Rows : Cut(i) => \/ journal[i].resulting <= journal[k].resulting
                                 \/ journal[j].resulting <= journal[i].resulting

First(j) ==
    /\ journal[j].from = InitialServing
    /\ \A i \in Rows : Cut(i) => journal[j].resulting <= journal[i].resulting

Chained == \A j \in Rows : Cut(j) => First(j) \/ \E k \in Rows : Cut(k) /\ Replaces(j, k)

\* The last cutover; a half-done one keeps the operator's release away.
PointerShows(k) ==
    /\ Cut(k)
    /\ \A i \in Rows : Cut(i) => journal[i].resulting <= journal[k].resulting
    /\ pointer.generation = journal[k].to
    /\ pointer.previous \in {None, journal[k].from}
    /\ Incomplete(k) => pointer.previous = journal[k].from

PointerAtEnd ==
    \/ /\ pointer.generation = InitialServing /\ pointer.previous = None
       /\ \A i \in Rows : ~Cut(i)
    \/ \E k \in Rows : PointerShows(k)

\* Until its cutover is finalized a candidate stays as it was validated.
AwaitsCutover(g) == generation[g].state = "READY" /\ generation[g].protection = "NONE"

WaitingAreReady ==
    \A o \in Operations :
        (\A j \in Rows : journal[j].op = o => Incomplete(j)) => AwaitsCutover(op[o].candidate)

\* The last finalized cutover.
RegistryShows(k, g) ==
    /\ ~Incomplete(k)
    /\ g = journal[k].to
    /\ \A i \in Rows : ~Incomplete(i) => journal[i].resulting <= journal[k].resulting

ServingIsLatest ==
    \A g \in Generations : generation[g].state = "SERVING" =>
        \/ g = InitialServing /\ \A i \in Rows : Incomplete(i)
        \/ \E k \in Rows : RegistryShows(k, g)

RollbackIsPrevious ==
    (\A j \in Rows : Cut(j) => ~Incomplete(j)) =>
        \A g \in Generations : generation[g].protection = "ROLLBACK" <=> pointer.previous = g

RegistryInv ==
    /\ CandidatesApart /\ RowsNameCandidates /\ Chained /\ PointerAtEnd
    /\ WaitingAreReady /\ ServingIsLatest /\ FinalizedInPointerOrder /\ RollbackIsPrevious

-----------------------------------------------------------------------------
(***************************************************************************)
(* What the invariant says.                                                *)
(***************************************************************************)

\* The rows as the proofs below need them.
LEMMA RowFacts ==
    ASSUME TypeOK
    PROVE  /\ \A j \in Rows : /\ journal[j] \in JournalRow
                              /\ journal[j].op \in Operations
                              /\ journal[j].from \in Generations /\ journal[j].to \in Generations
                              /\ journal[j].resulting \in Nat
                              /\ journal[j].phase \in Phases
                              /\ ~Incomplete(j) => Cut(j)
<1>1. \A j \in Rows : journal[j] \in JournalRow
  BY JournalElement DEF TypeOK, Rows
<1> QED
  BY <1>1 DEF JournalRow, Incomplete, Cut

\* The registry's serving generation is the pointer's target as soon as the last
\* cutover is finalized.
LEMMA ServingIsTarget ==
    ASSUME TypeOK, CutoverInv, OneServing, RegistryInv,
           \A k \in Rows : PointerShows(k) => ~Incomplete(k)
    PROVE  /\ generation[pointer.generation].state = "SERVING"
           /\ generation[pointer.generation].protection = "SERVING"
<1>1. PICK s \in Generations : generation[s].state = "SERVING" /\ generation[s].protection = "SERVING"
  BY DEF OneServing
<1>2. CASE \A i \in Rows : ~Cut(i)
  <2>1. s = InitialServing
    BY <1>1, <1>2, RowFacts DEF RegistryInv, ServingIsLatest, RegistryShows
  <2>2. pointer.generation = InitialServing
    BY <1>2 DEF RegistryInv, PointerAtEnd, PointerShows
  <2> QED
    BY <1>1, <2>1, <2>2
<1>3. ASSUME NEW k \in Rows, PointerShows(k)
      PROVE  generation[pointer.generation].state = "SERVING"
             /\ generation[pointer.generation].protection = "SERVING"
  <2>1. ~Incomplete(k)
    BY <1>3
  <2>2. PICK i \in Rows : RegistryShows(i, s)
    BY <1>1, <2>1 DEF RegistryInv, ServingIsLatest
  <2>3. Cut(i) /\ Cut(k) /\ journal[i].resulting \in Nat /\ journal[k].resulting \in Nat
    BY <2>1, <2>2, RowFacts DEF RegistryShows
  <2>4. journal[i].resulting = journal[k].resulting
    BY <1>3, <2>1, <2>2, <2>3 DEF RegistryShows, PointerShows
  <2>5. i = k
    BY <2>3, <2>4 DEF CutoverInv, CutoverOnce
  <2> QED
    BY <1>1, <1>3, <2>2, <2>5 DEF RegistryShows, PointerShows
<1> QED
  BY <1>2, <1>3 DEF RegistryInv, PointerAtEnd

\* RegistryInv implies what the runs check.
LEMMA RegistryInvSuffices ==
    ASSUME TypeOK, CutoverInv, OneServing, RegistryInv
    PROVE  RegistryFollowsPointer /\ FinalizedInPointerOrder /\ PointerTargetRoutable
<1>1. RegistryFollowsPointer
  <2> SUFFICES ASSUME \A j \in Rows : Cut(j) => ~Incomplete(j)
               PROVE  /\ generation[pointer.generation].state = "SERVING"
                      /\ \A g \in Generations :
                             generation[g].protection = "ROLLBACK" <=> pointer.previous = g
    BY DEF RegistryFollowsPointer
  <2>1. generation[pointer.generation].state = "SERVING"
    BY ServingIsTarget DEF PointerShows
  <2> QED
    BY <2>1 DEF RegistryInv, RollbackIsPrevious
<1>2. PointerTargetRoutable
  <2>1. CASE \A k \in Rows : PointerShows(k) => ~Incomplete(k)
    BY <2>1, ServingIsTarget DEF PointerTargetRoutable, RoutableLifecycle
  <2>2. ASSUME NEW k \in Rows, PointerShows(k), Incomplete(k) PROVE PointerTargetRoutable
    <3> DEFINE o == journal[k].op
    <3>1. \A j \in Rows : journal[j].op = o => Incomplete(j)
      <4> SUFFICES ASSUME NEW j \in Rows, journal[j].op = o, ~Incomplete(j) PROVE FALSE
        OBVIOUS
      <4>1. Cut(j) /\ Cut(k) /\ j # k
        BY <2>2, RowFacts DEF PointerShows
      <4> QED
        BY <4>1 DEF CutoverInv, CutoverOnce
    <3>2. o \in Operations /\ pointer.generation = op[o].candidate
      BY <2>2, RowFacts DEF PointerShows, RegistryInv, RowsNameCandidates
    <3> HIDE DEF o
    <3>3. generation[pointer.generation].state = "READY" /\ generation[pointer.generation].protection = "NONE"
      BY <3>1, <3>2 DEF RegistryInv, WaitingAreReady, AwaitsCutover
    <3> QED
      BY <3>3 DEF PointerTargetRoutable, RoutableLifecycle
  <2> QED
    BY <2>1, <2>2
<1> QED
  BY <1>1, <1>2 DEF RegistryInv

-----------------------------------------------------------------------------
(***************************************************************************)
(* Steps that make no cutover.                                             *)
(***************************************************************************)

\* Rows keep what they say of their cutover; new ones have made none.
JournalStands ==
    /\ \A j \in Rows : /\ j \in Rows'
                       /\ journal'[j].op = journal[j].op
                       /\ journal'[j].from = journal[j].from
                       /\ journal'[j].to = journal[j].to
                       /\ journal'[j].resulting = journal[j].resulting
                       /\ Cut(j)' <=> Cut(j)
                       /\ Incomplete(j)' => Incomplete(j)
    /\ \A j \in Rows' : j \notin Rows => /\ ~Cut(j)' /\ Incomplete(j)'
                                         /\ journal'[j].op \in Operations
                                         /\ journal'[j].to = op[journal'[j].op].candidate

CandidatesStand == \A o \in Operations : op'[o].candidate = op[o].candidate

\* The pointer, the registry and what is finalized stay too.
QuietStep ==
    /\ JournalStands
    /\ \A j \in Rows : Incomplete(j)' <=> Incomplete(j)
    /\ pointer' = pointer
    /\ generation' = generation

\* The chain of cutovers and its end are kept by a step that makes none.
LEMMA ChainKept ==
    ASSUME TypeOK, RegistryInv, JournalStands, CandidatesStand, pointer' = pointer
    PROVE  CandidatesApart' /\ RowsNameCandidates' /\ Chained' /\ PointerAtEnd'
<1>1. CandidatesApart'
  BY DEF RegistryInv, CandidatesApart, CandidatesStand
<1>2. RowsNameCandidates'
  <2> SUFFICES ASSUME NEW j \in Rows' PROVE journal'[j].to = op'[journal'[j].op].candidate
    BY DEF RowsNameCandidates
  <2>1. CASE j \in Rows
    BY <2>1, RowFacts DEF RegistryInv, RowsNameCandidates, JournalStands, CandidatesStand
  <2>2. CASE j \notin Rows
    BY <2>2 DEF JournalStands, CandidatesStand
  <2> QED
    BY <2>1, <2>2
<1>3. \A j \in Rows' : Cut(j)' => j \in Rows /\ Cut(j)
  BY DEF JournalStands
<1>4. Chained'
  <2> SUFFICES ASSUME NEW j \in Rows', Cut(j)'
               PROVE  First(j)' \/ \E k \in Rows' : Cut(k)' /\ Replaces(j, k)'
    BY DEF Chained
  <2>1. j \in Rows /\ Cut(j)
    BY <1>3
  <2>2. CASE First(j)
    BY <1>3, <2>1, <2>2 DEF First, JournalStands
  <2>3. ASSUME NEW k \in Rows, Cut(k), Replaces(j, k) PROVE Cut(k)' /\ Replaces(j, k)'
    BY <1>3, <2>1, <2>3 DEF Replaces, JournalStands
  <2> QED
    BY <2>1, <2>2, <2>3 DEF RegistryInv, Chained, JournalStands
<1>5. PointerAtEnd'
  <2>1. CASE /\ pointer.generation = InitialServing /\ pointer.previous = None
             /\ \A i \in Rows : ~Cut(i)
    BY <1>3, <2>1 DEF PointerAtEnd
  <2>2. ASSUME NEW k \in Rows, PointerShows(k) PROVE PointerShows(k)'
    BY <1>3, <2>2 DEF PointerShows, JournalStands
  <2> QED
    BY <2>1, <2>2 DEF RegistryInv, PointerAtEnd, JournalStands
<1> QED
  BY <1>1, <1>2, <1>4, <1>5

\* Steps that read, prepare, verify, or only concern claims.
LEMMA QuietRegistry ==
    ASSUME TypeOK, RegistryInv, CandidatesStand, QuietStep
    PROVE  RegistryInv'
<1>0. /\ JournalStands
      /\ \A j \in Rows : Incomplete(j)' <=> Incomplete(j)
      /\ pointer' = pointer /\ generation' = generation
  BY DEF QuietStep
<1>1. CandidatesApart' /\ RowsNameCandidates' /\ Chained' /\ PointerAtEnd'
  BY <1>0, ChainKept
<1>2. \A j \in Rows' : (Cut(j)' => j \in Rows /\ Cut(j)) /\ (~Incomplete(j)' => j \in Rows /\ ~Incomplete(j))
  BY <1>0 DEF JournalStands
<1>3. WaitingAreReady'
  <2> SUFFICES ASSUME NEW o \in Operations,
                      \A j \in Rows' : journal'[j].op = o => Incomplete(j)'
               PROVE  /\ generation'[op'[o].candidate].state = "READY"
                      /\ generation'[op'[o].candidate].protection = "NONE"
    BY <1>0 DEF WaitingAreReady, AwaitsCutover
  <2>1. \A j \in Rows : journal[j].op = o => Incomplete(j)
    BY <1>0 DEF JournalStands
  <2> QED
    BY <1>0, <2>1 DEF RegistryInv, WaitingAreReady, AwaitsCutover, CandidatesStand
<1>4. ServingIsLatest'
  <2> SUFFICES ASSUME NEW g \in Generations, generation[g].state = "SERVING"
               PROVE  \/ g = InitialServing /\ \A i \in Rows' : Incomplete(i)'
                      \/ \E k \in Rows' : RegistryShows(k, g)'
    BY <1>0 DEF ServingIsLatest
  <2>1. CASE g = InitialServing /\ \A i \in Rows : Incomplete(i)
    BY <1>0, <1>2, <2>1
  <2>2. ASSUME NEW k \in Rows, RegistryShows(k, g) PROVE RegistryShows(k, g)'
    BY <1>0, <1>2, <2>2 DEF RegistryShows, JournalStands
  <2> QED
    BY <1>0, <2>1, <2>2 DEF RegistryInv, ServingIsLatest, JournalStands
<1>5. FinalizedInPointerOrder'
  BY <1>0, <1>2 DEF RegistryInv, FinalizedInPointerOrder, JournalStands
<1>6. RollbackIsPrevious'
  BY <1>0, <1>2 DEF RegistryInv, RollbackIsPrevious, JournalStands
<1> QED
  BY <1>1, <1>3, <1>4, <1>5, <1>6 DEF RegistryInv

-----------------------------------------------------------------------------
(***************************************************************************)
(* The steps that change the pointer or the registry.                      *)
(***************************************************************************)

\* The cutover of row j: the chain grows by one at its end (casPointer).
CutsRow(j) ==
    /\ ~Cut(j)
    /\ PointerMatches(j)
    /\ Rows' = Rows
    /\ \A i \in Rows : i # j => journal'[i] = journal[i]
    /\ journal'[j].op = journal[j].op
    /\ journal'[j].from = journal[j].from
    /\ journal'[j].to = journal[j].to
    /\ journal'[j].phase = "POINTER_UPDATED"
    /\ journal'[j].resulting = pointer.version + 1
    /\ pointer' = [generation |-> journal[j].to, previous |-> pointer.generation,
                   version |-> pointer.version + 1]
    /\ generation' = generation

\* casPointer keeps the invariant.
LEMMA CutoverExtendsChain ==
    ASSUME TypeOK, CutoverInv, RegistryInv, CandidatesStand, NEW j \in Rows, CutsRow(j)
    PROVE  RegistryInv'
<1>1. /\ Cut(j)' /\ Incomplete(j)' /\ Incomplete(j) /\ ~Cut(j)
      /\ \A i \in Rows : i # j => (Cut(i)' <=> Cut(i)) /\ (Incomplete(i)' <=> Incomplete(i))
  BY DEF CutsRow, Cut, Incomplete
<1>2. /\ pointer.version \in Nat
      /\ \A i \in Rows : Cut(i) => journal[i].resulting \in Nat /\ journal[i].resulting <= pointer.version
  BY RowFacts DEF TypeOK, Pointer, CutoverInv
<1>3. /\ CandidatesApart'
      /\ RowsNameCandidates'
  BY RowFacts DEF RegistryInv, CandidatesApart, RowsNameCandidates, CandidatesStand, CutsRow
<1>4. \A i \in Rows : Cut(i) => /\ i # j /\ Cut(i)'
                                /\ journal'[i] = journal[i]
                                /\ journal'[i].resulting < journal'[j].resulting
  BY <1>1, <1>2 DEF CutsRow
<1>5. ASSUME NEW i \in Rows, Cut(i) PROVE First(i)' \/ \E k \in Rows : Cut(k)' /\ Replaces(i, k)'
  <2>1. CASE First(i)
    BY <1>1, <1>2, <1>4, <1>5, <2>1 DEF First, CutsRow
  <2>2. ASSUME NEW k \in Rows, Cut(k), Replaces(i, k) PROVE Cut(k)' /\ Replaces(i, k)'
    BY <1>1, <1>2, <1>4, <1>5, <2>2 DEF Replaces, CutsRow
  <2> QED
    BY <1>5, <2>1, <2>2 DEF RegistryInv, Chained
<1>6. First(j)' \/ \E k \in Rows : Cut(k)' /\ Replaces(j, k)'
  <2>1. journal'[j].from = pointer.generation
    BY DEF CutsRow, PointerMatches
  <2>2. journal'[j].resulting \in Nat
    BY <1>2 DEF CutsRow
  <2>3. CASE pointer.generation = InitialServing /\ \A i \in Rows : ~Cut(i)
    BY <1>1, <2>1, <2>2, <2>3 DEF First, CutsRow
  <2>4. ASSUME NEW k \in Rows, PointerShows(k) PROVE Cut(k)' /\ Replaces(j, k)'
    <3>1. Cut(k)
      BY <2>4 DEF PointerShows
    <3>2. journal'[j].from = journal'[k].to /\ journal'[k].resulting < journal'[j].resulting
      BY <1>4, <2>1, <2>4, <3>1 DEF PointerShows
    <3>3. ASSUME NEW i \in Rows, Cut(i)'
          PROVE  \/ journal'[i].resulting <= journal'[k].resulting
                 \/ journal'[j].resulting <= journal'[i].resulting
      BY <1>1, <1>4, <2>2, <2>4, <3>1, <3>3 DEF PointerShows
    <3> QED
      BY <1>4, <3>1, <3>2, <3>3 DEF Replaces, CutsRow
  <2> QED
    BY <2>3, <2>4 DEF RegistryInv, PointerAtEnd
<1>7. Chained'
  BY <1>1, <1>5, <1>6 DEF Chained, CutsRow
<1>8. PointerShows(j)'
  <2>1. /\ pointer'.generation = journal'[j].to
        /\ pointer'.previous = journal'[j].from
    BY DEF CutsRow, PointerMatches
  <2>2. \A i \in Rows : Cut(i)' => journal'[i].resulting <= journal'[j].resulting
    BY <1>1, <1>2, <1>4 DEF CutsRow
  <2> QED
    BY <1>1, <2>1, <2>2 DEF PointerShows, CutsRow
<1>9. PointerAtEnd'
  BY <1>8 DEF PointerAtEnd, CutsRow
<1>10. WaitingAreReady'
  <2> SUFFICES ASSUME NEW o \in Operations,
                      \A i \in Rows' : journal'[i].op = o => Incomplete(i)'
               PROVE  /\ generation'[op'[o].candidate].state = "READY"
                      /\ generation'[op'[o].candidate].protection = "NONE"
    BY DEF WaitingAreReady, AwaitsCutover
  <2>1. \A i \in Rows : journal[i].op = o => Incomplete(i)
    BY <1>1 DEF CutsRow
  <2> QED
    BY <2>1 DEF RegistryInv, WaitingAreReady, AwaitsCutover, CandidatesStand, CutsRow
<1>11. \A i \in Rows : ~Incomplete(i)' => ~Incomplete(i) /\ i # j /\ journal'[i] = journal[i]
  BY <1>1 DEF CutsRow
<1>12. ServingIsLatest'
  <2> SUFFICES ASSUME NEW g \in Generations, generation[g].state = "SERVING"
               PROVE  \/ g = InitialServing /\ \A i \in Rows' : Incomplete(i)'
                      \/ \E k \in Rows' : RegistryShows(k, g)'
    BY DEF ServingIsLatest, CutsRow
  <2>1. CASE g = InitialServing /\ \A i \in Rows : Incomplete(i)
    BY <1>1, <2>1 DEF CutsRow
  <2>2. ASSUME NEW k \in Rows, RegistryShows(k, g) PROVE RegistryShows(k, g)'
    BY <1>1, <1>11, <2>2 DEF RegistryShows, CutsRow
  <2> QED
    BY <2>1, <2>2 DEF RegistryInv, ServingIsLatest, CutsRow
<1>13. FinalizedInPointerOrder'
  <2> SUFFICES ASSUME NEW i \in Rows, NEW k \in Rows, Cut(i)', ~Incomplete(k)',
                      journal'[i].resulting < journal'[k].resulting
               PROVE  ~Incomplete(i)'
    BY DEF FinalizedInPointerOrder, CutsRow
  <2>1. Cut(k) /\ ~Incomplete(k) /\ journal'[k] = journal[k]
    BY <1>11, RowFacts
  <2>2. i # j
    BY <1>2, <1>4, <2>1 DEF CutsRow
  <2> QED
    BY <1>1, <1>4, <2>1, <2>2 DEF RegistryInv, FinalizedInPointerOrder
<1>14. RollbackIsPrevious'
  BY <1>1 DEF RollbackIsPrevious, CutsRow
<1> QED
  BY <1>3, <1>7, <1>9, <1>10, <1>12, <1>13, <1>14 DEF RegistryInv

\* The cutover that can be finalized is the first one that is not, and all that
\* came before it are (finalizePromotion checks that its source serves).
LEMMA FinalizesNext ==
    ASSUME TypeOK, CutoverInv, OneServing, RegistryInv, NEW j \in Rows, CanFinalize(j)
    PROVE  /\ Cut(j) /\ Incomplete(j)
           /\ \A i \in Rows : Cut(i) /\ i # j /\ journal[i].resulting <= journal[j].resulting =>
                  ~Incomplete(i)
           /\ \A i \in Rows : ~Incomplete(i) => journal[i].resulting <= journal[j].resulting
<1> DEFINE s == journal[j].from
<1>1. Cut(j) /\ Incomplete(j) /\ s \in Generations /\ generation[s].state = "SERVING"
  BY RowFacts DEF CanFinalize, Cut, Incomplete
<1>2. \A i \in Rows : journal[i].to # InitialServing
  BY RowFacts DEF RegistryInv, RowsNameCandidates, CandidatesApart
<1>3. \A i \in Rows : journal[i].resulting \in Nat
  BY RowFacts
<1>4. CASE s = InitialServing /\ \A i \in Rows : Incomplete(i)
  <2>1. First(j)
    BY <1>1, <1>2, <1>4 DEF RegistryInv, Chained, Replaces
  <2>2. \A i \in Rows : Cut(i) /\ i # j => ~(journal[i].resulting <= journal[j].resulting)
    BY <1>1, <1>3, <2>1 DEF First, CutoverInv, CutoverOnce
  <2> QED
    BY <1>1, <1>4, <2>2
<1>5. ASSUME NEW k \in Rows, RegistryShows(k, s)
      PROVE  /\ \A i \in Rows : Cut(i) /\ i # j /\ journal[i].resulting <= journal[j].resulting =>
                    ~Incomplete(i)
             /\ \A i \in Rows : ~Incomplete(i) => journal[i].resulting <= journal[j].resulting
  <2>1. Cut(k) /\ ~Incomplete(k) /\ s = journal[k].to
    BY <1>5, RowFacts DEF RegistryShows
  <2>2. ~First(j)
    BY <1>2, <2>1 DEF First
  <2>3. PICK m \in Rows : Cut(m) /\ Replaces(j, m)
    BY <1>1, <2>2 DEF RegistryInv, Chained
  <2>4. journal[m].to = journal[k].to
    BY <2>1, <2>3 DEF Replaces
  <2>5. journal[m].op = journal[k].op
    BY <2>4, RowFacts DEF RegistryInv, RowsNameCandidates, CandidatesApart
  <2>6. m = k
    BY <2>1, <2>3, <2>5 DEF CutoverInv, CutoverOnce
  <2>7. /\ journal[k].resulting < journal[j].resulting
        /\ \A i \in Rows : Cut(i) => \/ journal[i].resulting <= journal[k].resulting
                                     \/ journal[j].resulting <= journal[i].resulting
    BY <2>3, <2>6 DEF Replaces
  <2>8. ASSUME NEW i \in Rows, Cut(i), i # j, journal[i].resulting <= journal[j].resulting
        PROVE  ~Incomplete(i)
    <3>1. journal[i].resulting # journal[j].resulting
      BY <1>1, <2>8 DEF CutoverInv, CutoverOnce
    <3>2. journal[i].resulting <= journal[k].resulting
      BY <1>3, <2>7, <2>8, <3>1
    <3>3. CASE i = k
      BY <2>1, <3>3
    <3>4. CASE i # k
      <4>1. journal[i].resulting < journal[k].resulting
        BY <1>3, <2>1, <2>8, <3>2, <3>4 DEF CutoverInv, CutoverOnce
      <4> QED
        BY <2>1, <2>8, <4>1 DEF RegistryInv, FinalizedInPointerOrder
    <3> QED
      BY <3>3, <3>4
  <2>9. ASSUME NEW i \in Rows, ~Incomplete(i) PROVE journal[i].resulting <= journal[j].resulting
    <3>1. journal[i].resulting <= journal[k].resulting
      BY <1>5, <2>9 DEF RegistryShows
    <3> QED
      BY <1>3, <2>7, <3>1
  <2> QED
    BY <2>8, <2>9
<1> QED
  BY <1>1, <1>4, <1>5 DEF RegistryInv, ServingIsLatest

\* The rotated registry: who serves, who is kept for rollback, who is untouched.
LEMMA RotatedRegistry ==
    ASSUME TypeOK, OneServing, NEW j \in Rows, CanFinalize(j),
           generation' = [g \in Generations |-> RotatedRow(g, j)]
    PROVE  \A g \in Generations :
             /\ generation'[g].state = "SERVING" <=> g = journal[j].to
             /\ generation'[g].protection = "ROLLBACK" <=> g = journal[j].from
             /\ g # journal[j].to /\ AwaitsCutover(g) => generation'[g] = generation[g]
<1> DEFINE from == journal[j].from
           to == journal[j].to
<1>1. from \in Generations /\ to \in Generations
  BY RowFacts
<1>2. generation[from].state = "SERVING" /\ generation[to].state = "READY" /\ from # to
  BY DEF CanFinalize
<1>3. \A g \in Generations : generation[g].state = "SERVING" <=> g = from
  BY <1>1, <1>2 DEF OneServing
<1> SUFFICES ASSUME NEW g \in Generations
             PROVE  /\ generation'[g].state = "SERVING" <=> g = to
                    /\ generation'[g].protection = "ROLLBACK" <=> g = from
                    /\ g # to /\ AwaitsCutover(g) => generation'[g] = generation[g]
  OBVIOUS
<1>4. generation[g] \in GenerationRow /\ generation'[g] = RotatedRow(g, j)
  BY DEF TypeOK
<1>5. CASE g = from
  BY <1>2, <1>4, <1>5 DEF RotatedRow, AwaitsCutover
<1>6. CASE g # from /\ g = to
  BY <1>2, <1>4, <1>6 DEF RotatedRow
<1>7. CASE g # from /\ g # to
  <2>1. generation'[g].state # "SERVING" /\ generation'[g].protection # "ROLLBACK"
    BY <1>3, <1>4, <1>7 DEF RotatedRow, GenerationRow
  <2>2. generation[g].protection = "NONE" => generation'[g] = generation[g]
    BY <1>4, <1>7 DEF RotatedRow, GenerationRow
  <2> QED
    BY <1>7, <2>1, <2>2 DEF AwaitsCutover
<1> QED
  BY <1>5, <1>6, <1>7

FinalizesRow(j) ==
    /\ CanFinalize(j)
    /\ generation' = [g \in Generations |-> RotatedRow(g, j)]
    /\ journal' = [journal EXCEPT ![j].phase = "GENERATION_FINALIZED"]
    /\ pointer' = pointer

\* finalizePromotion takes the registry one cutover further.
LEMMA FinalizationFollowsChain ==
    ASSUME TypeOK, CutoverInv, OneServing, RegistryInv, CandidatesStand,
           NEW j \in Rows, FinalizesRow(j)
    PROVE  RegistryInv'
<1>0. /\ CanFinalize(j)
      /\ generation' = [g \in Generations |-> RotatedRow(g, j)]
      /\ journal' = [journal EXCEPT ![j].phase = "GENERATION_FINALIZED"]
      /\ pointer' = pointer
  BY DEF FinalizesRow
<1>1. /\ Cut(j) /\ Incomplete(j)
      /\ \A i \in Rows : Cut(i) /\ i # j /\ journal[i].resulting <= journal[j].resulting =>
             ~Incomplete(i)
      /\ \A i \in Rows : ~Incomplete(i) => journal[i].resulting <= journal[j].resulting
  BY <1>0, FinalizesNext
<1>2. \A g \in Generations :
        /\ generation'[g].state = "SERVING" <=> g = journal[j].to
        /\ generation'[g].protection = "ROLLBACK" <=> g = journal[j].from
        /\ g # journal[j].to /\ AwaitsCutover(g) => generation'[g] = generation[g]
  BY <1>0, RotatedRegistry
<1>3. /\ Rows' = Rows
      /\ \A i \in Rows : /\ journal'[i].op = journal[i].op
                         /\ journal'[i].from = journal[i].from
                         /\ journal'[i].to = journal[i].to
                         /\ journal'[i].resulting = journal[i].resulting
                         /\ i # j => journal'[i].phase = journal[i].phase
      /\ journal'[j].phase = "GENERATION_FINALIZED"
  BY <1>0, RowFacts DEF Rows, JournalRow
<1>4. /\ \A i \in Rows : Cut(i)' <=> Cut(i)
      /\ ~Incomplete(j)'
      /\ \A i \in Rows : i # j => (Incomplete(i)' <=> Incomplete(i))
  BY <1>1, <1>3 DEF Cut, Incomplete
<1>5. JournalStands
  BY <1>1, <1>3, <1>4 DEF JournalStands
<1>6. CandidatesApart' /\ RowsNameCandidates' /\ Chained' /\ PointerAtEnd'
  BY <1>0, <1>5, ChainKept
<1>7. \A i \in Rows : journal[i].resulting \in Nat
  BY RowFacts
<1>8. WaitingAreReady'
  <2> SUFFICES ASSUME NEW o \in Operations,
                      \A i \in Rows : journal[i].op = o => Incomplete(i)'
               PROVE  AwaitsCutover(op[o].candidate)'
    BY <1>3 DEF WaitingAreReady, AwaitsCutover, CandidatesStand
  <2>1. AwaitsCutover(op[o].candidate)
    BY <1>1, <1>4 DEF RegistryInv, WaitingAreReady, AwaitsCutover
  <2>2. op[o].candidate \in Generations
    BY DEF TypeOK, Operation
  <2>3. op[o].candidate # journal[j].to
    <3>1. journal[j].op # o
      BY <1>4
    <3> QED
      BY <3>1, RowFacts DEF RegistryInv, RowsNameCandidates, CandidatesApart
  <2>4. generation'[op[o].candidate] = generation[op[o].candidate]
    BY <1>2, <2>1, <2>2, <2>3
  <2> QED
    BY <2>1, <2>4 DEF AwaitsCutover, CandidatesStand
<1>9. RegistryShows(j, journal[j].to)'
  <2>1. \A i \in Rows : ~Incomplete(i)' => journal[i].resulting <= journal[j].resulting
    BY <1>1, <1>4, <1>7
  <2> QED
    BY <1>3, <1>4, <2>1 DEF RegistryShows
<1>10. ServingIsLatest'
  BY <1>2, <1>3, <1>9 DEF ServingIsLatest, RegistryShows
<1>11. FinalizedInPointerOrder'
  <2> SUFFICES ASSUME NEW i \in Rows, NEW k \in Rows, Cut(i), ~Incomplete(k)',
                      journal[i].resulting < journal[k].resulting, i # j
               PROVE  ~Incomplete(i)
    BY <1>3, <1>4 DEF FinalizedInPointerOrder
  <2>1. CASE k = j
    BY <1>1, <1>7, <2>1
  <2>2. CASE k # j
    BY <1>4, <2>2 DEF RegistryInv, FinalizedInPointerOrder
  <2> QED
    BY <2>1, <2>2
<1>12. RollbackIsPrevious'
  <2> SUFFICES ASSUME \A i \in Rows : Cut(i)' => ~Incomplete(i)'
               PROVE  \A g \in Generations :
                        generation'[g].protection = "ROLLBACK" <=> pointer'.previous = g
    BY <1>3 DEF RollbackIsPrevious
  <2>1. PICK k \in Rows : PointerShows(k)
    BY <1>1 DEF RegistryInv, PointerAtEnd
  <2>2. Cut(k) /\ journal[j].resulting <= journal[k].resulting
    BY <1>1, <2>1 DEF PointerShows
  <2>3. k = j
    <3>1. k # j => journal[k].resulting <= journal[j].resulting
      BY <1>1, <1>4, <2>2
    <3> QED
      BY <1>1, <1>7, <2>2, <3>1 DEF CutoverInv, CutoverOnce
  <2>4. pointer.previous = journal[j].from
    BY <1>1, <2>1, <2>3 DEF PointerShows
  <2> QED
    BY <1>0, <1>2, <2>4
<1> QED
  BY <1>6, <1>8, <1>10, <1>11, <1>12 DEF RegistryInv

\* The operator's release finds every cutover finalized: the previous
\* generation of a half-done one is not released (releaseRollbackProtection).
LEMMA ReleaseFindsFinalized ==
    ASSUME TypeOK, CutoverInv, OneServing, RegistryInv, NEW r \in Generations, ReleaseAllowed(r)
    PROVE  /\ \E k \in Rows : PointerShows(k)
           /\ \A i \in Rows : Cut(i) => ~Incomplete(i)
<1>1. pointer.previous = r /\ r # None
  BY StoreAssumption DEF ReleaseAllowed
<1>2. PICK k \in Rows : PointerShows(k)
  BY <1>1 DEF RegistryInv, PointerAtEnd
<1>3. ~Incomplete(k) /\ Cut(k)
  BY <1>1, <1>2 DEF PointerShows, ReleaseAllowed, Touches
<1>4. \A i \in Rows : journal[i].resulting \in Nat
  BY RowFacts
<1>5. ASSUME NEW i \in Rows, Cut(i) PROVE ~Incomplete(i)
  <2>1. journal[i].resulting <= journal[k].resulting
    BY <1>2, <1>5 DEF PointerShows
  <2>2. CASE i = k
    BY <1>3, <2>2
  <2>3. CASE i # k
    <3>1. journal[i].resulting < journal[k].resulting
      BY <1>3, <1>4, <1>5, <2>1, <2>3 DEF CutoverInv, CutoverOnce
    <3> QED
      BY <1>3, <1>5, <3>1 DEF RegistryInv, FinalizedInPointerOrder
  <2> QED
    BY <2>2, <2>3
<1> QED
  BY <1>2, <1>5

\* releaseRollbackProtection leaves nothing kept for rollback, in the registry
\* and in the pointer.
LEMMA ReleaseKeepsRegistry ==
    ASSUME TypeOK, CutoverInv, OneServing, RegistryInv, NEW r \in Generations,
           ReleaseRollbackProtection(r)
    PROVE  RegistryInv'
<1>1. /\ ReleaseAllowed(r)
      /\ pointer' = [pointer EXCEPT !.previous = None, !.version = @ + 1]
      /\ generation' = [generation EXCEPT ![r] = [state |-> @.state, protection |-> "NONE",
                                                  version |-> @.version + 1]]
      /\ journal' = journal /\ op' = op
  BY DEF ReleaseRollbackProtection, storeVars
<1>2. pointer.previous = r /\ r # None /\ generation[r].protection = "ROLLBACK"
  BY <1>1, StoreAssumption DEF ReleaseAllowed
<1>3. PICK k \in Rows : PointerShows(k)
  BY <1>1, ReleaseFindsFinalized
<1>4. \A i \in Rows : Cut(i) => ~Incomplete(i)
  BY <1>1, ReleaseFindsFinalized
<1>5. ~Incomplete(k) /\ Cut(k)
  BY <1>3, <1>4 DEF PointerShows
<1>6. \A g \in Generations : generation[g].protection = "ROLLBACK" <=> g = r
  BY <1>2, <1>4 DEF RegistryInv, RollbackIsPrevious
<1>7. \A g \in Generations :
        /\ generation'[g].state = generation[g].state
        /\ generation'[g].protection = IF g = r THEN "NONE" ELSE generation[g].protection
  BY <1>1 DEF TypeOK
<1>8. pointer'.generation = pointer.generation /\ pointer'.previous = None
  BY <1>1 DEF TypeOK, Pointer
<1>9. /\ Rows' = Rows
       /\ \A i \in Rows : (Cut(i)' <=> Cut(i)) /\ (Incomplete(i)' <=> Incomplete(i))
  BY <1>1 DEF Rows, Cut, Incomplete
<1>10. CandidatesApart' /\ RowsNameCandidates' /\ Chained'
  BY <1>1, <1>9 DEF RegistryInv, CandidatesApart, RowsNameCandidates, Chained, First, Replaces
<1>11. PointerShows(k)'
  BY <1>1, <1>3, <1>5, <1>8, <1>9 DEF PointerShows
<1>12. PointerAtEnd'
  BY <1>9, <1>11 DEF PointerAtEnd
<1>13. WaitingAreReady'
  <2> SUFFICES ASSUME NEW o \in Operations, \A i \in Rows : journal[i].op = o => Incomplete(i)
               PROVE  /\ generation'[op[o].candidate].state = "READY"
                      /\ generation'[op[o].candidate].protection = "NONE"
    BY <1>1, <1>9 DEF WaitingAreReady, AwaitsCutover
  <2>1. op[o].candidate \in Generations
    BY DEF TypeOK, Operation
  <2> QED
    BY <1>7, <2>1 DEF RegistryInv, WaitingAreReady, AwaitsCutover
<1>14. ServingIsLatest'
  BY <1>1, <1>7, <1>9 DEF RegistryInv, ServingIsLatest, RegistryShows
<1>15. FinalizedInPointerOrder'
  BY <1>1, <1>9 DEF RegistryInv, FinalizedInPointerOrder
<1>16. RollbackIsPrevious'
  BY StoreAssumption, <1>6, <1>7, <1>8 DEF RollbackIsPrevious
<1> QED
  BY <1>10, <1>12, <1>13, <1>14, <1>15, <1>16 DEF RegistryInv

-----------------------------------------------------------------------------
(***************************************************************************)
(* Every step.                                                             *)
(***************************************************************************)

\* No operation changes its candidate.
LEMMA CandidatesNeverChange == TypeOK /\ [PromotionNext]_vars => CandidatesStand
<1> SUFFICES ASSUME TypeOK, [PromotionNext]_vars PROVE CandidatesStand
  OBVIOUS
<1>1. ASSUME NEW c \in Coordinators, PromotionStep(c) PROVE CandidatesStand
  BY <1>1, StepFrame DEF CandidatesStand
<1>2. ASSUME NEW c \in Coordinators, ClaimNext(c) PROVE CandidatesStand
  <2>1. PICK o \in Claimable :
          op' = [op EXCEPT ![o] = [@ EXCEPT !.owner = c, !.live = TRUE, !.fence = NextFence(o)]]
    BY <1>2 DEF ClaimNext
  <2> QED
    BY <2>1 DEF Claimable, CandidatesStand, TypeOK, Operation
<1>3. ASSUME NEW o \in Operations, LeaseRunsOut(o) \/ LeaseOutlived(o) PROVE CandidatesStand
  <2>1. op' = [op EXCEPT ![o].live = FALSE]
    BY <1>3 DEF LeaseRunsOut, LeaseOutlived
  <2> QED
    BY <2>1 DEF CandidatesStand, TypeOK, Operation
<1>4. CASE op' = op
  BY <1>4 DEF CandidatesStand
<1> QED
  BY <1>1, <1>2, <1>3, <1>4 DEF PromotionNext, StoreStep, Interrupt, ReleaseRollbackProtection,
     vars, storeVars

\* All that a step can do to the pointer, the registry and the cutovers.
LEMMA StepShapes ==
    ASSUME TypeOK, [PromotionNext]_vars
    PROVE  \/ QuietStep
           \/ \E j \in Rows : CutsRow(j)
           \/ \E j \in Rows : FinalizesRow(j)
           \/ \E g \in Generations : ReleaseRollbackProtection(g)
<1>1. \A i \in Rows : journal[i] \in JournalRow
  BY RowFacts
<1>2. ASSUME journal' = journal, pointer' = pointer, generation' = generation PROVE QuietStep
  BY <1>2 DEF QuietStep, JournalStands, Rows, Cut, Incomplete
<1>3. ASSUME NEW c \in Coordinators, PreparePromotion(c) PROVE QuietStep
  <2>0. PICK n : n = Len(journal) + 1
    OBVIOUS
  <2> DEFINE row == [op |-> work[c].op, from |-> work[c].mem[1], to |-> Candidate(c),
                     expected |-> work[c].mem[2], phase |-> "PREPARING", resulting |-> 0]
  <2>1. work[c].mem \in Generations \X Nat /\ work[c].op \in Operations
    BY <1>3, AtWork, RememberedVersion DEF PreparePromotion, At, PrepareSteps, Working
  <2>2. row \in JournalRow
    BY <2>1 DEF TypeOK, Candidate, Operation, JournalRow, Phases
  <2>3. /\ journal' = Append(journal, row)
        /\ pointer' = pointer /\ generation' = generation
    BY <1>3 DEF PreparePromotion
  <2>4. row.op \in Operations /\ row.to = op[row.op].candidate /\ row.phase = "PREPARING"
    BY <2>1 DEF Candidate
  <2> HIDE DEF row
  <2>5. /\ Rows' = Rows \cup {n}
        /\ \A i \in Rows : journal'[i] = journal[i]
        /\ journal'[n] = row
    BY <2>0, <2>2, <2>3, JournalAppend DEF TypeOK, Rows
  <2> QED
    BY <2>3, <2>4, <2>5 DEF QuietStep, JournalStands, Cut, Incomplete
<1>4. ASSUME NEW c \in Coordinators, CasPointer(c) PROVE QuietStep \/ \E j \in Rows : CutsRow(j)
  <2>1. PICK j \in Rows : j = Row(c)
    BY <1>4, WorkingRow DEF CasPointer, RowSteps
  <2>2. generation' = generation
    BY <1>4 DEF CasPointer
  <2>3. CASE ~Cut(j) /\ PointerMatches(j)
    <3> DEFINE row == [journal[j] EXCEPT !.phase = "POINTER_UPDATED",
                                         !.resulting = pointer.version + 1]
    <3>1. /\ row.op = journal[j].op /\ row.from = journal[j].from /\ row.to = journal[j].to
          /\ row.phase = "POINTER_UPDATED" /\ row.resulting = pointer.version + 1
      BY <1>1 DEF JournalRow
    <3>2. /\ journal' = [journal EXCEPT ![j] = row]
          /\ pointer' = [generation |-> journal[j].to, previous |-> pointer.generation,
                         version |-> pointer.version + 1]
      BY <1>4, <2>1, <2>3 DEF CasPointer
    <3> HIDE DEF row
    <3>3. CutsRow(j)
      BY <2>2, <2>3, <3>1, <3>2 DEF CutsRow, Rows
    <3> QED
      BY <3>3
  <2> QED
    BY <1>2, <1>4, <2>1, <2>2, <2>3 DEF CasPointer
<1>5. ASSUME NEW c \in Coordinators, MarkRouterVerified(c) PROVE QuietStep
  <2>1. PICK j \in Rows : j = Row(c)
    BY <1>5, WorkingRow DEF MarkRouterVerified, RowSteps
  <2>2. pointer' = pointer /\ generation' = generation
    BY <1>5 DEF MarkRouterVerified
  <2>3. CASE /\ journal[j].phase \in {"POINTER_UPDATED", "ROUTER_VERIFIED"}
             /\ journal' = [journal EXCEPT ![j].phase = "ROUTER_VERIFIED"]
    BY <1>1, <2>2, <2>3 DEF QuietStep, JournalStands, Rows, Cut, Incomplete, JournalRow
  <2> QED
    BY <1>2, <1>5, <2>1, <2>2, <2>3 DEF MarkRouterVerified
<1>6. ASSUME NEW c \in Coordinators, FinalizePromotion(c)
      PROVE  QuietStep \/ \E j \in Rows : FinalizesRow(j)
  <2>1. PICK j \in Rows : j = Row(c)
    BY <1>6, WorkingRow DEF FinalizePromotion, RowSteps
  <2> QED
    BY <1>2, <1>6, <2>1 DEF FinalizePromotion, FinalizesRow
<1> QED
  BY <1>2, <1>3, <1>4, <1>5, <1>6 DEF PromotionNext, PromotionStep, ReadPointerToPrepare,
     LookupPromotion, AdvanceToPromoting, LoadPromotion, ObserveRouters, AdvanceToPromoted,
     ReadPointerToProtect, BeginRetirement, AdvanceToProtected, tableVars, vars

\* Every step keeps the registry in line with the chain of cutovers.
LEMMA NextRegistryInv ==
    TypeOK /\ CutoverInv /\ OneServing /\ RegistryInv /\ [PromotionNext]_vars => RegistryInv'
<1> SUFFICES ASSUME TypeOK, CutoverInv, OneServing, RegistryInv, [PromotionNext]_vars
             PROVE  RegistryInv'
  OBVIOUS
<1>1. CandidatesStand
  BY CandidatesNeverChange
<1>2. CASE QuietStep
  BY <1>1, <1>2, QuietRegistry
<1>3. ASSUME NEW j \in Rows, CutsRow(j) PROVE RegistryInv'
  BY <1>1, <1>3, CutoverExtendsChain
<1>4. ASSUME NEW j \in Rows, FinalizesRow(j) PROVE RegistryInv'
  BY <1>1, <1>4, FinalizationFollowsChain
<1>5. ASSUME NEW g \in Generations, ReleaseRollbackProtection(g) PROVE RegistryInv'
  BY <1>5, ReleaseKeepsRegistry
<1> QED
  BY <1>2, <1>3, <1>4, <1>5, StepShapes

\* Before any promotion the initial generation serves and every candidate waits.
LEMMA InitRegistryInv == PromotionInit => RegistryInv
<1> SUFFICES ASSUME PromotionInit PROVE RegistryInv
  OBVIOUS
<1>1. PICK cand \in [Operations -> Generations \ {InitialServing}] :
        /\ \A o, p \in Operations : cand[o] = cand[p] => o = p
        /\ op = [o \in Operations |-> Unclaimed("READY_TO_PROMOTE", cand[o])]
        /\ generation = [g \in Generations |->
             IF g = InitialServing
             THEN [state |-> "SERVING", protection |-> "SERVING", version |-> 1]
             ELSE [state |-> IF \E o \in Operations : cand[o] = g THEN "READY" ELSE "ABSENT",
                   protection |-> "NONE", version |-> 1]]
  BY DEF PromotionInit
<1>2. /\ Rows = {}
      /\ pointer = [generation |-> InitialServing, previous |-> None, version |-> 1]
  BY DEF PromotionInit, Rows
<1>3. \A o \in Operations : op[o].candidate = cand[o] /\ cand[o] \in Generations \ {InitialServing}
  BY <1>1 DEF Unclaimed
<1>4. CandidatesApart
  BY <1>1, <1>3 DEF CandidatesApart
<1>5. WaitingAreReady
  BY <1>1, <1>3 DEF WaitingAreReady, AwaitsCutover
<1>6. ServingIsLatest
  <2> SUFFICES ASSUME NEW g \in Generations, generation[g].state = "SERVING"
               PROVE  g = InitialServing
    BY <1>2 DEF ServingIsLatest
  <2> QED
    BY <1>1
<1>7. RollbackIsPrevious
  <2>1. \A g \in Generations : generation[g].protection # "ROLLBACK"
    BY <1>1
  <2> QED
    BY <1>2, <2>1, StoreAssumption DEF RollbackIsPrevious
<1> QED
  BY <1>2, <1>4, <1>5, <1>6, <1>7
  DEF RegistryInv, RowsNameCandidates, Chained, PointerAtEnd, FinalizedInPointerOrder

\* The invariants together, in every reachable state.
THEOREM RegistryInvariant == PromotionSpec => [](TypeOK /\ CutoverInv /\ OneServing /\ RegistryInv)
<1>1. PromotionInit => CutoverInv /\ OneServing /\ RegistryInv
  BY InitRegistryInv, PromotionAssumption
  DEF PromotionInit, CutoverInv, CutoverOnce, Rows, Inserting, At, Idle, PrepareSteps, OneServing
<1>2. TypeOK /\ CutoverInv /\ OneServing /\ RegistryInv /\ [PromotionNext]_vars =>
          (CutoverInv /\ OneServing /\ RegistryInv)'
  BY NextCutoverInv, NextOneServing, NextRegistryInv
<1> QED
  BY <1>1, <1>2, TypeCorrect, PTL DEF PromotionSpec

\* When no cutover is half way the registry says what the pointer says, however
\* many promotions, takeovers and releases came before (finalizePromotion,
\* releaseRollbackProtection).
THEOREM RegistryAlwaysFollowsPointer == PromotionSpec => []RegistryFollowsPointer
<1>1. TypeOK /\ CutoverInv /\ OneServing /\ RegistryInv => RegistryFollowsPointer
  BY RegistryInvSuffices
<1> QED
  BY <1>1, RegistryInvariant, PTL

\* Overlapping promotions are finalized in the order in which they moved the
\* pointer, for any number of them (finalizePromotion).
THEOREM FinalizationsFollowPointer == PromotionSpec => []FinalizedInPointerOrder
<1>1. TypeOK /\ CutoverInv /\ OneServing /\ RegistryInv => FinalizedInPointerOrder
  BY RegistryInvSuffices
<1> QED
  BY <1>1, RegistryInvariant, PTL

\* The pointer's target is always in a state the Query Router accepts, through
\* every cutover and every half-done finalization (casPointer, finalizePromotion).
THEOREM TargetAlwaysRoutable == PromotionSpec => []PointerTargetRoutable
<1>1. TypeOK /\ CutoverInv /\ OneServing /\ RegistryInv => PointerTargetRoutable
  BY RegistryInvSuffices
<1> QED
  BY <1>1, RegistryInvariant, PTL

-----------------------------------------------------------------------------
(***************************************************************************)
(* GenerationPromotion implements ServingCutover: the initial states map   *)
(* to its initial state and every step to one of its steps or to none.     *)
(***************************************************************************)

Inv == TypeOK /\ CutoverInv /\ OneServing /\ RegistryInv

\* The substitution for the abstract variables, named.
AbPending == {<<journal[j].resulting, journal[j].to>> : j \in HalfWay}
AbSettled == CHOOSE g \in Generations : generation[g].state = "SERVING"
AbRollback == IF KeptForRollback = {} THEN None ELSE CHOOSE g \in KeptForRollback : TRUE
AbFresh == {g \in Generations \ {InitialServing} : \A j \in Rows : Cut(j) => journal[j].to # g}

\* The steps of ServingCutover on the substitution.
Switches(g) ==
    /\ g \in AbFresh
    /\ pointer'.generation = g
    /\ pointer'.version = pointer.version + 1
    /\ AbPending' = AbPending \cup {<<pointer.version + 1, g>>}
    /\ AbFresh' = AbFresh \ {g}
    /\ AbSettled' = AbSettled /\ AbRollback' = AbRollback

Settles(p) ==
    /\ p \in AbPending
    /\ \A q \in AbPending : p[1] <= q[1]
    /\ AbSettled' = p[2]
    /\ AbPending' = AbPending \ {p}
    /\ AbRollback' = AbSettled
    /\ pointer' = pointer /\ AbFresh' = AbFresh

Releases ==
    /\ AbPending = {}
    /\ AbRollback # None
    /\ AbRollback' = None
    /\ pointer'.version = pointer.version + 1
    /\ pointer'.generation = pointer.generation
    /\ AbPending' = AbPending /\ AbSettled' = AbSettled /\ AbFresh' = AbFresh

Rests ==
    /\ pointer'.generation = pointer.generation /\ pointer'.version = pointer.version
    /\ AbPending' = AbPending /\ AbSettled' = AbSettled
    /\ AbRollback' = AbRollback /\ AbFresh' = AbFresh

\* They are its steps.
LEMMA AbstractSteps ==
    ASSUME \/ \E g \in Generations : Switches(g)
           \/ \E p \in AbPending : Settles(p)
           \/ Releases
           \/ Rests
    PROVE  [Cutover!Next]_Cutover!vars
<1>1. ASSUME NEW g \in Generations, Switches(g) PROVE Cutover!Switch(g)
  BY <1>1 DEF Switches, Cutover!Switch, AbPending, AbSettled, AbRollback, AbFresh
<1>2. ASSUME NEW p \in AbPending, Settles(p) PROVE Cutover!Settle
  BY <1>2 DEF Settles, Cutover!Settle, AbPending, AbSettled, AbRollback, AbFresh
<1>3. CASE Releases
  BY <1>3 DEF Releases, Cutover!Next, Cutover!Release, AbPending, AbSettled, AbRollback, AbFresh
<1>4. CASE Rests
  BY <1>4 DEF Rests, Cutover!vars, AbPending, AbSettled, AbRollback, AbFresh
<1> QED
  BY <1>1, <1>2, <1>3, <1>4 DEF Cutover!Next

-----------------------------------------------------------------------------
\* The generation the registry serves is the only one it calls so.
LEMMA SettledIsServing ==
    ASSUME OneServing, NEW g \in Generations, generation[g].state = "SERVING"
    PROVE  AbSettled = g
BY DEF OneServing, AbSettled

\* What is kept for rollback, when something is.
LEMMA RollbackIsKept ==
    ASSUME OneServing, NEW g \in Generations, generation[g].protection = "ROLLBACK"
    PROVE  AbRollback = g
<1>1. KeptForRollback = {g}
  BY DEF OneServing, KeptForRollback
<1> QED
  BY <1>1 DEF AbRollback

\* The abstract registry depends on the registry only.
LEMMA SameRegistry ==
    ASSUME generation' = generation
    PROVE  AbSettled' = AbSettled /\ AbRollback' = AbRollback
BY DEF AbSettled, AbRollback, KeptForRollback

\* Steps that leave the pointer, the registry and the cutovers alone stutter.
LEMMA QuietRests ==
    ASSUME TypeOK, QuietStep
    PROVE  Rests
<1>0. /\ JournalStands
      /\ \A j \in Rows : Incomplete(j)' <=> Incomplete(j)
      /\ pointer' = pointer /\ generation' = generation
  BY DEF QuietStep
<1>1. /\ \A j \in Rows' : Cut(j)' => j \in Rows /\ Cut(j)
      /\ \A j \in Rows : Cut(j) => j \in Rows' /\ Cut(j)'
      /\ \A j \in Rows : journal'[j].to = journal[j].to /\ journal'[j].resulting = journal[j].resulting
  BY <1>0 DEF JournalStands
<1>2. HalfWay' = HalfWay
  BY <1>0, <1>1 DEF HalfWay
<1>3. AbPending' = AbPending
  <2>1. \A j \in HalfWay : /\ journal'[j].to = journal[j].to
                           /\ journal'[j].resulting = journal[j].resulting
    BY <1>1 DEF HalfWay
  <2> QED
    BY <1>2, <2>1 DEF AbPending
<1>4. AbFresh' = AbFresh
  BY <1>1 DEF AbFresh
<1> QED
  BY <1>0, <1>3, <1>4, SameRegistry DEF Rests

\* A cutover is a Switch: its candidate was never the pointer's target.
LEMMA CutoverSwitches ==
    ASSUME Inv, Inv', CandidatesStand, NEW j \in Rows, CutsRow(j)
    PROVE  Switches(journal[j].to)
<1> DEFINE to == journal[j].to
           v == pointer.version + 1
<1>1. /\ Rows' = Rows
      /\ Cut(j)' /\ Incomplete(j)' /\ ~Cut(j)
      /\ \A i \in Rows : i # j => /\ journal'[i] = journal[i]
                                  /\ Cut(i)' <=> Cut(i)
                                  /\ Incomplete(i)' <=> Incomplete(i)
      /\ journal'[j].to = to /\ journal'[j].op = journal[j].op /\ journal'[j].resulting = v
      /\ pointer'.generation = to /\ pointer'.version = v
  BY DEF CutsRow, Cut, Incomplete
<1>2. to \in Generations \ {InitialServing}
  BY RowFacts DEF Inv, RegistryInv, RowsNameCandidates, CandidatesApart
<1>3. ASSUME NEW i \in Rows, Cut(i) PROVE journal[i].to # to
  <2>1. i # j /\ journal'[i].op # journal'[j].op
    BY <1>1, <1>3 DEF Inv, CutoverInv, CutoverOnce
  <2>2. journal[i].op # journal[j].op
    BY <1>1, <2>1
  <2> QED
    BY <2>2, RowFacts DEF Inv, RegistryInv, RowsNameCandidates, CandidatesApart
<1>4. HalfWay' = HalfWay \cup {j} /\ j \notin HalfWay
  BY <1>1 DEF HalfWay
<1>5. AbPending' = AbPending \cup {<<v, to>>}
  <2>1. \A i \in HalfWay : journal'[i] = journal[i]
    BY <1>1, <1>4 DEF HalfWay
  <2>2. AbPending' = {<<journal'[i].resulting, journal'[i].to>> : i \in HalfWay \cup {j}}
    BY <1>4 DEF AbPending
  <2> QED
    BY <1>1, <2>1, <2>2 DEF AbPending
<1>6. AbFresh' = AbFresh \ {to} /\ to \in AbFresh
  BY <1>1, <1>2, <1>3 DEF AbFresh
<1> QED
  BY <1>1, <1>5, <1>6, SameRegistry DEF Switches, CutsRow

\* A finalization is a Settle: it takes the first switch that is waiting, and
\* keeps what was serving (finalizePromotion).
LEMMA FinalizationSettles ==
    ASSUME Inv, NEW j \in Rows, FinalizesRow(j)
    PROVE  Settles(<<journal[j].resulting, journal[j].to>>)
<1>0. /\ CanFinalize(j)
      /\ generation' = [g \in Generations |-> RotatedRow(g, j)]
      /\ journal' = [journal EXCEPT ![j].phase = "GENERATION_FINALIZED"]
      /\ pointer' = pointer
  BY DEF FinalizesRow
<1> DEFINE p == <<journal[j].resulting, journal[j].to>>
<1>1. /\ Cut(j) /\ Incomplete(j)
      /\ \A i \in Rows : Cut(i) /\ i # j /\ journal[i].resulting <= journal[j].resulting =>
             ~Incomplete(i)
  BY <1>0, FinalizesNext DEF Inv
<1>2. /\ Rows' = Rows
      /\ \A i \in Rows : /\ journal'[i].to = journal[i].to
                         /\ journal'[i].resulting = journal[i].resulting
                         /\ i # j => journal'[i].phase = journal[i].phase
      /\ journal'[j].phase = "GENERATION_FINALIZED"
  BY <1>0, RowFacts DEF Inv, Rows, JournalRow
<1>3. /\ \A i \in Rows : Cut(i)' <=> Cut(i)
      /\ HalfWay' = HalfWay \ {j}
      /\ j \in HalfWay
  BY <1>1, <1>2 DEF HalfWay, Cut, Incomplete
<1>4. ASSUME NEW i \in HalfWay, i # j PROVE journal[j].resulting < journal[i].resulting
  <2>1. /\ ~(journal[i].resulting <= journal[j].resulting)
        /\ journal[i].resulting \in Nat /\ journal[j].resulting \in Nat
    BY <1>1, <1>4, RowFacts DEF HalfWay, Inv
  <2> QED
    BY <2>1
<1>5. p \in AbPending
  BY <1>3 DEF AbPending
<1>6. \A q \in AbPending : p[1] <= q[1]
  <2> SUFFICES ASSUME NEW i \in HalfWay PROVE journal[j].resulting <= journal[i].resulting
    BY DEF AbPending
  <2>1. journal[i].resulting \in Nat /\ journal[j].resulting \in Nat
    BY RowFacts DEF HalfWay, Inv
  <2> QED
    BY <1>4, <2>1
<1>7. AbPending' = AbPending \ {p}
  <2>1. AbPending' = {<<journal[i].resulting, journal[i].to>> : i \in HalfWay \ {j}}
    <3>1. \A i \in HalfWay \ {j} : /\ journal'[i].to = journal[i].to
                                   /\ journal'[i].resulting = journal[i].resulting
      BY <1>2 DEF HalfWay
    <3> QED
      BY <1>3, <3>1 DEF AbPending
  <2>2. \A i \in HalfWay \ {j} : <<journal[i].resulting, journal[i].to>> # p
    <3> SUFFICES ASSUME NEW i \in HalfWay \ {j} PROVE journal[i].resulting # journal[j].resulting
      OBVIOUS
    <3>1. journal[i].resulting \in Nat /\ journal[j].resulting \in Nat
      BY RowFacts DEF HalfWay, Inv
    <3> QED
      BY <1>4, <3>1
  <2> HIDE DEF p
  <2>3. AbPending = {<<journal[i].resulting, journal[i].to>> : i \in HalfWay \ {j}} \cup {p}
    BY <1>3 DEF AbPending, p
  <2> QED
    BY <2>1, <2>2, <2>3
<1>8. /\ journal[j].from \in Generations /\ journal[j].to \in Generations
      /\ generation[journal[j].from].state = "SERVING"
      /\ generation'[journal[j].to].state = "SERVING"
      /\ generation'[journal[j].from].protection = "ROLLBACK"
  BY <1>0, RotatedRegistry, RowFacts DEF Inv, CanFinalize
<1>9. AbSettled = journal[j].from
  BY <1>8, SettledIsServing DEF Inv
<1>10. AbSettled' = journal[j].to
  <2>1. \A g \in Generations : generation'[g].state = "SERVING" <=> g = journal[j].to
    BY <1>0, RotatedRegistry DEF Inv
  <2> QED
    BY <1>8, <2>1 DEF AbSettled
<1>11. AbRollback' = journal[j].from
  <2>1. \A g \in Generations : generation'[g].protection = "ROLLBACK" <=> g = journal[j].from
    BY <1>0, RotatedRegistry DEF Inv
  <2>2. KeptForRollback' = {journal[j].from}
    BY <1>8, <2>1 DEF KeptForRollback
  <2> QED
    BY <2>2 DEF AbRollback
<1>12. AbFresh' = AbFresh
  BY <1>2, <1>3 DEF AbFresh
<1> QED
  BY <1>0, <1>5, <1>6, <1>7, <1>9, <1>10, <1>11, <1>12 DEF Settles

\* A release is a Release: nothing is pending when it is allowed.
LEMMA ReleaseReleases ==
    ASSUME Inv, Inv', NEW r \in Generations, ReleaseRollbackProtection(r)
    PROVE  Releases
<1>1. /\ ReleaseAllowed(r)
      /\ pointer' = [pointer EXCEPT !.previous = None, !.version = @ + 1]
      /\ generation' = [generation EXCEPT ![r] = [state |-> @.state, protection |-> "NONE",
                                                  version |-> @.version + 1]]
      /\ journal' = journal
  BY DEF ReleaseRollbackProtection
<1>2. \A i \in Rows : Cut(i) => ~Incomplete(i)
  BY <1>1, ReleaseFindsFinalized DEF Inv
<1>3. AbPending = {} /\ AbPending' = AbPending /\ AbFresh' = AbFresh
  BY <1>1, <1>2 DEF AbPending, AbFresh, HalfWay, Rows, Cut, Incomplete
<1>4. AbRollback = r /\ r # None
  BY <1>1, RollbackIsKept, StoreAssumption DEF Inv, ReleaseAllowed
<1>5. \A g \in Generations :
        /\ generation'[g].state = generation[g].state
        /\ generation'[g].protection = IF g = r THEN "NONE" ELSE generation[g].protection
  BY <1>1 DEF Inv, TypeOK
<1>6. AbRollback' = None
  <2>1. \A g \in Generations : generation[g].protection = "ROLLBACK" => g = r
    BY <1>1 DEF Inv, OneServing, ReleaseAllowed
  <2>2. KeptForRollback' = {}
    BY <1>5, <2>1 DEF KeptForRollback
  <2> QED
    BY <2>2 DEF AbRollback
<1>7. AbSettled' = AbSettled
  BY <1>5 DEF AbSettled
<1>8. pointer'.version = pointer.version + 1 /\ pointer'.generation = pointer.generation
  BY <1>1 DEF Inv, TypeOK, Pointer
<1> QED
  BY <1>3, <1>4, <1>6, <1>7, <1>8 DEF Releases

\* The initial states map to the initial state of ServingCutover.
LEMMA InitImplements == PromotionInit => Cutover!Init
<1> SUFFICES ASSUME PromotionInit PROVE Cutover!Init
  OBVIOUS
<1>1. /\ pointer = [generation |-> InitialServing, previous |-> None, version |-> 1]
      /\ Rows = {}
      /\ \A g \in Generations : /\ generation[g].state = "SERVING" <=> g = InitialServing
                                /\ generation[g].protection # "ROLLBACK"
  BY DEF PromotionInit, Rows
<1>2. AbSettled = InitialServing
  BY <1>1, PromotionAssumption DEF AbSettled
<1>3. AbRollback = None
  BY <1>1 DEF AbRollback, KeptForRollback
<1>4. AbPending = {} /\ AbFresh = Generations \ {InitialServing}
  BY <1>1 DEF AbPending, AbFresh, HalfWay
<1> QED
  BY <1>1, <1>2, <1>3, <1>4 DEF Cutover!Init, AbPending, AbSettled, AbRollback, AbFresh

\* Every step maps to a step or to a stutter.
LEMMA NextImplements == Inv /\ Inv' /\ [PromotionNext]_vars => [Cutover!Next]_Cutover!vars
<1> SUFFICES ASSUME Inv, Inv', [PromotionNext]_vars PROVE [Cutover!Next]_Cutover!vars
  OBVIOUS
<1>1. TypeOK /\ CandidatesStand
  BY CandidatesNeverChange DEF Inv
<1>2. CASE QuietStep
  BY <1>1, <1>2, QuietRests, AbstractSteps
<1>3. ASSUME NEW j \in Rows, CutsRow(j) PROVE [Cutover!Next]_Cutover!vars
  <2>1. Switches(journal[j].to) /\ journal[j].to \in Generations
    BY <1>1, <1>3, CutoverSwitches, RowFacts
  <2> QED
    BY <2>1, AbstractSteps
<1>4. ASSUME NEW j \in Rows, FinalizesRow(j) PROVE [Cutover!Next]_Cutover!vars
  BY <1>4, FinalizationSettles, AbstractSteps DEF Settles
<1>5. ASSUME NEW g \in Generations, ReleaseRollbackProtection(g)
      PROVE  [Cutover!Next]_Cutover!vars
  BY <1>5, ReleaseReleases, AbstractSteps
<1> QED
  BY <1>1, <1>2, <1>3, <1>4, <1>5, StepShapes

\* Seen from the serving pointer and the registry, any number of coordinators
\* that race, lose their leases and leave duplicate journals behind make an
\* orderly sequence of cutovers (casPointer, finalizePromotion,
\* releaseRollbackProtection).
THEOREM PromotionImplementsCutover == PromotionSpec => ImplementsCutover
<1>1. PromotionSpec => []Inv
  BY RegistryInvariant DEF Inv
<1>2. PromotionInit => Cutover!Init
  BY InitImplements
<1>3. Inv /\ Inv' /\ [PromotionNext]_vars => [Cutover!Next]_Cutover!vars
  BY NextImplements
<1> QED
  BY <1>1, <1>2, <1>3, PTL DEF PromotionSpec, ImplementsCutover, Cutover!Spec

=============================================================================
