------------------------ MODULE GenerationPromotion ------------------------
(***************************************************************************)
(* Promotion of validated generations: the handlers of an operation from   *)
(* READY_TO_PROMOTE to ROLLBACK_PROTECTED, the promotion journal, the      *)
(* serving pointer and the operator's rollback release.                    *)
(*                                                                         *)
(*   PREPARING -> POINTER_UPDATED -> ROUTER_VERIFIED -> GENERATION_FINALIZED*)
(*                                                                         *)
(* Only transition checks the claim.  preparePromotion, casPointer,        *)
(* markRouterVerified, finalizePromotion and beginRetirement are not       *)
(* fenced: a coordinator whose lease has run out may still execute them,   *)
(* interleaved with the one that took the operation over.  The journal     *)
(* phase and the pointer version are all that protects the cutover.        *)
(*                                                                         *)
(* Several operations may be promoting at once (one per candidate).  There *)
(* is one source and one query service, hence one pointer.                 *)
(***************************************************************************)
EXTENDS CoordinatorStore, FiniteSets

CONSTANTS InitialServing   \* the generation serving when the model starts

ASSUME PromotionAssumption == InitialServing \in Generations

VARIABLES generation,   \* rdf_generation: state, protection_state, lifecycle_version
          journal,      \* rdf_generation_promotion rows in created_at order
          pointer,      \* rdf_serving_pointer
          retirement    \* rdf_generation_retirement, unique per generation

tableVars == <<generation, journal, pointer, retirement>>
vars == <<storeVars, tableVars>>

GenerationStates == {"ABSENT", "CREATING", "LOADING", "CATCHING_UP", "VALIDATING",
                     "READY", "SERVING", "RETIRING", "RETIRED", "FAILED"}
Protections == {"NONE", "SERVING", "ROLLBACK", "RETIREMENT_IN_PROGRESS"}
Phases == {"PREPARING", "POINTER_UPDATED", "ROUTER_VERIFIED", "GENERATION_FINALIZED"}
RetirementStates == {"REQUESTED", "WAITING_ELIGIBILITY", "RETIRING",
                     "LOGICALLY_RETIRED", "PHYSICAL_DELETE_PENDING",
                     "PHYSICALLY_DELETED", "METADATA_FINALIZED"}

GenerationRow == [state : GenerationStates, protection : Protections, version : Nat]
Pointer == [generation : Generations, previous : Generations \cup {None}, version : Nat]

\* resulting = 0 stands for a null resulting_pointer_version.  The column
\* state is PREPARING exactly until the phase is GENERATION_FINALIZED.
JournalRow == [op : Operations, from : Generations, to : Generations,
               expected : Nat, phase : Phases, resulting : Nat]
RetirementRow == [op : Operations, state : RetirementStates]

Rows == DOMAIN journal
JournalsOf(o) == {j \in Rows : journal[j].op = o}
Newest(S) == {j \in S : \A i \in S : i <= j}

Cut(j) == journal[j].phase # "PREPARING"
Incomplete(j) == journal[j].phase # "GENERATION_FINALIZED"
Touches(j, g) == g \in {journal[j].from, journal[j].to}

\* The lifecycle states the Query Router accepts for the pointer's target.
RoutableLifecycle(g) ==
    <<generation[g].state, generation[g].protection>> \in
        {<<"READY", "NONE">>, <<"SERVING", "SERVING">>, <<"RETIRING", "ROLLBACK">>}

-----------------------------------------------------------------------------
\* READY_TO_PROMOTE: #preparePromotion.

ReadPointerToPrepare(c) ==
    /\ At(c, "READY_TO_PROMOTE")
    /\ IF pointer.generation = Candidate(c)
       THEN Goto(c, "prepare:advance", <<>>)
       ELSE Goto(c, "prepare:lookup", <<pointer.generation, pointer.version>>)
    /\ UNCHANGED <<op, faults, tableVars>>

LookupPromotion(c) ==
    /\ At(c, "prepare:lookup")
    /\ IF JournalsOf(work[c].op) # {}
       THEN Goto(c, "prepare:advance", <<>>)
       ELSE Goto(c, "prepare:insert", work[c].mem)
    /\ UNCHANGED <<op, faults, tableVars>>

\* ON CONFLICT DO NOTHING guards only the random primary key: a second row
\* for the same operation is inserted all the same.
PreparePromotion(c) ==
    /\ At(c, "prepare:insert")
    /\ journal' = Append(journal, [op |-> work[c].op, from |-> work[c].mem[1],
                                   to |-> Candidate(c), expected |-> work[c].mem[2],
                                   phase |-> "PREPARING", resulting |-> 0])
    /\ Goto(c, "prepare:advance", <<>>)
    /\ UNCHANGED <<op, faults, generation, pointer, retirement>>

AdvanceToPromoting(c) ==
    /\ At(c, "prepare:advance")
    /\ Transition(c, "READY_TO_PROMOTE", "PROMOTING")
    /\ UNCHANGED tableVars

-----------------------------------------------------------------------------
\* PROMOTING: #promote.

\* Mutant: a verified journal counts as a finished promotion.
StepAfter_NoFinalize(phase) ==
    CASE phase = "PREPARING"            -> "promote:cas"
      [] phase = "POINTER_UPDATED"      -> "promote:observe"
      [] OTHER                          -> "promote:advance"
\* The step that follows a journal row read in the given phase.
StepAfter(phase) ==
    CASE phase = "PREPARING"            -> "promote:cas"
      [] phase = "POINTER_UPDATED"      -> "promote:observe"
      [] phase = "ROUTER_VERIFIED"      -> "promote:finalize"
      [] phase = "GENERATION_FINALIZED" -> "promote:advance"

\* The journal row the coordinator read and works on.
Row(c) == work[c].mem[1]

Resume(c, j) == Goto(c, StepAfter(journal[j].phase), <<j>>)

\* operationPromotion; PROMOTION_MISSING if the operation has no row.
LoadPromotion(c) ==
    /\ At(c, "PROMOTING")
    /\ LET rows == JournalsOf(work[c].op) IN
       IF rows = {} THEN Stop(c)
       ELSE \E j \in Newest(rows) : Resume(c, j)
    /\ UNCHANGED <<op, faults, tableVars>>

\* Mutant: the compare-and-swap compares nothing.
PointerMatches_Always(j) == TRUE
PointerMatches(j) ==
    /\ pointer.generation = journal[j].from
    /\ pointer.version = journal[j].expected

\* One transaction: either both rows change or SERVING_POINTER_CONFLICT.
CasPointer(c) ==
    /\ At(c, "promote:cas")
    /\ LET j == Row(c) IN
       \/ /\ ~Cut(j)
          /\ PointerMatches(j)
          /\ pointer' = [generation |-> journal[j].to, previous |-> pointer.generation,
                         version |-> pointer.version + 1]
          /\ journal' = [journal EXCEPT ![j] = [@ EXCEPT !.phase = "POINTER_UPDATED",
                                                       !.resulting = pointer.version + 1]]
          /\ Goto(c, "promote:observe", <<j>>)
       \/ /\ Cut(j)     \* committed by another owner of the operation
          /\ Resume(c, j)
          /\ UNCHANGED <<journal, pointer>>
       \/ /\ ~Cut(j)
          /\ ~PointerMatches(j)
          /\ Stop(c)
          /\ UNCHANGED <<journal, pointer>>
    /\ UNCHANGED <<op, faults, generation, retirement>>

\* Both routers answer through a target resolved from the pointer version
\* the journal row produced.
RouterConverged(j) ==
    /\ pointer.version = journal[j].resulting
    /\ RoutableLifecycle(pointer.generation)

\* ROUTER_NOT_CONVERGED is thrown for good when the pointer has moved on;
\* a router that is merely slow or unreachable is an Interrupt.
ObserveRouters(c) ==
    /\ At(c, "promote:observe")
    /\ \/ /\ RouterConverged(Row(c))
          /\ Goto(c, "promote:mark", work[c].mem)
       \/ /\ ~RouterConverged(Row(c))
          /\ Stop(c)
    /\ UNCHANGED <<op, faults, tableVars>>

\* PROMOTION_PHASE_CONFLICT when another owner has already finalized the row.
MarkRouterVerified(c) ==
    /\ At(c, "promote:mark")
    /\ LET j == Row(c) IN
       \/ /\ journal[j].phase \in {"POINTER_UPDATED", "ROUTER_VERIFIED"}
          /\ journal' = [journal EXCEPT ![j].phase = "ROUTER_VERIFIED"]
          /\ Goto(c, "promote:finalize", <<j>>)
       \/ /\ journal[j].phase \notin {"POINTER_UPDATED", "ROUTER_VERIFIED"}
          /\ Stop(c)
          /\ UNCHANGED journal
    /\ UNCHANGED <<op, faults, generation, pointer, retirement>>

\* Mutant: the row counts of the two updates are not checked.
CanFinalize_Unchecked(j) == journal[j].phase = "ROUTER_VERIFIED"
\* Both rows must be updated or the transaction is rolled back.
CanFinalize(j) ==
    /\ journal[j].phase = "ROUTER_VERIFIED"
    /\ generation[journal[j].from].state = "SERVING"
    /\ generation[journal[j].to].state = "READY"
\* Mutant: the protection of the previous rollback generation is kept.
RotatedRow_Unreleased(g, j) ==
    IF g = journal[j].from
    THEN [state |-> "RETIRING", protection |-> "ROLLBACK", version |-> generation[g].version + 1]
    ELSE IF g = journal[j].to
    THEN [state |-> "SERVING", protection |-> "SERVING", version |-> generation[g].version + 1]
    ELSE generation[g]
\* Mutant: the promoted generation is left marked as being promoted.
RotatedRow_InProgress(g, j) ==
    IF g = journal[j].to
    THEN [state |-> "SERVING", protection |-> "PROMOTION_IN_PROGRESS",
          version |-> generation[g].version + 1]
    ELSE generation[g]
\* Rotation of the registry: the protections of the old serving and the old
\* rollback generation are dropped, then the two ends of the cutover change.
RotatedRow(g, j) ==
    LET row == generation[g]
        released == row.protection \in {"SERVING", "ROLLBACK"}
        base == [row EXCEPT !.protection = IF released THEN "NONE" ELSE @,
                            !.version = IF released THEN @ + 1 ELSE @]
    IN IF g = journal[j].from
       THEN [state |-> "RETIRING", protection |-> "ROLLBACK", version |-> base.version + 1]
       ELSE IF g = journal[j].to
       THEN [state |-> "SERVING", protection |-> "SERVING", version |-> base.version + 1]
       ELSE base

FinalizePromotion(c) ==
    /\ At(c, "promote:finalize")
    /\ LET j == Row(c) IN
       \/ /\ CanFinalize(j)
          /\ generation' = [g \in Generations |-> RotatedRow(g, j)]
          /\ journal' = [journal EXCEPT ![j].phase = "GENERATION_FINALIZED"]
          /\ Goto(c, "promote:advance", <<j>>)
       \/ /\ ~Incomplete(j)     \* finalized by another owner
          /\ Goto(c, "promote:advance", <<j>>)
          /\ UNCHANGED <<generation, journal>>
       \/ /\ Incomplete(j)      \* PROMOTION_GENERATION_CONFLICT
          /\ ~CanFinalize(j)
          /\ Stop(c)
          /\ UNCHANGED <<generation, journal>>
    /\ UNCHANGED <<op, faults, pointer, retirement>>

AdvanceToPromoted(c) ==
    /\ At(c, "promote:advance")
    /\ Transition(c, "PROMOTING", "PROMOTED")
    /\ UNCHANGED tableVars

-----------------------------------------------------------------------------
\* PROMOTED: #protectRollback.

\* POINTER_REGISTRY_MISMATCH when another promotion has moved the pointer.
ReadPointerToProtect(c) ==
    /\ At(c, "PROMOTED")
    /\ IF pointer.generation # Candidate(c) THEN Stop(c)
       ELSE IF pointer.previous = None THEN Goto(c, "protect:advance", <<>>)
       ELSE Goto(c, "protect:retire", <<pointer.previous>>)
    /\ UNCHANGED <<op, faults, tableVars>>

\* The row is inserted once per generation; a later one is only touched.
BeginRetirement(c) ==
    /\ At(c, "protect:retire")
    /\ LET g == work[c].mem[1] IN
       retirement' = IF retirement[g] # None THEN retirement
                     ELSE [retirement EXCEPT ![g] =
                             [op |-> work[c].op, state |-> "WAITING_ELIGIBILITY"]]
    /\ Goto(c, "protect:advance", <<>>)
    /\ UNCHANGED <<op, faults, generation, journal, pointer>>

AdvanceToProtected(c) ==
    /\ At(c, "protect:advance")
    /\ Transition(c, "PROMOTED", "ROLLBACK_PROTECTED")
    /\ UNCHANGED tableVars

-----------------------------------------------------------------------------
\* releaseRollbackProtection: one operator transaction, compare-and-swap on
\* the pointer.  A request that expects anything else, and a replay of its
\* idempotency key, change nothing.

ReleaseAllowed(g) ==
    /\ pointer.previous = g
    /\ generation[g].state # "SERVING"
    /\ generation[g].protection = "ROLLBACK"
    /\ ~\E j \in Rows : Incomplete(j) /\ Touches(j, g)
    /\ retirement[g] # None => retirement[g].state \in {"REQUESTED", "WAITING_ELIGIBILITY"}

ReleaseRollbackProtection(g) ==
    /\ ReleaseAllowed(g)
    /\ pointer' = [pointer EXCEPT !.previous = None, !.version = @ + 1]
    /\ generation' = [generation EXCEPT ![g] = [state |-> @.state, protection |-> "NONE",
                                                version |-> @.version + 1]]
    /\ retirement' = IF retirement[g] = None THEN retirement
                     ELSE [retirement EXCEPT ![g].state = "WAITING_ELIGIBILITY"]
    /\ UNCHANGED <<storeVars, journal>>

-----------------------------------------------------------------------------
\* Every operation stands at READY_TO_PROMOTE with a READY candidate of its
\* own: a generation leaves CREATING through one operation only, so two
\* operations for one candidate never get this far.  Fences are counted
\* from here.
PromotionInit ==
    /\ \E cand \in [Operations -> Generations \ {InitialServing}] :
        /\ \A o, p \in Operations : cand[o] = cand[p] => o = p
        /\ op = [o \in Operations |-> Unclaimed("READY_TO_PROMOTE", cand[o])]
        /\ generation = [g \in Generations |->
             IF g = InitialServing
             THEN [state |-> "SERVING", protection |-> "SERVING", version |-> 1]
             ELSE [state |-> IF \E o \in Operations : cand[o] = g THEN "READY" ELSE "ABSENT",
                   protection |-> "NONE", version |-> 1]]
    /\ work = [c \in Coordinators |-> Idle]
    /\ faults = 0
    /\ journal = <<>>
    /\ pointer = [generation |-> InitialServing, previous |-> None, version |-> 1]
    /\ retirement = [g \in Generations |-> None]

\* One awaited call of a promotion handler.
PromotionStep(c) ==
    \/ ReadPointerToPrepare(c) \/ LookupPromotion(c) \/ PreparePromotion(c)
    \/ AdvanceToPromoting(c)
    \/ LoadPromotion(c) \/ CasPointer(c) \/ ObserveRouters(c)
    \/ MarkRouterVerified(c) \/ FinalizePromotion(c) \/ AdvanceToPromoted(c)
    \/ ReadPointerToProtect(c) \/ BeginRetirement(c) \/ AdvanceToProtected(c)

StoreStep ==
    \/ \E c \in Coordinators : ClaimNext(c) \/ Interrupt(c)
    \/ \E o \in Operations : LeaseRunsOut(o) \/ LeaseOutlived(o)

PromotionNext ==
    \/ \E c \in Coordinators : PromotionStep(c)
    \/ \E g \in Generations : ReleaseRollbackProtection(g)
    \/ StoreStep /\ UNCHANGED tableVars

PromotionSpec == PromotionInit /\ [][PromotionNext]_vars

\* The run loop of a coordinator never stops by itself, a dead process is
\* restarted by its Deployment, and leases end with time.
PromotionFairness ==
    /\ \A c \in Coordinators : WF_vars(PromotionStep(c))
    /\ WF_vars(\E c \in Coordinators : ClaimNext(c) /\ UNCHANGED tableVars)
    /\ \A o \in Operations : WF_vars(LeaseRunsOut(o) /\ UNCHANGED tableVars)

FairPromotionSpec == PromotionSpec /\ PromotionFairness
-----------------------------------------------------------------------------
(***************************************************************************)
(* Correctness.                                                            *)
(***************************************************************************)

PrepareSteps == {"prepare:lookup", "prepare:insert"}
RowSteps == {"promote:cas", "promote:observe", "promote:mark", "promote:finalize",
             "promote:advance"}
PlainSteps == {"READY_TO_PROMOTE", "prepare:advance", "PROMOTING", "PROMOTED",
               "protect:advance"}

PromotionStates == {"READY_TO_PROMOTE", "PROMOTING", "PROMOTED", "ROLLBACK_PROTECTED"}

\* The handler's local variables, as far as its next call uses them; rows
\* are the journal rows there are.
Remembers(pc, mem, rows) ==
    \/ pc \in PrepareSteps /\ mem \in Generations \X Nat
    \/ pc \in RowSteps /\ \E j \in rows : mem = <<j>>
    \/ pc = "protect:retire" /\ \E g \in Generations : mem = <<g>>
    \/ pc \in PlainSteps /\ mem = <<>>

Working(w, rows) ==
    /\ w = [pc |-> w.pc, op |-> w.op, fence |-> w.fence, mem |-> w.mem]
    /\ w.op \in Operations
    /\ w.fence \in Nat
    /\ Remembers(w.pc, w.mem, rows)

\* Every row holds values its columns admit (the CHECK constraints of
\* migrations 006 to 013) and every coordinator remembers what its next
\* call needs.
TypeOK ==
    /\ op \in [Operations -> Operation]
    /\ \A o \in Operations : op[o].state \in PromotionStates
    /\ DOMAIN work = Coordinators
    /\ \A c \in Coordinators : work[c] = Idle \/ Working(work[c], Rows)
    /\ faults \in Nat
    /\ generation \in [Generations -> GenerationRow]
    /\ journal \in Seq(JournalRow)
    /\ pointer \in Pointer
    /\ retirement \in [Generations -> RetirementRow \cup {None}]

\* However many owners an operation had, and whatever they left in the
\* journal, it moves the serving pointer at most once, and two cutovers never
\* carry the same pointer version (casPointer; "no second promotion was
\* created", docs/operations/japan-wikibase-m9d.md).
CutoverOnce ==
    \A i, j \in Rows : Cut(i) /\ Cut(j) /\ i # j =>
        /\ journal[i].op # journal[j].op
        /\ journal[i].resulting # journal[j].resulting

\* The registry has exactly one SERVING generation, it alone carries the
\* SERVING protection, and at most one carries ROLLBACK: finalizePromotion
\* never runs into the unique indexes of migrations 006 and 011.
OneServing ==
    /\ \E g \in Generations : \A h \in Generations :
        /\ generation[h].state = "SERVING" <=> h = g
        /\ generation[h].protection = "SERVING" <=> h = g
    /\ \A g, h \in Generations :
        generation[g].protection = "ROLLBACK" /\ generation[h].protection = "ROLLBACK" => g = h

\* When no cutover is half way, the registry agrees with the pointer: its
\* SERVING generation is the pointer's target and its ROLLBACK generation is
\* the pointer's previous one (finalizePromotion, releaseRollbackProtection).
RegistryFollowsPointer ==
    (\A j \in Rows : Cut(j) => ~Incomplete(j)) =>
        /\ generation[pointer.generation].state = "SERVING"
        /\ \A g \in Generations :
             generation[g].protection = "ROLLBACK" <=> pointer.previous = g

\* Cutovers that overlap are recorded in the registry in the order the
\* pointer made them: no coordinator finalizes a promotion before the one
\* whose target it replaced (finalizePromotion).
FinalizedInPointerOrder ==
    \A i, j \in Rows : /\ Cut(i)
                        /\ ~Incomplete(j)
                        /\ journal[i].resulting < journal[j].resulting
                        => ~Incomplete(i)

\* An operation is only reported as promoted when its own cutover is in the
\* registry, even when the report comes from an owner that did not perform
\* it (#promote, transition to PROMOTED).
PromotedMeansFinalized ==
    \A o \in Operations : op[o].state \in {"PROMOTED", "ROLLBACK_PROTECTED"} =>
        \E j \in JournalsOf(o) : ~Incomplete(j)

\* The routers can always route the pointer's target, from the cutover on and
\* through every half-done finalization, for old and new targets alike.
PointerTargetRoutable == RoutableLifecycle(pointer.generation)

\* A fence names one claim: two processes that both work on an operation
\* carry different fences, however often its lease ran out in between
\* (claimNext; "a stale owner cannot transition using another owner's fence").
FenceNamesOneClaim ==
    \A c, d \in Coordinators : /\ c # d
                               /\ ~At(c, "idle")
                               /\ ~At(d, "idle")
                               /\ work[c].op = work[d].op
                               => work[c].fence # work[d].fence

\* docs/operations/japan-wikibase-m9d.md, crash point J: after the cutover
\* "committed pointer is authoritative", and ADR-0032: "A restart can resume
\* from database and physical evidence without process memory".  The owner of
\* an operation that has moved the pointer resumes that cutover; it never
\* sets out to move the pointer once more.
RestartResumesCutover ==
    \A c \in Coordinators :
        At(c, "promote:cas") /\ Holds(c) /\ ~Cut(Row(c)) =>
            \A j \in JournalsOf(work[c].op) : ~Cut(j)

\* A validated candidate's operation ends in ROLLBACK_PROTECTED
\* (GenerationCoordinatorRuntime.run and reconcile, from READY_TO_PROMOTE on).
PromotionCompletes ==
    \A o \in Operations : <>(op[o].state = "ROLLBACK_PROTECTED")
=============================================================================
