--------------------------- MODULE GenerationBuild ---------------------------
(***************************************************************************)
(* The build of a candidate generation by the Generation Coordinator: the  *)
(* handlers of an operation from REBUILD_REQUESTED to READY_TO_PROMOTE, in *)
(* front of the promotion of GenerationPromotion.                          *)
(*                                                                         *)
(*   REBUILD_REQUESTED -> CREATING_GENERATION -> LOADING_SNAPSHOT ->       *)
(*   WAITING_FOR_CATCHUP -> VALIDATING -> READY_TO_PROMOTE                 *)
(*                                                                         *)
(* The coordinator creates the physical resources and then only observes:  *)
(* whoever loads, synchronizes and validates the candidate leaves evidence *)
(* in rdf_generation and rdf_generation_sync.  ensureGeneration,           *)
(* createGeneration and setGenerationState are not fenced, transition is.  *)
(*                                                                         *)
(* A claim of a waiting row whose evidence does not suffice changes        *)
(* nothing but its fence; such claims are left out (Worthwhile).           *)
(***************************************************************************)
EXTENDS GenerationPromotion

VARIABLES target,     \* target_cursor of each operation (an rcid)
          physical,   \* generations whose Kubernetes resources exist
          sync,       \* rdf_generation_sync, failed_entities of its entities
          validation  \* generations with validation_status VALID, with a manifest

evidenceVars == <<target, physical, sync, validation>>

\* No row yet.
Unsynced == [cursor |-> 0, state |-> "NONE", schema |-> "PENDING", failed |-> FALSE]
SyncRow == [cursor : Nat, state : {"NONE", "BOOTSTRAPPING", "CATCHING_UP", "CURRENT", "STALE"},
            schema : {"PENDING", "CURRENT"}, failed : BOOLEAN]

Evidence(c) == sync[Candidate(c)]
StateOf(c) == generation[Candidate(c)].state

-----------------------------------------------------------------------------
\* What the handlers look for.

SnapshotLoaded(g) == sync[g].state \in {"CATCHING_UP", "CURRENT"}

\* compare(catchup_cursor, targetCursor), schema_state and failed_entities
CaughtUp(o, g) ==
    /\ sync[g].state # "NONE"
    /\ sync[g].cursor >= target[o]
    /\ sync[g].schema = "CURRENT"
    /\ ~sync[g].failed

\* Mutant: the verdict of the validation is not awaited.
Validated_Manifest(g) == g \in validation.manifest
Validated(g) ==
    /\ generation[g].state = "READY"
    /\ g \in validation.valid
    /\ g \in validation.manifest

Worthwhile(o) ==
    LET g == op[o].candidate
    IN  CASE op[o].state = "LOADING_SNAPSHOT"    -> SnapshotLoaded(g) \/ generation[g].state = "FAILED"
          [] op[o].state = "WAITING_FOR_CATCHUP" -> CaughtUp(o, g)
          [] op[o].state = "VALIDATING"          -> Validated(g)
          [] OTHER                               -> TRUE

-----------------------------------------------------------------------------
\* request: INSERT ... ON CONFLICT(request_key); a repeated request answers the
\* operation there is, in whatever state it is.
Request(o, g, cursor) ==
    IF op[o].state # "ABSENT"
    THEN UNCHANGED <<op, target>>
    ELSE /\ op' = [op EXCEPT ![o] = Unclaimed("REBUILD_REQUESTED", g)]
         /\ target' = [target EXCEPT ![o] = cursor]

\* setGenerationState, and what follows if the row was in the expected state;
\* GENERATION_STATE_CONFLICT otherwise.
SetGenerationState(c, from, to, pc) ==
    /\ IF StateOf(c) = from
       THEN /\ generation' = [generation EXCEPT ![Candidate(c)] =
                                [@ EXCEPT !.state = to, !.version = @ + 1]]
            /\ Goto(c, pc, <<>>)
       ELSE Stop(c) /\ UNCHANGED generation
    /\ UNCHANGED <<op, faults, journal, pointer, retirement, evidenceVars>>

Advance(c, from, to) == Transition(c, from, to) /\ UNCHANGED <<tableVars, evidenceVars>>

\* Reads evidence and goes on at pc.
Decide(c, pc) == Goto(c, pc, <<>>) /\ UNCHANGED <<op, faults, tableVars, evidenceVars>>

\* REBUILD_REQUESTED: the row of the candidate is inserted once.
EnsureGeneration(c) ==
    /\ At(c, "REBUILD_REQUESTED")
    /\ generation' = IF StateOf(c) # "ABSENT" THEN generation
                     ELSE [generation EXCEPT ![Candidate(c)] =
                             [state |-> "CREATING", protection |-> "NONE", version |-> 1]]
    /\ Goto(c, "build:requested", <<>>)
    /\ UNCHANGED <<op, faults, journal, pointer, retirement, evidenceVars>>

AdvanceToCreating(c) ==
    At(c, "build:requested") /\ Advance(c, "REBUILD_REQUESTED", "CREATING_GENERATION")

\* CREATING_GENERATION: createGeneration is idempotent (createOrVerify).
CreateResources(c) ==
    /\ At(c, "CREATING_GENERATION")
    /\ physical' = physical \cup {Candidate(c)}
    /\ Goto(c, "build:created", <<>>)
    /\ UNCHANGED <<op, faults, tableVars, target, sync, validation>>

MarkLoading(c) ==
    At(c, "build:created") /\ SetGenerationState(c, "CREATING", "LOADING", "build:loading")

AdvanceToLoading(c) ==
    At(c, "build:loading") /\ Advance(c, "CREATING_GENERATION", "LOADING_SNAPSHOT")

\* LOADING_SNAPSHOT: #observeSnapshot.
ObserveSnapshot(c) ==
    /\ At(c, "LOADING_SNAPSHOT")
    /\ Decide(c, CASE StateOf(c) = "FAILED"             -> "snapshot:failed"
                   [] ~SnapshotLoaded(Candidate(c))     -> "snapshot:wait"
                   [] StateOf(c) = "LOADING"            -> "snapshot:mark"
                   [] OTHER                             -> "snapshot:loaded")

SnapshotFailed(c) == At(c, "snapshot:failed") /\ Advance(c, "LOADING_SNAPSHOT", "FAILED")
SnapshotAwaited(c) == At(c, "snapshot:wait") /\ Advance(c, "LOADING_SNAPSHOT", "LOADING_SNAPSHOT")

MarkCatchingUp(c) ==
    At(c, "snapshot:mark") /\ SetGenerationState(c, "LOADING", "CATCHING_UP", "snapshot:loaded")

AdvanceToCatchup(c) ==
    At(c, "snapshot:loaded") /\ Advance(c, "LOADING_SNAPSHOT", "WAITING_FOR_CATCHUP")

\* WAITING_FOR_CATCHUP: #observeCatchup.
ObserveCatchup(c) ==
    /\ At(c, "WAITING_FOR_CATCHUP")
    /\ Decide(c, CASE ~CaughtUp(work[c].op, Candidate(c)) -> "catchup:wait"
                   [] StateOf(c) = "CATCHING_UP"          -> "catchup:mark"
                   [] OTHER                               -> "catchup:reached")

CatchupAwaited(c) == At(c, "catchup:wait") /\ Advance(c, "WAITING_FOR_CATCHUP", "WAITING_FOR_CATCHUP")

MarkValidating(c) ==
    At(c, "catchup:mark") /\ SetGenerationState(c, "CATCHING_UP", "VALIDATING", "catchup:reached")

AdvanceToValidating(c) ==
    At(c, "catchup:reached") /\ Advance(c, "WAITING_FOR_CATCHUP", "VALIDATING")

\* VALIDATING: #observeValidation.
ObserveValidation(c) ==
    /\ At(c, "VALIDATING")
    /\ Validated(Candidate(c))
    /\ Decide(c, "validated")

AdvanceToReady(c) == At(c, "validated") /\ Advance(c, "VALIDATING", "READY_TO_PROMOTE")

BuildStep(c) ==
    \/ EnsureGeneration(c) \/ AdvanceToCreating(c)
    \/ CreateResources(c) \/ MarkLoading(c) \/ AdvanceToLoading(c)
    \/ ObserveSnapshot(c) \/ SnapshotFailed(c) \/ SnapshotAwaited(c)
    \/ MarkCatchingUp(c) \/ AdvanceToCatchup(c)
    \/ ObserveCatchup(c) \/ CatchupAwaited(c) \/ MarkValidating(c) \/ AdvanceToValidating(c)
    \/ ObserveValidation(c) \/ AdvanceToReady(c)

\* Every awaited call of every handler of an operation.
CoordinatorStep(c) ==
    \/ BuildStep(c)
    \/ PromotionStep(c) /\ UNCHANGED evidenceVars

BuildClaim(c) ==
    /\ ClaimNext(c)
    /\ Worthwhile(work'[c].op)
    /\ UNCHANGED <<tableVars, evidenceVars>>

BuildStoreStep ==
    /\ \/ \E c \in Coordinators : Interrupt(c)
       \/ \E o \in Operations : LeaseRunsOut(o) \/ LeaseOutlived(o)
    /\ UNCHANGED <<tableVars, evidenceVars>>

BuildInit ==
    /\ op = [o \in Operations |-> Unclaimed("ABSENT", InitialServing)]
    /\ work = [c \in Coordinators |-> Idle]
    /\ faults = 0
    /\ generation = [g \in Generations |->
                       IF g = InitialServing
                       THEN [state |-> "SERVING", protection |-> "SERVING", version |-> 1]
                       ELSE [state |-> "ABSENT", protection |-> "NONE", version |-> 0]]
    /\ journal = <<>>
    /\ pointer = [generation |-> InitialServing, previous |-> None, version |-> 1]
    /\ retirement = [g \in Generations |-> None]
    /\ target = [o \in Operations |-> 0]
    /\ physical = {InitialServing}
    /\ validation = [valid |-> {InitialServing}, manifest |-> {InitialServing}]

=============================================================================
