---------------------------- MODULE ServingPointer ----------------------------
(***************************************************************************)
(* Operators who move the serving pointer directly                         *)
(* (PostgresServingPointerRepository: promote and rollback, one database   *)
(* transaction each), the routers that follow it, and the cleanup of       *)
(* generations nobody needs (GenerationRetirementCoordinator over the      *)
(* selection of the serving reconciler).                                   *)
(*                                                                         *)
(* An operator reads the pointer and acts on what it read; a router reads  *)
(* the pointer and then the registry; the cleaner decides once and deletes *)
(* physically before it deletes the row.  Everything may change between    *)
(* two of those steps.                                                     *)
(***************************************************************************)
EXTENDS Naturals, Sequences, FiniteSets, SequencesExt

CONSTANTS Generations, First, None, Operators, Requests,
          Backends,     \* types of store a generation may be built on
          FirstBackend, \* and the type the first one has
          MaxMoves,     \* moves of the pointer
          MaxFaults     \* failed builds and crashes of the cleaner

ASSUME ServingAssumption ==
    /\ First \in Generations /\ FirstBackend \in Backends
    /\ None \notin Generations \cup Backends
    /\ MaxMoves \in Nat /\ MaxFaults \in Nat

VARIABLES registry,  \* rdf_generation: state, protection_state, backend_type, created_at
          stores,    \* generations whose physical dataset exists
          pointer,   \* rdf_serving_pointer
          journal,   \* rdf_generation_promotion
          operator,  \* what each operator read or was answered
          request,   \* queries on their way through a router
          cache,     \* the resolver's cache
          cleaner,   \* the run of cleanup()
          faults

vars == <<registry, stores, pointer, journal, operator, request, cache, cleaner, faults>>
servingVars == <<registry, pointer, journal>>

States == {"ABSENT", "LOADING", "READY", "SERVING", "RETIRING", "RETIRED", "FAILED"}
Row == [state : States, protection : {"NONE", "SERVING", "ROLLBACK"},
        backend : Backends \cup {None}, created : Nat]
Absent == [state |-> "ABSENT", protection |-> "NONE", backend |-> None, created |-> 0]
Promotion == [from : Generations, to : Generations, state : {"COMMITTED", "ROLLED_BACK"}]

\* version and id of what the operator knows: the pointer it read, or the
\* promotion it was told had committed.
Idle == [pc |-> "idle", version |-> 0, gen |-> First, id |-> 0]
Waiting == [pc |-> "new", version |-> 0, gen |-> First]
Resting == [pc |-> "idle", todo |-> {}]

Init ==
    /\ registry = [g \in Generations |->
                     IF g = First
                     THEN [state |-> "SERVING", protection |-> "SERVING", backend |-> FirstBackend,
                           created |-> 1]
                     ELSE Absent]
    /\ stores = {First}
    /\ pointer = [gen |-> First, prev |-> None, version |-> 1]
    /\ journal = << >>
    /\ operator = [o \in Operators |-> Idle]
    /\ request = [r \in Requests |-> Waiting]
    /\ cache = [version |-> 0, gen |-> First, target |-> None]
    /\ cleaner = Resting
    /\ faults = 0

-----------------------------------------------------------------------------
\* Building and retiring, done by other programs.

LastCreated == LET stamps == {registry[g].created : g \in Generations}
               IN  CHOOSE n \in stamps : \A k \in stamps : k <= n

Build(g, backend) ==
    /\ registry[g].state = "ABSENT"
    /\ registry' = [registry EXCEPT ![g] =
                      [Absent EXCEPT !.state = "LOADING", !.backend = backend,
                                     !.created = LastCreated + 1]]
    /\ stores' = stores \cup {g}
    /\ UNCHANGED <<pointer, journal, operator, request, cache, cleaner, faults>>

BuildEnds(g) ==
    /\ registry[g].state = "LOADING"
    /\ \/ /\ registry' = [registry EXCEPT ![g] = [@ EXCEPT !.state = "READY"]]
          /\ UNCHANGED faults
       \/ /\ faults < MaxFaults
          /\ faults' = faults + 1
          /\ registry' = [registry EXCEPT ![g] = [@ EXCEPT !.state = "FAILED"]]
    /\ UNCHANGED <<stores, pointer, journal, operator, request, cache, cleaner>>

Retire(g) ==
    /\ registry[g].state = "RETIRING"
    /\ registry[g].protection = "NONE"
    /\ registry' = [registry EXCEPT ![g] = [@ EXCEPT !.state = "RETIRED"]]
    /\ UNCHANGED <<stores, pointer, journal, operator, request, cache, cleaner, faults>>

-----------------------------------------------------------------------------
\* The operator.

Get(o) ==
    /\ operator[o].pc = "idle"
    /\ operator' = [operator EXCEPT ![o] =
                      [Idle EXCEPT !.pc = "read", !.version = pointer.version, !.gen = pointer.gen]]
    /\ UNCHANGED <<servingVars, stores, request, cache, cleaner, faults>>

\* SERVING_POINTER_CONFLICT, CANDIDATE_NOT_READY, ROLLBACK_...: nothing is
\* written and the operator starts again.
Answered(o, answer) == operator' = [operator EXCEPT ![o] = answer]
Rejected(o) == Answered(o, Idle) /\ UNCHANGED servingVars

Promotable(g) == registry[g].state = "READY"

\* Mutant: whoever comes second overwrites the first.
Expected_lax(o) == TRUE
Expected(o) == pointer.version = operator[o].version /\ pointer.gen = operator[o].gen

\* Mutant: only the serving row loses its protection, the retained one of the
\* promotion before keeps its own.
Unprotected_servingOnly(g) ==
    [registry[g] EXCEPT !.protection = IF @ = "SERVING" THEN "NONE" ELSE @]

\* Mutant: the column is emptied, which its CHECK rejects.
Unprotected_null(g) == [registry[g] EXCEPT !.protection = None]
Unprotected(g) ==
    [registry[g] EXCEPT !.protection = IF @ \in {"SERVING", "ROLLBACK"} THEN "NONE" ELSE @]

\* Mutant: the replaced generation is not kept for the opposite move.
Swapped_unretained(old, oldState, new) ==
    [g \in Generations |->
        CASE g = new -> [registry[g] EXCEPT !.state = "SERVING", !.protection = "SERVING"]
          [] g = old -> [registry[g] EXCEPT !.state = oldState, !.protection = "NONE"]
          [] OTHER   -> Unprotected(g)]

\* After the protections of the source are cleared, new serves and old is
\* kept for the opposite move.
Swapped(old, oldState, new) ==
    [g \in Generations |->
        CASE g = new -> [registry[g] EXCEPT !.state = "SERVING", !.protection = "SERVING"]
          [] g = old -> [registry[g] EXCEPT !.state = oldState, !.protection = "ROLLBACK"]
          [] OTHER   -> Unprotected(g)]

Promote(o, g) ==
    /\ operator[o].pc = "read"
    /\ pointer.version <= MaxMoves
    /\ IF Expected(o) /\ Promotable(g)
       THEN /\ registry' = Swapped(pointer.gen, "RETIRING", g)
            /\ pointer' = [gen |-> g, prev |-> pointer.gen, version |-> pointer.version + 1]
            /\ journal' = Append(journal, [from |-> pointer.gen, to |-> g, state |-> "COMMITTED"])
            /\ Answered(o, [pc |-> "promoted", version |-> pointer.version + 1, gen |-> g,
                            id |-> Len(journal) + 1])
       ELSE Rejected(o)
    /\ UNCHANGED <<stores, request, cache, cleaner, faults>>

Revertible ==
    /\ pointer.prev # None
    /\ registry[pointer.prev].state = "RETIRING"
    /\ registry[pointer.prev].protection = "ROLLBACK"

\* The operator undoes the promotion it was told had committed.
Rollback(o) ==
    /\ operator[o].pc = "promoted"
    /\ pointer.version <= MaxMoves
    /\ IF Expected(o) /\ Revertible
       THEN /\ registry' = Swapped(pointer.gen, "READY", pointer.prev)
            /\ pointer' = [gen |-> pointer.prev, prev |-> pointer.gen,
                           version |-> pointer.version + 1]
            /\ journal' = [journal EXCEPT ![operator[o].id] = [@ EXCEPT !.state = "ROLLED_BACK"]]
            /\ Answered(o, Idle)
       ELSE Rejected(o)
    /\ UNCHANGED <<stores, request, cache, cleaner, faults>>

\* Content with what was read (jwb-promote is idempotent) or done.
Leave(o) ==
    /\ operator[o].pc # "idle"
    /\ Answered(o, Idle)
    /\ UNCHANGED <<servingVars, stores, request, cache, cleaner, faults>>

-----------------------------------------------------------------------------
\* The router: pointer, then the registry unless the cache knows the version.

Follow(r) ==
    /\ request[r].pc = "new"
    /\ request' = [request EXCEPT ![r] =
                     [pc |-> "pointed", version |-> pointer.version, gen |-> pointer.gen]]
    /\ UNCHANGED <<servingVars, stores, operator, cache, cleaner, faults>>

RoutableLifecycle(row) ==
    <<row.state, row.protection>> \in {<<"READY", "NONE">>, <<"SERVING", "SERVING">>,
                                        <<"RETIRING", "ROLLBACK">>}

\* deriveTarget: host by generation, port and path by the type of its store.
DeriveTarget(g) == <<g, registry[g].backend>>

\* Mutant: the cache is kept as long as the generation has the same name.
Known_byName(r) == cache.target # None /\ cache.gen = request[r].gen
Known(r) == cache.version = request[r].version /\ cache.gen = request[r].gen

\* ROUTER_TARGET_UNRESOLVABLE leaves the cache alone; the query ends either way.
Resolve(r) ==
    /\ request[r].pc = "pointed"
    /\ LET g == request[r].gen
           target == IF Known(r) THEN cache.target
                     ELSE IF RoutableLifecycle(registry[g]) THEN DeriveTarget(g) ELSE None
       IN  cache' = IF target = None THEN cache
                    ELSE [version |-> request[r].version, gen |-> g, target |-> target]
    /\ request' = [request EXCEPT ![r] = Waiting]
    /\ UNCHANGED <<servingVars, stores, operator, cleaner, faults>>

-----------------------------------------------------------------------------
\* The serving reconciler, over the rows as they are.

Existing == {g \in Generations : registry[g].state # "ABSENT"}
Serving == {g \in Generations : registry[g].state = "SERVING"}
Failed == {g \in Generations : registry[g].state = "FAILED"}

Reconcile ==
    CASE pointer.gen \notin Existing   -> "POINTER_TARGET_MISSING"
      [] Serving # {pointer.gen}       -> "POINTER_REGISTRY_MISMATCH"
      [] pointer.gen \notin stores     -> "SERVING_GENERATION_UNAVAILABLE"
      [] \E g \in Generations : registry[g].state = "READY" /\ g # pointer.prev
                                       -> "CONSISTENT_WITH_READY_CANDIDATE"
      [] OTHER                         -> "CONSISTENT"

\* retainFailed = 1: the newest failure.
Retained == {g \in Failed : \A f \in Failed : registry[f].created <= registry[g].created}

Protected == {pointer.gen, pointer.prev}

\* Mutant: what retires is taken for what has retired.
Disposable_retiring(g) == registry[g].state \in {"RETIRING", "RETIRED", "FAILED"}
Disposable(g) == registry[g].state \in {"RETIRED", "FAILED"}

SelectGenerationCleanupCandidates == {g \in Generations : Disposable(g)} \ (Protected \cup Retained)

-----------------------------------------------------------------------------
\* cleanup(): candidate by candidate, the dataset first, the row after it.

LoadServingEvidence ==
    /\ cleaner.pc = "idle"
    /\ SelectGenerationCleanupCandidates # {}
    /\ cleaner' = [pc |-> "physical", todo |-> SelectGenerationCleanupCandidates]
    /\ UNCHANGED <<servingVars, stores, operator, request, cache, faults>>

Target == CHOOSE g \in cleaner.todo : TRUE

\* deleteGeneration is idempotent.
DeleteGeneration ==
    /\ cleaner.pc = "physical"
    /\ stores' = stores \ {Target}
    /\ cleaner' = [cleaner EXCEPT !.pc = "row"]
    /\ UNCHANGED <<servingVars, operator, request, cache, faults>>

\* Mutant: the loop goes on without deleting the row.
RowAfterDeletion_kept(g) == registry[g]
RowAfterDeletion(g) == Absent

DeleteRetiredGeneration ==
    /\ cleaner.pc = "row"
    /\ registry' = [registry EXCEPT ![Target] = RowAfterDeletion(Target)]
    /\ LET left == cleaner.todo \ {Target}
       IN  cleaner' = IF left = {} THEN Resting ELSE [pc |-> "physical", todo |-> left]
    /\ UNCHANGED <<pointer, journal, stores, operator, request, cache, faults>>

CleanerDies ==
    /\ cleaner.pc # "idle"
    /\ faults < MaxFaults
    /\ faults' = faults + 1
    /\ cleaner' = Resting
    /\ UNCHANGED <<servingVars, stores, operator, request, cache>>

CleanerStep == LoadServingEvidence \/ DeleteGeneration \/ DeleteRetiredGeneration

-----------------------------------------------------------------------------
Next ==
    \/ \E g \in Generations : BuildEnds(g) \/ Retire(g) \/ \E b \in Backends : Build(g, b)
    \/ \E o \in Operators : Get(o) \/ Rollback(o) \/ Leave(o) \/ \E g \in Generations : Promote(o, g)
    \/ \E r \in Requests : Follow(r) \/ Resolve(r)
    \/ CleanerStep \/ CleanerDies

Spec == Init /\ [][Next]_vars

\* Cleanup is run again and again, and a run that is not killed goes on.
FairSpec == Spec /\ WF_vars(CleanerStep)

-----------------------------------------------------------------------------
\* Every variable keeps its type.
Targets == (Generations \X Backends) \cup {None}
TypeOK ==
    /\ registry \in [Generations -> Row]
    /\ stores \subseteq Generations
    /\ pointer \in [gen : Generations, prev : Generations \cup {None}, version : Nat]
    /\ journal \in Seq(Promotion)
    /\ operator \in [Operators -> [pc : {"idle", "read", "promoted"}, version : Nat,
                                   gen : Generations, id : 0..Len(journal)]]
    /\ request \in [Requests -> [pc : {"new", "pointed"}, version : Nat, gen : Generations]]
    /\ cache \in [version : Nat, gen : Generations, target : Targets]
    /\ cleaner \in [pc : {"idle", "physical", "row"}, todo : SUBSET Generations]
    /\ faults \in 0..MaxFaults

\* The unique protections follow the pointer: SERVING on its generation,
\* ROLLBACK on the previous one, and on no other; so startup reconciliation
\* becomes ready whenever it runs, whatever operators and cleaner are at.
ProtectionFollowsPointer ==
    /\ \A g \in Generations :
          /\ registry[g].protection = "SERVING" <=> g = pointer.gen
          /\ registry[g].protection = "ROLLBACK" <=> g = pointer.prev
    /\ Reconcile \in {"CONSISTENT", "CONSISTENT_WITH_READY_CANDIDATE"}

\* Promotions that were not rolled back explain what the pointer says, also
\* when operators race with remembered versions.
Effective == {i \in 1..Len(journal) : journal[i].state = "COMMITTED"}
JournalExplainsPointer ==
    pointer.gen = IF Effective = {} THEN First
                  ELSE journal[CHOOSE i \in Effective : \A j \in Effective : j <= i].to

\* An operator whose promotion is still the latest move can take it back: the
\* generation it replaced is retained, row and dataset.
LatestPromotionRevertible ==
    \A o \in Operators : operator[o].pc = "promoted" /\ Expected(o) =>
        Revertible /\ pointer.prev \in stores

\* Cleanup never takes the dataset of a generation the pointer names or that
\* could still be promoted, although it decides long before it deletes; and a
\* failed row goes only when a newer failure stays for diagnosis.
SparesTheLiving ==
    /\ \A g \in stores \ stores' : /\ g \notin {pointer.gen, pointer.prev}
                                   /\ registry[g].state \in {"RETIRED", "FAILED"}
    /\ \A g \in Failed : registry'[g].state = "ABSENT" =>
          \E f \in Failed : /\ registry[f].created > registry[g].created
                            /\ registry'[f].state = "FAILED"
CleanupSparesTheLiving == [][SparesTheLiving]_vars

\* A retired generation is deleted in the end, row and dataset, in spite of
\* crashes between the two deletions.
RetiredIsDeleted ==
    \A g \in Generations : registry[g].state = "RETIRED" ~> registry[g].state = "ABSENT"

\* As long as the pointer has not moved on since the router read it, the router
\* finds the generation routable, first query or not, and sends the query to the
\* store that generation has: what the cache knows by version and name is never
\* an earlier generation of that name.
RoutedWherePointerSays ==
    \A r \in Requests : request[r].pc = "pointed" /\ request[r].version = pointer.version =>
        IF Known(r) THEN cache.target = DeriveTarget(pointer.gen)
                    ELSE RoutableLifecycle(registry[pointer.gen])

==============================================================================
