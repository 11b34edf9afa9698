------------------------------ MODULE RdfSync ------------------------------
(***************************************************************************)
(* One generation kept in step with the wiki: the loader fills its store   *)
(* from a dump, then sync workers (SyncWorkerRuntime, RdfSyncEngine) replay *)
(* RecentChanges from the cursor captured before the dump.                 *)
(*                                                                         *)
(* Each awaited call of the worker is an action: between two of them the   *)
(* wiki changes, the process may die (Crash), and a call may be rejected   *)
(* (Reject), which the engine turns into setSourceStatus(REBUILD_REQUIRED). *)
(* A deployment has one worker per generation; nothing in the database     *)
(* keeps a second one out, and what two of them do is not covered here.    *)
(*                                                                         *)
(* store holds, per entity, the revision its entity graph was written      *)
(* from; schemas the same for a Property's schema graph; 0 is no graph.    *)
(***************************************************************************)
EXTENDS WikiSource

CONSTANTS Workers, MaxFaults

ASSUME SyncAssumption == MaxFaults \in Nat /\ None \notin Workers

VARIABLES sync,    \* row of rdf_generation_sync
          rows,    \* rdf_generation_entity_revision
          graphs,  \* rdf_generation_graph
          store,   \* entity graphs of the SPARQL store
          schemas, \* schema graphs of the SPARQL store
          loader,  \* the bootstrap process
          work,    \* what each worker is doing
          faults

dbVars == <<sync, rows, graphs>>
storeVars == <<store, schemas>>
vars == <<wikiVars, dbVars, storeVars, loader, work, faults>>

SourceStates == {"BOOTSTRAPPING", "CATCHING_UP", "CURRENT", "STALE"}
EntityStates == {"PENDING", "CURRENT", "GAP", "DELETED", "RESTORING"}
GraphNames == [kind : {"ENTITY"}, entity : Entities]
                 \cup [kind : {"PROPERTY_SCHEMA"}, entity : Properties]

EntityRow == [indexed : Nat, seen : Nat, status : EntityStates]
Unindexed == [indexed |-> 0, seen |-> 0, status |-> "PENDING"]

EntityGraph(e) == [kind |-> "ENTITY", entity |-> e]
SchemaGraph(e) == [kind |-> "PROPERTY_SCHEMA", entity |-> e]
GraphsOf(e) == {EntityGraph(e)} \cup (IF e \in Properties THEN {SchemaGraph(e)} ELSE {})

Task == [entity : Entities, rev : Nat]
Asleep == [pc |-> "poll", cursor |-> 0, page |-> {}, todo |-> <<>>, row |-> Unindexed]

LoaderCalls == {"capture", "dump", "reset", "load", "done"}
WorkerCalls == {"poll", "read", "quiet", "event", "resolve", "entity", "gap", "restoring", "fetch",
                "put", "register", "putSchema", "registerSchema", "verify", "save", "commit",
                "advance", "dropEntity", "unregisterEntity", "dropSchema", "unregisterSchema",
                "tombstone", "rebuild"}
Job == [pc : WorkerCalls, cursor : Nat, page : SUBSET Row, todo : Seq(Task), row : EntityRow]

\* Ids in ascending order.
Order == SetToSeq(Entities)

-----------------------------------------------------------------------------
\* Bootstrap: capture the cursor, dump, load graph by graph, mark current.

\* A later run of the same bootstrap keeps the cursor of the first
\* (ON CONFLICT DO NOTHING).
CaptureCursor ==
    /\ loader.pc = "capture"
    /\ sync' = [sync EXCEPT !.cursor = IF sync.registered THEN @ ELSE lastRcid,
                            !.registered = TRUE]
    /\ loader' = [pc |-> "dump", dump |-> << >>]
    /\ UNCHANGED <<wikiVars, rows, graphs, storeVars, work, faults>>

\* Both the dump and the loader take the entities in a fixed order.
IsFirst(e, S) == e \in S /\ \A f \in S : IndexFirstSubSeq(<<e>>, Order) <= IndexFirstSubSeq(<<f>>, Order)

\* dumpRdf walks over the entities while the wiki changes (external).
DumpEntity(e) ==
    /\ loader.pc = "dump"
    /\ IsFirst(e, Entities \ DOMAIN loader.dump)
    /\ LET content == IF pages[e].exists /\ pages[e].redirect = None THEN pages[e].rev ELSE 0
           seen == [f \in DOMAIN loader.dump \cup {e} |->
                       IF f = e THEN content ELSE loader.dump[f]]
       IN  loader' = [pc |-> IF DOMAIN seen = Entities THEN "reset" ELSE "dump",
                      dump |-> seen]
    /\ UNCHANGED <<wikiVars, dbVars, storeVars, work, faults>>

ResetStore ==
    /\ loader.pc = "reset"
    /\ store' = [e \in Entities |-> 0]
    /\ schemas' = [e \in Properties |-> 0]
    /\ loader' = [loader EXCEPT !.pc = "load"]
    /\ UNCHANGED <<wikiVars, dbVars, work, faults>>

\* replaceNamedGraph, registerGraph and saveEntity of one entity's graphs.  No
\* worker runs yet, and a loader that dies in between starts over with a reset.
LoadGraph(e) ==
    /\ loader.pc = "load"
    /\ IsFirst(e, DOMAIN loader.dump)
    /\ LET rev == loader.dump[e]
       IN  IF rev = 0
           THEN UNCHANGED <<rows, graphs, storeVars>>
           ELSE /\ store' = [store EXCEPT ![e] = rev]
                /\ schemas' = IF e \in Properties THEN [schemas EXCEPT ![e] = rev] ELSE schemas
                /\ graphs' = graphs \cup GraphsOf(e)
                /\ rows' = [rows EXCEPT ![e] =
                              [indexed |-> rev, seen |-> rev, status |-> "CURRENT"]]
    /\ loader' = [loader EXCEPT !.dump = [f \in DOMAIN @ \ {e} |-> @[f]]]
    /\ UNCHANGED <<wikiVars, sync, work, faults>>

\* setSchemaState, saveGenerationManifest and markCurrent end the bootstrap.
MarkCurrent ==
    /\ loader.pc = "load"
    /\ loader.dump = << >>
    /\ sync' = [sync EXCEPT !.state = "CURRENT", !.schema = "CURRENT"]
    /\ loader' = [loader EXCEPT !.pc = "done"]
    /\ UNCHANGED <<wikiVars, rows, graphs, storeVars, work, faults>>

LoaderDies ==
    /\ loader.pc \in {"dump", "reset", "load"}
    /\ faults < MaxFaults
    /\ faults' = faults + 1
    /\ loader' = [pc |-> "capture", dump |-> << >>]
    /\ UNCHANGED <<wikiVars, dbVars, storeVars, work>>

-----------------------------------------------------------------------------
\* The worker's position.

At(w, pc) == loader.pc = "done" /\ work[w].pc = pc
Goto(w, pc) == work' = [work EXCEPT ![w] = [@ EXCEPT !.pc = pc]]

\* The rows read are processed in order.
Event(w) == Oldest(work[w].page)
Action(w) == Classify(Event(w))
PlainEdit(w) == Action(w) = "ENTITY_EDIT"
ForceRestore(w) == Action(w) = "ENTITY_UNDELETE"

\* Back to sleep until the next poll, forgetting everything.
Sleep(w) == work' = [work EXCEPT ![w] = Asleep]

NextEvent(w) ==
    LET left == work[w].page \ {Event(w)}
    IN  work' = [work EXCEPT ![w] =
                   [Asleep EXCEPT !.pc = IF left = {} THEN "poll" ELSE "event", !.page = left]]

\* The next entity of a lifecycle event, or the cursor when all are done.
NextTask(w) ==
    LET left == Tail(work[w].todo)
    IN  work' = [work EXCEPT ![w] = [@ EXCEPT !.todo = left,
                                              !.pc = IF left = <<>> THEN "advance" ELSE "entity"]]

\* Mutant: the chain is checked before the duplicate.
Observe_GapFirst(indexed, rev, old) ==
    IF indexed # 0 /\ old # indexed THEN "GAP_DETECTED"
    ELSE IF rev <= indexed THEN "DUPLICATE_OR_OLDER" ELSE "APPLY"

\* RevisionFence.observe
Observe(indexed, rev, old) ==
    IF rev <= indexed THEN "DUPLICATE_OR_OLDER"
    ELSE IF indexed # 0 /\ old # indexed THEN "GAP_DETECTED" ELSE "APPLY"

-----------------------------------------------------------------------------
\* pollOnce

LoadSource(w) ==
    /\ At(w, "poll")
    /\ work' = [work EXCEPT ![w] = [Asleep EXCEPT !.pc = "read", !.cursor = sync.cursor]]
    /\ UNCHANGED <<wikiVars, dbVars, storeVars, loader, faults>>

ReadSource(w) ==
    /\ At(w, "read")
    /\ LET events == ReadChanges(work[w].cursor)
       IN  work' = [work EXCEPT ![w] =
                      [Asleep EXCEPT !.pc = IF events = {} THEN "quiet" ELSE "event",
                                     !.page = events]]
    /\ UNCHANGED <<wikiVars, dbVars, storeVars, loader, faults>>

\* Mutant: the status is stored under its protocol name, without mapSourceState.
MarkHealthy_Unmapped(w) ==
    /\ At(w, "quiet")
    /\ sync' = IF sync.schema = "CURRENT" THEN [sync EXCEPT !.state = "HEALTHY"] ELSE sync
    /\ Sleep(w)
    /\ UNCHANGED <<wikiVars, rows, graphs, storeVars, loader, faults>>

\* run: an empty poll of a source with a current schema makes it healthy.
MarkHealthy(w) ==
    /\ At(w, "quiet")
    /\ sync' = IF sync.schema = "CURRENT" THEN [sync EXCEPT !.state = "CURRENT"] ELSE sync
    /\ Sleep(w)
    /\ UNCHANGED <<wikiVars, rows, graphs, storeVars, loader, faults>>

\* processEvent decides by the class of the event; #delete first reads the row.
Dispatch(w) ==
    /\ At(w, "event")
    /\ LET e == Event(w).entity
           go(pc) == [work[w] EXCEPT !.pc = pc]
       IN  work' = [work EXCEPT ![w] =
             CASE Action(w) = "NON_ENTITY_CHANGE" -> go("advance")
               [] Action(w) = "UNKNOWN" -> go("rebuild")
               [] Action(w) = "ENTITY_DELETE" -> [go("dropEntity") EXCEPT !.row = rows[e]]
               [] Action(w) = "ENTITY_EDIT" ->
                    [go("entity") EXCEPT !.todo = <<[entity |-> e, rev |-> Event(w).rev]>>]
               [] OTHER -> go("resolve")]
    /\ UNCHANGED <<wikiVars, dbVars, storeVars, loader, faults>>

\* #lifecycle: one #edit per resolved entity, or AMBIGUOUS_LIFECYCLE.
ResolveLifecycle(w) ==
    /\ At(w, "resolve")
    /\ LET resolved == Resolve(Event(w))
       IN  \/ /\ resolved = {}
              /\ Goto(w, "rebuild")
           \/ \E order \in SetToSeqs(resolved) :
                  /\ order # <<>>
                  /\ order[1].entity = Event(w).entity
                  /\ work' = [work EXCEPT ![w] = [@ EXCEPT !.pc = "entity", !.todo = order]]
    /\ UNCHANGED <<wikiVars, dbVars, storeVars, loader, faults>>

-----------------------------------------------------------------------------
\* #edit

\* A lifecycle edit takes the indexed revision itself as the one before.
LoadEntity(w) ==
    /\ At(w, "entity")
    /\ LET task == Head(work[w].todo)
           row == rows[task.entity]
           old == IF PlainEdit(w) THEN Event(w).old ELSE row.indexed
           decision == Observe(row.indexed, task.rev, old)
           go(pc) == work' = [work EXCEPT ![w] = [@ EXCEPT !.pc = pc, !.row = row]]
       IN  IF ForceRestore(w)
           THEN IF row.status \in {"DELETED", "RESTORING", "CURRENT"}
                THEN go("restoring") ELSE go("rebuild")
           ELSE \/ decision = "GAP_DETECTED" /\ go("gap")
                \/ decision = "APPLY" /\ go("fetch")
                \/ /\ decision = "DUPLICATE_OR_OLDER"
                   /\ IF PlainEdit(w) THEN go("advance") ELSE NextTask(w)
    /\ UNCHANGED <<wikiVars, dbVars, storeVars, loader, faults>>

\* Mutant: the return after the gap is missing.
SaveGap_Continues(w) ==
    /\ At(w, "gap")
    /\ LET task == Head(work[w].todo)
       IN  rows' = [rows EXCEPT ![task.entity] =
                      [work[w].row EXCEPT !.seen = task.rev, !.status = "GAP"]]
    /\ Goto(w, "fetch")
    /\ UNCHANGED <<wikiVars, sync, graphs, storeVars, loader, faults>>

SaveGap(w) ==
    /\ At(w, "gap")
    /\ LET task == Head(work[w].todo)
       IN  rows' = [rows EXCEPT ![task.entity] =
                      [work[w].row EXCEPT !.seen = task.rev, !.status = "GAP"]]
    /\ Goto(w, "rebuild")
    /\ UNCHANGED <<wikiVars, sync, graphs, storeVars, loader, faults>>

SaveRestoring(w) ==
    /\ At(w, "restoring")
    /\ rows' = [rows EXCEPT ![Head(work[w].todo).entity] =
                  [work[w].row EXCEPT !.status = "RESTORING"]]
    /\ Goto(w, "fetch")
    /\ UNCHANGED <<wikiVars, sync, graphs, storeVars, loader, faults>>

FetchRevision(w) ==
    /\ At(w, "fetch")
    /\ LET task == Head(work[w].todo)
       IN  Goto(w, IF Fetchable(task.entity, task.rev) THEN "put" ELSE "rebuild")
    /\ UNCHANGED <<wikiVars, dbVars, storeVars, loader, faults>>

ReplaceEntityGraph(w) ==
    /\ At(w, "put")
    /\ LET task == Head(work[w].todo) IN store' = [store EXCEPT ![task.entity] = task.rev]
    /\ Goto(w, "register")
    /\ UNCHANGED <<wikiVars, dbVars, schemas, loader, faults>>

RegisterEntityGraph(w) ==
    /\ At(w, "register")
    /\ LET e == Head(work[w].todo).entity
       IN  /\ graphs' = graphs \cup {EntityGraph(e)}
           /\ Goto(w, IF e \in Properties THEN "putSchema" ELSE "verify")
    /\ UNCHANGED <<wikiVars, sync, rows, storeVars, loader, faults>>

ReplaceSchemaGraph(w) ==
    /\ At(w, "putSchema")
    /\ LET task == Head(work[w].todo) IN schemas' = [schemas EXCEPT ![task.entity] = task.rev]
    /\ Goto(w, "registerSchema")
    /\ UNCHANGED <<wikiVars, dbVars, store, loader, faults>>

\* registerGraph and setSchemaState
RegisterSchemaGraph(w) ==
    /\ At(w, "registerSchema")
    /\ graphs' = graphs \cup {SchemaGraph(Head(work[w].todo).entity)}
    /\ sync' = [sync EXCEPT !.schema = "CURRENT"]
    /\ Goto(w, "verify")
    /\ UNCHANGED <<wikiVars, rows, storeVars, loader, faults>>

VerifyGraph(w) ==
    /\ At(w, "verify")
    /\ LET task == Head(work[w].todo)
       IN  Goto(w, IF store[task.entity] = task.rev THEN "save" ELSE "rebuild")
    /\ UNCHANGED <<wikiVars, dbVars, storeVars, loader, faults>>

Indexed(row, rev) == [indexed |-> rev, seen |-> Max({row.seen, rev}), status |-> "CURRENT"]

\* Mutant: the revision the page has by now is recorded.
SaveEntity_Latest(w) ==
    /\ At(w, "save")
    /\ LET task == Head(work[w].todo)
       IN  rows' = [rows EXCEPT ![task.entity] = Indexed(work[w].row, pages[task.entity].rev)]
    /\ IF PlainEdit(w) THEN Goto(w, "commit") ELSE NextTask(w)
    /\ UNCHANGED <<wikiVars, sync, graphs, storeVars, loader, faults>>

SaveEntity(w) ==
    /\ At(w, "save")
    /\ LET task == Head(work[w].todo)
       IN  rows' = [rows EXCEPT ![task.entity] = Indexed(work[w].row, task.rev)]
    /\ IF PlainEdit(w) THEN Goto(w, "commit") ELSE NextTask(w)
    /\ UNCHANGED <<wikiVars, sync, graphs, storeVars, loader, faults>>

-----------------------------------------------------------------------------
\* commitEvent: entity and cursor in one transaction, refused unless the
\* cursor advances.  The refusal (CURSOR_REGRESSION) takes a second worker on
\* the same generation: one worker always reads the cursor it committed.

Advances(w) == Event(w).rcid > sync.cursor

MoveCursor(w) ==
    sync' = [sync EXCEPT !.cursor = Event(w).rcid,
                         !.state = IF @ = "BOOTSTRAPPING" THEN "CATCHING_UP" ELSE @]

CommitEdit(w) ==
    /\ At(w, "commit")
    /\ Advances(w)
    /\ MoveCursor(w)
    /\ LET task == Head(work[w].todo)
       IN  rows' = [rows EXCEPT ![task.entity] = Indexed(work[w].row, task.rev)]
    /\ NextEvent(w)
    /\ UNCHANGED <<wikiVars, graphs, storeVars, loader, faults>>

AdvanceCursor(w) ==
    /\ At(w, "advance")
    /\ Advances(w)
    /\ MoveCursor(w)
    /\ NextEvent(w)
    /\ UNCHANGED <<wikiVars, rows, graphs, storeVars, loader, faults>>

-----------------------------------------------------------------------------
\* #delete: entity graph, then a Property's schema graph, then the tombstone.

DeleteEntityGraph(w) ==
    /\ At(w, "dropEntity")
    /\ store' = [store EXCEPT ![Event(w).entity] = 0]
    /\ Goto(w, "unregisterEntity")
    /\ UNCHANGED <<wikiVars, dbVars, schemas, loader, faults>>

UnregisterEntityGraph(w) ==
    /\ At(w, "unregisterEntity")
    /\ graphs' = graphs \ {EntityGraph(Event(w).entity)}
    /\ Goto(w, IF Event(w).entity \in Properties THEN "dropSchema" ELSE "tombstone")
    /\ UNCHANGED <<wikiVars, sync, rows, storeVars, loader, faults>>

DeleteSchemaGraph(w) ==
    /\ At(w, "dropSchema")
    /\ schemas' = [schemas EXCEPT ![Event(w).entity] = 0]
    /\ Goto(w, "unregisterSchema")
    /\ UNCHANGED <<wikiVars, dbVars, store, loader, faults>>

UnregisterSchemaGraph(w) ==
    /\ At(w, "unregisterSchema")
    /\ graphs' = graphs \ {SchemaGraph(Event(w).entity)}
    /\ Goto(w, "tombstone")
    /\ UNCHANGED <<wikiVars, sync, rows, storeVars, loader, faults>>

\* Mutant: only the cursor is committed.
CommitTombstone_CursorOnly(w) ==
    /\ At(w, "tombstone")
    /\ Advances(w)
    /\ MoveCursor(w)
    /\ NextEvent(w)
    /\ UNCHANGED <<wikiVars, rows, graphs, storeVars, loader, faults>>

CommitTombstone(w) ==
    /\ At(w, "tombstone")
    /\ Advances(w)
    /\ MoveCursor(w)
    /\ rows' = [rows EXCEPT ![Event(w).entity] = [work[w].row EXCEPT !.status = "DELETED"]]
    /\ NextEvent(w)
    /\ UNCHANGED <<wikiVars, graphs, storeVars, loader, faults>>

-----------------------------------------------------------------------------
\* Failures

\* #rebuildRequired: the source is reported stale and the batch stops.
RebuildRequired(w) ==
    /\ At(w, "rebuild")
    /\ sync' = [sync EXCEPT !.state = "STALE"]
    /\ Sleep(w)
    /\ UNCHANGED <<wikiVars, rows, graphs, storeVars, loader, faults>>

\* Calls outside the try of processEvent: an error ends the poll.
Unguarded(w) == work[w].pc \in {"poll", "read", "quiet", "event", "rebuild"}

\* A call of processEvent is rejected; whether its effect was lost or only its
\* answer makes no difference to the handler.
Reject(w) ==
    /\ loader.pc = "done"
    /\ ~Unguarded(w)
    /\ faults < MaxFaults
    /\ faults' = faults + 1
    /\ IF Action(w) = "NON_ENTITY_CHANGE" THEN Sleep(w) ELSE Goto(w, "rebuild")
    /\ UNCHANGED <<wikiVars, dbVars, storeVars, loader>>

\* The process dies and is restarted by its Deployment.
Crash(w) ==
    /\ work[w].pc # "poll"
    /\ faults < MaxFaults
    /\ faults' = faults + 1
    /\ Sleep(w)
    /\ UNCHANGED <<wikiVars, dbVars, storeVars, loader>>

-----------------------------------------------------------------------------
\* The generation under synchronization

\* Every entity has a page with one revision when the generation is created.
Init ==
    /\ revisions = Order
    /\ pages = [e \in Entities |-> [rev |-> CHOOSE r \in 1..Len(revisions) : revisions[r] = e,
                                    exists |-> TRUE, redirect |-> None]]
    /\ rc = {}
    /\ lastRcid = 0
    /\ purged = FALSE
    /\ sync = [registered |-> FALSE, cursor |-> 0, state |-> "BOOTSTRAPPING",
               schema |-> "PENDING"]
    /\ rows = [e \in Entities |-> Unindexed]
    /\ graphs = {}
    /\ store = [e \in Entities |-> 0]
    /\ schemas = [e \in Properties |-> 0]
    /\ loader = [pc |-> "capture", dump |-> << >>]
    /\ work = [w \in Workers |-> Asleep]
    /\ faults = 0

LoaderNext == \/ CaptureCursor
              \/ \E e \in Entities : DumpEntity(e) \/ LoadGraph(e)
              \/ ResetStore
              \/ MarkCurrent

WorkerStep(w) ==
    \/ LoadSource(w) \/ ReadSource(w) \/ MarkHealthy(w) \/ Dispatch(w)
    \/ ResolveLifecycle(w)
    \/ LoadEntity(w) \/ SaveGap(w) \/ SaveRestoring(w) \/ FetchRevision(w)
    \/ ReplaceEntityGraph(w) \/ RegisterEntityGraph(w)
    \/ ReplaceSchemaGraph(w) \/ RegisterSchemaGraph(w)
    \/ VerifyGraph(w) \/ SaveEntity(w)
    \/ CommitEdit(w) \/ AdvanceCursor(w)
    \/ DeleteEntityGraph(w) \/ UnregisterEntityGraph(w)
    \/ DeleteSchemaGraph(w) \/ UnregisterSchemaGraph(w) \/ CommitTombstone(w)
    \/ RebuildRequired(w)

Next ==
    \/ WikiNext /\ UNCHANGED <<dbVars, storeVars, loader, work, faults>>
    \/ LoaderNext
    \/ LoaderDies
    \/ \E w \in Workers : WorkerStep(w) \/ Reject(w) \/ Crash(w)

SyncSpec == Init /\ [][Next]_vars

\* run() polls for ever and its Deployment restarts it; the bootstrap is retried
\* until it succeeds.
SyncFairness == WF_vars(LoaderNext) /\ \A w \in Workers : WF_vars(WorkerStep(w))

FairSyncSpec == SyncSpec /\ SyncFairness

-----------------------------------------------------------------------------
\* Properties

TypeOK ==
    /\ WikiTypeOK
    /\ sync \in [registered : BOOLEAN, cursor : Nat, state : SourceStates,
                 schema : {"PENDING", "CURRENT"}]
    /\ rows \in [Entities -> EntityRow]
    /\ graphs \subseteq GraphNames
    /\ store \in [Entities -> Nat]
    /\ schemas \in [Properties -> Nat]
    /\ \E S \in SUBSET Entities : loader \in [pc : LoaderCalls, dump : [S -> Nat]]
    /\ work \in [Workers -> Job]
    /\ faults \in 0..MaxFaults

Loaded == loader.pc = "done"

\* Some row about e is still ahead of the cursor.
Ahead(e) == \E row \in rc : row.rcid > sync.cursor /\ e \in LifecycleIds(row)

DeletionAhead(e) ==
    \E row \in rc : row.rcid > sync.cursor /\ row.kind = "delete" /\ row.entity = e

\* A fence never runs ahead of the store: an entity whose row is CURRENT has a
\* graph of at least the indexed revision, unless a deletion is being
\* replayed (or the entity has become a redirect, which has no graph of its own).
FenceBackedByGraph ==
    Loaded /\ ~purged =>
        \A e \in Entities : rows[e].status = "CURRENT" =>
            \/ store[e] >= rows[e].indexed
            \/ store[e] = 0 /\ DeletionAhead(e)
            \/ pages[e].redirect # None

\* What the generation must hold for e once nothing about e is ahead.
Mirrored(e) ==
    /\ store[e] = (IF pages[e].exists THEN pages[e].rev ELSE 0)
    /\ e \in Properties => schemas[e] = store[e]
    /\ graphs \cap GraphsOf(e) = (IF pages[e].exists THEN GraphsOf(e) ELSE {})
    /\ (rows[e].status = "CURRENT") <=> pages[e].exists
    /\ pages[e].exists => rows[e].indexed = pages[e].rev

\* No event is lost: an entity with no row ahead of the cursor is mirrored
\* exactly, graph, schema, registry and fence, through every crash, retry,
\* overlap of the dump with edits, deletion and restoration.
NothingIsLost ==
    Loaded /\ ~purged =>
        \A e \in Entities : Ahead(e) \/ pages[e].redirect # None \/ Mirrored(e)

\* A fence moves only to the revision that is in the store at that moment
\* (the exact revision of the event, never whatever happens to be latest).
FenceMovesToGraph ==
    \A e \in Entities : Loaded /\ rows'[e].indexed # rows[e].indexed =>
        store[e] = rows'[e].indexed
FenceCommitsVerifiedGraph == [][FenceMovesToGraph]_vars

\* An edit chain with a hole is never written over: the graph of an entity
\* whose row is in GAP is dropped with the entity or replaced by a lifecycle
\* event, which resolves the current revision; no edit replayed afterwards, in
\* the same batch or in a later poll, ever touches it.
OnlyLifecycleWritesGaps ==
    \A e \in Entities :
        Loaded /\ rows[e].status = "GAP" /\ store'[e] # store[e] =>
            \E w \in Workers : work[w].pc \in {"put", "dropEntity"} /\ ~PlainEdit(w)
GapFreezesGraph == [][OnlyLifecycleWritesGaps]_vars

InStep ==
    /\ Loaded
    /\ ReadChanges(sync.cursor) = {}
    /\ sync.state = "CURRENT"
    /\ \A e \in Entities : pages[e].redirect # None \/ Mirrored(e)

\* The next row cannot be followed: not an edit or a deletion, but a lifecycle
\* change the code gives up on.
Stuck == /\ sync.state = "STALE"
         /\ ReadChanges(sync.cursor) # {}
         /\ Oldest(ReadChanges(sync.cursor)).kind \notin {"edit", "delete"}

\* Liveness: whatever happens in the wiki, the generation gets in step with it
\* for good or reports STALE for good, and the latter only at a row that is
\* neither an edit nor a deletion (pollOnce, processEvent; the loss of rows by
\* retention apart, which the code does not notice).
FollowsOrReportsStale == <>purged \/ <>[]InStep \/ <>[]Stuck

=============================================================================
