------------------------- MODULE DatasetGeneration -------------------------
(***************************************************************************)
(* What a standalone candidate generation contains: the dump that fills    *)
(* it, graph by graph, the EntityData responses the sync worker replaces   *)
(* graphs with, and the comparison with a fresh dump that accepts it.      *)
(* RdfSync has the worker's control step by step and no contents; here an  *)
(* event is handled as the list of states the handler leads through, of    *)
(* which any prefix may happen before the process dies.                    *)
(***************************************************************************)
EXTENDS WikiSource, RdfCanonicalization, GraphStore

CONSTANTS Amounts,         \* numbers that statements are about
          Contents,        \* sets of claims that a revision may have
          MaxDisturbances  \* bound on changes of the wiki, further rebuilds and
                           \* failures, taken together

ASSUME DatasetAssumption ==
    /\ PropertyIds = Properties /\ MaxDisturbances \in Nat
    /\ \A claims \in Contents : claims \subseteq Claims(Entities, Amounts) /\ IsFiniteSet(claims)

VARIABLES contents,  \* contents[r] is the set of claims of revision r
          gen,       \* rows of rdf_generation, _sync, _entity_revision, _graph
          db,        \* the generation's SPARQL store
          job,       \* the rebuild or validation command, the worker's container,
                     \* and the cursor of the source reader
          verdict    \* of the last validation

dataVars == <<contents, gen, db, job, verdict>>
datasetVars == <<wikiVars, dataVars>>

Order == SetToSeq(Entities)
Position(e) == CHOOSE i \in DOMAIN Order : Order[i] = e
Unindexed == [indexed |-> 0, status |-> "PENDING"]
NoVerdict == [result |-> "NONE", excused |-> FALSE]

Undisturbed == lastRcid + job.rebuilds + job.faults < MaxDisturbances

-----------------------------------------------------------------------------
\* The wiki (external) with the contents of its revisions.

EditTo(e, claims) == EditPage(e) /\ contents' = Append(contents, claims)

WriteEntity(e, claims) ==
    /\ Undisturbed /\ EditTo(e, claims)
    /\ UNCHANGED <<gen, db, job, verdict>>

LifecycleOfPage ==
    /\ Undisturbed
    /\ \E e \in Entities : DeletePage(e) \/ UndeletePage(e)
    /\ UNCHANGED dataVars

Found(S) == [e \in {f \in S : pages[f].exists} |->
                [rev |-> pages[e].rev, claims |-> contents[pages[e].rev]]]

Dump(found) == FullDump(found, lastRcid)
Expected(found) == PartitionSnapshot(NormalizeWikibaseRdf(Dump(found)))

-----------------------------------------------------------------------------
\* jwb:rebuild: the worker is stopped, the cursor taken, the entities dumped one
\* after the other, the candidate's rows cleared, its store cleared and loaded.

JobAt(pc) == job.pc = pc
Worker(on) == [job EXCEPT !.pc = "idle", !.worker = on, !.ingested = 0]

StartRebuild ==
    /\ JobAt("idle") /\ Undisturbed
    /\ job' = [job EXCEPT !.pc = "dump", !.worker = FALSE, !.rebuilds = @ + 1,
                          !.cursor = lastRcid, !.left = Entities, !.found = << >>]
    /\ UNCHANGED <<wikiVars, contents, gen, db, verdict>>

DumpEntity ==
    /\ JobAt("dump")
    /\ LET next == CHOOSE e \in job.left : \A f \in job.left : Position(e) <= Position(f)
           seen == Found({next})
       IN  job' = [job EXCEPT !.found = [e \in DOMAIN @ \cup DOMAIN seen |->
                                            IF e \in DOMAIN seen THEN seen[e] ELSE job.found[e]],
                              !.left = @ \ {next},
                              !.pc = IF job.left = {next} THEN "begin" ELSE "dump"]
    /\ UNCHANGED <<wikiVars, contents, gen, db, verdict>>

\* Mutant: the cursor is the one of the moment of the load.
ClearedRows_Now(cursor) ==
    [state |-> "LOADING", sync |-> "BOOTSTRAPPING", schema |-> "PENDING", cursor |-> lastRcid,
     rows |-> [e \in Entities |-> Unindexed], graphs |-> {}, provenance |-> {}]

ClearedRows(cursor) ==
    [state |-> "LOADING", sync |-> "BOOTSTRAPPING", schema |-> "PENDING", cursor |-> cursor,
     rows |-> [e \in Entities |-> Unindexed], graphs |-> {}, provenance |-> {}]

BeginLoad ==
    /\ JobAt("begin")
    /\ gen' = ClearedRows(job.cursor)
    /\ job' = [job EXCEPT !.pc = "clear", !.loaded = FALSE]
    /\ UNCHANGED <<wikiVars, contents, db, verdict>>

\* The client of a generation has no dataset graph: reset is CLEAR ALL.
LoadClient == Initialize(Client(Profiles.oxigraph, NoGraph, NoPassword), <<"jwb", "gen">>)

\* The graphs that have a body, in the order of the partition: entities, each
\* Property with its schema, the rest.
WithBody(dataset) == {n \in DOMAIN dataset : dataset[n] # {}}

Place(name) == CASE name[1] = "entity" -> 2 * Position(name[2])
                 [] name[1] = "schema" -> 2 * Position(name[2]) + 1
                 [] name[1] = "global" -> 2 * Cardinality(Entities) + 2

NextGraph(names) == CHOOSE n \in names : \A m \in names : Place(n) <= Place(m)

ClearStore ==
    /\ JobAt("clear")
    /\ ~UnknownMetadata(Dump(job.found), "FULL_DUMP")
    /\ MayReset(LoadClient, ResetToken(LoadClient), NoPassword)
    /\ db' = Reset(db, LoadClient)
    /\ job' = [job EXCEPT !.pc = "load", !.left = WithBody(Expected(job.found))]
    /\ UNCHANGED <<wikiVars, contents, gen, verdict>>

\* A point the handler of a graph or of an event passes.
At(g, d) == [gen |-> g, db |-> d]

Register(g, name) == [g EXCEPT !.graphs = @ \cup {name}]
SaveEntity(g, e, rev) == [g EXCEPT !.rows[e] = [indexed |-> rev, status |-> "CURRENT"]]

\* replaceNamedGraph, registerGraph and, for an entity, saveEntity.
LoadPoints(name, dataset) ==
    LET put == PutGraph(db, name, dataset[name])
        registered == Register(gen, name)
    IN  <<At(gen, put), At(registered, put)>>
        \o (IF name[1] = "entity"
            THEN <<At(SaveEntity(registered, name[2], job.found[name[2]].rev), put)>> ELSE <<>>)

LoadGraph ==
    /\ JobAt("load") /\ job.left # {}
    /\ MayPut(LoadClient, NoPassword)
    /\ LET points == LoadPoints(NextGraph(job.left), Expected(job.found))
       IN  gen' = Last(points).gen /\ db' = Last(points).db
    /\ job' = [job EXCEPT !.left = @ \ {NextGraph(@)}]
    /\ UNCHANGED <<wikiVars, contents, verdict>>

\* setSchemaState, saveGenerationManifest with the provenance of the dump, and
\* the coordinator's own update, which replaces that manifest.
FinishPoints ==
    LET current == [gen EXCEPT !.schema = "CURRENT"]
    IN  <<At(current, db), At([current EXCEPT !.provenance = Provenance(Dump(job.found))], db),
          At([current EXCEPT !.state = "CATCHING_UP"], db)>>

\* The worker is started again.
FinishLoad ==
    /\ JobAt("load") /\ job.left = {}
    /\ gen' = Last(FinishPoints).gen
    /\ job' = [Worker(TRUE) EXCEPT !.loaded = TRUE]
    /\ UNCHANGED <<wikiVars, contents, db, verdict>>

\* The command fails or is killed; a failure starts the worker again, on
\* whatever the generation holds by then.
RebuildFails ==
    /\ ~JobAt("idle") /\ Undisturbed
    /\ \/ UNCHANGED <<gen, db>>
       \/ /\ JobAt("load")
          /\ LET points == IF job.left = {} THEN SubSeq(FinishPoints, 1, 2)
                           ELSE LoadPoints(NextGraph(job.left), Expected(job.found))
             IN  \E i \in DOMAIN points : gen' = points[i].gen /\ db' = points[i].db
    /\ \E on \in {job.worker, job.worker \/ ~JobAt("compare")} : job' = [Worker(on) EXCEPT !.faults = @ + 1]
    /\ UNCHANGED <<wikiVars, contents, verdict>>

-----------------------------------------------------------------------------
\* The sync worker: one RecentChanges row at a time.

Polls == JobAt("idle") /\ job.worker /\ ReadChanges(gen.cursor) # {}
Event == Oldest(ReadChanges(gen.cursor))

Commit(g) == [g EXCEPT !.cursor = Event.rcid,
                       !.sync = IF @ = "BOOTSTRAPPING" THEN "CATCHING_UP" ELSE @]
Stop(g) == [g EXCEPT !.sync = "STALE"]

\* partition(EntityData) of the exact revision.
Partition(e, rev) ==
    PartitionEntity(NormalizeWikibaseRdf(
        EntityData(e, rev, contents[rev], [f \in DOMAIN Found(Entities) |-> pages[f].rev])), e)

\* #edit once the fence let the revision pass: fetch, replace and register
\* each graph, save the entity.
WritePoints(g, e, rev) ==
    LET parts == Partition(e, rev)
        one == PutGraph(db, EntityGraphName(e), parts[EntityGraphName(e)])
        g1 == Register(g, EntityGraphName(e))
        two == PutGraph(one, SchemaGraphName(e), parts[SchemaGraphName(e)])
        g2 == [Register(g1, SchemaGraphName(e)) EXCEPT !.schema = "CURRENT"]
    IN  <<At(g, one), At(g1, one)>>
        \o (IF e \in Properties
            THEN <<At(g1, two), At(g2, two), At(SaveEntity(g2, e, rev), two)>>
            ELSE <<At(SaveEntity(g1, e, rev), one)>>)

Writable(e, rev) ==
    LET data == EntityData(e, rev, contents[rev], << >>)
    IN  /\ Fetchable(e, rev)
        /\ ~UnknownMetadata(data, "ENTITY_DATA") /\ ~IdentityAbsent(NormalizeWikibaseRdf(data), e)

\* The cursor is committed last; a fetch that fails stops the source.
WriteAndCommit(g, e, rev) ==
    IF Writable(e, rev)
    THEN LET points == WritePoints(g, e, rev)
         IN  Append(points, At(Commit(Last(points).gen), Last(points).db))
    ELSE <<At(Stop(g), db)>>

\* ENTITY_EDIT
EditPoints(e) ==
    LET row == gen.rows[e]
        gap == [gen EXCEPT !.rows[e] = [row EXCEPT !.status = "GAP"]]
    IN  CASE Event.rev <= row.indexed -> <<At(Commit(gen), db)>>
          [] Event.rev > row.indexed /\ row.indexed # 0 /\ Event.old # row.indexed ->
                 <<At(gap, db), At(Stop(gap), db)>>
          [] OTHER -> WriteAndCommit(gen, e, Event.rev)

\* ENTITY_UNDELETE: a forced write of the latest revision, over a tombstone.
UndeletePoints(e) ==
    LET row == gen.rows[e]
        restoring == [gen EXCEPT !.rows[e] = [row EXCEPT !.status = "RESTORING"]]
    IN  IF Resolve(Event) = {} \/ row.status \notin {"DELETED", "RESTORING", "CURRENT"}
        THEN <<At(Stop(gen), db)>>
        ELSE <<At(restoring, db)>> \o WriteAndCommit(restoring, e, pages[e].rev)

\* ENTITY_DELETE: each graph deleted and unregistered, then the tombstone.
DeletePoints(e) ==
    LET drop(point, name) ==
            LET less == DeleteNamedGraph(point.db, name)
            IN  <<At(point.gen, less), At([point.gen EXCEPT !.graphs = @ \ {name}], less)>>
        first == drop(At(gen, db), EntityGraphName(e))
        all == IF e \in Properties THEN first \o drop(Last(first), SchemaGraphName(e)) ELSE first
        end == Last(all)
    IN  Append(all, At(Commit([end.gen EXCEPT !.rows[e].status = "DELETED"]), end.db))

EventPoints ==
    CASE Event.kind = "edit"    -> EditPoints(Event.entity)
      [] Event.kind = "restore" -> UndeletePoints(Event.entity)
      [] Event.kind = "delete"  -> DeletePoints(Event.entity)

ProcessEvent ==
    /\ Polls
    /\ LET points == EventPoints IN gen' = Last(points).gen /\ db' = Last(points).db
    /\ UNCHANGED <<wikiVars, contents, job, verdict>>

\* The worker dies at any point and starts over; or a call is rejected there,
\* and the source is reported stale.
Interrupted ==
    /\ Polls /\ Undisturbed
    /\ LET points == EventPoints
       IN  \E i \in 1..(Len(points) - 1) :
               /\ gen' \in {points[i].gen, Stop(points[i].gen)}
               /\ db' = points[i].db
    /\ job' = [job EXCEPT !.faults = @ + 1]
    /\ UNCHANGED <<wikiVars, contents, verdict>>

\* An empty poll reports the source healthy when its schema is current.
EmptyPoll ==
    /\ JobAt("idle") /\ job.worker /\ ReadChanges(gen.cursor) = {}
    /\ gen.schema = "CURRENT" /\ gen.sync # "CURRENT"
    /\ gen' = [gen EXCEPT !.sync = "CURRENT"]
    /\ UNCHANGED <<wikiVars, contents, db, job, verdict>>

-----------------------------------------------------------------------------
\* Validation: a dump of reference is taken, then the candidate must be
\* current, then each of its registered graphs is compared, and the graphs of
\* the dump that are not registered are counted as missing.

TakeReference ==
    /\ JobAt("idle") /\ verdict = NoVerdict
    /\ job' = [job EXCEPT !.pc = "compare", !.found = Found(Entities)]
    /\ UNCHANGED <<wikiVars, contents, gen, db, verdict>>

ReportedCurrent == gen.sync = "CURRENT" /\ gen.schema = "CURRENT"

\* The source reader moves its own cursor event by event.  Only this check looks
\* at it: the moves it has made by then are taken then, and forgotten after.
AdvanceIngestion ==
    /\ JobAt("compare") /\ ReportedCurrent
    /\ ReadChanges(job.ingested) # {}
    /\ job' = [job EXCEPT !.ingested = Oldest(ReadChanges(@)).rcid]
    /\ UNCHANGED <<wikiVars, contents, gen, db, verdict>>

\* Caught up is with what the source reader has seen, not with the wiki.
ReadyForValidation == ReportedCurrent /\ gen.cursor >= job.ingested

CandidateEquals(dataset) ==
    /\ \A n \in gen.graphs :
           Compare(IF n \in DOMAIN dataset THEN dataset[n] ELSE {}, GraphOf(db, n)) = "EQUAL"
    /\ \A n \in DOMAIN dataset \ gen.graphs : dataset[n] = {}

\* A Property whose value is an entity the wiki describes: its schema graph gets
\* that entity's lines too, as far as the export at hand has them.
PointsAtEntity(p) ==
    p \in DOMAIN Found(Properties)
      /\ \E k \in contents[pages[p].rev] : k.kind = "item"

\* What explains an INVALID verdict: the wiki changed after the reference, the
\* worker is behind the wiki (and the source reader with it), the load never
\* finished, or a Property points at an entity.
Excused == \/ job.found # Found(Entities)
           \/ gen.cursor < lastRcid
           \/ ~job.loaded
           \/ \E p \in Properties : PointsAtEntity(p)

Validate ==
    /\ JobAt("compare") /\ ReadyForValidation
    /\ LET equal == CandidateEquals(Expected(job.found))
       IN  /\ gen' = [gen EXCEPT !.state = IF equal THEN "READY" ELSE "FAILED"]
           /\ verdict' = [result |-> IF equal THEN "VALID" ELSE "INVALID", excused |-> Excused]
    /\ job' = Worker(job.worker)
    /\ UNCHANGED <<wikiVars, contents, db>>

\* CANDIDATE_NOT_CURRENT
ValidateRefused ==
    /\ JobAt("compare") /\ ~ReadyForValidation
    /\ job' = Worker(job.worker)
    /\ UNCHANGED <<wikiVars, contents, gen, db, verdict>>

-----------------------------------------------------------------------------
\* Every entity has one revision with contents of its own when the first
\* rebuild begins.
DatasetInit ==
    /\ revisions = Order
    /\ pages = [e \in Entities |-> [rev |-> CHOOSE r \in 1..Len(Order) : Order[r] = e,
                                    exists |-> TRUE, redirect |-> None]]
    /\ rc = {} /\ lastRcid = 0 /\ purged = FALSE
    /\ contents \in [1..Len(Order) -> Contents]
    /\ gen = ClearedRows(0)
    /\ db = EmptyStore
    /\ job = [pc |-> "dump", worker |-> FALSE, rebuilds |-> 0, faults |-> 0, loaded |-> FALSE,
              cursor |-> 0, ingested |-> 0, left |-> Entities, found |-> << >>]
    /\ verdict = NoVerdict

WikiChanges == \/ \E e \in Entities : \E claims \in Contents : WriteEntity(e, claims)
               \/ LifecycleOfPage

RebuildNext == \/ StartRebuild \/ DumpEntity \/ BeginLoad \/ ClearStore \/ LoadGraph
               \/ FinishLoad \/ RebuildFails

WorkerNext == ProcessEvent \/ Interrupted \/ EmptyPoll

ValidationNext == TakeReference \/ Validate \/ ValidateRefused

DatasetNext == WikiChanges \/ RebuildNext \/ WorkerNext \/ AdvanceIngestion \/ ValidationNext

-----------------------------------------------------------------------------
\* A generation whose last load was finished, its cursor at the head of the
\* wiki's changes.
InStep == job.loaded /\ job.pc \in {"idle", "compare"} /\ gen.cursor = lastRcid

\* Every graph of a fresh dump is in the store as it is there, every graph in
\* the store is registered, and nothing else is: replacing graphs one revision
\* at a time leads to what loading the dump would have led to (ADR-0030).
GraphsFollowWiki ==
    InStep =>
      LET fresh == Expected(Found(Entities))
      IN  /\ \A n \in DOMAIN fresh \cup gen.graphs \cup DOMAIN db :
                 \/ n[1] = "schema" /\ PointsAtEntity(n[2])
                 \/ Compare(IF n \in DOMAIN fresh THEN fresh[n] ELSE {}, GraphOf(db, n)) = "EQUAL"
          /\ \A n \in DOMAIN db : db[n] # {} => n \in gen.graphs

\* A candidate is refused only for a reason.
RefusedForAReason == verdict.result = "INVALID" => verdict.excused

=============================================================================
