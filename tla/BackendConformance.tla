------------------------- MODULE BackendConformance -------------------------
(***************************************************************************)
(* jwb-rdf-test: one store after the other is started with a password of   *)
(* its own, loaded with the snapshot, restarted, updated, exported,        *)
(* rebuilt and reset through SparqlHttpBackend, and removed with its       *)
(* volume in a finally.  A store keeps, in its volume, the password it was *)
(* first started with; a killed script leaves both behind.                 *)
(***************************************************************************)
EXTENDS GraphStore

CONSTANTS Snapshot,    \* the triples of the snapshot file
          UpdateGraph, \* urn:jwb:m2:update
          MaxRuns      \* bound on the runs of the script

VARIABLES trial,   \* the run in progress
          kept     \* kept[b]: what the volume of store b holds

conformanceVars == <<trial, kept>>

Update == {<<Literal("iri", "subject"), "predicate", Literal("text", "incremental")>>}
DatasetGraph == <<"dataset", "urn:jwb:m2:dataset">>

\* The update goes to a graph of its own.
ASSUME ConformanceAssumption == UpdateGraph \notin {DatasetGraph, DefaultGraph} /\ MaxRuns \in Nat

\* backendConfig: Virtuoso takes a password and has a graph for the dataset.
Tested == {"virtuoso", "oxigraph", "blazegraph"}
ConfigOf(b, password) ==
    Client(Profiles[b], IF b = "virtuoso" THEN DatasetGraph ELSE NoGraph,
           IF b = "virtuoso" THEN password ELSE NoPassword)

NoVolume == [there |-> FALSE, password |-> NoPassword, db |-> EmptyStore]
TrialAt(pc) == trial.pc = pc
Volume == kept[trial.backend]
Goes(pc) == trial' = [trial EXCEPT !.pc = pc]

\* An error leads to the finally, with its reason.
Throws(reason) == trial' = [trial EXCEPT !.pc = "down", !.result = reason]

Step(pc, next, works, db) ==
    /\ TrialAt(pc)
    /\ IF works THEN Goes(next) /\ kept' = [kept EXCEPT ![trial.backend].db = db]
                ELSE Throws("refused") /\ UNCHANGED kept

\* Another store than those with a native image is skipped.
StartTrial(b) ==
    /\ TrialAt("none") /\ trial.runs < MaxRuns
    /\ ValidMetadata(Profiles[b])
    /\ trial' = [trial EXCEPT !.runs = @ + 1, !.backend = b, !.client = ConfigOf(b, trial.runs + 1),
                              !.result = IF b = "blazegraph" THEN "skipped" ELSE "running",
                              !.pc = IF b = "blazegraph" THEN "none" ELSE "up"]
    /\ UNCHANGED kept

\* compose up: a new volume takes the password, one that is there keeps its own.
StartStore ==
    /\ TrialAt("up")
    /\ kept' = IF Volume.there THEN kept
               ELSE [kept EXCEPT ![trial.backend] =
                        [there |-> TRUE, password |-> trial.client.password, db |-> EmptyStore]]
    /\ Goes("healthy")

\* health() asks a query, which takes no password.
InitializeClient ==
    /\ TrialAt("healthy")
    /\ trial' = [trial EXCEPT !.pc = "load", !.client = Initialize(@, <<"m2", trial.backend>>)]
    /\ UNCHANGED kept

\* loadSnapshot and rebuild are replaceDataset: reset, then put.
MayClear == MayReset(trial.client, ResetToken(trial.client), Volume.password)

ReplaceDataset(pc, between, next) ==
    \/ Step(pc, between, MayClear, Reset(Volume.db, trial.client))
    \/ Step(between, next, MayPut(trial.client, Volume.password),
            PutGraph(Volume.db, DatasetTarget(trial.client), Snapshot))

LoadSnapshot == ReplaceDataset("load", "loading", "assert")
RebuildStore == ReplaceDataset("rebuild", "rebuilding", "rebuilt")

\* The ASK queries of the manifest, before and after a restart of the store.
HoldsSnapshot == Stored(Snapshot) \subseteq LogicalDataset(Volume.db, trial.client)

AssertQueries ==
    \/ Step("assert", "restarted", HoldsSnapshot, Volume.db)
    \/ Step("restarted", "replace", HoldsSnapshot, Volume.db)
    \/ Step("rebuilt", "reset", HoldsSnapshot, Volume.db)

ReplaceUpdateGraph ==
    Step("replace", "export", MayPut(trial.client, Volume.password),
         PutGraph(Volume.db, UpdateGraph, Update))

\* ASK in the update graph, then the export of the logical dataset.
ExportStore ==
    /\ TrialAt("export")
    /\ IF Stored(Update) \subseteq GraphOf(Volume.db, UpdateGraph) /\ MayExport({})
       THEN trial' = [trial EXCEPT !.pc = "rebuild",
                                   !.exported = ExportDataset(Volume.db, trial.client, {})]
       ELSE Throws("refused")
    /\ UNCHANGED kept

ResetStore == Step("reset", "empty", MayClear, Reset(Volume.db, trial.client))

AskEmpty ==
    /\ TrialAt("empty")
    /\ IF LogicalDataset(Volume.db, trial.client) = {}
       THEN trial' = [trial EXCEPT !.pc = "down", !.result = "passed"] ELSE Throws("not empty")
    /\ UNCHANGED kept

\* Any call may fail.
TrialFails ==
    /\ trial.pc \notin {"none", "down"}
    /\ Throws("failed")
    /\ UNCHANGED kept

\* finally: compose down --volumes.
RemoveStore ==
    /\ TrialAt("down")
    /\ kept' = [kept EXCEPT ![trial.backend] = NoVolume]
    /\ trial' = [trial EXCEPT !.pc = "none", !.killed = @ \ {trial.backend}]

TrialKilled ==
    /\ ~TrialAt("none")
    /\ trial' = [trial EXCEPT !.pc = "none", !.result = "killed", !.killed = @ \cup {trial.backend}]
    /\ UNCHANGED kept

ConformanceInit ==
    /\ trial = [pc |-> "none", runs |-> 0, backend |-> "none", result |-> "none", killed |-> {},
                exported |-> {}, client |-> ConfigOf("oxigraph", 0)]
    /\ kept = [b \in Tested |-> NoVolume]

ConformanceNext ==
    \/ \E b \in Tested : StartTrial(b)
    \/ StartStore \/ InitializeClient \/ LoadSnapshot \/ AssertQueries \/ ReplaceUpdateGraph
    \/ ExportStore \/ RebuildStore \/ ResetStore \/ AskEmpty
    \/ TrialFails \/ RemoveStore \/ TrialKilled

-----------------------------------------------------------------------------
\* A run refuses nothing unless an earlier one of the same store was killed,
\* and the run it makes fail removes what stood in the way.
RefusedAfterKill ==
    /\ trial.result = "refused" /\ TrialAt("down") => trial.backend \in trial.killed
    /\ TrialAt("none") => \A b \in Tested : kept[b].there => b \in trial.killed

\* What is exported, and what a rebuild leads to, is the snapshot: neither the
\* update nor anything an earlier run left is in the dataset.
RebuiltIsSnapshot ==
    /\ TrialAt("rebuild") => trial.exported = Stored(Snapshot)
    /\ TrialAt("rebuilt") => LogicalDataset(Volume.db, trial.client) = Stored(Snapshot)

=============================================================================
