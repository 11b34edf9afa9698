# Verification of custom-wikibase

custom-wikibase runs a Wikibase, keeps RDF copies of it ("generations") in SPARQL
stores, and serves queries from one of them. Everything hard in this code is in
what builds, follows, promotes, protects and deletes generations: several
processes that share a PostgreSQL database and a cluster, crash, lose leases, and
act on what they read some calls ago. This directory models that code in TLA+,
checks it with TLC, and proves its most important safety properties with TLAPS.

Line references are to files under `src/`, by these abbreviations:
`PG` = `services/rdf-sync/src/postgres-generation-coordinator-repository.js`,
`RT` = `services/rdf-sync/src/generation-coordinator-runtime.js`,
`KD` = `services/rdf-sync/src/kubernetes-generation-driver.js`,
`SE` = `services/rdf-sync/src/sync-engine.js`,
`SP` = `services/rdf-sync/src/standalone-promotion-coordinator.js`,
`SR` = `services/rdf-sync/src/standalone-rebuild-coordinator.js`.

## 1. Inventory

| Component | State | Operations | Correct when |
|---|---|---|---|
| **Generation Coordinator** (`RT`, `PG`, `apps/rdf-generation-coordinator`) | operation rows with owner, lease and fence; promotion journal; serving pointer; generation registry; retirement rows | `run` claims the oldest active operation and `reconcile`s it by one state; operators request, release and schedule cleanup | one owner per fence; one cutover per operation; the registry follows the pointer; nothing needed is deleted; every operation ends |
| **Kubernetes driver** (`KD`) | workload, Service and volume claim of each generation, deletion marker | create, plan, mark, delete, observe absence | only what an intent names is deleted, and a crash between two deletions can be resumed |
| **RDF sync** (`SE`, `packages/rdf-sync`, `postgres-generation-sync-repository.js`, `apps/rdf-sync-worker`) | per generation: cursor, entity fences, registered graphs, the store's graphs | `pollOnce`, `processEvent` (edit, deletion, lifecycle), gaps, `markCurrent` | no event is lost; a fence never runs ahead of its graph; a gap is never written over |
| **Change source** and **source reader** (`mediawiki-change-source.js`, `apps/rdf-source-reader`) | the wiki's RecentChanges, an ingestion cursor | read, classify, fetch an exact revision, resolve a lifecycle change | what the worker is told is what happened |
| **Serving pointer repository** (`postgres-serving-pointer-repository.js`) and **reconciler** (`serving-reconciler.js`) | pointer, registry, journal | operator promotion and rollback; classification; cleanup | pointer, registry, journal and datasets agree after every transaction |
| **Query router** (`apps/query-router`) | cached target | resolve, route, answer with a pointer version | routes where the pointer says, only when routable |
| **Standalone product** (`SP`, `SR`, `jwb-lifecycle-cli`, `scripts/jwb-m10a-*`) | two slots gen-a and gen-b, the same tables | promote, rollback, restore, rebuild, validate | a promotion resumes, the served slot is whole, a stopped worker returns |
| **RDF documents** (`packages/rdf-*`) | graphs in a store | normalization, partition, canonical form, comparison, loading | replacing graphs one by one leads to what a dump leads to |
| **SPARQL backends** (`packages/rdf-backends`, `sparql-http-backend.js`) | a store's graphs, its ownership record | replace, delete, update, reset, rebuild | a store holds what was put, for whom it was initialized |
| **Schema migrations** (`migrate`, `jwb-migrate-cli`, readiness) | migration table, advisory lock | up, dry-run, status, readiness | each file once, in order; nobody starts before its own files are there |
| **Product and qualification scripts** (`scripts/`) | files under `/tmp`, volumes, stores, the installed wiki | create, start, destroy, qualify | what is left behind fits the secrets it was made with |

The components interact only through the database, the stores, the cluster and
the routers' answers. The hazards of the code, each at its line with the
properties that would catch it, are in `PROJECT.json`; the leading ones are

* unfenced writes: only `transition` and the retirement calls check the claim, so
  a coordinator whose lease ran out writes beside its successor (`PG`);
* memoryless recovery: every phase must be re-enterable from what the database
  says, after a crash between any two awaited calls;
* two systems without a common transaction: database and cluster, database and
  store, store and wiki, volume and secrets;
* decisions made long before they take effect: a promotion read from a pointer, a
  deletion from an eligibility, a graph from a revision.

## 2. Modules

In the models each awaited call of a handler is one action, because between two
calls anything may happen, and within one call the database transaction makes it
atomic. `work[c].pc` (or `cli`, `script`, `job`, ...) names the next call,
`work[c].mem` what the handler keeps in local variables.

**Generation Coordinator**

| Module | Models |
|---|---|
| `CoordinatorStore` | `claimNext`, fence, lease, the fenced `transition`, crash and overrun; shared by all handlers |
| `GenerationPromotion` | the handlers READY_TO_PROMOTE, PROMOTING and PROMOTED; journal, pointer, registry, the operator's release. Routers read pointer and registry on each request, so their answer is a function of the two (`RouterConverged`); a slow router is an `Interrupt` |
| `ServingCutover`, `PromotionRefinement` | what promotion promises without coordinators, leases and journals (`Switch`, `Settle`, `Release`), and the refinement mapping |
| `GenerationBuild` | the handlers REBUILD_REQUESTED to VALIDATING in front of the promotion; the coordinator creates resources and then observes evidence that others write. `Worthwhile` leaves out claims that would change nothing but a fence |
| `AbQualification` | the whole blue/green rebuild of `jwb-m10b-virtuoso-b.mjs`: the script that edits, requests, loads, deploys and stops workers, the workers of A and B, the coordinators, the sampler of queries |
| `GenerationRetirement` | cleanup from scheduling to finalization beside a promotion that moves the same pointer; plan, marker, intents, conditional deletes (uid and resourceVersion), absence, evidence |

**RDF sync**

| Module | Models |
|---|---|
| `WikiSource` | the wiki as the code sees it (external: pages, revisions, RecentChanges) and the code's own reading of it: paging, classification, exact fetch, lifecycle resolution |
| `RdfSync` | loader and worker call by call: overlap of dump and edits, edits, deletions, restorations, merges, gaps, crash and rejection at each call. The store keeps revisions, not contents |
| `RdfDataset` | RDF documents as sets of triples: the two exports of the wiki (external), normalization, the partition of a dump and of an EntityData response |
| `RdfCanonicalization` | canonical form of a graph: colouring of blank nodes, the orders the colours allow, the least serialization. The code works on text, so a label is also found in a literal (`Mention`) and at the start of a longer label (`LongerLabels`), and a line counts as often as it is written |
| `GraphStore` | the HTTP backend and its store: profiles, ownership, graph operations, reset and rebuild |
| `DatasetGeneration` | a candidate with contents: load from a dump, events as lists of states of which any prefix may happen, the ingestion cursor, validation against a fresh dump |
| `DatasetInventory`, `CanonicalComparison`, `BackendConformance`, `RebuildQualification` | `jwb-m9c-inventory`; one comparison of two small graphs, with labels, literals and repeated lines of every kind above; `jwb-rdf-test`; `jwb-m8-qualification` with the edits it makes during a load |

**Operators and the product**

| Module | Models |
|---|---|
| `ServingPointer` | operators that promote and roll back from what they read, a router with its cache, the reconciler's classification, the cleanup loop |
| `StandaloneSlots`, `StandalonePromotion`, `StandaloneRebuild`, `StandaloneLifecycle` | the two slots with their workers; promote, rollback and restore; rebuild and validate; both under an operator who overlaps commands or does not |
| `ProductInstance` | `jwb-product` and `jwb-release-qualify`: state files, volumes, secrets, the container that installs the wiki, commands that fail or are killed at any step |
| `SchemaMigrations` | several releases' migration runs, waiters and readiness checks on one database |

`MCPromotion`, `MCPromotionRefinement`, `MCRdfSync`, `MCAbQualification`,
`MCRetirement`, `MCServingPointer`, `MCStandalone` and `MCDataset` are the
instances for TLC. `MCDataset` runs seven parts that share operators and no
state; the variable `part` chooses one at the start. `GenerationPromotionProofs`,
`AbQualificationProofs`, `RetirementProofs`, `RdfSyncProofs`, `ServingPointerProofs`,
`StandaloneProofs`, `MCDatasetProofs` and `DatasetProofs` hold the proofs.

Abstractions. Timestamps are reduced to whether a lease is live; ids are model
values; a revision stands for its content where no property compares contents,
and for a set of statements where one does; a triple is a tuple of the IRI shapes
the code's regular expressions tell apart; columns that no step reads, audit
rows, error texts, metrics and configuration are left out.

## 3. Properties

**Promotion** (`GenerationPromotion`). `CutoverOnce`: an operation moves the
pointer at most once, however many owners and journal rows it had, and no two
cutovers share a version. `OneServing`: one SERVING generation, at most one
ROLLBACK. `RegistryFollowsPointer`: when no cutover is half way, registry and
pointer agree. `FinalizedInPointerOrder`: overlapping cutovers enter the registry
in the pointer's order. `PromotedMeansFinalized`: no operation is reported
promoted before its cutover is in the registry. `PointerTargetRoutable`: routers
can route the target through every half-done finalization. `FenceNamesOneClaim`:
two processes on one operation have different fences. `ImplementsCutover`: all of
it is an orderly sequence of switches. `PromotionCompletes`: a validated
candidate ends in ROLLBACK_PROTECTED.

**Rebuild** (`AbQualification`). `QueriesNeverGoBack`: queries see whole datasets,
never an older one than before. `PromotedOnceCaughtUp`: what is promoted had
reached its target and was valid. `RebuildEnds`: the operation settles, the script
ends, and it qualifies or fails for a reason; the old worker runs again, unless
the script was killed or its last patch was rejected.

**Retirement** (`GenerationRetirement`). `DeletedIsUnneeded`: nothing the pointer
names or a router would accept loses an object. `IntentNamesWhatIsDeleted`: no
object goes without an intent that names its uid. `FinalizedMeansGone`: a
finalized retirement left nothing of its plan.

**Sync** (`RdfSync`). `FenceBackedByGraph`, `NothingIsLost` (an entity with no row
ahead of the cursor is mirrored exactly: graph, schema, registry and fence),
`FenceCommitsVerifiedGraph`, `GapFreezesGraph`, and the liveness property
`FollowsOrReportsStale`.

**Standalone** (`StandaloneLifecycle`). `CutoverOnce`, `RegistryFollowsPointer`,
`ServedSlotUntouched`, `ResetSparesTheServed`, `PromotionFinishes`,
`StoppedWorkerReturns`.

**Operators** (`ServingPointer`). `ProtectionFollowsPointer`,
`JournalExplainsPointer`, `LatestPromotionRevertible`, `RoutedWherePointerSays`,
`CleanupSparesTheLiving`, `RetiredIsDeleted`.

**Data and tools** (`MCDataset`). `DatasetFollowsWiki`: graphs replaced one at a
time lead to what a dump leads to, a refusal has a reason, the two exports differ
in provenance only, and a qualification serves whole datasets.
`CanonicalMeansIsomorphic`: equal canonical forms exactly for isomorphic graphs, as
long as no literal has a label in its text (for `EQUAL`) and in addition no label
starts another one of its line and no two lines are one after normalization (for
`DIFFERENT` and the search limit); section 5 says what happens otherwise.
`VolumesHaveTheirSecrets`: what is left behind fits the files it is used with.
`SchemaFollowsFiles`: each file ran once, in order, and who starts finds its files.

## 4. Runs, bounds, fairness

| Run | Instance | Shows |
|---|---|---|
| `promotion_safety` | 2 coordinators (symmetric), 2 operations, 3 generations, `MaxFence` 5, `MaxFaults` 2 | the promotion invariants and `ImplementsCutover` |
| `promotion_liveness` | 2 coordinators, 1 operation, `MaxFence` 8, 1 fault | `PromotionCompletes` |
| `promotion_restart` | 1 operation, 2 faults | `RestartResumesCutover` is violated |
| `rebuild` | A and B, 2 coordinators, 1 operation, `MaxFence` 11, 1 fault of any kind | the rebuild properties, with liveness |
| `retirement` | 2 coordinators (symmetric), a cleanup and a promotion, 3 generations, `MaxFence` 3, 2 faults | the retirement invariants |
| `retirement_restart` | the same, 1 fault | `OwnDeletionsAreAccepted` is violated |
| `sync_safety` | 2 Items and a Property, pages of 2 rows, 3 rows, 1 fault, every kind of wiki operation | the sync safety properties |
| `sync_liveness` | an Item and a Property, 3 rows, 1 fault | `FollowsOrReportsStale` |
| `standalone` | 2 commands in 3 modes, 2 journal rows, 1 fault, four ways to work | the standalone properties |
| `standalone_reset` | 1 command, a careful operator, 2 faults | `PromotesOnlyEligible` is violated |
| `pointer` | 3 generations, 2 operators, 1 router, 2 backends, 3 moves, 1 fault | the operators' properties |
| `dataset` | the parts of `MCDataset` | the data and tool properties |

Bounds. Two coordinators are the deployed replica count and enough for a stale
owner beside its successor. Two operations give overlapping cutovers and the
second rotation, in which a rollback generation is replaced; one of them can be a
cleanup. `MaxFaults` counts crashes, rejected calls and overrun leases: two are
needed for a duplicate journal row whose successor dies, one where the other
actors already race. `MaxFence` bounds the claims of one operation and is large
enough in the liveness runs never to forbid one that they need (an undisturbed
promotion takes three, a rebuild eight). Three rows of RecentChanges contain an
edit, its deletion and its restoration with a page boundary between them;
a merge writes to two entities. `MaxMoves` 3 lets a pointer leave a generation and
come back to it. `MaxRows` of the standalone runs counts journal rows: two race.

`dataset`: an Item with two claims, about itself and about the Property, and a Property
with a number; an edit gives either of them the number or the two claims. `MaxRows` 5 and
`MaxDisturbances` 3 bound edits, deletions, rebuilds and failures together, which is
enough for a worker event between two graphs of a load, a rebuild of a followed
generation, and a validation that overlaps an edit. Comparison: pairs of graphs of up to
`MaxLines` 3 lines over 3 labels each, equal in how many lines they have of each
predicate; one graph of each class on the left (`LeftLabels`), every labeling on the
right (`RightLabels`: `b1` starts `b10`). `OddLabels` are those that a literal holds and
whose number has two spellings. The code's limit on relabelings is scaled to
`MaxPermutations` 4, so that graphs are also refused for being too symmetric. `MaxRuns` 3 runs of
`jwb-rdf-test`, one of them killed; `MaxCommands` 4 commands around the
qualification's own. Migrations: a release, its successor and one that altered a
file, two sessions, `MaxUps` 3 runs.

Deadlock is not checked where a bounded behaviour stops: all operations done,
rows used up, the script ended; it is checked in the run `pointer`.

Fairness. Weak fairness of each process's next call (`run` and `pollOnce` never
give up and their Deployments restart them; a command that is not killed goes on),
of claiming (both replicas poll), of lease expiry (time passes), of the pods of
the cluster, of the bootstrap that is retried until it succeeds, of the cleanup
loop and, in `standalone`, of an operator who runs a failed command again. No
fairness is assumed of operators otherwise, of the wiki, or of faults.

`RebuildEnds` admits two ways not to be promoted that the code has: waiting for
evidence nobody supplies any more, and `StuckAtCreating` (section 5). It admits two
ways to leave the worker of A stopped: the script is killed before its `finally`, or
the patch of the `finally` is rejected, which `.catch(() => {})` swallows
(`PatchSwallowed`, after which the script is "abandoned").
`FollowsOrReportsStale` and `NothingIsLost` except behaviours in which the wiki
purged rows the worker had not read (`purged`), which the code does not notice. When the
row of a gap expires as well, the next empty poll reports the generation CURRENT
(`apps/rdf-sync-worker/src/runtime.js:5`) although the entity stays in GAP. `NothingIsLost`
also excepts redirects; the run of `FollowsOrReportsStale` has no merge.

## 5. Findings

Three runs show a disagreement with the documentation.

* `RestartResumesCutover` (`promotion_restart`). ADR-0032: a restart resumes "from
  database and physical evidence without process memory"; the crash table of
  `docs/operations/japan-wikibase-m9d.md`: after the cutover the "committed pointer
  is authoritative". `preparePromotion` is not fenced and may insert a second row;
  `operationPromotion` reads the newest. Coordinator 1 looks up the journal and its
  lease runs out; coordinator 2 inserts a row and cuts over; coordinator 1 inserts
  its own; coordinator 2 dies. The next owner attempts a second compare-and-swap.
  `CutoverOnce` (proved) shows that it cannot succeed, but every retry throws
  SERVING_POINTER_CONFLICT, the cutover is never finalized, and its journal row
  blocks later promotions, releases and retirements.
* `OwnDeletionsAreAccepted` (`retirement_restart`). ADR-0034 accepts a missing
  object when "that same retirement journal contains DELETE_INTENT or DELETED for
  the exact UID". Nothing writes the evidence the plan asks for: after a crash, or
  an absence timeout, between two deletions the retry refuses its plan for good.
* `PromotesOnlyEligible` (`standalone_reset`). `docs/operations/japan-wikibase-j2c1b.md:16`:
  "Only a READY/VALID/CURRENT candidate [...] may be promoted". A promotion that crashed
  before its compare-and-swap is resumed without a second look at the candidate, which
  a rebuild, killed half way, has reset meanwhile: the pointer moves to a slot that is
  LOADING and has no protection. The router does not route there
  (`generation-resolver.js:40,64`, ROUTER_TARGET_UNRESOLVABLE), so nothing half-loaded
  is answered. Instead every query fails, and nothing repairs it: the promotion waits
  for a router that never observes the target, `#finalize` would refuse the row, and
  rebuild and validate refuse to work on the slot the pointer names.

Met while modelling, excepted from a property or outside the bounds, and
described here only:

*Coordinator.* `setGenerationState(LOADING)` commits before the transition; a crash
between them ends in GENERATION_STATE_CONFLICT for ever (`StuckAtCreating`). A gap
after the catch-up check and before the promotion is not looked at again (`RT:31`,
`docs/operations/japan-wikibase-m9d.md:36-38`). The retirement row that
`#protectRollback` inserts is never re-evaluated and makes `scheduleCleanup` fail on
its unique index; authorization after a pointer move refuses for good; a pending
retirement that is always eligible to be claimed first starves younger operations.
The absence of an object is awaited for 25 times 20 ms while foreground deletion
takes longer (`KD:96`). Objects that a late `createGeneration` makes again are
nobody's to delete.

*Sync.* Rows lost by retention are not noticed, against ADR-0024:8. A merge never
passes the lifecycle resolver (ADR-0024:17): the redirect's line makes the snapshot
fail with SNAPSHOT_ENTITY_REVISION_AMBIGUOUS. An entity that was deleted before the
dump and restored after it stops the worker with UNDELETE_WITHOUT_TOMBSTONE. Two
workers on one generation, which nothing in the database excludes, refute
`FenceCommitsVerifiedGraph`. An aborted PUT (30 s, `sparql-http-backend.js:192`) may
still be applied later. A worker restarted on a partly loaded generation with no
new rows reports CURRENT (`SE:176`). `engine.rebuild` (`SE:284`) is called by nobody.

*Data.* A Property statement that points at an entity: a full dump puts that
entity's lines into the Property's schema graph (`dataset-partition.js:45`), an
EntityData response has only stubs of it, so the two ways to fill a generation
differ, against ADR-0030 ("converge on the same physical layout"),
`docs/operations/japan-wikibase-m9a.md:19` and the comment in
`dataset-partition.js:6`; `GraphsFollowWiki` excepts these schema graphs.
The canonicalization works on text, against its comment
(`rdf-canonicalization.js:3-6`: "graph isomorphism"). `signature()` replaces a label also
at the start of longer ones (`_:b1` in `_:b10`) and keeps repeated lines and lines that
normalization makes one: isomorphic graphs may come out DIFFERENT, or one of them exceeds
the search limit. Its regular expression also finds `_:a` in a literal and renumbers it
there, so the literals `"_:a"` and `"_:b"` come out EQUAL. `RdfCanonicalization` does the
same: without the exceptions of `CanonicalMeansIsomorphic` TLC finds the false EQUAL, the
false DIFFERENT and the one-sided limit for nested labels, and, with `MaxLines` 4, the
one-sided limit for a repeated line; whether a repeated line gives a false DIFFERENT too
depends on the order of the hashes, which `Rank` leaves open. The documents of
`DatasetGeneration` hold no such text. `caughtUp` (`SR:9`, `SP:86`) compares
with the source reader's cursor, which may itself lag or be null: a candidate that
lags is validated, or promoted. Validation looks at registered graphs and those of
the dump; another graph in the store is not seen. `load` overwrites
`generation_manifest` (`SR:7`) and with it the provenance ADR-0031:15-22 keeps there.

*Migrations.* A waiter takes `checksum_mismatch` for "not pending". `status` runs
CREATE TABLE IF NOT EXISTS without the lock and may make a concurrent migrate Job,
which is not retried, fail on the catalog.

*Standalone.* Two overlapping commands may both validate, or take each other's
retained slot; therefore `ServedSlotUntouched` and `PromotionFinishes` assume an
operator who does not overlap them.

*Tools.* `jwb-product select` rewrites the profile of an existing instance, whose
other volumes then survive `destroy`. A kill between the two state files, or
between the two unlinks, makes `destroy` fail and `create` refuse. A partial `down
--volumes` that kept the install marker skips the installation on an empty database.
The preflight of `jwb-release-qualify` refuses an existing instance (`:69`) and its
`finally` (`:50`) then destroys it, against `docs/japan-wikibase/development.md:12`.
`jwb-m8-qualification` awaits its snapshot load only after the edits; a load that is
rejected before ends the process without its `finally` (`LoadRejected`). The loader's
temporary file has a fixed name and is opened with `wx`: after a kill every later load
fails. `jwb-m9c-inventory` states `wikibaseUnchanged: true` without looking.
`jwb-m9b-qualification` stops at its first router assertion: it writes SERVING
without the protection migration 011 requires.

## 6. Proofs

All theorems hold for every value of the constants, under the assumptions the
modules state. TLC evaluates those assumptions in every run.

**Promotion**, under `StoreAssumption` (operations are positive numbers, `None` is no
coordinator and no generation) and `PromotionAssumption`.

* `TypeCorrect`: `[]TypeOK`. `TypeOK` also says what a handler remembers at each
  call, which the other proofs need to know that its journal row exists.
* `FencesAreExclusive`: `[]FenceNamesOneClaim`, inductive with `FenceInv`: the fence
  of a process at work is at most its operation's, and a claim takes a larger one.
* `AlwaysOneServing`: `[]OneServing`, inductive by itself: `finalizePromotion`
  demands that the old generation is SERVING and the new one READY.
* `CutoverHappensOnce`: `[]CutoverOnce`. Not inductive: a duplicate row could be
  inserted from the version after the cutover. `CutoverInv` adds that a process
  about to insert for an operation that has cut over read the pointer before that,
  and that every other row of that operation expects an older version.
* `PromotedIsFinalized`: `[]PromotedMeansFinalized`. `PromotedInv` adds that the row
  a process works on belongs to its operation and is finalized when it reports;
  rows never leave their last phase (`JournalNeverShrinks`).
* `RegistryAlwaysFollowsPointer`, `FinalizationsFollowPointer` and
  `TargetAlwaysRoutable`: `RegistryFollowsPointer`,
  `FinalizedInPointerOrder`, `PointerTargetRoutable`. They share the invariant
  `RegistryInv`: the cutovers form a chain, each from the target of the one before
  (`Chained`), from the initial generation to the pointer (`PointerAtEnd`); what is
  finalized is a beginning of the chain, the registry's SERVING generation is the
  target of the last of it (`ServingIsLatest`), candidates behind it are still READY
  (`WaitingAreReady`). The argument that keeps it: a cutover extends the chain at its
  end, because the compare-and-swap compares generation and version; a finalization
  moves on by exactly one, because `from` must be SERVING and an operation cuts over
  once, so `from` is the target of one cutover only (`FinalizesNext`); an operator's
  release finds everything finalized, because the pointer's previous generation is
  an end of the last cutover and a half-done one is refused
  (`ReleaseFindsFinalized`). TLC confirmed `RegistryInv` on the instance of
  `promotion_safety` before it was proved.
* `PromotionImplementsCutover`: `PromotionSpec =>
  ImplementsCutover`. Initial states map to the initial state; every step is a
  `Switch`, a `Settle`, a `Release` or a stutter (`NextImplements`), from
  `StepShapes` and the lemmas above.

**Migrations** (`MCDatasetProofs`), under `MigrationAssumption`: an image has a
last file, and a release numbers its new files after those of the release before and
drops none (without it a run may skip or reorder files, and `SchemaFollowsFiles` is
false). `SchemaAlwaysFollowsFiles`: `[]SchemaFollowsFiles` for any images, sessions
and runs. `SchemaIInv` adds who holds the lock, that a run under it has read the
table as it is, and that the files of an image were executed up to some point of it.

**Rebuild** (`AbQualificationProofs`), under the assumptions on promotion and
`QualificationAssumption`: A is the generation served at first, B is another one, there
is an operation, and `Partial` is no dataset. For any number of coordinators and
generations, any length of the wiki's log and any faults: `PromotionNeedsEvidence`
(`[]PromotedOnceCaughtUp`) and `QueriesAdvance` (`QueriesNeverGoBack`). Neither is
inductive: what a coordinator inserts into the journal it decided some calls ago, and
the evidence is another process's. `AbInv` ties three things together. The
coordinators' half says that whoever is past the validated state, any journal row and a
pointer at B have the verdict behind them (`PromotedWhenValid`). The script's half says at
which step what evidence is there, with what is left of it when the script is killed
(`EvidenceOfB`), and that the cursor it read is the target until B is registered at it
(`CursorIsTarget`): so a manifest means a whole dataset no older than the cursor. Last, a
verdict on B stays true: nobody edits between the comparison and the cutover, hence the
dataset the pointer moves to is the newest, and afterwards only B's worker writes to it.

**Data and tools** (`MCDatasetProofs`), theorems of `MCDataset!Spec`, under the
assumptions of its parts.

* `VolumesAlwaysFit`: `[]VolumesHaveTheirSecrets`. `InstanceInv` says where a command is
  in its own order of steps (`CommandOrder`): a new secret is made only when no volume is
  left that was made with an older one, those of a replaced profile apart, because `create` refuses any file and `destroy`
  removes the files last; and that no profile was replaced since the qualification found
  nothing on the host. `ConfInv` says that a volume outlives a run of `jwb-rdf-test`
  only when the run was killed (`LeftByKill`), and what the logical dataset is at each
  step (`SnapshotLoaded`), which the update does not touch because its graph is neither
  the dataset's nor the default one (`ConformanceAssumption`).
* `RebuildServesWhole`: `[]ServesWholeDataset`. `QualInv`: from the comparison on each
  store holds the dump it was loaded with, and the second dump is the wiki of the moment
  until the end, because the load in flight is awaited before it.
* `CanonicalFormDecides`: `[]CanonicalMeansIsomorphic`, for graphs of any size. The lemma
  behind it, `CompareDecides`, is about any two finite sets of lines: `EQUAL` only for
  isomorphic ones if no literal has a label in its text; `DIFFERENT` only for others, and
  either both or none of two isomorphic graphs exceed the search limit, if in addition no
  label starts another one of its line and normalization makes no two lines one. These
  limits are the code's (section 5), not the proof's. A renaming of blank nodes moves signatures
  (`SignatureMoves`), hence the colours of each round (`ColoursMove`), hence the
  numberings the colours allow and with them the set of serializations (`NumberingsMove`),
  of which both sides choose the same. Conversely a shared serialization gives the
  renaming (`SameFormMaps`). `Colours` is a recursive function over the rounds; what holds
  of every round is shown without induction, from a least round at which it would fail
  (`LeastNumber`, from the library's theorem that the order of numbers is well-founded).
  That there is a numbering at all is shown the same way, from a sorted list
  (`SortedNumbering`).

**A generation follows the wiki** (`DatasetProofs`), under the same assumptions:
`GenerationFollowsWiki`, `[]DatasetFollowsWiki`, for any entities, any finite sets of claims
(`Contents`: amounts and entities, several of them in a revision, on Items and on
Properties), any wiki changes, rebuilds, failures and stops between two calls. What it says
nothing about is the schema graph of a Property that points at an entity. Its invariant `FollowInv` has one part
for the rebuilt generation (`DatasetInv`) and one for the inventory of the exports
(`InventoryInv`); the other parts of the instance leave both alone.

* *What a partition makes of a document.* The links between the nodes of an entity leave
  no other entity's nodes and reach all of its own (`ReachedClosed`, `OwnGraph`), so a
  dump and one entity's EntityData give the same entity graph (`EntityDataGraphs`). The
  schema graph of a Property is the same too, unless a claim of the Property is about an
  entity (`SchemaGraph`, `Points`), which the property leaves out: that graph then takes lines of the
  other entity, as many as the export at hand has. The rounds of the closure are followed without
  induction, from a least round at which the claim fails. Stored and fresh graphs differ
  in the label of one blank node at most and compare equal (`PartCompared`,
  `SchemaCompared`).
* *What a generation owes the wiki* (`Good`, `Follows`). Neither "its rows are the
  pages" nor "its graphs are its rows" is inductive: the worker replays events whose
  revision is already indexed, and a page deleted and restored is indexed at the revision
  it has now while its deletion is still ahead. So, of each entity: with no event ahead the
  row has the page's revision, or row and page are gone with the graphs; and a row at the page's
  revision has its graphs if only edits are ahead. Each handler keeps that at each point
  between two of its calls (`EditFollows`, `UndeleteFollows`, `DeleteFollows`,
  `EventFollows`), and so does the wiki, whose new row is ahead of the cursor
  (`GoodUnderWiki`). `LogInv` says what the newest row of a page tells.
* *How a dump becomes such a generation.* `Dumped`: an entity already dumped is as the
  wiki has it, or an event after the captured cursor is about it. `LoadedFrom` follows
  the graphs one by one. After the last, `LoadedFollows` gives `Good`, with the edits made
  during the dump ahead of the cursor.
* *At the head of the wiki's changes* nothing is ahead, so every graph is that of a fresh
  dump (`StepCompares`), and a validation that refuses has an excuse (`Refusals`).
* *The inventory* compares whole datasets, where every Property has a blank node. The
  colouring tells them apart (`QuadColours`): the signatures of two Properties differ in
  the first round already, so there is one numbering, the search never reaches its limit,
  and the canonical form of a dataset is known (`QuadForm`). Two exports of one wiki then
  differ exactly in what they hold beside the entities (`HeldDiff`): all of it is
  provenance, and none of it is left after normalization (`NothingNormalizedDiffers`).

The fourth conjunct is `RebuildServesWhole`, above. TLC confirmed `FollowInv` on the instance
of `dataset` (341 943 states) too.

**Serving pointer** (`ServingPointerProofs`), under `ServingAssumption`: all safety
properties of the run `pointer` (`TypeOK`, `ProtectionFollowsPointer`,
`JournalExplainsPointer`, `LatestPromotionRevertible`, `RoutedWherePointerSays`,
`CleanupSparesTheLiving`), for any number of operators, queries and generations, from
one invariant `PointerInv`. TLC confirmed it on the instance of `pointer` before it was
proved, except `StampsBounded`, whose quantifier ranges over all numbers. Its parts:

* `NamedRows`: state and protection of the rows the pointer names. Only a promotion or
  a rollback touches those rows, and both move the pointer in the same transaction.
* `RowsHaveStores`: a live row has a store and its type, until cleanup.
* `JournalChain` and `LatestIsLast`: each promotion started from what the ones before
  it explain. A rollback takes back the last one only, because it demands the version
  the promotion left, and every move makes a version that was never seen before.
* `Remembered`: who remembers the current version (operator, query, cache) remembers
  what belongs to it, for the same reason.
* `ChoiceHolds`: what cleanup chose is still disposable when it is deleted, since no
  step makes a failed or retired row live again, and the newest failure is not in the
  choice. That there is a newest one needs `StampsBounded`, and that numbers below a
  bound have a greatest (`NatLessThanWellFounded` and `WFMin` of the library).

**Retirement** (`RetirementProofs`), under `StoreAssumption`, `PromotionAssumption` and
`RetirementAssumption` (`None` is no retirement row): the three safety properties of the
run `retirement`, for any generations, operations, rows and faults. Two arguments:

* *What is deleted stays unneeded* (`DeletionInv`). Retirement begins for a generation
  that neither the pointer nor the protected rollback names and that no unfinished
  journal row aims at. `DoomInv` says that this cannot change: every operation that
  promoted a doomed generation has cut over, so no late coordinator and no row of the
  journal still moves the pointer to it, and that its lifecycle row stays RETIRING or
  RETIRED. `Knowledge` says what a process may still remember of rows and
  pointer at each of its calls, `JournalInv` which rows it may belong to.
* *What is recorded is what happened* (`PhysicalInv`). The attempts under one fence are
  those of one plan (`GraspInv`), no uid is used twice and what is once absent stays
  absent (`AttemptsInv`), a cleanup row is of its own operation and confirmed only when
  everything is settled (`CleanupRow`). From these follow that a delete call names what
  its intent names (`IntentNamesWhatIsDeleted`), and that a finalized deletion has
  nothing left in the cluster.

TLC confirmed the invariants, and what each step does to them, on the instance of
`retirement` (1 636 776 states) before they were proved.

**Sync** (`RdfSyncProofs`), for any wiki, page size, entities,
crashes and rejected calls of the store. Five properties, all under `OneWorker`, which is
how the generations are deployed (section 5 tells what two workers do; with two even the
first is false, because the second may write between the comparison and the commit):

* `FencesCommitVerifiedGraphs`: `FenceCommitsVerifiedGraph`. `FenceInv` says that a
  worker past its comparison with the store (`save`, `commit`) has the revision of its
  task in the store (`GraphVerified`), that the row it edits carries the fence as it was
  read (`FenceUnmoved`), and what shape the records have.
* `SyncTypeCorrect`: `[]TypeOK`. That every call of a handler finds the event and the
  task it works on is part of it (`Busy`), and that what the wiki reports belongs to it.
* `HolesFreezeGraphs`: `GapFreezesGraph`, from `SyncInv`. The rows of the wiki are a
  history (`HistoryInv`): a later row has a later revision, and an edit names the
  revision it followed, with none of the entity in between (`Successive`). What a worker
  has read is what follows the cursor, in order and without a hole (`InOrder`); what it
  does belongs to the event it is at (`OnTask`). Then an entity in GAP is `Holed`: its
  page is past the indexed revision, and no edit still to come goes on from that
  revision. So the fence lets no edit through, and only a lifecycle event writes again.
* `FencesHaveGraphs`: `[]FenceBackedByGraph`. `BackedInv` follows a fence from the dump
  on (`BootBacked`): before the worker runs, what stands behind a fence is in the dump
  or was deleted after the cursor was captured. The cursor passes a deletion only
  together with its tombstone.
* `NoEventIsLost`: `[]NothingIsLost`, as long as the wiki keeps its rows. `LosslessInv`
  adds to the others what the log tells of a page (`LogInv`: the newest row about an
  entity tells its present state, and between a deletion and a later revision there is a
  restoration), what the loader owes (`BootFollows`: each dumped revision is the page's,
  or a row after the captured cursor tells more), and what the worker owes (`Following`).
  Of an entity whose rows are behind the cursor the generation is an exact image
  (`Passed`). A fence at the revision of the page whose row is still to come already has
  its graphs, or a deletion or restoration comes first (`Caught`): so an event may be
  skipped as a duplicate. A worker's job carries what is done of its task (`OnTrack`),
  so its last step, which moves the cursor, finds the rest done.

TLC confirmed these invariants on the instance of `sync_safety` (1 291 099 states) before
they were proved, `LosslessInv` also with two items (3 026 666 states) and with one Property
and six rows.

**Standalone** (`StandaloneProofs`), under `LifecycleAssumption` and the assumptions on
slots and promotion it rests on: all safety properties of the run `standalone` for any
number of commands, journal rows and faults. Two arguments:

* *The journal's* (`StandaloneCutoverOnce`): `#cas` finds the row PREPARING under its
  lock, so a row moves the pointer once, and each move makes a new version.
* *The registry's* (`ResetsSpareTheServed`, `StandaloneRegistryFollows`,
  `ServedSlotStaysWhole`), from the invariant `RegistryInv`: a row is inserted for the
  version at which its candidate was found eligible, and no candidate is eligible while a
  cutover is half done (`HalfIsNewest`, `MovesInOrder`). So a maintenance command, which
  works only on the slot the pointer does not name while nothing is half done
  (`ToolTargets`), never meets the cutover that would serve that slot, provided the
  operator does not overlap the two (`OrderInv` demands this where the properties do), and
  the slot that goes live is whole (`WholeWhereLive`). TLC confirmed `RegistryInv` on the
  instance of `standalone`, and with three rows and two faults, before it was proved.

Only model-checked. Every invariant of a passing run is a theorem; sync is proved for one
worker only, as it is deployed. Out of the prover's reach are liveness under fairness and
ENABLED: `PromotionCompletes`, `RebuildEnds`, `PromotionFinishes`, `StoppedWorkerReturns`,
`FollowsOrReportsStale` and `RetiredIsDeleted`. The properties of the violation runs are
false, and nothing is proved about them.

## 7. Composition and plan

Composed are: claims and promotion; build, promotion, sync workers, script and
queries (`AbQualification`); promotion, retirement, cluster and operators
(`GenerationRetirement`); promotion and rebuild of the standalone product; operators,
router and cleanup (`ServingPointer`); wiki, loader and workers (`RdfSync`); exports,
store, worker and validation (`DatasetGeneration`). What a team would add next, in this
order: two cleanups at once; sync with two workers, once the code excludes them.

## 8. Not modelled

* *M1 tools* (`jwb.mjs` of the first local instance, `jwb-rdf-dump.mjs`): at this
  commit they cannot run. `compose.yaml` never sets the `JWB_INSTANCE_ID` that
  `entrypoint.sh:7-11` requires, and `jwb-rdf-dump.mjs:97` passes only `DOCKER_CONTEXT`.
* *`jwb-m9b-qualification` and the evidence collectors*: the first stops at its first
  router assertion; the others record what the modelled processes do and keep no
  state of their own.
* *Interfaces and doubles*: the abstract classes of `rdf-backend.js`, the in-memory
  backend and repositories that only tests use, the local Compose driver.
* *Kubernetes manifests and helpers*: text of the objects whose existence, marker and
  version the driver's models have.
* *Configuration, wiring, identities, snapshot production, logging, metrics, health
  servers, HTTP limits and timeouts*: no state between calls.
* `engine.rebuild`: dead code.
* *MediaWiki extensions and the JavaScript of the front ends*: not part of the
  control plane.
