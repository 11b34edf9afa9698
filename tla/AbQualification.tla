--------------------------- MODULE AbQualification ---------------------------
(***************************************************************************)
(* The blue/green rebuild as it is carried out by jwb-m10b-virtuoso-b.mjs: *)
(* the script edits the wiki, requests generation B from the coordinators  *)
(* (GenerationBuild), loads it, deploys its sync worker, stops the worker  *)
(* of A, waits until B has caught up, declares it READY, and samples what  *)
(* a query through the router sees while the coordinators promote B.       *)
(*                                                                         *)
(* The wiki's history is the number of its edits: entry n of the log turns *)
(* dataset n - 1 into dataset n.  content[g] is the dataset g holds, or    *)
(* Partial while it is being loaded; how a worker gets from one entry to   *)
(* the next is RdfSync.  Only the script edits this wiki.                  *)
(***************************************************************************)
EXTENDS GenerationBuild

CONSTANTS A, B, Partial

ASSUME QualificationAssumption ==
    /\ A = InitialServing /\ {A, B} \subseteq Generations /\ A # B
    /\ Operations # {}
    /\ Partial \notin Nat

VARIABLES head,     \* entries in the wiki's log
          content,  \* dataset of each generation
          worker,   \* sync worker Deployment of each generation
          script    \* the running script

systemVars == <<storeVars, tableVars, evidenceVars>>
abVars == <<systemVars, head, content, worker, script>>

Samples == {"OLD_COMPLETE", "NEW_COMPLETE", "EMPTY", "PARTIAL"}
Down == [replicas |-> 0, running |-> FALSE]
Op == CHOOSE o \in Operations : TRUE

\* before: pointer version before the promotion; mark: entry the script waits
\* for; old, new: entries of the two markers; seen: samples so far.
Fresh == [pc |-> "start", cursor |-> 0, dump |-> 0, mark |-> 0, before |-> 0,
          old |-> 0, new |-> 0, seen |-> {}, result |-> "none"]

On(pc) == script.pc = pc
Proceed(pc) == script' = [script EXCEPT !.pc = pc]
\* An assertion fails or a call is rejected: the finally block runs.
Fail == script' = [script EXCEPT !.pc = "finally", !.result = "failed"]
Check(holds, pc) == IF holds THEN Proceed(pc) ELSE Fail

-----------------------------------------------------------------------------
\* The wiki and the sync workers.

\* post: one more entry of the log.
Edit == head' = head + 1

\* cursor: the newest entry of recentchanges.
Cursor == head

\* Kubernetes starts and stops the pod after the Deployment.
PodFollows(g) ==
    /\ worker[g].running # (worker[g].replicas = 1)
    /\ worker' = [worker EXCEPT ![g].running = (worker[g].replicas = 1)]
    /\ UNCHANGED <<systemVars, head, content, script>>

\* One entry; those the dump already had change nothing in the dataset.
WorkerFollows(g) ==
    /\ worker[g].running
    /\ sync[g].cursor < head
    /\ ~sync[g].failed
    /\ LET n == sync[g].cursor + 1
       IN  /\ sync' = [sync EXCEPT ![g].cursor = n]
           /\ content' = [content EXCEPT ![g] = IF @ < n THEN n ELSE @]
    /\ UNCHANGED <<storeVars, tableVars, target, physical, validation, head, worker, script>>

\* A revision gap: the source is reported stale and the cursor stays.
WorkerMeetsGap(g) ==
    /\ worker[g].running
    /\ sync[g].cursor < head
    /\ ~sync[g].failed
    /\ faults < MaxFaults
    /\ faults' = faults + 1
    /\ sync' = [sync EXCEPT ![g].failed = TRUE, ![g].state = "STALE"]
    /\ UNCHANGED <<op, work, tableVars, target, physical, validation, head, content, worker, script>>

\* Somebody declares the candidate failed while it is being loaded.
DeclareFailed(g) ==
    /\ generation[g].state = "LOADING"
    /\ faults < MaxFaults
    /\ faults' = faults + 1
    /\ generation' = [generation EXCEPT ![g] = [@ EXCEPT !.state = "FAILED"]]
    /\ UNCHANGED <<op, work, journal, pointer, retirement, evidenceVars, head, content, worker, script>>

-----------------------------------------------------------------------------
\* Before the load.

RequireServingA ==
    /\ On("start")
    /\ Check(pointer.generation = A /\ generation[A].state = "SERVING", "old")
    /\ UNCHANGED <<systemVars, head, content, worker>>

PostOldMarker ==
    /\ On("old")
    /\ Edit
    /\ script' = [script EXCEPT !.pc = "syncA", !.old = head + 1, !.mark = head + 1]
    /\ UNCHANGED <<systemVars, content, worker>>

Synced(g, mark) == sync[g].state # "NONE" /\ sync[g].cursor >= mark

WaitForA ==
    /\ On("syncA")
    /\ Synced(A, script.mark)
    /\ script' = [script EXCEPT !.pc = "request", !.cursor = Cursor]
    /\ UNCHANGED <<systemVars, head, content, worker>>

RequestB ==
    /\ On("request")
    /\ Request(Op, B, script.cursor)
    /\ Proceed("loading")
    /\ UNCHANGED <<work, faults, tableVars, physical, sync, validation, head, content, worker>>

\* waitOperation: FAILED and AMBIGUOUS are errors.
WaitOperation(pc, state, then) ==
    /\ On(pc)
    /\ op[Op].state \in {state, "FAILED"}
    /\ Check(op[Op].state = state, then)
    /\ UNCHANGED <<systemVars, head, content, worker>>

AwaitLoading == WaitOperation("loading", "LOADING_SNAPSHOT", "healthy")

AwaitHealthy ==
    /\ On("healthy")
    /\ B \in physical
    /\ Proceed("dump")
    /\ UNCHANGED <<systemVars, head, content, worker>>

\* dumpRdf walks a wiki nobody else edits.
Dumped == head
Dump ==
    /\ On("dump")
    /\ script' = [script EXCEPT !.pc = "register", !.dump = Dumped]
    /\ UNCHANGED <<systemVars, head, content, worker>>

\* PostgresGenerationSyncRepository.initialize keeps an existing cursor.
RegisterSync ==
    /\ On("register")
    /\ sync' = [sync EXCEPT ![B] = IF @.state # "NONE" THEN @
                    ELSE [@ EXCEPT !.cursor = script.cursor, !.state = "BOOTSTRAPPING"]]
    /\ Proceed("load")
    /\ UNCHANGED <<storeVars, tableVars, target, physical, validation, head, content, worker>>

BeginLoad ==
    /\ On("load")
    /\ content' = [content EXCEPT ![B] = Partial]
    /\ Proceed("loaded")
    /\ UNCHANGED <<systemVars, head, worker>>

\* loadSnapshot ends with the schema state and the manifest.
EndLoad ==
    /\ On("loaded")
    /\ content' = [content EXCEPT ![B] = script.dump]
    /\ sync' = [sync EXCEPT ![B].schema = "CURRENT"]
    /\ validation' = [validation EXCEPT !.manifest = @ \cup {B}]
    /\ Proceed("current")
    /\ UNCHANGED <<storeVars, tableVars, target, physical, head, worker>>

MarkCurrent ==
    /\ On("current")
    /\ sync' = [sync EXCEPT ![B].state = "CURRENT"]
    /\ Proceed("equal")
    /\ UNCHANGED <<storeVars, tableVars, target, physical, validation, head, content, worker>>

-----------------------------------------------------------------------------
\* Two generations side by side.

\* equality: the dataset is the normalized and partitioned dump, graph by graph.
CheckEquality(pc, dump, then) ==
    /\ On(pc)
    /\ Check(content[B] = dump, then)
    /\ UNCHANGED <<systemVars, head, content, worker>>

EqualAfterLoad == CheckEquality("equal", script.dump, "deploy")

\* createNamespacedDeployment, 409 tolerated.
DeployBWorker ==
    /\ On("deploy")
    /\ worker' = [worker EXCEPT ![B].replicas = 1]
    /\ Proceed("available")
    /\ UNCHANGED <<systemVars, head, content>>

AwaitBWorker ==
    /\ On("available")
    /\ worker[B].running
    /\ Proceed("stopA")
    /\ UNCHANGED <<systemVars, head, content, worker>>

\* The patch does not wait for the pod to go.
StopAWorker ==
    /\ On("stopA")
    /\ worker' = [worker EXCEPT ![A].replicas = 0]
    /\ Proceed("edit")
    /\ UNCHANGED <<systemVars, head, content>>

\* The new marker.
PostNewMarker ==
    /\ On("edit")
    /\ Edit
    /\ script' = [script EXCEPT !.pc = "more", !.new = head + 1]
    /\ UNCHANGED <<systemVars, content, worker>>

\* Mutant: B is not waited for.
PostMore_NoWait ==
    /\ On("more")
    /\ Edit
    /\ script' = [script EXCEPT !.pc = "sampler", !.mark = head + 1]
    /\ UNCHANGED <<systemVars, content, worker>>
\* Schema edit, deletion and restoration, one entry here; the target is read.
PostMore ==
    /\ On("more")
    /\ Edit
    /\ script' = [script EXCEPT !.pc = "syncB", !.mark = head + 1]
    /\ UNCHANGED <<systemVars, content, worker>>

\* The fence of the restored item, the schema state and the equality.
WaitForB ==
    /\ On("syncB")
    /\ Synced(B, script.mark)
    /\ Check(~sync[B].failed /\ sync[B].schema = "CURRENT", "equalB")
    /\ UNCHANGED <<systemVars, head, content, worker>>

EqualAfterCatchup == CheckEquality("equalB", Dumped, "sampler")

\* visibilitySample: what one query through the router finds.
Visible == content[pointer.generation]
VisibilitySample ==
    CASE Visible = Partial      -> "PARTIAL"
      [] Visible >= script.new  -> "NEW_COMPLETE"
      [] Visible >= script.old  -> "OLD_COMPLETE"
      [] OTHER                  -> "EMPTY"

StartSampler ==
    /\ On("sampler")
    /\ script' = [script EXCEPT !.pc = "seeOld", !.before = pointer.version]
    /\ UNCHANGED <<systemVars, head, content, worker>>

Sample ==
    /\ script.pc \in {"seeOld", "ready", "promoted"}
    /\ script' = [script EXCEPT !.seen = @ \cup {VisibilitySample}]
    /\ script' # script
    /\ UNCHANGED <<systemVars, head, content, worker>>

SeeOld ==
    /\ On("seeOld")
    /\ "OLD_COMPLETE" \in script.seen
    /\ Proceed("ready")
    /\ UNCHANGED <<systemVars, head, content, worker>>

\* UPDATE rdf_generation SET state='READY', whatever state it was in.
DeclareReady ==
    /\ On("ready")
    /\ generation' = [generation EXCEPT ![B] = [@ EXCEPT !.state = "READY"]]
    /\ validation' = [validation EXCEPT !.valid = @ \cup {B}]
    /\ Proceed("promoted")
    /\ UNCHANGED <<storeVars, journal, pointer, retirement, target, physical, sync,
                   head, content, worker>>

AwaitPromotion == WaitOperation("promoted", "ROLLBACK_PROTECTED", "verdict")

\* A last second of samples, then the assertions on pointer and samples.
Verdict ==
    /\ On("verdict")
    /\ LET samples == script.seen \cup {VisibilitySample}
       IN  Check(/\ pointer.generation = B
                 /\ pointer.version = script.before + 1
                 /\ samples = {"OLD_COMPLETE", "NEW_COMPLETE"}, "post")
    /\ UNCHANGED <<systemVars, head, content, worker>>

PostAfterPromotion ==
    /\ On("post")
    /\ Edit
    /\ script' = [script EXCEPT !.pc = "syncPost", !.mark = head + 1]
    /\ UNCHANGED <<systemVars, content, worker>>

WaitForBAgain ==
    /\ On("syncPost")
    /\ Synced(B, script.mark)
    /\ Proceed("equalPost")
    /\ UNCHANGED <<systemVars, head, content, worker>>

EqualAtTheEnd ==
    /\ On("equalPost")
    /\ IF content[B] = Dumped
       THEN script' = [script EXCEPT !.pc = "finally", !.result = "qualified"]
       ELSE Fail
    /\ UNCHANGED <<systemVars, head, content, worker>>

\* Mutant: nothing is undone.
Finally_Nothing == On("finally") /\ Proceed("ended") /\ UNCHANGED <<systemVars, head, content, worker>>
\* finally: the worker of A is scaled up again, or the patch is rejected, which
\* is swallowed: the worker keeps the replicas it has.
ScaledUp ==
    /\ On("finally")
    /\ worker' = [worker EXCEPT ![A].replicas = 1]
    /\ Proceed("ended")
    /\ UNCHANGED <<systemVars, head, content>>

PatchSwallowed ==
    /\ On("finally")
    /\ faults < MaxFaults
    /\ faults' = faults + 1
    /\ Proceed("abandoned")
    /\ UNCHANGED <<op, work, tableVars, evidenceVars, head, content, worker>>

Finally == ScaledUp \/ PatchSwallowed

-----------------------------------------------------------------------------
\* The pod of A outlived the patch of its Deployment and has followed the new
\* marker: the sampler will never see the old one.
OldMarkerGone == script.new > 0 /\ Visible >= script.new /\ "OLD_COMPLETE" \notin script.seen

\* Waits are bounded (minutes): they run out only when something went wrong.
Waiting == {"syncA", "loading", "healthy", "available", "syncB", "seeOld", "promoted", "syncPost"}

TimesOut ==
    /\ script.pc \in Waiting
    /\ faults > 0 \/ (On("seeOld") /\ OldMarkerGone)
    /\ Fail
    /\ UNCHANGED <<systemVars, head, content, worker>>

\* The script is killed: no finally.
Killed ==
    /\ script.pc \notin {"start", "killed", "ended", "abandoned"}
    /\ faults < MaxFaults
    /\ faults' = faults + 1
    /\ Proceed("killed")
    /\ UNCHANGED <<op, work, tableVars, evidenceVars, head, content, worker>>

ScriptStep ==
    \/ RequireServingA \/ PostOldMarker \/ WaitForA \/ RequestB
    \/ AwaitLoading \/ AwaitHealthy \/ Dump \/ RegisterSync \/ BeginLoad \/ EndLoad \/ MarkCurrent
    \/ EqualAfterLoad \/ DeployBWorker \/ AwaitBWorker \/ StopAWorker
    \/ PostNewMarker \/ PostMore \/ WaitForB \/ EqualAfterCatchup
    \/ StartSampler \/ SeeOld \/ DeclareReady \/ AwaitPromotion \/ Verdict
    \/ PostAfterPromotion \/ WaitForBAgain \/ EqualAtTheEnd
    \/ Finally \/ TimesOut

AbInit ==
    /\ BuildInit
    /\ head = 0
    /\ sync = [g \in Generations |->
                 IF g = A THEN [Unsynced EXCEPT !.state = "CURRENT", !.schema = "CURRENT"]
                          ELSE Unsynced]
    /\ content = [g \in Generations |-> 0]
    /\ worker = [g \in Generations |->
                   IF g = A THEN [replicas |-> 1, running |-> TRUE] ELSE Down]
    /\ script = Fresh

outside == <<head, content, worker, script>>

AbNext ==
    \/ \E c \in Coordinators : (CoordinatorStep(c) \/ BuildClaim(c)) /\ UNCHANGED outside
    \/ BuildStoreStep /\ UNCHANGED outside
    \/ \E g \in Generations : PodFollows(g) \/ WorkerFollows(g) \/ WorkerMeetsGap(g)
    \/ DeclareFailed(B)
    \/ ScriptStep \/ Sample \/ Killed

AbSpec == AbInit /\ [][AbNext]_abVars

\* Coordinators, workers and Kubernetes are restarted for ever; the script
\* runs once; the sampler samples every 25 ms.
FairAbSpec ==
    /\ AbSpec
    /\ \A c \in Coordinators : WF_abVars(CoordinatorStep(c) /\ UNCHANGED outside)
    /\ WF_abVars(\E c \in Coordinators : BuildClaim(c) /\ UNCHANGED outside)
    /\ \A o \in Operations :
          WF_abVars(LeaseRunsOut(o) /\ UNCHANGED <<tableVars, evidenceVars, outside>>)
    /\ \A g \in Generations : WF_abVars(PodFollows(g)) /\ WF_abVars(WorkerFollows(g))
    /\ WF_abVars(ScriptStep) /\ WF_abVars(Sample)

-----------------------------------------------------------------------------
\* Properties

\* What queries see is always a whole dataset, and never one older than what
\* they saw before, through load, catch-up and cutover, whichever coordinator
\* crashed or went on with an expired claim (the purpose of the samples of
\* jwb-m10b-virtuoso-b.mjs; CONNECTION_ERRORs apart).
QueriesNeverGoBack == [][Visible' # Partial /\ Visible' >= Visible]_abVars

\* A generation is only ever promoted when its cursor has reached the target
\* of its operation and its dataset was declared valid (#observeCatchup and
\* #observeValidation, evidence that two different handlers read).
PromotedOnceCaughtUp ==
    \A j \in Rows : LET g == journal[j].to IN
        /\ g \in validation.valid \cap validation.manifest
        /\ sync[g].cursor >= target[journal[j].op]
        /\ content[g] # Partial /\ content[g] >= sync[g].cursor

\* The row of the candidate went to LOADING and the operation did not follow:
\* every retry ends in GENERATION_STATE_CONFLICT.
StuckAtCreating ==
    op[Op].state = "CREATING_GENERATION" /\ generation[B].state = "LOADING"

OperationSettled ==
    \/ op[Op].state \in {"ABSENT", "FAILED", "ROLLBACK_PROTECTED"}
    \/ op[Op].state \in ACTIVE /\ ~Worthwhile(Op)
    \/ StuckAtCreating

\* The rebuild ends.  The operation is promoted, or FAILED, or waits for
\* evidence nobody supplies any more: a coordinator that dies or loses its
\* lease never keeps it from going on, except in StuckAtCreating.  The script
\* qualifies B, or fails after a fault or because it stopped the worker of A
\* too late.  The worker of A runs again, unless the script was killed or its
\* last patch was rejected unnoticed.
RebuildEnds ==
    <>[](/\ OperationSettled
         /\ \/ On("killed")
            \/ /\ script.pc \in {"ended", "abandoned"}
               /\ On("ended") => worker[A].running
               /\ script.result = "qualified" => op[Op].state = "ROLLBACK_PROTECTED"
               /\ script.result = "failed" => faults > 0 \/ OldMarkerGone)
=============================================================================
