------------------------ MODULE GenerationRetirement ------------------------
(***************************************************************************)
(* Retirement of a generation nobody needs any more: the cleanup operation *)
(* from RETIREMENT_WAITING_ELIGIBILITY to COMPLETED, next to a promotion   *)
(* that moves the same pointer, and the physical deletion of the three     *)
(* Kubernetes objects of the generation.                                   *)
(*                                                                         *)
(*   WAITING_ELIGIBILITY -> RETIRING -> LOGICALLY_RETIRED ->               *)
(*   PHYSICAL_DELETE_PENDING -> PHYSICALLY_DELETED -> METADATA_FINALIZED   *)
(*                                                                         *)
(* The database and the cluster share no transaction.  Eligibility is      *)
(* decided in the database, the deletion happens object by object in the   *)
(* cluster, and what protects the two from each other is the fence of the  *)
(* claim, a marker with that fence on the Service, and the uid and         *)
(* resourceVersion every DELETE carries.  The deletion token is renewed    *)
(* exactly when the fence is, so the fence stands for both.                *)
(*                                                                         *)
(* rdf_generation_sync is not modelled: SYNC_ACTIVE makes fewer            *)
(* generations eligible.                                                   *)
(***************************************************************************)
EXTENDS GenerationPromotion

\* None stands for a missing retirement row, too.
ASSUME RetirementAssumption == None \notin RetirementRow

VARIABLES expected,  \* expected_pointer_version, expected_generation_version,
                     \* operation_fence of the retirement row of each operation
          attempts,  \* rdf_generation_delete_attempt
          cluster    \* the Kubernetes objects of each generation

physicalVars == <<expected, attempts, cluster>>

\* The order of deletion; the Service carries the marker and goes last.
Roles == <<"workload", "pvc", "service">>
RoleNames == {Roles[k] : k \in DOMAIN Roles}

\* uid 0: there is no such object.
Gone == [uid |-> 0, rv |-> 0, deleting |-> FALSE, marker |-> None]
Object(uid) == [uid |-> uid, rv |-> 1, deleting |-> FALSE, marker |-> None]
\* Every write of an object gives it a new resourceVersion.
Newer(object) == [object EXCEPT !.rv = @ + 1]
Exists(g, role) == cluster[g][role].uid # 0

Unexpected == [pointer |-> 0, generation |-> 0, fence |-> 0]

\* What coordinator c planned, and the resource it is about to delete.
Plan(c) == work[c].mem[1]
Role(c) == Roles[work[c].mem[2]]
Object_(c) == cluster[Candidate(c)][Role(c)]
Planned(c, role) == Plan(c)[role]

Mine(a, c) == a.op = work[c].op /\ a.fence = work[c].fence

-----------------------------------------------------------------------------
\* evaluateEligibility, asked by the cleanup operation o itself.

\* Mutant: the protection is taken for the whole truth.
Eligible_Protection(o, g) == generation[g].protection \in {"NONE", "RETIREMENT_IN_PROGRESS"}
Eligible(o, g) ==
    /\ generation[g].state \in {"RETIRING", "RETIRED", "FAILED"}
    /\ generation[g].protection \in {"NONE", "RETIREMENT_IN_PROGRESS"}
    /\ g \notin {pointer.generation, pointer.previous}
    /\ ~\E j \in Rows : Incomplete(j) /\ Touches(j, g)
    /\ ~\E p \in Operations \ {o} : op[p].state \in ACTIVE /\ op[p].candidate = g

\* scheduleCleanup.  A repeated request is answered with the operation there
\* is; a generation that has a retirement row already (UNIQUE) is refused.
ScheduleCleanup(o, g) ==
    /\ op[o].state = "ABSENT"
    /\ generation[g].state # "ABSENT"
    /\ retirement[g] = None
    /\ op' = [op EXCEPT ![o] = Unclaimed("RETIREMENT_WAITING_ELIGIBILITY", g)]
    /\ retirement' = [retirement EXCEPT ![g] = [op |-> o, state |-> "WAITING_ELIGIBILITY"]]
    /\ expected' = [expected EXCEPT ![o] = [pointer |-> pointer.version,
                                            generation |-> generation[g].version, fence |-> 0]]
    /\ UNCHANGED <<work, faults, generation, journal, pointer, attempts, cluster>>

\* A claim that finds the generation ineligible changes nothing but its fence.
WorthClaiming(o) ==
    op[o].state = "RETIREMENT_WAITING_ELIGIBILITY" => Eligible(o, op[o].candidate)

-----------------------------------------------------------------------------
\* RETIREMENT_WAITING_ELIGIBILITY: reevaluatePendingRetirement, one
\* transaction that ends the handler and releases the claim.
Reevaluate(c) ==
    /\ At(c, "RETIREMENT_WAITING_ELIGIBILITY")
    /\ LET o == work[c].op
           g == Candidate(c)
           mayAct == Holds(c) /\ op[o].state = "RETIREMENT_WAITING_ELIGIBILITY"
       IN  \/ /\ mayAct
              /\ ~Eligible(o, g)
              /\ op' = [op EXCEPT ![o] = [@ EXCEPT !.owner = None, !.live = FALSE]]
              /\ UNCHANGED <<generation, retirement, expected>>
           \/ /\ mayAct
              /\ Eligible(o, g)
              /\ generation[g].protection = "NONE"
              /\ generation' = [generation EXCEPT ![g] =
                   [state |-> "RETIRING", protection |-> "RETIREMENT_IN_PROGRESS",
                    version |-> @.version + 1]]
              /\ retirement' = [retirement EXCEPT ![g] = [op |-> o, state |-> "RETIRING"]]
              /\ expected' = [expected EXCEPT ![o] =
                   [pointer |-> pointer.version, generation |-> generation[g].version + 1,
                    fence |-> work[c].fence]]
              /\ op' = [op EXCEPT ![o] = [@ EXCEPT !.state = "CLEANING_UP", !.owner = None,
                                                   !.live = FALSE]]
           \/ /\ ~mayAct     \* STALE_COORDINATOR_FENCE
              /\ UNCHANGED <<op, generation, retirement, expected>>
    /\ Stop(c)
    /\ UNCHANGED <<faults, journal, pointer, attempts, cluster>>

-----------------------------------------------------------------------------
\* CLEANING_UP: #cleanup.  Every call of it is guarded by the claim.

Authorized(c) == Holds(c) /\ op[work[c].op].state = "CLEANING_UP"
RowOf(c) == retirement[Candidate(c)]
OwnRow(c) == RowOf(c) # None /\ RowOf(c).op = work[c].op

\* operationRetirement, and the call its state leads to.
LoadRetirement(c) ==
    /\ At(c, "CLEANING_UP")
    /\ IF ~OwnRow(c) THEN Stop(c)
       ELSE \/ /\ RowOf(c).state = "RETIRING"
               /\ Goto(c, "cleanup:retire", <<>>)
            \/ /\ RowOf(c).state \in {"LOGICALLY_RETIRED", "PHYSICAL_DELETE_PENDING"}
               /\ Goto(c, "cleanup:authorize", <<>>)
            \/ /\ RowOf(c).state = "PHYSICALLY_DELETED"
               /\ Goto(c, "cleanup:finalize", <<>>)
            \/ /\ RowOf(c).state = "METADATA_FINALIZED"
               /\ Goto(c, "cleanup:complete", <<>>)
    /\ UNCHANGED <<op, faults, tableVars, physicalVars>>

\* A call that runs under the claim, or fails and ends the handler.
Fenced(c, condition) == Authorized(c) /\ condition
Rejected(c, condition) == ~Fenced(c, condition) /\ Stop(c)

\* A row that is LOGICALLY_RETIRED already is accepted too, but only the
\* holder of the claim gets this far and it has just read RETIRING.
MarkGenerationRetired(c) ==
    /\ At(c, "cleanup:retire")
    /\ LET o == work[c].op
           g == Candidate(c)
           valid == /\ RowOf(c).state = "RETIRING"
                    /\ generation[g].state = "RETIRING"
                    /\ generation[g].protection = "RETIREMENT_IN_PROGRESS"
                    /\ generation[g].version = expected[o].generation
       IN  \/ /\ Fenced(c, valid)
              /\ generation' = [generation EXCEPT ![g] =
                   [state |-> "RETIRED", protection |-> @.protection, version |-> @.version + 1]]
              /\ retirement' = [retirement EXCEPT ![g] = [op |-> o, state |-> "LOGICALLY_RETIRED"]]
              /\ expected' = [expected EXCEPT ![o].generation = @ + 1]
              /\ Goto(c, "cleanup:authorize", <<>>)
           \/ /\ Rejected(c, valid)
              /\ UNCHANGED <<generation, retirement, expected>>
    /\ UNCHANGED <<op, faults, journal, pointer, attempts, cluster>>

\* The second decision, bound to the fence and to both versions.  A pointer
\* that has moved since the first one refuses the deletion for good.
AuthorizePhysicalDeletion(c) ==
    /\ At(c, "cleanup:authorize")
    /\ LET o == work[c].op
           g == Candidate(c)
           valid == /\ Eligible(o, g)
                    /\ pointer.version = expected[o].pointer
                    /\ generation[g].version = expected[o].generation
                    /\ RowOf(c).state \in {"LOGICALLY_RETIRED", "PHYSICAL_DELETE_PENDING"}
       IN  \/ /\ Fenced(c, valid)
              /\ retirement' = [retirement EXCEPT ![g] =
                                  [op |-> o, state |-> "PHYSICAL_DELETE_PENDING"]]
              /\ expected' = [expected EXCEPT ![o] = [@ EXCEPT !.fence = work[c].fence]]
              /\ Goto(c, "delete:plan", <<>>)
           \/ /\ Rejected(c, valid)
              /\ UNCHANGED <<retirement, expected>>
    /\ UNCHANGED <<op, faults, generation, journal, pointer, attempts, cluster>>

-----------------------------------------------------------------------------
\* The plan, its marker on the Service, and its journal.

Identity(object) == [uid |-> object.uid, rv |-> object.rv]

\* planDeleteGeneration.  A missing object is accepted only with evidence of
\* this operation's own DELETE in rdf_generation_retirement.deletion_evidence,
\* a column no statement writes: RESOURCE_MISSING_UNEXPECTED.
PlanDeletion(c) ==
    /\ At(c, "delete:plan")
    /\ LET g == Candidate(c) IN
       IF \A role \in RoleNames : Exists(g, role)
       THEN Goto(c, "delete:mark", <<[role \in RoleNames |-> Identity(cluster[g][role])], 1>>)
       ELSE Stop(c)
    /\ UNCHANGED <<op, faults, tableVars, physicalVars>>

Marker(c) == [op |-> work[c].op, fence |-> work[c].fence]

\* markDeletionAuthority: a merge patch that names the resourceVersion read.
MarkDeletionAuthority(c) ==
    /\ At(c, "delete:mark")
    /\ LET g == Candidate(c)
           service == cluster[g]["service"]
       IN  IF Identity(service) = Planned(c, "service")
           THEN /\ cluster' = [cluster EXCEPT ![g]["service"] =
                                 [Newer(@) EXCEPT !.marker = Marker(c)]]
                /\ Goto(c, "delete:record",
                        <<[Plan(c) EXCEPT !["service"] = Newer(@)], 1>>)
           ELSE Stop(c) /\ UNCHANGED cluster
    /\ UNCHANGED <<op, faults, tableVars, expected, attempts>>

\* assertDeletionAuthority, and the condition of recordDeletionPlan.
HasAuthority(c) ==
    /\ Holds(c)
    /\ expected[work[c].op].fence = work[c].fence
    /\ OwnRow(c)
    /\ RowOf(c).state = "PHYSICAL_DELETE_PENDING"

Continue(c, pc) == Goto(c, pc, work[c].mem)

\* recordDeletionPlan
RecordDeletionPlan(c) ==
    /\ At(c, "delete:record")
    /\ IF HasAuthority(c)
       THEN /\ attempts' = attempts \cup
                 {[op |-> work[c].op, fence |-> work[c].fence, role |-> role,
                   uid |-> Planned(c, role).uid, state |-> "PLANNED"] : role \in RoleNames}
            /\ Continue(c, "delete:fence")
       ELSE Stop(c) /\ UNCHANGED attempts
    /\ UNCHANGED <<op, faults, tableVars, expected, cluster>>

\* #deleteAttemptState: the attempts of this claim for the given roles and in
\* one of the states from; none at all is STALE_COORDINATOR_FENCE.
Advancing(c, roles, from) ==
    {a \in attempts : Mine(a, c) /\ a.role \in roles /\ a.state \in from}

AttemptState(c, roles, from, to, pc, mem) ==
    /\ IF Holds(c) /\ Advancing(c, roles, from) # {}
       THEN /\ attempts' = (attempts \ Advancing(c, roles, from)) \cup
                           {[a EXCEPT !.state = to] : a \in Advancing(c, roles, from)}
            /\ Goto(c, pc, mem)
       ELSE Stop(c) /\ UNCHANGED attempts
    /\ UNCHANGED <<op, faults, tableVars, expected, cluster>>

MarkDeletionFence(c) ==
    /\ At(c, "delete:fence")
    /\ AttemptState(c, RoleNames, {"PLANNED", "FENCE_MARKED"}, "FENCE_MARKED",
                    "delete:assert", work[c].mem)

-----------------------------------------------------------------------------
\* executeDeletePlan: authority in the database, marker in the cluster and
\* the identity of every object before the first DELETE; authority and marker
\* once more before the volume.

AssertAuthority(c, from, to) ==
    /\ At(c, from)
    /\ IF HasAuthority(c) THEN Continue(c, to) ELSE Stop(c)
    /\ UNCHANGED <<op, faults, tableVars, physicalVars>>

AssertFirst(c) == AssertAuthority(c, "delete:assert", "delete:verify")
AssertVolume(c) == AssertAuthority(c, "delete:reassert", "delete:reverify")

Marked(c) == /\ Exists(Candidate(c), "service")
             /\ cluster[Candidate(c)]["service"].marker = Marker(c)

VerifyAll(c) ==
    /\ At(c, "delete:verify")
    /\ IF Marked(c) /\ \A role \in RoleNames :
                         Identity(cluster[Candidate(c)][role]) = Planned(c, role)
       THEN Continue(c, "delete:intent")
       ELSE Stop(c)
    /\ UNCHANGED <<op, faults, tableVars, physicalVars>>

VerifyVolume(c) ==
    /\ At(c, "delete:reverify")
    /\ IF Marked(c) THEN Continue(c, "delete:intent") ELSE Stop(c)
    /\ UNCHANGED <<op, faults, tableVars, physicalVars>>

\* recordDeletionIntent
RecordIntent(c) ==
    /\ At(c, "delete:intent")
    /\ AttemptState(c, {Role(c)}, {"FENCE_MARKED", "DELETE_INTENT"}, "DELETE_INTENT",
                    "delete:remove", work[c].mem)

\* Mutant: the DELETE names the object only.
Preconditions_Name(c) == Object_(c).uid # 0
\* The API server compares uid and resourceVersion; 404 and 409 both end the
\* handler.
Preconditions(c) == Identity(Object_(c)) = Planned(c, Role(c))

Remove(c) ==
    /\ At(c, "delete:remove")
    /\ IF Preconditions(c)
       THEN /\ cluster' = [cluster EXCEPT ![Candidate(c)][Role(c)] =
                             [Newer(@) EXCEPT !.deleting = TRUE]]
            /\ Continue(c, "delete:accepted")
       ELSE Stop(c) /\ UNCHANGED cluster
    /\ UNCHANGED <<op, faults, tableVars, expected, attempts>>

\* recordDeletionAccepted
RecordAccepted(c) ==
    /\ At(c, "delete:accepted")
    /\ AttemptState(c, {Role(c)}, {"DELETE_INTENT", "DELETE_ACCEPTED"}, "DELETE_ACCEPTED",
                    "delete:observe", work[c].mem)

\* Mutant: the accepted DELETE is taken for the absence.
ObservedAbsent_Accepted(c) == TRUE
\* waitForExpectedUidAbsence; ABSENCE_TIMEOUT while the object terminates.
ObservedAbsent(c) == Object_(c).uid # Planned(c, Role(c)).uid

ObserveAbsence(c) ==
    /\ At(c, "delete:observe")
    /\ IF ObservedAbsent(c) THEN Continue(c, "delete:absent") ELSE Stop(c)
    /\ UNCHANGED <<op, faults, tableVars, physicalVars>>

\* recordAbsenceConfirmed, and on to the next resource.
RecordAbsent(c) ==
    /\ At(c, "delete:absent")
    /\ AttemptState(c, {Role(c)}, {"DELETE_ACCEPTED", "ABSENT_CONFIRMED"}, "ABSENT_CONFIRMED",
                    CASE Role(c) = "workload" -> "delete:reassert"
                      [] Role(c) = "pvc"      -> "delete:intent"
                      [] Role(c) = "service"  -> "cleanup:confirm",
                    <<Plan(c), work[c].mem[2] + 1>>)

-----------------------------------------------------------------------------
\* The end of the operation.

\* confirmPhysicalDeletion; PHYSICAL_DELETE_PARTIAL otherwise.
Confirmed(c) ==
    /\ HasAuthority(c)
    /\ {a.role : a \in {b \in attempts : Mine(b, c)}} = RoleNames
    /\ \A a \in attempts : Mine(a, c) => a.state = "ABSENT_CONFIRMED"

ConfirmPhysicalDeletion(c) ==
    /\ At(c, "cleanup:confirm")
    /\ IF Confirmed(c)
       THEN /\ retirement' = [retirement EXCEPT ![Candidate(c)] =
                                [op |-> work[c].op, state |-> "PHYSICALLY_DELETED"]]
            /\ Goto(c, "cleanup:finalize", <<>>)
       ELSE Stop(c) /\ UNCHANGED retirement
    /\ UNCHANGED <<op, faults, generation, journal, pointer, physicalVars>>

FinalizeRetirement(c) ==
    /\ At(c, "cleanup:finalize")
    /\ LET g == Candidate(c) IN
       IF Holds(c) /\ RowOf(c).state = "PHYSICALLY_DELETED"
       THEN /\ generation' = [generation EXCEPT ![g] =
                 [state |-> @.state, protection |-> "NONE", version |-> @.version + 1]]
            /\ retirement' = [retirement EXCEPT ![g] =
                                [op |-> work[c].op, state |-> "METADATA_FINALIZED"]]
            /\ Goto(c, "cleanup:complete", <<>>)
       ELSE Stop(c) /\ UNCHANGED <<generation, retirement>>
    /\ UNCHANGED <<op, faults, journal, pointer, physicalVars>>

CompleteCleanup(c) ==
    /\ At(c, "cleanup:complete")
    /\ Transition(c, "CLEANING_UP", "COMPLETED")
    /\ UNCHANGED <<tableVars, physicalVars>>

CleanupStep(c) ==
    \/ Reevaluate(c) \/ LoadRetirement(c) \/ MarkGenerationRetired(c)
    \/ AuthorizePhysicalDeletion(c)
    \/ PlanDeletion(c) \/ MarkDeletionAuthority(c) \/ RecordDeletionPlan(c) \/ MarkDeletionFence(c)
    \/ AssertFirst(c) \/ VerifyAll(c) \/ AssertVolume(c) \/ VerifyVolume(c)
    \/ RecordIntent(c) \/ Remove(c) \/ RecordAccepted(c) \/ ObserveAbsence(c) \/ RecordAbsent(c)
    \/ ConfirmPhysicalDeletion(c) \/ FinalizeRetirement(c) \/ CompleteCleanup(c)

-----------------------------------------------------------------------------
\* The cluster on its own.

\* The finalizers of a deleted object are done.
Vanish(g, role) ==
    /\ cluster[g][role].deleting
    /\ cluster' = [cluster EXCEPT ![g][role] = Gone]
    /\ UNCHANGED <<storeVars, tableVars, expected, attempts>>

Fault == faults < MaxFaults /\ faults' = faults + 1

\* A controller writes the status of an object (of interest only while its
\* resourceVersion may be in a plan).
StatusWritten(g, role) ==
    /\ Exists(g, role)
    /\ retirement[g] # None
    /\ retirement[g].state = "PHYSICAL_DELETE_PENDING"
    /\ Fault
    /\ cluster' = [cluster EXCEPT ![g][role] = Newer(@)]
    /\ UNCHANGED <<op, work, tableVars, expected, attempts>>

\* createGeneration is not fenced: a coordinator that lost its claim of the
\* build of g long ago creates what createOrVerify finds missing, under a uid
\* never used before.
LateCreate(g, role) ==
    /\ ~Exists(g, role)
    /\ retirement[g] # None
    /\ Fault
    /\ cluster' = [cluster EXCEPT ![g][role] = Object(faults + 2)]
    /\ UNCHANGED <<op, work, tableVars, expected, attempts>>

ClusterStep ==
    \E g \in Generations, role \in RoleNames :
        Vanish(g, role) \/ StatusWritten(g, role) \/ LateCreate(g, role)

-----------------------------------------------------------------------------
\* The oldest operation is a promotion that stands at READY_TO_PROMOTE; of the
\* other generations one is a failed candidate.
RetirementInit ==
    \E ready, failed \in Generations \ {InitialServing} :
        /\ ready # failed
        /\ op = [o \in Operations |->
                   IF \A p \in Operations : o <= p THEN Unclaimed("READY_TO_PROMOTE", ready)
                   ELSE Unclaimed("ABSENT", ready)]
        /\ generation = [g \in Generations |->
             [state |-> CASE g = InitialServing -> "SERVING" [] g = ready -> "READY"
                          [] g = failed -> "FAILED" [] OTHER -> "ABSENT",
              protection |-> IF g = InitialServing THEN "SERVING" ELSE "NONE",
              version |-> 1]]
        /\ work = [c \in Coordinators |-> Idle]
        /\ faults = 0
        /\ journal = <<>>
        /\ pointer = [generation |-> InitialServing, previous |-> None, version |-> 1]
        /\ retirement = [g \in Generations |-> None]
        /\ expected = [o \in Operations |-> Unexpected]
        /\ attempts = {}
        /\ cluster = [g \in Generations |->
             [role \in RoleNames |-> IF g \in {InitialServing, ready, failed}
                                     THEN Object(1) ELSE Gone]]

RetirementClaim(c) ==
    /\ ClaimNext(c)
    /\ WorthClaiming(work'[c].op)
    /\ UNCHANGED <<tableVars, physicalVars>>

RetirementStoreStep ==
    /\ \/ \E c \in Coordinators : Interrupt(c)
       \/ \E o \in Operations : LeaseRunsOut(o) \/ LeaseOutlived(o)
    /\ UNCHANGED <<tableVars, physicalVars>>

RetirementNext ==
    \/ \E o \in Operations, g \in Generations : ScheduleCleanup(o, g)
    \/ \E g \in Generations : ReleaseRollbackProtection(g) /\ UNCHANGED physicalVars
    \/ \E c \in Coordinators : \/ RetirementClaim(c)
                               \/ CleanupStep(c)
                               \/ PromotionStep(c) /\ UNCHANGED physicalVars
    \/ RetirementStoreStep
    \/ ClusterStep

allVars == <<vars, physicalVars>>
RetirementSpec == RetirementInit /\ [][RetirementNext]_allVars

-----------------------------------------------------------------------------
(***************************************************************************)
(* Correctness.                                                            *)
(***************************************************************************)

Damaged(g) == \E role \in RoleNames : cluster[g][role].uid # 1 \/ cluster[g][role].deleting

\* However late the deletion runs after the decision, and whoever runs it:
\* a generation of which an object was deleted is neither the pointer's target
\* nor its rollback, and no router would accept it (evaluateEligibility,
\* authorizePhysicalDeletion; ADR-0034 "A changed pointer, lifecycle version,
\* journal, lease, or fence rejects deletion").
DeletedIsUnneeded ==
    \A g \in Generations : generation[g].state # "ABSENT" /\ Damaged(g) =>
        /\ g \notin {pointer.generation, pointer.previous}
        /\ ~RoutableLifecycle(g)

\* No object is ever deleted that some attempt does not name, by uid, with a
\* recorded intent: not a replacement created after the plan was made, not by
\* a coordinator that was taken over (executeDeletePlan; "a replacement with a
\* different UID ... is never deleted by the old plan").
IntentNamesWhatIsDeleted ==
    \A g \in Generations, role \in RoleNames : cluster[g][role].deleting =>
        \E a \in attempts :
            /\ op[a.op].candidate = g
            /\ a.role = role
            /\ a.uid = cluster[g][role].uid
            /\ a.state \notin {"PLANNED", "FENCE_MARKED"}

\* A finalized retirement has removed every object it planned to remove, from
\* the cluster and not only from the journal (confirmPhysicalDeletion,
\* finalizeRetirement; "An accepted Kubernetes DELETE is not absence").
FinalizedMeansGone ==
    \A o \in Operations : op[o].state = "COMPLETED" =>
        \A a \in attempts : a.op = o /\ a.fence = expected[o].fence =>
            cluster[op[o].candidate][a.role].uid # a.uid

\* ADR-0034: a missing object is accepted when "that same retirement journal
\* contains DELETE_INTENT or DELETED for the exact UID ... This also covers a
\* crash after Kubernetes accepts deletion": the owner of a cleanup that was
\* interrupted plans around the objects this very cleanup has deleted.
DeletedByOperation(c) ==
    \A role \in RoleNames : ~Exists(Candidate(c), role) =>
        \E a \in attempts : /\ a.op = work[c].op
                             /\ a.role = role
                             /\ a.state \notin {"PLANNED", "FENCE_MARKED"}

OwnDeletionsAreAccepted ==
    [][\A c \in Coordinators :
         /\ At(c, "delete:plan")
         /\ DeletedByOperation(c)
         /\ faults' = faults
         => ~(work'[c] = Idle)]_allVars

=============================================================================
