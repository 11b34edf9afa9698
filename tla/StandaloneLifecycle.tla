------------------------- MODULE StandaloneLifecycle -------------------------
(***************************************************************************)
(* The standalone product under its operator: promotion commands and       *)
(* rebuild commands on the same two slots, and what they promise.          *)
(***************************************************************************)
EXTENDS StandalonePromotion, StandaloneRebuild

CONSTANT Plans   \* the ways the operator may work

ASSUME LifecycleAssumption ==
    Plans \subseteq [overlapping : BOOLEAN, commands : SUBSET Commands,
                      tools : SUBSET {"rebuild", "validate"}]

VARIABLE plan    \* the way the operator works in this behaviour

vars == <<slotVars, cli, tool, plan>>

Init == SlotsInit /\ PromotionInit /\ RebuildInit /\ plan \in Plans

\* An operator who does not overlap commands starts one when none runs.
MayStart == plan.overlapping \/ (ToolAt("idle") /\ \A c \in Commands : At(c, "idle"))

Command ==
    /\ MayStart
    /\ \E c \in plan.commands, mode \in Modes : Invoke(c, mode)
    /\ UNCHANGED <<tool, plan>>

Maintain ==
    /\ MayStart
    /\ \/ "rebuild" \in plan.tools /\ Rebuild
       \/ "validate" \in plan.tools /\ Validate
    /\ UNCHANGED <<cli, plan>>

Next ==
    \/ SlotsStep /\ UNCHANGED <<cli, tool, plan>>
    \/ Command
    \/ \E c \in Commands : (CliStep(c) \/ Crash(c)) /\ UNCHANGED <<tool, plan>>
    \/ Maintain
    \/ (ToolStep \/ ToolFails) /\ UNCHANGED <<cli, plan>>

\* A run that is not killed goes on; an operator whose command failed runs it
\* again until nothing is left unfinished.
Fairness ==
    /\ \A c \in Commands : WF_vars(CliStep(c) /\ UNCHANGED <<tool, plan>>)
    /\ WF_vars(ToolStep /\ UNCHANGED <<cli, plan>>)
    /\ WF_vars(Unfinished # {} /\ Command)

Spec == Init /\ [][Next]_vars
FairSpec == Spec /\ Fairness

-----------------------------------------------------------------------------
\* Every variable keeps its type.
TypeOK == SlotsTypeOK /\ PromotionTypeOK /\ RebuildTypeOK /\ plan \in Plans

\* Two runs that resume one journal row, or race two rows, move the pointer
\* once per row: the rows that were cut over carry exactly the versions
\* 2..version, and the pointer is what the newest of them says (#cas).
CutoverOnce ==
    /\ \A v \in 2..pointer.version :
          \E j \in Cut : /\ journal[j].resulting = v
                         /\ \A k \in Cut : journal[k].resulting = v => k = j
                         /\ v = pointer.version =>
                               pointer.gen = journal[j].to /\ pointer.prev = journal[j].from
    /\ \A j \in Cut : journal[j].resulting \in 2..pointer.version

\* Once every cut-over promotion is finalized the registry says what the
\* pointer says, and the previous slot is retained for rollback unless a
\* rebuild or a validation took it since.
RegistryFollowsPointer ==
    Unfinished \cap Cut = {} /\ (plan.tools = {} \/ ~plan.overlapping) =>
        /\ slots[pointer.gen].state = "SERVING" /\ slots[pointer.gen].protection = "SERVING"
        /\ slots[Other(pointer.gen)].state # "SERVING"
        /\ pointer.prev # None /\ plan.tools = {} =>
               CandidateLifecycleEligible(slots[pointer.prev], "ROLLBACK")

\* A rebuild never resets the slot the pointer names, although it selected
\* its candidate before the transaction (load, under FOR UPDATE).
ResetSparesTheServed ==
    [][\A s \in Slots : slots'[s].sync = "BOOTSTRAPPING" /\ slots[s].sync # "BOOTSTRAPPING"
          => pointer.gen # s]_vars

\* What the operator does not overlap stays consistent: while no promotion is
\* unfinished the pointer's slot is SERVING, VALID and whole, through every
\* rebuild and validation of the other one.
ServedSlotUntouched ==
    Unfinished = {} /\ ~plan.overlapping =>
        LET row == slots[pointer.gen]
        IN  row.state = "SERVING" /\ row.validation = "VALID" /\ row.store = "WHOLE"

\* A rebuild that stops a worker gives it back, whichever step refuses to go
\* on: a slot does not fall behind for good because a command failed.
StoppedWorkerReturns ==
    <>(faults > 0) \/ \A s \in Slots : ~workers[s] ~> workers[s]

\* "Only a READY/VALID/CURRENT candidate ... may be promoted": the pointer moves
\* to no other slot (#cas).  A change may be taken in at any time, so that the
\* candidate is CURRENT when the pointer moves is not asked for.
PromotesOnlyEligible ==
    [][pointer'.gen # pointer.gen => LET row == slots[pointer'.gen]
                                     IN  /\ CandidateLifecycleEligible(row, "PROMOTE")
                                         /\ row.validation = "VALID"]_vars

\* "Recovery always resumes the oldest pending journal": every promotion that
\* was journalled is finalized in the end, if neither another promotion nor a
\* validation of the retained slot comes in between.
PromotionFinishes ==
    ~plan.overlapping /\ plan.tools = {} =>
        \A j \in 1..MaxRows : j \in Unfinished ~> j \in (1..Len(journal)) \ Unfinished
==============================================================================
