-------------------------- MODULE StandaloneRebuild --------------------------
(***************************************************************************)
(* jwb:rebuild and jwb:candidate:validate: the product script and the      *)
(* StandaloneRebuildCoordinator containers it runs, one per step.  Every   *)
(* container selects the candidate anew from the pointer it reads; only    *)
(* load's reset compares the pointer again inside its transaction.  The    *)
(* physical load and both verdicts are unconditional writes.               *)
(***************************************************************************)
EXTENDS StandaloneSlots

VARIABLE tool

RebuildPcs == {"idle", "stop", "load", "reset", "wipe", "fill", "state", "start",
               "observe", "validate", "compare"}
ToolRow == [pc : RebuildPcs, slot : Slots, version : Nat, worker : Slots \cup {None}]
NoTool == [pc |-> "idle", slot |-> "gen-b", version |-> 0, worker |-> None]

ToolAt(pc) == tool.pc = pc
ToolGoto(pc) == tool' = [tool EXCEPT !.pc = pc]

\* inspect: the pointer's slot must be the one SERVING row.
ServingRows == {s \in Slots : slots[s].state = "SERVING" /\ slots[s].protection = "SERVING"}
Inspectable == ServingRows = {pointer.gen} /\ slots[Other(pointer.gen)].state # "SERVING"
                                           /\ slots[Other(pointer.gen)].protection # "SERVING"

Candidate_fixed == "gen-b"
Candidate == Other(pointer.gen)
ReadyForValidation(s) == slots[s].sync = "CURRENT"

-----------------------------------------------------------------------------
Rebuild ==
    /\ ToolAt("idle")
    /\ Inspectable
    /\ tool' = [NoTool EXCEPT !.pc = "stop", !.worker = Candidate]
    /\ UNCHANGED slotVars

StopWorker ==
    /\ ToolAt("stop")
    /\ workers' = [workers EXCEPT ![tool.worker] = FALSE]
    /\ ToolGoto("load")
    /\ UNCHANGED <<slots, pointer, journal, resolved, faults>>

\* load inspects for itself: its candidate need not be the one whose worker
\* was stopped.
LoadInspect ==
    /\ ToolAt("load")
    /\ Inspectable
    /\ tool' = [tool EXCEPT !.pc = "reset", !.slot = Candidate, !.version = pointer.version]
    /\ UNCHANGED slotVars

LoadReset_stale ==
    /\ ToolAt("reset")
    /\ slots' = [slots EXCEPT ![tool.slot] = [@ EXCEPT !.sync = "BOOTSTRAPPING"]]
    /\ ToolGoto("wipe")
    /\ UNCHANGED <<pointer, journal, workers, resolved, faults>>
LoadReset ==
    /\ ToolAt("reset")
    /\ pointer.version = tool.version /\ pointer.gen = Other(tool.slot)
    /\ slots' = [slots EXCEPT ![tool.slot] =
                    IF @.state = "SERVING" THEN [@ EXCEPT !.sync = "BOOTSTRAPPING"]
                    ELSE [@ EXCEPT !.state = "LOADING", !.protection = "NONE",
                                   !.validation = "PENDING", !.sync = "BOOTSTRAPPING"]]
    /\ ToolGoto("wipe")
    /\ UNCHANGED <<pointer, journal, workers, resolved, faults>>

WipeStore ==
    /\ ToolAt("wipe")
    /\ slots' = [slots EXCEPT ![tool.slot] = [@ EXCEPT !.store = "PARTIAL"]]
    /\ ToolGoto("fill")
    /\ UNCHANGED <<pointer, journal, workers, resolved, faults>>

FillStore ==
    /\ ToolAt("fill")
    /\ slots' = [slots EXCEPT ![tool.slot] = [@ EXCEPT !.store = "WHOLE", !.sync = "BEHIND"]]
    /\ ToolGoto("state")
    /\ UNCHANGED <<pointer, journal, workers, resolved, faults>>

MarkCatchingUp ==
    /\ ToolAt("state")
    /\ slots' = [slots EXCEPT ![tool.slot] = [@ EXCEPT !.state = "CATCHING_UP"]]
    /\ ToolGoto("start")
    /\ UNCHANGED <<pointer, journal, workers, resolved, faults>>

StartWorker ==
    /\ ToolAt("start")
    /\ workers' = [workers EXCEPT ![tool.worker] = TRUE]
    /\ ToolGoto("observe")
    /\ UNCHANGED <<slots, pointer, journal, resolved, faults>>

ObserveCandidate ==
    /\ ToolAt("observe")
    /\ Inspectable /\ ReadyForValidation(Candidate)
    /\ ToolGoto("validate")
    /\ UNCHANGED slotVars

Validate ==
    /\ ToolAt("idle")
    /\ tool' = [NoTool EXCEPT !.pc = "validate"]
    /\ UNCHANGED slotVars

\* The snapshot of reference is taken first; then validate selects.
ValidateSelect ==
    /\ ToolAt("validate")
    /\ Inspectable /\ ReadyForValidation(Candidate)
    /\ tool' = [tool EXCEPT !.pc = "compare", !.slot = Candidate]
    /\ UNCHANGED slotVars

\* Canonical equality holds or not; the verdict overwrites the slot's row.
WriteVerdict(equal) ==
    /\ ToolAt("compare")
    /\ equal => slots[tool.slot].store = "WHOLE"
    /\ slots' = [slots EXCEPT ![tool.slot] =
                    IF equal THEN [@ EXCEPT !.state = "READY", !.validation = "VALID"]
                             ELSE [@ EXCEPT !.state = "FAILED", !.validation = "INVALID"]]
    /\ tool' = NoTool
    /\ UNCHANGED <<pointer, journal, workers, resolved, faults>>

\* A container exits with an error (STANDALONE_SERVING_INVARIANT_VIOLATION,
\* STANDALONE_REBUILD_POINTER_CONFLICT, CANDIDATE_NOT_CURRENT, the catch-up
\* timeout) and rebuild's catch starts the worker again.
Refused ==
    \/ tool.pc = "load" /\ ~Inspectable
    \/ tool.pc = "reset" /\ ~(pointer.version = tool.version /\ pointer.gen = Other(tool.slot))
    \/ tool.pc \in {"observe", "validate"} /\ ~(Inspectable /\ ReadyForValidation(Candidate))

ToolRefused_abandons ==
    /\ Refused
    /\ tool' = NoTool
    /\ UNCHANGED slotVars
ToolRefused ==
    /\ Refused
    /\ workers' = [s \in Slots |-> workers[s] \/ s = tool.worker]
    /\ tool' = NoTool
    /\ UNCHANGED <<slots, pointer, journal, resolved, faults>>

\* Any other step fails, with the same catch, or the script is killed.
ToolFails ==
    /\ ~ToolAt("idle")
    /\ Fault
    /\ \/ workers' = [s \in Slots |-> workers[s] \/ s = tool.worker]
       \/ UNCHANGED workers
    /\ tool' = NoTool
    /\ UNCHANGED <<slots, pointer, journal, resolved>>

RebuildInit == tool = NoTool
ToolStep == \/ StopWorker \/ LoadInspect \/ LoadReset \/ WipeStore \/ FillStore
            \/ MarkCatchingUp \/ StartWorker \/ ToolRefused \/ ObserveCandidate \/ ValidateSelect
            \/ \E equal \in BOOLEAN : WriteVerdict(equal)

RebuildTypeOK == tool \in ToolRow
==============================================================================
