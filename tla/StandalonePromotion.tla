------------------------- MODULE StandalonePromotion -------------------------
(***************************************************************************)
(* jwb:promote, jwb:rollback and restore: StandalonePromotionCoordinator,  *)
(* one run per command.  Nothing excludes two runs from each other but the *)
(* journal row's lock and the version of the serving pointer.              *)
(*                                                                         *)
(* job is the journal row a run works on and phase the value of it that    *)
(* the run last read.                                                      *)
(***************************************************************************)
EXTENDS StandaloneSlots

CONSTANTS Commands,   \* runs of jwb-lifecycle-cli that may be under way
          Modes,      \* what the operator asks for
          MaxRows     \* bound on the journal

ASSUME PromotionAssumption == Modes \subseteq {"PROMOTE", "ROLLBACK", "RESTORE"}
                                  /\ MaxRows \in Nat

VARIABLE cli

promotionVars == <<slotVars, cli>>

Quiet == [pc |-> "idle", mode |-> "PROMOTE", read |-> pointer, job |-> 0, phase |-> "PREPARING"]
At(c, pc) == cli[c].pc = pc
Goto(c, pc) == cli' = [cli EXCEPT ![c] = [@ EXCEPT !.pc = pc]]
End(c) == cli' = [cli EXCEPT ![c] = [pc |-> "idle", mode |-> "PROMOTE", read |-> cli[c].read,
                                     job |-> 0, phase |-> "PREPARING"]]

PromotionPcs == {"idle", "pointer", "pending", "completed", "precondition", "candidate",
                 "insert", "cas", "observe", "runtime", "verify", "finalize"}
CliRow == [pc : PromotionPcs, mode : {"PROMOTE", "ROLLBACK", "RESTORE"},
           read : Pointer, job : Nat, phase : Phases]

\* The step the run takes up at, given the phase it read.
Resume_unobserved(phase) == IF phase = "PREPARING" THEN "cas"
                            ELSE IF phase = "GENERATION_FINALIZED" THEN "idle" ELSE "finalize"
Resume(phase) == CASE phase = "PREPARING" -> "cas"
                   [] phase = "POINTER_UPDATED" -> "observe"
                   [] phase = "ROUTER_VERIFIED" -> "finalize"
                   [] phase = "GENERATION_FINALIZED" -> "idle"
WorkOn(c, j, phase) ==
    cli' = [cli EXCEPT ![c] = [@ EXCEPT !.pc = Resume(phase), !.job = j, !.phase = phase]]

CandidateLifecycleEligible(row, mode) ==
    IF mode = "PROMOTE" THEN row.state = "READY" /\ row.protection = "NONE"
                        ELSE row.state = "RETIRING" /\ row.protection = "ROLLBACK"

-----------------------------------------------------------------------------
\* The operator runs a command.  The bound leaves it room for a new row or
\* an unfinished one to resume.
Invoke(c, mode) ==
    /\ At(c, "idle")
    /\ Len(journal) < MaxRows \/ Unfinished # {}
    /\ cli' = [cli EXCEPT ![c] = [@ EXCEPT !.pc = "pointer", !.mode = mode]]
    /\ UNCHANGED slotVars

ReadPointer(c) ==
    /\ At(c, "pointer")
    /\ cli' = [cli EXCEPT ![c] = [@ EXCEPT !.pc = "pending", !.read = pointer]]
    /\ UNCHANGED slotVars

\* The oldest unfinished row is resumed, whatever the mode asked for.  With
\* none, a mode the pointer already satisfies looks for its finished row.
ReadPending(c) ==
    /\ At(c, "pending")
    /\ \/ /\ Unfinished # {}
          /\ LET j == CHOOSE i \in Unfinished : \A k \in Unfinished : i <= k
             IN  WorkOn(c, j, journal[j].phase)
       \/ /\ Unfinished = {}
          /\ LET r == cli[c].read
             IN  Goto(c, IF \/ cli[c].mode = "PROMOTE" /\ r.gen = "gen-b"
                            \/ cli[c].mode = "ROLLBACK" /\ r.gen = "gen-a" /\ r.prev = "gen-b"
                         THEN "completed" ELSE "precondition")
    /\ UNCHANGED slotVars

CheckCompleted(c) ==
    /\ At(c, "completed")
    /\ IF \E j \in 1..Len(journal) : /\ journal[j].phase = "GENERATION_FINALIZED"
                                      /\ journal[j].to = cli[c].read.gen
       THEN End(c)
       ELSE Goto(c, "precondition")
    /\ UNCHANGED slotVars

CheckPointer(c) ==
    /\ At(c, "precondition")
    /\ \/ /\ cli[c].mode \in {"PROMOTE", "RESTORE"} => pointer.gen = "gen-a"
          /\ cli[c].mode \in {"ROLLBACK", "RESTORE"} => pointer.prev = Other(pointer.gen)
          /\ cli' = [cli EXCEPT ![c] = [@ EXCEPT !.pc = "candidate", !.read = pointer]]
       \/ /\ \/ cli[c].mode \in {"PROMOTE", "RESTORE"} /\ pointer.gen # "gen-a"
             \/ cli[c].mode \in {"ROLLBACK", "RESTORE"} /\ pointer.prev # Other(pointer.gen)
          /\ End(c)
    /\ UNCHANGED slotVars

CandidateReady(row, mode) == /\ CandidateLifecycleEligible(row, mode)
                             /\ row.validation = "VALID"
                             /\ row.sync = "CURRENT"

CheckCandidate(c) ==
    /\ At(c, "candidate")
    /\ IF CandidateReady(slots[Other(cli[c].read.gen)], cli[c].mode)
       THEN Goto(c, "insert")
       ELSE End(c)
    /\ UNCHANGED slotVars

InsertJournal(c) ==
    /\ At(c, "insert")
    /\ Len(journal) < MaxRows
    /\ journal' = Append(journal, [from |-> cli[c].read.gen, to |-> Other(cli[c].read.gen),
                                   phase |-> "PREPARING", expected |-> cli[c].read.version,
                                   resulting |-> 0])
    /\ WorkOn(c, Len(journal) + 1, "PREPARING")
    /\ UNCHANGED <<slots, pointer, workers, resolved, faults>>

\* #cas, one transaction: lock the row, adopt what another run made of it,
\* or move the pointer and the row together.
PointerMatches_trusting(row) == TRUE
PointerMatches(row) == pointer.gen = row.from /\ pointer.version = row.expected

Cas(c) ==
    /\ At(c, "cas")
    /\ LET j == cli[c].job  row == journal[cli[c].job]
       IN  \/ /\ row.phase # "PREPARING"
              /\ WorkOn(c, j, row.phase)
              /\ UNCHANGED slotVars
           \/ /\ row.phase = "PREPARING" /\ PointerMatches(row)
              /\ pointer' = [gen |-> row.to, prev |-> pointer.gen, version |-> pointer.version + 1]
              /\ journal' = [journal EXCEPT ![j] = [@ EXCEPT !.phase = "POINTER_UPDATED",
                                                             !.resulting = pointer.version + 1]]
              /\ WorkOn(c, j, "POINTER_UPDATED")
              /\ UNCHANGED <<slots, workers, resolved, faults>>
           \/ /\ row.phase = "PREPARING" /\ ~PointerMatches(row)
              /\ End(c)
              /\ UNCHANGED slotVars

\* observeRouter: a query answered under the new version, then a runtime
\* document that names the generation.
ObserveVersion(c) ==
    /\ At(c, "observe")
    /\ pointer.version = journal[cli[c].job].resulting
    /\ Resolvable
    /\ resolved' = pointer.version
    /\ Goto(c, "runtime")
    /\ UNCHANGED <<slots, pointer, journal, workers, faults>>

ObserveRuntime(c) ==
    /\ At(c, "runtime")
    /\ Goto(c, IF pointer.gen = journal[cli[c].job].to THEN "verify" ELSE "observe")
    /\ UNCHANGED slotVars

MarkVerified(c) ==
    /\ At(c, "verify")
    /\ LET j == cli[c].job
       IN  \/ /\ journal[j].phase = "POINTER_UPDATED"
              /\ journal' = [journal EXCEPT ![j] = [@ EXCEPT !.phase = "ROUTER_VERIFIED"]]
              /\ WorkOn(c, j, "ROUTER_VERIFIED")
           \/ /\ journal[j].phase # "POINTER_UPDATED"
              /\ End(c) /\ UNCHANGED journal
    /\ UNCHANGED <<slots, pointer, workers, resolved, faults>>

\* #finalize, one transaction: the registry follows the pointer.
CanFinalize(row) ==
    /\ row.phase = "ROUTER_VERIFIED"
    /\ \E mode \in {"PROMOTE", "ROLLBACK"} : CandidateLifecycleEligible(slots[row.to], mode)
    /\ slots[row.from].state = "SERVING"
Rotated_unprotected(row) ==
    [s \in Slots |->
        IF s = row.to THEN [slots[s] EXCEPT !.state = "SERVING", !.protection = "SERVING"]
                      ELSE [slots[s] EXCEPT !.state = "RETIRING", !.protection = "NONE"]]
Rotated(row) ==
    [s \in Slots |->
        IF s = row.to THEN [slots[s] EXCEPT !.state = "SERVING", !.protection = "SERVING"]
                      ELSE [slots[s] EXCEPT !.state = "RETIRING", !.protection = "ROLLBACK"]]

Finalize(c) ==
    /\ At(c, "finalize")
    /\ LET j == cli[c].job
       IN  IF CanFinalize(journal[j])
           THEN /\ slots' = Rotated(journal[j])
                /\ journal' = [journal EXCEPT ![j] = [@ EXCEPT !.phase = "GENERATION_FINALIZED"]]
           ELSE UNCHANGED <<slots, journal>>
    /\ End(c)
    /\ UNCHANGED <<pointer, workers, resolved, faults>>

\* The process dies (JWB_PROMOTION_CRASH_AT is one way), or ten seconds of
\* polling pass without the router converging.
Crash(c) ==
    /\ ~At(c, "idle")
    /\ Fault
    /\ End(c)
    /\ UNCHANGED <<slots, pointer, journal, workers, resolved>>

PromotionInit == cli = [c \in Commands |-> Quiet]

CliStep(c) ==
    \/ ReadPointer(c) \/ ReadPending(c) \/ CheckCompleted(c) \/ CheckPointer(c)
    \/ CheckCandidate(c) \/ InsertJournal(c) \/ Cas(c) \/ ObserveVersion(c)
    \/ ObserveRuntime(c) \/ MarkVerified(c) \/ Finalize(c)

PromotionTypeOK == cli \in [Commands -> CliRow]
==============================================================================
