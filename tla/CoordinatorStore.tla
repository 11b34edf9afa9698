-------------------------- MODULE CoordinatorStore --------------------------
(***************************************************************************)
(* The part of the Generation Coordinator that every handler shares: the   *)
(* rows of rdf_coordinator_operation, the claim a coordinator process      *)
(* takes on one of them (lease and fence), and the fenced transition that  *)
(* ends a handler.                                                         *)
(*                                                                         *)
(* A handler of GenerationCoordinatorRuntime.reconcile is a sequence of    *)
(* awaited calls.  Each call is one action here; work[c].pc names the next *)
(* call of coordinator c and work[c].mem the values it remembers from the  *)
(* calls before.  Between two calls anything may happen: the lease may run *)
(* out, another coordinator may claim the row, the process may die.        *)
(*                                                                         *)
(* Time is abstracted to live: whether lease_expires_at is in the future.  *)
(* The owner of a row is the process that claimed it; a restarted process  *)
(* has a new owner id, which is why an interrupted claim is never resumed. *)
(***************************************************************************)
EXTENDS Integers, Sequences

CONSTANTS Coordinators,  \* coordinator processes (two replicas are deployed)
          Operations,    \* operation rows, numbered in order of creation
          Generations,   \* generation ids
          None,          \* SQL NULL
          MaxFence,      \* bound on the claims taken of one operation
          MaxFaults      \* bound on the faults injected in one behaviour

ASSUME StoreAssumption ==
    /\ Operations \subseteq Nat \ {0}
    /\ None \notin Coordinators \cup Generations
    /\ MaxFence \in Nat
    /\ MaxFaults \in Nat

VARIABLES op,        \* rdf_coordinator_operation
          work,      \* what each coordinator process is doing
          faults     \* faults injected so far

storeVars == <<op, work, faults>>

ACTIVE == {"REBUILD_REQUESTED", "CREATING_GENERATION", "LOADING_SNAPSHOT",
           "WAITING_FOR_CATCHUP", "VALIDATING", "READY_TO_PROMOTE",
           "PROMOTING", "PROMOTED", "RETIRING_OLD", "CLEANING_UP",
           "RETIREMENT_WAITING_ELIGIBILITY"}

STATES == ACTIVE \cup {"ROLLBACK_PROTECTED", "COMPLETED", "FAILED", "AMBIGUOUS"}

Operation == [state : STATES, candidate : Generations,
              owner : Coordinators \cup {None}, live : BOOLEAN, fence : Nat]

\* A freshly inserted or just released row in state s for candidate g.
Unclaimed(s, g) ==
    [state |-> s, candidate |-> g, owner |-> None, live |-> FALSE, fence |-> 0]

Idle == [pc |-> "idle", op |-> 0, fence |-> 0, mem |-> <<>>]

-----------------------------------------------------------------------------
\* Helpers on a coordinator's work.

\* mem is a tuple: what the handler keeps in its local variables.

At(c, pc) == work[c].pc = pc
Goto(c, pc, mem) ==
    work' = [work EXCEPT ![c] = [pc |-> pc, op |-> @.op, fence |-> @.fence, mem |-> mem]]

\* The handler ends: it returned, or it threw and run() logged the error.
\* Only a transition releases the claim; a throw leaves it to expire.
Stop(c) == work' = [work EXCEPT ![c] = Idle]

Candidate(c) == op[work[c].op].candidate

\* Some process is still working under the current claim of o.
Attended(o) == \E c \in Coordinators : /\ work[c].pc # "idle"
                                       /\ work[c].op = o
                                       /\ work[c].fence = op[o].fence

-----------------------------------------------------------------------------
\* claimNext: the oldest active row whose lease is null or expired.

\* Mutant: only rows nobody has claimed are picked up, never expired ones.
Claimable_Unowned == {o \in Operations : /\ op[o].state \in ACTIVE
                                         /\ op[o].owner = None
                                         /\ op[o].fence < MaxFence}
Claimable == {o \in Operations : /\ op[o].state \in ACTIVE
                                 /\ ~op[o].live
                                 /\ op[o].fence < MaxFence}

\* Mutant: a takeover reuses the fence of the claim it replaces.
NextFence_Reused(o) == IF op[o].owner = None THEN op[o].fence + 1 ELSE op[o].fence
NextFence(o) == op[o].fence + 1

ClaimNext(c) ==
    /\ At(c, "idle")
    /\ \E o \in Claimable :
        /\ \A p \in Claimable : o <= p
        /\ op' = [op EXCEPT ![o] = [@ EXCEPT !.owner = c, !.live = TRUE,
                                             !.fence = NextFence(o)]]
        /\ work' = [work EXCEPT ![c] = [pc |-> op[o].state, op |-> o,
                                        fence |-> NextFence(o), mem |-> <<>>]]
    /\ UNCHANGED faults

-----------------------------------------------------------------------------
\* transition: guarded by owner, fence, prior state and an unexpired lease;
\* it releases the claim.  Otherwise COORDINATOR_FENCE_CONFLICT is thrown.

Holds(c) == LET o == work[c].op IN
    /\ op[o].owner = c
    /\ op[o].fence = work[c].fence
    /\ op[o].live

Transition(c, from, to) ==
    /\ op' = IF Holds(c) /\ op[work[c].op].state = from
             THEN [op EXCEPT ![work[c].op] = [@ EXCEPT !.state = to, !.owner = None,
                                                       !.live = FALSE]]
             ELSE op
    /\ Stop(c)
    /\ UNCHANGED faults

-----------------------------------------------------------------------------
\* Time and failure.

\* The lease of a claim nobody works under any more runs out.
LeaseRunsOut(o) ==
    /\ op[o].live
    /\ ~Attended(o)
    /\ op' = [op EXCEPT ![o].live = FALSE]
    /\ UNCHANGED <<work, faults>>

\* A handler is slower than its lease (15 s by default).
LeaseOutlived(o) ==
    /\ op[o].live
    /\ Attended(o)
    /\ faults < MaxFaults
    /\ op' = [op EXCEPT ![o].live = FALSE]
    /\ faults' = faults + 1
    /\ UNCHANGED work

\* The process dies, or an awaited call rejects: for the store both are the
\* same, the handler's memory is gone and the claim stays.
Interrupt(c) ==
    /\ ~At(c, "idle")
    /\ faults < MaxFaults
    /\ Stop(c)
    /\ faults' = faults + 1
    /\ UNCHANGED op

=============================================================================
