--------------------------- MODULE StandaloneSlots ---------------------------
(***************************************************************************)
(* The durable state of the standalone product (ADR-0037): two fixed       *)
(* generation slots, one serving pointer, the promotion journal, the two   *)
(* sync workers that keep the slots current, and what the query router     *)
(* has resolved.  StandalonePromotion and StandaloneRebuild are the two    *)
(* programs that write it.                                                 *)
(*                                                                         *)
(* sync abstracts rdf_generation_sync and its distance to the ingestion    *)
(* cursor: CURRENT is state and schema_state CURRENT with a cursor at the   *)
(* head, BEHIND a cursor below it.  store is the physical dataset: PARTIAL *)
(* from resetDataset until the last graph of the dump is written.          *)
(***************************************************************************)
EXTENDS Naturals, Sequences, FiniteSets, SequencesExt

CONSTANTS None,         \* no generation
          MaxFaults     \* crashes, unconverged routers and failed commands

ASSUME SlotsAssumption == MaxFaults \in Nat

VARIABLES slots,     \* rdf_generation joined with its sync row and its store
          pointer,   \* rdf_serving_pointer
          journal,   \* rdf_generation_promotion in created_at order
          workers,   \* is the slot's sync worker running?
          resolved,  \* pointer version whose target the router has cached
          faults

slotVars == <<slots, pointer, journal, workers, resolved, faults>>

Slots == {"gen-a", "gen-b"}
Other(s) == IF s = "gen-a" THEN "gen-b" ELSE "gen-a"

Phases == {"PREPARING", "POINTER_UPDATED", "ROUTER_VERIFIED", "GENERATION_FINALIZED"}
SlotRow == [state : {"LOADING", "CATCHING_UP", "READY", "SERVING", "RETIRING", "FAILED"},
            protection : {"NONE", "SERVING", "ROLLBACK"},
            validation : {"PENDING", "VALID", "INVALID"},
            sync : {"BOOTSTRAPPING", "BEHIND", "CURRENT"},
            store : {"WHOLE", "PARTIAL"}]
Pointer == [gen : Slots, prev : Slots \cup {None}, version : Nat]
JournalRow == [from : Slots, to : Slots, phase : Phases, expected : Nat, resulting : Nat]

SlotsTypeOK ==
    /\ slots \in [Slots -> SlotRow]
    /\ pointer \in Pointer
    /\ journal \in Seq(JournalRow)
    /\ workers \in [Slots -> BOOLEAN]
    /\ resolved \in Nat
    /\ faults \in 0..MaxFaults

\* bootstrapStandaloneJwb: both slots are registered VALID before either
\* holds anything; the workers fill the stores of an empty wiki.
Bootstrapped_unfinished(state, protection) ==
    [state |-> "CREATING", protection |-> protection, validation |-> "VALID",
     sync |-> "BOOTSTRAPPING", store |-> "WHOLE"]
Bootstrapped(state, protection) ==
    [state |-> state, protection |-> protection, validation |-> "VALID",
     sync |-> "BOOTSTRAPPING", store |-> "WHOLE"]

SlotsInit ==
    /\ slots = [s \in Slots |-> IF s = "gen-a" THEN Bootstrapped("SERVING", "SERVING")
                                               ELSE Bootstrapped("READY", "NONE")]
    /\ pointer = [gen |-> "gen-a", prev |-> None, version |-> 1]
    /\ journal = << >>
    /\ workers = [s \in Slots |-> TRUE]
    /\ resolved = 0
    /\ faults = 0

-----------------------------------------------------------------------------
\* The source reader takes a change in: no cursor is at the head any more.
Ingest ==
    /\ slots' = [s \in Slots |-> [slots[s] EXCEPT !.sync = IF @ = "CURRENT" THEN "BEHIND" ELSE @]]
    /\ UNCHANGED <<pointer, journal, workers, resolved, faults>>

\* A running worker reaches the head.
CatchUp(s) ==
    /\ workers[s]
    /\ slots[s].sync # "CURRENT"
    /\ slots' = [slots EXCEPT ![s] = [@ EXCEPT !.sync = "CURRENT"]]
    /\ UNCHANGED <<pointer, journal, workers, resolved, faults>>

\* `jwb:start` brings every stopped service up.
StartProduct ==
    /\ \E s \in Slots : ~workers[s]
    /\ workers' = [s \in Slots |-> TRUE]
    /\ UNCHANGED <<slots, pointer, journal, resolved, faults>>

\* The lifecycles the resolver agrees to route to.
RoutableLifecycle(row) ==
    <<row.state, row.protection>> \in {<<"READY", "NONE">>, <<"SERVING", "SERVING">>,
                                        <<"RETIRING", "ROLLBACK">>}

\* A query goes through: the cache, keyed by the pointer's version, is not
\* checked against the registry again.
Resolvable == resolved = pointer.version \/ RoutableLifecycle(slots[pointer.gen])

Query ==
    /\ Resolvable
    /\ resolved # pointer.version
    /\ resolved' = pointer.version
    /\ UNCHANGED <<slots, pointer, journal, workers, faults>>

SlotsStep == Ingest \/ StartProduct \/ Query \/ \E s \in Slots : CatchUp(s)

-----------------------------------------------------------------------------
Unfinished == {j \in 1..Len(journal) : journal[j].phase # "GENERATION_FINALIZED"}
Cut == {j \in 1..Len(journal) : journal[j].phase # "PREPARING"}
Fault == faults < MaxFaults /\ faults' = faults + 1
==============================================================================
