------------------------ MODULE PromotionRefinement ------------------------
(***************************************************************************)
(* GenerationPromotion implements ServingCutover: coordinators that race,  *)
(* lose their leases and leave duplicate journals behind look, through the *)
(* pointer and the registry, like an orderly sequence of cutovers.         *)
(***************************************************************************)
EXTENDS GenerationPromotion

\* Cutovers the registry has not recorded.
HalfWay == {j \in Rows : Cut(j) /\ Incomplete(j)}

KeptForRollback == {g \in Generations : generation[g].protection = "ROLLBACK"}

Cutover == INSTANCE ServingCutover WITH
    current  <- pointer.generation,
    version  <- pointer.version,
    pending  <- {<<journal[j].resulting, journal[j].to>> : j \in HalfWay},
    settled  <- CHOOSE g \in Generations : generation[g].state = "SERVING",
    rollback <- IF KeptForRollback = {} THEN None ELSE CHOOSE g \in KeptForRollback : TRUE,
    fresh    <- {g \in Generations \ {InitialServing} :
                    \A j \in Rows : Cut(j) => journal[j].to # g}

\* Every behaviour of the promotion handlers is, seen from the serving pointer
\* and the registry, a behaviour of ServingCutover (casPointer is Switch,
\* finalizePromotion is Settle, releaseRollbackProtection is Release).
ImplementsCutover == Cutover!Spec
=============================================================================
