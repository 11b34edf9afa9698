----------------------------- MODULE MCDataset -----------------------------
(***************************************************************************)
(* The bounded instance of the parts that handle RDF documents and stores, *)
(* and of the tools around them.  They share operators and no state, so a  *)
(* behaviour is one of one part, chosen at the start; the others keep      *)
(* their initial values.                                                   *)
(***************************************************************************)
EXTENDS DatasetInventory, CanonicalComparison, BackendConformance, ProductInstance,
        RebuildQualification, SchemaMigrations

CONSTANTS q1, p1, v1

\* A number; the Item and the Property.
MCAmount == [kind |-> "amount", of |-> v1]
MCEntity(e) == [kind |-> "item", of |-> e]
MCTwoEntities == {MCEntity(q1), MCEntity(p1)}
MCContents == {{MCAmount}, MCTwoEntities}
\* Two spellings of a label and its continuation.
MCLongerLabels == {<<Blank("graph", "b10"), Blank("graph", "b1"), "0">>}
MCProductBackends == <<"none", "virtuoso">>
MCSnapshot == {Label(q1, 1), <<Entity(q1), "direct", Decimal(v1, "export")>>}
MCUpdateGraph == <<"update", "urn:jwb:m2:update">>
\* A release, its successor, and one that altered a file of theirs.
MCImages == {<<"a", "b">>, <<"a", "b", "c">>, <<"x", "b", "c">>}

VARIABLE part

Init ==
    /\ part \in {"dataset", "inventory", "comparison", "conformance", "product", "qualification",
                 "migrations"}
    /\ DatasetInit
    /\ part \notin {"dataset", "inventory", "qualification"} => \A r \in DOMAIN contents : contents[r] = {MCAmount}
    /\ part = "dataset" => \A r \in DOMAIN contents :
           contents[r] = IF revisions[r] = q1 THEN MCTwoEntities ELSE {MCAmount}
    /\ IF part = "comparison" THEN ComparisonInit ELSE left = {} /\ right = {} /\ outcome = "NONE"
    /\ QualInit
    /\ part # "qualification" => \A s \in Stores : qual.type[s] = "oxigraph"
    /\ InventoryInit /\ ConformanceInit /\ ProductInit /\ MigrationInit

Next ==
    /\ UNCHANGED part
    /\ \/ /\ part = "dataset" /\ DatasetNext
          /\ UNCHANGED <<inventoryVars, comparisonVars, conformanceVars, productVars, qualVars, migrationVars>>
       \/ /\ part = "inventory" /\ InventoryNext
          /\ UNCHANGED <<comparisonVars, conformanceVars, productVars, qualVars, migrationVars>>
       \/ /\ part = "comparison" /\ DiffGraphs
          /\ UNCHANGED <<datasetVars, inventoryVars, conformanceVars, productVars, qualVars, migrationVars>>
       \/ /\ part = "conformance" /\ ConformanceNext
          /\ UNCHANGED <<datasetVars, inventoryVars, comparisonVars, productVars, qualVars, migrationVars>>
       \/ /\ part = "product" /\ ProductNext
          /\ UNCHANGED <<datasetVars, inventoryVars, comparisonVars, conformanceVars, qualVars, migrationVars>>
       \/ /\ part = "qualification" /\ QualNext
          /\ UNCHANGED <<inventoryVars, comparisonVars, conformanceVars, productVars, migrationVars>>
       \/ /\ part = "migrations" /\ MigrationNext
          /\ UNCHANGED <<datasetVars, inventoryVars, comparisonVars, conformanceVars, productVars, qualVars>>

allVars == <<part, datasetVars, inventoryVars, comparisonVars, conformanceVars, productVars,
             qualVars, migrationVars>>

Spec == Init /\ [][Next]_allVars

\* The generation holds what the wiki has, whichever of its two exports filled
\* it, the comparisons that accept it or list the exports' differences say so,
\* and so does the router after a rebuild while the wiki is edited (ADR-0030,
\* ADR-0031, jwb-m8-qualification).
DatasetFollowsWiki ==
    GraphsFollowWiki /\ RefusedForAReason /\ DifferencesAreProvenance /\ ServesWholeDataset

\* Two graphs have one canonical form exactly when they are isomorphic, among
\* the graphs whose text the code reads as it is meant (diffCanonicalRdfGraphs).
CanonicalMeansIsomorphic == ComparisonIsIsomorphism

\* What a store or an instance left behind belongs to the files and passwords it
\* is used with, unless a kill or a replaced profile came between.
VolumesHaveTheirSecrets ==
    VolumesFitFiles /\ QualifiesFreshInstance /\ RefusedAfterKill /\ RebuiltIsSnapshot

=============================================================================
