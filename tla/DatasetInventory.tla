-------------------------- MODULE DatasetInventory --------------------------
(***************************************************************************)
(* jwb-m9c-inventory: two dumps of one wiki are compared with each other   *)
(* and the second with the EntityData of every entity, as they are and     *)
(* after normalization; each difference is given a treatment.  The wiki is *)
(* taken to be unchanged meanwhile, which nothing checks.                  *)
(***************************************************************************)
EXTENDS DatasetGeneration

VARIABLE inventory

inventoryVars == <<inventory>>

InventoryAt(pc) == inventory.pc = pc
Unchanged == inventory.began = lastRcid

\* Graphs of the first dataset, and those of the second that it lacks.
Overlay(dataset, other) ==
    [n \in DOMAIN dataset \cup DOMAIN other |->
        IF n \in DOMAIN dataset THEN dataset[n] ELSE other[n]]

\* dump(): the second one runs 1.2 s after the first.
FirstDump ==
    /\ InventoryAt("first")
    /\ LET d1 == FullDump(Found(Entities), "earlier")
       IN  inventory' = [inventory EXCEPT !.pc = "second", !.first = d1, !.began = lastRcid]

SecondDump ==
    /\ InventoryAt("second")
    /\ inventory' = [inventory EXCEPT !.pc = "entities",
                                      !.second = FullDump(Found(Entities), "later"),
                                      !.left = DiscoverEntities(inventory.first)]

\* Special:EntityData/<id>.nt without a revision: the latest one; a page that is
\* gone ends the script.
FetchEntity ==
    /\ InventoryAt("entities") /\ inventory.left # {}
    /\ LET e == CHOOSE x \in inventory.left : TRUE
           body == EntityData(e, pages[e].rev, contents[pages[e].rev],
                              [f \in DOMAIN Found(Entities) |-> pages[f].rev])
           normal == NormalizeWikibaseRdf(body)
       IN  IF pages[e].exists /\ ~UnknownMetadata(body, "ENTITY_DATA")
           THEN inventory' = [inventory EXCEPT
                                 !.left = @ \ {e},
                                 !.raw = Overlay(PartitionEntity(body, e), @),
                                 !.normal = Overlay(PartitionEntity(normal, e), @)]
           ELSE inventory' = [inventory EXCEPT !.pc = "failed"]

-----------------------------------------------------------------------------

\* proposed(predicate, subject)
Proposed(line) ==
    IF line[1] = DumpNode \/ (line[1][1] = "page" /\ line[2] \in EntityExportPredicates)
    THEN "MOVE_TO_GENERATION_MANIFEST" ELSE "REJECT_UNKNOWN"

SubjectType(line) ==
    CASE line[1][1] = "page" -> "entity-export"
      [] line[1] = DumpNode -> "dump-export"
      [] line[1][1] \in {"entity", "statement"} -> "wikibase-entity"
      [] OTHER -> "other"

ClassifyLines(lines, source) ==
    {[evidence |-> t, predicate |-> t[2], subjectType |-> SubjectType(t), source |-> source,
      treatment |-> Proposed(t)] : t \in lines}

\* How many differences each category has.
Summarize(values) ==
    LET category(v) == [v EXCEPT !.evidence = "any"]
    IN  [c \in {category(v) : v \in values} |-> Cardinality({v \in values : category(v) = c})]

InventoryOf(d1, d2, raw) ==
    LET full2 == Quads(PartitionSnapshot(d2))
        repeated == Diff(Quads(PartitionSnapshot(d1)), full2)
        sources == Diff(full2, Quads(raw))
    IN  ClassifyLines(repeated.canonicalOnly, "FULL_D1_ONLY")
        \cup ClassifyLines(repeated.generationOnly, "FULL_D2_ONLY")
        \cup ClassifyLines(sources.canonicalOnly, "FULL_DUMP_ONLY")
        \cup ClassifyLines(sources.generationOnly, "ENTITY_DATA_ONLY")

\* The global graph of the second dump is added to the EntityData side.
NormalizedDifferences(d1, d2, normal) ==
    LET n1 == PartitionSnapshot(NormalizeWikibaseRdf(d1))
        n2 == PartitionSnapshot(NormalizeWikibaseRdf(d2))
        global == [n \in {GlobalGraphName} |-> n2[n]]
        repeated == Diff(Quads(n1), Quads(n2))
        convergence == Diff(Quads(n2), Quads(Overlay(global, normal)))
    IN  UNION {repeated.canonicalOnly, repeated.generationOnly,
               convergence.canonicalOnly, convergence.generationOnly}

WriteInventory ==
    /\ InventoryAt("entities") /\ inventory.left = {}
    /\ inventory' = [inventory EXCEPT
                        !.pc = "done",
                        !.categories = Summarize(InventoryOf(inventory.first, inventory.second, inventory.raw)),
                        !.normalized = NormalizedDifferences(inventory.first, inventory.second,
                                                             inventory.normal)]

InventoryInit ==
    inventory = [pc |-> "first", began |-> 0, first |-> {}, second |-> {}, left |-> {},
                 raw |-> << >>, normal |-> << >>, categories |-> << >>, normalized |-> {}]

InventoryNext ==
    \/ (FirstDump \/ SecondDump \/ FetchEntity \/ WriteInventory) /\ UNCHANGED datasetVars
    \/ /\ inventory.pc \in {"second", "entities"} /\ Unchanged   \* one change is enough
       /\ WikiChanges /\ UNCHANGED inventory

\* When the wiki did not change, what the exports of it differ in is their
\* provenance and nothing is left of it after normalization.
DifferencesAreProvenance ==
    (InventoryAt("done") /\ Unchanged /\ ~(\E p \in Properties : PointsAtEntity(p))) =>
        /\ \A c \in DOMAIN inventory.categories : c.treatment = "MOVE_TO_GENERATION_MANIFEST"
        /\ inventory.normalized = {}

=============================================================================
