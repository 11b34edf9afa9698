------------------------ MODULE RebuildQualification ------------------------
(***************************************************************************)
(* jwb-m8-qualification: two stores, a pointer in memory and the query     *)
(* router.  gen-a is loaded from a first dump and serves; gen-b is loaded  *)
(* from it too while the script edits the wiki (the load is started and    *)
(* awaited only after the edits), then from a second dump, compared with   *)
(* it, promoted, restarted and rolled back.  dumpRdf runs synchronously:   *)
(* the script does not edit meanwhile.  A failure leads to the finally,    *)
(* which removes both stores, a load in flight or not.                     *)
(***************************************************************************)
EXTENDS DatasetGeneration

VARIABLES qual,     \* where the script is, its dumps and its pointer
          physical  \* the two stores

qualVars == <<qual, physical>>

Stores == {"a", "b"}
M8Graph == <<"dataset", "urn:jwb:m8:dataset">>
RemovedStore == [up |-> FALSE, db |-> EmptyStore]
EditOrder == <<"subject", "property", "statement", "delete", "undelete">>

QualAt(pc) == qual.pc = pc
QualGoes(pc) == qual' = [qual EXCEPT !.pc = pc]

\* physical(): Virtuoso has a graph for the dataset, the others use the default graph.
StoreClient(store) ==
    Initialize(Client(Profiles[qual.type[store]],
                      IF qual.type[store] = "virtuoso" THEN M8Graph ELSE NoGraph, NoPassword),
               <<"m8", store>>)

Fill(store, data) == physical' = [physical EXCEPT ![store].db = data]

\* equality: the store's export and the dump without their blank-node lines, in
\* one spelling of the numbers (canonicalizeNTriples, equalityProjection).
EqualityProjection(rdf) == {t \in NormalizeLiterals(rdf) : ~IsBlank(t[1]) /\ ~IsBlank(t[3])}

EqualTo(store, dump) ==
    EqualityProjection(ExportDataset(physical[store].db, StoreClient(store), {})) = EqualityProjection(dump)

\* The router answers from the store that the pointer names.
RoutedStore == IF qual.pointer.gen = "gen-a" THEN "a" ELSE "b"
RouterAnswers == LogicalDataset(physical[RoutedStore].db, StoreClient(RoutedStore))

-----------------------------------------------------------------------------
\* backend.rebuild: reset, then put, on either store.
ResetStoreOf(store) ==
    /\ MayReset(StoreClient(store), ResetToken(StoreClient(store)), NoPassword)
    /\ Fill(store, Reset(physical[store].db, StoreClient(store)))

PutStore(store, dump) ==
    /\ MayPut(StoreClient(store), NoPassword)
    /\ Fill(store, PutGraph(physical[store].db, DatasetTarget(StoreClient(store)), dump))

DumpFirst ==
    /\ QualAt("dump")
    /\ qual' = [qual EXCEPT !.pc = "up", !.c0 = Dump(Found(Entities))]
    /\ UNCHANGED physical

StartStores ==
    /\ QualAt("up")
    /\ physical' = [s \in Stores |-> [RemovedStore EXCEPT !.up = TRUE]]
    /\ QualGoes("resetA")

LoadServing ==
    \/ QualAt("resetA") /\ ResetStoreOf("a") /\ QualGoes("putA")
    \/ QualAt("putA") /\ PutStore("a", qual.c0) /\ QualGoes("compareA")

CompareServing ==
    /\ QualAt("compareA") /\ EqualTo("a", qual.c0)
    /\ qual' = [qual EXCEPT !.pc = "edit", !.load = "reset"]
    /\ UNCHANGED physical

\* The load of the candidate, in flight.
CandidateLoad ==
    \/ qual.load = "reset" /\ ResetStoreOf("b") /\ qual' = [qual EXCEPT !.load = "put"]
    \/ qual.load = "put" /\ PutStore("b", qual.c0) /\ qual' = [qual EXCEPT !.load = "done"]

\* realEdits, one request after the other.
M8Edit(what) ==
    \/ what = "subject" /\ \E e \in Entities \ Properties : EditTo(e, contents[pages[e].rev])
    \/ what = "property" /\ \E p \in Properties : EditTo(p, contents[pages[p].rev])
    \/ what = "statement" /\ \E e \in Entities \ Properties : \E claims \in Contents \ {{}} : EditTo(e, claims)
    \/ what \in {"delete", "undelete"}
       /\ \E e \in Entities \ Properties :
              \/ what = "delete" /\ DeletePage(e)
              \/ what = "undelete" /\ UndeletePage(e)
       /\ UNCHANGED contents

RealEdits ==
    /\ QualAt("edit") /\ qual.edits # <<>>
    /\ M8Edit(Head(qual.edits))
    /\ qual' = [qual EXCEPT !.edits = Tail(@)]
    /\ UNCHANGED <<gen, db, job, verdict, physical>>

\* Mutant: the load is not awaited.
DumpSecond_Unawaited ==
    /\ QualAt("edit") /\ qual.edits = <<>>
    /\ qual' = [qual EXCEPT !.pc = "resetB", !.c1 = Dump(Found(Entities))]
    /\ UNCHANGED physical

\* await snapshotLoad, then the dump of the wiki as it is now.
DumpSecond ==
    /\ QualAt("edit") /\ qual.edits = <<>> /\ qual.load = "done"
    /\ qual' = [qual EXCEPT !.pc = "resetB", !.c1 = Dump(Found(Entities))]
    /\ UNCHANGED physical

LoadCandidate ==
    \/ QualAt("resetB") /\ ResetStoreOf("b") /\ QualGoes("putB")
    \/ QualAt("putB") /\ PutStore("b", qual.c1) /\ QualGoes("compareB")

CompareCandidate ==
    /\ QualAt("compareB") /\ EqualTo("b", qual.c1)
    /\ QualGoes("promote")
    /\ UNCHANGED physical

\* Pointer.cas of the script itself.
Cas(version, from, to) ==
    /\ qual.pointer.version = version /\ qual.pointer.gen = from
    /\ qual' = [qual EXCEPT !.pc = IF to = "gen-b" THEN "restart" ELSE "down",
                            !.pointer = [gen |-> to, previous |-> from, version |-> version + 1]]
    /\ UNCHANGED physical

PromoteCandidate == QualAt("promote") /\ Cas(1, "gen-a", "gen-b")

\* The store is restarted and keeps its volume.
RestartCandidate ==
    /\ QualAt("restart")
    /\ QualGoes("rollback")
    /\ UNCHANGED physical

RollBack == QualAt("rollback") /\ Cas(2, "gen-b", "gen-a")

\* finally: both stores are removed with their volumes, errors ignored.
QualificationFails ==
    /\ qual.pc \notin {"down", "none"}
    /\ QualGoes("down")
    /\ UNCHANGED physical

RemoveStores ==
    /\ QualAt("down")
    /\ physical' \in {[physical EXCEPT !["a"] = RemovedStore, !["b"] = RemovedStore],
                      [physical EXCEPT !["a"] = RemovedStore], [physical EXCEPT !["b"] = RemovedStore], physical}
    /\ qual' = [qual EXCEPT !.pc = "none", !.load = "done"]

\* The load is rejected while nothing awaits it: the process ends, without its
\* finally, and leaves both stores.
LoadRejected ==
    /\ QualAt("edit") /\ qual.load \in {"reset", "put"}
    /\ qual' = [qual EXCEPT !.pc = "none", !.load = "done"]
    /\ UNCHANGED physical

-----------------------------------------------------------------------------
QualInit ==
    /\ qual \in [pc : {"dump"}, load : {"none"}, edits : {EditOrder}, c0 : {{}}, c1 : {{}},
                 pointer : {[gen |-> "gen-a", previous |-> "none", version |-> 1]},
                 type : [Stores -> {"virtuoso", "oxigraph"}]]
    /\ physical = [s \in Stores |-> RemovedStore]

ScriptStep ==
    \/ DumpFirst \/ StartStores \/ LoadServing \/ CompareServing \/ DumpSecond \/ LoadCandidate
    \/ CompareCandidate \/ PromoteCandidate \/ RestartCandidate \/ RollBack \/ QualificationFails
    \/ LoadRejected \/ RemoveStores

QualNext ==
    \/ (ScriptStep \/ CandidateLoad) /\ UNCHANGED datasetVars
    \/ RealEdits

-----------------------------------------------------------------------------
\* What is promoted is a whole copy of the wiki, blank nodes included, though
\* they are not compared; until then and after the rollback the answers are the
\* whole first dump (rollbackFreshness: stale-but-complete-at-c0).
ServesWholeDataset ==
    /\ qual.pc \in {"restart", "rollback"} => RouterAnswers = Stored(Dump(Found(Entities)))
    /\ qual.pc \in {"edit", "resetB", "putB", "compareB", "promote"} => RouterAnswers = Stored(qual.c0)
    /\ QualAt("down") /\ qual.pointer.version = 3 => RouterAnswers = Stored(qual.c0)

=============================================================================
