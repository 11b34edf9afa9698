----------------------------- MODULE GraphStore -----------------------------
(***************************************************************************)
(* SparqlHttpBackend and the SPARQL store behind it.  A store maps graph   *)
(* names to sets of triples; a client is the adapter object one process    *)
(* made: the profile it was configured with, the instance it was           *)
(* initialized for, and the one graph it treats as its dataset, if any.    *)
(*                                                                         *)
(* Each operator is one HTTP request.  replaceDataset and rebuild are two  *)
(* of them, and stay two steps of whoever calls them.                      *)
(***************************************************************************)
EXTENDS RdfDataset

BackendTypes == {"virtuoso", "fuseki-tdb2", "blazegraph-wdqs", "oxigraph", "qlever"}

CapabilityNames ==
    {"sparql11Query", "sparql11Update", "namedGraphs", "transactionalUpdate", "graphStoreProtocol",
     "serviceFederation", "fullTextSearch", "geoSparql", "wikibaseLabelService",
     "isolatedGenerations", "atomicServingCutover", "rollbackCutover", "generationDelete",
     "generationQuery"}

\* RDF_BACKEND_PROFILES: what each supported store is taken to be able to do.
BaseCapabilities == {"sparql11Query", "sparql11Update", "namedGraphs", "graphStoreProtocol"}

Profiles ==
    [fuseki     |-> [type |-> "fuseki-tdb2",
                     able |-> BaseCapabilities \cup {"transactionalUpdate", "serviceFederation"}],
     oxigraph   |-> [type |-> "oxigraph",
                     able |-> BaseCapabilities \cup {"transactionalUpdate", "serviceFederation"}],
     virtuoso   |-> [type |-> "virtuoso",
                     able |-> BaseCapabilities \cup {"serviceFederation", "fullTextSearch"}],
     blazegraph |-> [type |-> "blazegraph-wdqs",
                     able |-> (BaseCapabilities \ {"graphStoreProtocol"}) \cup {"wikibaseLabelService"}]]

\* validateRdfBackendMetadata
ValidMetadata(profile) == profile.type \in BackendTypes /\ profile.able \subseteq CapabilityNames

-----------------------------------------------------------------------------
EmptyStore == << >>
NoGraph == <<"none", "">>                 \* no dataset graph configured
DefaultGraph == <<"default", "">>

GraphOf(db, name) == IF name \in DOMAIN db THEN db[name] ELSE {}

\* External: the store keeps blank nodes and numbers in forms of its own.
StoredNode(n) ==
    CASE n[1] = "blank"   -> Blank("store", n[3])
      [] n[1] = "decimal" -> Decimal(n[2], "store")
      [] n[1] \notin {"blank", "decimal"} -> n

Stored(rdf) == {<<StoredNode(t[1]), t[2], StoredNode(t[3])>> : t \in rdf}

-----------------------------------------------------------------------------
\* The adapter.  A client starts without an instance; initialize gives it one.

NoInstance == <<"none", "">>              \* not initialized
Client(profile, dataset, password) ==
    [profile |-> profile, dataset |-> dataset, password |-> password, instance |-> NoInstance]

Initialize(client, instance) == [client EXCEPT !.instance = instance]

Able(client, capability) == capability \in client.profile.able
ResetToken(client) == <<"reset", client.instance>>

\* query takes no password, every write does (digest, when the store has one).
NoPassword == 0
Authorized(client, password) == password \in {NoPassword, client.password}

MayPut(client, password) == Able(client, "graphStoreProtocol") /\ Authorized(client, password)

\* reset is refused to an uninitialized client and for any other token.
MayReset(client, token, password) ==
    /\ client.instance # NoInstance
    /\ token = ResetToken(client)
    /\ Able(client, IF client.dataset = NoGraph THEN "sparql11Update" ELSE "graphStoreProtocol")
    /\ Authorized(client, password)

PutGraph(db, name, rdf) ==
    [n \in DOMAIN db \cup {name} |-> IF n = name THEN Stored(rdf) ELSE db[n]]

\* A graph that is not there (404) is deleted just the same.
DeleteNamedGraph(db, name) == [n \in DOMAIN db \ {name} |-> db[n]]

\* DELETE of the dataset graph when there is one, else CLEAR ALL.
Reset(db, client) ==
    IF client.dataset = NoGraph THEN EmptyStore ELSE DeleteNamedGraph(db, client.dataset)

\* Where loadSnapshot, replaceDataset and rebuild put a whole dataset.
DatasetTarget(client) == IF client.dataset = NoGraph THEN DefaultGraph ELSE client.dataset

\* What a query without FROM sees, and so what exportDataset without a list exports.
LogicalDataset(db, client) == GraphOf(db, DatasetTarget(client))

\* exportDataset: the logical dataset, or the union of a list of graphs.
MayExport(names) == Cardinality(names) <= 10000
ExportDataset(db, client, names) ==
    IF names = {} THEN LogicalDataset(db, client) ELSE UNION {GraphOf(db, n) : n \in names}

=============================================================================
