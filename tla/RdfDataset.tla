----------------------------- MODULE RdfDataset -----------------------------
(***************************************************************************)
(* Wikibase RDF as the code reads and splits it: the exports of the wiki   *)
(* (external), the normalization that drops export provenance, and the     *)
(* partition of a full dump or of one EntityData response into the named   *)
(* graphs of a generation.                                                 *)
(*                                                                         *)
(* A triple is <<subject, predicate, object>>.  A node is a tuple that     *)
(* starts with its kind; the kinds are the IRI shapes the code's regular   *)
(* expressions tell apart.  A document is a set of triples: every reader   *)
(* sorts the lines and drops repeated ones.                                *)
(***************************************************************************)
EXTENDS Integers, FiniteSets, Sequences

CONSTANTS PropertyIds   \* the entity ids that start with P

Entity(e)         == <<"entity", e>>                  \* .../entity/Q1
EntityDocument(e) == <<"page", e>>                    \* .../wiki/Special:EntityData/Q1
Statement(e, k)   == <<"statement", e, k>>            \* .../entity/statement/...
Value(v)        == <<"value", v>>                   \* .../value/<hash>, shared by its users
ValueProp(p)    == <<"value", p, "prop/statement">> \* .../prop/statement/value/P1
Direct(p)       == <<"direct", p>>                  \* .../prop/direct/P1
NoValue(p)      == <<"novalue", p>>                 \* .../prop/novalue/P1
Blank(doc, p)   == <<"blank", doc, p>>              \* a label local to its document
Decimal(v, spelling) == <<"decimal", v, spelling>>  \* "1" and "+1.0" are one number
Literal(kind, x)     == <<"literal", kind, x>>
DumpNode        == <<"dump", "wikiba.se/ontology#Dump">>

EntityGraphName(e) == <<"entity", e>>               \* urn:jwb:entity:Q1
SchemaGraphName(p) == <<"schema", p>>               \* urn:jwb:schema:P1
GlobalGraphName    == <<"global", "urn:jwb:global">>

-----------------------------------------------------------------------------
\* External: what Wikibase exports for revision r of entity e.  A claim is an
\* amount (with a value node) or an entity, an Item or a Property.

Claims(Things, Amounts) == [kind : {"item"}, of : Things] \cup [kind : {"amount"}, of : Amounts]

StatementLines(e, k) ==
    {<<Entity(e), "p", Statement(e, k)>>}
    \cup IF k.kind = "item"
         THEN {<<Entity(e), "direct", Entity(k.of)>>, <<Statement(e, k), "ps", Entity(k.of)>>}
         ELSE {<<Entity(e), "direct", Decimal(k.of, "export")>>,
               <<Statement(e, k), "psv", Value(k.of)>>,
               <<Value(k.of), "amount", Decimal(k.of, "export")>>}

SchemaLines(doc, p) ==
    {<<Entity(p), "directClaim", Direct(p)>>, <<Direct(p), "type", Literal("iri", "Property")>>,
     <<Entity(p), "statementValue", ValueProp(p)>>,
     <<ValueProp(p), "type", Literal("iri", "Property")>>,
     <<Entity(p), "novalue", NoValue(p)>>, <<NoValue(p), "complementOf", Blank(doc, p)>>,
     <<Blank(doc, p), "onProperty", Direct(p)>>}

Label(e, r) == <<Entity(e), "label", Literal("text", r)>>

EntityLines(doc, e, r, claims) ==
    {<<EntityDocument(e), "about", Entity(e)>>, <<EntityDocument(e), "version", Literal("integer", r)>>, Label(e, r)}
    \cup (UNION {StatementLines(e, k) : k \in claims})
    \cup IF e \in PropertyIds THEN SchemaLines(doc, e) ELSE {}

\* A full dump; found[e] is [rev, claims] for each entity that was dumped.
FullDump(found, time) ==
    {<<DumpNode, "type", Literal("iri", "Dataset")>>, <<DumpNode, "license", Literal("iri", "cc0")>>,
     <<DumpNode, "softwareVersion", Literal("version", "1.0")>>,
     <<DumpNode, "dateModified", Literal("time", time)>>}
    \cup (UNION {EntityLines("dump", e, found[e].rev, found[e].claims) : e \in DOMAIN found})

\* Special:EntityData of one revision, with the labels current[f] the other
\* entities it mentions have at the moment.
EntityData(e, r, claims, current) ==
    EntityLines("entity", e, r, claims)
    \cup {<<EntityDocument(e), "license", Literal("iri", "cc0")>>,
          <<EntityDocument(e), "softwareVersion", Literal("version", "1.0")>>}
    \cup {Label(k.of, current[k.of]) : k \in {c \in claims : c.kind = "item" /\ c.of \in DOMAIN current \ {e}}}

-----------------------------------------------------------------------------
\* normalizeWikibaseRdf

DumpPredicates == {"type", "license", "softwareVersion", "dateModified", "imports"}
EntityExportPredicates == {"license", "softwareVersion"}

DumpExport(rdf) == {t \in rdf : t[1] = DumpNode}
EntityExport(rdf) == {t \in rdf : t[1][1] = "page" /\ t[2] \in EntityExportPredicates}

\* RDF_NORMALIZATION_UNKNOWN_DUMP_METADATA
UnknownMetadata(rdf, sourceKind) ==
    \E t \in DumpExport(rdf) : sourceKind # "FULL_DUMP" \/ t[2] \notin DumpPredicates

NormalizeWikibaseRdf(rdf) == rdf \ (DumpExport(rdf) \cup EntityExport(rdf))

Provenance(rdf) == {<<t[2], t[3]>> : t \in DumpExport(rdf) \cup EntityExport(rdf)}

-----------------------------------------------------------------------------
\* partitionWikibaseSnapshot and partitionWikibaseEntity

Subjects(rdf) == {t[1] : t \in rdf}
DiscoverEntities(rdf) == {n[2] : n \in {s \in Subjects(rdf) : s[1] = "entity"}}

\* The IRIs with /entity/statement/, /value/ or /reference/ in them.
Dependent(n) == n[1] \in {"statement", "value", "reference"}
IsBlank(n) == n[1] = "blank"

\* The nodes reached from roots over the triples in inner.
Closure(inner, roots) ==
    LET reached[n \in 0..Cardinality(inner)] ==
            IF n = 0 THEN roots
            ELSE LET before == reached[n - 1]
                 IN  before \cup {t[3] : t \in {u \in inner : u[1] \in before}}
    IN  reached[Cardinality(inner)]

LinesOf(rdf, nodes) == {t \in rdf : t[1] \in nodes}

OwnedEntityLines(rdf, e) ==
    LinesOf(rdf, Closure({t \in rdf : Dependent(t[3])}, {Entity(e), EntityDocument(e)} \cap Subjects(rdf)))

\* The nodes the Property points at that the document describes, and their blank nodes.
OwnedPropertySchemaLines(rdf, p) ==
    LET seeds == {t[3] : t \in {u \in rdf : u[1] = Entity(p) /\ ~Dependent(u[3])}} \cap Subjects(rdf)
    IN  LinesOf(rdf, Closure({t \in rdf : IsBlank(t[3])}, {n \in seeds : ~IsBlank(n)}))

\* Lines reached from several entities are put in the graph of each of them.
OwnedLines(rdf, name) ==
    CASE name[1] = "entity" -> OwnedEntityLines(rdf, name[2])
      [] name[1] = "schema" -> OwnedPropertySchemaLines(rdf, name[2])

OwnGraphNames(rdf) ==
    LET ids == DiscoverEntities(rdf)
    IN  {EntityGraphName(e) : e \in ids} \cup {SchemaGraphName(p) : p \in ids \cap PropertyIds}

PartitionSnapshot(rdf) ==
    LET names == OwnGraphNames(rdf)
        owned == [n \in names |-> OwnedLines(rdf, n)]
    IN  [n \in names \cup {GlobalGraphName} |->
            IF n = GlobalGraphName THEN rdf \ UNION {owned[m] : m \in names} ELSE owned[n]]

\* 'entity identity absent from RDF'
IdentityAbsent(rdf, e) == OwnedEntityLines(rdf, e) = {}

PartitionEntity(rdf, e) ==
    [n \in {EntityGraphName(e)} \cup (IF e \in PropertyIds THEN {SchemaGraphName(e)} ELSE {}) |->
        OwnedLines(rdf, n)]

\* datasetToNQuads: one document of quads.
Quads(dataset) == UNION {{Append(t, n) : t \in dataset[n]} : n \in DOMAIN dataset}

=============================================================================
