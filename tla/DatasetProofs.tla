---------------------------- MODULE DatasetProofs ----------------------------
(***************************************************************************)
(* DatasetFollowsWiki, whatever the entities, their claims and the bounds. *)
(*                                                                         *)
(* Four questions follow each other.  What are the graphs of a document    *)
(* (OwnGraph, SchemaGraph, SnapshotGraphs, EntityDataGraphs), and when do  *)
(* two of them compare equal (PartCompared, SchemaCompared)?  What does a  *)
(* generation owe to the wiki between two calls: for each entity (Follows) *)
(* its row and graphs are those of the page, or a row of RecentChanges     *)
(* ahead of the cursor still speaks of it; each handler keeps that,        *)
(* wherever it stops (EventFollows).  How does a dump, taken while the     *)
(* wiki changes, become such a generation (Dumped, LoadedFrom,             *)
(* LoadedFollows)?  DatasetInv joins these and is inductive                *)
(* (DatasetKeeps).  And, for the inventory, what is the canonical form of  *)
(* a whole dataset (QuadForm, HeldDiff), so that two exports of one wiki   *)
(* differ in provenance only (InventoryInv, InventoryKeeps)?               *)
(***************************************************************************)
EXTENDS MCDatasetProofs

-----------------------------------------------------------------------------
(***************************************************************************)
(* The partition of a document.                                            *)
(***************************************************************************)

\* What closure adds in one round.
Widened(inner, nodes) == nodes \cup {t[3] : t \in {u \in inner : u[1] \in nodes}}

ClosureRounds(inner, roots) ==
    LET reached[n \in 0..Cardinality(inner)] ==
            IF n = 0 THEN roots
            ELSE LET before == reached[n - 1]
                 IN  before \cup {t[3] : t \in {u \in inner : u[1] \in before}}
    IN  reached

ClosureStep(inner, roots, reached, m) ==
    reached = [n \in 0..m |-> IF n = 0 THEN roots ELSE Widened(inner, reached[n - 1])]

\* Any number of rounds has its function.
LEMMA ClosureRoundsExist ==
    ASSUME NEW inner, NEW roots, NEW m \in Nat
    PROVE  \E reached : ClosureStep(inner, roots, reached, m)
<1> DEFINE Bad == {k \in Nat : ~\E reached : ClosureStep(inner, roots, reached, k)}
<1> SUFFICES ASSUME Bad # {} PROVE FALSE
  OBVIOUS
<1>1. PICK k \in Bad : \A j \in Bad : k <= j
  BY LeastNumber
<1>2. CASE k = 0
  <2>1. ClosureStep(inner, roots, [n \in 0..0 |-> roots], 0)
    BY DEF ClosureStep
  <2> QED
    BY <1>1, <1>2, <2>1
<1>3. CASE k # 0
  <2>1. k - 1 \in Nat /\ k - 1 \notin Bad
    BY <1>1, <1>3
  <2>2. PICK before : ClosureStep(inner, roots, before, k - 1)
    BY <2>1
  <2> DEFINE reached == [n \in 0..k |-> IF n = k THEN Widened(inner, before[k - 1]) ELSE before[n]]
  <2>3. ASSUME NEW n \in 0..k
        PROVE  reached[n] = IF n = 0 THEN roots ELSE Widened(inner, reached[n - 1])
    <3>1. CASE n = k
      BY <1>3, <2>1, <3>1
    <3>2. CASE n # k
      <4>1. n \in 0..(k - 1)
        BY <1>1, <3>2
      <4>2. before[n] = IF n = 0 THEN roots ELSE Widened(inner, before[n - 1])
        BY <2>2, <4>1 DEF ClosureStep
      <4>3. n # 0 => n - 1 \in 0..k /\ n - 1 # k
        BY <4>1
      <4> QED
        BY <3>2, <4>2, <4>3
    <3> QED
      BY <3>1, <3>2
  <2>4. ClosureStep(inner, roots, reached, k)
    BY <2>3 DEF ClosureStep
  <2> QED
    BY <1>1, <2>4
<1> QED
  BY <1>2, <1>3

\* What the rounds of closure are, from one to the next.
LEMMA RoundsOfClosure ==
    ASSUME NEW inner, IsFiniteSet(inner), NEW roots
    PROVE  LET m == Cardinality(inner)
               reached == ClosureRounds(inner, roots)
           IN  /\ m \in Nat
               /\ Closure(inner, roots) = reached[m]
               /\ reached[0] = roots
               /\ \A n \in 1..m : reached[n] = Widened(inner, reached[n - 1])
<1> DEFINE m == Cardinality(inner)
           reached == ClosureRounds(inner, roots)
<1>1. m \in Nat
  BY FS_CardinalityType
<1>2. reached = CHOOSE r : ClosureStep(inner, roots, r, m)
  BY DEF ClosureRounds, ClosureStep, Widened
<1>3. Closure(inner, roots) = reached[m]
  BY DEF Closure, ClosureRounds
<1> HIDE DEF reached, m
<1>4. ClosureStep(inner, roots, reached, m)
  BY <1>1, <1>2, ClosureRoundsExist
<1>5. reached[0] = roots /\ \A n \in 1..m : reached[n] = Widened(inner, reached[n - 1])
  BY <1>1, <1>4 DEF ClosureStep
<1> QED
  BY <1>1, <1>3, <1>5 DEF reached, m

\* What closure reaches stays within a set that the lines do not leave.
LEMMA ClosureStaysWithin ==
    ASSUME NEW inner, IsFiniteSet(inner), NEW roots, NEW S,
           roots \subseteq S, \A t \in inner : t[1] \in S => t[3] \in S
    PROVE  Closure(inner, roots) \subseteq S
<1> DEFINE m == Cardinality(inner)
           reached == ClosureRounds(inner, roots)
           Bad == {k \in 0..m : ~(reached[k] \subseteq S)}
<1>1. /\ m \in Nat /\ Closure(inner, roots) = reached[m] /\ reached[0] = roots
      /\ \A n \in 1..m : reached[n] = Widened(inner, reached[n - 1])
  BY RoundsOfClosure
<1> HIDE DEF reached, m
<1>2. ASSUME Bad # {} PROVE FALSE
  <2>0. Bad \in SUBSET Nat
    BY <1>1
  <2> HIDE DEF Bad
  <2>1. PICK k \in Bad : \A j \in Bad : k <= j
    BY <1>2, <2>0, LeastNumber
  <2> USE DEF Bad
  <2>2. k # 0
    BY <1>1, <2>1
  <2>3. k \in 1..m /\ k - 1 \in 0..m /\ k - 1 \notin Bad
    BY <1>1, <2>1, <2>2
  <2>4. reached[k] = Widened(inner, reached[k - 1]) /\ reached[k - 1] \subseteq S
    BY <1>1, <2>3
  <2>5. reached[k] \subseteq S
    BY <2>4 DEF Widened
  <2> QED
    BY <2>1, <2>5
<1> QED
  BY <1>1, <1>2

\* Each round keeps what the one before reached.
LEMMA ClosureGrows ==
    ASSUME NEW inner, IsFiniteSet(inner), NEW roots, NEW i \in Nat, i <= Cardinality(inner)
    PROVE  ClosureRounds(inner, roots)[i] \subseteq Closure(inner, roots)
<1> DEFINE m == Cardinality(inner)
           reached == ClosureRounds(inner, roots)
           Bad == {k \in Nat : i <= k /\ k <= m /\ ~(reached[i] \subseteq reached[k])}
<1>1. /\ m \in Nat /\ Closure(inner, roots) = reached[m] /\ reached[0] = roots
      /\ \A n \in 1..m : reached[n] = Widened(inner, reached[n - 1])
  BY RoundsOfClosure
<1> HIDE DEF reached
<1>2. ASSUME Bad # {} PROVE FALSE
  <2>0. Bad \in SUBSET Nat
    OBVIOUS
  <2> HIDE DEF Bad
  <2>1. PICK k \in Bad : \A j \in Bad : k <= j
    BY <1>2, <2>0, LeastNumber
  <2> USE DEF Bad
  <2>2. k # i /\ i <= k /\ k <= m /\ k \in Nat
    BY <2>1
  <2>3. k \in 1..m /\ k - 1 \in Nat /\ i <= k - 1 /\ k - 1 <= m /\ ~(k <= k - 1)
    BY <1>1, <2>2
  <2>4. reached[i] \subseteq reached[k - 1]
    BY <2>1, <2>3
  <2>5. reached[k] = Widened(inner, reached[k - 1])
    BY <1>1, <2>3
  <2>6. reached[i] \subseteq reached[k]
    BY <2>4, <2>5 DEF Widened
  <2> QED
    BY <2>1, <2>6
<1>3. m \notin Bad /\ i <= m
  BY <1>2
<1> QED
  BY <1>1, <1>3 DEF reached

\* Closure reaches the roots, what they point at, and what that points at.
LEMMA ClosureReaches ==
    ASSUME NEW inner, IsFiniteSet(inner), NEW roots
    PROVE  /\ roots \subseteq Closure(inner, roots)
           /\ \A t \in inner : t[1] \in roots => t[3] \in Closure(inner, roots)
           /\ \A t, u \in inner : t # u /\ t[1] \in roots /\ u[1] = t[3] => u[3] \in Closure(inner, roots)
<1> DEFINE m == Cardinality(inner)
           reached == ClosureRounds(inner, roots)
<1>1. /\ m \in Nat /\ reached[0] = roots
      /\ \A n \in 1..m : reached[n] = Widened(inner, reached[n - 1])
  BY RoundsOfClosure
<1>2. \A i \in Nat : i <= m => reached[i] \subseteq Closure(inner, roots)
  BY ClosureGrows
<1>3. \A t \in inner : m >= 1
  <2>1. inner # {} => m # 0
    BY FS_EmptySet
  <2> HIDE DEF m
  <2> QED
    BY <1>1, <2>1
<1>4. \A t, u \in inner : t # u => m >= 2
  <2> SUFFICES ASSUME NEW t \in inner, NEW u \in inner, t # u PROVE m >= 2
    OBVIOUS
  <2>1. {t, u} \in SUBSET inner
    OBVIOUS
  <2>2. Cardinality({t, u}) <= m /\ IsFiniteSet({t, u})
    BY <2>1, FS_Subset
  <2>3. Cardinality({t, u}) = 2
    <3>1. IsFiniteSet({t}) /\ Cardinality({t}) = 1
      BY FS_Singleton
    <3>2. Cardinality({t} \cup {u}) = 2
      BY <3>1, FS_AddElement
    <3>3. {t} \cup {u} = {t, u}
      OBVIOUS
    <3> QED
      BY <3>2, <3>3
  <2> HIDE DEF m
  <2> QED
    BY <1>1, <2>2, <2>3
<1> HIDE DEF m, reached
<1>5. roots \subseteq Closure(inner, roots)
  BY <1>1, <1>2
<1>6. m >= 1 => reached[1] = Widened(inner, roots)
  <2>1. m >= 1 => 1 \in 1..m
    BY <1>1
  <2> QED
    BY <1>1, <2>1
<1>7. m >= 2 => reached[2] = Widened(inner, reached[1])
  <2>1. m >= 2 => 2 \in 1..m
    BY <1>1
  <2> QED
    BY <1>1, <2>1
<1>8. ASSUME NEW t \in inner, t[1] \in roots
      PROVE  t[3] \in reached[1] /\ reached[1] \subseteq Closure(inner, roots)
  BY <1>1, <1>2, <1>3, <1>6, <1>8 DEF Widened
<1>9. ASSUME NEW t \in inner, NEW u \in inner, t # u, t[1] \in roots, u[1] = t[3]
      PROVE  u[3] \in Closure(inner, roots)
  <2>1. m >= 2 /\ t[3] \in reached[1]
    BY <1>4, <1>8, <1>9
  <2>2. u[3] \in reached[2]
    BY <1>7, <1>9, <2>1 DEF Widened
  <2>3. reached[2] \subseteq Closure(inner, roots)
    BY <1>1, <1>2, <2>1
  <2> QED
    BY <2>2, <2>3
<1> QED
  BY <1>5, <1>8, <1>9

Points(claims) == \E k \in claims : k.kind = "item"

\* The lines of one revision of an entity in the graph of the entity, and those of a
\* Property in the graph of its schema.
PropertyPart(p) ==
    {<<Entity(p), "directClaim", Direct(p)>>, <<Entity(p), "statementValue", ValueProp(p)>>,
     <<ValueProp(p), "type", Literal("iri", "Property")>>, <<Entity(p), "novalue", NoValue(p)>>}

EntityPart(e, r, claims) ==
    {<<EntityDocument(e), "about", Entity(e)>>, <<EntityDocument(e), "version", Literal("integer", r)>>,
     Label(e, r)}
    \cup (UNION {StatementLines(e, k) : k \in claims})
    \cup IF e \in PropertyIds THEN PropertyPart(e) ELSE {}

SchemaPart(doc, p) ==
    {<<Direct(p), "type", Literal("iri", "Property")>>,
     <<NoValue(p), "complementOf", Blank(doc, p)>>, <<Blank(doc, p), "onProperty", Direct(p)>>}

\* The lines of an entity are those of its graph and those of its schema graph.
LEMMA EntityLinesSplit ==
    ASSUME NEW doc, NEW e, NEW r, NEW claims
    PROVE  EntityLines(doc, e, r, claims) =
             EntityPart(e, r, claims) \cup IF e \in PropertyIds THEN SchemaPart(doc, e) ELSE {}
<1>1. SchemaLines(doc, e) = PropertyPart(e) \cup SchemaPart(doc, e)
  BY DEF SchemaLines, PropertyPart, SchemaPart
<1>2. CASE e \in PropertyIds
  BY <1>1, <1>2 DEF EntityLines, EntityPart
<1>3. CASE e \notin PropertyIds
  BY <1>3 DEF EntityLines, EntityPart
<1> QED
  BY <1>2, <1>3

LEMMA PartLines ==
    ASSUME NEW e, NEW r, NEW claims, NEW t \in EntityPart(e, r, claims)
    PROVE  \/ t \in {<<EntityDocument(e), "about", Entity(e)>>,
                    <<EntityDocument(e), "version", Literal("integer", r)>>,
                    <<Entity(e), "label", Literal("text", r)>>}
           \/ \E k \in claims : \/ t = <<Entity(e), "p", Statement(e, k)>>
                                \/ k.kind = "item" /\ t \in {<<Entity(e), "direct", Entity(k.of)>>,
                                                           <<Statement(e, k), "ps", Entity(k.of)>>}
                                \/ k.kind # "item" /\ t \in {<<Entity(e), "direct", Decimal(k.of, "export")>>,
                                                           <<Statement(e, k), "psv", Value(k.of)>>,
                                                           <<Value(k.of), "amount", Decimal(k.of, "export")>>}
           \/ e \in PropertyIds /\ t \in PropertyPart(e)
<1>1. CASE \E k \in claims : t \in StatementLines(e, k)
  <2>1. PICK k \in claims : t \in StatementLines(e, k)
    BY <1>1
  <2>2. CASE k.kind = "item"
    BY <2>1, <2>2 DEF StatementLines
  <2>3. CASE k.kind # "item"
    BY <2>1, <2>3 DEF StatementLines
  <2> QED
    BY <2>2, <2>3
<1>2. CASE e \in PropertyIds /\ t \in PropertyPart(e)
  BY <1>2
<1>3. CASE t \in {<<EntityDocument(e), "about", Entity(e)>>,
                 <<EntityDocument(e), "version", Literal("integer", r)>>, Label(e, r)}
  BY <1>3 DEF Label
<1>4. \/ t \in {<<EntityDocument(e), "about", Entity(e)>>,
                <<EntityDocument(e), "version", Literal("integer", r)>>, Label(e, r)}
      \/ \E k \in claims : t \in StatementLines(e, k)
      \/ e \in PropertyIds /\ t \in PropertyPart(e)
  <2>1. CASE e \in PropertyIds
    BY <2>1 DEF EntityPart
  <2>2. CASE e \notin PropertyIds
    BY <2>2 DEF EntityPart
  <2> QED
    BY <2>1, <2>2
<1> QED
  BY <1>1, <1>2, <1>3, <1>4

\* Nodes of different kinds, and of one kind with different names, differ.
Kind(n) == n[1]

\* Nodes of different kinds are different nodes.
LEMMA Kinds ==
    /\ \A e : Kind(Entity(e)) = "entity" /\ Kind(EntityDocument(e)) = "page"
    /\ \A e, k : Kind(Statement(e, k)) = "statement"
    /\ \A v : Kind(Value(v)) = "value" /\ Kind(ValueProp(v)) = "value"
    /\ \A p : Kind(Direct(p)) = "direct" /\ Kind(NoValue(p)) = "novalue"
    /\ \A d, p : Kind(Blank(d, p)) = "blank" /\ Kind(Decimal(d, p)) = "decimal" /\ Kind(Literal(d, p)) = "literal"
    /\ Kind(DumpNode) = "dump"
BY DEF Kind, Entity, EntityDocument, Statement, Value, ValueProp, Direct, NoValue, Blank, Decimal, Literal, DumpNode

\* Nodes of one kind that name different entities are different nodes.
LEMMA Names ==
    /\ \A e, f : Entity(e) = Entity(f) => e = f
    /\ \A e, f : EntityDocument(e) = EntityDocument(f) => e = f
    /\ \A e, k, f, l : Statement(e, k) = Statement(f, l) => e = f /\ k = l
    /\ \A v, w : Value(v) = Value(w) => v = w
    /\ \A v, w : Value(v) # ValueProp(w)
    /\ \A p, q : ValueProp(p) = ValueProp(q) => p = q
    /\ \A p, q : Direct(p) = Direct(q) => p = q
    /\ \A p, q : NoValue(p) = NoValue(q) => p = q
    /\ \A d, p, c, q : Blank(d, p) = Blank(c, q) => d = c /\ p = q
<1>1. \A v, w : Value(v) # ValueProp(w)
  <2> SUFFICES ASSUME NEW v, NEW w, Value(v) = ValueProp(w) PROVE FALSE
    OBVIOUS
  <2>1. Len(Value(v)) = 2 /\ Len(ValueProp(w)) = 3
    BY DEF Value, ValueProp
  <2> QED
    BY <2>1
<1> QED
  BY <1>1 DEF Entity, EntityDocument, Statement, Value, ValueProp, Direct, NoValue, Blank

Claim == Claims(Entities, Amounts)

LEMMA ClaimParts ==
    ASSUME NEW claims \in Contents
    PROVE  /\ claims \subseteq Claim /\ IsFiniteSet(claims)
           /\ \A k \in claims : /\ k.kind \in {"item", "amount"}
                                /\ k.kind = "item" => k.of \in Entities
<1>1. claims \subseteq Claim /\ IsFiniteSet(claims)
  BY DatasetAssumption DEF Claim
<1>2. \A k \in Claim : k.kind \in {"item", "amount"} /\ (k.kind = "item" => k.of \in Entities)
  BY DEF Claim, Claims
<1> QED
  BY <1>1, <1>2

\* Both ends of a line of the entity's part.
LEMMA LineEnds ==
    ASSUME NEW e, NEW r, NEW claims, NEW t \in EntityPart(e, r, claims)
    PROVE  /\ t = <<t[1], t[2], t[3]>>
           /\ t[1] \in {Entity(e), EntityDocument(e), ValueProp(e)}
                \/ \E k \in claims : t[1] \in {Statement(e, k), Value(k.of)}
           /\ \/ t[3] = Entity(e) \/ Kind(t[3]) \in {"literal", "decimal", "direct", "novalue"}
              \/ \E k \in claims : t[3] \in {Statement(e, k), Value(k.of), Entity(k.of)}
              \/ t[3] = ValueProp(e)
<1> USE Kinds
<1>1. CASE t \in {<<EntityDocument(e), "about", Entity(e)>>,
                 <<EntityDocument(e), "version", Literal("integer", r)>>,
                 <<Entity(e), "label", Literal("text", r)>>}
  BY <1>1
<1>2. CASE \E k \in claims : \/ t = <<Entity(e), "p", Statement(e, k)>>
                             \/ k.kind = "item" /\ t \in {<<Entity(e), "direct", Entity(k.of)>>,
                                                        <<Statement(e, k), "ps", Entity(k.of)>>}
                             \/ k.kind # "item" /\ t \in {<<Entity(e), "direct", Decimal(k.of, "export")>>,
                                                        <<Statement(e, k), "psv", Value(k.of)>>,
                                                        <<Value(k.of), "amount", Decimal(k.of, "export")>>}
  BY <1>2
<1>3. CASE e \in PropertyIds /\ t \in PropertyPart(e)
  BY <1>3 DEF PropertyPart
<1> QED
  BY <1>1, <1>2, <1>3, PartLines

\* The lines of an entity whose object is a statement or a value.
LEMMA DependentLines ==
    ASSUME NEW e, NEW r, NEW claims, NEW t \in EntityPart(e, r, claims), Dependent(t[3])
    PROVE  \/ \E k \in claims : \/ t = <<Entity(e), "p", Statement(e, k)>>
                                \/ k.kind # "item" /\ t = <<Statement(e, k), "psv", Value(k.of)>>
           \/ e \in PropertyIds /\ t = <<Entity(e), "statementValue", ValueProp(e)>>
<1>1. Kind(t[3]) \in {"statement", "value", "reference"}
  BY DEF Dependent, Kind
<1>2. CASE t \in {<<EntityDocument(e), "about", Entity(e)>>,
                 <<EntityDocument(e), "version", Literal("integer", r)>>,
                 <<Entity(e), "label", Literal("text", r)>>}
  BY <1>1, <1>2, Kinds
<1>3. CASE \E k \in claims : \/ t = <<Entity(e), "p", Statement(e, k)>>
                             \/ k.kind = "item" /\ t \in {<<Entity(e), "direct", Entity(k.of)>>,
                                                        <<Statement(e, k), "ps", Entity(k.of)>>}
                             \/ k.kind # "item" /\ t \in {<<Entity(e), "direct", Decimal(k.of, "export")>>,
                                                        <<Statement(e, k), "psv", Value(k.of)>>,
                                                        <<Value(k.of), "amount", Decimal(k.of, "export")>>}
  BY <1>1, <1>3, Kinds
<1>4. CASE e \in PropertyIds /\ t \in PropertyPart(e)
  BY <1>1, <1>4, Kinds DEF PropertyPart
<1> QED
  BY <1>2, <1>3, <1>4, PartLines

LEMMA SchemaIndependent ==
    ASSUME NEW doc, NEW p, NEW t \in SchemaPart(doc, p)
    PROVE  /\ ~Dependent(t[3])
           /\ Kind(t[1]) \in {"direct", "novalue", "blank"}
           /\ t[1] \in {Direct(p), NoValue(p), Blank(doc, p)}
           /\ IsBlank(t[3]) => t = <<NoValue(p), "complementOf", Blank(doc, p)>>
BY Kinds DEF SchemaPart, Dependent, Kind, IsBlank

\* Whose lines they are tells the subject.
LEMMA SubjectsOfPart ==
    ASSUME NEW e, NEW r, NEW claims, NEW t \in EntityPart(e, r, claims)
    PROVE  /\ Kind(t[1]) \in {"page", "entity", "statement", "value"} /\ ~IsBlank(t[3])
           /\ \/ t[1] \in {Entity(e), EntityDocument(e)}
              \/ \E k \in claims : \/ t[1] = Statement(e, k)
                                   \/ k.kind # "item" /\ t = <<Value(k.of), "amount", Decimal(k.of, "export")>>
              \/ e \in PropertyIds /\ t = <<ValueProp(e), "type", Literal("iri", "Property")>>
<1>1. /\ Kind(t[1]) \in {"page", "entity", "statement", "value"}
      /\ Kind(t[3]) # "blank"
  BY LineEnds, Kinds
<1>2. CASE t \in {<<EntityDocument(e), "about", Entity(e)>>,
                 <<EntityDocument(e), "version", Literal("integer", r)>>,
                 <<Entity(e), "label", Literal("text", r)>>}
  BY <1>1, <1>2 DEF Kind, IsBlank
<1>3. CASE \E k \in claims : \/ t = <<Entity(e), "p", Statement(e, k)>>
                             \/ k.kind = "item" /\ t \in {<<Entity(e), "direct", Entity(k.of)>>,
                                                        <<Statement(e, k), "ps", Entity(k.of)>>}
                             \/ k.kind # "item" /\ t \in {<<Entity(e), "direct", Decimal(k.of, "export")>>,
                                                        <<Statement(e, k), "psv", Value(k.of)>>,
                                                        <<Value(k.of), "amount", Decimal(k.of, "export")>>}
  BY <1>1, <1>3 DEF Kind, IsBlank
<1>4. CASE e \in PropertyIds /\ t \in PropertyPart(e)
  BY <1>1, <1>4 DEF PropertyPart, Kind, IsBlank
<1> QED
  BY <1>2, <1>3, <1>4, PartLines

\* found[e] is [rev, claims] for each entity the document describes; rest are lines
\* about exports and labels.
Document(doc, found, rest) ==
    rest \cup UNION {EntityLines(doc, e, found[e].rev, found[e].claims) : e \in DOMAIN found}

Described(found) ==
    DOMAIN found \subseteq Entities /\ \A e \in DOMAIN found : found[e].claims \in Contents

Remarks(rest) ==
    /\ IsFiniteSet(rest)
    /\ \A t \in rest : /\ t = <<t[1], t[2], t[3]>>
                       /\ Kind(t[1]) \in {"dump", "page", "entity"} /\ Kind(t[3]) = "literal"

PartOf(found, e) == EntityPart(e, found[e].rev, found[e].claims)
RemarksOn(rest, e) == {t \in rest : t[1] \in {Entity(e), EntityDocument(e)}}

\* Where a line of a document comes from.
LEMMA DocumentLines ==
    ASSUME NEW doc, NEW found, NEW rest, NEW t
    PROVE  t \in Document(doc, found, rest) <=>
             \/ t \in rest
             \/ \E e \in DOMAIN found : \/ t \in PartOf(found, e)
                                        \/ e \in PropertyIds /\ t \in SchemaPart(doc, e)
<1>1. \A e \in DOMAIN found :
         t \in EntityLines(doc, e, found[e].rev, found[e].claims) <=>
           t \in PartOf(found, e) \/ (e \in PropertyIds /\ t \in SchemaPart(doc, e))
  BY EntityLinesSplit DEF PartOf
<1> QED
  BY <1>1 DEF Document

LEMMA SmallSets ==
    ASSUME NEW a, NEW b, NEW c
    PROVE  IsFiniteSet({a, b}) /\ IsFiniteSet({a, b, c})
<1> DEFINE two == {a, b}
           three == {a, b, c}
<1>1. two = {a} \cup {b}
  OBVIOUS
<1>2. IsFiniteSet({a} \cup {b})
  BY FS_Singleton, FS_Union
<1>3. three = two \cup {c}
  OBVIOUS
<1> HIDE DEF two, three
<1>4. IsFiniteSet(two)
  BY <1>1, <1>2, Zenon
<1>5. IsFiniteSet(two \cup {c})
  BY <1>4, FS_Singleton, FS_Union
<1>6. IsFiniteSet(three)
  BY <1>3, <1>5, Zenon
<1> QED
  BY <1>4, <1>6, Zenon DEF two, three

LEMMA StatementFinite ==
    ASSUME NEW e, NEW k
    PROVE  IsFiniteSet(StatementLines(e, k))
<1> DEFINE first == {<<Entity(e), "p", Statement(e, k)>>}
           item == {<<Entity(e), "direct", Entity(k.of)>>, <<Statement(e, k), "ps", Entity(k.of)>>}
           amount == {<<Entity(e), "direct", Decimal(k.of, "export")>>,
                      <<Statement(e, k), "psv", Value(k.of)>>,
                      <<Value(k.of), "amount", Decimal(k.of, "export")>>}
<1>1. IsFiniteSet(first) /\ IsFiniteSet(item) /\ IsFiniteSet(amount)
  BY FS_Singleton, SmallSets
<1>2. StatementLines(e, k) = first \cup IF k.kind = "item" THEN item ELSE amount
  BY DEF StatementLines
<1> HIDE DEF first, item, amount
<1>3. IsFiniteSet(first \cup item) /\ IsFiniteSet(first \cup amount)
  BY <1>1, FS_Union
<1> QED
  BY <1>2, <1>3, Zenon

LEMMA PartFinite ==
    ASSUME NEW doc, NEW e, NEW r, NEW claims, IsFiniteSet(claims)
    PROVE  IsFiniteSet(EntityLines(doc, e, r, claims))
<1> DEFINE all == {StatementLines(e, k) : k \in claims}
           image == [k \in claims |-> StatementLines(e, k)]
           head == {<<EntityDocument(e), "about", Entity(e)>>,
                    <<EntityDocument(e), "version", Literal("integer", r)>>, Label(e, r)}
           schemas == IF e \in PropertyIds THEN SchemaLines(doc, e) ELSE {}
<1>1. image \in [claims -> all] /\ \A y \in all : \E k \in claims : image[k] = y
  OBVIOUS
<1>2. IsFiniteSet(all)
  <2> HIDE DEF image, all
  <2> QED
    BY <1>1, ImageFinite
<1>3. IsFiniteSet(UNION all)
  BY <1>2, StatementFinite, FS_UNION
<1>4. IsFiniteSet(SchemaLines(doc, e))
  <2> DEFINE one == {<<Entity(e), "directClaim", Direct(e)>>, <<Direct(e), "type", Literal("iri", "Property")>>,
                     <<Entity(e), "statementValue", ValueProp(e)>>}
             two == {<<ValueProp(e), "type", Literal("iri", "Property")>>,
                     <<Entity(e), "novalue", NoValue(e)>>, <<NoValue(e), "complementOf", Blank(doc, e)>>}
             three == {<<Blank(doc, e), "onProperty", Direct(e)>>}
  <2>1. SchemaLines(doc, e) = (one \cup two) \cup three
    BY DEF SchemaLines
  <2>2. IsFiniteSet(one) /\ IsFiniteSet(two) /\ IsFiniteSet(three)
    BY SmallSets, FS_Singleton
  <2> HIDE DEF one, two, three
  <2>3. IsFiniteSet((one \cup two) \cup three)
    BY <2>2, FS_Union
  <2> QED
    BY <2>1, <2>3, Zenon
<1>5. IsFiniteSet(schemas)
  BY <1>4, FS_EmptySet
<1>6. IsFiniteSet(head)
  BY SmallSets
<1>7. EntityLines(doc, e, r, claims) = (head \cup (UNION all)) \cup schemas
  BY DEF EntityLines
<1> HIDE DEF head, all, schemas
<1>8. IsFiniteSet((head \cup (UNION all)) \cup schemas)
  BY <1>3, <1>5, <1>6, FS_Union
<1> QED
  BY <1>7, <1>8, Zenon

LEMMA DescribedFinite ==
    ASSUME NEW found, Described(found)
    PROVE  IsFiniteSet(DOMAIN found)
BY SourceAssumption, FS_Subset DEF Described

\* A document is finite.
LEMMA DocumentFinite ==
    ASSUME NEW doc, NEW found, Described(found), NEW rest, Remarks(rest)
    PROVE  IsFiniteSet(Document(doc, found, rest))
<1> DEFINE lines(e) == EntityLines(doc, e, found[e].rev, found[e].claims)
           all == {lines(e) : e \in DOMAIN found}
           image == [e \in DOMAIN found |-> lines(e)]
<1>1. \A e \in DOMAIN found : IsFiniteSet(lines(e))
  BY ClaimParts, PartFinite DEF Described
<1>2. image \in [DOMAIN found -> all] /\ \A y \in all : \E e \in DOMAIN found : image[e] = y
  OBVIOUS
<1>3. IsFiniteSet(all)
  <2> HIDE DEF image, all
  <2> QED
    BY <1>2, DescribedFinite, ImageFinite
<1>4. IsFiniteSet(UNION all)
  BY <1>1, <1>3, FS_UNION
<1> HIDE DEF lines
<1> QED
  BY <1>4, FS_Union DEF Document, Remarks, lines

-----------------------------------------------------------------------------
\* The graph of an entity: its own part, wherever else its values occur, and the
\* remarks on it.
Reached(found, e) ==
    {Entity(e), EntityDocument(e)}
    \cup {n \in {ValueProp(e)} : e \in PropertyIds}
    \cup {Statement(e, k) : k \in found[e].claims}
    \cup {Value(k.of) : k \in {c \in found[e].claims : c.kind # "item"}}

\* No link leads from the nodes of an entity to those of another.
LEMMA ReachedClosed ==
    ASSUME NEW doc, NEW found, NEW rest, Remarks(rest), NEW e \in DOMAIN found,
           NEW t \in Document(doc, found, rest), Dependent(t[3]), t[1] \in Reached(found, e)
    PROVE  t[3] \in Reached(found, e)
<1>1. Kind(t[3]) \in {"statement", "value", "reference"}
  BY DEF Dependent, Kind
<1>2. t \notin rest
  BY <1>1 DEF Remarks
<1>3. \A f : t \notin SchemaPart(doc, f)
  BY SchemaIndependent
<1>4. PICK f \in DOMAIN found : t \in PartOf(found, f)
  BY <1>2, <1>3, DocumentLines
<1>5. \/ \E k \in found[f].claims : \/ t = <<Entity(f), "p", Statement(f, k)>>
                                    \/ k.kind # "item" /\ t = <<Statement(f, k), "psv", Value(k.of)>>
      \/ f \in PropertyIds /\ t = <<Entity(f), "statementValue", ValueProp(f)>>
  BY <1>4, DependentLines DEF PartOf
<1>6. /\ \A g : Entity(g) \in Reached(found, e) => g = e
      /\ \A g, k : Statement(g, k) \in Reached(found, e) => g = e
  <2>1. ASSUME NEW g, Entity(g) \in Reached(found, e) PROVE g = e
    <3>1. Kind(Entity(g)) = "entity"
      BY Kinds
    <3>2. Entity(g) = Entity(e)
      BY <2>1, <3>1, Kinds DEF Reached
    <3> QED
      BY <3>2, Names
  <2>2. ASSUME NEW g, NEW k, Statement(g, k) \in Reached(found, e) PROVE g = e
    <3>1. Kind(Statement(g, k)) = "statement"
      BY Kinds
    <3>2. \E l : Statement(g, k) = Statement(e, l)
      BY <2>2, <3>1, Kinds DEF Reached
    <3> QED
      BY <3>2, Names
  <2> QED
    BY <2>1, <2>2
<1>7. CASE \E k \in found[f].claims : t = <<Entity(f), "p", Statement(f, k)>>
  <2>1. PICK k \in found[f].claims : t[1] = Entity(f) /\ t[3] = Statement(f, k)
    BY <1>7
  <2>2. f = e
    BY <1>6, <2>1
  <2> QED
    BY <2>1, <2>2 DEF Reached
<1>8. CASE \E k \in found[f].claims : k.kind # "item" /\ t = <<Statement(f, k), "psv", Value(k.of)>>
  <2>1. PICK k \in found[f].claims : k.kind # "item" /\ t[1] = Statement(f, k) /\ t[3] = Value(k.of)
    BY <1>8
  <2>2. f = e
    BY <1>6, <2>1
  <2> QED
    BY <2>1, <2>2 DEF Reached
<1>9. CASE f \in PropertyIds /\ t = <<Entity(f), "statementValue", ValueProp(f)>>
  <2>1. t[1] = Entity(f) /\ t[3] = ValueProp(f)
    BY <1>9
  <2>2. f = e
    BY <1>6, <2>1
  <2> QED
    BY <1>9, <2>1, <2>2 DEF Reached
<1> QED
  BY <1>5, <1>7, <1>8, <1>9

\* Who else has a line with such a subject has the same line.
LEMMA ReachedOwn ==
    ASSUME NEW doc, NEW found, NEW rest, Remarks(rest), NEW e \in DOMAIN found,
           NEW t \in Document(doc, found, rest), t[1] \in Reached(found, e)
    PROVE  t \in PartOf(found, e) \/ t \in RemarksOn(rest, e)
<1>1. \/ t[1] = Entity(e) \/ t[1] = EntityDocument(e) \/ (e \in PropertyIds /\ t[1] = ValueProp(e))
      \/ \E k \in found[e].claims : t[1] = Statement(e, k)
      \/ \E k \in found[e].claims : k.kind # "item" /\ t[1] = Value(k.of)
  BY DEF Reached
<1>2. CASE t \in rest
  <2>1. Kind(t[1]) \in {"dump", "page", "entity"}
    BY <1>2 DEF Remarks
  <2>2. t[1] = Entity(e) \/ t[1] = EntityDocument(e)
    BY <1>1, <2>1, Kinds
  <2> QED
    BY <1>2, <2>2 DEF RemarksOn
<1>3. ASSUME NEW f, t \in SchemaPart(doc, f)
      PROVE  FALSE
  <2>1. Kind(t[1]) \in {"direct", "novalue", "blank"}
    BY <1>3, SchemaIndependent
  <2> QED
    BY <1>1, <2>1, Kinds
<1>4. ASSUME NEW f \in DOMAIN found, t \in PartOf(found, f)
      PROVE  t \in PartOf(found, e)
  <2>1. \/ t[1] \in {Entity(f), EntityDocument(f)}
        \/ \E k \in found[f].claims : \/ t[1] = Statement(f, k)
                                      \/ k.kind # "item" /\ t = <<Value(k.of), "amount", Decimal(k.of, "export")>>
        \/ f \in PropertyIds /\ t = <<ValueProp(f), "type", Literal("iri", "Property")>>
    BY <1>4, SubjectsOfPart DEF PartOf
  <2>2. CASE t[1] \in {Entity(f), EntityDocument(f)} \/ \E k \in found[f].claims : t[1] = Statement(f, k)
    <3>1. f = e
      BY <1>1, <2>2, Kinds, Names
    <3> QED
      BY <1>4, <3>1
  <2>3. CASE f \in PropertyIds /\ t = <<ValueProp(f), "type", Literal("iri", "Property")>>
    <3>1. t[1] = ValueProp(f)
      BY <2>3
    <3>2. f = e
      BY <1>1, <3>1, Kinds, Names
    <3> QED
      BY <1>4, <3>2
  <2>4. CASE \E k \in found[f].claims : k.kind # "item" /\ t = <<Value(k.of), "amount", Decimal(k.of, "export")>>
    <3>1. PICK v : t[1] = Value(v) /\ t = <<Value(v), "amount", Decimal(v, "export")>>
      BY <2>4
    <3>2. PICK l \in found[e].claims : l.kind # "item" /\ t[1] = Value(l.of)
      BY <1>1, <3>1, Kinds, Names
    <3>3. v = l.of
      BY <3>1, <3>2, Names
    <3>4. t \in StatementLines(e, l)
      BY <3>1, <3>2, <3>3 DEF StatementLines
    <3> QED
      BY <3>4 DEF PartOf, EntityPart
  <2> QED
    BY <2>1, <2>2, <2>3, <2>4
<1> QED
  BY <1>2, <1>3, <1>4, DocumentLines

\* The graph a partition gives an entity has the lines of that entity and no other
\* (ownedEntityLines).
LEMMA OwnGraph ==
    ASSUME NEW doc, NEW found, Described(found), NEW rest, Remarks(rest), NEW e \in DOMAIN found
    PROVE  OwnedEntityLines(Document(doc, found, rest), e) = PartOf(found, e) \cup RemarksOn(rest, e)
<1> DEFINE rdf == Document(doc, found, rest)
           inner == {t \in rdf : Dependent(t[3])}
           roots == {Entity(e), EntityDocument(e)} \cap Subjects(rdf)
           nodes == Closure(inner, roots)
<1>1. IsFiniteSet(inner)
  BY DocumentFinite, FS_Subset
<1>2. OwnedEntityLines(rdf, e) = {t \in rdf : t[1] \in nodes}
  BY DEF OwnedEntityLines, LinesOf
<1>3. PartOf(found, e) \subseteq rdf /\ rest \subseteq rdf
  BY DocumentLines
<1> HIDE DEF rdf
<1>4. nodes \subseteq Reached(found, e)
  <2>1. roots \subseteq Reached(found, e)
    BY DEF Reached
  <2>2. \A t \in inner : t[1] \in Reached(found, e) => t[3] \in Reached(found, e)
    BY ReachedClosed DEF rdf
  <2> HIDE DEF inner, roots
  <2> QED
    BY <1>1, <2>1, <2>2, ClosureStaysWithin
<1>5. {t \in rdf : t[1] \in nodes} \subseteq PartOf(found, e) \cup RemarksOn(rest, e)
  BY <1>4, ReachedOwn DEF rdf
<1>6. Entity(e) \in roots /\ EntityDocument(e) \in roots
  <2> DEFINE about == <<EntityDocument(e), "about", Entity(e)>>
  <2>1. about \in PartOf(found, e) /\ Label(e, found[e].rev) \in PartOf(found, e)
    BY DEF PartOf, EntityPart
  <2>2. about[1] = EntityDocument(e) /\ Label(e, found[e].rev)[1] = Entity(e)
    BY DEF Label
  <2> HIDE DEF about
  <2> QED
    BY <1>3, <2>1, <2>2 DEF Subjects
<1>7. /\ roots \subseteq nodes
      /\ \A t \in inner : t[1] \in roots => t[3] \in nodes
      /\ \A t, u \in inner : t # u /\ t[1] \in roots /\ u[1] = t[3] => u[3] \in nodes
  <2> HIDE DEF inner, roots
  <2> QED
    BY <1>1, ClosureReaches
<1>8. ASSUME NEW k \in found[e].claims
      PROVE  Statement(e, k) \in nodes /\ (k.kind # "item" => Value(k.of) \in nodes)
  <2> DEFINE s == <<Entity(e), "p", Statement(e, k)>>
             v == <<Statement(e, k), "psv", Value(k.of)>>
  <2>1. StatementLines(e, k) \subseteq rdf
    BY <1>3 DEF PartOf, EntityPart
  <2>2. s \in rdf /\ (k.kind # "item" => v \in rdf)
    BY <2>1 DEF StatementLines
  <2>3. Dependent(s[3]) /\ Dependent(v[3])
    BY Kinds DEF Dependent, Kind
  <2>4. s # v /\ s[1] = Entity(e) /\ s[3] = Statement(e, k) /\ v[1] = s[3] /\ v[3] = Value(k.of)
    OBVIOUS
  <2> HIDE DEF s, v, nodes, roots
  <2> QED
    BY <1>6, <1>7, <2>2, <2>3, <2>4
<1>9. ASSUME e \in PropertyIds
      PROVE  ValueProp(e) \in nodes
  <2> DEFINE s == <<Entity(e), "statementValue", ValueProp(e)>>
  <2>1. s \in rdf
    BY <1>3, <1>9 DEF PartOf, EntityPart, PropertyPart
  <2>2. Dependent(s[3]) /\ s[1] = Entity(e) /\ s[3] = ValueProp(e)
    BY Kinds DEF Dependent, Kind
  <2> HIDE DEF s, nodes, roots
  <2> QED
    BY <1>6, <1>7, <2>1, <2>2
<1> HIDE DEF nodes, roots, inner
<1>10. ASSUME NEW t \in PartOf(found, e)
       PROVE  t[1] \in nodes
  <2>1. \/ t[1] \in {Entity(e), EntityDocument(e)}
        \/ \E k \in found[e].claims : \/ t[1] = Statement(e, k)
                                      \/ k.kind # "item" /\ t = <<Value(k.of), "amount", Decimal(k.of, "export")>>
        \/ e \in PropertyIds /\ t = <<ValueProp(e), "type", Literal("iri", "Property")>>
    BY <1>10, SubjectsOfPart DEF PartOf
  <2>2. \/ t[1] \in {Entity(e), EntityDocument(e)}
        \/ \E k \in found[e].claims : t[1] = Statement(e, k) \/ (k.kind # "item" /\ t[1] = Value(k.of))
        \/ e \in PropertyIds /\ t[1] = ValueProp(e)
    BY <2>1
  <2> QED
    BY <1>6, <1>7, <1>8, <1>9, <2>2
<1>11. PartOf(found, e) \cup RemarksOn(rest, e) \subseteq {t \in rdf : t[1] \in nodes}
  BY <1>3, <1>6, <1>7, <1>10 DEF RemarksOn
<1> QED
  BY <1>2, <1>5, <1>11 DEF rdf

-----------------------------------------------------------------------------
\* The graph of a Property's schema.
LEMMA NodeKinds ==
    ASSUME NEW doc, NEW found, NEW rest, Remarks(rest), NEW t \in Document(doc, found, rest)
    PROVE  /\ Kind(t[1]) \in {"dump", "page", "entity", "statement", "value", "direct", "novalue", "blank"}
           /\ Kind(t[3]) # "dump"
           /\ Kind(t[1]) \in {"direct", "novalue", "blank"} \/ IsBlank(t[3]) =>
                \E f \in DOMAIN found : f \in PropertyIds /\ t \in SchemaPart(doc, f)
<1>1. CASE t \in rest
  BY <1>1 DEF Remarks, IsBlank, Kind
<1>2. CASE \E f \in DOMAIN found : t \in PartOf(found, f)
  <2>1. PICK f \in DOMAIN found : t \in PartOf(found, f)
    BY <1>2
  <2>2. Kind(t[1]) \in {"page", "entity", "statement", "value"} /\ ~IsBlank(t[3])
    BY <2>1, SubjectsOfPart DEF PartOf
  <2>3. Kind(t[3]) # "dump"
    BY <2>1, LineEnds, Kinds DEF PartOf
  <2> QED
    BY <2>2, <2>3
<1>3. CASE \E f \in DOMAIN found : f \in PropertyIds /\ t \in SchemaPart(doc, f)
  <2>1. PICK f \in DOMAIN found : f \in PropertyIds /\ t \in SchemaPart(doc, f)
    BY <1>3
  <2>2. t[3] \in {Literal("iri", "Property"), Blank(doc, f), Direct(f)}
    BY <2>1 DEF SchemaPart
  <2> QED
    BY <1>3, <2>1, <2>2, SchemaIndependent, Kinds
<1> QED
  BY <1>1, <1>2, <1>3, DocumentLines

\* The graph a partition gives the schema of a Property (ownedSchemaLines).
LEMMA SchemaGraph ==
    ASSUME NEW doc, NEW found, Described(found), NEW rest, Remarks(rest),
           NEW p \in DOMAIN found, p \in PropertyIds
    PROVE  LET rdf == Document(doc, found, rest)
           IN  /\ SchemaPart(doc, p) \subseteq OwnedPropertySchemaLines(rdf, p)
               /\ \A t \in OwnedPropertySchemaLines(rdf, p) : t \in rdf /\ Kind(t[1]) # "dump"
               /\ ~Points(found[p].claims) => OwnedPropertySchemaLines(rdf, p) = SchemaPart(doc, p)
<1> DEFINE rdf == Document(doc, found, rest)
           seeds == {t[3] : t \in {u \in rdf : u[1] = Entity(p) /\ ~Dependent(u[3])}} \cap Subjects(rdf)
           roots == {n \in seeds : ~IsBlank(n)}
           inner == {t \in rdf : IsBlank(t[3])}
           nodes == Closure(inner, roots)
           own == {Direct(p), NoValue(p), Blank(doc, p)}
<1>1. IsFiniteSet(inner)
  BY DocumentFinite, FS_Subset
<1>2. OwnedPropertySchemaLines(rdf, p) = {t \in rdf : t[1] \in nodes}
  BY DEF OwnedPropertySchemaLines, LinesOf
<1>3. PartOf(found, p) \subseteq rdf /\ SchemaPart(doc, p) \subseteq rdf
  BY DocumentLines
<1>4. /\ \A t \in rdf : Kind(t[1]) \in {"dump", "page", "entity", "statement", "value", "direct", "novalue", "blank"}
      /\ \A t \in rdf : Kind(t[3]) # "dump"
      /\ \A t \in rdf : Kind(t[1]) \in {"direct", "novalue", "blank"} \/ IsBlank(t[3]) =>
           \E f \in DOMAIN found : f \in PropertyIds /\ t \in SchemaPart(doc, f)
  BY NodeKinds
<1>5. \A t \in rdf : t \in rest \/ (\E f \in DOMAIN found : t \in PartOf(found, f) \/ t \in SchemaPart(doc, f))
  BY DocumentLines
<1> HIDE DEF rdf
<1>6. /\ roots \subseteq nodes
      /\ \A t \in inner : t[1] \in roots => t[3] \in nodes
  <2> HIDE DEF inner, roots
  <2> QED
    BY <1>1, ClosureReaches
<1>7. Direct(p) \in roots /\ NoValue(p) \in roots
  <2> DEFINE d == <<Entity(p), "directClaim", Direct(p)>>
             n == <<Entity(p), "novalue", NoValue(p)>>
             dt == <<Direct(p), "type", Literal("iri", "Property")>>
             nc == <<NoValue(p), "complementOf", Blank(doc, p)>>
  <2>1. d \in rdf /\ n \in rdf /\ dt \in rdf /\ nc \in rdf
    BY <1>3 DEF PartOf, EntityPart, PropertyPart, SchemaPart
  <2>2. /\ d[1] = Entity(p) /\ d[3] = Direct(p) /\ n[1] = Entity(p) /\ n[3] = NoValue(p)
        /\ dt[1] = Direct(p) /\ nc[1] = NoValue(p)
    OBVIOUS
  <2>3. ~Dependent(Direct(p)) /\ ~Dependent(NoValue(p)) /\ ~IsBlank(Direct(p)) /\ ~IsBlank(NoValue(p))
    BY Kinds DEF Dependent, IsBlank, Kind
  <2> HIDE DEF d, n, dt, nc
  <2>4. Direct(p) \in Subjects(rdf) /\ NoValue(p) \in Subjects(rdf)
    BY <2>1, <2>2 DEF Subjects
  <2>5. Direct(p) \in seeds /\ NoValue(p) \in seeds
    BY <2>1, <2>2, <2>3, <2>4
  <2> QED
    BY <2>3, <2>5
<1>8. own \subseteq nodes
  <2> DEFINE nc == <<NoValue(p), "complementOf", Blank(doc, p)>>
  <2>1. nc \in rdf /\ IsBlank(nc[3]) /\ nc[1] = NoValue(p) /\ nc[3] = Blank(doc, p)
    BY <1>3, Kinds DEF SchemaPart, IsBlank, Kind
  <2> HIDE DEF nc, roots, nodes
  <2> QED
    BY <1>6, <1>7, <2>1
<1>9. SchemaPart(doc, p) \subseteq OwnedPropertySchemaLines(rdf, p)
  BY <1>2, <1>3, <1>8, SchemaIndependent
<1>10. ASSUME NEW t \in OwnedPropertySchemaLines(rdf, p)
       PROVE  t \in rdf /\ Kind(t[1]) # "dump"
  <2> DEFINE some == {n \in Nodes(rdf) : Kind(n) # "dump"}
  <2>1. \A u \in rdf : u[3] \in some
    BY <1>4, NodesOfLines
  <2>2. roots \subseteq some /\ \A u \in inner : u[1] \in some => u[3] \in some
    BY <2>1
  <2>3. nodes \subseteq some
    <3> HIDE DEF roots, inner, some
    <3> QED
      BY <1>1, <2>2, ClosureStaysWithin
  <2> QED
    BY <1>2, <2>3
<1>11. ASSUME ~Points(found[p].claims)
       PROVE  OwnedPropertySchemaLines(rdf, p) \subseteq SchemaPart(doc, p)
  <2>1. ASSUME NEW u \in rdf, u[1] = Entity(p), ~Dependent(u[3]), u[3] \in Subjects(rdf)
        PROVE  u[3] \in own
    <3>1. Kind(u[3]) \in {"page", "entity", "statement", "value", "direct", "novalue", "blank"}
      <4>1. PICK t \in rdf : u[3] = t[1]
        BY <2>1 DEF Subjects
      <4> QED
        BY <1>4, <2>1, <4>1
    <3>2. Kind(u[3]) \notin {"statement", "value"}
      BY <2>1 DEF Dependent, Kind
    <3>3. u \notin rest
      BY <3>1 DEF Remarks
    <3>4. PICK f \in DOMAIN found : u \in PartOf(found, f)
      <4>1. ASSUME NEW f, u \in SchemaPart(doc, f) PROVE FALSE
        BY <2>1, <4>1, SchemaIndependent, Kinds
      <4> QED
        BY <1>5, <3>3, <4>1
    <3>5. f = p
      BY <2>1, <3>4, SubjectsOfPart, Kinds, Names DEF PartOf
    <3>6. \/ u \in {<<EntityDocument(p), "about", Entity(p)>>,
                   <<EntityDocument(p), "version", Literal("integer", found[p].rev)>>,
                   <<Entity(p), "label", Literal("text", found[p].rev)>>}
          \/ \E k \in found[p].claims :
                \/ u = <<Entity(p), "p", Statement(p, k)>>
                \/ k.kind = "item" /\ u \in {<<Entity(p), "direct", Entity(k.of)>>,
                                           <<Statement(p, k), "ps", Entity(k.of)>>}
                \/ k.kind # "item" /\ u \in {<<Entity(p), "direct", Decimal(k.of, "export")>>,
                                           <<Statement(p, k), "psv", Value(k.of)>>,
                                           <<Value(k.of), "amount", Decimal(k.of, "export")>>}
          \/ u \in PropertyPart(p)
      BY <3>4, <3>5, PartLines DEF PartOf
    <3>7. CASE u \in {<<EntityDocument(p), "about", Entity(p)>>,
                     <<EntityDocument(p), "version", Literal("integer", found[p].rev)>>,
                     <<Entity(p), "label", Literal("text", found[p].rev)>>}
      BY <2>1, <3>1, <3>7, Kinds
    <3>8. CASE u \in PropertyPart(p)
      <4>1. u[3] \in {Direct(p), ValueProp(p), Literal("iri", "Property"), NoValue(p)}
        BY <3>8 DEF PropertyPart
      <4> QED
        BY <3>1, <3>2, <4>1, Kinds
    <3>9. CASE \E k \in found[p].claims :
                \/ u = <<Entity(p), "p", Statement(p, k)>>
                \/ u = <<Entity(p), "direct", Decimal(k.of, "export")>>
                \/ u = <<Statement(p, k), "psv", Value(k.of)>>
                \/ u = <<Value(k.of), "amount", Decimal(k.of, "export")>>
      <4>1. \E k \in found[p].claims :
               \/ u[3] \in {Statement(p, k), Value(k.of), Decimal(k.of, "export")}
        BY <3>9
      <4> QED
        BY <3>1, <3>2, <4>1, Kinds
    <3>10. \A k \in found[p].claims : k.kind # "item"
      BY <1>11 DEF Points
    <3> QED
      BY <3>6, <3>7, <3>8, <3>9, <3>10
  <2>2. roots \subseteq own
    BY <2>1
  <2>3. ASSUME NEW t \in rdf, NEW f, t \in SchemaPart(doc, f), t[1] \in own
        PROVE  t \in SchemaPart(doc, p) /\ (IsBlank(t[3]) => t[3] \in own)
    <3>1. t[1] \in {Direct(f), NoValue(f), Blank(doc, f)}
      BY <2>3, SchemaIndependent
    <3>2. f = p
      BY <2>3, <3>1, Kinds, Names
    <3>3. IsBlank(t[3]) => t = <<NoValue(f), "complementOf", Blank(doc, f)>>
      BY <2>3, SchemaIndependent
    <3> QED
      BY <2>3, <3>2, <3>3
  <2>4. \A t \in inner : t[1] \in own => t[3] \in own
    BY <1>4, <2>3
  <2>5. nodes \subseteq own
    <3> HIDE DEF roots, inner, own
    <3> QED
      BY <1>1, <2>2, <2>4, ClosureStaysWithin
  <2>6. ASSUME NEW t \in rdf, t[1] \in own
        PROVE  t \in SchemaPart(doc, p)
    <3>1. Kind(t[1]) \in {"direct", "novalue", "blank"}
      BY <2>6, Kinds
    <3> QED
      BY <1>4, <2>3, <2>6, <3>1
  <2> QED
    BY <1>2, <2>5, <2>6
<1> QED
  BY <1>9, <1>10, <1>11 DEF rdf

\* Lines about the dump itself.
DumpRemarks(rest) == Remarks(rest) /\ \A t \in rest : t[1] = DumpNode

OwnNames(S) == {EntityGraphName(e) : e \in S} \cup {SchemaGraphName(p) : p \in S \cap PropertyIds}

\* A document names the entities it describes (discoverEntities).
LEMMA EntitiesDiscovered ==
    ASSUME NEW doc, NEW found, Described(found), NEW rest, DumpRemarks(rest)
    PROVE  DiscoverEntities(Document(doc, found, rest)) = DOMAIN found
<1> DEFINE rdf == Document(doc, found, rest)
<1>1. ASSUME NEW e \in DOMAIN found
      PROVE  Entity(e) \in Subjects(rdf)
  <2>1. Label(e, found[e].rev) \in PartOf(found, e)
    BY DEF PartOf, EntityPart
  <2>2. Label(e, found[e].rev) \in rdf /\ Label(e, found[e].rev)[1] = Entity(e)
    BY <2>1, DocumentLines DEF Label
  <2> HIDE DEF rdf
  <2> QED
    BY <2>2 DEF Subjects
<1>2. ASSUME NEW s \in Subjects(rdf), s[1] = "entity"
      PROVE  \E e \in DOMAIN found : s = Entity(e)
  <2>1. PICK t \in rdf : s = t[1]
    BY <1>2 DEF Subjects
  <2>2. Kind(t[1]) = "entity"
    BY <1>2, <2>1 DEF Kind
  <2>3. t \notin rest
    BY <2>2, Kinds DEF DumpRemarks
  <2>4. \A f : t \notin SchemaPart(doc, f)
    BY <2>2, SchemaIndependent
  <2>5. PICK f \in DOMAIN found : t \in PartOf(found, f)
    BY <2>3, <2>4, DocumentLines
  <2>6. \/ t[1] \in {Entity(f), EntityDocument(f)}
        \/ \E k \in found[f].claims : t[1] = Statement(f, k) \/ t[1] = Value(k.of)
        \/ t[1] = ValueProp(f)
    <3>1. \/ t[1] \in {Entity(f), EntityDocument(f)}
          \/ \E k \in found[f].claims : \/ t[1] = Statement(f, k)
                                        \/ k.kind # "item" /\ t = <<Value(k.of), "amount", Decimal(k.of, "export")>>
          \/ f \in PropertyIds /\ t = <<ValueProp(f), "type", Literal("iri", "Property")>>
      BY <2>5, SubjectsOfPart DEF PartOf
    <3> QED
      BY <3>1
  <2>7. t[1] = Entity(f)
    BY <2>2, <2>6, Kinds
  <2> QED
    BY <2>1, <2>7
<1> HIDE DEF rdf
<1>3. \A e : Entity(e)[1] = "entity" /\ Entity(e)[2] = e
  BY DEF Entity
<1>4. DiscoverEntities(rdf) = DOMAIN found
  <2> DEFINE ids == {n[2] : n \in {s \in Subjects(rdf) : s[1] = "entity"}}
  <2>1. ASSUME NEW e \in DOMAIN found PROVE e \in ids
    <3>1. Entity(e) \in {s \in Subjects(rdf) : s[1] = "entity"}
      BY <1>1, <1>3
    <3> QED
      BY <1>3, <3>1
  <2>2. ASSUME NEW x \in ids PROVE x \in DOMAIN found
    <3>1. PICK s \in Subjects(rdf) : s[1] = "entity" /\ x = s[2]
      BY <2>2
    <3> QED
      BY <1>2, <1>3, <3>1
  <2>3. DiscoverEntities(rdf) = ids
    BY DEF DiscoverEntities
  <2> HIDE DEF ids
  <2> QED
    BY <2>1, <2>2, <2>3
<1> QED
  BY <1>4 DEF rdf

\* The names of the graphs of a document.
LEMMA GraphsOfDescribed ==
    ASSUME NEW doc, NEW found, Described(found), NEW rest, DumpRemarks(rest)
    PROVE  OwnGraphNames(Document(doc, found, rest)) = OwnNames(DOMAIN found)
<1> DEFINE rdf == Document(doc, found, rest)
<1>1. DiscoverEntities(rdf) = DOMAIN found
  BY EntitiesDiscovered
<1> HIDE DEF rdf
<1>2. OwnGraphNames(rdf) = OwnNames(DOMAIN found)
  BY <1>1 DEF OwnGraphNames, OwnNames
<1> QED
  BY <1>2 DEF rdf

LEMMA GraphNames ==
    /\ \A e : EntityGraphName(e)[1] = "entity" /\ EntityGraphName(e)[2] = e
    /\ \A p : SchemaGraphName(p)[1] = "schema" /\ SchemaGraphName(p)[2] = p
    /\ GlobalGraphName[1] = "global"
    /\ \A e, f : EntityGraphName(e) = EntityGraphName(f) => e = f
    /\ \A e, f : SchemaGraphName(e) = SchemaGraphName(f) => e = f
    /\ \A e, f : EntityGraphName(e) # SchemaGraphName(f)
BY DEF EntityGraphName, SchemaGraphName, GlobalGraphName

LEMMA OwnLinesOfName ==
    ASSUME NEW rdf, NEW e
    PROVE  /\ OwnedLines(rdf, EntityGraphName(e)) = OwnedEntityLines(rdf, e)
           /\ OwnedLines(rdf, SchemaGraphName(e)) = OwnedPropertySchemaLines(rdf, e)
BY GraphNames DEF OwnedLines

\* The graphs of a full dump.
LEMMA SnapshotGraphs ==
    ASSUME NEW doc, NEW found, Described(found), NEW rest, DumpRemarks(rest)
    PROVE  LET parts == PartitionSnapshot(Document(doc, found, rest))
           IN  /\ DOMAIN parts = OwnNames(DOMAIN found) \cup {GlobalGraphName}
               /\ \A e \in DOMAIN found : parts[EntityGraphName(e)] = PartOf(found, e)
               /\ \A p \in DOMAIN found : p \in PropertyIds =>
                     /\ SchemaPart(doc, p) \subseteq parts[SchemaGraphName(p)]
                     /\ ~Points(found[p].claims) => parts[SchemaGraphName(p)] = SchemaPart(doc, p)
               /\ parts[GlobalGraphName] = rest
<1> DEFINE rdf == Document(doc, found, rest)
           names == OwnNames(DOMAIN found)
           parts == PartitionSnapshot(rdf)
<1>1. OwnGraphNames(rdf) = names /\ Remarks(rest)
  BY GraphsOfDescribed DEF DumpRemarks
<1>2. ASSUME NEW e \in DOMAIN found
      PROVE  OwnedEntityLines(rdf, e) = PartOf(found, e)
  <2>1. RemarksOn(rest, e) = {}
    BY Kinds DEF RemarksOn, DumpRemarks
  <2> QED
    BY <1>1, <2>1, OwnGraph
<1>3. ASSUME NEW p \in DOMAIN found, p \in PropertyIds
      PROVE  /\ SchemaPart(doc, p) \subseteq OwnedPropertySchemaLines(rdf, p)
             /\ \A t \in OwnedPropertySchemaLines(rdf, p) : t \in rdf /\ Kind(t[1]) # "dump"
             /\ ~Points(found[p].claims) => OwnedPropertySchemaLines(rdf, p) = SchemaPart(doc, p)
  BY <1>1, <1>3, SchemaGraph
<1>4. \A t : t \in rdf <=>
         \/ t \in rest
         \/ \E e \in DOMAIN found : t \in PartOf(found, e) \/ (e \in PropertyIds /\ t \in SchemaPart(doc, e))
  BY DocumentLines
<1>5. GlobalGraphName \notin names
  BY GraphNames DEF OwnNames
<1> HIDE DEF rdf
<1>6. parts = [n \in names \cup {GlobalGraphName} |->
                 IF n = GlobalGraphName THEN rdf \ (UNION {OwnedLines(rdf, m) : m \in names})
                 ELSE OwnedLines(rdf, n)]
  <2> DEFINE owned == [n \in names |-> OwnedLines(rdf, n)]
  <2>1. \A n \in names : owned[n] = OwnedLines(rdf, n)
    OBVIOUS
  <2>2. {owned[m] : m \in names} = {OwnedLines(rdf, m) : m \in names}
    BY <2>1
  <2>3. parts = [n \in names \cup {GlobalGraphName} |->
                   IF n = GlobalGraphName THEN rdf \ (UNION {owned[m] : m \in names}) ELSE owned[n]]
    BY <1>1 DEF PartitionSnapshot
  <2> HIDE DEF owned, names
  <2> QED
    BY <2>1, <2>2, <2>3
<1>7. \A e \in DOMAIN found : EntityGraphName(e) \in names
  BY DEF OwnNames
<1>8. \A p \in DOMAIN found : p \in PropertyIds => SchemaGraphName(p) \in names
  BY DEF OwnNames
<1>9. \A m \in names : \/ \E e \in DOMAIN found : m = EntityGraphName(e)
                       \/ \E p \in DOMAIN found : p \in PropertyIds /\ m = SchemaGraphName(p)
  BY DEF OwnNames
<1> HIDE DEF names, parts
<1>10. \A e \in DOMAIN found : OwnedLines(rdf, EntityGraphName(e)) = PartOf(found, e)
  BY <1>2, OwnLinesOfName
<1>11. \A p : OwnedLines(rdf, SchemaGraphName(p)) = OwnedPropertySchemaLines(rdf, p)
  BY OwnLinesOfName
<1>12. \A e \in DOMAIN found : parts[EntityGraphName(e)] = PartOf(found, e)
  BY <1>5, <1>6, <1>7, <1>10
<1>13. \A p \in DOMAIN found : p \in PropertyIds => parts[SchemaGraphName(p)] = OwnedPropertySchemaLines(rdf, p)
  BY <1>5, <1>6, <1>8, <1>11
<1>14. parts[GlobalGraphName] = rest
  <2>1. parts[GlobalGraphName] = rdf \ (UNION {OwnedLines(rdf, m) : m \in names})
    BY <1>6
  <2>2. ASSUME NEW t \in rest, NEW m \in names, t \in OwnedLines(rdf, m)
        PROVE  FALSE
    <3>1. Kind(t[1]) = "dump"
      BY Kinds DEF DumpRemarks
    <3>2. CASE \E e \in DOMAIN found : m = EntityGraphName(e)
      BY <1>10, <2>2, <3>1, <3>2, SubjectsOfPart DEF PartOf
    <3>3. CASE \E p \in DOMAIN found : p \in PropertyIds /\ m = SchemaGraphName(p)
      BY <1>3, <1>11, <2>2, <3>1, <3>3
    <3> QED
      BY <1>9, <3>2, <3>3
  <2>3. ASSUME NEW t \in rdf, t \notin rest
        PROVE  \E m \in names : t \in OwnedLines(rdf, m)
    <3>1. PICK e \in DOMAIN found : t \in PartOf(found, e) \/ (e \in PropertyIds /\ t \in SchemaPart(doc, e))
      BY <1>4, <2>3
    <3>2. CASE t \in PartOf(found, e)
      BY <1>7, <1>10, <3>2
    <3>3. CASE e \in PropertyIds /\ t \in SchemaPart(doc, e)
      BY <1>3, <1>8, <1>11, <3>3
    <3> QED
      BY <3>1, <3>2, <3>3
  <2>4. rest \subseteq rdf
    BY <1>4
  <2> QED
    BY <2>1, <2>2, <2>3, <2>4
<1> QED
  BY <1>3, <1>6, <1>12, <1>13, <1>14 DEF parts, names, rdf

\* The graphs of the document of one entity.
LEMMA EntityGraphs ==
    ASSUME NEW doc, NEW found, Described(found), NEW rest, Remarks(rest), NEW e, DOMAIN found = {e}
    PROVE  LET parts == PartitionEntity(Document(doc, found, rest), e)
           IN  /\ DOMAIN parts = OwnNames({e})
               /\ parts[EntityGraphName(e)] = PartOf(found, e) \cup RemarksOn(rest, e)
               /\ e \in PropertyIds /\ ~Points(found[e].claims) => parts[SchemaGraphName(e)] = SchemaPart(doc, e)
<1> DEFINE rdf == Document(doc, found, rest)
           parts == PartitionEntity(rdf, e)
           names == {EntityGraphName(e)} \cup (IF e \in PropertyIds THEN {SchemaGraphName(e)} ELSE {})
<1>1. parts = [n \in names |-> OwnedLines(rdf, n)]
  BY DEF PartitionEntity
<1>2. names = OwnNames({e})
  <2>1. {e} \cap PropertyIds = IF e \in PropertyIds THEN {e} ELSE {}
    OBVIOUS
  <2> QED
    BY <2>1 DEF OwnNames
<1>3. EntityGraphName(e) \in names /\ (e \in PropertyIds => SchemaGraphName(e) \in names)
  OBVIOUS
<1>4. OwnedEntityLines(rdf, e) = PartOf(found, e) \cup RemarksOn(rest, e)
  BY OwnGraph
<1>5. e \in PropertyIds /\ ~Points(found[e].claims) => OwnedPropertySchemaLines(rdf, e) = SchemaPart(doc, e)
  BY SchemaGraph
<1> HIDE DEF rdf, names
<1> QED
  BY <1>1, <1>2, <1>3, <1>4, <1>5, OwnLinesOfName DEF rdf

-----------------------------------------------------------------------------
\* Normalization removes remarks only.
Export(t) == t[1] = DumpNode \/ (t[1][1] = "page" /\ t[2] \in EntityExportPredicates)

\* Normalization takes the remarks about exports away and nothing else.
LEMMA NormalizedDocument ==
    ASSUME NEW doc, NEW found, NEW rest
    PROVE  NormalizeWikibaseRdf(Document(doc, found, rest)) = Document(doc, found, {t \in rest : ~Export(t)})
<1> DEFINE rdf == Document(doc, found, rest)
           others == {t \in rest : ~Export(t)}
<1>1. NormalizeWikibaseRdf(rdf) = {t \in rdf : ~Export(t)}
  <2> HIDE DEF rdf
  <2> QED
    BY DEF NormalizeWikibaseRdf, DumpExport, EntityExport, Export
<1>2. ASSUME NEW e, NEW t \in PartOf(found, e)
      PROVE  ~Export(t)
  <2>1. Kind(t[1]) \in {"page", "entity", "statement", "value"}
    BY <1>2, SubjectsOfPart DEF PartOf
  <2>2. t[1] # DumpNode
    BY <2>1, Kinds
  <2>3. CASE t[2] \in {"license", "softwareVersion"}
    <3>1. \/ t \in {<<EntityDocument(e), "about", Entity(e)>>,
                    <<EntityDocument(e), "version", Literal("integer", found[e].rev)>>,
                    <<Entity(e), "label", Literal("text", found[e].rev)>>}
          \/ \E k \in found[e].claims :
                \/ t = <<Entity(e), "p", Statement(e, k)>>
                \/ k.kind = "item" /\ t \in {<<Entity(e), "direct", Entity(k.of)>>,
                                           <<Statement(e, k), "ps", Entity(k.of)>>}
                \/ k.kind # "item" /\ t \in {<<Entity(e), "direct", Decimal(k.of, "export")>>,
                                           <<Statement(e, k), "psv", Value(k.of)>>,
                                           <<Value(k.of), "amount", Decimal(k.of, "export")>>}
          \/ t \in PropertyPart(e)
      BY <1>2, PartLines DEF PartOf
    <3>2. t[2] \in {"about", "version", "label", "p", "direct", "ps", "psv", "amount", "directClaim",
                    "statementValue", "type", "novalue"}
      <4>1. CASE t \in PropertyPart(e)
        BY <4>1 DEF PropertyPart
      <4>2. CASE t \notin PropertyPart(e)
        BY <3>1, <4>2
      <4> QED
        BY <4>1, <4>2
    <3> QED
      BY <2>3, <3>2
  <2> QED
    BY <2>2, <2>3 DEF Export, EntityExportPredicates
<1>3. ASSUME NEW e, NEW t \in SchemaPart(doc, e)
      PROVE  ~Export(t)
  <2>1. Kind(t[1]) \in {"direct", "novalue", "blank"}
    BY <1>3, SchemaIndependent
  <2> QED
    BY <2>1, Kinds DEF Export, Kind
<1>4. ASSUME NEW t
      PROVE  t \in {u \in rdf : ~Export(u)} <=> t \in Document(doc, found, others)
  BY <1>2, <1>3, DocumentLines
<1> QED
  BY <1>1, <1>4

DumpLines(time) ==
    {<<DumpNode, "type", Literal("iri", "Dataset")>>, <<DumpNode, "license", Literal("iri", "cc0")>>,
     <<DumpNode, "softwareVersion", Literal("version", "1.0")>>,
     <<DumpNode, "dateModified", Literal("time", time)>>}

\* The dump is a document about the entities found.
LEMMA DumpDocument ==
    ASSUME NEW found, NEW time
    PROVE  FullDump(found, time) = Document("dump", found, DumpLines(time))
BY DEF FullDump, Document, DumpLines

LEMMA DumpLinesAreRemarks ==
    ASSUME NEW time
    PROVE  DumpRemarks(DumpLines(time)) /\ \A t \in DumpLines(time) : Export(t)
<1> DEFINE a == <<DumpNode, "type", Literal("iri", "Dataset")>>
           b == <<DumpNode, "license", Literal("iri", "cc0")>>
           c == <<DumpNode, "softwareVersion", Literal("version", "1.0")>>
           d == <<DumpNode, "dateModified", Literal("time", time)>>
<1>1. \A t \in {a, b, c, d} : /\ t = <<t[1], t[2], t[3]>> /\ t[1] = DumpNode
                              /\ Kind(t[1]) = "dump" /\ Kind(t[3]) = "literal"
  BY Kinds
<1>2. DumpLines(time) = {a, b, c, d} /\ {a, b, c, d} = {a, b, c} \cup {d}
  BY DEF DumpLines
<1> HIDE DEF a, b, c, d
<1>3. IsFiniteSet({a, b, c}) /\ IsFiniteSet({d})
  BY SmallSets, FS_Singleton
<1>4. IsFiniteSet({a, b, c} \cup {d})
  BY <1>3, FS_Union
<1>5. IsFiniteSet(DumpLines(time))
  BY <1>2, <1>4, Zenon
<1> QED
  BY <1>1, <1>2, <1>5 DEF DumpRemarks, Remarks, Export

\* Normalization works line by line.
LEMMA NormalLines ==
    ASSUME NEW lines
    PROVE  NormalizeLiterals(lines) = {NormalizeLiteral(t) : t \in lines}
BY DEF NormalizeLiterals

\* With one blank node, or none, there is nothing to search.
LEMMA FewNumberings ==
    ASSUME NEW lines, IsFiniteSet(lines), NEW n, BlankNodes(lines) \subseteq {n}
    PROVE  ~SearchLimit(lines)
<1> DEFINE S == BlankNodes(lines)
           Q == Numberings(Colours(lines))
<1>1. \A f \in Q : f \in [S -> 1..Cardinality(S)]
  BY NumberingIsFunction
<1>2. S = {} \/ S = {n}
  OBVIOUS
<1>3. Cardinality({n}) = 1
  BY FS_Singleton
<1>4. IsFiniteSet(Q)
  BY NumberingsFinite
<1> HIDE DEF S, Q
<1>5. ASSUME NEW f \in Q, NEW g \in Q
      PROVE  f = g
  <2>1. CASE S = {}
    BY <1>1, <2>1
  <2>2. CASE S = {n}
    <3>1. f \in [{n} -> 1..1] /\ g \in [{n} -> 1..1]
      BY <1>1, <1>3, <2>2
    <3> QED
      BY <3>1
  <2> QED
    BY <1>2, <2>1, <2>2
<1>6. Cardinality(Q) <= 1
  <2>1. CASE Q = {}
    BY <2>1, FS_EmptySet
  <2>2. CASE Q # {}
    <3>1. PICK f : Q = {f}
      BY <1>5, <2>2
    <3> QED
      BY <3>1, FS_Singleton
  <2> QED
    BY <2>1, <2>2
<1>7. Cardinality(Q) \in Nat
  BY <1>4, FS_CardinalityType
<1>8. MaxPermutations \in Nat /\ MaxPermutations >= 1
  BY CanonicalizationAssumption, SMT
<1>9. ~(Cardinality(Q) > MaxPermutations)
  BY <1>6, <1>7, <1>8, SMT
<1> QED
  BY <1>9 DEF SearchLimit, Q

\* What the store keeps of lines without blank nodes is what was put there.
LEMMA StoredCompared ==
    ASSUME NEW lines, IsFiniteSet(lines),
           \A t \in lines : /\ t = <<t[1], t[2], t[3]>> /\ ~IsBlank(t[1]) /\ ~IsBlank(t[3])
                            /\ ~IsMention(t[1]) /\ ~IsMention(t[3]) /\ Kind(t[1]) # "decimal"
    PROVE  Compare(lines, Stored(lines)) = "EQUAL"
<1> DEFINE keep(t) == <<StoredNode(t[1]), t[2], StoredNode(t[3])>>
<1>1. ASSUME NEW t \in lines
      PROVE  /\ NormalizeLiteral(keep(t)) = NormalizeLiteral(t)
             /\ Labels(Ends(t)) = {} /\ Labels(Ends(keep(t))) = {}
  <2>1. t = <<t[1], t[2], t[3]>> /\ ~IsBlank(t[1]) /\ ~IsBlank(t[3]) /\ t[1][1] # "decimal"
        /\ ~IsMention(t[1]) /\ ~IsMention(t[3])
    BY DEF Kind
  <2>2. StoredNode(t[1]) = t[1]
    BY <2>1 DEF StoredNode, IsBlank
  <2>3. StoredNode(t[3]) = IF t[3][1] = "decimal" THEN Decimal(t[3][2], "store") ELSE t[3]
    BY <2>1 DEF StoredNode, IsBlank
  <2>4. NormalizeLiteral(t) = <<t[1], t[2], IF t[3][1] = "decimal" THEN Decimal(t[3][2], "canonical") ELSE t[3]>>
    BY <2>1, NormalOfTriple
  <2>5. \A v, s : Decimal(v, s)[1] = "decimal" /\ Decimal(v, s)[2] = v
    BY DEF Decimal
  <2>6. NormalizeLiteral(keep(t)) = NormalizeLiteral(t)
    <3>1. NormalizeLiteral(<<t[1], t[2], StoredNode(t[3])>>) =
            <<t[1], t[2], IF StoredNode(t[3])[1] = "decimal"
                          THEN Decimal(StoredNode(t[3])[2], "canonical") ELSE StoredNode(t[3])>>
      BY NormalOfTriple
    <3>2. CASE t[3][1] = "decimal"
      BY <2>2, <2>3, <2>4, <2>5, <3>1, <3>2
    <3>3. CASE t[3][1] # "decimal"
      BY <2>2, <2>3, <2>4, <3>1, <3>3
    <3> QED
      BY <3>2, <3>3
  <2>7. Labels(Ends(t)) = {}
    BY <2>1 DEF Labels, Ends
  <2>8. keep(t)[1] = t[1] /\ keep(t)[3] = StoredNode(t[3])
    BY <2>2
  <2>9. ~IsBlank(keep(t)[1]) /\ ~IsMention(keep(t)[1]) /\ ~IsBlank(keep(t)[3]) /\ ~IsMention(keep(t)[3])
    BY <2>1, <2>3, <2>5, <2>8 DEF IsBlank, IsMention
  <2> HIDE DEF keep
  <2>10. Labels(Ends(keep(t))) = {}
    BY <2>9 DEF Labels, Ends
  <2> QED
    BY <2>6, <2>7, <2>10
<1>2. Stored(lines) = {keep(t) : t \in lines}
  BY DEF Stored
<1> HIDE DEF keep
<1>3. NormalizeLiterals(Stored(lines)) = NormalizeLiterals(lines)
  <2>1. {NormalizeLiteral(u) : u \in {keep(t) : t \in lines}} = {NormalizeLiteral(keep(t)) : t \in lines}
    OBVIOUS
  <2>2. {NormalizeLiteral(keep(t)) : t \in lines} = {NormalizeLiteral(t) : t \in lines}
    BY <1>1
  <2> QED
    BY <1>2, <2>1, <2>2, NormalLines
<1> DEFINE stored == Stored(lines)
<1>4. IsFiniteSet(stored)
  <2> DEFINE image == [t \in lines |-> keep(t)]
  <2>1. image \in [lines -> stored] /\ \A y \in stored : \E t \in lines : image[t] = y
    BY <1>2
  <2> HIDE DEF image, stored
  <2> QED
    BY <2>1, ImageFinite
<1>5. BlankNodes(lines) = {} /\ BlankNodes(stored) = {}
  <2>1. \A t \in lines \cup stored : Labels(Ends(t)) = {}
    BY <1>1, <1>2
  <2> HIDE DEF stored
  <2>2. ASSUME NEW g, g \subseteq lines \cup stored
        PROVE  BlankNodes(g) = {}
    BY <2>1, <2>2 DEF BlankNodes, Labels
  <2> QED
    BY <2>2
<1>6. ~SearchLimit(lines) /\ ~SearchLimit(stored)
  <2> HIDE DEF stored
  <2> QED
    BY <1>4, <1>5, FewNumberings
<1>7. Colours(lines) = Colours(stored)
  <2> HIDE DEF stored
  <2>1. Colours(lines) \in [{} -> Nat] /\ Colours(stored) \in [{} -> Nat]
    BY <1>4, <1>5, ColoursAreNumbers
  <2> QED
    BY <2>1
<1>8. \A f : Serialize(lines, f) = Serialize(stored, f)
  BY <1>3 DEF Serialize
<1> HIDE DEF stored
<1>9. Forms(lines) = Forms(stored)
  BY <1>7, <1>8 DEF Forms
<1>10. CanonicalForm(lines) = CanonicalForm(stored)
  <2>1. /\ CanonicalForm(lines) = CHOOSE least \in Forms(lines) : TRUE
        /\ CanonicalForm(stored) = CHOOSE least \in Forms(stored) : TRUE
    BY DEF CanonicalForm, Forms
  <2> QED
    BY <1>9, <2>1
<1> QED
  BY <1>6, <1>10 DEF Compare, Limited, SameGraph, Diff, stored

LEMMA NothingCompared == Compare({}, {}) = "EQUAL"
<1>1. Stored({}) = {}
  BY DEF Stored
<1>2. Compare({}, Stored({})) = "EQUAL"
  BY StoredCompared, FS_EmptySet
<1> QED
  BY <1>1, <1>2

\* Its nodes are neither blank nodes nor literals with a label.
LEMMA PlainPart ==
    ASSUME NEW e, NEW r, NEW claims, NEW t \in EntityPart(e, r, claims)
    PROVE  /\ t = <<t[1], t[2], t[3]>> /\ ~IsBlank(t[1]) /\ ~IsBlank(t[3])
           /\ ~IsMention(t[1]) /\ ~IsMention(t[3]) /\ Kind(t[1]) # "decimal"
<1>1. Kind(t[1]) \in {"page", "entity", "statement", "value"} /\ ~IsBlank(t[3])
  BY SubjectsOfPart
<1>2. Kind(t[3]) # "mention"
  BY LineEnds, Kinds
<1> QED
  BY <1>1, <1>2, LineEnds DEF IsBlank, IsMention, Kind

\* So does the graph of an entity.
LEMMA PartCompared ==
    ASSUME NEW e, NEW r, NEW claims \in Contents
    PROVE  Compare(EntityPart(e, r, claims), Stored(EntityPart(e, r, claims))) = "EQUAL"
<1>1. IsFiniteSet(EntityPart(e, r, claims))
  <2>1. EntityPart(e, r, claims) \subseteq EntityLines("dump", e, r, claims)
    BY EntityLinesSplit
  <2> QED
    BY <2>1, ClaimParts, PartFinite, FS_Subset
<1>2. ASSUME NEW t \in EntityPart(e, r, claims)
      PROVE  /\ t = <<t[1], t[2], t[3]>> /\ ~IsBlank(t[1]) /\ ~IsBlank(t[3])
             /\ ~IsMention(t[1]) /\ ~IsMention(t[3]) /\ Kind(t[1]) # "decimal"
  BY PlainPart
<1> QED
  BY <1>1, <1>2, StoredCompared

LEMMA SchemaLine ==
    ASSUME NEW doc, NEW p, NEW t
    PROVE  t \in SchemaPart(doc, p) <=> \/ t = <<Direct(p), "type", Literal("iri", "Property")>>
                                        \/ t = <<NoValue(p), "complementOf", Blank(doc, p)>>
                                        \/ t = <<Blank(doc, p), "onProperty", Direct(p)>>
BY DEF SchemaPart

LEMMA StoredSchema ==
    ASSUME NEW doc, NEW p
    PROVE  Stored(SchemaPart(doc, p)) = SchemaPart("store", p)
<1>1. /\ StoredNode(Direct(p)) = Direct(p) /\ StoredNode(NoValue(p)) = NoValue(p)
      /\ StoredNode(Blank(doc, p)) = Blank("store", p)
      /\ StoredNode(Literal("iri", "Property")) = Literal("iri", "Property")
  BY DEF StoredNode, Direct, NoValue, Blank, Literal
<1> QED
  BY <1>1 DEF Stored, SchemaPart

LEMMA SchemaTriples ==
    ASSUME NEW doc, NEW p
    PROVE  LET a == SchemaPart(doc, p)
           IN  /\ Comparable(a) /\ ComparesByStructure(a) /\ NormalizeLiterals(a) = a /\ Triples(a)
               /\ BlankNodes(a) = {Blank(doc, p)}
<1> DEFINE a == SchemaPart(doc, p)
<1>1. ASSUME NEW t \in a
      PROVE  /\ Settled(t) /\ t[1][1] # "c14n" /\ t[3][1] # "c14n"
             /\ IsBlank(t[1]) => t[1] = Blank(doc, p)
             /\ IsBlank(t[3]) => t[3] = Blank(doc, p)
  <2>1. /\ Direct(p)[1] = "direct" /\ NoValue(p)[1] = "novalue" /\ Blank(doc, p)[1] = "blank"
        /\ Literal("iri", "Property")[1] = "literal"
    BY DEF Direct, NoValue, Blank, Literal
  <2> QED
    BY <2>1, SchemaLine DEF Settled, IsTriple, IsMention, IsBlank
<1>2. IsFiniteSet(a)
  BY SmallSets DEF SchemaPart
<1> DEFINE nc == <<NoValue(p), "complementOf", Blank(doc, p)>>
<1>3. nc \in a /\ nc[3] = Blank(doc, p) /\ IsBlank(Blank(doc, p))
  BY SchemaLine, Kinds DEF IsBlank, Kind
<1> HIDE DEF a, nc
<1>4. Triples(a)
  BY <1>1, <1>2 DEF Triples
<1>5. NormalizeLiterals(a) = a /\ \A t \in a : NormalizeLiteral(t) = t
  BY <1>1, <1>4, TriplesAreNormal, SettledIsNormal
<1>6. BlankNodes(a) = {Blank(doc, p)}
  <2>1. BlankNodes(a) = {n \in Nodes(a) : IsBlank(n)}
    BY <1>4, BlankNodesAre
  <2>2. Blank(doc, p) \in Nodes(a)
    BY <1>3, NodesOfLines
  <2>3. \A n \in Nodes(a) : IsBlank(n) => n = Blank(doc, p)
    BY <1>1 DEF Nodes, Ends
  <2> QED
    BY <1>3, <2>1, <2>2, <2>3
<1>7. Comparable(a)
  BY <1>1, <1>2 DEF Comparable, Plain, Settled
<1>8. NoMentions(a) /\ NoRepetitions(a)
  BY <1>1, <1>5 DEF NoMentions, NoRepetitions, Settled, Ends
<1>9. NoPrefixes(a)
  <2>1. ASSUME NEW t \in a, NEW x \in LongerLabels, {x[1], x[2]} \subseteq Labels(Ends(t))
        PROVE  FALSE
    <3>1. Labels(Ends(t)) \subseteq {Blank(doc, p)}
      BY <1>1, LabelsOfTriple DEF Settled, Ends
    <3>2. x[1] = x[2]
      BY <2>1, <3>1
    <3> QED
      BY <3>2, CanonicalizationAssumption
  <2> QED
    BY <2>1 DEF NoPrefixes
<1> QED
  BY <1>4, <1>5, <1>6, <1>7, <1>8, <1>9 DEF ComparesByStructure, a

\* And the schema graph, whose one blank node the store renames.
LEMMA SchemaCompared ==
    ASSUME NEW doc, NEW other, NEW p
    PROVE  Compare(SchemaPart(doc, p), Stored(SchemaPart(other, p))) = "EQUAL"
<1> DEFINE a == SchemaPart(doc, p)
           b == SchemaPart("store", p)
           h == [n \in {Blank(doc, p)} |-> Blank("store", p)]
<1>1. /\ Comparable(a) /\ ComparesByStructure(a) /\ NormalizeLiterals(a) = a /\ Triples(a)
      /\ BlankNodes(a) = {Blank(doc, p)}
      /\ Comparable(b) /\ ComparesByStructure(b) /\ NormalizeLiterals(b) = b /\ Triples(b)
      /\ BlankNodes(b) = {Blank("store", p)}
  BY SchemaTriples
<1>2. h \in Bijection({Blank(doc, p)}, {Blank("store", p)})
  BY DEF Bijection, Injection, Surjection, IsInjective
<1>3. /\ Moved(Direct(p), h) = Direct(p) /\ Moved(NoValue(p), h) = NoValue(p)
      /\ Moved(Literal("iri", "Property"), h) = Literal("iri", "Property")
      /\ Moved(Blank(doc, p), h) = Blank("store", p)
  <2>1. /\ Direct(p) # Blank(doc, p) /\ NoValue(p) # Blank(doc, p)
        /\ Literal("iri", "Property") # Blank(doc, p)
    BY Kinds
  <2> QED
    BY <2>1 DEF Moved
<1> HIDE DEF h
<1>4. {MovedLine(t, h) : t \in a} = b
  BY <1>3 DEF MovedLine, SchemaPart
<1> HIDE DEF a, b
<1>5. Maps(h, a, b)
  BY <1>1, <1>2, <1>4, Zenon DEF Maps
<1>6. Isomorphic(a, b)
  <2>1. NoMentions(a) /\ NoMentions(b)
    BY <1>1 DEF ComparesByStructure
  <2>2. Isomorphic(a, b) <=> \E f : Maps(f, a, b)
    BY <1>1, <2>1, IsomorphicMaps
  <2> QED
    BY <1>5, <2>2
<1>7. ~SearchLimit(a) /\ ~SearchLimit(b)
  BY <1>1, FewNumberings DEF Comparable
<1>8. Compare(a, b) # "DIFFERENT"
  BY <1>1, <1>6, CompareDecides
<1>9. Compare(a, b) = "EQUAL"
  BY <1>7, <1>8 DEF Compare, Limited
<1> QED
  BY <1>9, StoredSchema DEF a, b

\* The graphs of a normalized dump.
LEMMA ExpectedGraphs ==
    ASSUME NEW found, Described(found)
    PROVE  /\ DOMAIN Expected(found) = OwnNames(DOMAIN found) \cup {GlobalGraphName}
           /\ \A e \in DOMAIN found : Expected(found)[EntityGraphName(e)] = PartOf(found, e)
           /\ \A p \in DOMAIN found : p \in PropertyIds =>
                 /\ SchemaPart("dump", p) \subseteq Expected(found)[SchemaGraphName(p)]
                 /\ ~Points(found[p].claims) => Expected(found)[SchemaGraphName(p)] = SchemaPart("dump", p)
           /\ Expected(found)[GlobalGraphName] = {}
<1>1. Dump(found) = Document("dump", found, DumpLines(lastRcid))
  BY DumpDocument DEF Dump
<1>2. {t \in DumpLines(lastRcid) : ~Export(t)} = {}
  BY DumpLinesAreRemarks
<1>3. NormalizeWikibaseRdf(Dump(found)) = Document("dump", found, {})
  BY <1>1, <1>2, NormalizedDocument
<1>4. DumpRemarks({})
  BY FS_EmptySet DEF DumpRemarks, Remarks
<1> DEFINE parts == PartitionSnapshot(Document("dump", found, {}))
<1>5. Expected(found) = parts
  BY <1>3 DEF Expected
<1>6. /\ DOMAIN parts = OwnNames(DOMAIN found) \cup {GlobalGraphName}
      /\ \A e \in DOMAIN found : parts[EntityGraphName(e)] = PartOf(found, e)
      /\ \A p \in DOMAIN found : p \in PropertyIds =>
            /\ SchemaPart("dump", p) \subseteq parts[SchemaGraphName(p)]
            /\ ~Points(found[p].claims) => parts[SchemaGraphName(p)] = SchemaPart("dump", p)
      /\ parts[GlobalGraphName] = {}
  <2> HIDE <1>3, <1>5
  <2> QED
    BY <1>4, SnapshotGraphs
<1> HIDE DEF parts
<1> QED
  BY <1>5, <1>6

One(e, r, claims) == [f \in {e} |-> [rev |-> r, claims |-> claims]]
Licences(e) ==
    {<<EntityDocument(e), "license", Literal("iri", "cc0")>>,
     <<EntityDocument(e), "softwareVersion", Literal("version", "1.0")>>}
Mentions(e, claims, current) ==
    {Label(k.of, current[k.of]) : k \in {c \in claims : c.kind = "item" /\ c.of \in DOMAIN current \ {e}}}

LEMMA EntityDocumentOf ==
    ASSUME NEW e, NEW r, NEW claims, NEW current
    PROVE  EntityData(e, r, claims, current)
             = Document("entity", One(e, r, claims), Licences(e) \cup Mentions(e, claims, current))
<1> DEFINE found == One(e, r, claims)
<1>1. DOMAIN found = {e} /\ found[e].rev = r /\ found[e].claims = claims
  BY DEF One
<1> HIDE DEF found
<1>2. UNION {EntityLines("entity", f, found[f].rev, found[f].claims) : f \in DOMAIN found}
        = EntityLines("entity", e, r, claims)
  BY <1>1
<1>3. EntityData(e, r, claims, current) =
        (EntityLines("entity", e, r, claims) \cup Licences(e)) \cup Mentions(e, claims, current)
  BY DEF EntityData, Licences, Mentions
<1> QED
  BY <1>2, <1>3 DEF Document, found

LEMMA LabelsAreRemarks ==
    ASSUME NEW e \in Entities, NEW claims \in Contents, NEW current
    PROVE  LET labels == Mentions(e, claims, current)
           IN  /\ Remarks(labels) /\ RemarksOn(labels, e) = {}
               /\ \A t \in labels : ~Export(t)
               /\ ~Points(claims) => labels = {}
<1> DEFINE chosen == {c \in claims : c.kind = "item" /\ c.of \in DOMAIN current \ {e}}
           labels == Mentions(e, claims, current)
           image == [k \in chosen |-> Label(k.of, current[k.of])]
<1>1. IsFiniteSet(chosen)
  BY ClaimParts, FS_Subset
<1>2. image \in [chosen -> labels] /\ \A y \in labels : \E k \in chosen : image[k] = y
  BY DEF Mentions
<1>3. IsFiniteSet(labels)
  <2> HIDE DEF image, labels, chosen
  <2> QED
    BY <1>1, <1>2, ImageFinite
<1>4. ASSUME NEW t \in labels
      PROVE  /\ t = <<t[1], t[2], t[3]>> /\ Kind(t[1]) = "entity" /\ Kind(t[3]) = "literal"
             /\ t[1] # Entity(e) /\ t[1] # EntityDocument(e) /\ ~Export(t)
  <2>1. PICK k \in chosen : t = Label(k.of, current[k.of])
    BY DEF Mentions
  <2>2. k.of # e
    BY <2>1
  <2>3. /\ t = <<Entity(k.of), "label", Literal("text", current[k.of])>>
        /\ t[1] = Entity(k.of) /\ t[3] = Literal("text", current[k.of]) /\ t = <<t[1], t[2], t[3]>>
    BY <2>1 DEF Label
  <2>4. Kind(t[1]) = "entity" /\ Kind(t[3]) = "literal"
    BY <2>3, Kinds
  <2>5. t[1] # DumpNode /\ t[1][1] # "page"
    BY <2>4, Kinds DEF Kind
  <2> QED
    BY <2>2, <2>3, <2>4, <2>5, Kinds, Names DEF Export
<1>5. ~Points(claims) => labels = {}
  BY DEF Points, Mentions
<1> HIDE DEF labels
<1> QED
  BY <1>3, <1>4, <1>5 DEF Remarks, RemarksOn, labels

LEMMA LicencesAreRemarks ==
    ASSUME NEW e
    PROVE  /\ Remarks(Licences(e)) /\ RemarksOn(Licences(e), e) = Licences(e)
           /\ \A t \in Licences(e) : Export(t) /\ t[1] = EntityDocument(e)
<1>1. ASSUME NEW t \in Licences(e)
      PROVE  /\ t = <<t[1], t[2], t[3]>> /\ t[1] = EntityDocument(e) /\ Kind(t[3]) = "literal"
             /\ t[2] \in EntityExportPredicates
  BY Kinds DEF Licences, EntityExportPredicates
<1>2. IsFiniteSet(Licences(e))
  BY SmallSets DEF Licences
<1> QED
  BY <1>1, <1>2, Kinds DEF Remarks, RemarksOn, Export, Kind

\* The graphs of EntityData, as they are and normalized.
LEMMA EntityDataGraphs ==
    ASSUME NEW e \in Entities, NEW r, NEW claims \in Contents, NEW current
    PROVE  LET body == EntityData(e, r, claims, current)
               raw == PartitionEntity(body, e)
               normal == PartitionEntity(NormalizeWikibaseRdf(body), e)
           IN  /\ DOMAIN raw = OwnNames({e}) /\ DOMAIN normal = OwnNames({e})
               /\ raw[EntityGraphName(e)] = EntityPart(e, r, claims) \cup Licences(e)
               /\ normal[EntityGraphName(e)] = EntityPart(e, r, claims)
               /\ e \in PropertyIds /\ ~Points(claims) =>
                     /\ raw[SchemaGraphName(e)] = SchemaPart("entity", e)
                     /\ normal[SchemaGraphName(e)] = SchemaPart("entity", e)
               /\ ~UnknownMetadata(body, "ENTITY_DATA")
               /\ ~IdentityAbsent(NormalizeWikibaseRdf(body), e)
<1> DEFINE body == EntityData(e, r, claims, current)
           found == One(e, r, claims)
           labels == Mentions(e, claims, current)
           rest == Licences(e) \cup labels
           raw == PartitionEntity(body, e)
           normal == PartitionEntity(NormalizeWikibaseRdf(body), e)
<1>1. body = Document("entity", found, rest)
  BY EntityDocumentOf
<1>2. /\ DOMAIN found = {e} /\ found[e].rev = r /\ found[e].claims = claims /\ Described(found)
      /\ PartOf(found, e) = EntityPart(e, r, claims)
  BY DEF One, Described, PartOf
<1>3. /\ Remarks(labels) /\ RemarksOn(labels, e) = {} /\ \A t \in labels : ~Export(t)
  BY LabelsAreRemarks
<1>4. /\ Remarks(Licences(e)) /\ RemarksOn(Licences(e), e) = Licences(e)
      /\ \A t \in Licences(e) : Export(t) /\ t[1] = EntityDocument(e)
  BY LicencesAreRemarks
<1> HIDE DEF labels, found, body
<1>5. Remarks(rest) /\ RemarksOn(rest, e) = Licences(e)
  BY <1>3, <1>4, FS_Union DEF Remarks, RemarksOn
<1>6. {t \in rest : ~Export(t)} = labels
  BY <1>3, <1>4
<1> HIDE DEF rest
<1>7. NormalizeWikibaseRdf(body) = Document("entity", found, labels)
  BY <1>1, <1>6, NormalizedDocument
<1>8. /\ DOMAIN raw = OwnNames({e})
      /\ raw[EntityGraphName(e)] = EntityPart(e, r, claims) \cup Licences(e)
      /\ e \in PropertyIds /\ ~Points(claims) => raw[SchemaGraphName(e)] = SchemaPart("entity", e)
  BY <1>1, <1>2, <1>5, EntityGraphs
<1>9. /\ DOMAIN normal = OwnNames({e})
      /\ normal[EntityGraphName(e)] = EntityPart(e, r, claims) \cup RemarksOn(labels, e)
      /\ e \in PropertyIds /\ ~Points(claims) => normal[SchemaGraphName(e)] = SchemaPart("entity", e)
  <2>1. Remarks(labels)
    BY <1>3
  <2> HIDE <1>3
  <2> QED
    BY <1>2, <1>7, <2>1, EntityGraphs
<1>10. ~UnknownMetadata(body, "ENTITY_DATA")
  <2>1. ASSUME NEW t \in body PROVE t[1] # DumpNode
    <3>1. CASE t \in rest
      BY <1>3, <1>4, <3>1, Kinds DEF rest, Export
    <3>2. CASE t \in PartOf(found, e)
      BY <1>2, <3>2, SubjectsOfPart, Kinds
    <3>3. CASE t \in SchemaPart("entity", e)
      BY <3>3, SchemaIndependent, Kinds
    <3>4. t \in rest \/ \E f \in DOMAIN found : t \in PartOf(found, f) \/ t \in SchemaPart("entity", f)
      BY <1>1, <2>1, DocumentLines
    <3>5. t \in rest \/ t \in PartOf(found, e) \/ t \in SchemaPart("entity", e)
      BY <1>2, <3>4
    <3> QED
      BY <3>1, <3>2, <3>3, <3>5
  <2> QED
    BY <2>1 DEF UnknownMetadata, DumpExport
<1>11. ~IdentityAbsent(NormalizeWikibaseRdf(body), e)
  <2>1. Label(e, r) \in EntityPart(e, r, claims)
    BY DEF EntityPart
  <2>2. OwnedEntityLines(Document("entity", found, labels), e) = PartOf(found, e) \cup RemarksOn(labels, e)
    <3>1. Remarks(labels)
      BY <1>3
    <3>2. Described(found) /\ e \in DOMAIN found
      BY <1>2
    <3> QED
      BY <3>1, <3>2, OwnGraph
  <2> QED
    BY <1>2, <1>7, <2>1, <2>2 DEF IdentityAbsent
<1> QED
  BY <1>3, <1>8, <1>9, <1>10, <1>11 DEF body

-----------------------------------------------------------------------------
(***************************************************************************)
(* The wiki and the rows of its changes.                                   *)
(***************************************************************************)

EventRow == [rcid : Nat, kind : {"edit", "delete", "restore"}, entity : Entities, rev : Nat,
             old : Nat, mentions : {{}}, redirect : {FALSE}]

\* Each page names a revision of its own entity; what a row says of a page never
\* lies ahead of it.
WikiInv ==
    /\ revisions \in Seq(Entities)
    /\ contents \in Seq(SUBSET Claim) /\ Len(contents) = Len(revisions)
    /\ \A r \in 1..Len(revisions) : contents[r] \in Contents
    /\ pages \in [Entities -> [rev : Nat, exists : BOOLEAN, redirect : {None}]]
    /\ \A e \in Entities : pages[e].rev \in 1..Len(revisions) /\ revisions[pages[e].rev] = e
    /\ lastRcid \in Nat
    /\ rc \subseteq EventRow
    /\ \A x \in rc : x.rcid \in 1..lastRcid
    /\ \A x, y \in rc : x.rcid = y.rcid => x = y
    /\ \A x \in rc : x.kind = "edit" => x.rev <= pages[x.entity].rev /\ x.rev > 0

Newer(x) == {y \in rc : y.entity = x.entity /\ y.rcid > x.rcid}

\* What the last row of a page says of it; a deleted page came back by a later row.
LogInv ==
    \A x \in rc :
        /\ x.kind = "edit" /\ Newer(x) = {} => pages[x.entity].exists /\ pages[x.entity].rev = x.rev
        /\ x.kind = "delete" /\ pages[x.entity].exists => \E y \in Newer(x) : y.kind = "restore"
        /\ x.kind = "restore" /\ ~pages[x.entity].exists => \E y \in Newer(x) : y.kind = "delete"

\* The claims an edit may write are a set of claims.
LEMMA ContentsTyped ==
    ASSUME NEW claims \in Contents
    PROVE  claims \in SUBSET Claim
BY ClaimParts

\* The new row of a change of page e.
LEMMA NewRowTyped ==
    ASSUME WikiInv, NEW e \in Entities, NEW kind \in {"edit", "delete", "restore"},
           NEW rev \in Nat, NEW old \in Nat
    PROVE  LET row == NewRow(1, kind, e, rev, old, {})
           IN  /\ row \in EventRow /\ row.rcid = lastRcid + 1 /\ row.kind = kind /\ row.entity = e
               /\ row.rev = rev
BY DEF WikiInv, NewRow, EventRow

\* A revision keeps the shape of the wiki and what its rows tell.
LEMMA EditKeepsWiki ==
    ASSUME WikiInv, LogInv, NEW e \in Entities, NEW claims \in Contents, EditTo(e, claims)
    PROVE  WikiInv' /\ LogInv'
<1> DEFINE n == Len(revisions) + 1
           row == NewRow(1, "edit", e, n, pages[e].rev, {})
<1>1. /\ revisions' = Append(revisions, e) /\ contents' = Append(contents, claims)
      /\ pages' = [pages EXCEPT ![e] = [rev |-> n, exists |-> TRUE, redirect |-> None]]
      /\ rc' = rc \cup {row} /\ lastRcid' = lastRcid + 1
      /\ pages[e].exists \/ pages[e].rev = 0
  BY DEF EditTo, EditPage, Publish, NextRev, Editable
<1>2. Len(revisions) \in Nat /\ n \in Nat /\ pages[e].rev \in Nat /\ n > 0
  BY DEF WikiInv
<1>3. /\ row \in EventRow /\ row.rcid = lastRcid + 1 /\ row.kind = "edit" /\ row.entity = e /\ row.rev = n
  BY <1>2, NewRowTyped
<1> HIDE DEF row
<1>4. /\ revisions' \in Seq(Entities) /\ contents' \in Seq(SUBSET Claim)
      /\ Len(revisions') = n /\ Len(contents') = n
      /\ \A r \in 1..Len(revisions) : revisions'[r] = revisions[r] /\ contents'[r] = contents[r]
      /\ revisions'[n] = e /\ contents'[n] = claims
  BY <1>1, ContentsTyped DEF WikiInv
<1>5. /\ pages' \in [Entities -> [rev : Nat, exists : BOOLEAN, redirect : {None}]]
      /\ pages'[e].rev = n /\ pages'[e].exists
      /\ \A f \in Entities : f # e => pages'[f] = pages[f]
      /\ \A f \in Entities : pages[f].rev <= pages'[f].rev
  BY <1>1, <1>2 DEF WikiInv
<1> HIDE DEF n
<1>6. WikiInv'
  <2>1. \A r \in 1..Len(revisions') : contents'[r] \in Contents
    <3>1. \A r \in 1..Len(revisions) : contents[r] \in Contents
      BY DEF WikiInv
    <3>2. \A r \in 1..Len(revisions') : r \in 1..Len(revisions) \/ r = n
      BY <1>2, <1>4 DEF n
    <3> QED
      BY <1>4, <3>1, <3>2
  <2>2. \A f \in Entities : pages'[f].rev \in 1..Len(revisions') /\ revisions'[pages'[f].rev] = f
    <3> TAKE f \in Entities
    <3>1. pages[f].rev \in 1..Len(revisions) /\ revisions[pages[f].rev] = f
      BY DEF WikiInv
    <3>2. CASE f = e
      BY <1>2, <1>4, <1>5, <3>2
    <3>3. CASE f # e
      BY <1>2, <1>4, <1>5, <3>1, <3>3 DEF n
    <3> QED
      BY <3>2, <3>3
  <2>3. /\ lastRcid' \in Nat /\ rc' \subseteq EventRow /\ \A x \in rc' : x.rcid \in 1..lastRcid'
        /\ \A x, y \in rc' : x.rcid = y.rcid => x = y
    BY <1>1, <1>3 DEF WikiInv
  <2>4. \A x \in rc' : x.kind = "edit" => x.rev <= pages'[x.entity].rev /\ x.rev > 0
    <3> SUFFICES ASSUME NEW x \in rc', x.kind = "edit"
                 PROVE  x.rev <= pages'[x.entity].rev /\ x.rev > 0
      OBVIOUS
    <3>1. CASE x = row
      BY <1>2, <1>3, <1>5, <3>1
    <3>2. CASE x \in rc
      <4>1. /\ x.entity \in Entities /\ x.rev \in Nat /\ pages[x.entity].rev \in Nat
            /\ pages'[x.entity].rev \in Nat
        BY <1>5, <3>2 DEF WikiInv, EventRow
      <4> QED
        BY <1>5, <3>2, <4>1 DEF WikiInv
    <3> QED
      BY <1>1, <3>1, <3>2
  <2> QED
    BY <1>4, <1>5, <2>1, <2>2, <2>3, <2>4 DEF WikiInv, EventRow
<1>7. LogInv'
  <2> SUFFICES ASSUME NEW x \in rc'
               PROVE  /\ x.kind = "edit" /\ Newer(x)' = {} => pages'[x.entity].exists /\ pages'[x.entity].rev = x.rev
                      /\ x.kind = "delete" /\ pages'[x.entity].exists => \E y \in Newer(x)' : y.kind = "restore"
                      /\ x.kind = "restore" /\ ~pages'[x.entity].exists => \E y \in Newer(x)' : y.kind = "delete"
    BY DEF LogInv
  <2>1. CASE x = row
    BY <1>3, <1>5, <2>1
  <2>2. CASE x \in rc
    <3>1. /\ x.entity \in Entities /\ x.rcid \in 1..lastRcid
      BY <2>2 DEF WikiInv, EventRow
    <3>2. Newer(x) \subseteq Newer(x)'
      BY <1>1 DEF Newer
    <3>3. x.entity = e => row \in Newer(x)' /\ pages[e].exists
      BY <1>1, <1>3, <3>1 DEF Newer, WikiInv
    <3>4. x.entity # e => pages'[x.entity] = pages[x.entity]
      BY <1>5, <3>1
    <3>5. CASE x.entity = e
      BY <1>5, <2>2, <3>2, <3>3, <3>5 DEF LogInv
    <3>6. CASE x.entity # e
      BY <2>2, <3>2, <3>4, <3>6 DEF LogInv
    <3> QED
      BY <3>5, <3>6
  <2> QED
    BY <1>1, <2>1, <2>2
<1> QED
  BY <1>6, <1>7

\* So do a deletion and a restoration.
LEMMA LifecycleKeepsWiki ==
    ASSUME WikiInv, LogInv, NEW e \in Entities, DeletePage(e) \/ UndeletePage(e), UNCHANGED contents
    PROVE  WikiInv' /\ LogInv'
<1>1. PICK kind \in {"delete", "restore"} :
        /\ kind = "delete" <=> pages[e].exists
        /\ pages' = [pages EXCEPT ![e] = [@ EXCEPT !.exists = (kind = "restore")]]
        /\ rc' = (IF kind = "delete" THEN {r \in rc : r.entity # e \/ r.rev = 0} ELSE rc)
                   \cup {NewRow(1, kind, e, 0, 0, {})}
        /\ lastRcid' = lastRcid + 1 /\ UNCHANGED <<revisions, contents>>
  <2>1. CASE DeletePage(e)
    <3>1. /\ pages[e].exists /\ pages' = [pages EXCEPT ![e] = [@ EXCEPT !.exists = FALSE]]
          /\ rc' = {r \in rc : r.entity # e \/ r.rev = 0} \cup {NewRow(1, "delete", e, 0, 0, {})}
          /\ lastRcid' = lastRcid + 1 /\ UNCHANGED <<revisions, contents>>
      BY <2>1 DEF DeletePage
    <3>2. ("delete" = "restore") = FALSE
      OBVIOUS
    <3> QED
      BY <3>1, <3>2
  <2>2. CASE UndeletePage(e)
    <3>1. /\ ~pages[e].exists /\ pages' = [pages EXCEPT ![e] = [@ EXCEPT !.exists = TRUE]]
          /\ rc' = rc \cup {NewRow(1, "restore", e, 0, 0, {})}
          /\ lastRcid' = lastRcid + 1 /\ UNCHANGED <<revisions, contents>>
      BY <2>2 DEF UndeletePage, Publish
    <3>2. ("restore" = "restore") = TRUE
      OBVIOUS
    <3> QED
      BY <3>1, <3>2
  <2> QED
    BY <2>1, <2>2
<1> DEFINE row == NewRow(1, kind, e, 0, 0, {})
<1>2. row \in EventRow /\ row.rcid = lastRcid + 1 /\ row.kind = kind /\ row.entity = e
  BY NewRowTyped
<1>3. /\ rc' \subseteq rc \cup {row} /\ row \in rc'
      /\ \A x \in rc : x.entity # e => x \in rc'
  BY <1>1
<1> HIDE DEF row
<1>4. /\ pages' \in [Entities -> [rev : Nat, exists : BOOLEAN, redirect : {None}]]
      /\ pages'[e].rev = pages[e].rev /\ (pages'[e].exists <=> kind = "restore")
      /\ \A f \in Entities : f # e => pages'[f] = pages[f]
  <2> DEFINE Record == [rev : Nat, exists : BOOLEAN, redirect : {None}]
             restored == (kind = "restore")
             page == [pages[e] EXCEPT !.exists = restored]
  <2>1. pages \in [Entities -> Record]
    BY DEF WikiInv
  <2>2. pages[e] \in Record /\ restored \in BOOLEAN
    BY <2>1
  <2>3. pages' = [pages EXCEPT ![e] = page]
    BY <1>1
  <2> HIDE DEF restored
  <2>4. page \in Record /\ page.rev = pages[e].rev /\ page.exists = restored
    BY <2>2
  <2> HIDE DEF Record, page
  <2>5. /\ pages' \in [Entities -> Record] /\ pages'[e] = page
        /\ \A f \in Entities : f # e => pages'[f] = pages[f]
    BY <2>1, <2>3, <2>4
  <2> QED
    BY <2>4, <2>5 DEF Record, restored
<1>5. \A f \in Entities : pages'[f].rev = pages[f].rev
  BY <1>4
<1>6. WikiInv'
  <2>1. \A f \in Entities : pages'[f].rev \in 1..Len(revisions') /\ revisions'[pages'[f].rev] = f
    BY <1>1, <1>5 DEF WikiInv
  <2>2. /\ lastRcid' \in Nat /\ rc' \subseteq EventRow /\ \A x \in rc' : x.rcid \in 1..lastRcid'
        /\ \A x, y \in rc' : x.rcid = y.rcid => x = y
    BY <1>1, <1>2, <1>3 DEF WikiInv
  <2>3. \A x \in rc' : x.kind = "edit" => x.rev <= pages'[x.entity].rev /\ x.rev > 0
    <3> SUFFICES ASSUME NEW x \in rc', x.kind = "edit"
                 PROVE  x.rev <= pages'[x.entity].rev /\ x.rev > 0
      OBVIOUS
    <3>1. x \in rc
      BY <1>2, <1>3
    <3>2. x.entity \in Entities
      BY <3>1 DEF WikiInv, EventRow
    <3> QED
      BY <1>5, <3>1, <3>2 DEF WikiInv
  <2> QED
    BY <1>1, <1>4, <2>1, <2>2, <2>3 DEF WikiInv, EventRow
<1>7. LogInv'
  <2> SUFFICES ASSUME NEW x \in rc'
               PROVE  /\ x.kind = "edit" /\ Newer(x)' = {} => pages'[x.entity].exists /\ pages'[x.entity].rev = x.rev
                      /\ x.kind = "delete" /\ pages'[x.entity].exists => \E y \in Newer(x)' : y.kind = "restore"
                      /\ x.kind = "restore" /\ ~pages'[x.entity].exists => \E y \in Newer(x)' : y.kind = "delete"
    BY DEF LogInv
  <2>1. CASE x = row
    BY <1>2, <1>4, <2>1
  <2>2. CASE x \in rc /\ x.entity = e
    <3>1. row \in Newer(x)'
      BY <1>2, <1>3, <2>2 DEF Newer, WikiInv
    <3> QED
      BY <1>2, <1>4, <2>2, <3>1
  <2>3. CASE x \in rc /\ x.entity # e
    <3>1. /\ x.entity \in Entities
      BY <2>3 DEF WikiInv, EventRow
    <3>2. Newer(x) \subseteq Newer(x)'
      BY <1>3, <2>3 DEF Newer
    <3>3. pages'[x.entity] = pages[x.entity]
      BY <1>4, <2>3, <3>1
    <3> QED
      BY <2>3, <3>2, <3>3 DEF LogInv
  <2> QED
    BY <1>3, <2>1, <2>2, <2>3
<1> QED
  BY <1>6, <1>7

\* Revisions are numbers of their own, and have contents their entity may have.
LEMMA FoundDescribed ==
    ASSUME WikiInv, NEW S, S \subseteq Entities
    PROVE  /\ DOMAIN Found(S) = {e \in S : pages[e].exists} /\ Described(Found(S))
           /\ \A e \in DOMAIN Found(S) :
                 Found(S)[e].rev = pages[e].rev /\ Found(S)[e].claims = contents[pages[e].rev]
BY DEF Found, Described, WikiInv

-----------------------------------------------------------------------------
LEMMA OrderOfEntities ==
    /\ Order \in Seq(Entities) /\ \A e \in Entities : \E r \in 1..Len(Order) : Order[r] = e
    /\ \A e \in Entities : Position(e) \in 1..Len(Order)
<1> DEFINE n == Cardinality(Entities)
<1>1. IsFiniteSet(Entities) /\ n \in Nat /\ ExistsBijection(1..n, Entities)
  BY SourceAssumption, FS_CardinalityType
<1>2. PICK f : f \in Bijection(1..n, Entities)
  BY <1>1 DEF ExistsBijection
<1>3. f \in [1..n -> Entities] /\ IsInjective(f)
  BY <1>2, Fun_BijectionProperties DEF Injection
<1>4. Order \in [1..n -> Entities] /\ IsInjective(Order)
  BY <1>3 DEF Order, SetToSeq
<1> HIDE DEF n
<1>5. Order \in Injection(1..n, Entities)
  BY <1>4 DEF Injection
<1>6. Cardinality(1..n) = n
  BY <1>1, FS_Interval
<1>7. Order \in Surjection(1..n, Entities)
  BY <1>1, <1>5, <1>6, FS_Injection DEF n
<1>8. Order \in Seq(Entities) /\ Len(Order) = n
  BY <1>1, <1>4
<1>9. \A e \in Entities : \E r \in 1..Len(Order) : Order[r] = e
  BY <1>7, <1>8 DEF Surjection
<1>10. \A e \in Entities : Position(e) = CHOOSE i \in 1..Len(Order) : Order[i] = e
  BY <1>4, <1>8 DEF Position
<1> QED
  BY <1>8, <1>9, <1>10

\* The wiki a run begins with.
LEMMA InitialWiki == DatasetInit => WikiInv /\ LogInv
<1> SUFFICES ASSUME DatasetInit PROVE WikiInv /\ LogInv
  OBVIOUS
<1>1. /\ revisions = Order /\ rc = {} /\ lastRcid = 0
      /\ pages = [e \in Entities |-> [rev |-> CHOOSE r \in 1..Len(Order) : Order[r] = e,
                                      exists |-> TRUE, redirect |-> None]]
      /\ contents \in [1..Len(Order) -> Contents]
      /\ \A r \in 1..Len(Order) : contents[r] \in Contents
  BY DEF DatasetInit
<1>2. /\ Order \in Seq(Entities) /\ Len(Order) \in Nat
      /\ \A e \in Entities : \E r \in 1..Len(Order) : Order[r] = e
  BY OrderOfEntities
<1> HIDE DEF Order
<1>3. \A r \in 1..Len(Order) : contents[r] \in SUBSET Claim
  BY <1>1, ContentsTyped
<1>4. contents \in [1..Len(Order) -> SUBSET Claim]
  BY <1>1, <1>3
<1>5. contents \in Seq(SUBSET Claim) /\ Len(contents) = Len(revisions)
  <2> DEFINE n == Len(Order)
             all == SUBSET Claim
  <2>1. n \in Nat /\ contents \in [1..n -> all] /\ Len(revisions) = n
    BY <1>1, <1>2, <1>4
  <2> HIDE DEF n, all
  <2>2. contents \in Seq(all) /\ Len(contents) = n
    BY <2>1
  <2> QED
    BY <2>1, <2>2 DEF all
<1>6. \A e \in Entities : /\ pages[e].rev \in 1..Len(Order) /\ Order[pages[e].rev] = e
                          /\ pages[e].exists = TRUE /\ pages[e].redirect = None
  BY <1>1, <1>2
<1>7. pages \in [Entities -> [rev : Nat, exists : BOOLEAN, redirect : {None}]]
  <2>1. \A e \in Entities : pages[e].rev \in Nat
    BY <1>2, <1>6
  <2> DEFINE Record == [rev : Nat, exists : BOOLEAN, redirect : {None}]
  <2>2. /\ pages = [e \in Entities |-> pages[e]]
        /\ \A e \in Entities : pages[e] = [rev |-> pages[e].rev, exists |-> TRUE, redirect |-> None]
    BY <1>1
  <2>3. ASSUME NEW e \in Entities
        PROVE  pages[e] \in Record
    <3>1. \A r \in Nat : [rev |-> r, exists |-> TRUE, redirect |-> None] \in Record
      OBVIOUS
    <3> HIDE DEF Record
    <3> QED
      BY <2>1, <2>2, <3>1
  <2> HIDE DEF Record
  <2>4. pages \in [Entities -> Record]
    BY <2>2, <2>3
  <2> QED
    BY <2>4 DEF Record
<1> QED
  BY <1>1, <1>2, <1>5, <1>6, <1>7 DEF WikiInv, LogInv

\* What a change of the wiki does, whichever it is: page e changes, and a row says so.
WikiMove(e, row) ==
    /\ row \in rc' /\ row.rcid = lastRcid + 1 /\ row.entity = e /\ lastRcid' = lastRcid + 1
    /\ rc' \subseteq rc \cup {row} /\ \A x \in rc : x.entity # e => x \in rc'
    /\ \A f \in Entities : f # e => pages'[f] = pages[f]
    /\ pages'[e].rev >= pages[e].rev
    /\ pages'[e].exists => row.kind = "restore" \/ pages'[e].rev > pages[e].rev
    /\ Len(revisions) <= Len(revisions')
    /\ \A r \in 1..Len(revisions) : contents'[r] = contents[r] /\ revisions'[r] = revisions[r]

\* Each change of the wiki is a WikiMove.
LEMMA WikiMoves ==
    ASSUME WikiInv, LogInv, WikiChanges
    PROVE  /\ WikiInv' /\ LogInv' /\ UNCHANGED <<gen, db, job, verdict>>
           /\ \E e \in Entities : \E row : WikiMove(e, row)
<1>1. ASSUME NEW e \in Entities, NEW claims \in Contents, WriteEntity(e, claims)
      PROVE  /\ WikiInv' /\ LogInv' /\ UNCHANGED <<gen, db, job, verdict>>
             /\ \E row : WikiMove(e, row)
  <2> DEFINE n == Len(revisions) + 1
             row == NewRow(1, "edit", e, n, pages[e].rev, {})
  <2>1. EditTo(e, claims) /\ UNCHANGED <<gen, db, job, verdict>>
    BY <1>1 DEF WriteEntity
  <2>2. WikiInv' /\ LogInv'
    BY <2>1, EditKeepsWiki
  <2>3. /\ revisions' = Append(revisions, e) /\ contents' = Append(contents, claims)
        /\ pages' = [pages EXCEPT ![e] = [rev |-> n, exists |-> TRUE, redirect |-> None]]
        /\ rc' = rc \cup {row} /\ lastRcid' = lastRcid + 1
    BY <2>1 DEF EditTo, EditPage, Publish, NextRev
  <2>4. Len(revisions) \in Nat /\ n \in Nat /\ pages[e].rev \in 1..Len(revisions) /\ pages[e].rev \in Nat
    BY DEF WikiInv
  <2>5. row.rcid = lastRcid + 1 /\ row.entity = e
    BY DEF NewRow
  <2> HIDE DEF row
  <2>6. /\ Len(revisions') = n
        /\ \A r \in 1..Len(revisions) : contents'[r] = contents[r] /\ revisions'[r] = revisions[r]
    BY <2>3 DEF WikiInv
  <2>7. pages'[e].rev = n /\ \A f \in Entities : f # e => pages'[f] = pages[f]
    BY <2>3 DEF WikiInv
  <2>8. WikiMove(e, row)
    <3>1. n = Len(revisions) + 1
      OBVIOUS
    <3> HIDE DEF n
    <3>2. pages'[e].rev >= pages[e].rev /\ pages'[e].rev > pages[e].rev /\ Len(revisions) <= Len(revisions')
      BY <2>4, <2>6, <2>7, <3>1
    <3>3. row \in rc' /\ rc' \subseteq rc \cup {row} /\ \A x \in rc : x.entity # e => x \in rc'
      BY <2>3
    <3> QED
      BY <2>3, <2>5, <2>6, <2>7, <3>2, <3>3 DEF WikiMove
  <2> QED
    BY <2>1, <2>2, <2>8
<1>2. ASSUME NEW e \in Entities, DeletePage(e) \/ UndeletePage(e), UNCHANGED dataVars
      PROVE  /\ WikiInv' /\ LogInv' /\ UNCHANGED <<gen, db, job, verdict>>
             /\ \E row : WikiMove(e, row)
  <2>1. UNCHANGED <<contents, gen, db, job, verdict>>
    BY <1>2 DEF dataVars
  <2>2. WikiInv' /\ LogInv'
    BY <1>2, <2>1, LifecycleKeepsWiki
  <2>3. PICK kind \in {"delete", "restore"} :
           LET row == NewRow(1, kind, e, 0, 0, {})
           IN  /\ row \in rc' /\ rc' \subseteq rc \cup {row} /\ \A x \in rc : x.entity # e => x \in rc'
               /\ lastRcid' = lastRcid + 1 /\ UNCHANGED revisions
               /\ \A f \in Entities : f # e => pages'[f] = pages[f]
               /\ pages'[e].rev = pages[e].rev /\ (pages'[e].exists => kind = "restore")
    <3>1. CASE DeletePage(e)
      <4>1. /\ pages' = [pages EXCEPT ![e] = [@ EXCEPT !.exists = FALSE]]
            /\ rc' = {r \in rc : r.entity # e \/ r.rev = 0} \cup {NewRow(1, "delete", e, 0, 0, {})}
            /\ lastRcid' = lastRcid + 1 /\ UNCHANGED revisions
        BY <3>1 DEF DeletePage
      <4>2. /\ \A f \in Entities : f # e => pages'[f] = pages[f]
            /\ pages'[e].rev = pages[e].rev /\ ~pages'[e].exists
        BY <4>1 DEF WikiInv
      <4> QED
        BY <4>1, <4>2
    <3>2. CASE UndeletePage(e)
      <4>1. /\ pages' = [pages EXCEPT ![e] = [@ EXCEPT !.exists = TRUE]]
            /\ rc' = rc \cup {NewRow(1, "restore", e, 0, 0, {})}
            /\ lastRcid' = lastRcid + 1 /\ UNCHANGED revisions
        BY <3>2 DEF UndeletePage, Publish
      <4>2. /\ \A f \in Entities : f # e => pages'[f] = pages[f]
            /\ pages'[e].rev = pages[e].rev
        BY <4>1 DEF WikiInv
      <4> QED
        BY <4>1, <4>2
    <3> QED
      BY <1>2, <3>1, <3>2
  <2> DEFINE row == NewRow(1, kind, e, 0, 0, {})
  <2>4. row.rcid = lastRcid + 1 /\ row.entity = e /\ row.kind = kind
    BY DEF NewRow
  <2>5. /\ row \in rc' /\ rc' \subseteq rc \cup {row} /\ \A x \in rc : x.entity # e => x \in rc'
        /\ lastRcid' = lastRcid + 1 /\ UNCHANGED revisions
        /\ \A f \in Entities : f # e => pages'[f] = pages[f]
        /\ pages'[e].rev = pages[e].rev /\ (pages'[e].exists => kind = "restore")
    BY <2>3
  <2> HIDE DEF row
  <2>6. pages[e].rev \in Nat /\ Len(revisions) \in Nat
    BY DEF WikiInv
  <2>7. WikiMove(e, row)
    BY <2>1, <2>4, <2>5, <2>6 DEF WikiMove
  <2> QED
    BY <2>1, <2>2, <2>7
<1> QED
  BY <1>1, <1>2 DEF WikiChanges, LifecycleOfPage

-----------------------------------------------------------------------------
(***************************************************************************)
(* A generation and a store that follow the wiki.                          *)
(***************************************************************************)

After(e, cursor) == {x \in rc : x.entity = e /\ x.rcid > cursor}
OnlyEdits(rows) == \A x \in rows : x.kind = "edit"

AllNames == OwnNames(Entities)
EntityRow == [indexed : Nat, status : {"PENDING", "CURRENT", "GAP", "RESTORING", "DELETED"}]

Shape(g, d) ==
    /\ g = [state |-> g.state, sync |-> g.sync, schema |-> g.schema, cursor |-> g.cursor,
            rows |-> g.rows, graphs |-> g.graphs, provenance |-> g.provenance]
    /\ g.rows \in [Entities -> EntityRow]
    /\ g.graphs \subseteq AllNames /\ DOMAIN d \subseteq AllNames
    /\ g.cursor \in 0..lastRcid

\* The graphs of e are there, registered, and those of its revision r.
Image(g, d, e, r) ==
    /\ EntityGraphName(e) \in g.graphs /\ EntityGraphName(e) \in DOMAIN d
    /\ d[EntityGraphName(e)] = Stored(EntityPart(e, r, contents[r]))
    /\ e \in PropertyIds =>
         /\ SchemaGraphName(e) \in g.graphs /\ SchemaGraphName(e) \in DOMAIN d
         /\ ~Points(contents[r]) => d[SchemaGraphName(e)] = SchemaPart("store", e)

Absent(g, d, e) == \A n \in OwnNames({e}) : n \notin g.graphs /\ n \notin DOMAIN d

Follows(g, d, e) ==
    /\ g.rows[e].indexed <= pages[e].rev
    /\ After(e, g.cursor) = {} =>
         IF pages[e].exists THEN g.rows[e].indexed = pages[e].rev ELSE Absent(g, d, e)
    /\ pages[e].exists /\ g.rows[e].indexed = pages[e].rev /\ OnlyEdits(After(e, g.cursor)) =>
         Image(g, d, e, pages[e].rev)

Good(g, d) == Shape(g, d) /\ \A e \in Entities : Follows(g, d, e)

\* A generation that follows the wiki still does when the wiki changes: the new row is ahead of
\* its cursor.
LEMMA GoodUnderWiki ==
    ASSUME WikiInv, WikiInv', Good(gen, db), UNCHANGED <<gen, db>>, NEW e \in Entities, NEW row, WikiMove(e, row)
    PROVE  Good(gen, db)'
<1>1. /\ row \in rc' /\ row.rcid = lastRcid + 1 /\ row.entity = e /\ lastRcid' = lastRcid + 1
      /\ rc' \subseteq rc \cup {row} /\ \A x \in rc : x.entity # e => x \in rc'
      /\ \A f \in Entities : f # e => pages'[f] = pages[f]
      /\ pages'[e].rev >= pages[e].rev
      /\ pages'[e].exists => row.kind = "restore" \/ pages'[e].rev > pages[e].rev
      /\ \A r \in 1..Len(revisions) : contents'[r] = contents[r]
  BY DEF WikiMove
<1>2. gen.cursor \in 0..lastRcid /\ lastRcid \in Nat /\ gen' = gen /\ db' = db
  BY DEF Good, Shape, WikiInv
<1>3. Shape(gen, db)'
  BY <1>1, <1>2 DEF Good, Shape, EntityRow
<1>4. ASSUME NEW f \in Entities, f # e
      PROVE  Follows(gen, db, f)'
  <2>1. After(f, gen.cursor)' = After(f, gen.cursor) /\ pages'[f] = pages[f]
    BY <1>1, <1>2, <1>4 DEF After
  <2>2. Image(gen, db, f, pages[f].rev)' <=> Image(gen, db, f, pages[f].rev)
    <3>1. contents'[pages'[f].rev] = contents[pages[f].rev] /\ pages'[f] = pages[f]
      BY <1>1, <2>1 DEF WikiInv
    <3> QED
      BY <1>2, <3>1 DEF Image
  <2>3. Follows(gen, db, f)
    BY DEF Good
  <2> QED
    BY <1>2, <2>1, <2>2, <2>3 DEF Follows, Absent
<1>5. Follows(gen, db, e)'
  <2>1. row \in After(e, gen.cursor)'
    BY <1>1, <1>2 DEF After
  <2>2. gen.rows[e].indexed <= pages[e].rev /\ gen.rows[e].indexed \in Nat /\ pages[e].rev \in Nat
    BY DEF Good, Shape, Follows, EntityRow, WikiInv
  <2>3. WikiInv' => pages'[e].rev \in Nat
    BY DEF WikiInv
  <2>4. pages'[e].exists => gen.rows[e].indexed # pages'[e].rev \/ row.kind = "restore"
    BY <1>1, <2>2
  <2>5. row.kind = "restore" => ~OnlyEdits(After(e, gen.cursor)')
    BY <2>1 DEF OnlyEdits
  <2>6. gen.rows[e].indexed <= pages'[e].rev
    <3>1. pages'[e].rev \in Nat
      BY <2>3
    <3> QED
      BY <1>1, <2>2, <3>1
  <2>7. After(e, gen.cursor)' # {}
    BY <2>1
  <2>8. ~(pages'[e].exists /\ gen.rows[e].indexed = pages'[e].rev /\ OnlyEdits(After(e, gen.cursor)'))
    BY <2>4, <2>5
  <2> QED
    BY <1>2, <2>6, <2>7, <2>8 DEF Follows, OnlyEdits
<1> QED
  BY <1>3, <1>4, <1>5 DEF Good

-----------------------------------------------------------------------------
\* The event is the oldest row after the cursor.
LEMMA LeastRow ==
    ASSUME NEW S, S # {}, \A x \in S : x.rcid \in Nat
    PROVE  \E x \in S : \A y \in S : x.rcid <= y.rcid
<1> DEFINE numbers == {x.rcid : x \in S}
<1>1. PICK n \in numbers : \A m \in numbers : n <= m
  <2>1. numbers \in SUBSET Nat /\ numbers # {}
    OBVIOUS
  <2> HIDE DEF numbers
  <2> QED
    BY <2>1, LeastNumber
<1> QED
  BY <1>1

\* The event of a poll is the oldest row after the cursor.
LEMMA EventIsOldest ==
    ASSUME WikiInv, NEW cursor \in Nat, ReadChanges(cursor) # {}
    PROVE  LET x == Oldest(ReadChanges(cursor))
           IN  /\ x \in rc /\ x.rcid > cursor
               /\ \A y \in rc : y.rcid > cursor => x.rcid <= y.rcid
<1> DEFINE ahead == {row \in rc : row.rcid > cursor}
           first(next) == Cardinality({other \in ahead : other.rcid < next.rcid}) < PageSize
           read == {next \in ahead : first(next)}
<1>1. ASSUME NEW row \in rc
      PROVE  [row EXCEPT !.redirect = pages[row.entity].redirect # None] = row
  <2>1. row \in EventRow
    BY DEF WikiInv
  <2>2. (pages[row.entity].redirect # None) = FALSE
    <3>1. row.entity \in Entities
      BY <2>1 DEF EventRow
    <3>2. pages[row.entity].redirect = None
      BY <3>1 DEF WikiInv
    <3> QED
      BY <3>2
  <2>3. row = [rcid |-> row.rcid, kind |-> row.kind, entity |-> row.entity, rev |-> row.rev,
               old |-> row.old, mentions |-> row.mentions, redirect |-> FALSE]
    BY <2>1 DEF EventRow
  <2>4. [row EXCEPT !.redirect = FALSE] = row
    BY <2>3
  <2> QED
    BY <2>2, <2>4
<1>2. ReadChanges(cursor) = read
  <2>1. ReadChanges(cursor) = {[row EXCEPT !.redirect = pages[row.entity].redirect # None] : row \in read}
    BY DEF ReadChanges, NextRows
  <2>2. \A row \in read : row \in rc
    OBVIOUS
  <2> HIDE DEF read
  <2> QED
    BY <1>1, <2>1, <2>2
<1>3. \A x \in ahead : x.rcid \in Nat /\ x \in rc /\ x.rcid > cursor
  BY DEF WikiInv
<1>4. PICK m \in ahead : \A y \in ahead : m.rcid <= y.rcid
  <2>1. ahead # {}
    BY <1>2
  <2> HIDE DEF ahead
  <2> QED
    BY <1>3, <2>1, LeastRow
<1>5. m \in read
  <2>1. {other \in ahead : other.rcid < m.rcid} = {}
    BY <1>3, <1>4
  <2>2. Cardinality({other \in ahead : other.rcid < m.rcid}) = 0
    BY <2>1, FS_EmptySet
  <2> QED
    BY <2>2, SourceAssumption
<1>6. \E x \in read : \A y \in read : x.rcid <= y.rcid
  <2>1. \A y \in read : m.rcid <= y.rcid
    BY <1>4
  <2> QED
    BY <1>5, <2>1
<1> DEFINE x == Oldest(ReadChanges(cursor))
<1>7. x \in read /\ \A y \in read : x.rcid <= y.rcid
  BY <1>2, <1>6 DEF Oldest
<1>8. x \in ahead /\ x.rcid <= m.rcid
  BY <1>5, <1>7
<1> HIDE DEF x, read
<1>9. \A y \in ahead : x.rcid <= y.rcid
  <2> HIDE DEF ahead
  <2> QED
    BY <1>3, <1>4, <1>8
<1> QED
  BY <1>3, <1>8, <1>9 DEF x

-----------------------------------------------------------------------------
(***************************************************************************)
(* What the handler of the next row does stays within its entity.          *)
(***************************************************************************)

IsNext(x) == /\ x \in rc /\ x.rcid > gen.cursor
             /\ \A y \in rc : y.rcid > gen.cursor => x.rcid <= y.rcid

\* The rows after an event are those after the cursor but itself.
LEMMA RowsAfter ==
    ASSUME WikiInv, Good(gen, db), NEW x, IsNext(x)
    PROVE  /\ x.entity \in Entities /\ x.rcid \in 0..lastRcid
           /\ x \in After(x.entity, gen.cursor) /\ After(x.entity, x.rcid) = Newer(x)
           /\ After(x.entity, gen.cursor) = {x} \cup Newer(x)
           /\ \A f \in Entities : f # x.entity => After(f, x.rcid) = After(f, gen.cursor)
<1>1. /\ x \in rc /\ x.rcid > gen.cursor /\ \A y \in rc : y.rcid > gen.cursor => x.rcid <= y.rcid
  BY DEF IsNext
<1>2. gen.cursor \in Nat /\ lastRcid \in Nat /\ \A y \in rc : y.rcid \in Nat /\ y.rcid <= lastRcid
  BY DEF Good, Shape, WikiInv
<1>3. \A y \in rc : y.rcid = x.rcid => y = x
  BY <1>1 DEF WikiInv
<1>4. x.entity \in Entities /\ x.rcid \in 0..lastRcid
  <2>1. x \in EventRow
    BY <1>1 DEF WikiInv
  <2>2. x.rcid \in Nat /\ x.rcid <= lastRcid
    BY <1>1, <1>2
  <2> QED
    BY <1>2, <2>1, <2>2 DEF EventRow
<1>5. x \in After(x.entity, gen.cursor) /\ After(x.entity, x.rcid) = Newer(x)
  BY <1>1 DEF After, Newer
<1>6. After(x.entity, gen.cursor) = {x} \cup Newer(x)
  <2>1. ASSUME NEW y \in rc, y.entity = x.entity
        PROVE  y.rcid > gen.cursor <=> y = x \/ y.rcid > x.rcid
    BY <1>1, <1>2, <1>3
  <2> QED
    BY <1>1, <2>1 DEF After, Newer
<1>7. \A f \in Entities : f # x.entity => After(f, x.rcid) = After(f, gen.cursor)
  <2>1. ASSUME NEW y \in rc, y.entity # x.entity
        PROVE  y.rcid > gen.cursor <=> y.rcid > x.rcid
    <3>1. y # x /\ y.rcid # x.rcid
      BY <1>3, <2>1
    <3>2. y.rcid \in Nat /\ x.rcid \in Nat
      BY <1>1, <1>2
    <3> QED
      BY <1>1, <1>2, <3>1, <3>2
  <2> QED
    BY <2>1 DEF After
<1> QED
  BY <1>4, <1>5, <1>6, <1>7

Within(e, g, d) ==
    /\ Shape(g, d)
    /\ \A f \in Entities : f # e => g.rows[f] = gen.rows[f]
    /\ \A n : n \notin OwnNames({e}) =>
          /\ n \in g.graphs <=> n \in gen.graphs
          /\ n \in DOMAIN d <=> n \in DOMAIN db
          /\ n \in DOMAIN d => d[n] = db[n]

LEMMA NamesOf ==
    ASSUME NEW e
    PROVE  /\ EntityGraphName(e) \in OwnNames({e})
           /\ e \in PropertyIds => SchemaGraphName(e) \in OwnNames({e})
           /\ \A n : n \in OwnNames({e}) <=> n = EntityGraphName(e) \/ (e \in PropertyIds /\ n = SchemaGraphName(e))
           /\ e \in Entities => OwnNames({e}) \subseteq AllNames
           /\ \A f : f # e => /\ EntityGraphName(f) \notin OwnNames({e}) /\ SchemaGraphName(f) \notin OwnNames({e})
                              /\ \A n \in OwnNames({f}) : n \notin OwnNames({e})
BY GraphNames DEF OwnNames, AllNames

\* An entity the event is not about follows the wiki as before.
LEMMA OthersFollow ==
    ASSUME WikiInv, Good(gen, db), NEW x, IsNext(x), NEW g, NEW d, Within(x.entity, g, d),
           g.cursor \in {gen.cursor, x.rcid}, Follows(g, d, x.entity)
    PROVE  Good(g, d)
<1> DEFINE e == x.entity
<1>1. ASSUME NEW f \in Entities, f # e
      PROVE  Follows(g, d, f)
  <2>1. After(f, g.cursor) = After(f, gen.cursor)
    BY <1>1, RowsAfter
  <2>2. g.rows[f] = gen.rows[f]
    BY <1>1 DEF Within
  <2>3. \A n : n \in OwnNames({f}) \/ n \in {EntityGraphName(f), SchemaGraphName(f)} =>
           /\ n \in g.graphs <=> n \in gen.graphs
           /\ n \in DOMAIN d <=> n \in DOMAIN db
           /\ n \in DOMAIN d => d[n] = db[n]
    BY <1>1, NamesOf DEF Within
  <2>4. Image(gen, db, f, pages[f].rev) => Image(g, d, f, pages[f].rev)
    BY <2>3 DEF Image
  <2>5. Absent(gen, db, f) => Absent(g, d, f)
    BY <2>3 DEF Absent
  <2>6. Follows(gen, db, f)
    BY DEF Good
  <2> HIDE DEF e
  <2> QED
    BY <2>1, <2>2, <2>4, <2>5, <2>6 DEF Follows
<1>2. Shape(g, d)
  BY DEF Within
<1> QED
  BY <1>1, <1>2 DEF Good

\* The calls a handler makes.
LEMMA StartWithin ==
    ASSUME Good(gen, db), NEW e
    PROVE  Within(e, gen, db)
BY DEF Good, Within

LEMMA PutWithin ==
    ASSUME NEW e \in Entities, NEW g, NEW d, Within(e, g, d), NEW n \in OwnNames({e}), NEW rdf
    PROVE  /\ Within(e, g, PutGraph(d, n, rdf))
           /\ DOMAIN PutGraph(d, n, rdf) = DOMAIN d \cup {n} /\ PutGraph(d, n, rdf)[n] = Stored(rdf)
           /\ \A m \in DOMAIN d : m # n => PutGraph(d, n, rdf)[m] = d[m]
<1> DEFINE put == PutGraph(d, n, rdf)
<1>1. /\ DOMAIN put = DOMAIN d \cup {n} /\ put[n] = Stored(rdf)
      /\ \A m \in DOMAIN d : m # n => put[m] = d[m]
  BY DEF PutGraph
<1> HIDE DEF put
<1>2. n \in AllNames
  BY NamesOf
<1>3. Within(e, g, put)
  BY <1>1, <1>2 DEF Within, Shape
<1> QED
  BY <1>1, <1>3 DEF put

LEMMA DropWithin ==
    ASSUME NEW e \in Entities, NEW g, NEW d, Within(e, g, d), NEW n \in OwnNames({e})
    PROVE  /\ Within(e, g, DeleteNamedGraph(d, n)) /\ DOMAIN DeleteNamedGraph(d, n) = DOMAIN d \ {n}
           /\ Within(e, [g EXCEPT !.graphs = @ \ {n}], d)
           /\ Within(e, Register(g, n), d)
<1> DEFINE less == DeleteNamedGraph(d, n)
<1>1. DOMAIN less = DOMAIN d \ {n} /\ \A m \in DOMAIN less : less[m] = d[m]
  BY DEF DeleteNamedGraph
<1> HIDE DEF less
<1>2. n \in AllNames
  BY NamesOf
<1>3. Within(e, g, less)
  BY <1>1 DEF Within, Shape
<1>4. ASSUME NEW graphs, graphs \subseteq AllNames,
             \A m : m # n => (m \in graphs <=> m \in g.graphs)
      PROVE  Within(e, [g EXCEPT !.graphs = graphs], d)
  <2> DEFINE h == [g EXCEPT !.graphs = graphs]
  <2>1. /\ h = [state |-> g.state, sync |-> g.sync, schema |-> g.schema, cursor |-> g.cursor,
                rows |-> g.rows, graphs |-> graphs, provenance |-> g.provenance]
    BY DEF Within, Shape
  <2>2. h.rows = g.rows /\ h.graphs = graphs /\ h.cursor = g.cursor
    BY <2>1
  <2>3. Shape(h, d)
    BY <1>4, <2>1 DEF Within, Shape
  <2> HIDE DEF h
  <2> QED
    BY <1>4, <2>2, <2>3 DEF Within, h
<1>5. Within(e, [g EXCEPT !.graphs = @ \ {n}], d)
  <2>1. g.graphs \ {n} \subseteq AllNames
    BY DEF Within, Shape
  <2> QED
    BY <1>4, <2>1
<1>6. Within(e, Register(g, n), d)
  <2>1. g.graphs \cup {n} \subseteq AllNames
    BY <1>2 DEF Within, Shape
  <2> QED
    BY <1>4, <2>1 DEF Register
<1> QED
  BY <1>1, <1>3, <1>5, <1>6 DEF less

LEMMA RowWithin ==
    ASSUME NEW e \in Entities, NEW g, NEW d, Within(e, g, d), NEW row \in EntityRow
    PROVE  LET h == [g EXCEPT !.rows[e] = row]
           IN  /\ Within(e, h, d) /\ h.rows[e] = row /\ h.graphs = g.graphs /\ h.cursor = g.cursor
<1> DEFINE h == [g EXCEPT !.rows[e] = row]
           rows == [g.rows EXCEPT ![e] = row]
<1>1. /\ g = [state |-> g.state, sync |-> g.sync, schema |-> g.schema, cursor |-> g.cursor,
              rows |-> g.rows, graphs |-> g.graphs, provenance |-> g.provenance]
      /\ g.rows \in [Entities -> EntityRow]
  BY DEF Within, Shape
<1>2. h = [state |-> g.state, sync |-> g.sync, schema |-> g.schema, cursor |-> g.cursor,
           rows |-> rows, graphs |-> g.graphs, provenance |-> g.provenance]
  BY <1>1
<1>3. rows \in [Entities -> EntityRow] /\ rows[e] = row /\ \A f \in Entities : f # e => rows[f] = g.rows[f]
  BY <1>1
<1> HIDE DEF rows
<1>4. h.rows = rows /\ h.graphs = g.graphs /\ h.cursor = g.cursor
  BY <1>2
<1>5. Shape(h, d)
  <2>1. h = [state |-> h.state, sync |-> h.sync, schema |-> h.schema, cursor |-> h.cursor,
             rows |-> h.rows, graphs |-> h.graphs, provenance |-> h.provenance]
    BY <1>2
  <2> HIDE DEF h
  <2> QED
    BY <1>3, <1>4, <2>1 DEF Within, Shape
<1> HIDE DEF h
<1> QED
  BY <1>3, <1>4, <1>5 DEF Within, h

\* The rows, the graphs and the cursor are all that matters.
SameHead(h, g) ==
    /\ h = [state |-> h.state, sync |-> h.sync, schema |-> h.schema, cursor |-> h.cursor,
            rows |-> h.rows, graphs |-> h.graphs, provenance |-> h.provenance]
    /\ h.rows = g.rows /\ h.graphs = g.graphs /\ h.cursor = g.cursor

\* A generation follows the wiki whatever its state and its provenance.
LEMMA HeadMatters ==
    ASSUME NEW g, NEW h, NEW d, Good(g, d), SameHead(h, g)
    PROVE  Good(h, d)
<1>1. Shape(h, d)
  BY DEF Good, Shape, SameHead
<1>2. ASSUME NEW e \in Entities
      PROVE  Follows(h, d, e)
  <2>1. Follows(g, d, e)
    BY DEF Good
  <2> QED
    BY <2>1 DEF SameHead, Follows, Image, Absent
<1> QED
  BY <1>1, <1>2 DEF Good

IsGen(g) == g = [state |-> g.state, sync |-> g.sync, schema |-> g.schema, cursor |-> g.cursor,
                 rows |-> g.rows, graphs |-> g.graphs, provenance |-> g.provenance]

LEMMA Heads ==
    ASSUME NEW g, IsGen(g)
    PROVE  /\ IsGen(Stop(g)) /\ Stop(g).rows = g.rows /\ Stop(g).graphs = g.graphs /\ Stop(g).cursor = g.cursor
           /\ LET h == Commit(g)
              IN  IsGen(h) /\ h.rows = g.rows /\ h.graphs = g.graphs /\ h.cursor = Event.rcid
           /\ LET h == [g EXCEPT !.schema = "CURRENT"]
              IN  IsGen(h) /\ h.rows = g.rows /\ h.graphs = g.graphs /\ h.cursor = g.cursor
           /\ LET h == [g EXCEPT !.sync = "CURRENT"]
              IN  IsGen(h) /\ h.rows = g.rows /\ h.graphs = g.graphs /\ h.cursor = g.cursor
<1>1. g = [state |-> g.state, sync |-> g.sync, schema |-> g.schema, cursor |-> g.cursor,
           rows |-> g.rows, graphs |-> g.graphs, provenance |-> g.provenance]
  BY DEF IsGen
<1>2. \A s : [g EXCEPT !.sync = s]
          = [state |-> g.state, sync |-> s, schema |-> g.schema, cursor |-> g.cursor,
             rows |-> g.rows, graphs |-> g.graphs, provenance |-> g.provenance]
  BY <1>1
<1>3. [g EXCEPT !.schema = "CURRENT"]
          = [state |-> g.state, sync |-> g.sync, schema |-> "CURRENT", cursor |-> g.cursor,
             rows |-> g.rows, graphs |-> g.graphs, provenance |-> g.provenance]
  BY <1>1
<1>4. \A c, s : [g EXCEPT !.cursor = c, !.sync = s]
          = [state |-> g.state, sync |-> s, schema |-> g.schema, cursor |-> c,
             rows |-> g.rows, graphs |-> g.graphs, provenance |-> g.provenance]
  <2> TAKE c, s
  <2> DEFINE k == [g EXCEPT !.cursor = c]
  <2>1. k = [state |-> g.state, sync |-> g.sync, schema |-> g.schema, cursor |-> c,
             rows |-> g.rows, graphs |-> g.graphs, provenance |-> g.provenance]
    BY <1>1
  <2> HIDE DEF k
  <2>2. [k EXCEPT !.sync = s]
          = [state |-> g.state, sync |-> s, schema |-> g.schema, cursor |-> c,
             rows |-> g.rows, graphs |-> g.graphs, provenance |-> g.provenance]
    BY <2>1
  <2> QED
    BY <2>2 DEF k
<1> DEFINE s == IF g.sync = "BOOTSTRAPPING" THEN "CATCHING_UP" ELSE g.sync
<1>5. Commit(g) = [g EXCEPT !.cursor = Event.rcid, !.sync = s]
  BY DEF Commit
<1>6. Commit(g) = [state |-> g.state, sync |-> s, schema |-> g.schema, cursor |-> Event.rcid,
                   rows |-> g.rows, graphs |-> g.graphs, provenance |-> g.provenance]
  BY <1>4, <1>5
<1> HIDE DEF s
<1> QED
  BY <1>2, <1>3, <1>6 DEF Stop, IsGen

LEMMA HeadsWithin ==
    ASSUME NEW e \in Entities, NEW g, NEW d, Within(e, g, d), NEW h, IsGen(h),
           h.rows = g.rows, h.graphs = g.graphs, h.cursor \in 0..lastRcid
    PROVE  Within(e, h, d)
<1>1. Shape(h, d)
  BY DEF Within, Shape, IsGen
<1> QED
  BY <1>1 DEF Within

\* A point before the cursor is committed, and one after.
LEMMA UncommittedFollows ==
    ASSUME WikiInv, Good(gen, db), NEW x, IsNext(x), NEW g, NEW d, Within(x.entity, g, d),
           g.cursor = gen.cursor, g.rows[x.entity].indexed <= pages[x.entity].rev,
           (x.kind = "edit" /\ pages[x.entity].exists /\ g.rows[x.entity].indexed = pages[x.entity].rev)
              => Image(g, d, x.entity, pages[x.entity].rev)
    PROVE  Good(g, d) /\ Good(Stop(g), d)
<1>1. x \in After(x.entity, g.cursor)
  BY RowsAfter
<1>2. Follows(g, d, x.entity)
  BY <1>1 DEF Follows, OnlyEdits
<1>3. Good(g, d)
  BY <1>2, OthersFollow
<1>4. IsGen(g)
  BY DEF Within, Shape, IsGen
<1>5. SameHead(Stop(g), g)
  BY <1>4, Heads DEF SameHead, IsGen
<1>6. Good(Stop(g), d)
  BY <1>3, <1>5, HeadMatters
<1> QED
  BY <1>3, <1>6

\* A handler that ran to its end leaves the entity where the event puts it.
LEMMA CommittedFollows ==
    ASSUME WikiInv, Good(gen, db), NEW x, IsNext(x), x = Event, NEW g, NEW d, Within(x.entity, g, d),
           g.rows[x.entity].indexed <= pages[x.entity].rev,
           Newer(x) = {} => IF pages[x.entity].exists THEN g.rows[x.entity].indexed = pages[x.entity].rev
                            ELSE Absent(g, d, x.entity),
           (pages[x.entity].exists /\ g.rows[x.entity].indexed = pages[x.entity].rev /\ OnlyEdits(Newer(x)))
              => Image(g, d, x.entity, pages[x.entity].rev)
    PROVE  Good(Commit(g), d)
<1> DEFINE h == Commit(g)
<1>1. IsGen(g)
  BY DEF Within, Shape, IsGen
<1>2. IsGen(h) /\ h.rows = g.rows /\ h.graphs = g.graphs /\ h.cursor = x.rcid
  BY <1>1, Heads
<1>3. x.entity \in Entities /\ x.rcid \in 0..lastRcid /\ After(x.entity, x.rcid) = Newer(x)
  BY RowsAfter
<1> HIDE DEF h
<1>4. Within(x.entity, h, d)
  BY <1>2, <1>3, HeadsWithin
<1>5. Follows(h, d, x.entity)
  BY <1>2, <1>3 DEF Follows, Image, Absent
<1> QED
  BY <1>2, <1>4, <1>5, OthersFollow DEF h

-----------------------------------------------------------------------------
\* Sequences of points.
LEMMA JoinPoints ==
    ASSUME NEW S, NEW a \in Seq(S), NEW b \in Seq(S), Len(b) > 0
    PROVE  /\ a \o b \in Seq(S) /\ Len(a \o b) = Len(a) + Len(b) /\ Len(a \o b) > 0
           /\ Last(a \o b) = Last(b)
<1>1. /\ a \o b \in Seq(S) /\ Len(a \o b) = Len(a) + Len(b) /\ Len(a) \in Nat /\ Len(b) \in Nat
      /\ (a \o b)[Len(a) + Len(b)] = b[Len(b)]
  OBVIOUS
<1> QED
  BY <1>1 DEF Last

LEMMA LastPoint ==
    ASSUME NEW S, NEW a \in Seq(S), NEW p \in S
    PROVE  /\ Append(a, p) \in Seq(S) /\ Len(Append(a, p)) = Len(a) + 1 /\ Last(Append(a, p)) = p
BY DEF Last

LEMMA FewPoints ==
    /\ \A S : \A p \in S : <<p>> \in Seq(S) /\ Len(<<p>>) = 1 /\ Last(<<p>>) = p
    /\ \A S : \A p, q \in S : <<p, q>> \in Seq(S) /\ Len(<<p, q>>) = 2 /\ Last(<<p, q>>) = q
    /\ \A S : \A p, q, r \in S : <<p, q, r>> \in Seq(S) /\ Len(<<p, q, r>>) = 3 /\ Last(<<p, q, r>>) = r
BY DEF Last

LEMMA PointsOfSeq ==
    ASSUME NEW S, NEW a \in Seq(S), Len(a) > 0
    PROVE  /\ \A i \in 1..Len(a) : a[i] \in S
           /\ Last(a) \in S
BY DEF Last

GoodAt(p) == Good(p.gen, p.db)
GoodPoints(points) == \E S : points \in Seq(S) /\ Len(points) > 0 /\ \A p \in S : GoodAt(p)

\* A sequence of good states ends in one.
LEMMA GoodEnds ==
    ASSUME NEW points, GoodPoints(points)
    PROVE  GoodAt(Last(points)) /\ \A i \in 1..Len(points) : GoodAt(points[i])
BY PointsOfSeq DEF GoodPoints

LEMMA GoodJoin ==
    ASSUME NEW a, GoodPoints(a), NEW b, GoodPoints(b)
    PROVE  GoodPoints(a \o b) /\ Last(a \o b) = Last(b)
<1>1. PICK S : a \in Seq(S) /\ Len(a) > 0 /\ \A p \in S : GoodAt(p)
  BY DEF GoodPoints
<1>2. PICK T : b \in Seq(T) /\ Len(b) > 0 /\ \A p \in T : GoodAt(p)
  BY DEF GoodPoints
<1> DEFINE U == S \cup T
<1>3. a \in Seq(U) /\ b \in Seq(U) /\ \A p \in U : GoodAt(p)
  BY <1>1, <1>2
<1> HIDE DEF U
<1>4. a \o b \in Seq(U) /\ Len(a \o b) > 0 /\ Last(a \o b) = Last(b)
  BY <1>2, <1>3, JoinPoints
<1> QED
  BY <1>3, <1>4 DEF GoodPoints

LEMMA GoodAppend ==
    ASSUME NEW a, GoodPoints(a), NEW p, GoodAt(p)
    PROVE  GoodPoints(Append(a, p)) /\ Last(Append(a, p)) = p
<1>1. PICK S : a \in Seq(S) /\ Len(a) > 0 /\ \A q \in S : GoodAt(q)
  BY DEF GoodPoints
<1> DEFINE U == S \cup {p}
<1>2. a \in Seq(U) /\ \A q \in U : GoodAt(q)
  BY <1>1
<1>3. p \in U /\ Len(a) \in Nat
  BY <1>1
<1> HIDE DEF U
<1>4. Append(a, p) \in Seq(U) /\ Len(Append(a, p)) = Len(a) + 1 /\ Last(Append(a, p)) = p
  BY <1>2, <1>3, LastPoint
<1> QED
  BY <1>2, <1>3, <1>4 DEF GoodPoints

LEMMA GoodOf ==
    ASSUME NEW S, NEW a \in Seq(S), Len(a) > 0, \A p \in S : GoodAt(p)
    PROVE  GoodPoints(a)
BY DEF GoodPoints

LEMMA GoodFew ==
    /\ \A p : GoodAt(p) => GoodPoints(<<p>>)
    /\ \A p, q : GoodAt(p) /\ GoodAt(q) => GoodPoints(<<p, q>>)
    /\ \A p, q, r : GoodAt(p) /\ GoodAt(q) /\ GoodAt(r) => GoodPoints(<<p, q, r>>)
<1>1. \A p : GoodAt(p) => GoodPoints(<<p>>)
  <2> SUFFICES ASSUME NEW p, GoodAt(p) PROVE GoodPoints(<<p>>)
    OBVIOUS
  <2>1. p \in {p} /\ \A r \in {p} : GoodAt(r)
    OBVIOUS
  <2>2. <<p>> \in Seq({p}) /\ Len(<<p>>) = 1
    BY <2>1, FewPoints
  <2> DEFINE S == {p}
             a == <<p>>
  <2>3. a \in Seq(S) /\ Len(a) > 0 /\ \A x \in S : GoodAt(x)
    BY <2>1, <2>2
  <2> HIDE DEF S, a
  <2>4. GoodPoints(a)
    BY <2>3, GoodOf
  <2> QED
    BY <2>4 DEF a
<1>2. \A p, q : GoodAt(p) /\ GoodAt(q) => GoodPoints(<<p, q>>)
  <2> SUFFICES ASSUME NEW p, NEW q, GoodAt(p), GoodAt(q) PROVE GoodPoints(<<p, q>>)
    OBVIOUS
  <2>1. p \in {p, q} /\ q \in {p, q} /\ \A r \in {p, q} : GoodAt(r)
    OBVIOUS
  <2>2. <<p, q>> \in Seq({p, q}) /\ Len(<<p, q>>) = 2
    BY <2>1, FewPoints
  <2> DEFINE S == {p, q}
             a == <<p, q>>
  <2>3. a \in Seq(S) /\ Len(a) > 0 /\ \A x \in S : GoodAt(x)
    BY <2>1, <2>2
  <2> HIDE DEF S, a
  <2>4. GoodPoints(a)
    BY <2>3, GoodOf
  <2> QED
    BY <2>4 DEF a
<1>3. \A p, q, r : GoodAt(p) /\ GoodAt(q) /\ GoodAt(r) => GoodPoints(<<p, q, r>>)
  <2> SUFFICES ASSUME NEW p, NEW q, NEW r, GoodAt(p), GoodAt(q), GoodAt(r) PROVE GoodPoints(<<p, q, r>>)
    OBVIOUS
  <2>1. p \in {p, q, r} /\ q \in {p, q, r} /\ r \in {p, q, r} /\ \A s \in {p, q, r} : GoodAt(s)
    OBVIOUS
  <2>2. <<p, q, r>> \in Seq({p, q, r}) /\ Len(<<p, q, r>>) = 3
    BY <2>1, FewPoints
  <2> DEFINE S == {p, q, r}
             a == <<p, q, r>>
  <2>3. a \in Seq(S) /\ Len(a) > 0 /\ \A x \in S : GoodAt(x)
    BY <2>1, <2>2
  <2> HIDE DEF S, a
  <2>4. GoodPoints(a)
    BY <2>3, GoodOf
  <2> QED
    BY <2>4 DEF a
<1> QED
  BY <1>1, <1>2, <1>3

\* A tuple of points, to its last.
LEMMA LastOfFew ==
    /\ \A p : Last(<<p>>) = p
    /\ \A p, q : Last(<<p, q>>) = q
    /\ \A p, q, r : Last(<<p, q, r>>) = r
BY DEF Last

LEMMA AtParts ==
    \A g, d : At(g, d).gen = g /\ At(g, d).db = d /\ (GoodAt(At(g, d)) <=> Good(g, d))
BY DEF At, GoodAt

\* The graphs of one revision, as EntityData gives them.
LEMMA PartitionOfRevision ==
    ASSUME NEW e \in Entities, NEW r, contents[r] \in Contents
    PROVE  /\ Partition(e, r)[EntityGraphName(e)] = EntityPart(e, r, contents[r])
           /\ e \in PropertyIds /\ ~Points(contents[r]) =>
                Partition(e, r)[SchemaGraphName(e)] = SchemaPart("entity", e)
<1> DEFINE current == [f \in DOMAIN Found(Entities) |-> pages[f].rev]
           claims == contents[r]
           normal == PartitionEntity(NormalizeWikibaseRdf(EntityData(e, r, claims, current)), e)
<1>1. Partition(e, r) = normal
  BY DEF Partition
<1> HIDE DEF current, claims
<1>2. /\ normal[EntityGraphName(e)] = EntityPart(e, r, claims)
      /\ e \in PropertyIds /\ ~Points(claims) => normal[SchemaGraphName(e)] = SchemaPart("entity", e)
  <2>1. claims \in Contents
    BY DEF claims
  <2> QED
    BY <2>1, EntityDataGraphs, ZenonT(30)
<1> HIDE DEF normal
<1> QED
  BY <1>1, <1>2 DEF claims

-----------------------------------------------------------------------------
\* The write of a revision of the page the next row is about.
LEMMA WriteFollows ==
    ASSUME WikiInv, Good(gen, db), NEW x, IsNext(x), x = Event,
           NEW g, Within(x.entity, g, db), g.graphs = gen.graphs, g.cursor = gen.cursor,
           g.rows[x.entity].indexed <= pages[x.entity].rev,
           NEW rev \in Nat, rev <= pages[x.entity].rev,
           x.kind = "edit" => rev = x.rev /\ g.rows[x.entity].indexed # pages[x.entity].rev,
           x.kind # "edit" => rev = pages[x.entity].rev,
           Newer(x) = {} => pages[x.entity].exists /\ pages[x.entity].rev = rev
    PROVE  GoodPoints(WriteAndCommit(g, x.entity, rev))
<1> DEFINE e == x.entity
<1>e. e \in Entities
  BY RowsAfter
<1>1. CASE ~Writable(e, rev)
  <2>1. WriteAndCommit(g, e, rev) = <<At(Stop(g), db)>>
    BY <1>1 DEF WriteAndCommit
  <2>2. GoodAt(At(Stop(g), db))
    <3>1. Image(gen, db, e, pages[e].rev) => Image(g, db, e, pages[e].rev)
      BY DEF Image
    <3>2. x.kind = "edit" => g.rows[e].indexed # pages[e].rev
      OBVIOUS
    <3> QED
      BY <3>2, UncommittedFollows, AtParts
  <2> QED
    BY <2>1, <2>2, GoodFew
<1>2. CASE Writable(e, rev)
  <2>1. /\ rev \in 1..Len(revisions) /\ revisions[rev] = e /\ pages[e].exists
    BY <1>2 DEF Writable, Fetchable
  <2>2. contents[rev] \in Contents
    BY <2>1 DEF WikiInv
  <2> DEFINE parts == Partition(e, rev)
             ename == EntityGraphName(e)
             sname == SchemaGraphName(e)
             one == PutGraph(db, ename, parts[ename])
             g1 == Register(g, ename)
             two == PutGraph(one, sname, parts[sname])
             gr == Register(g1, sname)
             g2 == [gr EXCEPT !.schema = "CURRENT"]
             row == [indexed |-> rev, status |-> "CURRENT"]
  <2>3. /\ parts[ename] = EntityPart(e, rev, contents[rev])
        /\ e \in PropertyIds /\ ~Points(contents[rev]) => parts[sname] = SchemaPart("entity", e)
    BY <1>e, <2>2, PartitionOfRevision
  <2> HIDE DEF parts
  <2>4. ename \in OwnNames({e}) /\ (e \in PropertyIds => sname \in OwnNames({e})) /\ ename # sname
    BY NamesOf, GraphNames
  <2> HIDE DEF ename, sname
  <2>5. /\ Within(e, g, one) /\ DOMAIN one = DOMAIN db \cup {ename} /\ one[ename] = Stored(parts[ename])
    <3>1. Within(e, g, db) /\ ename \in OwnNames({e}) /\ e \in Entities
      BY <1>e, <2>4
    <3> DEFINE rdf == parts[ename]
    <3> HIDE DEF e, rdf
    <3>3. Within(e, g, PutGraph(db, ename, rdf))
      BY <3>1, PutWithin
    <3>4. DOMAIN PutGraph(db, ename, rdf) = DOMAIN db \cup {ename}
      BY <3>1, PutWithin
    <3>5. PutGraph(db, ename, rdf)[ename] = Stored(rdf)
      BY DEF PutGraph
    <3>2. /\ Within(e, g, PutGraph(db, ename, rdf)) /\ DOMAIN PutGraph(db, ename, rdf) = DOMAIN db \cup {ename}
          /\ PutGraph(db, ename, rdf)[ename] = Stored(rdf)
      BY <3>3, <3>4, <3>5
    <3> QED
      BY <3>2 DEF rdf
  <2>6. Within(e, g1, one)
    BY <1>e, <2>4, <2>5, DropWithin
  <2>r. \A h, n : IsGen(h) => /\ IsGen(Register(h, n)) /\ Register(h, n).rows = h.rows
                           /\ Register(h, n).cursor = h.cursor /\ Register(h, n).graphs = h.graphs \cup {n}
    BY DEF IsGen, Register
  <2>g. \A h, d : Within(e, h, d) => IsGen(h)
    BY DEF Within, Shape, IsGen
  <2>7. g1.rows = g.rows /\ g1.cursor = g.cursor /\ g1.graphs = g.graphs \cup {ename}
    BY <2>r, <2>g
  <2>s. row \in EntityRow
    BY DEF EntityRow
  <2>t. \A h : SaveEntity(h, e, rev) = [h EXCEPT !.rows[e] = row]
    BY DEF SaveEntity
  <2> HIDE DEF one, g1, row, ename, sname
  <2>u. row.indexed = rev
    BY DEF row
  <2>8. GoodAt(At(g, one)) /\ GoodAt(At(g1, one))
    <3>1. Good(g, one)
      BY <2>5, UncommittedFollows
    <3>2. g1.rows[e].indexed = g.rows[e].indexed /\ g1.cursor = gen.cursor
      BY <2>7
    <3>3. Good(g1, one)
      BY <2>6, <3>2, UncommittedFollows
    <3> QED
      BY <3>1, <3>3, AtParts
  \* once the row is saved
  <2>9. ASSUME NEW h, NEW d, Within(e, h, d), h.cursor = gen.cursor,
               Image(h, d, e, rev)
        PROVE  /\ GoodAt(At(SaveEntity(h, e, rev), d))
               /\ GoodAt(At(Commit(SaveEntity(h, e, rev)), d))
    <3> DEFINE k == [h EXCEPT !.rows[e] = row]
    <3>1. Within(e, k, d) /\ k.rows[e] = row /\ k.graphs = h.graphs /\ k.cursor = h.cursor
      BY <1>e, <2>9, <2>s, RowWithin
    <3> HIDE DEF k
    <3>2. Image(k, d, e, rev)
      BY <2>9, <3>1 DEF Image
    <3>3. k.rows[e].indexed = rev /\ k.cursor = gen.cursor
      BY <2>9, <2>u, <3>1
    <3>4. Good(k, d)
      BY <3>1, <3>2, <3>3, UncommittedFollows
    <3>5. Good(Commit(k), d)
      BY <2>1, <3>1, <3>2, <3>3, CommittedFollows
    <3> QED
      BY <2>t, <3>4, <3>5, AtParts DEF k
  <2>10. CASE e \in Properties
    <3>p. e \in PropertyIds
      BY <2>10, DatasetAssumption
    <3>1. /\ Within(e, g1, two) /\ DOMAIN two = DOMAIN one \cup {sname} /\ two[sname] = Stored(parts[sname])
          /\ two[ename] = one[ename]
      <4>1. Within(e, g1, one) /\ sname \in OwnNames({e}) /\ e \in Entities /\ ename \in DOMAIN one /\ ename # sname
        BY <1>e, <2>4, <2>5, <2>6, <3>p
      <4> DEFINE rdf == parts[sname]
      <4> HIDE DEF e, rdf
      <4>2. /\ Within(e, g1, PutGraph(one, sname, rdf))
            /\ DOMAIN PutGraph(one, sname, rdf) = DOMAIN one \cup {sname}
            /\ PutGraph(one, sname, rdf)[sname] = Stored(rdf) /\ PutGraph(one, sname, rdf)[ename] = one[ename]
        BY <4>1, PutWithin
      <4> QED
        BY <4>2 DEF rdf
    <3>2. Within(e, gr, two)
      BY <1>e, <2>4, <3>1, <3>p, DropWithin
    <3>3. gr.rows = g.rows /\ gr.cursor = g.cursor /\ gr.graphs = g.graphs \cup {ename, sname}
      BY <2>6, <2>7, <2>g, <2>r
    <3>4. IsGen(gr)
      BY <2>g, <3>2
    <3> HIDE DEF two, gr
    <3>5. IsGen(g2) /\ g2.rows = gr.rows /\ g2.graphs = gr.graphs /\ g2.cursor = gr.cursor
      BY <3>4, Heads
    <3>6. gr.cursor \in 0..lastRcid
      BY <3>2 DEF Within, Shape
    <3> HIDE DEF g2
    <3>7. Within(e, g2, two)
      BY <1>e, <3>2, <3>5, <3>6, HeadsWithin
    <3>8. Good(g1, two)
      <4>1. g1.rows[e].indexed = g.rows[e].indexed /\ g1.cursor = gen.cursor
        BY <2>7
      <4>2. Image(g1, two, e, pages[e].rev) \/ g1.rows[e].indexed # pages[e].rev \/ x.kind # "edit"
        BY <4>1
      <4> QED
        BY <3>1, <4>1, <4>2, UncommittedFollows
    <3>9. Good(g2, two)
      <4>1. g2.rows[e].indexed = g.rows[e].indexed /\ g2.cursor = gen.cursor
        BY <3>3, <3>5
      <4> QED
        BY <3>7, <4>1, UncommittedFollows
    <3>10. Image(g2, two, e, rev)
      <4>1. two[sname] = SchemaPart("store", e) \/ Points(contents[rev])
        BY <2>3, <3>1, <3>p, StoredSchema
      <4>2. /\ ename \in g2.graphs /\ sname \in g2.graphs /\ ename \in DOMAIN two /\ sname \in DOMAIN two
            /\ two[ename] = Stored(EntityPart(e, rev, contents[rev]))
        BY <2>3, <2>5, <3>1, <3>3, <3>5
      <4> QED
        BY <4>1, <4>2 DEF Image, ename, sname
    <3>11. GoodAt(At(SaveEntity(g2, e, rev), two)) /\ GoodAt(At(Commit(SaveEntity(g2, e, rev)), two))
      BY <2>9, <3>3, <3>5, <3>7, <3>10
    <3> DEFINE head == <<At(g, one), At(g1, one)>>
               tail == <<At(g1, two), At(g2, two), At(SaveEntity(g2, e, rev), two)>>
               last == At(Commit(SaveEntity(g2, e, rev)), two)
    <3>12. GoodPoints(head) /\ GoodPoints(tail) /\ GoodAt(last) /\ Last(tail) = At(SaveEntity(g2, e, rev), two)
      BY <2>8, <3>8, <3>9, <3>11, GoodFew, LastOfFew, AtParts
    <3>13. WritePoints(g, e, rev) = head \o tail
      BY <2>10 DEF WritePoints, parts, ename, sname, one, g1, two, gr, g2
    <3>14. WriteAndCommit(g, e, rev)
             = Append(WritePoints(g, e, rev),
                      At(Commit(Last(WritePoints(g, e, rev)).gen), Last(WritePoints(g, e, rev)).db))
      BY <1>2 DEF WriteAndCommit
    <3> HIDE DEF head, tail, last
    <3>15. GoodPoints(head \o tail) /\ Last(head \o tail) = At(SaveEntity(g2, e, rev), two)
      BY <3>12, GoodJoin
    <3>16. WriteAndCommit(g, e, rev) = Append(head \o tail, last)
      BY <3>13, <3>14, <3>15, AtParts DEF last
    <3> QED
      BY <3>12, <3>15, <3>16, GoodAppend
  <2>11. CASE e \notin Properties
    <3>p. e \notin PropertyIds
      BY <2>11, DatasetAssumption
    <3>1. Image(g1, one, e, rev)
      BY <2>3, <2>5, <2>7, <3>p DEF Image, ename
    <3>2. GoodAt(At(SaveEntity(g1, e, rev), one)) /\ GoodAt(At(Commit(SaveEntity(g1, e, rev)), one))
      BY <2>6, <2>7, <2>9, <3>1
    <3> DEFINE head == <<At(g, one), At(g1, one)>>
               tail == <<At(SaveEntity(g1, e, rev), one)>>
               last == At(Commit(SaveEntity(g1, e, rev)), one)
    <3>12. GoodPoints(head) /\ GoodPoints(tail) /\ GoodAt(last) /\ Last(tail) = At(SaveEntity(g1, e, rev), one)
      BY <2>8, <3>2, GoodFew, LastOfFew, AtParts
    <3>13. WritePoints(g, e, rev) = head \o tail
      BY <2>11 DEF WritePoints, parts, ename, sname, one, g1
    <3>14. WriteAndCommit(g, e, rev)
             = Append(WritePoints(g, e, rev),
                      At(Commit(Last(WritePoints(g, e, rev)).gen), Last(WritePoints(g, e, rev)).db))
      BY <1>2 DEF WriteAndCommit
    <3> HIDE DEF head, tail, last
    <3>15. GoodPoints(head \o tail) /\ Last(head \o tail) = At(SaveEntity(g1, e, rev), one)
      BY <3>12, GoodJoin
    <3>16. WriteAndCommit(g, e, rev) = Append(head \o tail, last)
      BY <3>13, <3>14, <3>15, AtParts DEF last
    <3> QED
      BY <3>12, <3>15, <3>16, GoodAppend
  <2> QED
    BY <2>10, <2>11
<1> QED
  BY <1>1, <1>2

LEMMA NextIsEvent ==
    ASSUME WikiInv, Good(gen, db), ReadChanges(gen.cursor) # {}
    PROVE  IsNext(Event)
<1>1. gen.cursor \in Nat
  BY DEF Good, Shape, WikiInv
<1> QED
  BY <1>1, EventIsOldest DEF Event, IsNext

LEMMA RowOfGeneration ==
    ASSUME WikiInv, Good(gen, db), NEW e \in Entities
    PROVE  /\ gen.rows[e] \in EntityRow /\ gen.rows[e].indexed \in Nat /\ pages[e].rev \in Nat
           /\ gen.rows[e].indexed <= pages[e].rev
           /\ \A s \in {"GAP", "RESTORING", "DELETED"} :
                 /\ [gen.rows[e] EXCEPT !.status = s] \in EntityRow
                 /\ [gen.rows[e] EXCEPT !.status = s].indexed = gen.rows[e].indexed
<1> DEFINE row == gen.rows[e]
<1>1. row \in EntityRow /\ pages[e].rev \in Nat /\ row.indexed <= pages[e].rev
  BY DEF WikiInv, Good, Shape, Follows
<1> HIDE DEF row
<1>2. row = [indexed |-> row.indexed, status |-> row.status] /\ row.indexed \in Nat
  BY <1>1 DEF EntityRow
<1>3. \A s : [row EXCEPT !.status = s] = [indexed |-> row.indexed, status |-> s]
  BY <1>2
<1>4. \A s \in {"GAP", "RESTORING", "DELETED"} :
         [row EXCEPT !.status = s] \in EntityRow /\ [row EXCEPT !.status = s].indexed = row.indexed
  BY <1>2, <1>3 DEF EntityRow
<1> QED
  BY <1>1, <1>2, <1>4 DEF row

\* An edit event, whether its revision is newer than the fence or not.
LEMMA EditFollows ==
    ASSUME WikiInv, LogInv, Good(gen, db), NEW x, IsNext(x), x = Event, x.kind = "edit"
    PROVE  GoodPoints(EditPoints(x.entity))
<1> DEFINE e == x.entity
           row == gen.rows[e]
           gap == [gen EXCEPT !.rows[e] = [row EXCEPT !.status = "GAP"]]
<1>1. e \in Entities /\ x \in rc
  BY RowsAfter DEF IsNext
<1>2. /\ row \in EntityRow /\ row.indexed \in Nat /\ pages[e].rev \in Nat /\ row.indexed <= pages[e].rev
      /\ [row EXCEPT !.status = "GAP"] \in EntityRow /\ [row EXCEPT !.status = "GAP"].indexed = row.indexed
  BY <1>1, RowOfGeneration
<1>3. x.rev \in Nat /\ x.rev <= pages[e].rev
  BY <1>1 DEF WikiInv, EventRow
<1>4. Newer(x) = {} => pages[e].exists /\ pages[e].rev = x.rev
  BY <1>1 DEF LogInv
<1>5. Within(e, gen, db)
  BY StartWithin
<1> HIDE DEF row
<1>6. CASE x.rev <= row.indexed
  <2>1. EditPoints(e) = <<At(Commit(gen), db)>>
    BY <1>2, <1>3, <1>6 DEF EditPoints, row
  <2>2. Newer(x) = {} => IF pages[e].exists THEN row.indexed = pages[e].rev ELSE Absent(gen, db, e)
    BY <1>2, <1>3, <1>4, <1>6
  <2>3. OnlyEdits(Newer(x)) => OnlyEdits(After(e, gen.cursor))
    BY RowsAfter DEF OnlyEdits
  <2>4. Follows(gen, db, e)
    BY <1>1 DEF Good
  <2>5. (pages[e].exists /\ row.indexed = pages[e].rev /\ OnlyEdits(Newer(x))) => Image(gen, db, e, pages[e].rev)
    BY <2>3, <2>4 DEF Follows, row
  <2>6. Good(Commit(gen), db)
    BY <1>2, <1>5, <2>2, <2>5, CommittedFollows DEF row
  <2> QED
    BY <2>1, <2>6, GoodFew, AtParts
<1>7. CASE x.rev > row.indexed /\ row.indexed # 0 /\ x.old # row.indexed
  <2>1. EditPoints(e) = <<At(gap, db), At(Stop(gap), db)>>
    <3>1. ~(x.rev <= row.indexed)
      BY <1>2, <1>3, <1>7
    <3> QED
      BY <1>7, <3>1 DEF EditPoints, row
  <2>2. Within(e, gap, db) /\ gap.rows[e].indexed = row.indexed /\ gap.cursor = gen.cursor
    BY <1>1, <1>2, <1>5, RowWithin
  <2> HIDE DEF gap
  <2>3. gap.rows[e].indexed # pages[e].rev /\ gap.rows[e].indexed <= pages[e].rev
    BY <1>2, <1>3, <1>7, <2>2
  <2>4. Good(gap, db) /\ Good(Stop(gap), db)
    BY <2>2, <2>3, UncommittedFollows
  <2> QED
    BY <2>1, <2>4, GoodFew, AtParts
<1>8. CASE x.rev > row.indexed /\ ~(row.indexed # 0 /\ x.old # row.indexed)
  <2>1. EditPoints(e) = WriteAndCommit(gen, e, x.rev)
    <3>1. ~(x.rev <= row.indexed)
      BY <1>2, <1>3, <1>8
    <3> QED
      BY <1>8, <3>1 DEF EditPoints, row
  <2>2. gen.rows[e].indexed # pages[e].rev /\ gen.rows[e].indexed <= pages[e].rev
    BY <1>2, <1>3, <1>8 DEF row
  <2>3. GoodPoints(WriteAndCommit(gen, e, x.rev))
    BY <1>3, <1>4, <1>5, <2>2, WriteFollows
  <2> QED
    BY <2>1, <2>3
<1> QED
  BY <1>2, <1>3, <1>6, <1>7, <1>8

\* A restoration: the gap is closed when the page is there.
LEMMA UndeleteFollows ==
    ASSUME WikiInv, LogInv, Good(gen, db), NEW x, IsNext(x), x = Event, x.kind = "restore"
    PROVE  GoodPoints(UndeletePoints(x.entity))
<1> DEFINE e == x.entity
           row == gen.rows[e]
           restoring == [gen EXCEPT !.rows[e] = [row EXCEPT !.status = "RESTORING"]]
           refused == Resolve(Event) = {} \/ row.status \notin {"DELETED", "RESTORING", "CURRENT"}
<1>1. e \in Entities /\ x \in rc
  BY RowsAfter DEF IsNext
<1>2. /\ row \in EntityRow /\ row.indexed \in Nat /\ pages[e].rev \in Nat /\ row.indexed <= pages[e].rev
      /\ [row EXCEPT !.status = "RESTORING"] \in EntityRow
      /\ [row EXCEPT !.status = "RESTORING"].indexed = row.indexed
  BY <1>1, RowOfGeneration
<1>3. Within(e, gen, db)
  BY StartWithin
<1>4. CASE refused
  <2>1. UndeletePoints(e) = <<At(Stop(gen), db)>>
    BY <1>4 DEF UndeletePoints
  <2>2. Good(Stop(gen), db)
    BY <1>2, <1>3, UncommittedFollows
  <2> QED
    BY <2>1, <2>2, GoodFew, AtParts
<1>5. CASE ~refused
  <2>1. UndeletePoints(e) = <<At(restoring, db)>> \o WriteAndCommit(restoring, e, pages[e].rev)
    BY <1>5 DEF UndeletePoints
  <2>2. pages[e].exists
    BY <1>5 DEF Resolve, LifecycleIds
  <2>3. /\ Within(e, restoring, db) /\ restoring.rows[e].indexed = row.indexed
        /\ restoring.cursor = gen.cursor /\ restoring.graphs = gen.graphs
    BY <1>1, <1>2, <1>3, RowWithin
  <2> HIDE DEF restoring, row, refused
  <2>4. Good(restoring, db)
    BY <1>2, <2>3, UncommittedFollows
  <2>5. GoodPoints(WriteAndCommit(restoring, e, pages[e].rev))
    BY <1>2, <2>2, <2>3, WriteFollows
  <2> QED
    BY <2>1, <2>4, <2>5, GoodFew, GoodJoin, AtParts
<1> QED
  BY <1>4, <1>5

\* A deletion: the graphs are dropped and the row becomes a tombstone.
LEMMA DeleteFollows ==
    ASSUME WikiInv, LogInv, Good(gen, db), NEW x, IsNext(x), x = Event, x.kind = "delete"
    PROVE  GoodPoints(DeletePoints(x.entity))
<1> DEFINE e == x.entity
           ename == EntityGraphName(e)
           sname == SchemaGraphName(e)
           drop(point, name) ==
              <<At(point.gen, DeleteNamedGraph(point.db, name)),
                At([point.gen EXCEPT !.graphs = @ \ {name}], DeleteNamedGraph(point.db, name))>>
           d1 == DeleteNamedGraph(db, ename)
           g1 == [gen EXCEPT !.graphs = @ \ {ename}]
           d2 == DeleteNamedGraph(d1, sname)
           g2 == [g1 EXCEPT !.graphs = @ \ {sname}]
           status(g) == [g.rows[e] EXCEPT !.status = "DELETED"]
<1>1. e \in Entities /\ x \in rc
  BY RowsAfter DEF IsNext
<1>2. /\ gen.rows[e] \in EntityRow /\ gen.rows[e].indexed \in Nat /\ pages[e].rev \in Nat
      /\ gen.rows[e].indexed <= pages[e].rev
      /\ [gen.rows[e] EXCEPT !.status = "DELETED"] \in EntityRow
      /\ [gen.rows[e] EXCEPT !.status = "DELETED"].indexed = gen.rows[e].indexed
  BY <1>1, RowOfGeneration
<1>3. Within(e, gen, db)
  BY StartWithin
<1>4. pages[e].exists => Newer(x) # {} /\ ~OnlyEdits(Newer(x))
  BY <1>1 DEF LogInv, OnlyEdits
<1>5. ename \in OwnNames({e}) /\ (e \in PropertyIds => sname \in OwnNames({e}))
  BY NamesOf
<1>6. \A n : n \in OwnNames({e}) <=> n = ename \/ (e \in PropertyIds /\ n = sname)
  BY NamesOf
<1>g. ASSUME NEW g, NEW d, Within(e, g, d), NEW n
      PROVE  LET h == [g EXCEPT !.graphs = @ \ {n}]
             IN  h.rows = g.rows /\ h.cursor = g.cursor /\ h.graphs = g.graphs \ {n}
  BY <1>g DEF Within, Shape
<1>7. Within(e, gen, d1) /\ DOMAIN d1 = DOMAIN db \ {ename}
  <2>1. Within(e, gen, d1)
    BY <1>1, <1>3, <1>5, DropWithin
  <2>2. DOMAIN d1 = DOMAIN db \ {ename}
    BY DEF DeleteNamedGraph
  <2> QED
    BY <2>1, <2>2
<1>8. Within(e, g1, d1)
  BY <1>1, <1>5, <1>7, DropWithin
<1>9. g1.rows = gen.rows /\ g1.cursor = gen.cursor /\ g1.graphs = gen.graphs \ {ename}
  BY <1>3, <1>g
<1> HIDE DEF ename, sname, d1, g1
<1>10. Good(gen, d1) /\ Good(g1, d1)
  BY <1>2, <1>7, <1>8, <1>9, UncommittedFollows
\* the tombstone
<1>11. ASSUME NEW g, NEW d, Within(e, g, d), g.rows = gen.rows, g.cursor = gen.cursor, Absent(g, d, e)
       PROVE  GoodAt(At(Commit([g EXCEPT !.rows[e].status = "DELETED"]), d))
  <2> DEFINE h == [g EXCEPT !.rows[e] = [g.rows[e] EXCEPT !.status = "DELETED"]]
  <2>1. Within(e, h, d) /\ h.rows[e] = [g.rows[e] EXCEPT !.status = "DELETED"] /\ h.graphs = g.graphs
    BY <1>1, <1>2, <1>11, RowWithin
  <2>2. [g EXCEPT !.rows[e].status = "DELETED"] = h
    OBVIOUS
  <2> HIDE DEF h
  <2>3. h.rows[e].indexed <= pages[e].rev /\ Absent(h, d, e)
    BY <1>2, <1>11, <2>1 DEF Absent
  <2>4. Good(Commit(h), d)
    BY <1>4, <2>1, <2>3, CommittedFollows
  <2> QED
    BY <2>2, <2>4, AtParts
<1> DEFINE first == drop(At(gen, db), ename)
<1>12. first = <<At(gen, d1), At(g1, d1)>>
  BY AtParts DEF d1, g1
<1>13. DeletePoints(e) =
         LET all == IF e \in Properties THEN first \o drop(Last(first), sname) ELSE first
             end == Last(all)
         IN  Append(all, At(Commit([end.gen EXCEPT !.rows[e].status = "DELETED"]), end.db))
  BY DEF DeletePoints, ename, sname
<1> HIDE DEF first, drop
<1>14. GoodPoints(first) /\ Last(first) = At(g1, d1)
  BY <1>10, <1>12, GoodFew, LastOfFew, AtParts
<1>15. CASE e \in Properties
  <2>p. e \in PropertyIds
    BY <1>15, DatasetAssumption
  <2>1. Within(e, g1, d2) /\ DOMAIN d2 = DOMAIN d1 \ {sname}
    <3>1. sname \in OwnNames({e})
      BY <1>5, <2>p
    <3>2. Within(e, g1, d2)
      BY <1>1, <1>8, <3>1, DropWithin
    <3>3. DOMAIN d2 = DOMAIN d1 \ {sname}
      BY DEF DeleteNamedGraph
    <3> QED
      BY <3>2, <3>3
  <2>2. Within(e, g2, d2)
    BY <1>1, <1>5, <2>1, <2>p, DropWithin
  <2>3. g2.rows = gen.rows /\ g2.cursor = gen.cursor /\ g2.graphs = gen.graphs \ {ename, sname}
    <3>1. g2.rows = g1.rows /\ g2.cursor = g1.cursor /\ g2.graphs = g1.graphs \ {sname}
      BY <1>8, <1>g
    <3> QED
      BY <1>9, <3>1
  <2> HIDE DEF d2, g2
  <2>4. Good(g1, d2) /\ Good(g2, d2)
    BY <1>2, <1>9, <2>1, <2>2, <2>3, UncommittedFollows
  <2>5. Absent(g2, d2, e)
    BY <1>6, <1>7, <2>1, <2>3 DEF Absent
  <2> DEFINE second == drop(Last(first), sname)
             last == At(Commit([g2 EXCEPT !.rows[e].status = "DELETED"]), d2)
  <2>6. second = <<At(g1, d2), At(g2, d2)>>
    <3> DEFINE p == Last(first)
    <3>1. p.gen = g1 /\ p.db = d1
      BY <1>14, AtParts
    <3>2. second = <<At(p.gen, DeleteNamedGraph(p.db, sname)),
                     At([p.gen EXCEPT !.graphs = @ \ {sname}], DeleteNamedGraph(p.db, sname))>>
      BY DEF drop
    <3> HIDE DEF p
    <3>3. d2 = DeleteNamedGraph(p.db, sname)
      BY <3>1 DEF d2
    <3>4. g2 = [p.gen EXCEPT !.graphs = @ \ {sname}]
      BY <3>1, Zenon DEF g2
    <3> QED
      BY <3>1, <3>2, <3>3, <3>4
  <2>7. GoodAt(last)
    BY <1>11, <2>2, <2>3, <2>5
  <2> HIDE DEF last, second
  <2>8. GoodPoints(second) /\ Last(second) = At(g2, d2)
    BY <2>4, <2>6, GoodFew, LastOfFew, AtParts
  <2>9. GoodPoints(first \o second) /\ Last(first \o second) = At(g2, d2)
    BY <1>14, <2>8, GoodJoin
  <2>10. DeletePoints(e) = Append(first \o second, last)
    <3> DEFINE end == Last(first \o second)
    <3>1. end.gen = g2 /\ end.db = d2
      BY <2>9, AtParts
    <3>2. DeletePoints(e) = Append(first \o second,
                                   At(Commit([end.gen EXCEPT !.rows[e].status = "DELETED"]), end.db))
      BY <1>13, <1>15 DEF second
    <3> HIDE DEF end
    <3> QED
      BY <3>1, <3>2, Zenon DEF last
  <2> QED
    BY <2>7, <2>9, <2>10, GoodAppend
<1>16. CASE e \notin Properties
  <2>p. e \notin PropertyIds
    BY <1>16, DatasetAssumption
  <2>5. Absent(g1, d1, e)
    BY <1>6, <1>7, <1>9, <2>p DEF Absent
  <2> DEFINE last == At(Commit([g1 EXCEPT !.rows[e].status = "DELETED"]), d1)
  <2>7. GoodAt(last)
    BY <1>8, <1>9, <1>11, <2>5
  <2> HIDE DEF last
  <2>10. DeletePoints(e) = Append(first, last)
    BY <1>13, <1>14, <1>16, AtParts DEF last
  <2> QED
    BY <1>14, <2>7, <2>10, GoodAppend
<1> QED
  BY <1>15, <1>16

\* Whatever the event and wherever its handler stops, the generation follows the wiki.
LEMMA EventFollows ==
    ASSUME WikiInv, LogInv, Good(gen, db), ReadChanges(gen.cursor) # {}
    PROVE  GoodPoints(EventPoints)
<1> DEFINE x == Event
<1>1. IsNext(x)
  BY NextIsEvent
<1>2. x.kind \in {"edit", "delete", "restore"}
  BY <1>1 DEF IsNext, WikiInv, EventRow
<1> HIDE DEF x
<1>3. EventPoints = CASE x.kind = "edit"    -> EditPoints(x.entity)
                      [] x.kind = "restore" -> UndeletePoints(x.entity)
                      [] x.kind = "delete"  -> DeletePoints(x.entity)
  BY DEF EventPoints, x
<1>4. CASE x.kind = "edit"
  <2>1. EventPoints = EditPoints(x.entity)
    BY <1>3, <1>4
  <2> QED
    BY <1>1, <1>4, <2>1, EditFollows DEF x
<1>5. CASE x.kind = "restore"
  <2>1. EventPoints = UndeletePoints(x.entity)
    BY <1>3, <1>5
  <2> QED
    BY <1>1, <1>5, <2>1, UndeleteFollows DEF x
<1>6. CASE x.kind = "delete"
  <2>1. EventPoints = DeletePoints(x.entity)
    BY <1>3, <1>6
  <2> QED
    BY <1>1, <1>6, <2>1, DeleteFollows DEF x
<1> QED
  BY <1>2, <1>4, <1>5, <1>6

-----------------------------------------------------------------------------
(***************************************************************************)
(* The dump and the load.                                                  *)
(***************************************************************************)

\* A dump of the entities in done, begun at the cursor: an entity that no later
\* row is about is in it as the wiki has it.
Dumped(found, cursor, done) ==
    /\ cursor \in 0..lastRcid /\ DOMAIN found \subseteq done /\ done \subseteq Entities
    /\ \A e \in DOMAIN found : /\ found[e].claims = contents[found[e].rev]
                               /\ found[e].rev \in 1..pages[e].rev /\ revisions[found[e].rev] = e
    /\ \A e \in done : After(e, cursor) = {} =>
          IF pages[e].exists THEN e \in DOMAIN found /\ found[e].rev = pages[e].rev
          ELSE e \notin DOMAIN found

\* The graphs with these names are loaded and registered, and their entities saved.
LoadedFrom(g, d, found, names) ==
    /\ Shape(g, d) /\ g.graphs = names /\ DOMAIN d = names
    /\ \A e \in DOMAIN found : EntityGraphName(e) \in names => d[EntityGraphName(e)] = Stored(PartOf(found, e))
    /\ \A p \in DOMAIN found : p \in PropertyIds /\ SchemaGraphName(p) \in names /\ ~Points(found[p].claims) =>
          d[SchemaGraphName(p)] = SchemaPart("store", p)
    /\ \A e \in Entities : g.rows[e].indexed = IF EntityGraphName(e) \in names THEN found[e].rev ELSE 0

\* A change of the wiki is a row the dump does not answer for.
LEMMA DumpedUnderWiki ==
    ASSUME WikiInv, WikiInv', NEW found, NEW cursor, NEW done,
           Dumped(found, cursor, done), NEW e \in Entities, NEW row, WikiMove(e, row)
    PROVE  Dumped(found, cursor, done)'
<1>1. /\ row \in rc' /\ row.rcid = lastRcid + 1 /\ row.entity = e /\ lastRcid' = lastRcid + 1
      /\ rc' \subseteq rc \cup {row} /\ \A x \in rc : x.entity # e => x \in rc'
      /\ \A f \in Entities : f # e => pages'[f] = pages[f]
      /\ pages'[e].rev >= pages[e].rev
      /\ \A r \in 1..Len(revisions) : contents'[r] = contents[r] /\ revisions'[r] = revisions[r]
  BY DEF WikiMove
<1>2. cursor \in 0..lastRcid /\ lastRcid \in Nat
  BY DEF Dumped, WikiInv
<1>3. ASSUME NEW f \in DOMAIN found
      PROVE  /\ found[f].claims = contents'[found[f].rev]
             /\ found[f].rev \in 1..pages'[f].rev /\ revisions'[found[f].rev] = f
  <2>1. /\ f \in Entities /\ found[f].claims = contents[found[f].rev]
        /\ found[f].rev \in 1..pages[f].rev /\ revisions[found[f].rev] = f
    BY DEF Dumped
  <2>2. pages[f].rev \in 1..Len(revisions) /\ pages'[f].rev \in Nat /\ pages[f].rev <= pages'[f].rev
    <3>1. pages[f].rev \in 1..Len(revisions) /\ pages'[f].rev \in Nat /\ pages[f].rev \in Nat
      BY <2>1 DEF WikiInv
    <3>2. CASE f = e
      BY <1>1, <3>1, <3>2
    <3>3. CASE f # e
      BY <1>1, <2>1, <3>1, <3>3
    <3> QED
      BY <3>1, <3>2, <3>3
  <2>3. found[f].rev \in 1..Len(revisions)
    BY <2>1, <2>2
  <2> QED
    BY <1>1, <2>1, <2>2, <2>3
<1>4. ASSUME NEW f \in done, After(f, cursor)' = {}
      PROVE  /\ After(f, cursor) = {} /\ pages'[f] = pages[f]
  <2>1. f # e
    BY <1>1, <1>2, <1>4 DEF After
  <2>2. After(f, cursor)' = After(f, cursor)
    BY <1>1, <1>2, <2>1 DEF After
  <2> QED
    BY <1>1, <1>4, <2>1, <2>2 DEF Dumped
<1> QED
  BY <1>1, <1>2, <1>3, <1>4 DEF Dumped

\* The next entity of the dump.
LEMMA EntityDumped ==
    ASSUME WikiInv, NEW found, NEW cursor, NEW done, Dumped(found, cursor, done),
           NEW next \in Entities, next \notin done
    PROVE  LET seen == Found({next})
               more == [e \in DOMAIN found \cup DOMAIN seen |-> IF e \in DOMAIN seen THEN seen[e] ELSE found[e]]
           IN  Dumped(more, cursor, done \cup {next})
<1> DEFINE seen == Found({next})
           more == [e \in DOMAIN found \cup DOMAIN seen |-> IF e \in DOMAIN seen THEN seen[e] ELSE found[e]]
<1>1. /\ DOMAIN seen = {e \in {next} : pages[e].exists}
      /\ \A e \in DOMAIN seen : seen[e].rev = pages[e].rev /\ seen[e].claims = contents[pages[e].rev]
  BY FoundDescribed
<1>2. /\ DOMAIN more = DOMAIN found \cup DOMAIN seen
      /\ \A e \in DOMAIN seen : more[e] = seen[e]
      /\ \A e \in DOMAIN found : e # next => more[e] = found[e]
  BY <1>1
<1> HIDE DEF seen, more
<1>3. /\ pages[next].rev \in 1..Len(revisions) /\ revisions[pages[next].rev] = next
      /\ next \notin DOMAIN found
  BY DEF WikiInv, Dumped
<1>4. \A e \in DOMAIN more : /\ more[e].claims = contents[more[e].rev]
                             /\ more[e].rev \in 1..pages[e].rev /\ revisions[more[e].rev] = e
  <2> TAKE e \in DOMAIN more
  <2>1. CASE e \in DOMAIN seen
    BY <1>1, <1>2, <1>3, <2>1
  <2>2. CASE e \notin DOMAIN seen
    BY <1>2, <2>2 DEF Dumped
  <2> QED
    BY <2>1, <2>2
<1>5. ASSUME NEW e \in done \cup {next}, After(e, cursor) = {}
      PROVE  IF pages[e].exists THEN e \in DOMAIN more /\ more[e].rev = pages[e].rev ELSE e \notin DOMAIN more
  <2>1. CASE e = next
    BY <1>1, <1>2, <1>3, <2>1
  <2>2. CASE e # next
    <3>1. e \in done /\ e \notin DOMAIN seen
      BY <1>1, <2>2
    <3>2. IF pages[e].exists THEN e \in DOMAIN found /\ found[e].rev = pages[e].rev ELSE e \notin DOMAIN found
      BY <1>5, <3>1 DEF Dumped
    <3>3. e \in DOMAIN found => e \in DOMAIN more /\ more[e] = found[e]
      BY <1>2, <2>2
    <3> QED
      BY <1>2, <3>1, <3>2, <3>3
  <2> QED
    BY <2>1, <2>2
<1> QED
  BY <1>1, <1>2, <1>4, <1>5 DEF Dumped, more, seen

\* A finished load follows the wiki.
LEMMA LoadedFollows ==
    ASSUME WikiInv, NEW g, NEW d, NEW found, LoadedFrom(g, d, found, OwnNames(DOMAIN found)),
           Dumped(found, g.cursor, Entities)
    PROVE  Good(g, d)
<1>1. ASSUME NEW e \in Entities
      PROVE  Follows(g, d, e)
  <2>1. EntityGraphName(e) \in OwnNames(DOMAIN found) <=> e \in DOMAIN found
    BY GraphNames DEF OwnNames
  <2>2. e \in PropertyIds => (SchemaGraphName(e) \in OwnNames(DOMAIN found) <=> e \in DOMAIN found)
    BY GraphNames DEF OwnNames
  <2>3. g.rows[e].indexed = IF e \in DOMAIN found THEN found[e].rev ELSE 0
    BY <2>1 DEF LoadedFrom
  <2>4. pages[e].rev \in Nat /\ pages[e].rev > 0
    BY DEF WikiInv
  <2>5. e \in DOMAIN found => found[e].rev \in 1..pages[e].rev /\ found[e].claims = contents[found[e].rev]
    BY DEF Dumped
  <2>6. g.rows[e].indexed <= pages[e].rev
    BY <2>3, <2>4, <2>5
  <2>7. e \notin DOMAIN found => Absent(g, d, e)
    <3> SUFFICES ASSUME e \notin DOMAIN found, NEW n \in OwnNames({e})
                 PROVE  n \notin g.graphs /\ n \notin DOMAIN d
      BY DEF Absent
    <3>1. n \notin OwnNames(DOMAIN found)
      <4>1. n = EntityGraphName(e) \/ (e \in PropertyIds /\ n = SchemaGraphName(e))
        BY NamesOf
      <4> QED
        BY <2>1, <2>2, <4>1
    <3> QED
      BY <3>1 DEF LoadedFrom
  <2>8. e \in DOMAIN found => Image(g, d, e, found[e].rev)
    <3> SUFFICES ASSUME e \in DOMAIN found PROVE Image(g, d, e, found[e].rev)
      OBVIOUS
    <3>1. PartOf(found, e) = EntityPart(e, found[e].rev, contents[found[e].rev])
      BY <2>5 DEF PartOf
    <3>2. /\ g.graphs = OwnNames(DOMAIN found) /\ DOMAIN d = OwnNames(DOMAIN found)
          /\ d[EntityGraphName(e)] = Stored(PartOf(found, e))
          /\ e \in PropertyIds /\ ~Points(found[e].claims) => d[SchemaGraphName(e)] = SchemaPart("store", e)
      BY <2>1, <2>2 DEF LoadedFrom
    <3> QED
      BY <2>1, <2>2, <2>5, <3>1, <3>2 DEF Image
  <2>9. g.rows[e].indexed = pages[e].rev => e \in DOMAIN found /\ found[e].rev = pages[e].rev
    BY <2>3, <2>4
  <2>10. After(e, g.cursor) = {} =>
           IF pages[e].exists THEN e \in DOMAIN found /\ found[e].rev = pages[e].rev ELSE e \notin DOMAIN found
    BY DEF Dumped
  <2> QED
    BY <2>3, <2>6, <2>7, <2>8, <2>9, <2>10 DEF Follows
<1> QED
  BY <1>1 DEF Good, LoadedFrom

LEMMA DumpedDescribed ==
    ASSUME WikiInv, NEW found, NEW cursor, NEW done, Dumped(found, cursor, done)
    PROVE  Described(found)
<1>1. DOMAIN found \subseteq Entities
  BY DEF Dumped
<1>2. ASSUME NEW e \in DOMAIN found
      PROVE  found[e].claims \in Contents
  <2>1. /\ e \in Entities /\ found[e].claims = contents[found[e].rev]
        /\ found[e].rev \in 1..pages[e].rev /\ revisions[found[e].rev] = e
    BY <1>1 DEF Dumped
  <2>2. pages[e].rev \in 1..Len(revisions) /\ Len(revisions) \in Nat
    BY <2>1 DEF WikiInv
  <2>3. found[e].rev \in 1..Len(revisions)
    BY <2>1, <2>2
  <2> QED
    BY <2>1, <2>3 DEF WikiInv
<1> QED
  BY <1>1, <1>2 DEF Described

\* Every graph of entities that are in the dump has a body, and no other has.
LEMMA BodiesOfDump ==
    ASSUME NEW found, Described(found)
    PROVE  WithBody(Expected(found)) = OwnNames(DOMAIN found)
<1> DEFINE graphs == Expected(found)
<1>1. /\ DOMAIN graphs = OwnNames(DOMAIN found) \cup {GlobalGraphName}
      /\ \A e \in DOMAIN found : graphs[EntityGraphName(e)] = PartOf(found, e)
      /\ \A p \in DOMAIN found : p \in PropertyIds => SchemaPart("dump", p) \subseteq graphs[SchemaGraphName(p)]
      /\ graphs[GlobalGraphName] = {}
  BY ExpectedGraphs
<1> HIDE DEF graphs
<1>2. \A e \in DOMAIN found : Label(e, found[e].rev) \in PartOf(found, e)
  BY DEF PartOf, EntityPart
<1>3. \A p : <<Direct(p), "type", Literal("iri", "Property")>> \in SchemaPart("dump", p)
  BY DEF SchemaPart
<1>4. ASSUME NEW n \in OwnNames(DOMAIN found)
      PROVE  graphs[n] # {}
  <2>1. CASE \E e \in DOMAIN found : n = EntityGraphName(e)
    BY <1>1, <1>2, <2>1
  <2>2. CASE \E p \in DOMAIN found : p \in PropertyIds /\ n = SchemaGraphName(p)
    BY <1>1, <1>3, <2>2
  <2> QED
    BY <2>1, <2>2 DEF OwnNames
<1>5. WithBody(graphs) = {n \in DOMAIN graphs : graphs[n] # {}}
  BY DEF WithBody
<1> QED
  BY <1>1, <1>4, <1>5 DEF graphs

LEMMA NextIsThere ==
    ASSUME NEW names, names # {}, names \subseteq AllNames
    PROVE  NextGraph(names) \in names
<1>1. ASSUME NEW n \in names
      PROVE  Place(n) \in Nat
  <2>1. Cardinality(Entities) \in Nat /\ \A e \in Entities : Position(e) \in Nat
    BY SourceAssumption, FS_CardinalityType, OrderOfEntities
  <2>2. CASE \E e \in Entities : n = EntityGraphName(e)
    <3>1. PICK e \in Entities : n = EntityGraphName(e)
      BY <2>2
    <3>2. n[1] = "entity" /\ n[2] = e
      BY <3>1, GraphNames
    <3>3. Place(n) = 2 * Position(e)
      BY <3>2 DEF Place
    <3> QED
      BY <2>1, <3>3
  <2>3. CASE \E p \in Entities \cap PropertyIds : n = SchemaGraphName(p)
    <3>1. PICK p \in Entities \cap PropertyIds : n = SchemaGraphName(p)
      BY <2>3
    <3>2. n[1] = "schema" /\ n[2] = p
      BY <3>1, GraphNames
    <3>3. Place(n) = 2 * Position(p) + 1
      BY <3>2 DEF Place
    <3> QED
      BY <2>1, <3>3
  <2> QED
    BY <2>2, <2>3 DEF AllNames, OwnNames
<1> DEFINE places == {Place(n) : n \in names}
<1>2. PICK m \in places : \A k \in places : m <= k
  <2>1. places \in SUBSET Nat /\ places # {}
    BY <1>1
  <2> HIDE DEF places
  <2> QED
    BY <2>1, LeastNumber
<1>3. \E n \in names : \A k \in names : Place(n) <= Place(k)
  BY <1>2
<1> QED
  BY <1>3 DEF NextGraph

\* One graph more is loaded.
LEMMA GraphLoaded ==
    ASSUME Described(job.found), \A e \in DOMAIN job.found : job.found[e].rev \in Nat,
           NEW names, LoadedFrom(gen, db, job.found, names),
           NEW n \in OwnNames(DOMAIN job.found), n \notin names, job.cursor = gen.cursor
    PROVE  LET last == Last(LoadPoints(n, Expected(job.found)))
           IN  LoadedFrom(last.gen, last.db, job.found, names \cup {n}) /\ last.gen.cursor = gen.cursor
<1> DEFINE found == job.found
           graphs == Expected(found)
           put == PutGraph(db, n, graphs[n])
           registered == Register(gen, n)
           last == Last(LoadPoints(n, graphs))
<1>1. /\ \A e \in DOMAIN found : graphs[EntityGraphName(e)] = PartOf(found, e)
      /\ \A p \in DOMAIN found : p \in PropertyIds /\ ~Points(found[p].claims) =>
            graphs[SchemaGraphName(p)] = SchemaPart("dump", p)
  <2>1. Described(found)
    OBVIOUS
  <2> HIDE DEF found
  <2> QED
    BY <2>1, ExpectedGraphs
<1>2. /\ DOMAIN put = DOMAIN db \cup {n} /\ put[n] = Stored(graphs[n])
      /\ \A m \in DOMAIN db : m # n => put[m] = db[m]
  <2> DEFINE image == Stored(graphs[n])
  <2>1. put = [m \in DOMAIN db \cup {n} |-> IF m = n THEN image ELSE db[m]]
    BY DEF PutGraph
  <2> HIDE DEF put, image
  <2>2. /\ DOMAIN put = DOMAIN db \cup {n} /\ put[n] = image
        /\ \A m \in DOMAIN db : m # n => put[m] = db[m]
    BY <2>1
  <2> QED
    BY <2>2 DEF image
<1>3. /\ IsGen(registered) /\ registered.rows = gen.rows /\ registered.cursor = gen.cursor
      /\ registered.graphs = gen.graphs \cup {n}
  <2>1. IsGen(gen)
    BY DEF LoadedFrom, Shape, IsGen
  <2>2. registered = [gen EXCEPT !.graphs = gen.graphs \cup {n}]
    BY DEF Register
  <2> HIDE DEF registered
  <2> QED
    BY <2>1, <2>2 DEF IsGen
<1>4. DOMAIN found \subseteq Entities
  BY DEF Described
<1>5. n \in AllNames
  BY <1>4 DEF OwnNames, AllNames
<1>6. Shape(registered, put)
  BY <1>2, <1>3, <1>5 DEF LoadedFrom, Shape, IsGen
<1>a. LoadedFrom(gen, db, found, names)
  OBVIOUS
<1>n. n \in OwnNames(DOMAIN found)
  OBVIOUS
<1> HIDE DEF put, registered, graphs
<1>7. /\ \A e \in DOMAIN found : EntityGraphName(e) \in names \cup {n} => put[EntityGraphName(e)] = Stored(PartOf(found, e))
      /\ \A p \in DOMAIN found : p \in PropertyIds /\ SchemaGraphName(p) \in names \cup {n} /\ ~Points(found[p].claims) =>
            put[SchemaGraphName(p)] = SchemaPart("store", p)
  <2> HIDE DEF found
  <2>1. ASSUME NEW e \in DOMAIN found, EntityGraphName(e) \in names \cup {n}
        PROVE  put[EntityGraphName(e)] = Stored(PartOf(found, e))
    <3>1. CASE EntityGraphName(e) = n
      BY <1>1, <1>2, <3>1
    <3>2. CASE EntityGraphName(e) # n
      BY <1>2, <1>a, <2>1, <3>2 DEF LoadedFrom
    <3> QED
      BY <3>1, <3>2
  <2>2. ASSUME NEW p \in DOMAIN found, p \in PropertyIds, SchemaGraphName(p) \in names \cup {n}, ~Points(found[p].claims)
        PROVE  put[SchemaGraphName(p)] = SchemaPart("store", p)
    <3>1. CASE SchemaGraphName(p) = n
      BY <1>1, <1>2, <2>2, <3>1, StoredSchema
    <3>2. CASE SchemaGraphName(p) # n
      BY <1>2, <1>a, <2>2, <3>2 DEF LoadedFrom
    <3> QED
      BY <3>1, <3>2
  <2> QED
    BY <2>1, <2>2
<1>8. CASE n[1] = "entity"
  <2>1. PICK e \in DOMAIN found : n = EntityGraphName(e)
    BY <1>8, <1>n, GraphNames DEF OwnNames
  <2>2. n[2] = e /\ e \in Entities
    BY <1>4, <2>1, GraphNames
  <2> DEFINE saved == SaveEntity(registered, e, found[e].rev)
             row == [indexed |-> found[e].rev, status |-> "CURRENT"]
  <2>3. LoadPoints(n, graphs) = <<At(gen, put), At(registered, put)>> \o <<At(saved, put)>>
    BY <1>8, <2>2 DEF LoadPoints, put, registered
  <2>4. last = At(saved, put)
    <3> DEFINE a == At(gen, put)
               b == At(registered, put)
               c == At(saved, put)
    <3> HIDE DEF saved, a, b, c
    <3> DEFINE S == {a, b, c}
    <3>s. a \in S /\ b \in S /\ c \in S
      OBVIOUS
    <3> HIDE DEF S
    <3>1. <<a, b>> \in Seq(S) /\ <<c>> \in Seq(S) /\ Len(<<c>>) > 0 /\ Last(<<c>>) = c
      BY <3>s, FewPoints
    <3>2. Last(<<a, b>> \o <<c>>) = c
      BY <3>1, JoinPoints
    <3> QED
      BY <2>3, <3>2 DEF a, b, c
  <2>5. saved = [registered EXCEPT !.rows[e] = row]
    BY DEF SaveEntity
  <2>6. row \in EntityRow /\ row.indexed = found[e].rev
    BY <2>1 DEF EntityRow
  <2> HIDE DEF saved, row
  <2>7. /\ IsGen(saved) /\ saved.graphs = registered.graphs /\ saved.cursor = registered.cursor
        /\ saved.rows = [registered.rows EXCEPT ![e] = row]
    BY <1>3, <2>5 DEF IsGen
  <2>8. /\ saved.rows \in [Entities -> EntityRow] /\ saved.rows[e] = row
        /\ \A f \in Entities : f # e => saved.rows[f] = gen.rows[f]
    BY <1>3, <1>6, <2>2, <2>6, <2>7 DEF Shape
  <2>9. Shape(saved, put)
    BY <1>6, <2>7, <2>8 DEF Shape, IsGen
  <2>10. ASSUME NEW f \in Entities
         PROVE  saved.rows[f].indexed = IF EntityGraphName(f) \in names \cup {n} THEN found[f].rev ELSE 0
    <3>1. CASE f = e
      BY <2>1, <2>6, <2>8, <3>1
    <3>2. CASE f # e
      <4>1. EntityGraphName(f) # n
        BY <2>1, <3>2, GraphNames
      <4>2. gen.rows[f].indexed = IF EntityGraphName(f) \in names THEN found[f].rev ELSE 0
        BY <1>a DEF LoadedFrom
      <4> QED
        BY <2>8, <3>2, <4>1, <4>2
    <3> QED
      BY <3>1, <3>2
  <2>11. saved.graphs = names \cup {n} /\ DOMAIN put = names \cup {n}
    BY <1>2, <1>3, <1>a, <2>7 DEF LoadedFrom
  <2>12. LoadedFrom(saved, put, found, names \cup {n})
    <3> HIDE DEF found
    <3> QED
      BY <1>7, <2>9, <2>10, <2>11 DEF LoadedFrom
  <2>13. last.gen = saved /\ last.db = put
    BY <2>4, AtParts
  <2> QED
    BY <1>3, <2>7, <2>12, <2>13 DEF graphs
<1>9. CASE n[1] # "entity"
  <2>1. LoadPoints(n, graphs) = <<At(gen, put), At(registered, put)>> \o <<>>
    BY <1>9 DEF LoadPoints, put, registered
  <2>2. last = At(registered, put)
    <3> DEFINE a == At(gen, put)
               b == At(registered, put)
    <3> HIDE DEF a, b
    <3>1. <<a, b>> \o <<>> = <<a, b>>
      OBVIOUS
    <3> QED
      BY <2>1, <3>1, LastOfFew DEF a, b
  <2>3. \A f : EntityGraphName(f) # n
    BY <1>9, GraphNames
  <2>4. registered.graphs = names \cup {n} /\ DOMAIN put = names \cup {n}
    BY <1>2, <1>3, <1>a DEF LoadedFrom
  <2>5. \A f \in Entities :
           registered.rows[f].indexed = IF EntityGraphName(f) \in names \cup {n} THEN found[f].rev ELSE 0
    BY <1>3, <1>a, <2>3 DEF LoadedFrom
  <2>6. LoadedFrom(registered, put, found, names \cup {n})
    <3> HIDE DEF found
    <3> QED
      BY <1>6, <1>7, <2>4, <2>5 DEF LoadedFrom
  <2>7. last.gen = registered /\ last.db = put
    BY <2>2, AtParts
  <2> QED
    BY <1>3, <2>6, <2>7 DEF graphs
<1> QED
  BY <1>8, <1>9

-----------------------------------------------------------------------------
(***************************************************************************)
(* A generation in step with the wiki, compared with a dump of it.         *)
(***************************************************************************)

\* A generation in step with the wiki, compared graph by graph with a fresh dump.
LEMMA StepCompares ==
    ASSUME WikiInv, Good(gen, db), gen.cursor = lastRcid
    PROVE  LET fresh == Expected(Found(Entities))
           IN  /\ DOMAIN db = gen.graphs /\ GlobalGraphName \notin gen.graphs
               /\ DOMAIN fresh = gen.graphs \cup {GlobalGraphName} /\ fresh[GlobalGraphName] = {}
               /\ \A n \in gen.graphs :
                     (n[1] = "schema" /\ PointsAtEntity(n[2])) \/ Compare(fresh[n], db[n]) = "EQUAL"
<1> DEFINE found == Found(Entities)
           fresh == Expected(found)
<1>1. /\ DOMAIN found = {e \in Entities : pages[e].exists} /\ Described(found)
      /\ \A e \in DOMAIN found : found[e].rev = pages[e].rev /\ found[e].claims = contents[pages[e].rev]
  BY FoundDescribed
<1> HIDE DEF found
<1>2. /\ DOMAIN fresh = OwnNames(DOMAIN found) \cup {GlobalGraphName}
      /\ \A e \in DOMAIN found : fresh[EntityGraphName(e)] = PartOf(found, e)
      /\ \A p \in DOMAIN found : p \in PropertyIds /\ ~Points(found[p].claims) =>
            fresh[SchemaGraphName(p)] = SchemaPart("dump", p)
      /\ fresh[GlobalGraphName] = {}
  BY <1>1, ExpectedGraphs
<1> HIDE DEF fresh
<1>3. ASSUME NEW e \in Entities
      PROVE  /\ pages[e].exists => Image(gen, db, e, pages[e].rev)
             /\ ~pages[e].exists => Absent(gen, db, e)
  <2>1. After(e, gen.cursor) = {}
    BY DEF After, WikiInv, EventRow
  <2>2. Follows(gen, db, e)
    BY DEF Good
  <2> QED
    BY <2>1, <2>2 DEF Follows, OnlyEdits
<1>4. gen.graphs \subseteq AllNames /\ DOMAIN db \subseteq AllNames
  BY DEF Good, Shape
<1>5. ASSUME NEW n \in AllNames
      PROVE  (n \in gen.graphs <=> n \in OwnNames(DOMAIN found)) /\ (n \in DOMAIN db <=> n \in OwnNames(DOMAIN found))
  <2>1. PICK e \in Entities : n = EntityGraphName(e) \/ (e \in PropertyIds /\ n = SchemaGraphName(e))
    BY DEF AllNames, OwnNames
  <2>2. n \in OwnNames(DOMAIN found) <=> e \in DOMAIN found
    BY <2>1, GraphNames DEF OwnNames
  <2>3. CASE pages[e].exists
    BY <1>1, <1>3, <2>1, <2>2, <2>3 DEF Image
  <2>4. CASE ~pages[e].exists
    <3>1. n \in OwnNames({e})
      BY <2>1, NamesOf
    <3>2. Absent(gen, db, e)
      BY <1>3, <2>4
    <3>3. n \notin gen.graphs /\ n \notin DOMAIN db
      BY <3>1, <3>2 DEF Absent
    <3> QED
      BY <1>1, <2>2, <2>4, <3>3
  <2> QED
    BY <2>3, <2>4
<1>6. OwnNames(DOMAIN found) \subseteq AllNames
  BY <1>1 DEF OwnNames, AllNames
<1>7. gen.graphs = OwnNames(DOMAIN found) /\ DOMAIN db = OwnNames(DOMAIN found)
  BY <1>4, <1>5, <1>6
<1>8. GlobalGraphName \notin OwnNames(DOMAIN found)
  BY GraphNames DEF OwnNames
<1>9. ASSUME NEW n \in OwnNames(DOMAIN found)
      PROVE  (n[1] = "schema" /\ PointsAtEntity(n[2])) \/ Compare(fresh[n], db[n]) = "EQUAL"
  <2>1. CASE \E e \in DOMAIN found : n = EntityGraphName(e)
    <3>1. PICK e \in DOMAIN found : n = EntityGraphName(e)
      BY <2>1
    <3>2. e \in Entities /\ pages[e].exists /\ contents[pages[e].rev] \in Contents
      BY <1>1 DEF WikiInv
    <3>3. fresh[n] = EntityPart(e, pages[e].rev, contents[pages[e].rev])
      BY <1>1, <1>2, <3>1 DEF PartOf
    <3>4. db[n] = Stored(EntityPart(e, pages[e].rev, contents[pages[e].rev]))
      BY <1>3, <3>1, <3>2 DEF Image
    <3>5. Compare(EntityPart(e, pages[e].rev, contents[pages[e].rev]),
                  Stored(EntityPart(e, pages[e].rev, contents[pages[e].rev]))) = "EQUAL"
      BY <3>2, PartCompared
    <3> QED
      BY <3>3, <3>4, <3>5
  <2>2. CASE \E p \in DOMAIN found : p \in PropertyIds /\ n = SchemaGraphName(p)
    <3>1. PICK p \in DOMAIN found : p \in PropertyIds /\ n = SchemaGraphName(p)
      BY <2>2
    <3>2. p \in Entities /\ pages[p].exists /\ found[p].claims = contents[pages[p].rev]
      BY <1>1
    <3>3. CASE Points(contents[pages[p].rev])
      <4>1. n[1] = "schema" /\ n[2] = p
        BY <3>1, GraphNames
      <4>2. Properties \subseteq Entities /\ p \in Properties
        BY <3>1, SourceAssumption, DatasetAssumption
      <4>3. p \in DOMAIN Found(Properties)
        BY <3>2, <4>2 DEF Found
      <4>4. PointsAtEntity(p)
        BY <3>3, <4>3 DEF PointsAtEntity, Points
      <4> QED
        BY <4>1, <4>4
    <3>4. CASE ~Points(contents[pages[p].rev])
      <4>1. fresh[n] = SchemaPart("dump", p)
        BY <1>2, <3>1, <3>2, <3>4
      <4>2. db[n] = SchemaPart("store", p)
        BY <1>3, <3>1, <3>2, <3>4 DEF Image
      <4>3. Compare(SchemaPart("dump", p), SchemaPart("store", p)) = "EQUAL"
        BY SchemaCompared, StoredSchema
      <4> QED
        BY <4>1, <4>2, <4>3
    <3> QED
      BY <3>3, <3>4
  <2> QED
    BY <2>1, <2>2 DEF OwnNames
<1> QED
  BY <1>2, <1>7, <1>8, <1>9 DEF fresh, found

-----------------------------------------------------------------------------
(***************************************************************************)
(* The invariant of the generation.                                        *)
(***************************************************************************)

IsJob(j) == j = [pc |-> j.pc, worker |-> j.worker, rebuilds |-> j.rebuilds, faults |-> j.faults,
                 loaded |-> j.loaded, cursor |-> j.cursor, ingested |-> j.ingested,
                 left |-> j.left, found |-> j.found]

LoadInv(g, d, j) ==
    /\ g.cursor = j.cursor /\ j.left \subseteq OwnNames(DOMAIN j.found)
    /\ LoadedFrom(g, d, j.found, OwnNames(DOMAIN j.found) \ j.left)

DataInv(g, d, j) ==
    /\ IsJob(j) /\ j.pc \in {"idle", "dump", "begin", "clear", "load", "compare"}
    /\ j.pc \in {"clear", "load"} => ~j.loaded
    /\ j.loaded => Good(g, d)
    /\ j.pc = "dump" => /\ j.left \subseteq Entities /\ j.left # {}
                        /\ Dumped(j.found, j.cursor, Entities \ j.left)
    /\ j.pc \in {"begin", "clear", "load"} => Dumped(j.found, j.cursor, Entities)
    /\ j.pc = "clear" => g = ClearedRows(j.cursor)
    /\ j.pc = "load" => LoadInv(g, d, j)

DatasetInv == WikiInv /\ LogInv /\ DataInv(gen, db, job) /\ RefusedForAReason

\* What the invariant says of the properties.
LEMMA InvFollows == DatasetInv => GraphsFollowWiki /\ RefusedForAReason
<1> SUFFICES ASSUME DatasetInv, InStep
             PROVE  LET fresh == Expected(Found(Entities))
                    IN  /\ \A n \in DOMAIN fresh \cup gen.graphs \cup DOMAIN db :
                               \/ n[1] = "schema" /\ PointsAtEntity(n[2])
                               \/ Compare(IF n \in DOMAIN fresh THEN fresh[n] ELSE {}, GraphOf(db, n)) = "EQUAL"
                        /\ \A n \in DOMAIN db : db[n] # {} => n \in gen.graphs
  BY DEF GraphsFollowWiki, DatasetInv
<1> DEFINE fresh == Expected(Found(Entities))
<1>1. /\ DOMAIN db = gen.graphs /\ GlobalGraphName \notin gen.graphs
      /\ DOMAIN fresh = gen.graphs \cup {GlobalGraphName} /\ fresh[GlobalGraphName] = {}
      /\ \A n \in gen.graphs :
            (n[1] = "schema" /\ PointsAtEntity(n[2])) \/ Compare(fresh[n], db[n]) = "EQUAL"
  BY StepCompares DEF InStep, DatasetInv, DataInv
<1> HIDE DEF fresh
<1>2. GraphOf(db, GlobalGraphName) = {} /\ \A n \in gen.graphs : GraphOf(db, n) = db[n]
  BY <1>1 DEF GraphOf
<1>3. Compare({}, {}) = "EQUAL"
  BY NothingCompared
<1>4. \A n \in DOMAIN fresh \cup gen.graphs \cup DOMAIN db :
         \/ n[1] = "schema" /\ PointsAtEntity(n[2])
         \/ Compare(IF n \in DOMAIN fresh THEN fresh[n] ELSE {}, GraphOf(db, n)) = "EQUAL"
  <2> TAKE n \in DOMAIN fresh \cup gen.graphs \cup DOMAIN db
  <2>1. CASE n = GlobalGraphName
    BY <1>1, <1>2, <1>3, <2>1
  <2>2. CASE n # GlobalGraphName
    BY <1>1, <1>2, <2>2
  <2> QED
    BY <2>1, <2>2
<1> QED
  BY <1>1, <1>4 DEF fresh

LEMMA ClearedShape ==
    ASSUME WikiInv, NEW c \in 0..lastRcid
    PROVE  LET g == ClearedRows(c)
           IN  /\ Shape(g, EmptyStore) /\ g.graphs = {} /\ DOMAIN EmptyStore = {} /\ g.cursor = c
               /\ \A e \in Entities : g.rows[e].indexed = 0
BY DEF ClearedRows, Shape, EmptyStore, Unindexed, EntityRow

LEMMA StoreCleared == Reset(db, LoadClient) = EmptyStore
<1>1. LoadClient.dataset = NoGraph
  BY DEF LoadClient, Initialize, Client
<1> QED
  BY <1>1 DEF Reset

\* Steps that leave the wiki alone keep what is said of it.
LEMMA WikiStays ==
    ASSUME UNCHANGED <<wikiVars, contents>>
    PROVE  /\ WikiInv => WikiInv'
           /\ LogInv => LogInv'
           /\ DataInv(gen', db', job') => DataInv(gen, db, job)'
<1>1. /\ pages' = pages /\ revisions' = revisions /\ rc' = rc /\ lastRcid' = lastRcid
      /\ contents' = contents
  BY DEF wikiVars
<1>2. (WikiInv => WikiInv') /\ (LogInv => LogInv')
  BY <1>1 DEF WikiInv, LogInv, Newer, EventRow
<1>3. Good(gen', db') => Good(gen, db)'
  BY <1>1 DEF Good, Shape, EntityRow, Follows, Absent, OnlyEdits, Image, After
<1>4. /\ Dumped(job'.found, job'.cursor, Entities) => Dumped(job.found, job.cursor, Entities)'
      /\ Dumped(job'.found, job'.cursor, Entities \ job'.left) => Dumped(job.found, job.cursor, Entities \ job.left)'
  BY <1>1 DEF Dumped, After
<1>5. LoadInv(gen', db', job') => LoadInv(gen, db, job)'
  BY <1>1 DEF LoadInv, LoadedFrom, Shape, EntityRow
<1> QED
  BY <1>1, <1>2, <1>3, <1>4, <1>5 DEF DataInv

LEMMA WikiKeeps == DatasetInv /\ WikiChanges => DatasetInv'
<1> SUFFICES ASSUME DatasetInv, WikiChanges PROVE DatasetInv'
  OBVIOUS
<1>1. WikiInv /\ LogInv /\ DataInv(gen, db, job)
  BY DEF DatasetInv
<1>2. WikiInv' /\ LogInv' /\ gen' = gen /\ db' = db /\ job' = job /\ verdict' = verdict
  BY <1>1, WikiMoves
<1>3. PICK e \in Entities : \E row : WikiMove(e, row)
  BY <1>1, WikiMoves
<1>4. PICK row : WikiMove(e, row)
  BY <1>3
<1>5. Good(gen, db) => Good(gen, db)'
  BY <1>1, <1>2, <1>4, GoodUnderWiki
<1> DEFINE StillDumped(found, cursor, done) ==
             /\ cursor \in 0..lastRcid' /\ DOMAIN found \subseteq done /\ done \subseteq Entities
             /\ \A f \in DOMAIN found : /\ found[f].claims = contents'[found[f].rev]
                                        /\ found[f].rev \in 1..pages'[f].rev /\ revisions'[found[f].rev] = f
             /\ \A f \in done : {x \in rc' : x.entity = f /\ x.rcid > cursor} = {} =>
                   IF pages'[f].exists THEN f \in DOMAIN found /\ found[f].rev = pages'[f].rev
                   ELSE f \notin DOMAIN found
<1>6. ASSUME NEW done, NEW found, NEW cursor, found = job.found, cursor = job.cursor,
             Dumped(found, cursor, done)
      PROVE  StillDumped(found, cursor, done)
  <2>1. Dumped(found, cursor, done)'
    BY <1>1, <1>2, <1>4, <1>6, DumpedUnderWiki
  <2> QED
    BY <2>1 DEF Dumped, After, StillDumped
<1> HIDE DEF StillDumped
<1>7. /\ Dumped(job.found, job.cursor, Entities) => Dumped(job.found, job.cursor, Entities)'
      /\ Dumped(job.found, job.cursor, Entities \ job.left)
            => Dumped(job.found, job.cursor, Entities \ job.left)'
  <2>1. PICK found, cursor : found = job.found /\ cursor = job.cursor
    OBVIOUS
  <2>2. found = job'.found /\ cursor = job'.cursor /\ job'.left = job.left
    BY <1>2, <2>1
  <2>3. ASSUME Dumped(job.found, job.cursor, Entities) PROVE Dumped(job.found, job.cursor, Entities)'
    <3>1. Dumped(found, cursor, Entities)
      BY <2>1, <2>3
    <3>2. PICK done : done = Entities
      OBVIOUS
    <3>3. Dumped(found, cursor, done)
      BY <3>1, <3>2
    <3>4. StillDumped(found, cursor, done)
      BY <1>6, <2>1, <3>3
    <3>5. StillDumped(job'.found, job'.cursor, Entities)
      BY <2>2, <3>2, <3>4
    <3> QED
      BY <3>5 DEF Dumped, After, StillDumped
  <2>4. ASSUME Dumped(job.found, job.cursor, Entities \ job.left)
        PROVE  Dumped(job.found, job.cursor, Entities \ job.left)'
    <3>1. Dumped(found, cursor, Entities \ job.left)
      BY <2>1, <2>4
    <3>2. PICK done : done = Entities \ job.left
      OBVIOUS
    <3>3. Dumped(found, cursor, done)
      BY <3>1, <3>2
    <3>4. StillDumped(found, cursor, done)
      BY <1>6, <2>1, <3>3
    <3>5. StillDumped(job'.found, job'.cursor, Entities \ job'.left)
      BY <2>2, <3>2, <3>4
    <3> QED
      BY <3>5 DEF Dumped, After, StillDumped
  <2> QED
    BY <2>3, <2>4
<1>8. LoadInv(gen, db, job) => LoadInv(gen, db, job)'
  <2>1. lastRcid' = lastRcid + 1 /\ lastRcid \in Nat
    BY <1>1, <1>4 DEF WikiMove, WikiInv
  <2> QED
    BY <1>2, <2>1 DEF LoadInv, LoadedFrom, Shape, EntityRow
<1>9. DataInv(gen, db, job)'
  BY <1>1, <1>2, <1>5, <1>7, <1>8 DEF DataInv, IsJob, ClearedRows
<1> QED
  BY <1>2, <1>9 DEF DatasetInv, RefusedForAReason

\* A step of the others is judged by what it makes of the three.
LEMMA DataStepKeeps ==
    ASSUME DatasetInv, UNCHANGED <<wikiVars, contents>>, DataInv(gen', db', job'),
           verdict' = verdict \/ RefusedForAReason'
    PROVE  DatasetInv'
BY WikiStays DEF DatasetInv, RefusedForAReason

LEMMA IdleWorker ==
    ASSUME IsJob(job), NEW on
    PROVE  /\ IsJob(Worker(on)) /\ Worker(on).pc = "idle" /\ Worker(on).loaded = job.loaded
           /\ Worker(on).cursor = job.cursor /\ Worker(on).left = job.left /\ Worker(on).found = job.found
           /\ Worker(on) = [pc |-> "idle", worker |-> on, rebuilds |-> job.rebuilds, faults |-> job.faults,
                            loaded |-> job.loaded, cursor |-> job.cursor, ingested |-> 0,
                            left |-> job.left, found |-> job.found]
<1>1. job = [pc |-> job.pc, worker |-> job.worker, rebuilds |-> job.rebuilds, faults |-> job.faults,
             loaded |-> job.loaded, cursor |-> job.cursor, ingested |-> job.ingested,
             left |-> job.left, found |-> job.found]
  BY DEF IsJob
<1>2. Worker(on) = [pc |-> "idle", worker |-> on, rebuilds |-> job.rebuilds, faults |-> job.faults,
                    loaded |-> job.loaded, cursor |-> job.cursor, ingested |-> 0,
                    left |-> job.left, found |-> job.found]
  <2>1. [job EXCEPT !.pc = "idle"]
          = [pc |-> "idle", worker |-> job.worker, rebuilds |-> job.rebuilds, faults |-> job.faults,
             loaded |-> job.loaded, cursor |-> job.cursor, ingested |-> job.ingested,
             left |-> job.left, found |-> job.found]
    BY <1>1
  <2>2. Worker(on) = [[job EXCEPT !.pc = "idle"] EXCEPT !.worker = on, !.ingested = 0]
    BY <1>1, <2>1 DEF Worker
  <2> QED
    BY <2>1, <2>2
<1> QED
  BY <1>2 DEF IsJob

LEMMA StartKeeps == DatasetInv /\ StartRebuild => DatasetInv'
<1> SUFFICES ASSUME DatasetInv, StartRebuild PROVE DatasetInv'
  OBVIOUS
<1>1. WikiInv /\ DataInv(gen, db, job)
  BY DEF DatasetInv
<1>2. /\ job' = [job EXCEPT !.pc = "dump", !.worker = FALSE, !.rebuilds = @ + 1,
                            !.cursor = lastRcid, !.left = Entities, !.found = << >>]
      /\ UNCHANGED <<wikiVars, contents, gen, db, verdict>>
  BY DEF StartRebuild
<1>3. /\ IsJob(job') /\ job'.pc = "dump" /\ job'.loaded = job.loaded /\ job'.cursor = lastRcid
      /\ job'.left = Entities /\ job'.found = << >>
  <2>1. job = [pc |-> job.pc, worker |-> job.worker, rebuilds |-> job.rebuilds, faults |-> job.faults,
               loaded |-> job.loaded, cursor |-> job.cursor, ingested |-> job.ingested,
               left |-> job.left, found |-> job.found]
    BY <1>1 DEF DataInv, IsJob
  <2>2. job' = [pc |-> "dump", worker |-> FALSE, rebuilds |-> job.rebuilds + 1, faults |-> job.faults,
                loaded |-> job.loaded, cursor |-> lastRcid, ingested |-> job.ingested,
                left |-> Entities, found |-> << >>]
    BY <1>2, <2>1
  <2> QED
    BY <2>2 DEF IsJob
<1>4. Dumped(<< >>, lastRcid, Entities \ Entities)
  BY <1>1 DEF Dumped, WikiInv
<1>5. DataInv(gen', db', job')
  BY <1>1, <1>2, <1>3, <1>4, SourceAssumption DEF DataInv
<1> QED
  BY <1>2, <1>5, DataStepKeeps

LEMMA DumpKeeps == DatasetInv /\ DumpEntity => DatasetInv'
<1> SUFFICES ASSUME DatasetInv, DumpEntity PROVE DatasetInv'
  OBVIOUS
<1> DEFINE next == CHOOSE e \in job.left : \A f \in job.left : Position(e) <= Position(f)
           seen == Found({next})
           more == [e \in DOMAIN job.found \cup DOMAIN seen |-> IF e \in DOMAIN seen THEN seen[e] ELSE job.found[e]]
           pc == IF job.left = {next} THEN "begin" ELSE "dump"
<1>1. /\ WikiInv /\ DataInv(gen, db, job) /\ IsJob(job) /\ job.pc = "dump"
      /\ job.left \subseteq Entities /\ job.left # {} /\ Dumped(job.found, job.cursor, Entities \ job.left)
  BY DEF DatasetInv, DataInv, DumpEntity, JobAt
<1>2. /\ job' = [job EXCEPT !.found = more, !.left = @ \ {next}, !.pc = pc]
      /\ UNCHANGED <<wikiVars, contents, gen, db, verdict>>
  <2>1. UNCHANGED <<wikiVars, contents, gen, db, verdict>>
    BY DEF DumpEntity
  <2>2. job' = [job EXCEPT !.found = [e \in DOMAIN @ \cup DOMAIN seen |->
                                            IF e \in DOMAIN seen THEN seen[e] ELSE job.found[e]],
                           !.left = @ \ {next}, !.pc = pc]
    BY DEF DumpEntity
  <2> QED
    BY <2>1, <2>2
<1>3. next \in job.left
  <2> DEFINE places == {Position(e) : e \in job.left}
  <2>1. PICK m \in places : \A k \in places : m <= k
    <3>1. \A e \in job.left : Position(e) \in Nat
      BY <1>1, OrderOfEntities
    <3>2. places \in SUBSET Nat /\ places # {}
      BY <1>1, <3>1
    <3> HIDE DEF places
    <3> QED
      BY <3>2, LeastNumber
  <2>2. \E e \in job.left : \A f \in job.left : Position(e) <= Position(f)
    BY <2>1
  <2> QED
    BY <2>2
<1> HIDE DEF next
<1>4. Dumped(more, job.cursor, (Entities \ job.left) \cup {next})
  <2> DEFINE found == job.found
             cursor == job.cursor
             done == Entities \ job.left
  <2>1. Dumped(found, cursor, done) /\ next \in Entities /\ next \notin done
    BY <1>1, <1>3
  <2> HIDE DEF done, found, cursor
  <2>2. Dumped([e \in DOMAIN found \cup DOMAIN Found({next}) |->
                   IF e \in DOMAIN Found({next}) THEN Found({next})[e] ELSE found[e]],
               cursor, done \cup {next})
    BY <1>1, <2>1, EntityDumped
  <2> QED
    BY <2>2 DEF done, found, cursor
<1> HIDE DEF more, seen
<1>5. /\ IsJob(job') /\ job'.pc = pc /\ job'.loaded = job.loaded /\ job'.cursor = job.cursor
      /\ job'.left = job.left \ {next} /\ job'.found = more
  <2> HIDE DEF pc
  <2>1. job = [pc |-> job.pc, worker |-> job.worker, rebuilds |-> job.rebuilds, faults |-> job.faults,
               loaded |-> job.loaded, cursor |-> job.cursor, ingested |-> job.ingested,
               left |-> job.left, found |-> job.found]
    BY <1>1 DEF IsJob
  <2>2. job' = [pc |-> pc, worker |-> job.worker, rebuilds |-> job.rebuilds, faults |-> job.faults,
                loaded |-> job.loaded, cursor |-> job.cursor, ingested |-> job.ingested,
                left |-> job.left \ {next}, found |-> more]
    BY <1>2, <2>1
  <2> QED
    BY <2>2 DEF IsJob
<1>6. (Entities \ job.left) \cup {next} = Entities \ (job.left \ {next})
  BY <1>1, <1>3
<1>7. DataInv(gen', db', job')
  <2>1. CASE job.left = {next}
    <3>1. (Entities \ job.left) \cup {next} = Entities
      BY <1>1, <2>1
    <3>2. job'.pc = "begin" /\ Dumped(job'.found, job'.cursor, Entities)
      BY <1>4, <1>5, <2>1, <3>1
    <3> QED
      BY <1>1, <1>2, <1>5, <3>2 DEF DataInv
  <2>2. CASE job.left # {next}
    <3>1. job'.left # {} /\ job'.left \subseteq Entities
      BY <1>1, <1>3, <1>5, <2>2
    <3>2. job'.pc = "dump" /\ Dumped(job'.found, job'.cursor, Entities \ job'.left)
      BY <1>4, <1>5, <1>6, <2>2
    <3> QED
      BY <1>1, <1>2, <1>5, <3>1, <3>2 DEF DataInv
  <2> QED
    BY <2>1, <2>2
<1> QED
  BY <1>2, <1>7, DataStepKeeps

LEMMA JobParts ==
    ASSUME DataInv(gen, db, job)
    PROVE  job = [pc |-> job.pc, worker |-> job.worker, rebuilds |-> job.rebuilds, faults |-> job.faults,
                  loaded |-> job.loaded, cursor |-> job.cursor, ingested |-> job.ingested,
                  left |-> job.left, found |-> job.found]
BY DEF DataInv, IsJob

LEMMA BeginKeeps == DatasetInv /\ BeginLoad => DatasetInv'
<1> SUFFICES ASSUME DatasetInv, BeginLoad PROVE DatasetInv'
  OBVIOUS
<1>1. WikiInv /\ DataInv(gen, db, job) /\ job.pc = "begin" /\ Dumped(job.found, job.cursor, Entities)
  BY DEF DatasetInv, BeginLoad, JobAt, DataInv
<1>2. /\ job' = [job EXCEPT !.pc = "clear", !.loaded = FALSE] /\ gen' = ClearedRows(job.cursor)
      /\ UNCHANGED <<wikiVars, contents, db, verdict>>
  BY DEF BeginLoad
<1>3. job' = [pc |-> "clear", worker |-> job.worker, rebuilds |-> job.rebuilds, faults |-> job.faults,
              loaded |-> FALSE, cursor |-> job.cursor, ingested |-> job.ingested,
              left |-> job.left, found |-> job.found]
  BY <1>1, <1>2, JobParts
<1>4. DataInv(gen', db', job')
  BY <1>1, <1>2, <1>3 DEF DataInv, IsJob
<1> QED
  BY <1>2, <1>4, DataStepKeeps

LEMMA ClearKeeps == DatasetInv /\ ClearStore => DatasetInv'
<1> SUFFICES ASSUME DatasetInv, ClearStore PROVE DatasetInv'
  OBVIOUS
<1>1. /\ WikiInv /\ DataInv(gen, db, job) /\ job.pc = "clear" /\ Dumped(job.found, job.cursor, Entities)
      /\ ~job.loaded /\ gen = ClearedRows(job.cursor)
  BY DEF DatasetInv, ClearStore, JobAt, DataInv
<1>2. Described(job.found)
  BY <1>1, DumpedDescribed
<1>3. /\ job' = [job EXCEPT !.pc = "load", !.left = OwnNames(DOMAIN job.found)]
      /\ db' = EmptyStore /\ gen' = gen
      /\ UNCHANGED <<wikiVars, contents, verdict>>
  <2>1. /\ job' = [job EXCEPT !.pc = "load", !.left = WithBody(Expected(job.found))]
        /\ db' = Reset(db, LoadClient) /\ UNCHANGED <<wikiVars, contents, gen, verdict>>
    BY DEF ClearStore
  <2> QED
    BY <1>2, <2>1, BodiesOfDump, StoreCleared
<1> DEFINE own == OwnNames(DOMAIN job.found)
<1> HIDE DEF own
<1>4. job' = [pc |-> "load", worker |-> job.worker, rebuilds |-> job.rebuilds, faults |-> job.faults,
              loaded |-> job.loaded, cursor |-> job.cursor, ingested |-> job.ingested,
              left |-> own, found |-> job.found]
  BY <1>1, <1>3, JobParts DEF own
<1>5. job.cursor \in 0..lastRcid
  BY <1>1 DEF Dumped
<1>6. LoadedFrom(gen, EmptyStore, job.found, {}) /\ gen.cursor = job.cursor
  BY <1>1, <1>5, ClearedShape DEF LoadedFrom
<1>7. LoadInv(gen', db', job')
  BY <1>3, <1>4, <1>6 DEF LoadInv, own
<1>8. DataInv(gen', db', job')
  BY <1>1, <1>3, <1>4, <1>7 DEF DataInv, IsJob
<1> QED
  BY <1>3, <1>8, DataStepKeeps

LEMMA LoadKeeps == DatasetInv /\ LoadGraph => DatasetInv'
<1> SUFFICES ASSUME DatasetInv, LoadGraph PROVE DatasetInv'
  OBVIOUS
<1>1. /\ WikiInv /\ DataInv(gen, db, job) /\ job.pc = "load" /\ Dumped(job.found, job.cursor, Entities)
      /\ ~job.loaded /\ job.left # {} /\ LoadInv(gen, db, job)
  BY DEF DatasetInv, LoadGraph, JobAt, DataInv
<1> DEFINE next == NextGraph(job.left)
           last == Last(LoadPoints(next, Expected(job.found)))
           own == OwnNames(DOMAIN job.found)
<1>2. /\ gen' = last.gen /\ db' = last.db
      /\ job' = [job EXCEPT !.left = @ \ {next}]
      /\ UNCHANGED <<wikiVars, contents, verdict>>
  BY DEF LoadGraph
<1>3. Described(job.found) /\ \A e \in DOMAIN job.found : job.found[e].rev \in Nat
  <2>1. \A e \in DOMAIN job.found : e \in Entities /\ job.found[e].rev \in 1..pages[e].rev
    BY <1>1 DEF Dumped
  <2>2. \A e \in Entities : pages[e].rev \in Nat
    BY <1>1 DEF WikiInv
  <2> QED
    BY <1>1, <2>1, <2>2, DumpedDescribed
<1>4. /\ gen.cursor = job.cursor /\ job.left \subseteq own
      /\ LoadedFrom(gen, db, job.found, own \ job.left)
  BY <1>1 DEF LoadInv
<1>5. next \in job.left
  <2>1. own \subseteq AllNames
    BY <1>1 DEF Dumped, OwnNames, AllNames
  <2> QED
    BY <1>1, <1>4, <2>1, NextIsThere
<1> HIDE DEF next
<1>6. LoadedFrom(last.gen, last.db, job.found, (own \ job.left) \cup {next}) /\ last.gen.cursor = gen.cursor
  <2> DEFINE names == own \ job.left
  <2>1. LoadedFrom(gen, db, job.found, names) /\ next \in own /\ next \notin names
    BY <1>4, <1>5
  <2> HIDE DEF names, own
  <2>2. gen.cursor = job.cursor
    BY <1>4
  <2>3. next \in OwnNames(DOMAIN job.found)
    BY <2>1 DEF own
  <2>4. /\ LoadedFrom(Last(LoadPoints(next, Expected(job.found))).gen,
                  Last(LoadPoints(next, Expected(job.found))).db, job.found, names \cup {next})
        /\ Last(LoadPoints(next, Expected(job.found))).gen.cursor = gen.cursor
    BY <1>3, <2>1, <2>2, <2>3, GraphLoaded
  <2> QED
    BY <2>4 DEF names
<1> HIDE DEF last, own
<1>7. job' = [pc |-> "load", worker |-> job.worker, rebuilds |-> job.rebuilds, faults |-> job.faults,
              loaded |-> job.loaded, cursor |-> job.cursor, ingested |-> job.ingested,
              left |-> job.left \ {next}, found |-> job.found]
  BY <1>1, <1>2, JobParts
<1>8. (own \ job.left) \cup {next} = own \ (job.left \ {next})
  BY <1>4, <1>5
<1>9. LoadInv(gen', db', job')
  BY <1>2, <1>4, <1>6, <1>7, <1>8 DEF LoadInv, own
<1>10. DataInv(gen', db', job')
  BY <1>1, <1>7, <1>9 DEF DataInv, IsJob
<1> QED
  BY <1>2, <1>10, DataStepKeeps

\* Finishing a load leaves the rows, the graphs and the cursor alone.
LEMMA FinishedHead ==
    ASSUME IsGen(gen)
    PROVE  SameHead(Last(FinishPoints).gen, gen)
<1> DEFINE a == [gen EXCEPT !.schema = "CURRENT"]
           b == [a EXCEPT !.state = "CATCHING_UP"]
<1>1. a = [state |-> gen.state, sync |-> gen.sync, schema |-> "CURRENT", cursor |-> gen.cursor,
           rows |-> gen.rows, graphs |-> gen.graphs, provenance |-> gen.provenance]
  BY DEF IsGen
<1>2. b = [state |-> "CATCHING_UP", sync |-> gen.sync, schema |-> "CURRENT", cursor |-> gen.cursor,
           rows |-> gen.rows, graphs |-> gen.graphs, provenance |-> gen.provenance]
  <2> HIDE DEF a
  <2>1. b = [[state |-> gen.state, sync |-> gen.sync, schema |-> "CURRENT", cursor |-> gen.cursor,
              rows |-> gen.rows, graphs |-> gen.graphs, provenance |-> gen.provenance]
                EXCEPT !.state = "CATCHING_UP"]
    BY <1>1
  <2> QED
    BY <2>1
<1>3. Last(FinishPoints) = At(b, db)
  <2> DEFINE p == At(a, db)
             q == At([a EXCEPT !.provenance = Provenance(Dump(job.found))], db)
             r == At(b, db)
  <2>1. FinishPoints = <<p, q, r>>
    BY DEF FinishPoints
  <2> HIDE DEF p, q, r
  <2>2. Last(<<p, q, r>>) = r
    BY LastOfFew
  <2> QED
    BY <2>1, <2>2 DEF r
<1>4. At(b, db).gen = b
  BY AtParts
<1> HIDE DEF a, b
<1>5. SameHead(b, gen)
  BY <1>2 DEF SameHead
<1> QED
  BY <1>3, <1>4, <1>5

LEMMA FinishKeeps == DatasetInv /\ FinishLoad => DatasetInv'
<1> SUFFICES ASSUME DatasetInv, FinishLoad PROVE DatasetInv'
  OBVIOUS
<1>1. /\ WikiInv /\ DataInv(gen, db, job) /\ job.pc = "load" /\ Dumped(job.found, job.cursor, Entities)
      /\ job.left = {} /\ LoadInv(gen, db, job)
  BY DEF DatasetInv, FinishLoad, JobAt, DataInv
<1>2. /\ gen' = Last(FinishPoints).gen /\ job' = [Worker(TRUE) EXCEPT !.loaded = TRUE]
      /\ UNCHANGED <<wikiVars, contents, db, verdict>>
  BY DEF FinishLoad
<1>3. gen.cursor = job.cursor /\ LoadedFrom(gen, db, job.found, OwnNames(DOMAIN job.found))
  <2>1. OwnNames(DOMAIN job.found) \ job.left = OwnNames(DOMAIN job.found)
    BY <1>1
  <2> QED
    BY <1>1, <2>1 DEF LoadInv
<1>4. Good(gen, db)
  BY <1>1, <1>3, LoadedFollows
<1>5. IsGen(gen)
  BY <1>4 DEF Good, Shape, IsGen
<1>6. Good(gen', db')
  <2>1. Good(gen', db) /\ db' = db
    BY <1>2, <1>4, <1>5, FinishedHead, HeadMatters
  <2> QED
    BY <2>1
<1>7. IsJob(job)
  BY <1>1 DEF DataInv
<1>8. Worker(TRUE) = [pc |-> "idle", worker |-> TRUE, rebuilds |-> job.rebuilds, faults |-> job.faults,
                      loaded |-> job.loaded, cursor |-> job.cursor, ingested |-> 0,
                      left |-> job.left, found |-> job.found]
  BY <1>7, IdleWorker
<1>9. job' = [pc |-> "idle", worker |-> TRUE, rebuilds |-> job.rebuilds, faults |-> job.faults,
              loaded |-> TRUE, cursor |-> job.cursor, ingested |-> 0,
              left |-> job.left, found |-> job.found]
  <2>1. job' = [[pc |-> "idle", worker |-> TRUE, rebuilds |-> job.rebuilds, faults |-> job.faults,
                 loaded |-> job.loaded, cursor |-> job.cursor, ingested |-> 0,
                 left |-> job.left, found |-> job.found] EXCEPT !.loaded = TRUE]
    BY <1>2, <1>8
  <2> QED
    BY <2>1
<1>10. DataInv(gen', db', job')
  BY <1>6, <1>9 DEF DataInv, IsJob
<1> QED
  BY <1>2, <1>10, DataStepKeeps

LEMMA FailKeeps == DatasetInv /\ RebuildFails => DatasetInv'
<1> SUFFICES ASSUME DatasetInv, RebuildFails PROVE DatasetInv'
  OBVIOUS
<1>1. DataInv(gen, db, job)
  BY DEF DatasetInv
<1>2. /\ UNCHANGED <<wikiVars, contents, verdict>>
      /\ UNCHANGED <<gen, db>> \/ job.pc = "load"
      /\ \E on : job' = [Worker(on) EXCEPT !.faults = @ + 1]
  BY DEF RebuildFails, JobAt
<1>3. PICK on : job' = [Worker(on) EXCEPT !.faults = @ + 1]
  BY <1>2
<1>4. IsJob(job)
  BY <1>1 DEF DataInv
<1>5. Worker(on) = [pc |-> "idle", worker |-> on, rebuilds |-> job.rebuilds, faults |-> job.faults,
                    loaded |-> job.loaded, cursor |-> job.cursor, ingested |-> 0,
                    left |-> job.left, found |-> job.found]
  BY <1>4, IdleWorker
<1>6. job' = [pc |-> "idle", worker |-> on, rebuilds |-> job.rebuilds, faults |-> job.faults + 1,
              loaded |-> job.loaded, cursor |-> job.cursor, ingested |-> 0,
              left |-> job.left, found |-> job.found]
  BY <1>3, <1>5
<1>7. job.loaded => Good(gen', db')
  BY <1>1, <1>2 DEF DataInv
<1>8. DataInv(gen', db', job')
  BY <1>6, <1>7 DEF DataInv, IsJob
<1> QED
  BY <1>2, <1>8, DataStepKeeps

LEMMA EventKeeps == DatasetInv /\ ProcessEvent => DatasetInv'
<1> SUFFICES ASSUME DatasetInv, ProcessEvent PROVE DatasetInv'
  OBVIOUS
<1>1. WikiInv /\ LogInv /\ DataInv(gen, db, job)
  BY DEF DatasetInv
<1>2. /\ job.pc = "idle" /\ ReadChanges(gen.cursor) # {}
      /\ gen' = Last(EventPoints).gen /\ db' = Last(EventPoints).db
      /\ UNCHANGED <<wikiVars, contents, job, verdict>>
  BY DEF ProcessEvent, Polls, JobAt
<1>3. job.loaded => Good(gen', db')
  <2> SUFFICES ASSUME job.loaded PROVE Good(gen', db')
    OBVIOUS
  <2>1. GoodPoints(EventPoints)
    BY <1>1, <1>2, EventFollows DEF DataInv
  <2>2. GoodAt(Last(EventPoints))
    BY <2>1, GoodEnds
  <2> QED
    BY <1>2, <2>2 DEF GoodAt
<1>4. IsJob(job') /\ job'.pc = "idle" /\ job'.loaded = job.loaded
  BY <1>1, <1>2 DEF DataInv, IsJob
<1>5. DataInv(gen', db', job')
  BY <1>3, <1>4 DEF DataInv
<1> QED
  BY <1>2, <1>5, DataStepKeeps

LEMMA InterruptionKeeps == DatasetInv /\ Interrupted => DatasetInv'
<1> SUFFICES ASSUME DatasetInv, Interrupted PROVE DatasetInv'
  OBVIOUS
<1>1. WikiInv /\ LogInv /\ DataInv(gen, db, job)
  BY DEF DatasetInv
<1>2. /\ job.pc = "idle" /\ ReadChanges(gen.cursor) # {}
      /\ job' = [job EXCEPT !.faults = @ + 1]
      /\ UNCHANGED <<wikiVars, contents, verdict>>
  BY DEF Interrupted, Polls, JobAt
<1>3. job.loaded => Good(gen', db')
  <2> SUFFICES ASSUME job.loaded PROVE Good(gen', db')
    OBVIOUS
  <2> DEFINE points == EventPoints
  <2>1. GoodPoints(points)
    BY <1>1, <1>2, EventFollows DEF DataInv
  <2>2. PICK i \in 1..(Len(points) - 1) :
            gen' \in {points[i].gen, Stop(points[i].gen)} /\ db' = points[i].db
    BY DEF Interrupted
  <2> HIDE DEF points
  <2>3. i \in 1..Len(points)
    <3>1. Len(points) \in Nat
      BY <2>1 DEF GoodPoints
    <3> QED
      BY <2>2, <3>1
  <2>4. Good(points[i].gen, points[i].db)
    BY <2>1, <2>3, GoodEnds DEF GoodAt
  <2> DEFINE g == points[i].gen
             d == points[i].db
  <2> HIDE DEF g, d
  <2>5. Good(g, d)
    BY <2>4 DEF g, d
  <2>6. Good(Stop(g), d)
    <3>1. IsGen(g)
      BY <2>5 DEF Good, Shape, IsGen
    <3>2. IsGen(Stop(g)) /\ Stop(g).rows = g.rows /\ Stop(g).graphs = g.graphs /\ Stop(g).cursor = g.cursor
      BY <3>1, Heads
    <3>3. SameHead(Stop(g), g)
      BY <3>2 DEF SameHead, IsGen
    <3> QED
      BY <2>5, <3>3, HeadMatters
  <2>7. gen' \in {g, Stop(g)} /\ db' = d
    BY <2>2 DEF g, d
  <2> QED
    BY <2>5, <2>6, <2>7
<1>4. job' = [pc |-> "idle", worker |-> job.worker, rebuilds |-> job.rebuilds, faults |-> job.faults + 1,
              loaded |-> job.loaded, cursor |-> job.cursor, ingested |-> job.ingested,
              left |-> job.left, found |-> job.found]
  BY <1>1, <1>2, JobParts
<1>5. DataInv(gen', db', job')
  BY <1>3, <1>4 DEF DataInv, IsJob
<1> QED
  BY <1>2, <1>5, DataStepKeeps

LEMMA PollKeeps == DatasetInv /\ EmptyPoll => DatasetInv'
<1> SUFFICES ASSUME DatasetInv, EmptyPoll PROVE DatasetInv'
  OBVIOUS
<1>1. DataInv(gen, db, job)
  BY DEF DatasetInv
<1>2. /\ job.pc = "idle" /\ gen' = [gen EXCEPT !.sync = "CURRENT"]
      /\ UNCHANGED <<wikiVars, contents, db, job, verdict>>
  BY DEF EmptyPoll, JobAt
<1>3. job.loaded => Good(gen', db')
  <2> SUFFICES ASSUME job.loaded PROVE Good(gen', db')
    OBVIOUS
  <2>1. Good(gen, db)
    BY <1>1 DEF DataInv
  <2>2. gen = [state |-> gen.state, sync |-> gen.sync, schema |-> gen.schema, cursor |-> gen.cursor,
               rows |-> gen.rows, graphs |-> gen.graphs, provenance |-> gen.provenance]
    BY <2>1 DEF Good, Shape
  <2>3. gen' = [state |-> gen.state, sync |-> "CURRENT", schema |-> gen.schema, cursor |-> gen.cursor,
                rows |-> gen.rows, graphs |-> gen.graphs, provenance |-> gen.provenance]
    BY <1>2, <2>2
  <2>4. SameHead(gen', gen)
    BY <2>3 DEF SameHead
  <2>5. Good(gen', db) /\ db' = db
    BY <1>2, <2>1, <2>4, HeadMatters
  <2> QED
    BY <2>5
<1>4. IsJob(job') /\ job'.pc = "idle" /\ job'.loaded = job.loaded
  BY <1>1, <1>2 DEF DataInv, IsJob
<1>5. DataInv(gen', db', job')
  BY <1>3, <1>4 DEF DataInv
<1> QED
  BY <1>2, <1>5, DataStepKeeps

LEMMA ReferenceKeeps == DatasetInv /\ (TakeReference \/ AdvanceIngestion \/ ValidateRefused) => DatasetInv'
<1> SUFFICES ASSUME DatasetInv, TakeReference \/ AdvanceIngestion \/ ValidateRefused PROVE DatasetInv'
  OBVIOUS
<1>1. DataInv(gen, db, job) /\ IsJob(job)
  BY DEF DatasetInv, DataInv
<1>2. /\ UNCHANGED <<wikiVars, contents, gen, db, verdict>>
      /\ \/ job.pc = "idle" /\ job' = [job EXCEPT !.pc = "compare", !.found = Found(Entities)]
         \/ job.pc = "compare" /\ \E n : job' = [job EXCEPT !.ingested = n]
         \/ job' = Worker(job.worker)
  BY DEF TakeReference, AdvanceIngestion, ValidateRefused, JobAt
<1>3. IsJob(job') /\ job'.pc \in {"idle", "compare"} /\ job'.loaded = job.loaded
  <2>1. CASE job.pc = "idle" /\ job' = [job EXCEPT !.pc = "compare", !.found = Found(Entities)]
    <3> DEFINE f == Found(Entities)
    <3> HIDE DEF f
    <3>1. job' = [job EXCEPT !.pc = "compare", !.found = f]
      BY <2>1 DEF f
    <3>2. job' = [pc |-> "compare", worker |-> job.worker, rebuilds |-> job.rebuilds, faults |-> job.faults,
                  loaded |-> job.loaded, cursor |-> job.cursor, ingested |-> job.ingested,
                  left |-> job.left, found |-> f]
      BY <1>1, <3>1, JobParts
    <3> QED
      BY <3>2 DEF IsJob
  <2>2. ASSUME job.pc = "compare", NEW n, job' = [job EXCEPT !.ingested = n]
        PROVE  IsJob(job') /\ job'.pc \in {"idle", "compare"} /\ job'.loaded = job.loaded
    <3>1. job' = [pc |-> "compare", worker |-> job.worker, rebuilds |-> job.rebuilds, faults |-> job.faults,
                  loaded |-> job.loaded, cursor |-> job.cursor, ingested |-> n,
                  left |-> job.left, found |-> job.found]
      BY <1>1, <2>2, JobParts
    <3> QED
      BY <3>1 DEF IsJob
  <2>3. CASE job' = Worker(job.worker)
    <3> DEFINE on == job.worker
    <3> HIDE DEF on
    <3>1. IsJob(Worker(on)) /\ Worker(on).pc = "idle" /\ Worker(on).loaded = job.loaded
      BY <1>1, IdleWorker
    <3> QED
      BY <2>3, <3>1 DEF on
  <2> QED
    BY <1>2, <2>1, <2>2, <2>3
<1>4. DataInv(gen', db', job')
  BY <1>1, <1>2, <1>3 DEF DataInv
<1> QED
  BY <1>2, <1>4, DataStepKeeps

\* A comparison that refuses a generation does it for a reason.
LEMMA Refusals ==
    ASSUME WikiInv, DataInv(gen, db, job), ~Excused
    PROVE  CandidateEquals(Expected(job.found))
<1>1. /\ job.found = Found(Entities) /\ gen.cursor >= lastRcid /\ job.loaded
      /\ \A p \in Properties : ~PointsAtEntity(p)
  <2>1. ~(gen.cursor < lastRcid) /\ gen.cursor \in 0..lastRcid /\ lastRcid \in Nat
    BY DEF Excused, DataInv, Good, Shape, WikiInv
  <2> QED
    BY <2>1 DEF Excused
<1>2. Good(gen, db) /\ gen.cursor = lastRcid
  <2>1. Good(gen, db) /\ gen.cursor \in 0..lastRcid /\ lastRcid \in Nat
    BY <1>1 DEF DataInv, Good, Shape, WikiInv
  <2> QED
    BY <1>1, <2>1
<1> DEFINE fresh == Expected(Found(Entities))
<1>3. /\ DOMAIN db = gen.graphs /\ GlobalGraphName \notin gen.graphs
      /\ DOMAIN fresh = gen.graphs \cup {GlobalGraphName} /\ fresh[GlobalGraphName] = {}
      /\ \A n \in gen.graphs :
            (n[1] = "schema" /\ PointsAtEntity(n[2])) \/ Compare(fresh[n], db[n]) = "EQUAL"
  BY <1>2, StepCompares
<1>4. \A p : ~PointsAtEntity(p)
  BY <1>1 DEF PointsAtEntity, Found
<1> HIDE DEF fresh
<1>5. \A n \in gen.graphs : GraphOf(db, n) = db[n]
  BY <1>3 DEF GraphOf
<1>6. CandidateEquals(fresh)
  BY <1>3, <1>4, <1>5 DEF CandidateEquals
<1> QED
  BY <1>1, <1>6 DEF fresh

LEMMA ValidationKeeps == DatasetInv /\ Validate => DatasetInv'
<1> SUFFICES ASSUME DatasetInv, Validate PROVE DatasetInv'
  OBVIOUS
<1>1. WikiInv /\ DataInv(gen, db, job) /\ IsJob(job)
  BY DEF DatasetInv, DataInv
<1> DEFINE equal == CandidateEquals(Expected(job.found))
           st == IF equal THEN "READY" ELSE "FAILED"
           on == job.worker
<1>2. /\ gen' = [gen EXCEPT !.state = st]
      /\ verdict' = [result |-> IF equal THEN "VALID" ELSE "INVALID", excused |-> Excused]
      /\ job' = Worker(on) /\ UNCHANGED <<wikiVars, contents, db>>
  BY DEF Validate
<1>3. equal \/ Excused
  BY <1>1, Refusals
<1> HIDE DEF equal, on
<1>4. RefusedForAReason'
  <2>1. CASE equal
    BY <1>2, <2>1 DEF RefusedForAReason
  <2>2. CASE ~equal
    BY <1>2, <1>3, <2>2 DEF RefusedForAReason
  <2> QED
    BY <2>1, <2>2
<1> HIDE DEF st
<1>5. job.loaded => Good(gen', db')
  <2> SUFFICES ASSUME job.loaded PROVE Good(gen', db')
    OBVIOUS
  <2>1. Good(gen, db)
    BY <1>1 DEF DataInv
  <2>2. gen = [state |-> gen.state, sync |-> gen.sync, schema |-> gen.schema, cursor |-> gen.cursor,
               rows |-> gen.rows, graphs |-> gen.graphs, provenance |-> gen.provenance]
    BY <2>1 DEF Good, Shape
  <2>3. gen' = [state |-> st, sync |-> gen.sync, schema |-> gen.schema, cursor |-> gen.cursor,
                rows |-> gen.rows, graphs |-> gen.graphs, provenance |-> gen.provenance]
    BY <1>2, <2>2
  <2>4. SameHead(gen', gen)
    BY <2>3 DEF SameHead
  <2>5. Good(gen', db) /\ db' = db
    BY <1>2, <2>1, <2>4, HeadMatters
  <2> QED
    BY <2>5
<1>6. IsJob(Worker(on)) /\ Worker(on).pc = "idle" /\ Worker(on).loaded = job.loaded
  BY <1>1, IdleWorker
<1>7. IsJob(job') /\ job'.pc = "idle" /\ job'.loaded = job.loaded
  BY <1>2, <1>6
<1>8. DataInv(gen', db', job')
  BY <1>5, <1>7 DEF DataInv
<1> QED
  BY <1>2, <1>4, <1>8, DataStepKeeps

LEMMA DatasetKeeps == DatasetInv /\ DatasetNext => DatasetInv'
BY WikiKeeps, StartKeeps, DumpKeeps, BeginKeeps, ClearKeeps, LoadKeeps, FinishKeeps, FailKeeps,
   EventKeeps, InterruptionKeeps, PollKeeps, ReferenceKeeps, ValidationKeeps
   DEF DatasetNext, RebuildNext, WorkerNext, ValidationNext

LEMMA DatasetStays == DatasetInv /\ UNCHANGED datasetVars => DatasetInv'
<1> SUFFICES ASSUME DatasetInv, UNCHANGED datasetVars PROVE DatasetInv'
  OBVIOUS
<1>1. UNCHANGED <<wikiVars, contents, gen, db, job, verdict>>
  BY DEF datasetVars, dataVars
<1>2. DataInv(gen', db', job')
  BY <1>1 DEF DatasetInv
<1> QED
  BY <1>1, <1>2, DataStepKeeps

LEMMA DatasetBegins == DatasetInit => DatasetInv
<1> SUFFICES ASSUME DatasetInit PROVE DatasetInv
  OBVIOUS
<1>1. WikiInv /\ LogInv /\ lastRcid = 0
  BY InitialWiki DEF DatasetInit
<1>2. /\ job = [pc |-> "dump", worker |-> FALSE, rebuilds |-> 0, faults |-> 0, loaded |-> FALSE,
               cursor |-> 0, ingested |-> 0, left |-> Entities, found |-> << >>]
      /\ verdict.result # "INVALID"
  BY DEF DatasetInit, NoVerdict
<1>3. Dumped(<< >>, 0, Entities \ Entities)
  BY <1>1 DEF Dumped
<1>4. DataInv(gen, db, job)
  BY <1>2, <1>3, SourceAssumption DEF DataInv, IsJob
<1> QED
  BY <1>1, <1>2, <1>4 DEF DatasetInv, RefusedForAReason

-----------------------------------------------------------------------------
(***************************************************************************)
(* The canonical form of a whole dataset, as jwb-m9c-inventory compares    *)
(* it.                                                                     *)
(***************************************************************************)

\* The rank tells the hash.
LEMMA RanksDiffer ==
    ASSUME NEW hashes, IsFiniteSet(hashes)
    PROVE  \A a, b \in hashes : Rank(hashes)[a] = Rank(hashes)[b] => a = b
<1> DEFINE n == Cardinality(hashes)
           order == SetToSeq(hashes)
<1>1. n \in Nat /\ ExistsBijection(1..n, hashes)
  BY FS_CardinalityType
<1>2. PICK f : f \in Bijection(1..n, hashes)
  BY <1>1 DEF ExistsBijection
<1>3. f \in [1..n -> hashes] /\ IsInjective(f)
  BY <1>2, Fun_BijectionProperties DEF Injection
<1>4. order \in [1..n -> hashes] /\ IsInjective(order)
  BY <1>3 DEF SetToSeq
<1> HIDE DEF n, order
<1>5. order \in Injection(1..n, hashes)
  BY <1>4 DEF Injection
<1>6. Cardinality(1..n) = n
  BY <1>1, FS_Interval
<1>7. order \in Surjection(1..n, hashes)
  BY <1>5, <1>6, FS_Injection DEF n
<1>8. ASSUME NEW hash \in hashes
      PROVE  order[Rank(hashes)[hash]] = hash
  <2>1. \E i \in 1..n : order[i] = hash
    BY <1>7 DEF Surjection
  <2>2. Rank(hashes)[hash] = CHOOSE i \in 1..n : order[i] = hash
    BY <1>4 DEF Rank, order
  <2> QED
    BY <2>1, <2>2
<1> QED
  BY <1>8

\* The last round refines colours of the same nodes.
LEMMA LastRound ==
    ASSUME NEW lines, IsFiniteSet(BlankNodes(lines))
    PROVE  \E colour : DOMAIN colour = BlankNodes(lines) /\ Colours(lines) = Refine(lines, colour)
<1> DEFINE m == Cardinality(BlankNodes(lines)) + 2
           colour == ColourRounds(lines)
           Bad == {k \in 0..m : DOMAIN colour[k] # BlankNodes(lines)}
<1>1. /\ m \in Nat /\ m # 0 /\ Colours(lines) = colour[m]
      /\ colour[0] = [n \in BlankNodes(lines) |-> 0]
      /\ \A round \in 1..m : colour[round] = Refine(lines, colour[round - 1])
  BY RoundsOfColours
<1> HIDE DEF colour, m
<1>2. ASSUME Bad # {} PROVE FALSE
  <2>0. Bad \in SUBSET Nat
    BY <1>1
  <2> HIDE DEF Bad
  <2>1. PICK k \in Bad : \A j \in Bad : k <= j
    BY <1>2, <2>0, LeastNumber
  <2> USE DEF Bad
  <2>2. k # 0
    BY <1>1, <2>1
  <2>3. k \in 1..m /\ k - 1 \in 0..m /\ k - 1 \notin Bad
    BY <1>1, <2>1, <2>2
  <2>4. DOMAIN colour[k - 1] = BlankNodes(lines)
    BY <2>3
  <2>5. DOMAIN colour[k] = BlankNodes(lines)
    BY <1>1, <2>3, <2>4 DEF Refine
  <2> QED
    BY <2>1, <2>5
<1>3. m - 1 \in 0..m /\ m \in 1..m
  BY <1>1
<1>4. DOMAIN colour[m - 1] = BlankNodes(lines) /\ Colours(lines) = Refine(lines, colour[m - 1])
  BY <1>1, <1>2, <1>3
<1> QED
  BY <1>4

-----------------------------------------------------------------------------
\* The two lines of a Property that name its blank node, as quads.
Complement(doc, p) == <<NoValue(p), "complementOf", Blank(doc, p), SchemaGraphName(p)>>
Restriction(doc, p) == <<Blank(doc, p), "onProperty", Direct(p), SchemaGraphName(p)>>

IsQuad(t) == t = <<t[1], t[2], t[3], t[4]>>

\* Quads whose blank nodes are one for each Property of ps, in these lines only.
QuadsOf(lines, doc, ps) ==
    /\ IsFiniteSet(lines) /\ IsFiniteSet(ps)
    /\ \A t \in lines : IsQuad(t) /\ ~IsMention(t[1]) /\ ~IsMention(t[3])
    /\ \A t \in lines : IsBlank(t[1]) \/ IsBlank(t[3]) =>
          \E p \in ps : t = Complement(doc, p) \/ t = Restriction(doc, p)
    /\ \A p \in ps : Complement(doc, p) \in lines /\ Restriction(doc, p) \in lines

\* How a Property's blank node is seen.
ViewsOf(p) == {<<NoValue(p), "complementOf", <<"@SELF">>, SchemaGraphName(p)>>,
               <<<<"@SELF">>, "onProperty", Direct(p), SchemaGraphName(p)>>}
SignatureOf(p) == [v \in ViewsOf(p) |-> 1]

\* A line of a graph with the name of the graph.
LEMMA QuadParts ==
    ASSUME NEW a, NEW b, NEW c, NEW g, NEW d, NEW e
    PROVE  /\ [<<a, b, c, g>> EXCEPT ![1] = d, ![3] = e] = <<d, b, e, g>>
           /\ [<<a, b, c, g>> EXCEPT ![3] = e] = <<a, b, e, g>>
           /\ <<a, b, c, g>>[1] = a /\ <<a, b, c, g>>[2] = b /\ <<a, b, c, g>>[3] = c /\ <<a, b, c, g>>[4] = g
OBVIOUS

LEMMA BlankLineParts ==
    ASSUME NEW doc, NEW p
    PROVE  /\ Complement(doc, p)[1] = NoValue(p) /\ Complement(doc, p)[3] = Blank(doc, p)
           /\ Complement(doc, p)[2] = "complementOf" /\ Complement(doc, p)[4] = SchemaGraphName(p)
           /\ Restriction(doc, p)[1] = Blank(doc, p) /\ Restriction(doc, p)[3] = Direct(p)
           /\ Restriction(doc, p)[2] = "onProperty" /\ Restriction(doc, p)[4] = SchemaGraphName(p)
           /\ IsBlank(Blank(doc, p)) /\ ~IsBlank(NoValue(p)) /\ ~IsBlank(Direct(p))
           /\ Complement(doc, p) # Restriction(doc, p)
<1>1. IsBlank(Blank(doc, p)) /\ ~IsBlank(NoValue(p)) /\ ~IsBlank(Direct(p))
  BY Kinds DEF IsBlank, Kind
<1>2. Complement(doc, p)[2] = "complementOf" /\ Restriction(doc, p)[2] = "onProperty"
  BY DEF Complement, Restriction
<1>3. Complement(doc, p) # Restriction(doc, p)
  BY <1>2
<1> QED
  BY <1>1, <1>2, <1>3 DEF Complement, Restriction

LEMMA RelabelsQuad ==
    ASSUME NEW a, NEW b, NEW c, NEW g, ~IsMention(a), ~IsMention(c), NEW f
    PROVE  RelabelLine(<<a, b, c, g>>, f) = <<Moved(a, f), b, Moved(c, f), g>>
<1>1. RelabelLine(<<a, b, c, g>>, f) = [<<a, b, c, g>> EXCEPT ![1] = Moved(a, f), ![3] = Moved(c, f)]
  BY QuadParts DEF RelabelLine, Moved
<1> QED
  BY <1>1, QuadParts

\* The blank nodes of a dataset are those of its schema graphs.
LEMMA QuadBlanks ==
    ASSUME NEW lines, NEW doc, NEW ps, QuadsOf(lines, doc, ps)
    PROVE  /\ BlankNodes(lines) = {Blank(doc, p) : p \in ps}
           /\ IsFiniteSet(BlankNodes(lines))
           /\ \A p \in ps : {t \in lines : Blank(doc, p) \in Labels(Ends(t))}
                              = {Complement(doc, p), Restriction(doc, p)}
<1>0. /\ \A t \in lines : Labels(Ends(t)) = {n \in Ends(t) : IsBlank(n)}
      /\ BlankNodes(lines) = UNION {Labels(Ends(t)) : t \in lines}
  <2>1. \A t \in lines : Labels(Ends(t)) = {n \in Ends(t) : IsBlank(n)}
    BY LabelsOfTriple DEF QuadsOf
  <2>2. BlankNodes(lines) = UNION {Labels(Ends(t)) : t \in lines}
    BY DEF BlankNodes, Labels
  <2> QED
    BY <2>1, <2>2
<1>1. ASSUME NEW n \in BlankNodes(lines)
      PROVE  \E p \in ps : n = Blank(doc, p)
  <2>1. PICK t \in lines : n \in Ends(t) /\ IsBlank(n)
    BY <1>0
  <2>2. PICK p \in ps : t = Complement(doc, p) \/ t = Restriction(doc, p)
    BY <2>1 DEF Ends, QuadsOf
  <2>3. n = Blank(doc, p)
    BY <2>1, <2>2, BlankLineParts DEF Ends
  <2> QED
    BY <2>3
<1>2. ASSUME NEW p \in ps
      PROVE  Blank(doc, p) \in BlankNodes(lines)
  <2>1. Complement(doc, p) \in lines /\ Blank(doc, p) \in Ends(Complement(doc, p)) /\ IsBlank(Blank(doc, p))
    BY BlankLineParts DEF Ends, QuadsOf
  <2> QED
    BY <1>0, <2>1
<1>3. BlankNodes(lines) = {Blank(doc, p) : p \in ps}
  BY <1>1, <1>2
<1>4. IsFiniteSet({Blank(doc, p) : p \in ps})
  <2> DEFINE all == {Blank(doc, p) : p \in ps}
             image == [p \in ps |-> Blank(doc, p)]
  <2>1. image \in [ps -> all] /\ \A y \in all : \E p \in ps : image[p] = y
    OBVIOUS
  <2>2. IsFiniteSet(ps)
    BY DEF QuadsOf
  <2> HIDE DEF image, all
  <2>3. IsFiniteSet(all)
    BY <2>1, <2>2, ImageFinite
  <2> QED
    BY <2>3 DEF all
<1>5. ASSUME NEW p \in ps
      PROVE  {t \in lines : Blank(doc, p) \in Labels(Ends(t))} = {Complement(doc, p), Restriction(doc, p)}
  <2>1. ASSUME NEW t \in lines, Blank(doc, p) \in Ends(t)
        PROVE  t \in {Complement(doc, p), Restriction(doc, p)}
    <3>1. PICK q \in ps : t = Complement(doc, q) \/ t = Restriction(doc, q)
      BY <2>1, BlankLineParts DEF Ends, QuadsOf
    <3>2. Blank(doc, p) = Blank(doc, q)
      BY <2>1, <3>1, BlankLineParts DEF Ends
    <3>3. p = q
      BY <3>2, Names
    <3> QED
      BY <3>1, <3>3
  <2>2. /\ Complement(doc, p) \in lines /\ Blank(doc, p) \in Ends(Complement(doc, p))
        /\ Restriction(doc, p) \in lines /\ Blank(doc, p) \in Ends(Restriction(doc, p))
    BY BlankLineParts DEF Ends, QuadsOf
  <2>3. IsBlank(Blank(doc, p))
    BY BlankLineParts
  <2> QED
    BY <1>0, <2>1, <2>2, <2>3
<1> QED
  BY <1>3, <1>4, <1>5

\* A blank node's signature is its Property's, whatever the colours and the label.
LEMMA QuadSignature ==
    ASSUME NEW lines, NEW doc, NEW ps, QuadsOf(lines, doc, ps), NEW p \in ps, NEW colour
    PROVE  Signature(Blank(doc, p), lines, colour) = SignatureOf(p)
<1> DEFINE node == Blank(doc, p)
           seen == SeenBy(node, lines, colour)
           view(t) == RelabelLine(NormalizeLiteral(t), seen)
           own == {t \in lines : node \in Labels(Ends(t))}
           c == Complement(doc, p)
           r == Restriction(doc, p)
           vc == <<NoValue(p), "complementOf", <<"@SELF">>, SchemaGraphName(p)>>
           vr == <<<<"@SELF">>, "onProperty", Direct(p), SchemaGraphName(p)>>
<1>1. own = {c, r} /\ c # r
  BY QuadBlanks, BlankLineParts
<1>2. /\ Moved(NoValue(p), seen) = NoValue(p) /\ Moved(Direct(p), seen) = Direct(p)
      /\ Moved(node, seen) = <<"@SELF">>
  <2>1. BlankNodes(lines) = {Blank(doc, q) : q \in ps}
    BY QuadBlanks
  <2>2. DOMAIN seen = {Blank(doc, q) : q \in ps} /\ node \in DOMAIN seen
    BY <2>1 DEF SeenBy
  <2>3. NoValue(p) \notin DOMAIN seen /\ Direct(p) \notin DOMAIN seen
    BY <2>2, Kinds DEF Kind
  <2>4. seen[node] = <<"@SELF">>
    BY <2>1, <2>2 DEF SeenBy, Seen
  <2> HIDE DEF seen
  <2> QED
    BY <2>2, <2>3, <2>4 DEF Moved
<1>3. view(c) = vc /\ view(r) = vr
  <2>1. c = <<NoValue(p), "complementOf", node, SchemaGraphName(p)>>
    BY DEF Complement, node
  <2>2. r = <<node, "onProperty", Direct(p), SchemaGraphName(p)>>
    BY DEF Restriction, node
  <2>3. /\ NormalizeLiteral(c) = c /\ NormalizeLiteral(r) = r
        /\ ~IsMention(NoValue(p)) /\ ~IsMention(Direct(p)) /\ ~IsMention(node)
    BY Kinds, BlankLineParts DEF Kind, NormalizeLiteral, IsMention
  <2> HIDE DEF seen, node, c, r
  <2>4. view(c) = <<Moved(NoValue(p), seen), "complementOf", Moved(node, seen), SchemaGraphName(p)>>
    BY <2>1, <2>3, RelabelsQuad
  <2>5. view(r) = <<Moved(node, seen), "onProperty", Moved(Direct(p), seen), SchemaGraphName(p)>>
    BY <2>2, <2>3, RelabelsQuad
  <2> QED
    BY <1>2, <2>4, <2>5
<1>4. vc # vr
  <2>1. vc[2] # vr[2]
    OBVIOUS
  <2> QED
    BY <2>1
<1>5. Signature(node, lines, colour) =
        [v \in {view(t) : t \in own} |-> Cardinality({t \in own : view(t) = v})]
  BY DEF Signature, SeenBy
<1> HIDE DEF view, own, c, r, vc, vr, node
<1>6. {view(t) : t \in own} = {vc, vr}
  BY <1>1, <1>3
<1>7. {t \in own : view(t) = vc} = {c} /\ {t \in own : view(t) = vr} = {r}
  BY <1>1, <1>3, <1>4
<1>8. Cardinality({c}) = 1 /\ Cardinality({r}) = 1
  BY FS_Singleton
<1>9. \A v \in {vc, vr} : Cardinality({t \in own : view(t) = v}) = 1
  BY <1>7, <1>8
<1>10. Signature(node, lines, colour) = [v \in {vc, vr} |-> 1]
  BY <1>5, <1>6, <1>9
<1> QED
  BY <1>10 DEF SignatureOf, ViewsOf, vc, vr, node

\* Blank nodes of different schemas look different from the first round on.
LEMMA SignaturesDiffer ==
    ASSUME NEW p, NEW q, SignatureOf(p) = SignatureOf(q)
    PROVE  p = q
<1>1. ViewsOf(p) = ViewsOf(q)
  BY DEF SignatureOf
<1>2. <<NoValue(p), "complementOf", <<"@SELF">>, SchemaGraphName(p)>> \in ViewsOf(q)
  BY <1>1 DEF ViewsOf
<1>3. CASE <<NoValue(p), "complementOf", <<"@SELF">>, SchemaGraphName(p)>>
             = <<NoValue(q), "complementOf", <<"@SELF">>, SchemaGraphName(q)>>
  <2>1. NoValue(p) = NoValue(q)
    BY <1>3
  <2> QED
    BY <2>1, Names
<1>4. CASE <<NoValue(p), "complementOf", <<"@SELF">>, SchemaGraphName(p)>>
             = <<<<"@SELF">>, "onProperty", Direct(q), SchemaGraphName(q)>>
  <2>1. "complementOf" = "onProperty"
    BY <1>4
  <2> QED
    BY <2>1
<1> QED
  BY <1>2, <1>3, <1>4 DEF ViewsOf

\* The colour and the number of a Property's blank node.
Hashes(ps) == {SignatureOf(p) : p \in ps}
Tone(ps, p) == Rank(Hashes(ps))[SignatureOf(p)]
Number(ps, p) == Cardinality({q \in ps : Tone(ps, q) <= Tone(ps, p)})

\* No two nodes keep one colour.
LEMMA Tones ==
    ASSUME NEW ps, IsFiniteSet(ps)
    PROVE  /\ \A p \in ps : Tone(ps, p) \in Nat
           /\ \A p, q \in ps : Tone(ps, p) = Tone(ps, q) => p = q
<1> DEFINE all == Hashes(ps)
           image == [p \in ps |-> SignatureOf(p)]
<1>1. image \in [ps -> all] /\ \A y \in all : \E p \in ps : image[p] = y
  BY DEF Hashes
<1>2. \A p \in ps : SignatureOf(p) \in all
  BY DEF Hashes
<1> HIDE DEF all, image
<1>3. IsFiniteSet(all)
  BY <1>1, ImageFinite
<1>4. \A h \in all : Rank(all)[h] \in Nat
  BY <1>3, RanksAreNumbers
<1>5. \A a, b \in all : Rank(all)[a] = Rank(all)[b] => a = b
  BY <1>3, RanksDiffer
<1> QED
  BY <1>2, <1>4, <1>5, SignaturesDiffer DEF Tone, all

\* The colouring of a dataset gives each blank node a colour of its own.
LEMMA QuadColours ==
    ASSUME NEW lines, NEW doc, NEW ps, QuadsOf(lines, doc, ps)
    PROVE  /\ DOMAIN Colours(lines) = BlankNodes(lines)
           /\ \A p \in ps : Colours(lines)[Blank(doc, p)] = Tone(ps, p)
           /\ Colours(lines) \in [BlankNodes(lines) -> Nat]
<1>0. IsFiniteSet(ps)
  BY DEF QuadsOf
<1>1. BlankNodes(lines) = {Blank(doc, p) : p \in ps} /\ IsFiniteSet(BlankNodes(lines))
  BY QuadBlanks
<1>2. PICK colour : DOMAIN colour = BlankNodes(lines) /\ Colours(lines) = Refine(lines, colour)
  BY <1>1, LastRound
<1> DEFINE s == [n \in DOMAIN colour |-> Signature(n, lines, colour)]
<1>3. \A p \in ps : s[Blank(doc, p)] = SignatureOf(p)
  BY <1>1, <1>2, QuadSignature
<1>4. Refine(lines, colour) = [n \in DOMAIN colour |-> Rank(Range(s))[s[n]]]
  BY DEF Refine
<1>5. DOMAIN s = {Blank(doc, p) : p \in ps}
  BY <1>1, <1>2
<1> HIDE DEF s
<1>6. Range(s) = Hashes(ps)
  BY <1>3, <1>5 DEF Range, Hashes
<1>7. \A p \in ps : Colours(lines)[Blank(doc, p)] = Tone(ps, p)
  BY <1>1, <1>2, <1>3, <1>4, <1>6 DEF Tone
<1>8. DOMAIN Colours(lines) = BlankNodes(lines)
  BY <1>2, <1>4
<1>9. Colours(lines) = [n \in BlankNodes(lines) |-> Colours(lines)[n]]
  BY <1>2, <1>4
<1>10. \A n \in BlankNodes(lines) : Colours(lines)[n] \in Nat
  BY <1>0, <1>1, <1>7, Tones
<1> QED
  BY <1>7, <1>8, <1>9, <1>10

\* There is one way to number them.
LEMMA QuadNumbers ==
    ASSUME NEW lines, NEW doc, NEW ps, QuadsOf(lines, doc, ps),
           NEW f \in Numberings(Colours(lines)), NEW p \in ps
    PROVE  DOMAIN f = BlankNodes(lines) /\ f[Blank(doc, p)] = Number(ps, p)
<1> DEFINE S == BlankNodes(lines)
           N == Cardinality(S)
           node(q) == Blank(doc, q)
           A == {q \in ps : Tone(ps, q) <= Tone(ps, p)}
<1>1. S = {node(q) : q \in ps} /\ IsFiniteSet(S) /\ IsFiniteSet(ps) /\ N \in Nat
  <2>1. S = {node(q) : q \in ps} /\ IsFiniteSet(S)
    BY QuadBlanks
  <2>2. IsFiniteSet(ps)
    BY DEF QuadsOf
  <2> HIDE DEF S
  <2> QED
    BY <2>1, <2>2, FS_CardinalityType
<1>2. /\ f \in Bijection(S, 1..N)
      /\ \A a, b \in S : Colours(lines)[a] < Colours(lines)[b] => f[a] < f[b]
  BY QuadColours DEF Numberings
<1>3. /\ f \in [S -> 1..N] /\ \A a, b \in S : f[a] = f[b] => a = b
      /\ \A i \in 1..N : \E a \in S : f[a] = i
  <2> HIDE DEF S, N
  <2>1. f \in Bijection(S, 1..N)
    BY <1>2
  <2> QED
    BY <2>1 DEF Bijection, Injection, Surjection, IsInjective
<1>4. /\ \A q \in ps : Tone(ps, q) \in Nat /\ Colours(lines)[node(q)] = Tone(ps, q)
      /\ \A q, r \in ps : Tone(ps, q) = Tone(ps, r) => q = r
  BY <1>1, Tones, QuadColours
<1>5. \A q, r : node(q) = node(r) => q = r
  BY Names
<1>6. \A q \in ps : node(q) \in S
  BY <1>1
<1> HIDE DEF S, N, node
<1> DEFINE g == [q \in A |-> f[node(q)]]
           top == f[node(p)]
<1>7. top \in 1..N /\ top \in Nat
  BY <1>1, <1>3, <1>6
<1>8. ASSUME NEW q \in ps
      PROVE  /\ f[node(q)] \in 1..N
             /\ q \in A <=> f[node(q)] <= top
  <2>1. f[node(q)] \in 1..N
    BY <1>3, <1>6
  <2>2. CASE Tone(ps, q) < Tone(ps, p)
    <3>1. f[node(q)] < top
      BY <1>2, <1>4, <1>6, <2>2
    <3> QED
      BY <1>1, <1>4, <1>7, <2>1, <2>2, <3>1
  <2>3. CASE Tone(ps, q) = Tone(ps, p)
    <3>1. q = p
      BY <1>4, <2>3
    <3> QED
      BY <1>1, <1>4, <1>7, <2>1, <3>1
  <2>4. CASE Tone(ps, q) > Tone(ps, p)
    <3>1. top < f[node(q)]
      BY <1>2, <1>4, <1>6, <2>4
    <3> QED
      BY <1>1, <1>4, <1>7, <2>1, <2>4, <3>1
  <2>5. Tone(ps, q) \in Nat /\ Tone(ps, p) \in Nat
    BY <1>4
  <2> QED
    BY <2>2, <2>3, <2>4, <2>5
<1> HIDE DEF top
<1>9. g \in [A -> 1..top]
  BY <1>1, <1>7, <1>8
<1>10. ASSUME NEW q \in A, NEW r \in A, g[q] = g[r]
       PROVE  q = r
  BY <1>3, <1>5, <1>6, <1>10
<1>11. ASSUME NEW i \in 1..top
       PROVE  \E q \in A : g[q] = i
  <2>1. i \in 1..N /\ i <= top
    BY <1>1, <1>7
  <2>2. PICK a \in S : f[a] = i
    BY <1>3, <2>1
  <2>3. PICK q \in ps : a = node(q)
    BY <1>1, <2>2 DEF node
  <2>4. q \in A
    BY <1>8, <2>1, <2>2, <2>3
  <2> QED
    BY <2>2, <2>3, <2>4
<1>12. IsFiniteSet(A)
  BY <1>1, FS_Subset
<1> HIDE DEF A, g
<1>13. g \in Bijection(A, 1..top)
  BY <1>9, <1>10, <1>11, Fun_IsBij
<1>14. Cardinality(A) = Cardinality(1..top)
  BY <1>12, <1>13, SameSize
<1>15. Cardinality(1..top) = top
  BY <1>7, FS_Interval
<1> QED
  BY <1>3, <1>14, <1>15 DEF Number, A, top, node, S

-----------------------------------------------------------------------------
\* The canonical form names each blank node by the number of its Property.
Canon(ps, x) == IF IsBlank(x) THEN <<"c14n", Number(ps, x[3])>> ELSE x
CanonLine(ps, t) == <<Canon(ps, t[1]), t[2], Canon(ps, t[3]), t[4]>>

\* Normalization does not touch names.
LEMMA NormalOfQuad ==
    ASSUME NEW a, NEW b, NEW c, NEW g
    PROVE  NormalizeLiteral(<<a, b, c, g>>) = <<a, b, IF c[1] = "decimal" THEN Decimal(c[2], "canonical") ELSE c, g>>
<1> DEFINE t == <<a, b, c, g>>
           d == Decimal(c[2], "canonical")
<1>1. t[3] = c
  OBVIOUS
<1>2. [t EXCEPT ![3] = d] = <<a, b, d, g>>
  BY QuadParts
<1> HIDE DEF t, d
<1>3. NormalizeLiteral(t) = IF c[1] = "decimal" THEN [t EXCEPT ![3] = d] ELSE t
  BY <1>1 DEF NormalizeLiteral, d
<1> QED
  BY <1>2, <1>3 DEF t, d

LEMMA NormalQuads ==
    ASSUME NEW lines, NEW doc, NEW ps, QuadsOf(lines, doc, ps)
    PROVE  QuadsOf(NormalizeLiterals(lines), doc, ps)
<1> DEFINE norm == {NormalizeLiteral(t) : t \in lines}
<1>1. NormalizeLiterals(lines) = norm
  BY NormalLines
<1>2. IsFiniteSet(norm) /\ IsFiniteSet(ps)
  BY <1>1, NormalFinite DEF QuadsOf
<1>3. ASSUME NEW t \in lines
      PROVE  /\ IsQuad(NormalizeLiteral(t))
             /\ ~IsMention(NormalizeLiteral(t)[1]) /\ ~IsMention(NormalizeLiteral(t)[3])
             /\ IsBlank(NormalizeLiteral(t)[1]) \/ IsBlank(NormalizeLiteral(t)[3]) =>
                  \E p \in ps : NormalizeLiteral(t) = Complement(doc, p) \/ NormalizeLiteral(t) = Restriction(doc, p)
  <2>1. t = <<t[1], t[2], t[3], t[4]>>
    BY DEF QuadsOf, IsQuad
  <2> DEFINE d == IF t[3][1] = "decimal" THEN Decimal(t[3][2], "canonical") ELSE t[3]
  <2>2. NormalizeLiteral(t) = <<t[1], t[2], d, t[4]>>
    BY <2>1, NormalOfQuad
  <2>m. ~IsMention(t[1]) /\ ~IsMention(d)
    BY DEF QuadsOf, IsMention, Decimal
  <2>3. CASE t[3][1] = "decimal"
    <3>1. ~IsBlank(t[3]) /\ ~IsBlank(d) /\ NormalizeLiteral(t)[1] = t[1] /\ NormalizeLiteral(t)[3] = d
      BY <2>2, <2>3 DEF IsBlank, Decimal
    <3>n. LET u == NormalizeLiteral(t) IN u = <<u[1], u[2], u[3], u[4]>>
      BY <2>2
    <3>2. ~IsBlank(t[1])
      <4>1. ASSUME NEW p \in ps PROVE t # Complement(doc, p) /\ t # Restriction(doc, p)
        BY <2>3, Kinds, BlankLineParts DEF Kind
      <4> QED
        BY <4>1 DEF QuadsOf
    <3> HIDE DEF d
    <3> QED
      BY <2>m, <3>1, <3>n, <3>2 DEF IsQuad
  <2>4. CASE t[3][1] # "decimal"
    <3>1. NormalizeLiteral(t) = t
      BY <2>1, <2>2, <2>4
    <3> QED
      BY <3>1 DEF QuadsOf
  <2> QED
    BY <2>3, <2>4
<1>4. ASSUME NEW p \in ps
      PROVE  Complement(doc, p) \in norm /\ Restriction(doc, p) \in norm
  <2>1. NormalizeLiteral(Complement(doc, p)) = Complement(doc, p) /\ NormalizeLiteral(Restriction(doc, p)) = Restriction(doc, p)
    BY Kinds, BlankLineParts DEF Kind, NormalizeLiteral
  <2>2. Complement(doc, p) \in lines /\ Restriction(doc, p) \in lines
    BY DEF QuadsOf
  <2> QED
    BY <2>1, <2>2
<1>5. QuadsOf(norm, doc, ps)
  BY <1>2, <1>3, <1>4 DEF QuadsOf
<1> QED
  BY <1>1, <1>5

\* The canonical form of a dataset numbers the schemas in the order of their ranks.
LEMMA QuadForm ==
    ASSUME NEW lines, NEW doc, NEW ps, QuadsOf(lines, doc, ps)
    PROVE  CanonicalForm(lines) = {CanonLine(ps, NormalizeLiteral(t)) : t \in lines}
<1> DEFINE Q == Numberings(Colours(lines))
           S == BlankNodes(lines)
<1>1. S = {Blank(doc, p) : p \in ps} /\ IsFiniteSet(S)
  BY QuadBlanks
<1>2. Q # {}
  <2>1. Colours(lines) \in [S -> Nat] /\ DOMAIN Colours(lines) = S
    BY QuadColours
  <2>2. PICK f \in Bijection(S, 1..Cardinality(S)) :
            \A a, b \in S : Colours(lines)[a] < Colours(lines)[b] => f[a] < f[b]
    BY <1>1, <2>1, SortedNumbering
  <2> QED
    BY <2>1, <2>2 DEF Numberings
<1>3. ASSUME NEW f \in Q
      PROVE  Serialize(lines, f) = {CanonLine(ps, NormalizeLiteral(t)) : t \in lines}
  <2> DEFINE N == NormalizeLiterals(lines)
  <2>1. \A p \in ps : f[Blank(doc, p)] = Number(ps, p)
    BY QuadNumbers
  <2>2. DOMAIN f = S
    <3>1. f \in Bijection(DOMAIN Colours(lines), 1..Cardinality(DOMAIN Colours(lines)))
      BY DEF Numberings
    <3>2. DOMAIN Colours(lines) = S
      BY QuadColours
    <3> QED
      BY <3>1, <3>2, Fun_BijectionProperties
  <2>3. QuadsOf(N, doc, ps) /\ N = {NormalizeLiteral(t) : t \in lines}
    BY NormalQuads, NormalLines
  <2> HIDE DEF N, S
  <2>4. ASSUME NEW t \in N, NEW x \in {t[1], t[3]}
        PROVE  Moved(x, Named(f)) = Canon(ps, x)
    <3>1. CASE IsBlank(x)
      <4>1. PICK p \in ps : t = Complement(doc, p) \/ t = Restriction(doc, p)
        BY <2>3, <2>4, <3>1 DEF QuadsOf
      <4>2. x = Blank(doc, p)
        BY <2>4, <3>1, <4>1, BlankLineParts
      <4>3. x[3] = p /\ x \in S
        BY <1>1, <4>2 DEF Blank
      <4> QED
        BY <2>1, <2>2, <3>1, <4>2, <4>3 DEF Moved, Named, Canon
    <3>2. CASE ~IsBlank(x)
      <4>1. x \notin S
        BY <1>1, <3>2, BlankLineParts
      <4> QED
        BY <2>2, <3>2, <4>1 DEF Moved, Named, Canon
    <3> QED
      BY <3>1, <3>2
  <2>5. ASSUME NEW t \in N
        PROVE  RelabelLine(t, Named(f)) = CanonLine(ps, t)
    <3>1. t = <<t[1], t[2], t[3], t[4]>> /\ ~IsMention(t[1]) /\ ~IsMention(t[3])
      BY <2>3 DEF QuadsOf, IsQuad
    <3>2. RelabelLine(<<t[1], t[2], t[3], t[4]>>, Named(f))
            = <<Moved(t[1], Named(f)), t[2], Moved(t[3], Named(f)), t[4]>>
      BY <3>1, RelabelsQuad
    <3>3. Moved(t[1], Named(f)) = Canon(ps, t[1]) /\ Moved(t[3], Named(f)) = Canon(ps, t[3])
      BY <2>4
    <3> QED
      BY <3>1, <3>2, <3>3 DEF CanonLine
  <2>6. Serialize(lines, f) = {RelabelLine(t, Named(f)) : t \in N}
    BY DEF Serialize, Named, N
  <2> QED
    BY <2>3, <2>5, <2>6
<1>4. CanonicalForm(lines) = CHOOSE least \in Forms(lines) : TRUE
  BY DEF CanonicalForm, Forms
<1>5. CanonicalForm(lines) \in Forms(lines)
  BY <1>2, <1>4 DEF Forms
<1> QED
  BY <1>3, <1>5 DEF Forms

-----------------------------------------------------------------------------
\* What a dataset holds beside the graphs of the entities found.
Holds(dataset, doc, found, more) ==
    /\ DOMAIN dataset = DOMAIN more
    /\ OwnNames(DOMAIN found) \subseteq DOMAIN more
    /\ DOMAIN more \subseteq OwnNames(DOMAIN found) \cup {GlobalGraphName}
    /\ \A e \in DOMAIN found : dataset[EntityGraphName(e)] = PartOf(found, e) \cup more[EntityGraphName(e)]
    /\ \A p \in DOMAIN found : p \in PropertyIds => /\ dataset[SchemaGraphName(p)] = SchemaPart(doc, p)
                                                    /\ more[SchemaGraphName(p)] = {}
    /\ GlobalGraphName \in DOMAIN more => dataset[GlobalGraphName] = more[GlobalGraphName]
    /\ \A n \in DOMAIN more : Remarks(more[n])

LEMMA QuadIn ==
    ASSUME NEW dataset, NEW t
    PROVE  t \in Quads(dataset) <=> \E n \in DOMAIN dataset : \E u \in dataset[n] : t = Append(u, n)
BY DEF Quads

LEMMA QuadOfTriple ==
    ASSUME NEW u, u = <<u[1], u[2], u[3]>>, NEW n
    PROVE  /\ Append(u, n) = <<u[1], u[2], u[3], n>>
           /\ Append(u, n)[1] = u[1] /\ Append(u, n)[2] = u[2] /\ Append(u, n)[3] = u[3] /\ IsQuad(Append(u, n))
<1>1. ASSUME NEW a, NEW b, NEW c
      PROVE  Append(<<a, b, c>>, n) = <<a, b, c, n>>
  <2> DEFINE q == Append(<<a, b, c>>, n)
             w == <<a, b, c, n>>
             S == {a, b, c, n}
  <2>1. q[1] = a /\ q[2] = b /\ q[3] = c /\ q[4] = n /\ Len(q) = 4
    OBVIOUS
  <2>2. q \in Seq(S)
    OBVIOUS
  <2>3. w \in Seq(S) /\ Len(w) = 4 /\ w[1] = a /\ w[2] = b /\ w[3] = c /\ w[4] = n
    OBVIOUS
  <2> HIDE DEF q, w, S
  <2>4. \A i \in 1..Len(q) : q[i] = w[i]
    BY <2>1, <2>3
  <2>5. q = w
    BY <2>1, <2>2, <2>3, <2>4, SeqEqual
  <2> QED
    BY <2>5 DEF q, w
<1>2. Append(u, n) = <<u[1], u[2], u[3], n>>
  BY <1>1
<1> QED
  BY <1>2 DEF IsQuad

\* The quads of the entities and their schemas.
BodyQuad(doc, found, t) ==
    \/ \E e \in DOMAIN found : \E u \in PartOf(found, e) : t = Append(u, EntityGraphName(e))
    \/ \E p \in DOMAIN found : p \in PropertyIds /\ \E u \in SchemaPart(doc, p) : t = Append(u, SchemaGraphName(p))

\* The lines of a dataset, sorted by where they come from.
LEMMA QuadsHeld ==
    ASSUME NEW dataset, NEW doc, NEW found, NEW more, Holds(dataset, doc, found, more), NEW t
    PROVE  t \in Quads(dataset) <=> BodyQuad(doc, found, t) \/ t \in Quads(more)
<1>1. \A n \in DOMAIN more : \/ \E e \in DOMAIN found : n = EntityGraphName(e)
                             \/ \E p \in DOMAIN found : p \in PropertyIds /\ n = SchemaGraphName(p)
                             \/ n = GlobalGraphName
  BY DEF Holds, OwnNames
<1>2. /\ \A e \in DOMAIN found : EntityGraphName(e) \in DOMAIN more
      /\ \A p \in DOMAIN found : p \in PropertyIds => SchemaGraphName(p) \in DOMAIN more
  BY DEF Holds, OwnNames
<1>3. ASSUME NEW n \in DOMAIN dataset, NEW u \in dataset[n], t = Append(u, n)
      PROVE  BodyQuad(doc, found, t) \/ t \in Quads(more)
  <2>1. n \in DOMAIN more
    BY DEF Holds
  <2>2. CASE u \in more[n]
    BY <1>3, <2>1, <2>2, QuadIn
  <2>3. CASE u \notin more[n]
    <3>1. CASE \E e \in DOMAIN found : n = EntityGraphName(e)
      BY <1>3, <2>3, <3>1 DEF Holds, BodyQuad
    <3>2. CASE \E p \in DOMAIN found : p \in PropertyIds /\ n = SchemaGraphName(p)
      BY <1>3, <2>3, <3>2 DEF Holds, BodyQuad
    <3>3. CASE n = GlobalGraphName
      BY <2>1, <2>3, <3>3 DEF Holds
    <3> QED
      BY <1>1, <2>1, <3>1, <3>2, <3>3
  <2> QED
    BY <2>2, <2>3
<1>4. ASSUME BodyQuad(doc, found, t)
      PROVE  \E n \in DOMAIN dataset : \E u \in dataset[n] : t = Append(u, n)
  <2>1. CASE \E e \in DOMAIN found : \E u \in PartOf(found, e) : t = Append(u, EntityGraphName(e))
    <3>1. PICK e \in DOMAIN found : \E u \in PartOf(found, e) : t = Append(u, EntityGraphName(e))
      BY <2>1
    <3>2. EntityGraphName(e) \in DOMAIN dataset /\ PartOf(found, e) \subseteq dataset[EntityGraphName(e)]
      BY <1>2 DEF Holds
    <3> QED
      BY <3>1, <3>2
  <2>2. CASE \E p \in DOMAIN found : p \in PropertyIds /\ \E u \in SchemaPart(doc, p) : t = Append(u, SchemaGraphName(p))
    <3>1. PICK p \in DOMAIN found : p \in PropertyIds /\ \E u \in SchemaPart(doc, p) : t = Append(u, SchemaGraphName(p))
      BY <2>2
    <3>2. SchemaGraphName(p) \in DOMAIN dataset /\ SchemaPart(doc, p) \subseteq dataset[SchemaGraphName(p)]
      BY <1>2, <3>1 DEF Holds
    <3> QED
      BY <3>1, <3>2
  <2> QED
    BY <1>4, <2>1, <2>2 DEF BodyQuad
<1>5. ASSUME NEW n \in DOMAIN more, NEW u \in more[n]
      PROVE  n \in DOMAIN dataset /\ u \in dataset[n]
  <2>1. n \in DOMAIN dataset
    BY DEF Holds
  <2>2. CASE \E e \in DOMAIN found : n = EntityGraphName(e)
    BY <1>5, <2>2 DEF Holds
  <2>3. CASE \E p \in DOMAIN found : p \in PropertyIds /\ n = SchemaGraphName(p)
    BY <1>5, <2>3 DEF Holds
  <2>4. CASE n = GlobalGraphName
    BY <1>5, <2>4 DEF Holds
  <2> QED
    BY <1>1, <2>1, <2>2, <2>3, <2>4
<1> QED
  BY <1>3, <1>4, <1>5, QuadIn

LEMMA BodyQuads ==
    ASSUME NEW doc, NEW found, NEW t, BodyQuad(doc, found, t)
    PROVE  /\ IsQuad(t) /\ ~IsMention(t[1]) /\ ~IsMention(t[3])
           /\ IsBlank(t[1]) \/ IsBlank(t[3]) =>
                \E p \in DOMAIN found \cap PropertyIds : t = Complement(doc, p) \/ t = Restriction(doc, p)
           /\ ~IsBlank(t[1]) /\ ~IsBlank(t[3]) => \A other : BodyQuad(other, found, t)
<1>1. CASE \E e \in DOMAIN found : \E u \in PartOf(found, e) : t = Append(u, EntityGraphName(e))
  <2>1. PICK e \in DOMAIN found : \E u \in PartOf(found, e) : t = Append(u, EntityGraphName(e))
    BY <1>1
  <2>2. PICK u \in PartOf(found, e) : t = Append(u, EntityGraphName(e))
    BY <2>1
  <2>3. /\ u = <<u[1], u[2], u[3]>> /\ ~IsBlank(u[1]) /\ ~IsBlank(u[3])
        /\ ~IsMention(u[1]) /\ ~IsMention(u[3])
    BY PlainPart DEF PartOf
  <2>4. t[1] = u[1] /\ t[3] = u[3] /\ IsQuad(t)
    BY <2>2, <2>3, QuadOfTriple
  <2>5. \A other : BodyQuad(other, found, t)
    BY <1>1 DEF BodyQuad
  <2> QED
    BY <2>3, <2>4, <2>5
<1>2. CASE \E p \in DOMAIN found : p \in PropertyIds /\ \E u \in SchemaPart(doc, p) : t = Append(u, SchemaGraphName(p))
  <2>1. PICK p \in DOMAIN found : p \in PropertyIds /\ \E u \in SchemaPart(doc, p) : t = Append(u, SchemaGraphName(p))
    BY <1>2
  <2>2. PICK u \in SchemaPart(doc, p) : t = Append(u, SchemaGraphName(p))
    BY <2>1
  <2>3. p \in DOMAIN found \cap PropertyIds
    BY <2>1
  <2>4. CASE u = <<Direct(p), "type", Literal("iri", "Property")>>
    <3>1. t = <<Direct(p), "type", Literal("iri", "Property"), SchemaGraphName(p)>>
      BY <2>2, <2>4, QuadOfTriple
    <3>2. \A other : u \in SchemaPart(other, p)
      BY <2>4 DEF SchemaPart
    <3>3. \A other : BodyQuad(other, found, t)
      BY <2>1, <2>2, <3>2 DEF BodyQuad
    <3>4. ~IsBlank(t[1]) /\ ~IsBlank(t[3]) /\ ~IsMention(t[1]) /\ ~IsMention(t[3])
      BY <3>1, Kinds DEF IsBlank, IsMention, Kind
    <3> QED
      BY <3>1, <3>3, <3>4 DEF IsQuad
  <2>5. CASE u = <<NoValue(p), "complementOf", Blank(doc, p)>>
    <3>1. t = Complement(doc, p)
      BY <2>2, <2>5, QuadOfTriple DEF Complement
    <3>2. IsQuad(t) /\ ~IsMention(t[1]) /\ ~IsMention(t[3])
      BY <3>1, Kinds DEF Complement, IsQuad, IsMention, Kind
    <3> QED
      BY <2>3, <3>1, <3>2, BlankLineParts
  <2>6. CASE u = <<Blank(doc, p), "onProperty", Direct(p)>>
    <3>1. t = Restriction(doc, p)
      BY <2>2, <2>6, QuadOfTriple DEF Restriction
    <3>2. IsQuad(t) /\ ~IsMention(t[1]) /\ ~IsMention(t[3])
      BY <3>1, Kinds DEF Restriction, IsQuad, IsMention, Kind
    <3> QED
      BY <2>3, <3>1, <3>2, BlankLineParts
  <2> QED
    BY <2>4, <2>5, <2>6 DEF SchemaPart
<1> QED
  BY <1>1, <1>2 DEF BodyQuad

LEMMA BodyBlanks ==
    ASSUME NEW doc, NEW found, NEW p \in DOMAIN found \cap PropertyIds
    PROVE  BodyQuad(doc, found, Complement(doc, p)) /\ BodyQuad(doc, found, Restriction(doc, p))
<1>1. Complement(doc, p) = Append(<<NoValue(p), "complementOf", Blank(doc, p)>>, SchemaGraphName(p))
  BY QuadOfTriple DEF Complement
<1>2. Restriction(doc, p) = Append(<<Blank(doc, p), "onProperty", Direct(p)>>, SchemaGraphName(p))
  BY QuadOfTriple DEF Restriction
<1>3. /\ <<NoValue(p), "complementOf", Blank(doc, p)>> \in SchemaPart(doc, p)
      /\ <<Blank(doc, p), "onProperty", Direct(p)>> \in SchemaPart(doc, p)
  BY DEF SchemaPart
<1> QED
  BY <1>1, <1>2, <1>3 DEF BodyQuad

\* What is held beside the graphs of the entities has one form.
LEMMA MoreQuads ==
    ASSUME NEW more, \A n \in DOMAIN more : Remarks(more[n]), NEW t \in Quads(more), NEW ps
    PROVE  /\ IsQuad(t) /\ ~IsBlank(t[1]) /\ ~IsBlank(t[3])
           /\ ~IsMention(t[1]) /\ ~IsMention(t[3]) /\ CanonLine(ps, NormalizeLiteral(t)) = t
<1>1. PICK n \in DOMAIN more : \E u \in more[n] : t = Append(u, n)
  BY QuadIn
<1>2. PICK u \in more[n] : t = Append(u, n)
  BY <1>1
<1>3. u = <<u[1], u[2], u[3]>> /\ Kind(u[1]) \in {"dump", "page", "entity"} /\ Kind(u[3]) = "literal"
  BY DEF Remarks
<1>4. t[1] = u[1] /\ t[3] = u[3] /\ IsQuad(t)
  BY <1>2, <1>3, QuadOfTriple
<1>5. /\ ~IsBlank(t[1]) /\ ~IsBlank(t[3]) /\ t[3][1] # "decimal"
      /\ ~IsMention(t[1]) /\ ~IsMention(t[3])
  BY <1>3, <1>4 DEF IsBlank, IsMention, Kind
<1>6. NormalizeLiteral(t) = t
  BY <1>5 DEF NormalizeLiteral
<1>7. CanonLine(ps, t) = t
  BY <1>4, <1>5 DEF CanonLine, Canon, IsQuad
<1> QED
  BY <1>4, <1>5, <1>6, <1>7

LEMMA NamesFinite ==
    ASSUME NEW S, IsFiniteSet(S)
    PROVE  IsFiniteSet(OwnNames(S) \cup {GlobalGraphName})
<1>1. IsFiniteSet({EntityGraphName(e) : e \in S})
  <2> DEFINE all == {EntityGraphName(e) : e \in S}
             image == [e \in S |-> EntityGraphName(e)]
  <2>1. image \in [S -> all] /\ \A y \in all : \E e \in S : image[e] = y
    OBVIOUS
  <2> HIDE DEF all, image
  <2>2. IsFiniteSet(all)
    BY <2>1, ImageFinite
  <2> QED
    BY <2>2 DEF all
<1>2. IsFiniteSet(S \cap PropertyIds)
  BY FS_Intersection
<1>3. IsFiniteSet({SchemaGraphName(p) : p \in S \cap PropertyIds})
  <2> DEFINE all == {SchemaGraphName(p) : p \in S \cap PropertyIds}
             image == [p \in S \cap PropertyIds |-> SchemaGraphName(p)]
  <2>1. image \in [S \cap PropertyIds -> all] /\ \A y \in all : \E e \in S \cap PropertyIds : image[e] = y
    OBVIOUS
  <2> HIDE DEF all, image
  <2>2. IsFiniteSet(all)
    BY <1>2, <2>1, ImageFinite
  <2> QED
    BY <2>2 DEF all
<1>4. IsFiniteSet(OwnNames(S))
  BY <1>1, <1>3, FS_Union DEF OwnNames
<1> QED
  BY <1>4, FS_Union, FS_Singleton

\* A dataset is finite.
LEMMA HeldFinite ==
    ASSUME NEW found, Described(found), NEW dataset, NEW doc, NEW more, Holds(dataset, doc, found, more)
    PROVE  IsFiniteSet(Quads(dataset))
<1>1. IsFiniteSet(DOMAIN dataset)
  <2>1. IsFiniteSet(OwnNames(DOMAIN found) \cup {GlobalGraphName})
    BY DescribedFinite, NamesFinite
  <2> QED
    BY <2>1, FS_Subset DEF Holds
<1>2. ASSUME NEW n \in DOMAIN dataset PROVE IsFiniteSet(dataset[n])
  <2>1. n \in DOMAIN more /\ IsFiniteSet(more[n])
    BY DEF Holds, Remarks
  <2>2. CASE \E e \in DOMAIN found : n = EntityGraphName(e)
    <3>1. PICK e \in DOMAIN found : n = EntityGraphName(e)
      BY <2>2
    <3>2. IsFiniteSet(found[e].claims)
      BY ClaimParts DEF Described
    <3>3. IsFiniteSet(EntityLines(doc, e, found[e].rev, found[e].claims))
      BY <3>2, PartFinite
    <3>4. PartOf(found, e) \subseteq EntityLines(doc, e, found[e].rev, found[e].claims)
      BY EntityLinesSplit DEF PartOf
    <3>5. IsFiniteSet(PartOf(found, e))
      BY <3>3, <3>4, FS_Subset
    <3>6. dataset[n] = PartOf(found, e) \cup more[n]
      BY <3>1 DEF Holds
    <3> QED
      BY <2>1, <3>5, <3>6, FS_Union
  <2>3. CASE \E p \in DOMAIN found : p \in PropertyIds /\ n = SchemaGraphName(p)
    <3>1. PICK p \in DOMAIN found : p \in PropertyIds /\ n = SchemaGraphName(p)
      BY <2>3
    <3>2. dataset[n] = SchemaPart(doc, p)
      BY <3>1 DEF Holds
    <3>3. \A a, b, c : IsFiniteSet({a, b, c})
      BY SmallSets
    <3>4. IsFiniteSet(SchemaPart(doc, p))
      BY <3>3, Zenon DEF SchemaPart
    <3> QED
      BY <3>2, <3>4
  <2>4. CASE n = GlobalGraphName
    BY <2>1, <2>4 DEF Holds
  <2>5. n \in OwnNames(DOMAIN found) \cup {GlobalGraphName}
    BY <2>1 DEF Holds
  <2>6. \/ \E e \in DOMAIN found : n = EntityGraphName(e)
        \/ \E p \in DOMAIN found : p \in PropertyIds /\ n = SchemaGraphName(p)
        \/ n = GlobalGraphName
    BY <2>5 DEF OwnNames
  <2> QED
    BY <2>2, <2>3, <2>4, <2>6
<1>3. ASSUME NEW n \in DOMAIN dataset PROVE IsFiniteSet({Append(u, n) : u \in dataset[n]})
  <2> DEFINE S == dataset[n]
             all == {Append(u, n) : u \in S}
             image == [u \in S |-> Append(u, n)]
  <2>1. image \in [S -> all] /\ \A y \in all : \E u \in S : image[u] = y
    OBVIOUS
  <2>2. IsFiniteSet(S)
    BY <1>2
  <2> HIDE DEF all, image, S
  <2>3. IsFiniteSet(all)
    BY <2>1, <2>2, ImageFinite
  <2> QED
    BY <2>3 DEF all, S
<1> DEFINE linesOf(n) == {Append(u, n) : u \in dataset[n]}
           parts == {linesOf(n) : n \in DOMAIN dataset}
           image == [n \in DOMAIN dataset |-> linesOf(n)]
<1>6. image \in [DOMAIN dataset -> parts] /\ \A y \in parts : \E n \in DOMAIN dataset : image[n] = y
  OBVIOUS
<1>4. IsFiniteSet(parts)
  <2> HIDE DEF image, parts
  <2> QED
    BY <1>1, <1>6, ImageFinite
<1>5. \A S \in parts : IsFiniteSet(S)
  BY <1>3
<1> QED
  BY <1>4, <1>5, FS_UNION DEF Quads

LEMMA HeldQuads ==
    ASSUME NEW found, Described(found), NEW dataset, NEW doc, NEW more, Holds(dataset, doc, found, more)
    PROVE  QuadsOf(Quads(dataset), doc, DOMAIN found \cap PropertyIds)
<1> DEFINE ps == DOMAIN found \cap PropertyIds
<1>1. IsFiniteSet(Quads(dataset))
  BY HeldFinite
<1>2. IsFiniteSet(ps)
  BY DescribedFinite, FS_Intersection
<1>3. ASSUME NEW t \in Quads(dataset)
      PROVE  /\ IsQuad(t) /\ ~IsMention(t[1]) /\ ~IsMention(t[3])
             /\ IsBlank(t[1]) \/ IsBlank(t[3]) => \E p \in ps : t = Complement(doc, p) \/ t = Restriction(doc, p)
  <2>1. CASE BodyQuad(doc, found, t)
    BY <2>1, BodyQuads
  <2>2. CASE t \in Quads(more)
    <3>1. \A n \in DOMAIN more : Remarks(more[n])
      BY DEF Holds
    <3>2. IsQuad(t) /\ ~IsBlank(t[1]) /\ ~IsBlank(t[3]) /\ ~IsMention(t[1]) /\ ~IsMention(t[3])
      BY <2>2, <3>1, MoreQuads
    <3> QED
      BY <3>2
  <2> QED
    BY <2>1, <2>2, QuadsHeld
<1>4. ASSUME NEW p \in ps PROVE Complement(doc, p) \in Quads(dataset) /\ Restriction(doc, p) \in Quads(dataset)
  BY BodyBlanks, QuadsHeld
<1> QED
  BY <1>1, <1>2, <1>3, <1>4 DEF QuadsOf

\* A quad of an entity has a quad of the same form in every document of it.
HasForm(doc, found, ps, form) == \E u : BodyQuad(doc, found, u) /\ CanonLine(ps, NormalizeLiteral(u)) = form

\* Datasets of two documents differ in the labels of their blank nodes only.
LEMMA OtherDocument ==
    ASSUME NEW found, NEW doc, NEW other, NEW t, BodyQuad(doc, found, t), NEW ps
    PROVE  HasForm(other, found, ps, CanonLine(ps, NormalizeLiteral(t)))
<1>1. CASE ~IsBlank(t[1]) /\ ~IsBlank(t[3])
  BY <1>1, BodyQuads DEF HasForm
<1>2. CASE IsBlank(t[1]) \/ IsBlank(t[3])
  <2>1. PICK p \in DOMAIN found \cap PropertyIds : t = Complement(doc, p) \/ t = Restriction(doc, p)
    BY <1>2, BodyQuads
  <2>2. ASSUME NEW d
        PROVE  /\ CanonLine(ps, NormalizeLiteral(Complement(d, p))) =
                    <<NoValue(p), "complementOf", <<"c14n", Number(ps, p)>>, SchemaGraphName(p)>>
               /\ CanonLine(ps, NormalizeLiteral(Restriction(d, p))) =
                    <<<<"c14n", Number(ps, p)>>, "onProperty", Direct(p), SchemaGraphName(p)>>
    <3>1. NormalizeLiteral(Complement(d, p)) = Complement(d, p) /\ NormalizeLiteral(Restriction(d, p)) = Restriction(d, p)
      BY Kinds, BlankLineParts DEF Kind, NormalizeLiteral
    <3>2. Blank(d, p)[3] = p
      BY DEF Blank
    <3>3. Canon(ps, Blank(d, p)) = <<"c14n", Number(ps, p)>>
      BY <3>2, BlankLineParts DEF Canon
    <3>4. Canon(ps, NoValue(p)) = NoValue(p) /\ Canon(ps, Direct(p)) = Direct(p)
      BY BlankLineParts DEF Canon
    <3> QED
      BY <3>1, <3>3, <3>4, BlankLineParts DEF CanonLine
  <2>3. BodyQuad(other, found, Complement(other, p)) /\ BodyQuad(other, found, Restriction(other, p))
    BY BodyBlanks
  <2> QED
    BY <2>1, <2>2, <2>3 DEF HasForm
<1> QED
  BY <1>1, <1>2

\* Two datasets of the same entities differ in what they hold beside them.
LEMMA HeldDiff ==
    ASSUME NEW found, Described(found),
           NEW one, NEW docOne, NEW moreOne, Holds(one, docOne, found, moreOne),
           NEW two, NEW docTwo, NEW moreTwo, Holds(two, docTwo, found, moreTwo)
    PROVE  CanonicalForm(Quads(one)) \ CanonicalForm(Quads(two))
             \subseteq Quads(moreOne)
<1> DEFINE ps == DOMAIN found \cap PropertyIds
<1>1. CanonicalForm(Quads(one)) = {CanonLine(ps, NormalizeLiteral(t)) : t \in Quads(one)}
  <2>1. QuadsOf(Quads(one), docOne, ps)
    BY HeldQuads
  <2> HIDE DEF ps
  <2> QED
    BY <2>1, QuadForm
<1>2. CanonicalForm(Quads(two)) = {CanonLine(ps, NormalizeLiteral(t)) : t \in Quads(two)}
  <2>1. QuadsOf(Quads(two), docTwo, ps)
    BY HeldQuads
  <2> HIDE DEF ps
  <2> QED
    BY <2>1, QuadForm
<1> HIDE DEF ps
<1>3. ASSUME NEW t \in Quads(one), CanonLine(ps, NormalizeLiteral(t)) \notin Quads(moreOne)
      PROVE  \E u \in Quads(two) : CanonLine(ps, NormalizeLiteral(u)) = CanonLine(ps, NormalizeLiteral(t))
  <2>1. \A n \in DOMAIN moreOne : Remarks(moreOne[n])
    BY DEF Holds
  <2>2. t \notin Quads(moreOne)
    BY <1>3, <2>1, MoreQuads
  <2>3. BodyQuad(docOne, found, t)
    BY <2>2, QuadsHeld
  <2>6. HasForm(docTwo, found, ps, CanonLine(ps, NormalizeLiteral(t)))
    BY <2>3, OtherDocument
  <2>4. PICK u : BodyQuad(docTwo, found, u) /\ CanonLine(ps, NormalizeLiteral(u)) = CanonLine(ps, NormalizeLiteral(t))
    BY <2>6 DEF HasForm
  <2>5. u \in Quads(two)
    BY <2>4, QuadsHeld
  <2> QED
    BY <2>4, <2>5
<1> QED
  BY <1>1, <1>2, <1>3

-----------------------------------------------------------------------------
(***************************************************************************)
(* The exports that are compared.                                          *)
(***************************************************************************)
Unpointed(found) == \A p \in DOMAIN found : p \in PropertyIds => ~Points(found[p].claims)

\* A dump holds the lines about itself, in the graph of the rest.
Rest(found, rest) ==
    [n \in OwnNames(DOMAIN found) \cup {GlobalGraphName} |-> IF n = GlobalGraphName THEN rest ELSE {}]

LEMMA RestQuads ==
    ASSUME NEW found, NEW rest, NEW t \in Quads(Rest(found, rest))
    PROVE  \E u \in rest : t = Append(u, GlobalGraphName)
<1>1. PICK n \in DOMAIN Rest(found, rest) : \E u \in Rest(found, rest)[n] : t = Append(u, n)
  BY QuadIn
<1>2. n = GlobalGraphName /\ Rest(found, rest)[n] = rest
  BY <1>1 DEF Rest
<1> QED
  BY <1>1, <1>2

\* A dump holds the graphs of the entities and the remarks about the dump.
LEMMA SnapshotHolds ==
    ASSUME NEW found, Described(found), Unpointed(found), NEW rest, DumpRemarks(rest)
    PROVE  /\ Holds(PartitionSnapshot(Document("dump", found, rest)), "dump", found, Rest(found, rest))
           /\ PartitionSnapshot(Document("dump", found, rest))[GlobalGraphName] = rest
<1> DEFINE parts == PartitionSnapshot(Document("dump", found, rest))
           more == Rest(found, rest)
<1>1. /\ DOMAIN parts = OwnNames(DOMAIN found) \cup {GlobalGraphName}
      /\ \A e \in DOMAIN found : parts[EntityGraphName(e)] = PartOf(found, e)
      /\ \A p \in DOMAIN found : p \in PropertyIds =>
            /\ SchemaPart("dump", p) \subseteq parts[SchemaGraphName(p)]
            /\ ~Points(found[p].claims) => parts[SchemaGraphName(p)] = SchemaPart("dump", p)
      /\ parts[GlobalGraphName] = rest
  BY SnapshotGraphs
<1> HIDE DEF parts
<1>2. DOMAIN more = OwnNames(DOMAIN found) \cup {GlobalGraphName}
  BY DEF Rest
<1>3. \A n \in DOMAIN more : more[n] = IF n = GlobalGraphName THEN rest ELSE {}
  BY DEF Rest
<1> HIDE DEF more
<1>4. \A e \in DOMAIN found : EntityGraphName(e) \in OwnNames(DOMAIN found) /\ EntityGraphName(e) # GlobalGraphName
  BY GraphNames DEF OwnNames
<1>5. \A p \in DOMAIN found : p \in PropertyIds =>
          SchemaGraphName(p) \in OwnNames(DOMAIN found) /\ SchemaGraphName(p) # GlobalGraphName
  BY GraphNames DEF OwnNames
<1>6. Remarks(rest) /\ Remarks({})
  BY FS_EmptySet DEF DumpRemarks, Remarks
<1>7. \A e \in DOMAIN found : parts[EntityGraphName(e)] = PartOf(found, e) \cup more[EntityGraphName(e)]
  BY <1>1, <1>2, <1>3, <1>4
<1>8. \A p \in DOMAIN found : p \in PropertyIds => /\ parts[SchemaGraphName(p)] = SchemaPart("dump", p)
                                                   /\ more[SchemaGraphName(p)] = {}
  BY <1>1, <1>2, <1>3, <1>5 DEF Unpointed
<1>9. \A n \in DOMAIN more : Remarks(more[n])
  BY <1>3, <1>6
<1>10. parts[GlobalGraphName] = more[GlobalGraphName]
  BY <1>1, <1>2, <1>3
<1>11. Holds(parts, "dump", found, more)
  BY <1>1, <1>2, <1>7, <1>8, <1>9, <1>10 DEF Holds
<1> QED
  BY <1>1, <1>11 DEF parts, more

\* The graphs of the entities that were fetched.
Gathered(raw, normal, found, S) ==
    /\ DOMAIN raw = OwnNames(S) /\ DOMAIN normal = OwnNames(S)
    /\ \A e \in S : /\ raw[EntityGraphName(e)] = PartOf(found, e) \cup Licences(e)
                    /\ normal[EntityGraphName(e)] = PartOf(found, e)
    /\ \A p \in S : p \in PropertyIds /\ ~Points(found[p].claims) =>
                    /\ raw[SchemaGraphName(p)] = SchemaPart("entity", p)
                    /\ normal[SchemaGraphName(p)] = SchemaPart("entity", p)

\* What EntityData says of its own documents.
Licensed(found) ==
    [n \in OwnNames(DOMAIN found) |-> IF n[1] = "entity" THEN Licences(n[2]) ELSE {}]

LEMMA LicensedQuads ==
    ASSUME NEW found, NEW t \in Quads(Licensed(found))
    PROVE  \E e : \E u \in Licences(e) : \E n : t = Append(u, n)
<1>1. PICK n \in DOMAIN Licensed(found) : \E u \in Licensed(found)[n] : t = Append(u, n)
  BY QuadIn
<1>2. Licensed(found)[n] = IF n[1] = "entity" THEN Licences(n[2]) ELSE {}
  BY <1>1 DEF Licensed
<1>3. PICK u \in Licensed(found)[n] : t = Append(u, n)
  BY <1>1
<1>4. u \in Licences(n[2])
  BY <1>2
<1> QED
  BY <1>3, <1>4

\* The EntityData fetched holds the graphs of the entities and their licences.
LEMMA RawHolds ==
    ASSUME NEW found, Described(found), Unpointed(found), NEW raw, NEW normal,
           Gathered(raw, normal, found, DOMAIN found)
    PROVE  Holds(raw, "entity", found, Licensed(found))
<1> DEFINE more == Licensed(found)
<1>1. DOMAIN more = OwnNames(DOMAIN found)
  BY DEF Licensed
<1>2. \A n \in DOMAIN more : more[n] = IF n[1] = "entity" THEN Licences(n[2]) ELSE {}
  BY DEF Licensed
<1> HIDE DEF more
<1>3. \A e \in DOMAIN found : EntityGraphName(e) \in DOMAIN more /\ more[EntityGraphName(e)] = Licences(e)
  BY <1>1, <1>2, GraphNames DEF OwnNames
<1>4. \A p \in DOMAIN found : p \in PropertyIds => more[SchemaGraphName(p)] = {}
  BY <1>1, <1>2, GraphNames DEF OwnNames
<1>5. ASSUME NEW n \in DOMAIN more
      PROVE  Remarks(more[n])
  <2>1. CASE n[1] = "entity"
    <3>1. more[n] = Licences(n[2])
      BY <1>2, <2>1
    <3> QED
      BY <3>1, LicencesAreRemarks
  <2>2. CASE n[1] # "entity"
    <3>1. more[n] = {}
      BY <1>2, <2>2
    <3> QED
      BY <3>1, FS_EmptySet DEF Remarks
  <2> QED
    BY <2>1, <2>2
<1>6. GlobalGraphName \notin DOMAIN more
  BY <1>1, GraphNames DEF OwnNames
<1>7. \A p \in DOMAIN found : p \in PropertyIds => raw[SchemaGraphName(p)] = SchemaPart("entity", p)
  BY DEF Gathered, Unpointed
<1>8. \A e \in DOMAIN found : raw[EntityGraphName(e)] = PartOf(found, e) \cup more[EntityGraphName(e)]
  BY <1>3 DEF Gathered
<1>9. Holds(raw, "entity", found, more)
  BY <1>1, <1>4, <1>5, <1>6, <1>7, <1>8 DEF Holds, Gathered
<1> QED
  BY <1>9 DEF more

\* With the global graph of a normalized dump, which is empty.
LEMMA NormalHolds ==
    ASSUME NEW found, Described(found), Unpointed(found), NEW raw, NEW normal,
           Gathered(raw, normal, found, DOMAIN found), NEW dump, dump[GlobalGraphName] = {}
    PROVE  Holds(Overlay([n \in {GlobalGraphName} |-> dump[n]], normal), "entity", found, Rest(found, {}))
<1> DEFINE global == [n \in {GlobalGraphName} |-> dump[n]]
           parts == Overlay(global, normal)
           more == Rest(found, {})
<1>1. DOMAIN more = OwnNames(DOMAIN found) \cup {GlobalGraphName} /\ \A n \in DOMAIN more : more[n] = {}
  BY DEF Rest
<1>2. /\ DOMAIN parts = OwnNames(DOMAIN found) \cup {GlobalGraphName}
      /\ parts[GlobalGraphName] = {}
      /\ \A n \in OwnNames(DOMAIN found) : n # GlobalGraphName => parts[n] = normal[n]
  BY DEF Overlay, Gathered
<1> HIDE DEF parts, more
<1>3. \A e \in DOMAIN found : EntityGraphName(e) \in OwnNames(DOMAIN found) /\ EntityGraphName(e) # GlobalGraphName
  BY GraphNames DEF OwnNames
<1>4. \A p \in DOMAIN found : p \in PropertyIds =>
          SchemaGraphName(p) \in OwnNames(DOMAIN found) /\ SchemaGraphName(p) # GlobalGraphName
  BY GraphNames DEF OwnNames
<1>5. \A e \in DOMAIN found : parts[EntityGraphName(e)] = PartOf(found, e) \cup more[EntityGraphName(e)]
  BY <1>1, <1>2, <1>3 DEF Gathered
<1>6. \A p \in DOMAIN found : p \in PropertyIds => /\ parts[SchemaGraphName(p)] = SchemaPart("entity", p)
                                                   /\ more[SchemaGraphName(p)] = {}
  BY <1>1, <1>2, <1>4 DEF Gathered, Unpointed
<1>7. \A n \in DOMAIN more : Remarks(more[n])
  BY <1>1, FS_EmptySet DEF Remarks
<1>8. Holds(parts, "entity", found, more)
  BY <1>1, <1>2, <1>5, <1>6, <1>7 DEF Holds
<1> QED
  BY <1>8 DEF parts, global, more

\* What the exports differ in is moved to the manifest.
IsMoved(t) == Proposed(t) = "MOVE_TO_GENERATION_MANIFEST"

LEMMA RestMoved ==
    ASSUME NEW found, NEW rest, DumpRemarks(rest), NEW t \in Quads(Rest(found, rest))
    PROVE  IsMoved(t)
<1>1. PICK u \in rest : t = Append(u, GlobalGraphName)
  BY RestQuads
<1>2. u = <<u[1], u[2], u[3]>> /\ u[1] = DumpNode
  BY DEF DumpRemarks, Remarks
<1>3. t[1] = DumpNode
  BY <1>1, <1>2, QuadOfTriple
<1> QED
  BY <1>3 DEF IsMoved, Proposed

LEMMA LicensedMoved ==
    ASSUME NEW found, NEW t \in Quads(Licensed(found))
    PROVE  IsMoved(t)
<1>1. PICK e : \E u \in Licences(e) : \E n : t = Append(u, n)
  BY LicensedQuads
<1>2. PICK u \in Licences(e) : \E n : t = Append(u, n)
  BY <1>1
<1>3. PICK n : t = Append(u, n)
  BY <1>2
<1>4. u = <<u[1], u[2], u[3]>> /\ u[1] = EntityDocument(e) /\ u[2] \in EntityExportPredicates
  BY DEF Licences, EntityExportPredicates
<1>5. t[1] = u[1] /\ t[2] = u[2]
  BY <1>3, <1>4, QuadOfTriple
<1>6. t[1][1] = "page"
  BY <1>4, <1>5, Kinds DEF Kind
<1> QED
  BY <1>4, <1>5, <1>6 DEF IsMoved, Proposed

LEMMA NothingRests ==
    ASSUME NEW found
    PROVE  Quads(Rest(found, {})) = {}
BY RestQuads

\* Each difference is classified as provenance.
LEMMA ClassifiedMoved ==
    ASSUME NEW lines, \A t \in lines : IsMoved(t), NEW source
    PROVE  \A v \in ClassifyLines(lines, source) :
              /\ v.treatment = "MOVE_TO_GENERATION_MANIFEST"
              /\ [v EXCEPT !.evidence = "any"].treatment = "MOVE_TO_GENERATION_MANIFEST"
<1>1. ASSUME NEW t \in lines
      PROVE  LET v == [evidence |-> t, predicate |-> t[2], subjectType |-> SubjectType(t), source |-> source,
                       treatment |-> Proposed(t)]
             IN  /\ v.treatment = "MOVE_TO_GENERATION_MANIFEST"
                 /\ [v EXCEPT !.evidence = "any"].treatment = "MOVE_TO_GENERATION_MANIFEST"
  BY DEF IsMoved
<1> QED
  BY <1>1 DEF ClassifyLines

LEMMA SummaryMoved ==
    ASSUME NEW values, \A v \in values : [v EXCEPT !.evidence = "any"].treatment = "MOVE_TO_GENERATION_MANIFEST"
    PROVE  \A c \in DOMAIN Summarize(values) : c.treatment = "MOVE_TO_GENERATION_MANIFEST"
BY DEF Summarize

LEMMA DifferencesMoved ==
    ASSUME NEW found, Described(found), Unpointed(found), NEW raw, NEW normal,
           Gathered(raw, normal, found, DOMAIN found)
    PROVE  \A c \in DOMAIN Summarize(InventoryOf(FullDump(found, "earlier"), FullDump(found, "later"), raw)) :
               c.treatment = "MOVE_TO_GENERATION_MANIFEST"
<1> DEFINE d1 == FullDump(found, "earlier")
           d2 == FullDump(found, "later")
           one == PartitionSnapshot(d1)
           two == PartitionSnapshot(d2)
           form(dataset) == CanonicalForm(Quads(dataset))
           earlier == Rest(found, DumpLines("earlier"))
           later == Rest(found, DumpLines("later"))
           licensed == Licensed(found)
<1>1. d1 = Document("dump", found, DumpLines("earlier")) /\ d2 = Document("dump", found, DumpLines("later"))
  BY DumpDocument
<1>2. DumpRemarks(DumpLines("earlier")) /\ DumpRemarks(DumpLines("later"))
  BY DumpLinesAreRemarks
<1>3. Holds(one, "dump", found, earlier)
  BY <1>1, <1>2, SnapshotHolds
<1>4. Holds(two, "dump", found, later)
  BY <1>1, <1>2, SnapshotHolds
<1>5. Holds(raw, "entity", found, licensed)
  BY RawHolds
<1>6. /\ \A t \in Quads(earlier) : IsMoved(t)
      /\ \A t \in Quads(later) : IsMoved(t)
      /\ \A t \in Quads(licensed) : IsMoved(t)
  BY <1>2, RestMoved, LicensedMoved
<1> HIDE DEF one, two, earlier, later, licensed, d1, d2
<1>7. /\ form(one) \ form(two) \subseteq Quads(earlier)
      /\ form(two) \ form(one) \subseteq Quads(later)
      /\ form(two) \ form(raw) \subseteq Quads(later)
      /\ form(raw) \ form(two) \subseteq Quads(licensed)
  <2>1. form(one) \ form(two) \subseteq Quads(earlier)
    BY <1>3, <1>4, HeldDiff
  <2>2. form(two) \ form(one) \subseteq Quads(later)
    BY <1>3, <1>4, HeldDiff
  <2>3. form(two) \ form(raw) \subseteq Quads(later)
    BY <1>4, <1>5, HeldDiff
  <2>4. form(raw) \ form(two) \subseteq Quads(licensed)
    BY <1>4, <1>5, HeldDiff
  <2> QED
    BY <2>1, <2>2, <2>3, <2>4
<1> DEFINE a == form(one) \ form(two)
           b == form(two) \ form(one)
           c == form(two) \ form(raw)
           d == form(raw) \ form(two)
<1>8. /\ \A t \in a : IsMoved(t)
      /\ \A t \in b : IsMoved(t)
      /\ \A t \in c : IsMoved(t)
      /\ \A t \in d : IsMoved(t)
  BY <1>6, <1>7
<1>9. InventoryOf(d1, d2, raw) = ClassifyLines(a, "FULL_D1_ONLY") \cup ClassifyLines(b, "FULL_D2_ONLY")
                                 \cup ClassifyLines(c, "FULL_DUMP_ONLY") \cup ClassifyLines(d, "ENTITY_DATA_ONLY")
  BY DEF InventoryOf, Diff, one, two
<1> HIDE DEF a, b, c, d
<1>10. \A v \in InventoryOf(d1, d2, raw) : [v EXCEPT !.evidence = "any"].treatment = "MOVE_TO_GENERATION_MANIFEST"
  BY <1>8, <1>9, ClassifiedMoved
<1> DEFINE values == InventoryOf(d1, d2, raw)
<1> HIDE DEF values
<1>11. \A v \in values : [v EXCEPT !.evidence = "any"].treatment = "MOVE_TO_GENERATION_MANIFEST"
  BY <1>10 DEF values
<1>12. \A x \in DOMAIN Summarize(values) : x.treatment = "MOVE_TO_GENERATION_MANIFEST"
  BY <1>11, SummaryMoved
<1> QED
  BY <1>12 DEF values, d1, d2

\* After normalization nothing differs.
LEMMA NothingNormalizedDiffers ==
    ASSUME NEW found, Described(found), Unpointed(found), NEW raw, NEW normal,
           Gathered(raw, normal, found, DOMAIN found)
    PROVE  NormalizedDifferences(FullDump(found, "earlier"), FullDump(found, "later"), normal) = {}
<1> DEFINE doc == Document("dump", found, {})
           snapshot == PartitionSnapshot(doc)
           form(dataset) == CanonicalForm(Quads(dataset))
           rest == Rest(found, {})
           global == [n \in {GlobalGraphName} |-> snapshot[n]]
           entities == Overlay(global, normal)
<1>1. ASSUME NEW time
      PROVE  NormalizeWikibaseRdf(FullDump(found, time)) = doc
  <2>1. FullDump(found, time) = Document("dump", found, DumpLines(time))
    BY DumpDocument
  <2>2. {t \in DumpLines(time) : ~Export(t)} = {}
    BY DumpLinesAreRemarks
  <2> QED
    BY <2>1, <2>2, NormalizedDocument
<1>2. DumpRemarks({})
  BY FS_EmptySet DEF DumpRemarks, Remarks
<1>3. Holds(snapshot, "dump", found, rest) /\ snapshot[GlobalGraphName] = {}
  BY <1>2, SnapshotHolds
<1>4. Holds(entities, "entity", found, rest)
  <2> HIDE DEF snapshot
  <2>1. snapshot[GlobalGraphName] = {}
    BY <1>3
  <2>2. Holds(Overlay([n \in {GlobalGraphName} |-> snapshot[n]], normal), "entity", found, Rest(found, {}))
    BY <2>1, NormalHolds
  <2> QED
    BY <2>2
<1>5. Quads(rest) = {}
  BY NothingRests
<1>6. NormalizedDifferences(FullDump(found, "earlier"), FullDump(found, "later"), normal) =
         UNION {form(snapshot) \ form(snapshot), form(snapshot) \ form(snapshot),
                form(snapshot) \ form(entities), form(entities) \ form(snapshot)}
  <2>1. /\ NormalizeWikibaseRdf(FullDump(found, "earlier")) = doc
        /\ NormalizeWikibaseRdf(FullDump(found, "later")) = doc
    BY <1>1
  <2> HIDE DEF doc
  <2> QED
    BY <2>1 DEF NormalizedDifferences, Diff
<1> HIDE DEF snapshot, entities, rest, global
<1>7. form(snapshot) \ form(entities) \subseteq Quads(rest)
  BY <1>3, <1>4, HeldDiff
<1>8. form(entities) \ form(snapshot) \subseteq Quads(rest)
  BY <1>3, <1>4, HeldDiff
<1> QED
  BY <1>5, <1>6, <1>7, <1>8

-----------------------------------------------------------------------------
(***************************************************************************)
(* The invariant of the inventory.                                         *)
(***************************************************************************)
IsInventory(i) ==
    i = [pc |-> i.pc, began |-> i.began, first |-> i.first, second |-> i.second, left |-> i.left,
         raw |-> i.raw, normal |-> i.normal, categories |-> i.categories, normalized |-> i.normalized]

\* While the wiki is as it was, the dumps are of it, and so are the entities
\* fetched so far.
SameWiki(i, found) ==
    /\ i.pc \in {"second", "entities"} => i.first = FullDump(found, "earlier")
    /\ i.pc = "entities" => /\ i.second = FullDump(found, "later") /\ i.left \subseteq DOMAIN found
                            /\ Gathered(i.raw, i.normal, found, DOMAIN found \ i.left)
    /\ i.pc = "done" /\ Unpointed(found) =>
          /\ \A c \in DOMAIN i.categories : c.treatment = "MOVE_TO_GENERATION_MANIFEST"
          /\ i.normalized = {}

InventoryOk(i, found, head) ==
    /\ IsInventory(i) /\ head \in Nat /\ i.began \in 0..head
    /\ i.pc \in {"first", "second", "entities", "done", "failed"}
    /\ i.pc \in {"first", "second"} => i.raw = << >> /\ i.normal = << >>
    /\ i.began = head => SameWiki(i, found)

\* Before the first fetch.
LEMMA NothingGathered ==
    ASSUME NEW found
    PROVE  Gathered(<< >>, << >>, found, {})
BY DEF Gathered, OwnNames

\* One more entity is fetched.
LEMMA OneMoreGathered ==
    ASSUME NEW raw, NEW normal, NEW found, Described(found), NEW S, Gathered(raw, normal, found, S),
           NEW e \in DOMAIN found, NEW current
    PROVE  LET body == EntityData(e, found[e].rev, found[e].claims, current)
           IN  /\ Gathered(Overlay(PartitionEntity(body, e), raw),
                           Overlay(PartitionEntity(NormalizeWikibaseRdf(body), e), normal), found, S \cup {e})
               /\ ~UnknownMetadata(body, "ENTITY_DATA")
<1> DEFINE body == EntityData(e, found[e].rev, found[e].claims, current)
           r == PartitionEntity(body, e)
           n == PartitionEntity(NormalizeWikibaseRdf(body), e)
<1>1. e \in Entities /\ found[e].claims \in Contents
  BY DEF Described
<1>2. /\ DOMAIN r = OwnNames({e}) /\ DOMAIN n = OwnNames({e})
      /\ r[EntityGraphName(e)] = PartOf(found, e) \cup Licences(e)
      /\ n[EntityGraphName(e)] = PartOf(found, e)
      /\ e \in PropertyIds /\ ~Points(found[e].claims) =>
            /\ r[SchemaGraphName(e)] = SchemaPart("entity", e)
            /\ n[SchemaGraphName(e)] = SchemaPart("entity", e)
      /\ ~UnknownMetadata(body, "ENTITY_DATA")
  BY <1>1, EntityDataGraphs DEF PartOf
<1> HIDE DEF body, r, n
<1> DEFINE R == Overlay(r, raw)
           N == Overlay(n, normal)
<1>3. /\ DOMAIN R = OwnNames({e}) \cup OwnNames(S) /\ DOMAIN N = OwnNames({e}) \cup OwnNames(S)
      /\ \A m \in OwnNames({e}) : R[m] = r[m] /\ N[m] = n[m]
      /\ \A m \in OwnNames(S) : m \notin OwnNames({e}) => R[m] = raw[m] /\ N[m] = normal[m]
  BY <1>2 DEF Overlay, Gathered
<1> HIDE DEF R, N
<1>4. OwnNames({e}) \cup OwnNames(S) = OwnNames(S \cup {e})
  BY DEF OwnNames
<1>5. \A f \in S \cup {e} : f # e =>
          /\ EntityGraphName(f) \in OwnNames(S) /\ EntityGraphName(f) \notin OwnNames({e})
          /\ f \in PropertyIds => SchemaGraphName(f) \in OwnNames(S) /\ SchemaGraphName(f) \notin OwnNames({e})
  <2>1. \A f \in S : EntityGraphName(f) \in OwnNames(S) /\ (f \in PropertyIds => SchemaGraphName(f) \in OwnNames(S))
    BY DEF OwnNames
  <2> QED
    BY <2>1, NamesOf
<1>6. EntityGraphName(e) \in OwnNames({e}) /\ (e \in PropertyIds => SchemaGraphName(e) \in OwnNames({e}))
  BY NamesOf
<1>7. \A f \in S \cup {e} : /\ R[EntityGraphName(f)] = PartOf(found, f) \cup Licences(f)
                            /\ N[EntityGraphName(f)] = PartOf(found, f)
  BY <1>2, <1>3, <1>5, <1>6 DEF Gathered
<1>8. \A p \in S \cup {e} : p \in PropertyIds /\ ~Points(found[p].claims) =>
          /\ R[SchemaGraphName(p)] = SchemaPart("entity", p)
          /\ N[SchemaGraphName(p)] = SchemaPart("entity", p)
  BY <1>2, <1>3, <1>5, <1>6 DEF Gathered
<1>9. Gathered(R, N, found, S \cup {e})
  BY <1>3, <1>4, <1>7, <1>8 DEF Gathered
<1> QED
  BY <1>2, <1>9 DEF R, N, r, n, body

-----------------------------------------------------------------------------
\* The steps of the script, the wiki as it is.
LEMMA FirstDumpKeeps ==
    ASSUME InventoryOk(inventory, Found(Entities), lastRcid), FirstDump
    PROVE  InventoryOk(inventory', Found(Entities), lastRcid)
<1> DEFINE i == inventory
           d == FullDump(Found(Entities), "earlier")
<1>1. i' = [i EXCEPT !.pc = "second", !.first = d, !.began = lastRcid]
  BY DEF FirstDump
<1>2. i = [pc |-> i.pc, began |-> i.began, first |-> i.first, second |-> i.second, left |-> i.left,
           raw |-> i.raw, normal |-> i.normal, categories |-> i.categories, normalized |-> i.normalized]
  BY DEF InventoryOk, IsInventory
<1> HIDE DEF d
<1>3. i' = [pc |-> "second", began |-> lastRcid, first |-> d, second |-> i.second, left |-> i.left,
            raw |-> i.raw, normal |-> i.normal, categories |-> i.categories, normalized |-> i.normalized]
  BY <1>1, <1>2
<1>4. i.raw = << >> /\ i.normal = << >> /\ lastRcid \in Nat
  BY DEF FirstDump, InventoryAt, InventoryOk
<1>5. SameWiki(i', Found(Entities))
  BY <1>3 DEF SameWiki, d
<1> QED
  BY <1>3, <1>4, <1>5 DEF InventoryOk, IsInventory

LEMMA SecondDumpKeeps ==
    ASSUME WikiInv, InventoryOk(inventory, Found(Entities), lastRcid), SecondDump
    PROVE  InventoryOk(inventory', Found(Entities), lastRcid)
<1> DEFINE i == inventory
           found == Found(Entities)
           d == FullDump(found, "later")
           left1 == DiscoverEntities(i.first)
<1>1. i' = [i EXCEPT !.pc = "entities", !.second = d, !.left = left1]
  BY DEF SecondDump
<1>2. i = [pc |-> i.pc, began |-> i.began, first |-> i.first, second |-> i.second, left |-> i.left,
           raw |-> i.raw, normal |-> i.normal, categories |-> i.categories, normalized |-> i.normalized]
  BY DEF InventoryOk, IsInventory
<1>3. Described(found)
  BY FoundDescribed
<1>4. i.began = lastRcid => left1 = DOMAIN found
  <2> SUFFICES ASSUME i.began = lastRcid PROVE left1 = DOMAIN found
    OBVIOUS
  <2>1. i.first = FullDump(found, "earlier")
    BY DEF SecondDump, InventoryAt, InventoryOk, SameWiki
  <2>2. i.first = Document("dump", found, DumpLines("earlier"))
    BY <2>1, DumpDocument
  <2> HIDE DEF found
  <2>3. DiscoverEntities(Document("dump", found, DumpLines("earlier"))) = DOMAIN found
    BY <1>3, EntitiesDiscovered, DumpLinesAreRemarks
  <2> QED
    BY <2>2, <2>3
<1> HIDE DEF d, left1
<1>5. i' = [pc |-> "entities", began |-> i.began, first |-> i.first, second |-> d, left |-> left1,
            raw |-> i.raw, normal |-> i.normal, categories |-> i.categories, normalized |-> i.normalized]
  BY <1>1, <1>2
<1>6. i.raw = << >> /\ i.normal = << >> /\ lastRcid \in Nat /\ i.began \in 0..lastRcid
  BY DEF SecondDump, InventoryAt, InventoryOk
<1>7. ASSUME i.began = lastRcid PROVE SameWiki(i', found)
  <2>1. i.first = FullDump(found, "earlier")
    BY <1>7 DEF SecondDump, InventoryAt, InventoryOk, SameWiki
  <2>2. left1 = DOMAIN found
    BY <1>4, <1>7
  <2>3. Gathered(i.raw, i.normal, found, DOMAIN found \ left1)
    <3>1. DOMAIN found \ left1 = {}
      BY <2>2
    <3> HIDE DEF found
    <3> QED
      BY <1>6, <3>1, NothingGathered
  <2> HIDE DEF found
  <2> QED
    BY <1>5, <2>1, <2>2, <2>3 DEF SameWiki, d
<1> HIDE DEF found
<1>8. InventoryOk(i', found, lastRcid)
  BY <1>5, <1>6, <1>7 DEF InventoryOk, IsInventory
<1> QED
  BY <1>8 DEF found

LEMMA FetchKeeps ==
    ASSUME WikiInv, InventoryOk(inventory, Found(Entities), lastRcid), FetchEntity
    PROVE  InventoryOk(inventory', Found(Entities), lastRcid)
<1> DEFINE i == inventory
           found == Found(Entities)
           e == CHOOSE x \in i.left : TRUE
           current == [f \in DOMAIN found |-> pages[f].rev]
           body == EntityData(e, pages[e].rev, contents[pages[e].rev], current)
           normal == NormalizeWikibaseRdf(body)
           raw2 == Overlay(PartitionEntity(body, e), i.raw)
           normal2 == Overlay(PartitionEntity(normal, e), i.normal)
<1>1. i = [pc |-> i.pc, began |-> i.began, first |-> i.first, second |-> i.second, left |-> i.left,
           raw |-> i.raw, normal |-> i.normal, categories |-> i.categories, normalized |-> i.normalized]
  BY DEF InventoryOk, IsInventory
<1>2. i.pc = "entities" /\ e \in i.left /\ lastRcid \in Nat /\ i.began \in 0..lastRcid
  BY DEF FetchEntity, InventoryAt, InventoryOk
<1>3. IF pages[e].exists /\ ~UnknownMetadata(body, "ENTITY_DATA")
      THEN i' = [i EXCEPT !.left = @ \ {e}, !.raw = raw2, !.normal = normal2]
      ELSE i' = [i EXCEPT !.pc = "failed"]
  BY DEF FetchEntity
<1>4. ASSUME i.began = lastRcid
      PROVE  /\ i.first = FullDump(found, "earlier") /\ i.second = FullDump(found, "later")
             /\ i.left \subseteq DOMAIN found
             /\ pages[e].exists /\ ~UnknownMetadata(body, "ENTITY_DATA")
             /\ Gathered(raw2, normal2, found, DOMAIN found \ (i.left \ {e}))
  <2>1. SameWiki(i, found)
    BY <1>4 DEF InventoryOk
  <2>2. /\ i.first = FullDump(found, "earlier") /\ i.second = FullDump(found, "later")
        /\ i.left \subseteq DOMAIN found
        /\ Gathered(i.raw, i.normal, found, DOMAIN found \ i.left)
    <3> HIDE DEF found
    <3> QED
      BY <2>1, <1>2 DEF SameWiki
  <2>3. e \in DOMAIN found
    BY <1>2, <2>2
  <2>4. pages[e].exists /\ found[e].rev = pages[e].rev /\ found[e].claims = contents[pages[e].rev] /\ Described(found)
    <3>1. /\ DOMAIN found = {f \in Entities : pages[f].exists} /\ Described(found)
          /\ \A f \in DOMAIN found :
                found[f].rev = pages[f].rev /\ found[f].claims = contents[pages[f].rev]
      BY FoundDescribed
    <3> HIDE DEF found, e
    <3> QED
      BY <2>3, <3>1
  <2> DEFINE S == DOMAIN found \ i.left
             b == EntityData(e, found[e].rev, found[e].claims, current)
  <2> HIDE DEF found, e, current
  <2>5. /\ Gathered(Overlay(PartitionEntity(b, e), i.raw),
                    Overlay(PartitionEntity(NormalizeWikibaseRdf(b), e), i.normal), found, S \cup {e})
        /\ ~UnknownMetadata(b, "ENTITY_DATA")
    <3> HIDE DEF S
    <3>1. Gathered(i.raw, i.normal, found, S)
      BY <2>2 DEF S
    <3> QED
      BY <3>1, <2>3, <2>4, OneMoreGathered
  <2>6. b = body
    BY <2>4
  <2>7. S \cup {e} = DOMAIN found \ (i.left \ {e})
    BY <2>3, <1>2
  <2> QED
    BY <2>2, <2>4, <2>5, <2>6, <2>7
<1> HIDE DEF e, found, body, raw2, normal2, normal, current
<1>5. CASE pages[e].exists /\ ~UnknownMetadata(body, "ENTITY_DATA")
  <2>1. i' = [pc |-> i.pc, began |-> i.began, first |-> i.first, second |-> i.second, left |-> i.left \ {e},
              raw |-> raw2, normal |-> normal2, categories |-> i.categories, normalized |-> i.normalized]
    BY <1>1, <1>3, <1>5
  <2>2. i.began = lastRcid => SameWiki(i', found)
    BY <1>2, <1>4, <2>1 DEF SameWiki
  <2>3. InventoryOk(i', found, lastRcid)
    BY <1>2, <2>1, <2>2 DEF InventoryOk, IsInventory
  <2> QED
    BY <2>3 DEF found
<1>6. CASE ~(pages[e].exists /\ ~UnknownMetadata(body, "ENTITY_DATA"))
  <2>1. i' = [pc |-> "failed", began |-> i.began, first |-> i.first, second |-> i.second, left |-> i.left,
              raw |-> i.raw, normal |-> i.normal, categories |-> i.categories, normalized |-> i.normalized]
    BY <1>1, <1>3, <1>6
  <2>2. i.began # lastRcid
    BY <1>4, <1>6
  <2>3. InventoryOk(i', found, lastRcid)
    BY <1>2, <2>1, <2>2 DEF InventoryOk, IsInventory
  <2> QED
    BY <2>3 DEF found
<1> QED
  BY <1>5, <1>6

LEMMA WriteKeeps ==
    ASSUME WikiInv, InventoryOk(inventory, Found(Entities), lastRcid), WriteInventory
    PROVE  InventoryOk(inventory', Found(Entities), lastRcid)
<1> DEFINE i == inventory
           found == Found(Entities)
           c == Summarize(InventoryOf(i.first, i.second, i.raw))
           n == NormalizedDifferences(i.first, i.second, i.normal)
<1>1. i = [pc |-> i.pc, began |-> i.began, first |-> i.first, second |-> i.second, left |-> i.left,
           raw |-> i.raw, normal |-> i.normal, categories |-> i.categories, normalized |-> i.normalized]
  BY DEF InventoryOk, IsInventory
<1>2. i.pc = "entities" /\ i.left = {} /\ lastRcid \in Nat /\ i.began \in 0..lastRcid
  BY DEF WriteInventory, InventoryAt, InventoryOk
<1>3. i' = [i EXCEPT !.pc = "done", !.categories = c, !.normalized = n]
  BY DEF WriteInventory
<1>4. ASSUME i.began = lastRcid, Unpointed(found)
      PROVE  (\A x \in DOMAIN c : x.treatment = "MOVE_TO_GENERATION_MANIFEST") /\ n = {}
  <2>1. SameWiki(i, found)
    BY <1>4 DEF InventoryOk
  <2>2. Described(found)
    BY FoundDescribed
  <2> HIDE DEF found
  <2>3. /\ i.first = FullDump(found, "earlier") /\ i.second = FullDump(found, "later")
        /\ Gathered(i.raw, i.normal, found, DOMAIN found \ i.left)
    BY <2>1, <1>2 DEF SameWiki
  <2>4. DOMAIN found \ i.left = DOMAIN found
    BY <1>2
  <2>5. Gathered(i.raw, i.normal, found, DOMAIN found)
    BY <2>3, <2>4
  <2>6. \A x \in DOMAIN Summarize(InventoryOf(FullDump(found, "earlier"), FullDump(found, "later"), i.raw)) :
            x.treatment = "MOVE_TO_GENERATION_MANIFEST"
    BY <1>4, <2>2, <2>5, DifferencesMoved
  <2>7. NormalizedDifferences(FullDump(found, "earlier"), FullDump(found, "later"), i.normal) = {}
    BY <1>4, <2>2, <2>5, NothingNormalizedDiffers
  <2> QED
    BY <2>3, <2>6, <2>7
<1> HIDE DEF c, n, found
<1>5. i' = [pc |-> "done", began |-> i.began, first |-> i.first, second |-> i.second, left |-> i.left,
            raw |-> i.raw, normal |-> i.normal, categories |-> c, normalized |-> n]
  BY <1>1, <1>3
<1>6. i.began = lastRcid => SameWiki(i', found)
  BY <1>4, <1>5 DEF SameWiki
<1>7. InventoryOk(i', found, lastRcid)
  BY <1>2, <1>5, <1>6 DEF InventoryOk, IsInventory
<1> QED
  BY <1>7 DEF found

-----------------------------------------------------------------------------
InventoryInv == WikiInv /\ LogInv /\ InventoryOk(inventory, Found(Entities), lastRcid)

LEMMA FoundStays ==
    ASSUME UNCHANGED <<wikiVars, contents>>
    PROVE  Found(Entities)' = Found(Entities) /\ lastRcid' = lastRcid
BY DEF Found, wikiVars

LEMMA InventoryStays ==
    ASSUME InventoryInv, UNCHANGED datasetVars, InventoryOk(inventory', Found(Entities), lastRcid)
    PROVE  InventoryInv'
<1>1. UNCHANGED <<wikiVars, contents>>
  BY DEF datasetVars, dataVars
<1>2. WikiInv' /\ LogInv'
  BY <1>1, WikiStays DEF InventoryInv
<1>3. Found(Entities)' = Found(Entities) /\ lastRcid' = lastRcid
  BY <1>1, FoundStays
<1> QED
  BY <1>2, <1>3 DEF InventoryInv

\* A change of the wiki ends the time for which anything is said.
LEMMA ChangeKeeps ==
    ASSUME InventoryInv, WikiChanges, UNCHANGED inventory
    PROVE  InventoryInv'
<1>1. WikiInv' /\ LogInv' /\ \E e \in Entities : \E row : WikiMove(e, row)
  BY WikiMoves DEF InventoryInv
<1>2. lastRcid' = lastRcid + 1
  BY <1>1 DEF WikiMove
<1>3. lastRcid' \in Nat /\ inventory.began \in 0..lastRcid' /\ inventory.began # lastRcid'
  BY <1>2 DEF InventoryInv, InventoryOk
<1>4. InventoryOk(inventory', Found(Entities)', lastRcid')
  BY <1>3 DEF InventoryInv, InventoryOk
<1> QED
  BY <1>1, <1>4 DEF InventoryInv

LEMMA InventoryKeeps == InventoryInv /\ InventoryNext => InventoryInv'
<1> SUFFICES ASSUME InventoryInv, InventoryNext PROVE InventoryInv'
  OBVIOUS
<1>1. WikiInv /\ InventoryOk(inventory, Found(Entities), lastRcid)
  BY DEF InventoryInv
<1>2. CASE FirstDump /\ UNCHANGED datasetVars
  BY <1>1, <1>2, FirstDumpKeeps, InventoryStays
<1>3. CASE SecondDump /\ UNCHANGED datasetVars
  BY <1>1, <1>3, SecondDumpKeeps, InventoryStays
<1>4. CASE FetchEntity /\ UNCHANGED datasetVars
  BY <1>1, <1>4, FetchKeeps, InventoryStays
<1>5. CASE WriteInventory /\ UNCHANGED datasetVars
  BY <1>1, <1>5, WriteKeeps, InventoryStays
<1>6. CASE WikiChanges /\ UNCHANGED inventory
  BY <1>6, ChangeKeeps
<1> QED
  BY <1>2, <1>3, <1>4, <1>5, <1>6 DEF InventoryNext

\* What the invariant says of the report.
LEMMA InventoryHolds == InventoryInv => DifferencesAreProvenance
<1> SUFFICES ASSUME InventoryInv, InventoryAt("done"), Unchanged, ~(\E p \in Properties : PointsAtEntity(p))
             PROVE  /\ \A c \in DOMAIN inventory.categories : c.treatment = "MOVE_TO_GENERATION_MANIFEST"
                    /\ inventory.normalized = {}
  BY DEF DifferencesAreProvenance
<1> DEFINE found == Found(Entities)
<1>1. ASSUME NEW p \in DOMAIN found, p \in PropertyIds
      PROVE  ~Points(found[p].claims)
  <2>1. p \in Properties
    BY <1>1, DatasetAssumption
  <2>2. /\ DOMAIN found = {f \in Entities : pages[f].exists}
        /\ \A f \in DOMAIN found : found[f].claims = contents[pages[f].rev]
    BY FoundDescribed DEF InventoryInv
  <2> HIDE DEF found
  <2>3. pages[p].exists
    BY <1>1, <2>2
  <2>4. p \in DOMAIN Found(Properties)
    BY <2>1, <2>3 DEF Found
  <2>5. ~\E k \in contents[pages[p].rev] : k.kind = "item"
    BY <2>1, <2>4 DEF PointsAtEntity
  <2> QED
    BY <1>1, <2>2, <2>5 DEF Points
<1>2. Unpointed(found)
  BY <1>1 DEF Unpointed
<1>3. SameWiki(inventory, found)
  BY DEF InventoryInv, InventoryOk, Unchanged
<1> HIDE DEF found
<1> QED
  BY <1>2, <1>3 DEF SameWiki, InventoryAt

LEMMA InventoryBegins == DatasetInit /\ InventoryInit => InventoryInv
<1> SUFFICES ASSUME DatasetInit, InventoryInit PROVE InventoryInv
  OBVIOUS
<1>1. WikiInv /\ LogInv
  BY InitialWiki
<1>2. lastRcid = 0
  BY DEF DatasetInit
<1>3. InventoryOk(inventory, Found(Entities), 0)
  <2> DEFINE found == Found(Entities)
  <2> HIDE DEF found
  <2>1. InventoryOk(inventory, found, 0)
    BY DEF InventoryInit, InventoryOk, IsInventory, SameWiki
  <2> QED
    BY <2>1 DEF found
<1> QED
  BY <1>1, <1>2, <1>3 DEF InventoryInv

-----------------------------------------------------------------------------
(***************************************************************************)
(* The whole instance.                                                     *)
(***************************************************************************)
\* Each part has its invariant; the variables of a part that did not run are as
\* they were.
FollowInv ==
    /\ part = "dataset" => DatasetInv
    /\ part = "inventory" => InventoryInv
    /\ part # "dataset" => ~job.loaded /\ verdict.result # "INVALID"
    /\ part # "inventory" => inventory.pc = "first"

\* The other parts leave the generation alone.
LEMMA QualificationLeavesJob == QualNext => UNCHANGED <<job, verdict>>
BY DEF QualNext, RealEdits, datasetVars, dataVars

LEMMA FollowBegins == Init => FollowInv
<1> SUFFICES ASSUME Init PROVE FollowInv
  OBVIOUS
<1>1. DatasetInit /\ InventoryInit
  BY DEF Init
<1>2. DatasetInv /\ InventoryInv
  BY <1>1, DatasetBegins, InventoryBegins
<1>3. ~job.loaded /\ verdict.result # "INVALID"
  BY <1>1 DEF DatasetInit, NoVerdict
<1>4. inventory.pc = "first"
  BY <1>1 DEF InventoryInit
<1> QED
  BY <1>2, <1>3, <1>4 DEF FollowInv

\* Every step of every part keeps FollowInv.
LEMMA FollowKeeps == FollowInv /\ [Next]_allVars => FollowInv'
<1> SUFFICES ASSUME FollowInv, [Next]_allVars PROVE FollowInv'
  OBVIOUS
<1>1. CASE part = "dataset" /\ DatasetNext /\ UNCHANGED part /\ UNCHANGED inventoryVars
  <2>1. DatasetInv'
    BY <1>1, DatasetKeeps DEF FollowInv
  <2> QED
    BY <1>1, <2>1 DEF FollowInv, inventoryVars
<1>2. CASE part = "inventory" /\ InventoryNext /\ UNCHANGED part
  <2>1. InventoryInv'
    BY <1>2, InventoryKeeps DEF FollowInv
  <2>2. UNCHANGED <<job, verdict>>
    <3>1. CASE UNCHANGED datasetVars
      BY <3>1 DEF datasetVars, dataVars
    <3>2. CASE WikiChanges
      <4>1. WikiInv /\ LogInv
        BY <1>2 DEF FollowInv, InventoryInv
      <4> QED
        BY <3>2, <4>1, WikiMoves
    <3> QED
      BY <1>2, <3>1, <3>2 DEF InventoryNext
  <2> QED
    BY <1>2, <2>1, <2>2 DEF FollowInv
<1>3. CASE part = "qualification" /\ QualNext /\ UNCHANGED part /\ UNCHANGED inventoryVars
  <2>1. UNCHANGED <<job, verdict>>
    BY <1>3, QualificationLeavesJob
  <2> QED
    BY <1>3, <2>1 DEF FollowInv, inventoryVars
<1>4. CASE UNCHANGED part /\ UNCHANGED datasetVars /\ UNCHANGED inventoryVars
  <2>1. part = "dataset" => DatasetInv'
    BY <1>4, DatasetStays DEF FollowInv
  <2>2. part = "inventory" => InventoryInv'
    <3> SUFFICES ASSUME part = "inventory" PROVE InventoryInv'
      OBVIOUS
    <3>1. InventoryInv
      BY DEF FollowInv
    <3>2. InventoryOk(inventory', Found(Entities), lastRcid)
      BY <1>4, <3>1 DEF InventoryInv, inventoryVars
    <3> QED
      BY <1>4, <3>1, <3>2, InventoryStays
  <2>3. UNCHANGED <<job, verdict>>
    BY <1>4 DEF datasetVars, dataVars
  <2> QED
    BY <1>4, <2>1, <2>2, <2>3 DEF FollowInv, inventoryVars
<1>5. CASE UNCHANGED allVars
  BY <1>4, <1>5 DEF allVars
<1> QED
  BY <1>1, <1>2, <1>3, <1>4, <1>5 DEF Next

\* What FollowInv says of the properties.
LEMMA FollowHolds == FollowInv => GraphsFollowWiki /\ RefusedForAReason /\ DifferencesAreProvenance
<1> SUFFICES ASSUME FollowInv PROVE GraphsFollowWiki /\ RefusedForAReason /\ DifferencesAreProvenance
  OBVIOUS
<1>1. GraphsFollowWiki /\ RefusedForAReason
  <2>1. CASE part = "dataset"
    BY <2>1, InvFollows DEF FollowInv
  <2>2. CASE part # "dataset"
    BY <2>2 DEF FollowInv, GraphsFollowWiki, InStep, RefusedForAReason
  <2> QED
    BY <2>1, <2>2
<1>2. DifferencesAreProvenance
  <2>1. CASE part = "inventory"
    BY <2>1, InventoryHolds DEF FollowInv
  <2>2. CASE part # "inventory"
    BY <2>2 DEF FollowInv, DifferencesAreProvenance, InventoryAt
  <2> QED
    BY <2>1, <2>2
<1> QED
  BY <1>1, <1>2

-----------------------------------------------------------------------------
\* Whatever the entities, the bounds and the sets of claims (finite, of amounts
\* and of entities, on Items and on Properties): a generation in step with the
\* wiki holds exactly the graphs of a fresh dump, whether the dump or the
\* revisions after it filled it, but for the schema graph of a Property that
\* points at an entity; a candidate is refused for a reason only; two exports of
\* an unchanged wiki differ in provenance and in nothing after normalization; and
\* a rebuild is served whole (standalone-candidate-rebuilder,
\* SyncEngine.processEvent, jwb-m9c-inventory, jwb-m8-qualification).
THEOREM GenerationFollowsWiki == Spec => []DatasetFollowsWiki
<1>1. Spec => []FollowInv
  BY FollowBegins, FollowKeeps, PTL DEF Spec
<1>2. Spec => []ServesWholeDataset
  BY RebuildServesWhole
<1>3. FollowInv /\ ServesWholeDataset => DatasetFollowsWiki
  BY FollowHolds DEF DatasetFollowsWiki
<1> QED
  BY <1>1, <1>2, <1>3, PTL

=============================================================================
