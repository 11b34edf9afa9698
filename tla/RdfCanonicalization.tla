------------------------ MODULE RdfCanonicalization ------------------------
(***************************************************************************)
(* canonicalizeRdfGraph: labels are coloured by the lines they occur in,   *)
(* renamed in every order the colours allow, and the least of the          *)
(* serializations is the canonical form.  A serialization stands for its   *)
(* set of lines.                                                           *)
(*                                                                         *)
(* A line is a triple or a quad, its nodes are at places 1 and 3.  The     *)
(* code works on the text of a line: a label counts wherever it is         *)
(* written, in a literal too, and is also found at the start of a longer   *)
(* label.                                                                  *)
(***************************************************************************)
EXTENDS RdfDataset, Functions, SequencesExt

CONSTANTS MaxPermutations,  \* options.maxPermutations
          LongerLabels      \* <<l, s, r>>: label l is written as s followed by r

ASSUME CanonicalizationAssumption ==
    /\ MaxPermutations \in Nat \ {0} /\ MaxPermutations <= 1000 * 1000
    /\ \A x \in LongerLabels : x[1] # x[2]

Mention(label) == <<"mention", label>>   \* a literal with a label in its text, as "_:b0"
IsMention(n) == n[1] = "mention"

\* The labels the regular expression finds.
Ends(line) == {line[1], line[3]}
Labels(nodes) == {n \in nodes : IsBlank(n)} \cup {n[2] : n \in {m \in nodes : IsMention(m)}}
BlankNodes(lines) == Labels(UNION {Ends(t) : t \in lines})

\* One spelling for escapes and decimals.  Lines that become one this way, and
\* lines that are repeated, are told apart by their first spellings.
NormalizeLiteral(line) ==
    IF line[3][1] = "decimal" THEN [line EXCEPT ![3] = Decimal(line[3][2], "canonical")] ELSE line
NormalizeLiterals(lines) == {NormalizeLiteral(t) : t \in lines}

\* Mutant: the regular expression without its flag g, the first label only.
RelabelLine_Once(line, f) ==
    LET new(n) == IF n \in DOMAIN f THEN f[n] ELSE n
        text(n) == IF IsMention(n) THEN Mention(new(n[2])) ELSE new(n)
    IN  IF text(line[1]) # line[1] THEN [line EXCEPT ![1] = text(@)] ELSE [line EXCEPT ![3] = text(@)]

\* line.replace(label, new name)
RelabelLine(line, f) ==
    LET new(n) == IF n \in DOMAIN f THEN f[n] ELSE n
        text(n) == IF IsMention(n) THEN Mention(new(n[2])) ELSE new(n)
    IN  [line EXCEPT ![1] = text(@), ![3] = text(@)]

\* A label as a node's signature shows it: itself marked, as the start of a
\* longer one too, the others by their colours.
Seen(label, node, colour) ==
    LET within == {x \in LongerLabels : x[1] = label /\ x[2] = node}
    IN  IF label = node THEN <<"@SELF">>
        ELSE IF within # {} THEN <<"@SELF", (CHOOSE x \in within : TRUE)[3]>>
        ELSE <<"@", colour[label]>>

\* The normalized lines a node occurs in, as a bag.
Signature(node, lines, colour) ==
    LET seen == [n \in BlankNodes(lines) |-> Seen(n, node, colour)]
        view(t) == RelabelLine(NormalizeLiteral(t), seen)
        own == {t \in lines : node \in Labels(Ends(t))}
    IN  [v \in {view(t) : t \in own} |-> Cardinality({t \in own : view(t) = v})]

\* A hash stands for its rank among the hashes of the round.
Rank(hashes) == LET order == SetToSeq(hashes) IN [h \in hashes |-> CHOOSE i \in DOMAIN order : order[i] = h]

Refine(lines, colour) ==
    LET signature == [n \in DOMAIN colour |-> Signature(n, lines, colour)]
        rank == Rank(Range(signature))
    IN  [n \in DOMAIN colour |-> rank[signature[n]]]

\* One more round than there are nodes, after the signatures without colours.
Colours(lines) ==
    LET nodes == BlankNodes(lines)
        rounds == Cardinality(nodes) + 2
        colour[round \in 0..rounds] ==
            IF round = 0 THEN [n \in nodes |-> 0] ELSE Refine(lines, colour[round - 1])
    IN  colour[rounds]

\* Numberings of the nodes in the order of their colours.
Numberings(colour) ==
    {f \in Bijection(DOMAIN colour, 1..Cardinality(DOMAIN colour)) :
        \A a, b \in DOMAIN colour : colour[a] < colour[b] => f[a] < f[b]}

\* RDF_CANONICALIZATION_SEARCH_LIMIT: the product of the factorials of the
\* groups is the number of numberings.
SearchLimit(lines) == Cardinality(Numberings(Colours(lines))) > MaxPermutations

Serialize(lines, f) ==
    LET names == [n \in DOMAIN f |-> <<"c14n", f[n]>>]
    IN  {RelabelLine(t, names) : t \in NormalizeLiterals(lines)}

CanonicalForm(lines) ==
    LET candidates == {Serialize(lines, f) : f \in Numberings(Colours(lines))}
    IN  CHOOSE least \in candidates : TRUE

\* diffCanonicalRdfGraphs and diffCanonicalRdfDatasets
Diff(left, right) ==
    LET a == CanonicalForm(left)
        b == CanonicalForm(right)
    IN  [canonicalOnly |-> a \ b, generationOnly |-> b \ a]

Limited(left, right) == SearchLimit(left) \/ SearchLimit(right)

SameGraph(left, right) ==
    LET d == Diff(left, right) IN d.canonicalOnly = {} /\ d.generationOnly = {}

Compare(left, right) ==
    IF Limited(left, right) THEN "SEARCH_LIMIT"
    ELSE IF SameGraph(left, right) THEN "EQUAL" ELSE "DIFFERENT"

-----------------------------------------------------------------------------
\* What it is meant to decide: RDF renames blank nodes, not the texts of literals.

Anonymous(lines) == {n \in UNION {Ends(t) : t \in lines} : IsBlank(n)}

Rename(lines, f) ==
    LET new(n) == IF n \in DOMAIN f THEN f[n] ELSE n
    IN  {[t EXCEPT ![1] = new(@), ![3] = new(@)] : t \in lines}

Isomorphic(left, right) ==
    LET l == NormalizeLiterals(left)
        r == NormalizeLiterals(right)
    IN  \E f \in Bijection(Anonymous(l), Anonymous(r)) : Rename(l, f) = r

=============================================================================
