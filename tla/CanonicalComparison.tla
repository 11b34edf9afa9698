------------------------ MODULE CanonicalComparison ------------------------
(***************************************************************************)
(* One comparison of two graphs with diffCanonicalRdfGraphs, for graphs    *)
(* over blank nodes that are linked in every way, with labels that start   *)
(* other labels, literals that hold a label, and lines that normalization  *)
(* makes one.                                                              *)
(***************************************************************************)
EXTENDS RdfCanonicalization

CONSTANTS LeftLabels, RightLabels,  \* the labels of each of the two graphs
          OddLabels,                \* those that literals hold, and that have a
                                    \* number in two spellings
          MaxLines                  \* bound on the lines of a graph

ASSUME ComparisonAssumption ==
    IsFiniteSet(LeftLabels) /\ IsFiniteSet(RightLabels) /\ MaxLines \in Nat

VARIABLES left, right, outcome

comparisonVars == <<left, right, outcome>>

Node(label) == Blank("graph", label)

\* Links between blank nodes, a number on some of them, and a document that has
\* a label in its text.
Lines(labels) ==
    {<<Node(c[1]), "linksTo", Node(c[2])>> : c \in {d \in labels \X labels : d[1] # d[2]}}
    \cup {<<Node(a), "weighs", Decimal("one", "store")>> : a \in labels}
    \cup {<<DumpNode, "says", Mention(Node(a))>> : a \in labels \cap OddLabels}

SecondSpellings(labels) == {<<Node(a), "weighs", Decimal("one", "export")>> : a \in labels \cap OddLabels}

GraphsOf(lines) == UNION {kSubset(n, lines) : n \in 0..MaxLines}

\* One graph of each class of graphs that differ in their labels only.
Representatives(graphs, labels) ==
    LET nodes == {Node(a) : a \in labels}
    IN  {CHOOSE h \in {Rename(g, f) : f \in Bijection(nodes, nodes)} : TRUE : g \in graphs}

\* Graphs with other numbers of links, numbers or documents are no close call.
Predicates(lines) == [p \in {"linksTo", "weighs", "says"} |-> Cardinality({t \in lines : t[2] = p})]

\* The right graph has every labeling, so the left one needs only one.
ComparisonInit ==
    /\ left \in Representatives(GraphsOf(Lines(LeftLabels)), LeftLabels)
    /\ right \in GraphsOf(Lines(RightLabels) \cup SecondSpellings(RightLabels))
    /\ Predicates(left) = Predicates(NormalizeLiterals(right))
    /\ outcome = "NONE"

DiffGraphs ==
    /\ outcome = "NONE"
    /\ outcome' = Compare(left, right)
    /\ UNCHANGED <<left, right>>

\* No literal has a label in it; no line has two labels of which one starts the
\* other; no two lines are one after normalization.
NoMentions(lines) == \A t \in lines : \A n \in Ends(t) : ~IsMention(n)
NoPrefixes(lines) ==
    \A t \in lines : \A x \in LongerLabels : ~({x[1], x[2]} \subseteq Labels(Ends(t)))
NoRepetitions(lines) ==
    \A t, u \in lines : NormalizeLiteral(t) = NormalizeLiteral(u) => t = u

ComparesByStructure(lines) == NoMentions(lines) /\ NoPrefixes(lines) /\ NoRepetitions(lines)

\* No equality is reported that is not there, unless a literal has a label in
\* it.  Where no label starts another one of its line and no line is there
\* twice either, no difference is reported that is not there, and the search
\* limit depends on the graph, not on its labels.
ComparisonIsIsomorphism ==
    outcome # "NONE" =>
      LET same == Isomorphic(left, right)
      IN  /\ outcome = "EQUAL" /\ NoMentions(left) /\ NoMentions(right) => same
          /\ ComparesByStructure(left) /\ ComparesByStructure(right) =>
                /\ outcome = "DIFFERENT" => ~same
                /\ same => (SearchLimit(left) <=> SearchLimit(right))

=============================================================================
