---------------------------- MODULE GraphEvidence ----------------------------
(***************************************************************************)
(* The evidence a hierarchy is fitted from: the fused rows of stage 50       *)
(* (libs/graph/pipeline.py) and what from_fused_spark retains of them        *)
(* (libs/graph/hierarchy_artifacts.py).  Parameters are numbers in the order *)
(* of their names.  Weights are whole numbers that every quotient taken of   *)
(* them divides; a weight of 0 is an absent edge.                            *)
(***************************************************************************)
EXTENDS Integers, Sequences, FiniteSetsExt

CONSTANTS
    Parameters,         \* the graph parameter universe
    Alpha, Beta, Gamma  \* the fusion weights of precision, event and lag

ASSUME EvidenceAssumption ==
    /\ Parameters \in SUBSET Nat /\ IsFiniteSet(Parameters)
    /\ {Alpha, Beta, Gamma} \subseteq Nat

Unordered == {{p, q} : p, q \in Parameters} \ {{p} : p \in Parameters}

Least(p, q) == IF p < q THEN p ELSE q
Greatest(p, q) == IF p < q THEN q ELSE p

\* A precision edge runs from the earlier to the later selected sensor, and
\* the backbone selects by energy.
PrecisionWeight(graph, u, v) ==
    IF \E i, j \in DOMAIN graph.selected :
            i < j /\ graph.selected[i] = u /\ graph.selected[j] = v
    THEN graph.precision[{u, v}] ELSE 0

\* An event edge runs from the lesser to the greater name.
EventWeight(graph, u, v) == IF u < v THEN graph.event[{u, v}] ELSE 0

\* So does a lag edge in the fusion, with the greater of its directed weights.
LagWeight(graph, u, v) ==
    IF u < v THEN Greatest(graph.lag[<<u, v>>], graph.lag[<<v, u>>]) ELSE 0

\* One row for each (parameter_name_u, parameter_name_v) of the outer join.
FusedRow(graph, u, v) ==
    LET p == PrecisionWeight(graph, u, v)
        e == EventWeight(graph, u, v)
        l == LagWeight(graph, u, v)
    IN  [u |-> u, v |-> v, precision |-> p, event |-> e, lag |-> l,
         fused |-> Alpha * p + Beta * e + Gamma * l]
FusedRows(graph) ==
    {row \in {FusedRow(graph, u, v) : u, v \in Parameters} : row.fused > 0}

Ends(row) == {row.u, row.v}
Neighbor(row, p) == IF row.u = p THEN row.v ELSE row.u

Affinity(row) == row.precision + row.lag \div 2 + row.event \div 4

Filtered(rows, minWeight) == {row \in rows : Affinity(row) >= minWeight}

\* The window a parameter's rows are numbered in: affinity first, then the
\* lesser and the greater name.  Two rows of one pair with one affinity are
\* numbered either way, and stand for the same neighbor.
Precedes(a, b) ==
    \/ Affinity(a) > Affinity(b)
    \/ /\ Affinity(a) = Affinity(b)
       /\ \/ Least(a.u, a.v) < Least(b.u, b.v)
          \/ /\ Least(a.u, a.v) = Least(b.u, b.v)
             /\ \/ Greatest(a.u, a.v) < Greatest(b.u, b.v)
                \/ Ends(a) = Ends(b) /\ a.u < b.u

\* As rank() would: rows of one affinity share their number.
RankForTies(rows, p, row) ==
    1 + Cardinality({r \in rows : p \in Ends(r) /\ Affinity(r) > Affinity(row)})

RankFor(rows, p, row) ==
    1 + Cardinality({r \in rows : p \in Ends(r) /\ Precedes(r, row)})

\* The neighbors, with their ranks, among the first topK rows of p.
RetainedRanks(rows, p, topK) ==
    {[neighbor |-> Neighbor(row, p), rank |-> RankFor(rows, p, row)] :
        row \in {r \in rows :
            p \in Ends(r) /\ RankFor(rows, p, r) <= Greatest(topK, 1)}}

\* The ranks with which two parameters keep one another, one pair of ranks
\* for each combination of their rows.
MutualRanks(rows, p, q, topK) ==
    {<<a.rank, b.rank>> :
        a \in {x \in RetainedRanks(rows, p, topK) : x.neighbor = q},
        b \in {x \in RetainedRanks(rows, q, topK) : x.neighbor = p}}

\* Every row of a pair that keeps itself, once for each pair of ranks.
RetainedRows(rows, topK) ==
    UNION {{[min |-> Least(row.u, row.v), max |-> Greatest(row.u, row.v),
             ranks |-> ranks, row |-> row] :
                ranks \in MutualRanks(rows, Least(row.u, row.v),
                                      Greatest(row.u, row.v), topK)} :
           row \in rows}

\* What a profile does not know constrains nothing; constants are numeric.
NormalizedDatatype(datatype) ==
    IF datatype = "constant" THEN "numeric" ELSE datatype
NormalizedFamily(family) == IF family = "mixed_unknown" THEN "" ELSE family

Agree(x, y) == x = "" \/ y = "" \/ x = y
IsCompatible(profile, p, q) ==
    /\ Agree(NormalizedDatatype(profile[p].datatype),
             NormalizedDatatype(profile[q].datatype))
    /\ Agree(NormalizedFamily(profile[p].family),
             NormalizedFamily(profile[q].family))

\* hierarchy_edge_evidence: the retained rows two like parameters share.
EvidenceRows(retained, profile) ==
    {x \in retained : IsCompatible(profile, x.min, x.max)}

\* The edges modules are formed of, and the edges they are rolled up over.
ModuleEdges(evidence) ==
    {[left |-> x.min, right |-> x.max, weight |-> Affinity(x.row)] :
        x \in evidence}
RollupEdges(rows) ==
    {[left |-> row.u, right |-> row.v, weight |-> row.fused] : row \in rows}

\* The average weight of the edges between each two groups.
Between(edges, groupOf, a, b) ==
    {e \in edges : {groupOf[e.left], groupOf[e.right]} = {a, b}}
Average(edges) ==
    MapThenSumSet(LAMBDA e : e.weight, edges) \div Cardinality(edges)
\* As if the edges of the level below were kept.
RollupUngrouped(edges, groupOf) ==
    {e \in edges : groupOf[e.left] # groupOf[e.right]}

Rollup(edges, groupOf) ==
    {[left |-> Least(pair[1], pair[2]), right |-> Greatest(pair[1], pair[2]),
      weight |-> Average(Between(edges, groupOf, pair[1], pair[2]))] :
        pair \in {<<groupOf[e.left], groupOf[e.right]>> : e \in
                    {x \in edges : groupOf[x.left] # groupOf[x.right]}}}

\* Groups are numbered by size, the largest first, then by first member.
ComesBefore(b, c) ==
    \/ Cardinality(b) > Cardinality(c)
    \/ Cardinality(b) = Cardinality(c) /\ Min(b) < Min(c)
GroupIds(groups) ==
    [x \in UNION groups |->
        LET own == CHOOSE c \in groups : x \in c
        IN  1 + Cardinality({b \in groups : ComesBefore(b, own)})]
=============================================================================
