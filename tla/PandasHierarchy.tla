-------------------------- MODULE PandasHierarchy --------------------------
(***************************************************************************)
(* GraphHierarchy.from_fused, the pandas builder with which the integration  *)
(* tests group parameters, and the three levels as what they are meant to    *)
(* be: connected components.                                                 *)
(***************************************************************************)
EXTENDS GraphEvidence

\* What can be reached from x over the edges that are strong enough.
Component(nodes, edges, minWeight, x) ==
    LET strong == {e \in edges : e.weight >= minWeight}
        Step(S) == S \cup {e.right : e \in {d \in strong : d.left \in S}}
                     \cup {e.left : e \in {d \in strong : d.right \in S}}
        reached[n \in 0..Cardinality(nodes)] ==
            IF n = 0 THEN {x} ELSE Step(reached[n - 1])
    IN  reached[Cardinality(nodes)]
Components(nodes, edges, minWeight) ==
    {Component(nodes, edges, minWeight, x) : x \in nodes}

\* The position of a row among those of p, sorted by affinity and neighbor.
SortedBefore(p, a, b) ==
    \/ Affinity(a) > Affinity(b)
    \/ /\ Affinity(a) = Affinity(b)
       /\ \/ Neighbor(a, p) < Neighbor(b, p)
          \/ Neighbor(a, p) = Neighbor(b, p) /\ a.u < b.u
Position(rows, p, row) ==
    1 + Cardinality({r \in rows : p \in Ends(r) /\ SortedBefore(p, r, row)})

KeptNeighbors(rows, p, topK) ==
    {Neighbor(r, p) : r \in {x \in rows :
        p \in Ends(x) /\ Position(rows, p, x) <= Greatest(topK, 1)}}

\* The rank of a neighbor is overwritten by each of its rows, the last wins.
NeighborRank(rows, p, q) ==
    Max({Position(rows, p, r) : r \in {x \in rows : Ends(x) = {p, q}}})

RetainedEdgeRows(rows, topK, profile) ==
    {[min |-> Least(r.u, r.v), max |-> Greatest(r.u, r.v), row |-> r,
      ranks |-> <<NeighborRank(rows, Least(r.u, r.v), Greatest(r.u, r.v)),
                  NeighborRank(rows, Greatest(r.u, r.v), Least(r.u, r.v))>>] :
        r \in {x \in rows : /\ x.v \in KeptNeighbors(rows, x.u, topK)
                            /\ x.u \in KeptNeighbors(rows, x.v, topK)
                            /\ IsCompatible(profile, x.u, x.v)}}

\* assign_hierarchy_from_weighted_edges: <<system, subsystem, module>> of
\* each parameter.
Assigned(rows, retained, minWeight, subsystemWeight, systemWeight) ==
    LET modules == GroupIds(Components(Parameters,
            {[left |-> x.row.u, right |-> x.row.v,
              weight |-> Affinity(x.row)] : x \in retained}, minWeight))
        moduleEdges == Rollup(RollupEdges(rows), modules)
        subsystems == GroupIds(Components({modules[p] : p \in Parameters},
                                          moduleEdges, subsystemWeight))
        systemNodes == {subsystems[m] : m \in DOMAIN subsystems}
        systems == GroupIds(Components(systemNodes,
                        Rollup(moduleEdges, subsystems), systemWeight))
    IN  [p \in Parameters |-> <<systems[subsystems[modules[p]]],
                                subsystems[modules[p]], modules[p]>>]
=============================================================================
