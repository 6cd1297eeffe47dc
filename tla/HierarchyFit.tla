---------------------------- MODULE HierarchyFit ----------------------------
(***************************************************************************)
(* Stages 50 and 60: the fusion of the graphs, and GraphHierarchy's          *)
(* from_fused_spark, which groups the parameters into modules, the modules   *)
(* into subsystems and those into systems, each time by union-find over      *)
(* edges that Spark collects in no particular order.                         *)
(***************************************************************************)
EXTENDS PandasHierarchy, UnionFind

CONSTANTS
    Graphs,             \* the component graphs a run may have built
    SettingsChoices     \* the hierarchy settings and profiles it may have

\* The backbone selects a sensor once; absent edges have a weight of 0.
ASSUME FitAssumption ==
    /\ \A g \in Graphs :
        /\ g.selected \in Seq(Parameters)
        /\ \A i, j \in DOMAIN g.selected :
              g.selected[i] = g.selected[j] => i = j
        /\ {g.precision, g.event} \subseteq [Unordered -> Nat]
        /\ g.lag \in [Parameters \X Parameters -> Nat]
    /\ \A s \in SettingsChoices :
        {s.minWeight, s.topK, s.subsystem, s.system, s.maxEdges} \subseteq Int

VARIABLES
    graph,      \* the precision, event and lag edges of stage 50
    settings,   \* thresholds, top-k, the bound on the edges, and profiles
    status,     \* "components" | "fused" | a level | "done" | "refused"
    fused,      \* fused_graph
    evidence,   \* hierarchy_edge_evidence
    threshold,  \* min_edge_weight of the level being grouped
    pending,    \* its edges not yet looked at
    between,    \* the edges the next level is rolled up over
    parent, rank,   \* the disjoint sets of the level
    groupOf     \* the finished levels: the group number of each node

vars == <<graph, settings, status, fused, evidence, threshold, pending,
          between, parent, rank, groupOf>>

Levels == {"module", "subsystem", "system"}
LevelAbove(level) == IF level = "module" THEN "subsystem" ELSE "system"

\* A threshold that is not set is three quarters of the one below.
NotSet == -1
\* As if the factor raised the threshold.
SubsystemThresholdAbove ==
    IF settings.subsystem # NotSet THEN settings.subsystem
    ELSE (settings.minWeight * 4) \div 3

SubsystemThreshold ==
    IF settings.subsystem # NotSet THEN settings.subsystem
    ELSE Greatest((settings.minWeight * 3) \div 4, 1)
SystemThreshold ==
    IF settings.system # NotSet THEN settings.system
    ELSE Greatest((SubsystemThreshold * 3) \div 4, 1)
ThresholdAbove(level) ==
    IF level = "module" THEN SubsystemThreshold ELSE SystemThreshold

Init ==
    /\ graph \in Graphs
    /\ settings \in SettingsChoices
    /\ status = "components"
    /\ fused = {} /\ evidence = {}
    /\ threshold = 0 /\ pending = {} /\ between = {}
    /\ parent = Alone({}) /\ rank = Flat({})
    /\ groupOf = <<>>

\* Stage 50 joins the component graphs.
FuseGraph ==
    /\ status = "components"
    /\ fused' = FusedRows(graph)
    /\ status' = "fused"
    /\ UNCHANGED <<graph, settings, evidence, threshold, pending, between,
                   parent, rank, groupOf>>

\* A level starts with every node on its own.
Group(nodes, edges, minWeight) ==
    /\ parent' = Alone(nodes)
    /\ rank' = Flat(nodes)
    /\ pending' = edges
    /\ threshold' = minWeight

\* A level with too many edges ends the stage before anything is written.
Refuse ==
    /\ status' = "refused"
    /\ UNCHANGED <<parent, rank, pending, threshold, between>>

\* Stage 60 prunes the fused rows.  No rows at all are grouped likewise.
RetainEdges ==
    LET rows == Filtered(fused, settings.minWeight)
        retained == RetainedRows(rows, settings.topK)
    IN  /\ status = "fused"
        /\ IF Cardinality(retained) > settings.maxEdges
           THEN Refuse /\ UNCHANGED evidence
           ELSE /\ evidence' = EvidenceRows(retained, settings.profile)
                /\ Group(Parameters, ModuleEdges(evidence'),
                         settings.minWeight)
                /\ between' = RollupEdges(rows)
                /\ status' = "module"
        /\ UNCHANGED <<graph, settings, fused, groupOf>>

\* As if an edge had to be stronger than the threshold.
JoinsAbove(e) ==
    /\ e.left # e.right
    /\ e.left \in DOMAIN parent /\ e.right \in DOMAIN parent
    /\ e.weight > threshold

\* The edges whose ends are united.
Joins(e) ==
    /\ e.left # e.right
    /\ e.left \in DOMAIN parent /\ e.right \in DOMAIN parent
    /\ e.weight >= threshold

\* One turn of the loop over the edges.
Take(e) ==
    /\ pending' = pending \ {e}
    /\ IF ~Joins(e) THEN UNCHANGED <<parent, rank>>
       ELSE IF Root(parent, e.left) = Root(parent, e.right)
            THEN /\ parent' = Found(parent, e.left, e.right)
                 /\ UNCHANGED rank
            ELSE /\ parent' = Linked(parent, rank, e.left, e.right)
                 /\ rank' = Raised(parent, rank, e.left, e.right)
    /\ UNCHANGED <<graph, settings, status, fused, evidence, threshold,
                   between, groupOf>>
TakeAny == status \in Levels /\ \E e \in pending : Take(e)

\* The groups of a finished level are numbered and become the nodes of the
\* next, unless too many edges run between them.
Numbered == GroupIds(Classes(parent))
Climb ==
    LET up == Rollup(between, Numbered)
        ids == {Numbered[x] : x \in DOMAIN Numbered}
    IN  /\ status \in Levels \ {"system"} /\ pending = {}
        /\ IF Cardinality(up) > settings.maxEdges
           THEN Refuse /\ UNCHANGED groupOf
           ELSE /\ groupOf' = Append(groupOf, Numbered)
                /\ Group(ids, up, ThresholdAbove(status))
                /\ between' = up
                /\ status' = LevelAbove(status)
        /\ UNCHANGED <<graph, settings, fused, evidence>>

\* The three levels are written down.
Finish ==
    /\ status = "system" /\ pending = {}
    /\ groupOf' = Append(groupOf, Numbered)
    /\ status' = "done"
    /\ UNCHANGED <<graph, settings, fused, evidence, threshold, pending,
                   between, parent, rank>>

Next == FuseGraph \/ RetainEdges \/ TakeAny \/ Climb \/ Finish

Spec == Init /\ [][Next]_vars
-----------------------------------------------------------------------------
(* Type invariant: the sets are a forest over the nodes of the level, and    *)
(* every edge to be taken has its ends among them.                           *)
Edges(nodes) == [left : nodes, right : nodes, weight : Nat]
TypeOK ==
    /\ status \in Levels \cup {"components", "fused", "done", "refused"}
    /\ parent \in [DOMAIN parent -> DOMAIN parent]
    /\ rank \in [DOMAIN parent -> Nat]
    /\ pending \subseteq Edges(DOMAIN parent)
    /\ \A row \in fused : Ends(row) \in Unordered
    /\ Len(groupOf) <= 3

\* Every link leads to a node of a higher rank, so that each find ends at a
\* root, whatever was united and compressed before (hierarchy.py:15-40).
LinksClimb ==
    \A x \in DOMAIN parent : parent[x] # x => rank[x] < rank[parent[x]]

\* Path compression and union by rank implement the joining of blocks
\* (hierarchy.py:15-52), at each of the three levels.
P == INSTANCE Partition WITH nodes <- DOMAIN parent,
                             blocks <- Classes(parent)
ImplementsPartition == P!Spec

\* hierarchy_sensor_map: the module, subsystem and system of a parameter.
HierarchyOf(p) ==
    LET module == groupOf[1][p]
        subsystem == groupOf[2][module]
    IN  <<groupOf[3][subsystem], subsystem, module>>

\* The hierarchy does not depend on the order in which Spark collects the
\* edges, and is the one the pandas builder, which the integration tests
\* use, computes from connected components
\* (hierarchy_artifacts.py:114-219 against 221-566).  A pair that the fusion
\* left in one row has the same ranks in both, too.
BuildersAgree ==
    status = "done" =>
        LET rows == Filtered(fused, settings.minWeight)
            retained ==
                RetainedEdgeRows(rows, settings.topK, settings.profile)
            Single(x) == Cardinality(
                {r \in rows : Ends(r) = {x.min, x.max}}) = 1
        IN  /\ Assigned(rows, retained, settings.minWeight,
                    SubsystemThreshold, SystemThreshold)
                = [p \in Parameters |-> HierarchyOf(p)]
            /\ {x.row : x \in evidence} = {x.row : x \in retained}
            /\ {x \in evidence : Single(x)} = {x \in retained : Single(x)}

\* hierarchy_edge_evidence describes the retained set that the modules were
\* formed of (docs/design/graph_hierarchy_design.md:73): the modules are what
\* its rows connect, no row runs between two of them, and each end of a row
\* ranks the other within the first k.
EvidenceFormsModules ==
    Len(groupOf) > 0 =>
        /\ \A x \in evidence :
            /\ groupOf[1][x.min] = groupOf[1][x.max]
            /\ x.ranks \in (1..Greatest(settings.topK, 1))
                            \X (1..Greatest(settings.topK, 1))
        /\ \A S \in SUBSET Parameters :
            (\A x \in evidence : x.min \in S <=> x.max \in S)
                => \A p \in S, q \in Parameters \ S :
                        groupOf[1][p] # groupOf[1][q]

\* With thresholds that are not set, every edge between two modules joins
\* them: the subsystems are what the filtered rows connect, and every
\* subsystem is a system of its own (hierarchy_artifacts.py:439-499).
DefaultsCollapse ==
    status = "done" /\ settings.subsystem = NotSet /\ settings.system = NotSet
        => /\ \A p, q \in Parameters :
                HierarchyOf(p)[1] = HierarchyOf(q)[1]
                    <=> HierarchyOf(p)[2] = HierarchyOf(q)[2]
           /\ \A row \in Filtered(fused, settings.minWeight) :
                HierarchyOf(row.u)[2] = HierarchyOf(row.v)[2]

\* Fusion combines the component weights of a pair
\* (docs/design/graph_hierarchy_design.md:46): one row, whatever the graphs.
FusionCombinesComponents ==
    \A a, b \in fused : Ends(a) = Ends(b) => a = b
=============================================================================
