--------------------------- MODULE MCHierarchyFit ---------------------------
(***************************************************************************)
(* HierarchyFit over every graph of up to MaxPairs related pairs.            *)
(***************************************************************************)
EXTENDS HierarchyFit

CONSTANTS
    MaxPairs    \* how many pairs of parameters have evidence

\* A weight that the averages of up to eight rows, the averages of four of
\* those, and the quarters of a threshold divide.
Unit == 10080

\* The evidence of a pair: precision, event, lag up and lag down.
None == <<0, 0, 0, 0>>
Evidence == {<<1, 0, 0, 0>>, <<0, 2, 0, 1>>, <<1, 4, 1, 0>>}

MCGraph(order, f) ==
    [selected |-> order,
     precision |-> [s \in Unordered |-> Unit * f[s][1]],
     event |-> [s \in Unordered |-> Unit * f[s][2]],
     lag |-> [d \in Parameters \X Parameters |->
                IF d[1] = d[2] THEN 0
                ELSE Unit * f[{d[1], d[2]}][IF d[1] < d[2] THEN 3 ELSE 4]]]

\* The backbone's order is that of the names, or another, without one.
MCGraphs ==
    {MCGraph(order, f) :
        order \in {<<1, 2, 3, 4>>, <<4, 2, 1>>},
        f \in {g \in [Unordered -> Evidence \cup {None}] :
                Cardinality({s \in Unordered : g[s] # None}) <= MaxPairs}}

Unprofiled == [p \in Parameters |-> [datatype |-> "", family |-> ""]]
Profiled ==
    [p \in Parameters |->
        CASE p = 1 -> [datatype |-> "numeric", family |-> "mixed_unknown"]
          [] p = 2 -> [datatype |-> "constant", family |-> "held"]
          [] p = 3 -> [datatype |-> "numeric", family |-> "cyclic"]
          [] OTHER -> [datatype |-> "discrete", family |-> ""]]

MCSettings(topK, minWeight, subsystem, system, maxEdges, profile) ==
    [topK |-> topK, minWeight |-> Unit * minWeight, subsystem |-> subsystem,
     system |-> system, maxEdges |-> maxEdges, profile |-> profile]

\* The defaults; the defaults with profiles; explicit thresholds; a top-k
\* that is raised to one, with a bound that small graphs exceed.
MCSettingsChoices ==
    {MCSettings(2, 1, NotSet, NotSet, 8, Unprofiled),
     MCSettings(3, 1, NotSet, NotSet, 8, Profiled),
     MCSettings(1, 1, 5 * Unit, 2 * Unit, 8, Profiled),
     MCSettings(0, 1, 4 * Unit, NotSet, 1, Unprofiled)}
=============================================================================
