-------------------------- MODULE MCPhaseAssignment --------------------------
(***************************************************************************)
(* Instances of PhaseAssignment: pairs of flights of up to three windows    *)
(* with three phases, with a quiet stretch or without, a flight with one    *)
(* phase, and flights of five windows with four phases, whose decoded paths *)
(* have up to two short interior runs, alone and next to each other.        *)
(***************************************************************************)
EXTENDS PhaseAssignment

CONSTANTS k1, k2

MCKeys == {k1, k2}

\* Windows near phase 0, phase 1 and phase 2.
MCVectors ==
    {(0 :> 0 @@ 1 :> 4 @@ 2 :> 8), (0 :> 4 @@ 1 :> 0 @@ 2 :> 4), (0 :> 8 @@ 1 :> 4 @@ 2 :> 0)}

MCTimes == {<<0>>, <<0, 1>>, <<0, 1, 2>>, <<0, 1, 9>>}

\* Costs of a window at x: distances to four centroids on a line.
Distance(x, c) == IF x > c THEN x - c ELSE c - x
CostsAt(x) == (0 :> x) @@ (1 :> Distance(x, 5)) @@ (2 :> Distance(x, 6)) @@ (3 :> Distance(x, 16))

MCFourPhases ==
    {[ts |-> [n \in 1..5 |-> n - 1],
      costs |-> <<CostsAt(0), CostsAt(5), CostsAt(y), CostsAt(z), CostsAt(16)>>] :
     y \in {5, 6}, z \in {5, 6, 16}}

MCFlights ==
    {[ts |-> <<0, 1>>, costs |-> [n \in 1..2 |-> (0 :> 1)]]}
      \cup MCFourPhases
      \cup UNION {{[ts |-> ts, costs |-> costs] :
                      costs \in [1..Len(ts) -> MCVectors]} : ts \in MCTimes}
=============================================================================
