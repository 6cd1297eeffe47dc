------------------------------ MODULE MCMinDwell ------------------------------
(***************************************************************************)
(* Instances of MinDwell.  Windows and centroids are points on a line and   *)
(* the cost of a phase is the distance to its centroid, so that the costs   *)
(* obey the triangle inequality as those of the code do.                    *)
(***************************************************************************)
EXTENDS MinDwell

Distance(x, c) == IF x > c THEN x - c ELSE c - x
CostsAt(centroids, x) == [p \in 0..(Len(centroids) - 1) |-> Distance(x, centroids[p + 1])]

\* Flights that begin at the first centroid and end at the last one, with
\* `edge' windows at each, and `inner' windows anywhere between.
FlightsOver(centroids, edge, inner, points) ==
    {[n \in 1..(2 * edge + inner) |->
        CostsAt(centroids,
                IF n <= edge THEN centroids[1]
                ELSE IF n > edge + inner THEN centroids[Len(centroids)]
                ELSE middle[n - edge])] :
     middle \in [1..inner -> points]}

MCSelfFitted == FlightsOver(<<0, 5, 6, 11>>, 7, 2, {0, 5, 6, 11})
=============================================================================
