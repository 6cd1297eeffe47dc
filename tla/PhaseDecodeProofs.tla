-------------------------- MODULE PhaseDecodeProofs --------------------------
(***************************************************************************)
(* For every segmentation policy, every set of flights and any costs: the   *)
(* carry of an unbroken flight holds the cheapest monotone path into each   *)
(* phase, and the phases the flight is assigned are an optimal path.  For   *)
(* every path and limit: the passes of MinDwell merge runs of equal phases, *)
(* unless short runs are neighbours.                                        *)
(***************************************************************************)
EXTENDS PhaseDecode, FiniteSetTheorems, TLAPS

Advance == INSTANCE FoldLemmas WITH Op <- LAMBDA ctx, acc, cost : AdvanceWindow(acc, cost)

\* The penalty of a move, apart from what is assumed about the flights.
LEMMA PenaltyIsInt == TransitionPenalty \in Int
  BY PhaseFlightsAssumption

\* What window n adds to the cost of a path.
StepCost(C, path, n) ==
    C[n][path[n]]
      + (IF n > 1 /\ path[n] # path[n - 1] THEN TransitionPenalty ELSE 0)

Adding == INSTANCE FoldLemmas WITH
            Op <- LAMBDA ctx, total, n : total + StepCost(ctx[1], ctx[2], n)

\* The costs of windows with the phases 0 to m.
Vectors(m) == [0..m -> Int]

-----------------------------------------------------------------------------
(* The cost of a path.                                                      *)

\* The cost of a path is the sum of the costs of its windows (PathCost).
LEMMA CostRuns ==
    ASSUME NEW m \in Nat, NEW C \in Seq(Vectors(m)), NEW path
    PROVE  \E run : /\ run[0] = 0
                    /\ \A i \in 1..Len(C) : run[i] = run[i - 1] + StepCost(C, path, i)
                    /\ PathCost(C, path) = run[Len(C)]
<1> DEFINE rows == [n \in DOMAIN C |-> n]
<1>1. rows \in Seq(Nat) /\ Len(rows) = Len(C) /\ \A i \in 1..Len(C) : rows[i] = i
  OBVIOUS
<1> HIDE DEF rows
<1>2. PICK run : /\ Adding!Runs(<<C, path>>, 0, rows, run)
                 /\ Adding!Fold(<<C, path>>, 0, rows) = run[Len(rows)]
  BY <1>1, Adding!FoldRuns
<1>3. PathCost(C, path) = Adding!Fold(<<C, path>>, 0, rows)
  BY DEF PathCost, StepCost, rows, FoldLeft, MapThenFoldSet, Max,
         Adding!Fold, Adding!FoldLeft, Adding!MapThenFoldSet, Adding!Max
<1>4. ASSUME NEW i \in 1..Len(C)
      PROVE  run[i] = run[i - 1] + StepCost(C, path, i)
  BY <1>1, <1>2 DEF Adding!Runs
<1>5. QED
  BY <1>1, <1>2, <1>3, <1>4 DEF Adding!Runs

\* The cost of a path of one window.
LEMMA CostOfOne ==
    ASSUME NEW m \in Nat, NEW C \in Seq(Vectors(m)), Len(C) = 1,
           NEW path, path[1] \in 0..m
    PROVE  PathCost(C, path) = C[1][path[1]]
<1>1. C[1] \in Vectors(m)
  OBVIOUS
<1>2. C[1][path[1]] \in Int
  BY <1>1 DEF Vectors
<1>3. PICK run : /\ run[0] = 0
                 /\ \A i \in 1..Len(C) : run[i] = run[i - 1] + StepCost(C, path, i)
                 /\ PathCost(C, path) = run[Len(C)]
  BY CostRuns
<1>4. 1 \in 1..Len(C) /\ 1 - 1 = 0
  OBVIOUS
<1>5. run[1] = 0 + StepCost(C, path, 1)
  BY <1>3, <1>4
<1>6. StepCost(C, path, 1) = C[1][path[1]]
  BY <1>2 DEF StepCost
<1>7. QED
  BY <1>2, <1>3, <1>5, <1>6

\* Costs D and path q are one window longer than costs C and path p.
Extends(m, C, p, D, q) ==
    /\ Len(D) = Len(C) + 1
    /\ \A i \in 1..Len(C) : D[i] = C[i] /\ p[i] \in 0..m /\ q[i] = p[i]

\* A window more adds its cost to that of the path before it.
LEMMA CostExtends ==
    ASSUME NEW m \in Nat, NEW C \in Seq(Vectors(m)), NEW D \in Seq(Vectors(m)),
           NEW p, NEW q, Extends(m, C, p, D, q)
    PROVE  /\ PathCost(C, p) \in Int
           /\ PathCost(D, q) = PathCost(C, p) + StepCost(D, q, Len(D))
<1> USE DEF Extends
<1>1. PICK r : /\ r[0] = 0
               /\ \A i \in 1..Len(C) : r[i] = r[i - 1] + StepCost(C, p, i)
               /\ PathCost(C, p) = r[Len(C)]
  BY CostRuns
<1>2. PICK s : /\ s[0] = 0
               /\ \A i \in 1..Len(D) : s[i] = s[i - 1] + StepCost(D, q, i)
               /\ PathCost(D, q) = s[Len(D)]
  BY CostRuns
<1> DEFINE T == {i \in Nat : i <= Len(C) => r[i] \in Int /\ s[i] = r[i]}
<1>3. 0 \in T
  BY <1>1, <1>2
<1>4. ASSUME NEW i \in Nat, i \in T
      PROVE  i + 1 \in T
  <2>1. SUFFICES ASSUME i + 1 <= Len(C)
                 PROVE  r[i + 1] \in Int /\ s[i + 1] = r[i + 1]
    OBVIOUS
  <2>2. i + 1 \in 1..Len(C) /\ i + 1 \in 1..Len(D) /\ (i + 1) - 1 = i
    BY <2>1
  <2>3. r[i] \in Int /\ s[i] = r[i]
    BY <1>4, <2>1
  <2>4. r[i + 1] = r[i] + StepCost(C, p, i + 1) /\ s[i + 1] = s[i] + StepCost(D, q, i + 1)
    BY <1>1, <1>2, <2>2
  <2>5. StepCost(D, q, i + 1) = StepCost(C, p, i + 1)
    <3>1. D[i + 1] = C[i + 1] /\ q[i + 1] = p[i + 1]
      BY <2>2
    <3>2. i + 1 > 1 => q[(i + 1) - 1] = p[(i + 1) - 1]
      BY <2>2
    <3>3. QED
      BY <3>1, <3>2 DEF StepCost
  <2>6. StepCost(C, p, i + 1) \in Int
    <3>1. C[i + 1] \in Vectors(m) /\ p[i + 1] \in 0..m
      BY <2>2
    <3>2. C[i + 1][p[i + 1]] \in Int
      BY <3>1 DEF Vectors
    <3>3. QED
      BY <3>2, PenaltyIsInt DEF StepCost
  <2>7. QED
    BY <2>3, <2>4, <2>5, <2>6
<1>5. Nat \subseteq T
  <2> HIDE DEF T
  <2>1. QED
    BY <1>3, <1>4, Adding!Induction
<1>6. r[Len(C)] \in Int /\ s[Len(C)] = r[Len(C)]
  <2>1. Len(C) \in T
    BY <1>5
  <2>2. QED
    BY <2>1
<1>7. s[Len(D)] = s[Len(C)] + StepCost(D, q, Len(D))
  <2>1. Len(D) \in 1..Len(D) /\ Len(D) - 1 = Len(C)
    OBVIOUS
  <2>2. QED
    BY <1>2, <2>1
<1>8. QED
  BY <1>1, <1>2, <1>6, <1>7

-----------------------------------------------------------------------------
(* The accumulator.                                                         *)

\* Accumulator acc holds, for every phase, the cheapest monotone path through
\* the first d windows that ends in it, and the cost of that path.
Cheapest(acc, C, m, d) ==
    LET done == SubSeq(C, 1, d)
    IN  /\ acc.score \in [0..m -> Int]
        /\ DOMAIN acc.path = 0..m
        /\ \A p \in 0..m :
              /\ acc.path[p] \in MonotonePaths(done)
              /\ acc.path[p][d] = p
              /\ PathCost(done, acc.path[p]) = acc.score[p]
              /\ \A other \in MonotonePaths(done) :
                    other[d] = p => acc.score[p] <= PathCost(done, other)

\* The first windows of a flight.
LEMMA PrefixIs ==
    ASSUME NEW m \in Nat, NEW C \in Seq(Vectors(m)), NEW d \in 0..Len(C)
    PROVE  /\ SubSeq(C, 1, d) \in Seq(Vectors(m))
           /\ Len(SubSeq(C, 1, d)) = d
           /\ \A i \in 1..d : SubSeq(C, 1, d)[i] = C[i]
           /\ d > 0 => Phases(SubSeq(C, 1, d)) = 0..m
<1>1. /\ SubSeq(C, 1, d) \in Seq(Vectors(m))
      /\ Len(SubSeq(C, 1, d)) = d
      /\ \A i \in 1..d : SubSeq(C, 1, d)[i] = C[i]
  OBVIOUS
<1>2. ASSUME d > 0
      PROVE  Phases(SubSeq(C, 1, d)) = 0..m
  <2>1. C[1] \in Vectors(m) /\ SubSeq(C, 1, d)[1] = C[1]
    BY <1>1, <1>2
  <2>2. DOMAIN C[1] = 0..m
    BY <2>1 DEF Vectors
  <2>3. QED
    BY <2>1, <2>2 DEF Phases
<1>3. QED
  BY <1>1, <1>2

\* A monotone path through the first windows (PhaseTransitionModel).
LEMMA PathsAre ==
    ASSUME NEW m \in Nat, NEW C \in Seq(Vectors(m)), NEW d \in 1..Len(C), NEW path
    PROVE  path \in MonotonePaths(SubSeq(C, 1, d)) <=>
             /\ path \in [1..d -> 0..m]
             /\ \A n \in 1..(d - 1) : path[n + 1] - path[n] \in {0, 1}
<1>1. Len(SubSeq(C, 1, d)) = d /\ Phases(SubSeq(C, 1, d)) = 0..m
  BY PrefixIs
<1>2. QED
  BY <1>1 DEF MonotonePaths

\* The first window starts every phase at its own cost (FirstWindow).
LEMMA FirstIsCheapest ==
    ASSUME NEW m \in Nat, NEW C \in Seq(Vectors(m)), Len(C) > 0
    PROVE  Cheapest(FirstWindow(C[1]), C, m, 1)
<1> DEFINE acc == FirstWindow(C[1])
           done == SubSeq(C, 1, 1)
<1>1. C[1] \in [0..m -> Int]
  BY DEF Vectors
<1>2. 1 \in 0..Len(C) /\ 1 \in 1..Len(C)
  OBVIOUS
<1>3. done \in Seq(Vectors(m)) /\ Len(done) = 1 /\ done[1] = C[1]
  BY <1>2, PrefixIs
<1>4. acc.score = C[1] /\ DOMAIN acc.path = 0..m /\ \A p \in 0..m : acc.path[p] = <<p>>
  BY <1>1 DEF FirstWindow
<1> HIDE DEF acc, done
<1>5. ASSUME NEW path, path[1] \in 0..m
      PROVE  PathCost(done, path) = C[1][path[1]]
  BY <1>3, <1>5, CostOfOne
<1>6. ASSUME NEW p \in 0..m
      PROVE  /\ acc.path[p] \in MonotonePaths(done)
             /\ acc.path[p][1] = p
             /\ PathCost(done, acc.path[p]) = acc.score[p]
             /\ \A other \in MonotonePaths(done) :
                   other[1] = p => acc.score[p] <= PathCost(done, other)
  <2>1. acc.path[p] = <<p>> /\ <<p>>[1] = p /\ <<p>> \in [1..1 -> 0..m]
    BY <1>4
  <2>2. acc.path[p] \in MonotonePaths(done)
    <3>1. \A n \in 1..(1 - 1) : <<p>>[n + 1] - <<p>>[n] \in {0, 1}
      OBVIOUS
    <3>2. <<p>> \in MonotonePaths(SubSeq(C, 1, 1))
      BY ONLY <1>2, <2>1, <3>1, PathsAre, m \in Nat, C \in Seq(Vectors(m))
    <3>3. QED
      BY <2>1, <3>2 DEF done
  <2>3. C[1][p] \in Int
    BY <1>1
  <2>4. QED
    BY <1>4, <1>5, <2>1, <2>2, <2>3
<1>7. QED
  BY <1>1, <1>4, <1>6 DEF Cheapest, acc, done

\* A path through d + 1 windows is one through d windows and a last step.
LEMMA PathSplits ==
    ASSUME NEW m \in Nat, NEW C \in Seq(Vectors(m)), NEW d \in 1..(Len(C) - 1),
           NEW other \in MonotonePaths(SubSeq(C, 1, d + 1))
    PROVE  \E before \in MonotonePaths(SubSeq(C, 1, d)) :
             /\ before[d] = other[d]
             /\ other[d + 1] - other[d] \in {0, 1}
             /\ PathCost(SubSeq(C, 1, d), before) \in Int
             /\ PathCost(SubSeq(C, 1, d + 1), other) =
                   PathCost(SubSeq(C, 1, d), before)
                     + StepCost(SubSeq(C, 1, d + 1), other, d + 1)
<1> DEFINE D == SubSeq(C, 1, d)
           E == SubSeq(C, 1, d + 1)
           before == [n \in 1..d |-> other[n]]
<1>1. d \in 0..Len(C) /\ d + 1 \in 0..Len(C) /\ d \in 1..Len(C) /\ d + 1 \in 1..Len(C)
  OBVIOUS
<1>2. /\ D \in Seq(Vectors(m)) /\ Len(D) = d /\ \A i \in 1..d : D[i] = C[i]
      /\ E \in Seq(Vectors(m)) /\ Len(E) = d + 1 /\ \A i \in 1..(d + 1) : E[i] = C[i]
  BY <1>1, PrefixIs
<1>3. /\ other \in [1..(d + 1) -> 0..m]
      /\ \A n \in 1..((d + 1) - 1) : other[n + 1] - other[n] \in {0, 1}
  BY <1>1, PathsAre
<1>4. before \in [1..d -> 0..m] /\ \A n \in 1..(d - 1) : before[n + 1] - before[n] \in {0, 1}
  <2>1. before \in [1..d -> 0..m]
    BY <1>3
  <2>2. ASSUME NEW n \in 1..(d - 1)
        PROVE  before[n + 1] - before[n] \in {0, 1}
    <3>1. n \in 1..d /\ n + 1 \in 1..d /\ n \in 1..((d + 1) - 1)
      OBVIOUS
    <3>2. other[n + 1] - other[n] \in {0, 1}
      BY <1>3, <3>1
    <3>3. QED
      BY <3>1, <3>2
  <2>3. QED
    BY <2>1, <2>2
<1>5. before \in MonotonePaths(D)
  <2> HIDE DEF before
  <2>1. QED
    BY <1>1, <1>4, PathsAre
<1>6. other[d + 1] - other[d] \in {0, 1} /\ before[d] = other[d]
  BY <1>3
<1>7. \A i \in 1..Len(D) : E[i] = D[i] /\ before[i] \in 0..m /\ other[i] = before[i]
  BY <1>2, <1>3
<1> HIDE DEF D, E, before
<1>8. PathCost(D, before) \in Int /\ PathCost(E, other) = PathCost(D, before) + StepCost(E, other, d + 1)
  <2>1. Extends(m, D, before, E, other)
    BY <1>2, <1>7 DEF Extends
  <2>2. /\ PathCost(D, before) \in Int
        /\ PathCost(E, other) = PathCost(D, before) + StepCost(E, other, Len(E))
    BY <1>2, <2>1, CostExtends
  <2>3. QED
    BY <1>2, <2>2
<1>9. QED
  BY <1>5, <1>6, <1>8 DEF D, E

\* Accumulator next extends the cheaper predecessor of phase p.
Continues(next, acc, cost, m, p) ==
    \E q \in 0..m :
        /\ q = p \/ q = p - 1
        /\ next.path[p] = Append(acc.path[q], p)
        /\ next.score[p] = acc.score[q] + cost[p] + (IF q = p THEN 0 ELSE TransitionPenalty)
        /\ next.score[p] <= acc.score[p] + cost[p]
        /\ p > 0 => next.score[p] <= acc.score[p - 1] + cost[p] + TransitionPenalty

\* NextWindow extends, for every phase, the path of the cheaper of its two
\* possible predecessors, at the penalty if that is the phase before.
LEMMA NextWindowIs ==
    ASSUME NEW m \in Nat, NEW acc, acc.score \in [0..m -> Int],
           NEW cost \in [0..m -> Int], NEW p \in 0..m
    PROVE  Continues(NextWindow(acc, cost), acc, cost, m, p)
<1> DEFINE next == NextWindow(acc, cost)
           stay == acc.score[p] + cost[p]
           move == acc.score[p - 1] + cost[p] + TransitionPenalty
<1>1. stay \in Int /\ stay + 0 = stay
  OBVIOUS
<1>2. p > 0 => p - 1 \in 0..m /\ p - 1 # p /\ move \in Int
  <2>1. SUFFICES ASSUME p > 0 PROVE p - 1 \in 0..m /\ p - 1 # p /\ move \in Int
    OBVIOUS
  <2>2. p - 1 \in 0..m /\ p - 1 # p
    BY <2>1
  <2>3. acc.score[p - 1] \in Int /\ cost[p] \in Int
    BY <2>2
  <2>4. acc.score[p - 1] + cost[p] \in Int
    BY <2>3
  <2>5. move \in Int
    BY <2>4, PenaltyIsInt
  <2>6. QED
    BY <2>2, <2>5
<1>3. /\ next.score[p] = IF p > 0 /\ move < stay THEN move ELSE stay
      /\ next.path[p] = Append(acc.path[IF p > 0 /\ move < stay THEN p - 1 ELSE p], p)
  BY DEF NextWindow, MovesInto, MoveScore, StayScore
<1> HIDE DEF next, move, stay
<1>4. CASE p > 0 /\ move < stay
  <2>1. next.score[p] = move /\ next.path[p] = Append(acc.path[p - 1], p)
    BY <1>3, <1>4
  <2>2. next.score[p] <= stay /\ next.score[p] <= move
    BY <1>1, <1>2, <1>4, <2>1
  <2>3. QED
    BY <1>2, <1>4, <2>1, <2>2 DEF Continues, next, move, stay
<1>5. CASE ~(p > 0 /\ move < stay)
  <2>1. next.score[p] = stay /\ next.path[p] = Append(acc.path[p], p)
    BY <1>3, <1>5
  <2>2. next.score[p] <= stay /\ (p > 0 => next.score[p] <= move)
    BY <1>1, <1>2, <1>5, <2>1
  <2>3. next.score[p] = acc.score[p] + cost[p] + (IF p = p THEN 0 ELSE TransitionPenalty)
    BY <1>1, <2>1 DEF stay
  <2>4. QED
    BY <2>1, <2>2, <2>3 DEF Continues, next, move, stay
<1>6. QED
  BY <1>4, <1>5

\* Path new through d + 1 windows is path old, which ends in q, and then p.
Grown(C, d, old, q, new, p) ==
    /\ new \in MonotonePaths(SubSeq(C, 1, d + 1))
    /\ new[d + 1] = p
    /\ PathCost(SubSeq(C, 1, d), old) \in Int
    /\ PathCost(SubSeq(C, 1, d + 1), new) =
          PathCost(SubSeq(C, 1, d), old) + C[d + 1][p]
            + (IF q = p THEN 0 ELSE TransitionPenalty)

\* A path through d windows goes on to a window more by staying in its phase
\* or moving on to the next one.
LEMMA PathGrows ==
    ASSUME NEW m \in Nat, NEW C \in Seq(Vectors(m)), NEW d \in 1..(Len(C) - 1),
           NEW old \in MonotonePaths(SubSeq(C, 1, d)), NEW q \in 0..m, old[d] = q,
           NEW p \in 0..m, q = p \/ q = p - 1
    PROVE  Grown(C, d, old, q, Append(old, p), p)
<1> DEFINE D == SubSeq(C, 1, d)
           E == SubSeq(C, 1, d + 1)
           new == Append(old, p)
<1>1. d \in 0..Len(C) /\ d + 1 \in 0..Len(C) /\ d \in 1..Len(C) /\ d + 1 \in 1..Len(C)
  OBVIOUS
<1>2. /\ D \in Seq(Vectors(m)) /\ Len(D) = d /\ \A i \in 1..d : D[i] = C[i]
      /\ E \in Seq(Vectors(m)) /\ Len(E) = d + 1 /\ \A i \in 1..(d + 1) : E[i] = C[i]
  BY <1>1, PrefixIs
<1>3. old \in [1..d -> 0..m] /\ \A n \in 1..(d - 1) : old[n + 1] - old[n] \in {0, 1}
  BY <1>1, PathsAre
<1>4. old \in Seq(0..m) /\ Len(old) = d
  BY <1>1, <1>3
<1>5. new \in Seq(0..m) /\ Len(new) = d + 1 /\ new[d + 1] = p /\ \A n \in 1..d : new[n] = old[n]
  BY <1>4
<1> HIDE DEF D, E, new
<1>6. new \in [1..(d + 1) -> 0..m]
  BY <1>5
<1>7. ASSUME NEW n \in 1..((d + 1) - 1)
      PROVE  new[n + 1] - new[n] \in {0, 1}
  <2>1. CASE n = d
    BY <1>5, <2>1
  <2>2. CASE n # d
    <3>1. n \in 1..(d - 1) /\ n \in 1..d /\ n + 1 \in 1..d
      BY <2>2
    <3>2. QED
      BY <1>3, <1>5, <3>1
  <2>3. QED
    BY <2>1, <2>2
<1>8. new \in MonotonePaths(E)
  BY <1>1, <1>6, <1>7, PathsAre DEF E
<1>9. Extends(m, D, old, E, new)
  <2>1. ASSUME NEW i \in 1..d
        PROVE  E[i] = D[i] /\ old[i] \in 0..m /\ new[i] = old[i]
    <3>1. D[i] = C[i] /\ E[i] = C[i]
      BY <1>2
    <3>2. old[i] \in 0..m /\ new[i] = old[i]
      BY <1>3, <1>5
    <3>3. QED
      BY <3>1, <3>2
  <2>2. QED
    BY <1>2, <2>1 DEF Extends
<1>10. PathCost(D, old) \in Int /\ PathCost(E, new) = PathCost(D, old) + StepCost(E, new, Len(E))
  BY <1>2, <1>9, CostExtends
<1>11. C[d + 1][p] \in Int
  <2>1. C[d + 1] \in Vectors(m)
    BY <1>1
  <2>2. QED
    BY <2>1 DEF Vectors
<1>12. StepCost(E, new, d + 1) = C[d + 1][p] + (IF q = p THEN 0 ELSE TransitionPenalty)
  <2>1. E[d + 1] = C[d + 1] /\ new[d + 1] = p /\ new[(d + 1) - 1] = q /\ d + 1 > 1
    BY <1>1, <1>2, <1>5
  <2>2. QED
    BY <2>1 DEF StepCost
<1>13. PathCost(E, new) = PathCost(D, old) + C[d + 1][p] + (IF q = p THEN 0 ELSE TransitionPenalty)
  BY <1>2, <1>10, <1>11, <1>12, PenaltyIsInt
<1>14. QED
  BY <1>5, <1>8, <1>10, <1>13 DEF Grown, D, E, new

\* The next window leaves the accumulator with the cheapest paths through a
\* window more: the best path into a phase goes on from the best path into one
\* of its two predecessors (NextWindow).
LEMMA NextIsCheapest ==
    ASSUME NEW m \in Nat, NEW C \in Seq(Vectors(m)), NEW d \in 1..(Len(C) - 1),
           NEW acc, Cheapest(acc, C, m, d)
    PROVE  Cheapest(NextWindow(acc, C[d + 1]), C, m, d + 1)
<1> DEFINE D == SubSeq(C, 1, d)
           E == SubSeq(C, 1, d + 1)
           cost == C[d + 1]
           next == NextWindow(acc, cost)
<1>1. d \in 1..Len(C) /\ d + 1 \in 1..Len(C) /\ d + 1 \in 0..Len(C)
  OBVIOUS
<1>2. cost \in [0..m -> Int] /\ acc.score \in [0..m -> Int] /\ TransitionPenalty \in Int
  BY <1>1, PenaltyIsInt DEF Vectors, Cheapest
<1>3. DOMAIN next.score = 0..m /\ DOMAIN next.path = 0..m
      /\ next.score = [p \in 0..m |-> next.score[p]]
  BY <1>2 DEF NextWindow
<1>4. E[d + 1] = cost
  BY <1>1, PrefixIs
<1> HIDE DEF D, E, cost, next
<1>5. ASSUME NEW p \in 0..m
      PROVE  /\ next.score[p] \in Int
             /\ next.path[p] \in MonotonePaths(E)
             /\ next.path[p][d + 1] = p
             /\ PathCost(E, next.path[p]) = next.score[p]
  <2>. Continues(next, acc, cost, m, p)
    BY <1>2, NextWindowIs DEF next
  <2>1. PICK q \in 0..m :
             /\ q = p \/ q = p - 1
             /\ next.path[p] = Append(acc.path[q], p)
             /\ next.score[p] = acc.score[q] + cost[p]
                                  + (IF q = p THEN 0 ELSE TransitionPenalty)
    BY DEF Continues
  <2>2. /\ acc.path[q] \in MonotonePaths(D) /\ acc.path[q][d] = q
        /\ PathCost(D, acc.path[q]) = acc.score[q]
    BY DEF Cheapest, D
  <2>3. /\ next.path[p] \in MonotonePaths(E)
        /\ next.path[p][d + 1] = p
        /\ PathCost(E, next.path[p]) = PathCost(D, acc.path[q]) + cost[p]
                                         + (IF q = p THEN 0 ELSE TransitionPenalty)
    <3>1. PICK old : old = acc.path[q]
      OBVIOUS
    <3>2. old \in MonotonePaths(SubSeq(C, 1, d)) /\ old[d] = q /\ (q = p \/ q = p - 1)
      BY <2>1, <2>2, <3>1 DEF D
    <3>3. Grown(C, d, old, q, Append(old, p), p)
      BY <3>2, PathGrows
    <3>4. QED
      BY <2>1, <3>1, <3>3 DEF Grown, D, E, cost
  <2>4. cost[p] \in Int
    BY <1>2
  <2>5. PathCost(E, next.path[p]) = next.score[p]
    BY <2>1, <2>2, <2>3
  <2>6. acc.score[q] \in Int /\ (IF q = p THEN 0 ELSE TransitionPenalty) \in Int
    BY <1>2
  <2>7. next.score[p] \in Int
    BY <2>1, <2>4, <2>6
  <2>8. QED
    BY <2>3, <2>5, <2>7
<1>6. ASSUME NEW p \in 0..m, NEW other \in MonotonePaths(E), other[d + 1] = p
      PROVE  next.score[p] <= PathCost(E, other)
  <2>1. PICK before \in MonotonePaths(D) :
             /\ before[d] = other[d]
             /\ other[d + 1] - other[d] \in {0, 1}
             /\ PathCost(D, before) \in Int
             /\ PathCost(E, other) = PathCost(D, before) + StepCost(E, other, d + 1)
    BY PathSplits DEF D, E
  <2>2. PICK q : q = before[d]
    OBVIOUS
  <2>3. q \in 0..m
    BY <1>1, <2>2, PathsAre DEF D
  <2>4. acc.score[q] <= PathCost(D, before)
    BY <2>2, <2>3 DEF Cheapest, D
  <2>5. q = p \/ (q = p - 1 /\ p > 0)
    BY <1>6, <2>1, <2>2, <2>3
  <2>6. StepCost(E, other, d + 1) = cost[p] + (IF q = p THEN 0 ELSE TransitionPenalty)
    <3>1. other[(d + 1) - 1] = q /\ d + 1 > 1
      BY <1>1, <2>1, <2>2
    <3>2. QED
      BY <1>4, <1>6, <3>1 DEF StepCost
  <2>7. cost[p] \in Int /\ acc.score[q] \in Int /\ next.score[p] \in Int
    BY <1>2, <1>5, <2>3
  <2>8. /\ next.score[p] <= acc.score[p] + cost[p]
        /\ p > 0 => next.score[p] <= acc.score[p - 1] + cost[p] + TransitionPenalty
    <3>1. Continues(next, acc, cost, m, p)
      BY <1>2, NextWindowIs DEF next
    <3>2. QED
      BY <3>1 DEF Continues
  <2>9. CASE q = p
    <3>1. PathCost(E, other) = PathCost(D, before) + cost[p]
      BY <2>1, <2>6, <2>7, <2>9
    <3>2. next.score[p] <= acc.score[q] + cost[p]
      BY <2>8, <2>9
    <3>3. QED
      BY <2>1, <2>4, <2>7, <3>1, <3>2
  <2>10. CASE q = p - 1 /\ p > 0
    <3>1. q # p
      BY <2>10
    <3>4. StepCost(E, other, d + 1) = cost[p] + TransitionPenalty
      BY <2>6, <3>1
    <3>2. next.score[p] <= acc.score[q] + cost[p] + TransitionPenalty
      BY <2>8, <2>10
    <3>3. PathCost(E, other) = PathCost(D, before) + (cost[p] + TransitionPenalty)
      BY <2>1, <3>4
    <3>5. PathCost(D, before) \in Int
      BY <2>1
    <3>6. QED
      BY <2>4, <2>7, <3>2, <3>3, <3>5, PenaltyIsInt
  <2>11. QED
    BY <2>5, <2>9, <2>10
<1>7. next.score \in [0..m -> Int]
  <2>1. \A p \in 0..m : next.score[p] \in Int
    BY <1>5
  <2>2. QED
    BY <1>3, <2>1
<1>8. QED
  BY <1>3, <1>5, <1>6, <1>7 DEF Cheapest, next, cost, E

\* The accumulator of a flight of whose windows the first d were decoded.
Upto(acc, C, m, d) == IF d = 0 THEN acc = Uninitialized ELSE Cheapest(acc, C, m, d)

\* One window of the aggregate, the first of a flight or a later one (AdvanceWindow).
LEMMA StepIsCheapest ==
    ASSUME NEW m \in Nat, NEW C \in Seq(Vectors(m)), NEW d \in 0..(Len(C) - 1),
           NEW acc, Upto(acc, C, m, d)
    PROVE  Upto(AdvanceWindow(acc, C[d + 1]), C, m, d + 1)
<1>1. CASE d = 0
  <2>1. AdvanceWindow(acc, C[d + 1]) = FirstWindow(C[1])
    BY <1>1 DEF Upto, AdvanceWindow, Uninitialized
  <2>2. Cheapest(FirstWindow(C[1]), C, m, 1)
    BY FirstIsCheapest
  <2>3. QED
    BY <1>1, <2>1, <2>2 DEF Upto
<1>2. CASE d # 0
  <2>1. Cheapest(acc, C, m, d)
    BY <1>2 DEF Upto
  <2>2. DOMAIN acc.score = 0..m /\ 0 \in 0..m
    BY <2>1 DEF Cheapest
  <2>3. acc.score # <<>>
    BY <2>2
  <2>4. AdvanceWindow(acc, C[d + 1]) = NextWindow(acc, C[d + 1])
    BY <2>3 DEF AdvanceWindow
  <2>5. d \in 1..(Len(C) - 1)
    BY <1>2
  <2>6. Cheapest(NextWindow(acc, C[d + 1]), C, m, d + 1)
    BY <2>1, <2>5, NextIsCheapest
  <2>7. QED
    BY <2>4, <2>5, <2>6 DEF Upto
<1>3. QED
  BY <1>1, <1>2

\* The aggregate of a segment, as a run of AdvanceWindow.
LEMMA SegmentRuns ==
    ASSUME NEW m \in Nat, NEW seg \in Seq(Vectors(m)), NEW acc
    PROVE  \E run : /\ run[0] = acc
                    /\ \A i \in 1..Len(seg) : run[i] = AdvanceWindow(run[i - 1], seg[i])
                    /\ AdvanceWindows(acc, seg) = run[Len(seg)]
<1>1. AdvanceWindows(acc, seg) = Advance!Fold(0, acc, seg)
  BY DEF AdvanceWindows, FoldLeft, MapThenFoldSet, Max,
         Advance!Fold, Advance!FoldLeft, Advance!MapThenFoldSet, Advance!Max
<1>2. \E run : Advance!Runs(0, acc, seg, run) /\ Advance!Fold(0, acc, seg) = run[Len(seg)]
  BY Advance!FoldRuns
<1>3. QED
  BY <1>1, <1>2 DEF Advance!Runs

\* A segment that holds the windows d + 1 to e of a flight takes the
\* accumulator from the first d windows to the first e (AdvanceWindows).
LEMMA SegmentIsCheapest ==
    ASSUME NEW m \in Nat, NEW C \in Seq(Vectors(m)),
           NEW d \in 0..Len(C), NEW e \in d..Len(C),
           NEW seg \in Seq(Vectors(m)), Len(seg) = e - d, \A i \in 1..(e - d) : seg[i] = C[d + i],
           NEW acc, Upto(acc, C, m, d)
    PROVE  Upto(AdvanceWindows(acc, seg), C, m, e)
<1>1. PICK run : /\ run[0] = acc
                 /\ \A i \in 1..Len(seg) : run[i] = AdvanceWindow(run[i - 1], seg[i])
                 /\ AdvanceWindows(acc, seg) = run[Len(seg)]
  BY SegmentRuns
<1> DEFINE T == {i \in Nat : i <= e - d => Upto(run[i], C, m, d + i)}
<1>2. 0 \in T
  BY <1>1
<1>3. ASSUME NEW i \in Nat, i \in T
      PROVE  i + 1 \in T
  <2>1. SUFFICES ASSUME i + 1 <= e - d
                 PROVE  Upto(run[i + 1], C, m, d + (i + 1))
    OBVIOUS
  <2>2. PICK c : c = d + i /\ c \in 0..(Len(C) - 1) /\ c + 1 = d + (i + 1)
    BY <2>1
  <2>3. Upto(run[i], C, m, c)
    BY <1>3, <2>1, <2>2
  <2>4. i + 1 \in 1..Len(seg) /\ i + 1 \in 1..(e - d) /\ (i + 1) - 1 = i
    BY <2>1
  <2>5. run[i + 1] = AdvanceWindow(run[i], seg[i + 1]) /\ seg[i + 1] = C[d + (i + 1)]
    BY <1>1, <2>4
  <2>6. Upto(AdvanceWindow(run[i], C[c + 1]), C, m, c + 1)
    BY <2>2, <2>3, StepIsCheapest
  <2>7. QED
    BY <2>2, <2>5, <2>6
<1>4. Nat \subseteq T
  <2> HIDE DEF T
  <2>1. QED
    BY <1>2, <1>3, Advance!Induction
<1>5. e - d \in T /\ d + (e - d) = e
  BY <1>4
<1>6. QED
  BY <1>1, <1>5

-----------------------------------------------------------------------------
(* The windows of a segment.                                                *)

\* The costs of the windows of a flight are vectors over its phases.
LEMMA FlightTyped ==
    ASSUME NEW f \in Flights
    PROVE  /\ PhaseCount(f) - 1 \in Nat
           /\ f.costs \in Seq(Vectors(PhaseCount(f) - 1))
           /\ Len(f.costs) = Len(f.ts)
           /\ Len(f.ts) \in Nat \ {0}
           /\ IsStream(f.ts)
<1>1. /\ IsStream(f.ts)
      /\ PhaseCount(f) \in Nat \ {0}
      /\ f.costs \in [1..Len(f.ts) -> Vectors(PhaseCount(f) - 1)]
  BY PhaseFlightsAssumption DEF Vectors
<1>2. Len(f.ts) \in Nat \ {0}
  BY <1>1 DEF IsStream
<1>3. f.costs \in Seq(Vectors(PhaseCount(f) - 1)) /\ Len(f.costs) = Len(f.ts)
  BY <1>1, <1>2
<1>4. QED
  BY <1>1, <1>2, <1>3

\* The windows before a row that is not among them, none of them missing.
LEMMA PrefixOfRows ==
    ASSUME NEW n \in Nat, NEW D \in SUBSET (1..n),
           \A i \in D : \A j \in 1..n : j <= i => j \in D
    PROVE  \E d \in 0..n : D = 1..d
<1>1. CASE D = 1..n
  BY <1>1
<1>2. CASE D # 1..n
  <2>1. (1..n) \ D # {} /\ (1..n) \ D \in SUBSET Nat
    <3>1. D \subseteq 1..n /\ 1..n \subseteq Nat
      OBVIOUS
    <3>2. \E i \in 1..n : i \notin D
      BY <1>2, <3>1
    <3>3. QED
      BY <3>1, <3>2
  <2>2. PICK e \in (1..n) \ D : \A j \in (1..n) \ D : e <= j
    BY <2>1, Advance!LeastElement
  <2>3. D = 1..(e - 1)
    <3>1. ASSUME NEW j \in 1..(e - 1)
          PROVE  j \in D
      BY <2>2
    <3>2. ASSUME NEW j \in D
          PROVE  j \in 1..(e - 1)
      <4>1. ~(e <= j)
        BY <2>2
      <4>2. QED
        BY <2>2, <4>1
    <3>3. QED
      BY <3>1, <3>2
  <2>4. QED
    BY <2>2, <2>3
<1>3. QED
  BY <1>1, <1>2

\* The first d windows of a stream are in segments below s, and the first e in
\* segments up to s; those between are the rows of segment s.
Spans(ts, s, d, e) ==
    /\ d \in 0..Len(ts) /\ e \in d..Len(ts)
    /\ {n \in 1..Len(ts) : SegmentId(ts, n) < s} = 1..d
    /\ {n \in 1..Len(ts) : SegmentId(ts, n) <= s} = 1..e
    /\ RowsIn(ts, s) = (d + 1)..e

\* Segment ids are naturals that never decrease along a flight
\* (SequencePlan, SegmentIdMonotone of SegmentedFoldProofs).
LEMMA SegmentIdsClimb ==
    ASSUME NEW ts, IsStream(ts),
           NEW m \in 1..Len(ts), NEW n \in 1..Len(ts), m <= n
    PROVE  /\ SegmentId(ts, m) \in Nat
           /\ SegmentId(ts, n) \in Nat
           /\ SegmentId(ts, m) <= SegmentId(ts, n)
<1>1. NormalizedMaxRows \in Nat \ {0} /\ NormalizedMaxSpan \in Nat
  BY PolicyAssumption DEF NormalizedMaxRows, NormalizedMaxSpan
<1>2. \A a, b \in Nat, d \in Nat \ {0} :
          a <= b => a \div d \in Nat /\ b \div d \in Nat /\ a \div d <= b \div d
  BY SMT
<1>3. Len(ts) \in Nat /\ ts[1] \in Nat /\ ts[m] \in Nat /\ ts[n] \in Nat
  BY DEF IsStream
<1>4. ts[1] <= ts[m] /\ ts[m] <= ts[n]
  BY <1>3 DEF IsStream
<1>5. m - 1 \in Nat /\ n - 1 \in Nat /\ m - 1 <= n - 1
  BY <1>3
<1>6. ts[m] - ts[1] \in Nat /\ ts[n] - ts[1] \in Nat /\ ts[m] - ts[1] <= ts[n] - ts[1]
  BY <1>3, <1>4
<1>7. /\ RowSegmentId(m) \in Nat /\ RowSegmentId(n) \in Nat
      /\ RowSegmentId(m) <= RowSegmentId(n)
  BY <1>1, <1>2, <1>5 DEF RowSegmentId
<1>8. NormalizedMaxSpan > 0 =>
         /\ SpanSegmentId(ts, m) \in Nat /\ SpanSegmentId(ts, n) \in Nat
         /\ SpanSegmentId(ts, m) <= SpanSegmentId(ts, n)
  BY <1>1, <1>2, <1>6 DEF SpanSegmentId
<1>9. QED
  BY <1>7, <1>8 DEF SegmentId

\* A segment holds windows of a stream that follow each other.
LEMMA RowsBetween ==
    ASSUME NEW ts, IsStream(ts), NEW s \in Nat
    PROVE  \E d, e : Spans(ts, s, d, e)
<1> DEFINE Below == {n \in 1..Len(ts) : SegmentId(ts, n) < s}
           Until == {n \in 1..Len(ts) : SegmentId(ts, n) <= s}
<1>1. Len(ts) \in Nat
  BY DEF IsStream
<1>2. \A i, j \in 1..Len(ts) :
          /\ SegmentId(ts, i) \in Nat
          /\ j <= i => SegmentId(ts, j) <= SegmentId(ts, i)
  BY SegmentIdsClimb
<1>3. \A i \in Below : \A j \in 1..Len(ts) : j <= i => j \in Below
  BY <1>2
<1>4. \A i \in Until : \A j \in 1..Len(ts) : j <= i => j \in Until
  BY <1>2
<1>5. Below \in SUBSET (1..Len(ts)) /\ Until \in SUBSET (1..Len(ts)) /\ Below \subseteq Until
  BY <1>2
<1>6. RowsIn(ts, s) = Until \ Below
  BY <1>2 DEF RowsIn
<1> HIDE DEF Below, Until
<1>7. PICK d \in 0..Len(ts) : Below = 1..d
  BY <1>1, <1>3, <1>5, PrefixOfRows
<1>8. PICK e \in 0..Len(ts) : Until = 1..e
  BY <1>1, <1>4, <1>5, PrefixOfRows
<1>9. d <= e
  BY <1>5, <1>7, <1>8
<1>10. RowsIn(ts, s) = (d + 1)..e
  BY <1>6, <1>7, <1>8
<1>11. QED
  <2>1. e \in d..Len(ts)
    BY <1>9
  <2>2. Spans(ts, s, d, e)
    BY <1>7, <1>8, <1>10, <2>1 DEF Spans, Below, Until
  <2>3. QED
    BY <2>2

\* The costs that a segment hands to the aggregate are those of its rows.
LEMMA SegmentCostsAre ==
    ASSUME NEW k, flight[k] \in Flights, NEW s, NEW d \in Nat, NEW e \in Nat, d < e,
           Spans(flight[k].ts, s, d, e)
    PROVE  /\ SegmentCosts(k, s) \in Seq(Vectors(PhaseCount(flight[k]) - 1))
           /\ Len(SegmentCosts(k, s)) = e - d
           /\ \A i \in 1..(e - d) : SegmentCosts(k, s)[i] = flight[k].costs[d + i]
<1> DEFINE rows == (d + 1)..e
           C == flight[k].costs
           V == Vectors(PhaseCount(flight[k]) - 1)
           Row(i) == CHOOSE n \in rows : Cardinality({x \in rows : x <= n}) = i
<1>1. C \in Seq(V) /\ Len(C) = Len(flight[k].ts) /\ Len(C) \in Nat
  BY FlightTyped
<1> e <= Len(flight[k].ts) /\ RowsIn(flight[k].ts, s) = rows
  BY <1>1 DEF Spans
<1>2. Cardinality(rows) = e - d
  <2>1. d + 1 \in Int /\ e \in Int /\ ~(d + 1 > e)
    OBVIOUS
  <2>2. QED
    BY <2>1, FS_Interval
<1>3. ASSUME NEW n \in rows
      PROVE  Cardinality({x \in rows : x <= n}) = n - d
  <2>1. {x \in rows : x <= n} = (d + 1)..n
    OBVIOUS
  <2>2. d + 1 \in Int /\ n \in Int /\ ~(d + 1 > n)
    OBVIOUS
  <2>3. Cardinality((d + 1)..n) = n - (d + 1) + 1
    BY <2>2, FS_Interval
  <2>4. n - (d + 1) + 1 = n - d
    OBVIOUS
  <2>5. Cardinality({x \in rows : x <= n}) = Cardinality((d + 1)..n)
    BY ONLY <2>1
  <2>6. QED
    BY ONLY <2>3, <2>4, <2>5
<1>4. ASSUME NEW i \in 1..(e - d)
      PROVE  Row(i) = d + i
  <2> HIDE DEF rows
  <2>1. d + i \in rows /\ \A n \in rows : n - d = i <=> n = d + i
    BY DEF rows
  <2>2. \A n \in rows : Cardinality({x \in rows : x <= n}) = i <=> n = d + i
    BY <1>3, <2>1
  <2>3. QED
    BY <2>1, <2>2
<1>5. SegmentCosts(k, s) = [i \in 1..(e - d) |-> C[Row(i)]]
  BY <1>2 DEF SegmentCosts
<1> HIDE DEF Row, C, V, rows
<1>6. ASSUME NEW i \in 1..(e - d)
      PROVE  SegmentCosts(k, s)[i] = C[d + i] /\ C[d + i] \in V
  <2>1. SegmentCosts(k, s)[i] = C[d + i]
    BY <1>4, <1>5
  <2>2. d + i \in 1..Len(C)
    BY <1>1
  <2>3. QED
    BY <1>1, <2>1, <2>2
<1>7. SegmentCosts(k, s) \in [1..(e - d) -> V]
  <2>1. DOMAIN SegmentCosts(k, s) = 1..(e - d)
        /\ SegmentCosts(k, s) = [i \in 1..(e - d) |-> SegmentCosts(k, s)[i]]
    BY <1>5
  <2>2. QED
    BY <1>6, <2>1
<1>8. SegmentCosts(k, s) \in Seq(V) /\ Len(SegmentCosts(k, s)) = e - d
  BY <1>7
<1>9. QED
  BY <1>6, <1>8 DEF C, V

-----------------------------------------------------------------------------
(* The inductive invariant.                                                 *)

LastPhase(k) == PhaseCount(flight[k]) - 1

\* The carry of a flight: absent before its first segment and after its last
\* one, else what the decode of its first windows leaves.
Tracked(k) ==
    \E d \in 0..Len(flight[k].ts) :
        /\ DecodedWindows(k) = 1..d
        /\ IF carry[k] = Uninitialized THEN d \in {0, Len(flight[k].ts)}
           ELSE d > 0 /\ Cheapest(carry[k], flight[k].costs, LastPhase(k), d)

IInv ==
    /\ flight \in [Keys -> Flights]
    /\ pending \subseteq CollectedIds(MultiStreams)
    /\ \A s \in pending : \A t \in CollectedIds(MultiStreams) : s <= t => t \in pending
    /\ \A k \in Keys :
          carry[k] # Uninitialized =>
              DOMAIN carry[k].score = 0..LastPhase(k) /\ DOMAIN carry[k].path = 0..LastPhase(k)
    /\ \A k \in MultiPhase : Unbroken(k) => Tracked(k)
    /\ \/ assigned = NothingAssigned
       \/ pending = {} /\ assigned = [k \in Keys |-> AssignedTo(k)]

\* The collected ids are naturals, among them those of all the windows of the
\* flights with several phases (collect_segment_ids).
LEMMA CollectedAre ==
    ASSUME flight \in [Keys -> Flights]
    PROVE  /\ CollectedIds(MultiStreams) \subseteq Nat
           /\ \A k \in MultiPhase : \A n \in Windows(k) :
                 SegmentId(flight[k].ts, n) \in CollectedIds(MultiStreams)
<1>1. ASSUME NEW k \in MultiPhase, NEW n \in Windows(k)
      PROVE  SegmentId(flight[k].ts, n) \in Nat
  <2>1. flight[k] \in Flights
    BY DEF MultiPhase
  <2>2. IsStream(flight[k].ts)
    BY <2>1, FlightTyped
  <2>3. n <= n
    BY DEF Windows
  <2>4. QED
    BY <2>2, <2>3, SegmentIdsClimb DEF Windows
<1>2. CollectedIds(MultiStreams) =
          UNION {{SegmentId(flight[k].ts, n) : n \in Windows(k)} : k \in MultiPhase}
  BY DEF CollectedIds, MultiStreams, SegmentIdsOf, Windows
<1>3. QED
  BY <1>1, <1>2

\* The aggregate of a segment that is not empty fills scores and paths.
LEMMA SegmentFills ==
    ASSUME NEW m \in Nat, NEW seg \in Seq(Vectors(m)), Len(seg) > 0, NEW acc
    PROVE  /\ DOMAIN AdvanceWindows(acc, seg).score = 0..m
           /\ DOMAIN AdvanceWindows(acc, seg).path = 0..m
<1>1. PICK run : /\ run[0] = acc
                 /\ \A i \in 1..Len(seg) : run[i] = AdvanceWindow(run[i - 1], seg[i])
                 /\ AdvanceWindows(acc, seg) = run[Len(seg)]
  BY SegmentRuns
<1>2. PICK cost \in Vectors(m) :
          \E before : AdvanceWindows(acc, seg) = AdvanceWindow(before, cost)
  <2>1. Len(seg) \in 1..Len(seg) /\ seg[Len(seg)] \in Vectors(m)
    OBVIOUS
  <2>2. QED
    BY <1>1, <2>1
<1>3. DOMAIN cost = 0..m
  BY DEF Vectors
<1>4. QED
  BY <1>2, <1>3 DEF AdvanceWindow, FirstWindow, NextWindow

\* An accumulator that holds cheapest paths is initialized.
LEMMA CheapestIsInitialized ==
    ASSUME NEW m \in Nat, NEW C, NEW d, NEW acc, Cheapest(acc, C, m, d)
    PROVE  acc # Uninitialized
<1>1. DOMAIN acc.score = 0..m /\ 0 \in 0..m
  BY DEF Cheapest
<1>2. acc.score # <<>>
  BY <1>1
<1>3. QED
  BY <1>2 DEF Uninitialized

\* Init
LEMMA InitHolds == Init => IInv
<1>1. SUFFICES ASSUME Init PROVE IInv
  OBVIOUS
<1>2. flight \in [Keys -> Flights] /\ \A k \in Keys : carry[k] = Uninitialized
  BY <1>1 DEF Init
<1>3. ASSUME NEW k \in MultiPhase
      PROVE  Tracked(k)
  <2>1. DecodedWindows(k) = 1..0
    BY <1>1, <1>2, CollectedAre DEF DecodedWindows, Init
  <2>2. carry[k] = Uninitialized /\ 0 \in 0..Len(flight[k].ts)
    BY <1>2, FlightTyped DEF MultiPhase
  <2>3. QED
    BY <2>1, <2>2 DEF Tracked
<1>4. QED
  BY <1>1, <1>2, <1>3 DEF IInv, Init

\* A segment: every flight that is not broken off goes on from its carry to the
\* end of the segment, or has no windows left.
LEMMA SegmentKeepsTrack ==
    ASSUME IInv, NEW s \in pending, DecodeSegment(s),
           NEW k \in MultiPhase, Unbroken(k)
    PROVE  Tracked(k)'
<1> DEFINE ts == flight[k].ts
           C == flight[k].costs
<1>1. /\ flight[k] \in Flights /\ s \in Nat /\ s \in CollectedIds(MultiStreams)
      /\ \A n \in Windows(k) : /\ SegmentId(ts, n) \in Nat
                               /\ SegmentId(ts, n) \in CollectedIds(MultiStreams)
  BY CollectedAre DEF IInv, MultiPhase
<1>2. /\ \A t \in pending : s <= t
      /\ \A t \in CollectedIds(MultiStreams) : s <= t => t \in pending
      /\ pending' = pending \ {s} /\ flight' = flight
      /\ carry'[k] = CarryAfter(k, s)
  BY DEF IInv, DecodeSegment, MultiPhase
<1>3. DecodedWindows(k) = {n \in Windows(k) : SegmentId(ts, n) < s}
  BY <1>1, <1>2 DEF DecodedWindows
<1>4. DecodedWindows(k)' = {n \in Windows(k) : SegmentId(ts, n) <= s}
  BY <1>1, <1>2 DEF DecodedWindows, Windows
<1>5. PICK d, e : Spans(ts, s, d, e)
  BY <1>1, FlightTyped, RowsBetween
<1>6. /\ LastPhase(k) \in Nat /\ C \in Seq(Vectors(LastPhase(k)))
      /\ Len(C) = Len(ts) /\ Len(ts) \in Nat
  BY <1>1, FlightTyped DEF LastPhase
<1> d \in 0..Len(ts) /\ e \in d..Len(ts)
    /\ DecodedWindows(k) = 1..d /\ DecodedWindows(k)' = 1..e /\ RowsIn(ts, s) = (d + 1)..e
  BY <1>3, <1>4, <1>5 DEF Spans, Windows
<1>7. CASE d < e
  <2>1. RowsIn(ts, s) # {} /\ carry'[k] = AdvanceWindows(carry[k], SegmentCosts(k, s))
    <3>1. d + 1 \in RowsIn(ts, s)
      BY <1>6, <1>7
    <3>2. QED
      BY <1>2, <3>1 DEF CarryAfter
  <2>2. Upto(carry[k], C, LastPhase(k), d)
    <3>1. PICK c \in 0..Len(ts) :
             /\ DecodedWindows(k) = 1..c
             /\ IF carry[k] = Uninitialized THEN c \in {0, Len(ts)}
                ELSE c > 0 /\ Cheapest(carry[k], C, LastPhase(k), c)
      <4>1. Tracked(k)
        BY DEF IInv
      <4>2. QED
        BY <4>1 DEF Tracked
    <3>2. c = d
      BY <1>6, <3>1
    <3>3. d # Len(ts)
      BY <1>7
    <3>4. QED
      BY <3>1, <3>2, <3>3 DEF Upto
  <2>3. Upto(AdvanceWindows(carry[k], SegmentCosts(k, s)), C, LastPhase(k), e)
    <3>1. /\ SegmentCosts(k, s) \in Seq(Vectors(LastPhase(k)))
          /\ Len(SegmentCosts(k, s)) = e - d
          /\ \A i \in 1..(e - d) : SegmentCosts(k, s)[i] = C[d + i]
      BY <1>1, <1>5, <1>6, <1>7, SegmentCostsAre DEF LastPhase
    <3>2. d \in 0..Len(C) /\ e \in d..Len(C)
      BY <1>6
    <3>3. QED
      BY <1>6, <2>2, <3>1, <3>2, SegmentIsCheapest
  <2>4. e > 0 /\ Cheapest(carry'[k], C, LastPhase(k), e)
    BY <1>7, <2>1, <2>3 DEF Upto
  <2>5. carry'[k] # Uninitialized
    BY <1>6, <2>4, CheapestIsInitialized
  <2>6. e \in 0..Len(ts)
    OBVIOUS
  <2>7. QED
    BY <1>2, <2>4, <2>5, <2>6 DEF Tracked, LastPhase
<1>8. CASE ~(d < e)
  <2>1. RowsIn(ts, s) = {} /\ carry'[k] = Uninitialized
    <3>1. (d + 1)..e = {}
      BY <1>6, <1>8
    <3>2. QED
      BY <1>2, <3>1 DEF CarryAfter
  <2>2. \A n \in Windows(k) : SegmentId(ts, n) < s
    BY <1>1, <2>1 DEF Unbroken
  <2>3. {n \in Windows(k) : SegmentId(ts, n) <= s} = 1..Len(ts)
    BY <1>1, <2>2 DEF Windows
  <2>4. Len(ts) \in 0..Len(ts)
    BY <1>6
  <2>5. QED
    BY <1>2, <1>4, <2>1, <2>3, <2>4 DEF Tracked
<1>9. QED
  BY <1>7, <1>8

\* DecodeSegment and AssignPhases
LEMMA NextHolds == IInv /\ [Next]_vars => IInv'
<1>1. SUFFICES ASSUME IInv, [Next]_vars PROVE IInv'
  OBVIOUS
<1>2. ASSUME NEW s \in pending, DecodeSegment(s)
      PROVE  IInv'
  <2>1. /\ flight' = flight /\ pending' = pending \ {s} /\ assigned' = assigned
        /\ carry' = [k \in Keys |-> CarryAfter(k, s)]
        /\ \A t \in pending : s <= t
    BY <1>2 DEF DecodeSegment
  <2>2. /\ MultiPhase' = MultiPhase /\ MultiStreams' = MultiStreams
        /\ NothingAssigned' = NothingAssigned
        /\ \A k \in Keys : LastPhase(k)' = LastPhase(k)
        /\ \A k \in MultiPhase : Unbroken(k)' = Unbroken(k)
    BY <2>1 DEF MultiPhase, MultiStreams, NothingAssigned, LastPhase, Unbroken, Windows
  <2>3. flight' \in [Keys -> Flights] /\ pending' \subseteq CollectedIds(MultiStreams)'
    BY <1>1, <2>1, <2>2 DEF IInv
  <2>4. \A r \in pending' : \A t \in CollectedIds(MultiStreams)' : r <= t => t \in pending'
    <3>1. CollectedIds(MultiStreams) \subseteq Nat /\ CollectedIds(MultiStreams)' = CollectedIds(MultiStreams)
      BY <1>1, <2>2, CollectedAre DEF IInv
    <3>2. pending \subseteq Nat
      BY <1>1, <3>1 DEF IInv
    <3>3. QED
      BY <1>1, <2>1, <3>1, <3>2 DEF IInv
  <2>5. ASSUME NEW k \in Keys, carry'[k] # Uninitialized
        PROVE  DOMAIN carry'[k].score = 0..LastPhase(k)' /\ DOMAIN carry'[k].path = 0..LastPhase(k)'
    <3>1. k \in MultiPhase /\ RowsIn(flight[k].ts, s) # {}
          /\ carry'[k] = AdvanceWindows(carry[k], SegmentCosts(k, s))
      BY <2>1, <2>5 DEF CarryAfter
    <3>2. flight[k] \in Flights /\ s \in Nat
      BY <1>1, CollectedAre DEF IInv
    <3>3. SegmentCosts(k, s) \in Seq(Vectors(LastPhase(k))) /\ Len(SegmentCosts(k, s)) > 0
      <4>1. PICK d, e : Spans(flight[k].ts, s, d, e)
        BY <3>2, FlightTyped, RowsBetween
      <4>2. Len(flight[k].ts) \in Nat
        BY <3>2, FlightTyped
      <4>3. d \in Nat /\ e \in Nat /\ d < e
        BY <3>1, <4>1, <4>2 DEF Spans
      <4>4. SegmentCosts(k, s) \in Seq(Vectors(LastPhase(k))) /\ Len(SegmentCosts(k, s)) = e - d
        BY <3>2, <4>1, <4>3, SegmentCostsAre DEF LastPhase
      <4>5. QED
        BY <4>3, <4>4
    <3>6. LastPhase(k) \in Nat
      BY <3>2, FlightTyped DEF LastPhase
    <3>7. QED
      BY <2>2, <3>1, <3>3, <3>6, SegmentFills
  <2>6. ASSUME NEW k \in MultiPhase', Unbroken(k)'
        PROVE  Tracked(k)'
    BY <1>1, <1>2, <2>2, <2>6, SegmentKeepsTrack
  <2>7. assigned' = NothingAssigned'
    BY <1>1, <1>2, <2>1, <2>2 DEF IInv
  <2>8. QED
    BY <2>3, <2>4, <2>5, <2>6, <2>7 DEF IInv
<1>3. CASE AssignPhases
  <2>1. /\ UNCHANGED <<flight, pending, carry>> /\ pending = {}
        /\ assigned' = [k \in Keys |-> AssignedTo(k)]
    BY <1>3 DEF AssignPhases
  <2>2. /\ MultiPhase' = MultiPhase /\ MultiStreams' = MultiStreams
        /\ \A k \in Keys : LastPhase(k)' = LastPhase(k) /\ AssignedTo(k)' = AssignedTo(k)
        /\ \A k \in MultiPhase : Unbroken(k)' = Unbroken(k) /\ Tracked(k)' = Tracked(k)
    BY <2>1 DEF MultiPhase, MultiStreams, LastPhase, Unbroken, Tracked, DecodedWindows,
                Windows, AssignedTo, Joined
  <2>3. assigned' = [k \in Keys |-> AssignedTo(k)'] /\ pending' = {}
    BY <2>1, <2>2
  <2>4. QED
    BY <1>1, <2>1, <2>2, <2>3 DEF IInv
<1>4. CASE UNCHANGED vars
  <2>1. UNCHANGED <<flight, pending, carry, assigned>>
    BY <1>4 DEF vars
  <2>2. /\ MultiPhase' = MultiPhase /\ MultiStreams' = MultiStreams
        /\ NothingAssigned' = NothingAssigned
        /\ \A k \in Keys : LastPhase(k)' = LastPhase(k) /\ AssignedTo(k)' = AssignedTo(k)
        /\ \A k \in MultiPhase : Unbroken(k)' = Unbroken(k) /\ Tracked(k)' = Tracked(k)
    BY <2>1 DEF MultiPhase, MultiStreams, LastPhase, Unbroken, Tracked, DecodedWindows,
                Windows, AssignedTo, Joined, NothingAssigned
  <2>3. [k \in Keys |-> AssignedTo(k)]' = [k \in Keys |-> AssignedTo(k)]
    BY <2>2
  <2>4. QED
    BY <1>1, <2>1, <2>2, <2>3 DEF IInv
<1>5. QED
  BY <1>1, <1>2, <1>3, <1>4 DEF Next

-----------------------------------------------------------------------------
(* The theorems.                                                            *)

\* The invariant of the loop over the segment ids (assign_phases_segmented).
THEOREM DecodeInvariant == Spec => []IInv
  BY InitHolds, NextHolds, PTL DEF Spec

\* The carry and the assignment have the types of the flights, in every
\* state: scores and paths over the phases of the flight, phases of its windows.
THEOREM DecodeTypes == Spec => []TypeOK
<1>1. IInv => TypeOK
  <2>1. SUFFICES ASSUME IInv PROVE TypeOK
    OBVIOUS
  <2>2. ASSUME NEW k \in Keys, carry[k] # Uninitialized
        PROVE  /\ DOMAIN carry[k].score = DOMAIN flight[k].costs[1]
               /\ DOMAIN carry[k].path = DOMAIN flight[k].costs[1]
    <3>1. flight[k] \in Flights
      BY <2>1 DEF IInv
    <3>2. flight[k].costs[1] \in Vectors(LastPhase(k))
      BY <3>1, FlightTyped DEF LastPhase
    <3>3. DOMAIN flight[k].costs[1] = 0..LastPhase(k)
      BY <3>2 DEF Vectors
    <3>4. QED
      BY <2>1, <2>2, <3>3 DEF IInv
  <2>3. ASSUME NEW k \in Keys
        PROVE  DOMAIN assigned[k] \subseteq Windows(k)
    <3>1. assigned[k] = <<>> \/ assigned[k] = AssignedTo(k)
      BY <2>1 DEF IInv, NothingAssigned
    <3>2. DOMAIN AssignedTo(k) \subseteq Windows(k)
      BY DEF AssignedTo, Joined
    <3>3. QED
      BY <3>1, <3>2
  <2>4. QED
    BY <2>1, <2>2, <2>3 DEF TypeOK, IInv
<1>2. QED
  BY <1>1, DecodeInvariant, PTL

\* While an unbroken flight is being decoded, its carry is optimal for the
\* windows decoded so far: whatever the policy cuts the flight into, the carry
\* of _segment_carry is the state of a decode that was never cut.
THEOREM CarryStaysOptimal == Spec => []CarryIsOptimal
<1>1. IInv => CarryIsOptimal
  <2>1. SUFFICES ASSUME IInv, NEW k \in MultiPhase, Unbroken(k), carry[k] # Uninitialized
                 PROVE  LET done == SubSeq(flight[k].costs, 1, Cardinality(DecodedWindows(k)))
                        IN  \A p \in DOMAIN carry[k].path :
                              /\ PathCost(done, carry[k].path[p]) = carry[k].score[p]
                              /\ carry[k].path[p] \in MonotonePaths(done)
                              /\ \A other \in MonotonePaths(done) :
                                    other[Len(done)] = p =>
                                        carry[k].score[p] <= PathCost(done, other)
    BY DEF CarryIsOptimal
  <2>2. Tracked(k)
    BY <2>1 DEF IInv
  <2>3. PICK d \in 0..Len(flight[k].ts) :
          /\ DecodedWindows(k) = 1..d
          /\ d > 0 /\ Cheapest(carry[k], flight[k].costs, LastPhase(k), d)
    BY <2>1, <2>2 DEF Tracked
  <2>4. /\ LastPhase(k) \in Nat /\ flight[k].costs \in Seq(Vectors(LastPhase(k)))
        /\ Len(flight[k].costs) = Len(flight[k].ts) /\ Len(flight[k].ts) \in Nat
    <3>1. flight[k] \in Flights
      BY <2>1 DEF IInv, MultiPhase
    <3>2. QED
      BY <3>1, FlightTyped DEF LastPhase
  <2>5. Cardinality(DecodedWindows(k)) = d
    BY <2>3, <2>4, FS_Interval
  <2>6. Len(SubSeq(flight[k].costs, 1, d)) = d
    BY <2>4, PrefixIs
  <2>7. QED
    BY <2>3, <2>5, <2>6 DEF Cheapest
<1>2. QED
  BY <1>1, DecodeInvariant, PTL

\* A path through all the windows of a flight, and its cost.
LEMMA WholePath ==
    ASSUME NEW m \in Nat, NEW C \in Seq(Vectors(m)), Len(C) > 0, NEW path \in MonotonePaths(C)
    PROVE  path \in [1..Len(C) -> 0..m] /\ PathCost(C, path) \in Int
<1>1. SubSeq(C, 1, Len(C)) = C /\ Len(C) \in 1..Len(C)
  OBVIOUS
<1>2. path \in MonotonePaths(SubSeq(C, 1, Len(C)))
  BY <1>1
<1>3. path \in [1..Len(C) -> 0..m]
  BY <1>1, <1>2, PathsAre
<1> DEFINE free == [p \in 0..m |-> 0]
           D == Append(C, free)
<1>4. free \in Vectors(m)
  BY DEF Vectors
<1>5. D \in Seq(Vectors(m)) /\ Len(D) = Len(C) + 1 /\ \A i \in 1..Len(C) : D[i] = C[i]
  <2> HIDE DEF free
  <2>1. QED
    BY <1>4
<1> HIDE DEF D
<1>6. Extends(m, C, path, D, path)
  BY <1>3, <1>5 DEF Extends
<1>7. PathCost(C, path) \in Int
  BY <1>5, <1>6, CostExtends
<1>8. QED
  BY <1>3, <1>7

\* Some phase has the lowest score, and of those the first is chosen
\* (array_position of array_min).
LEMMA FinalPhaseIs ==
    ASSUME NEW m \in Nat, NEW acc, acc.score \in [0..m -> Int]
    PROVE  /\ FinalPhase(acc) \in 0..m
           /\ \A q \in 0..m : acc.score[FinalPhase(acc)] <= acc.score[q]
<1> DEFINE Least(j, p) == p \in 0..j /\ \A q \in 0..j : acc.score[p] <= acc.score[q]
           T == {j \in Nat : j <= m => \E p : Least(j, p)}
<1>1. 0 \in T
  <2>1. Least(0, 0)
    OBVIOUS
  <2>2. QED
    BY <2>1
<1>2. ASSUME NEW j \in Nat, j \in T
      PROVE  j + 1 \in T
  <2>1. SUFFICES ASSUME j + 1 <= m
                 PROVE  \E p : Least(j + 1, p)
    OBVIOUS
  <2>2. PICK p : Least(j, p)
    BY <1>2, <2>1
  <2>3. \A q \in 0..(j + 1) : acc.score[q] \in Int
    BY <2>1
  <2>4. p \in 0..(j + 1) /\ j + 1 \in 0..(j + 1)
    BY <2>2
  <2>5. \A q \in 0..(j + 1) : q \in 0..j \/ q = j + 1
    OBVIOUS
  <2>6. CASE acc.score[p] <= acc.score[j + 1]
    <3>1. Least(j + 1, p)
      BY <2>2, <2>4, <2>5, <2>6
    <3>2. QED
      BY <3>1
  <2>7. CASE ~(acc.score[p] <= acc.score[j + 1])
    <3>1. ASSUME NEW q \in 0..(j + 1)
          PROVE  acc.score[j + 1] <= acc.score[q]
      <4>1. acc.score[p] \in Int /\ acc.score[j + 1] \in Int /\ acc.score[q] \in Int
        BY <2>3, <2>4
      <4>2. acc.score[p] <= acc.score[q] \/ q = j + 1
        BY <2>2, <2>5
      <4>3. QED
        BY <2>7, <4>1, <4>2
    <3>2. Least(j + 1, j + 1)
      BY <2>4, <3>1
    <3>3. QED
      BY <3>2
  <2>8. QED
    BY <2>6, <2>7
<1>3. Nat \subseteq T
  <2> HIDE DEF T
  <2>1. QED
    BY <1>1, <1>2, Advance!Induction
<1>4. \E p : Least(m, p)
  <2>1. m \in T /\ m <= m
    BY <1>3
  <2> HIDE DEF Least
  <2>2. QED
    BY <2>1
<1> DEFINE best == {p \in 0..m : \A q \in 0..m : acc.score[p] <= acc.score[q]}
<1>5. best # {} /\ best \in SUBSET Nat
  <2>1. PICK p : Least(m, p)
    BY <1>4
  <2>2. p \in best
    BY <2>1
  <2>3. best \in SUBSET Nat
    OBVIOUS
  <2> HIDE DEF best
  <2>4. QED
    BY <2>2, <2>3
<1>6. PICK p \in best : \A q \in best : p <= q
  <2> HIDE DEF best
  <2>1. QED
    BY <1>5, Advance!LeastElement
<1>7. \A q \in 0..m : acc.score[p] <= acc.score[q]
  OBVIOUS
<1>8. \A q \in 0..m : acc.score[q] = acc.score[p] => p <= q
  <2>1. ASSUME NEW q \in 0..m, acc.score[q] = acc.score[p]
        PROVE  q \in best
    BY <1>7, <2>1
  <2>2. QED
    BY <1>6, <2>1
<1>9. DOMAIN acc.score = 0..m /\ p \in 0..m
  OBVIOUS
<1> HIDE DEF best, T, Least
<1>10. \E x \in DOMAIN acc.score :
          /\ \A q \in DOMAIN acc.score : acc.score[x] <= acc.score[q]
          /\ \A q \in DOMAIN acc.score : acc.score[q] = acc.score[x] => x <= q
  BY <1>7, <1>8, <1>9
<1>11. QED
  BY <1>9, <1>10 DEF FinalPhase

\* The phases of an unbroken flight, when it is assigned any, are a cheapest
\* monotone path through all its windows (assign_phases_segmented).
THEOREM AssignmentStaysOptimal == Spec => []AssignmentIsOptimal
<1>1. IInv => AssignmentIsOptimal
  <2>1. SUFFICES ASSUME IInv, NEW k \in MultiPhase, Finished, Unbroken(k), assigned[k] # <<>>
                 PROVE  IsOptimal(flight[k].costs, assigned[k])
    BY DEF AssignmentIsOptimal
  <2> DEFINE C == flight[k].costs
             m == LastPhase(k)
             N == Len(C)
             acc == carry[k]
  <2>2. flight[k] \in Flights /\ flight \in [Keys -> Flights] /\ k \in Keys
    BY <2>1 DEF IInv, MultiPhase
  <2>3. m \in Nat /\ C \in Seq(Vectors(m)) /\ N = Len(flight[k].ts) /\ N \in Nat
    BY <2>2, FlightTyped DEF LastPhase
  <2>4. pending = {} /\ assigned[k] = AssignedTo(k)
    BY <2>1, <2>2 DEF IInv, Finished
  <2>5. acc # Uninitialized /\ assigned[k] = Joined(k, FinalPath(acc))
    BY <2>1, <2>4 DEF AssignedTo
  <2>6. PICK d \in 0..N : DecodedWindows(k) = 1..d /\ d > 0 /\ Cheapest(acc, C, m, d)
    BY <2>1, <2>3, <2>5 DEF IInv, Tracked
  <2>7. DecodedWindows(k) = 1..N
    BY <2>3, <2>4 DEF DecodedWindows, Windows
  <2>8. d = N /\ N \in 1..N /\ N \in 0..N
    BY <2>3, <2>6, <2>7
  <2> HIDE DEF C, m, N, acc
  <2>9. SubSeq(C, 1, N) = C
    BY <2>3 DEF N
  <2>10. Cheapest(acc, C, m, N)
    BY <2>6, <2>8
  <2>11. PICK p : p = FinalPhase(acc)
    OBVIOUS
  <2>12. p \in 0..m /\ \A q \in 0..m : acc.score[p] <= acc.score[q]
    BY <2>3, <2>10, <2>11, FinalPhaseIs DEF Cheapest
  <2>13. acc.path[p] \in MonotonePaths(C) /\ PathCost(C, acc.path[p]) = acc.score[p]
    BY <2>9, <2>10, <2>12 DEF Cheapest
  <2>14. acc.path[p] \in [1..N -> 0..m]
    BY <2>3, <2>8, <2>13, WholePath DEF N
  <2>15. assigned[k] = acc.path[p]
    BY <2>3, <2>5, <2>11, <2>14 DEF Joined, FinalPath, Windows
  <2>16. ASSUME NEW other \in MonotonePaths(C)
         PROVE  PathCost(C, acc.path[p]) <= PathCost(C, other)
    <3>1. other \in [1..N -> 0..m]
      BY <2>3, <2>8, WholePath DEF N
    <3>2. PICK q \in 0..m : q = other[N]
      BY <2>8, <3>1
    <3>3. acc.score[q] <= PathCost(C, other)
      BY <2>9, <2>10, <3>2 DEF Cheapest
    <3>4. acc.score[p] <= acc.score[q] /\ acc.score[p] \in Int /\ acc.score[q] \in Int
      BY <2>10, <2>12 DEF Cheapest
    <3>5. PathCost(C, other) \in Int
      BY <2>3, <2>8, WholePath DEF N
    <3>6. QED
      BY <2>13, <3>3, <3>4, <3>5
  <2>17. QED
    BY <2>13, <2>15, <2>16 DEF IsOptimal, C
<1>2. QED
  BY <1>1, DecodeInvariant, PTL

-----------------------------------------------------------------------------
(* The runs of equal phases of a path.                                      *)

\* A path over some windows.
IsPath(p, N) == N \in Nat \ {0} /\ p \in [1..N -> Int]

\* The first windows of the runs up to window n, and how many runs those are.
Starts(p, n) == {m \in 1..n : m = 1 \/ p[m - 1] # p[m]}
RunOf(p, n) == Cardinality(Starts(p, n))

\* From window to window the run is the same or the next one.
LEMMA RunsStep ==
    ASSUME NEW N, NEW p, IsPath(p, N)
    PROVE  /\ RunOf(p, 1) = 1
           /\ \A n \in 1..N : IsFiniteSet(Starts(p, n)) /\ RunOf(p, n) \in Nat \ {0}
           /\ \A n \in 1..(N - 1) :
                RunOf(p, n + 1) = RunOf(p, n) + (IF p[n] = p[n + 1] THEN 0 ELSE 1)
<1>1. N \in Nat /\ N > 0
  BY DEF IsPath
<1>2. IsFiniteSet(Starts(p, 1)) /\ RunOf(p, 1) = 1
  <2>1. Starts(p, 1) = {} \cup {1}
    BY DEF Starts
  <2>2. QED
    BY <2>1, FS_EmptySet, FS_AddElement DEF RunOf
<1>3. ASSUME NEW n \in Nat \ {0}, IsFiniteSet(Starts(p, n)), RunOf(p, n) \in Nat \ {0}
      PROVE  /\ IsFiniteSet(Starts(p, n + 1)) /\ RunOf(p, n + 1) \in Nat \ {0}
             /\ RunOf(p, n + 1) = RunOf(p, n) + (IF p[n] = p[n + 1] THEN 0 ELSE 1)
  <2>1. n + 1 \notin Starts(p, n)
    BY DEF Starts
  <2>2. (n + 1) - 1 = n /\ n + 1 # 1
    OBVIOUS
  <2>3. \A m : m \in 1..(n + 1) <=> m \in 1..n \/ m = n + 1
    OBVIOUS
  <2>4. CASE p[n] = p[n + 1]
    <3>1. Starts(p, n + 1) = Starts(p, n)
      BY <2>2, <2>3, <2>4 DEF Starts
    <3>2. QED
      BY <1>3, <2>4, <3>1 DEF RunOf
  <2>5. CASE p[n] # p[n + 1]
    <3>1. Starts(p, n + 1) = Starts(p, n) \cup {n + 1}
      BY <2>2, <2>3, <2>5 DEF Starts
    <3>2. Cardinality(Starts(p, n + 1)) = Cardinality(Starts(p, n)) + 1 /\ IsFiniteSet(Starts(p, n + 1))
      BY <1>3, <2>1, <3>1, FS_AddElement
    <3>3. QED
      BY <1>3, <2>5, <3>2 DEF RunOf
  <2>6. QED
    BY <2>4, <2>5
<1> DEFINE T == {k \in Nat : IsFiniteSet(Starts(p, k + 1)) /\ RunOf(p, k + 1) \in Nat \ {0}}
<1>4. 0 \in T
  BY <1>2
<1>5. ASSUME NEW k \in Nat, k \in T
      PROVE  k + 1 \in T
  <2>1. k + 1 \in Nat \ {0}
    OBVIOUS
  <2>2. QED
    BY <1>3, <1>5, <2>1
<1> HIDE DEF T
<1>6. Nat \subseteq T
  BY <1>4, <1>5, Advance!Induction
<1>7. \A n \in 1..N : IsFiniteSet(Starts(p, n)) /\ RunOf(p, n) \in Nat \ {0}
  <2>1. SUFFICES ASSUME NEW n \in 1..N
                 PROVE  IsFiniteSet(Starts(p, n)) /\ RunOf(p, n) \in Nat \ {0}
    OBVIOUS
  <2>2. n - 1 \in Nat /\ (n - 1) + 1 = n
    OBVIOUS
  <2>3. n - 1 \in T
    BY <1>6, <2>2
  <2>4. QED
    BY <2>2, <2>3 DEF T
<1>8. ASSUME NEW n \in 1..(N - 1)
      PROVE  RunOf(p, n + 1) = RunOf(p, n) + (IF p[n] = p[n + 1] THEN 0 ELSE 1)
  <2>1. n \in Nat \ {0} /\ n \in 1..N
    BY <1>1
  <2>2. QED
    BY <1>3, <1>7, <2>1
<1>9. QED
  BY <1>2, <1>7, <1>8

\* The numbers of the runs climb, and the windows of a run have one phase.
LEMMA RunsClimb ==
    ASSUME NEW N, NEW p, IsPath(p, N), NEW m \in 1..N, NEW n \in 1..N, m <= n
    PROVE  RunOf(p, m) <= RunOf(p, n) /\ (RunOf(p, m) = RunOf(p, n) => p[m] = p[n])
<1>1. N \in Nat
  BY DEF IsPath
<1> DEFINE T == {k \in Nat : m + k <= N =>
                    /\ RunOf(p, m) <= RunOf(p, m + k)
                    /\ RunOf(p, m) = RunOf(p, m + k) => p[m] = p[m + k]}
<1>2. \A o \in 1..N : RunOf(p, o) \in Nat
  BY RunsStep
<1>3. 0 \in T
  <2>1. m + 0 = m /\ RunOf(p, m) <= RunOf(p, m)
    BY <1>2
  <2>2. QED
    BY <2>1
<1>4. ASSUME NEW k \in Nat, k \in T
      PROVE  k + 1 \in T
  <2>1. SUFFICES ASSUME m + (k + 1) <= N
                 PROVE  /\ RunOf(p, m) <= RunOf(p, m + (k + 1))
                        /\ RunOf(p, m) = RunOf(p, m + (k + 1)) => p[m] = p[m + (k + 1)]
    OBVIOUS
  <2> DEFINE o == m + k
  <2>2. o \in 1..(N - 1) /\ o \in 1..N /\ o + 1 = m + (k + 1) /\ o + 1 \in 1..N /\ o <= N
    BY <1>1, <2>1
  <2>3. RunOf(p, m) <= RunOf(p, o) /\ (RunOf(p, m) = RunOf(p, o) => p[m] = p[o])
    BY <1>4, <2>2
  <2> HIDE DEF o
  <2>4. RunOf(p, o + 1) = RunOf(p, o) + (IF p[o] = p[o + 1] THEN 0 ELSE 1)
    BY <2>2, RunsStep
  <2>5. RunOf(p, m) \in Nat /\ RunOf(p, o) \in Nat
    BY <1>2, <2>2
  <2>6. RunOf(p, m) <= RunOf(p, o + 1) /\ (RunOf(p, m) = RunOf(p, o + 1) => p[m] = p[o + 1])
    BY <2>3, <2>4, <2>5
  <2>7. QED
    BY <2>2, <2>6
<1> HIDE DEF T
<1>5. n - m \in Nat /\ m + (n - m) = n
  OBVIOUS
<1>6. n - m \in T
  BY <1>3, <1>4, <1>5, Advance!Induction
<1>7. QED
  BY <1>5, <1>6 DEF T

\* Between a run and the next one there is a last and a first window.
LEMMA RunsMeet ==
    ASSUME NEW N, NEW p, IsPath(p, N), NEW r \in Nat \ {0}, NEW n \in 1..N, RunOf(p, n) = r + 1
    PROVE  \E m \in 1..(N - 1) : RunOf(p, m) = r /\ RunOf(p, m + 1) = r + 1
<1>1. N \in Nat
  BY DEF IsPath
<1> DEFINE Meet == \E m \in 1..(N - 1) : RunOf(p, m) = r /\ RunOf(p, m + 1) = r + 1
           T == {k \in Nat : k + 1 <= N /\ RunOf(p, k + 1) > r => Meet}
<1>2. 0 \in T
  <2>1. RunOf(p, 0 + 1) = 1
    BY RunsStep
  <2>2. ~(1 > r)
    OBVIOUS
  <2>3. QED
    BY <2>1, <2>2
<1>3. ASSUME NEW k \in Nat, k \in T
      PROVE  k + 1 \in T
  <2>1. SUFFICES ASSUME (k + 1) + 1 <= N, RunOf(p, (k + 1) + 1) > r
                 PROVE  Meet
    OBVIOUS
  <2>2. k + 1 \in 1..(N - 1) /\ k + 1 \in 1..N /\ k + 1 <= N /\ (k + 1) + 1 \in 1..N
    BY <1>1, <2>1
  <2>3. RunOf(p, (k + 1) + 1) = RunOf(p, k + 1) + (IF p[k + 1] = p[(k + 1) + 1] THEN 0 ELSE 1)
    BY <2>2, RunsStep
  <2>4. RunOf(p, k + 1) \in Nat
    BY <2>2, RunsStep
  <2>5. CASE RunOf(p, k + 1) > r
    BY <1>3, <2>2, <2>5
  <2>6. CASE ~(RunOf(p, k + 1) > r)
    <3>1. RunOf(p, k + 1) = r /\ RunOf(p, (k + 1) + 1) = r + 1
      BY <2>1, <2>3, <2>4, <2>6
    <3>2. QED
      BY <2>2, <3>1
  <2>7. QED
    BY <2>5, <2>6
<1> HIDE DEF T, Meet
<1>4. n - 1 \in Nat /\ (n - 1) + 1 = n /\ n <= N
  OBVIOUS
<1>5. n - 1 \in T
  BY <1>2, <1>3, <1>4, Advance!Induction
<1>6. Meet
  BY <1>4, <1>5 DEF T
<1>7. QED
  BY <1>6 DEF Meet

\* The runs are numbered from 1 without a gap.
LEMMA RunsAreNumbered ==
    ASSUME NEW N, NEW p, IsPath(p, N)
    PROVE  Cardinality({RunOf(p, n) : n \in 1..N}) = RunOf(p, N)
<1>1. N \in Nat /\ N > 0 /\ N \in 1..N /\ 1 \in 1..N
  BY DEF IsPath
<1>2. RunOf(p, N) \in Nat \ {0}
  BY <1>1, RunsStep
<1> DEFINE All == {RunOf(p, n) : n \in 1..N}
           K == RunOf(p, N)
<1>3. All \subseteq 1..K
  <2>1. SUFFICES ASSUME NEW n \in 1..N
                 PROVE  RunOf(p, n) \in 1..K
    OBVIOUS
  <2>2. RunOf(p, n) \in Nat \ {0} /\ RunOf(p, n) <= RunOf(p, N)
    BY <1>1, RunsStep, RunsClimb
  <2>3. QED
    BY <1>2, <2>2
<1> DEFINE T == {k \in Nat : k < K => K - k \in All}
<1>4. 0 \in T
  BY <1>1, <1>2
<1>5. ASSUME NEW k \in Nat, k \in T
      PROVE  k + 1 \in T
  <2>1. SUFFICES ASSUME k + 1 < K PROVE K - (k + 1) \in All
    OBVIOUS
  <2>2. k < K
    BY <1>2, <2>1
  <2>3. PICK n \in 1..N : RunOf(p, n) = K - k
    BY <1>5, <2>2
  <2>4. K - (k + 1) \in Nat \ {0} /\ RunOf(p, n) = (K - (k + 1)) + 1
    BY <1>2, <2>1, <2>3
  <2>5. PICK m \in 1..(N - 1) : RunOf(p, m) = K - (k + 1)
    BY <2>4, RunsMeet
  <2>6. m \in 1..N
    BY <1>1
  <2>7. QED
    BY <2>5, <2>6
<1> HIDE DEF T
<1>6. Nat \subseteq T
  BY <1>4, <1>5, Advance!Induction
<1>7. 1..K \subseteq All
  <2>1. SUFFICES ASSUME NEW r \in 1..K PROVE r \in All
    OBVIOUS
  <2>2. K - r \in Nat /\ K - r < K /\ K - (K - r) = r
    BY <1>2
  <2>3. QED
    BY <1>6, <2>2 DEF T
<1>8. All = 1..K
  BY <1>3, <1>7
<1>9. Cardinality(1..K) = K
  BY <1>2, FS_Interval
<1>10. QED
  BY <1>8, <1>9

\* In a path in the order of the phases no window is in an earlier one.
LEMMA PathClimbs ==
    ASSUME NEW N, NEW p, IsPath(p, N), \A n \in 1..(N - 1) : p[n] <= p[n + 1],
           NEW m \in 1..N, NEW n \in 1..N, m <= n
    PROVE  p[m] <= p[n]
<1>1. N \in Nat /\ \A o \in 1..N : p[o] \in Int
  BY DEF IsPath
<1> DEFINE T == {k \in Nat : m + k <= N => p[m] <= p[m + k]}
<1>2. 0 \in T
  <2>1. m + 0 = m /\ p[m] <= p[m]
    BY <1>1
  <2>2. QED
    BY <2>1
<1>3. ASSUME NEW k \in Nat, k \in T
      PROVE  k + 1 \in T
  <2>1. SUFFICES ASSUME m + (k + 1) <= N PROVE p[m] <= p[m + (k + 1)]
    OBVIOUS
  <2>2. m + k \in 1..(N - 1) /\ m + k \in 1..N /\ (m + k) + 1 = m + (k + 1)
        /\ (m + k) + 1 \in 1..N /\ m + k <= N
    BY <1>1, <2>1
  <2>3. p[m] <= p[m + k] /\ p[m + k] <= p[(m + k) + 1]
    BY <1>3, <2>2
  <2>4. p[m] \in Int /\ p[m + k] \in Int /\ p[(m + k) + 1] \in Int
    BY <1>1, <2>2
  <2>5. p[m] <= p[(m + k) + 1]
    BY <2>3, <2>4
  <2>6. QED
    BY <2>2, <2>5
<1> HIDE DEF T
<1>4. n - m \in Nat /\ m + (n - m) = n /\ n <= N
  OBVIOUS
<1>5. n - m \in T
  BY <1>2, <1>3, <1>4, Advance!Induction
<1>6. QED
  BY <1>4, <1>5 DEF T

-----------------------------------------------------------------------------
(* The passes over a flight (MinDwell).                                     *)

CONSTANTS MinDwellWindows, FittedWindowCount

VARIABLES dwellCosts, dwellPath, dwellReturned

\* The loop over one flight of the batch.
Dwelling == INSTANCE MinDwell WITH
                costs <- dwellCosts, path <- dwellPath, finished <- dwellReturned,
                Flights <- {f.costs : f \in Flights}

\* MinDwell counts as this module does.
LEMMA DwellCounts == \A S : Dwelling!Cardinality(S) = Cardinality(S)
  BY DEF Dwelling!Cardinality, Cardinality

\* The runs of MinDwell are those counted above.
LEMMA RunsOfPath ==
    ASSUME NEW N, IsPath(dwellPath, N)
    PROVE  /\ DOMAIN dwellPath = 1..N
           /\ \A n \in 1..N : Dwelling!RunId(n) = RunOf(dwellPath, n)
           /\ Dwelling!RunIds = {RunOf(dwellPath, n) : n \in 1..N}
           /\ \A n \in 1..N : Dwelling!RunPhase(RunOf(dwellPath, n)) = dwellPath[n]
<1>1. DOMAIN dwellPath = 1..N
  BY DEF IsPath
<1>2. \A n \in 1..N : Dwelling!RunId(n) = RunOf(dwellPath, n)
  BY DwellCounts DEF Dwelling!RunId, RunOf, Starts
<1>3. Dwelling!RunIds = {RunOf(dwellPath, n) : n \in 1..N}
  BY <1>1, <1>2 DEF Dwelling!RunIds
<1>4. ASSUME NEW n \in 1..N
      PROVE  Dwelling!RunPhase(RunOf(dwellPath, n)) = dwellPath[n]
  <2> DEFINE rows == Dwelling!RunRows(RunOf(dwellPath, n))
             c == CHOOSE o \in rows : TRUE
  <2>1. n \in rows
    BY <1>1, <1>2 DEF Dwelling!RunRows
  <2>2. c \in rows
    <3> HIDE DEF rows
    <3>1. QED
      BY <2>1
  <2>3. c \in 1..N /\ RunOf(dwellPath, c) = RunOf(dwellPath, n)
    BY <1>1, <1>2, <2>2 DEF Dwelling!RunRows
  <2>4. Dwelling!RunPhase(RunOf(dwellPath, n)) = dwellPath[c]
    BY DEF Dwelling!RunPhase
  <2> HIDE DEF c, rows
  <2>5. N \in Nat
    BY DEF IsPath
  <2>6. c <= n \/ n <= c
    BY <2>3, <2>5
  <2>7. dwellPath[c] = dwellPath[n]
    BY <2>3, <2>6, RunsClimb
  <2>8. QED
    BY <2>4, <2>7
<1>5. QED
  BY <1>1, <1>2, <1>3, <1>4

\* A short run is between two runs, and its windows get the phase of one of
\* them; the windows of the other runs keep theirs (Passed).
LEMMA PassIs ==
    ASSUME NEW N, IsPath(dwellPath, N), NEW q, q = Dwelling!Passed
    PROVE  /\ IsPath(q, N)
           /\ \A n \in 1..N : RunOf(dwellPath, n) \notin Dwelling!ShortRuns => q[n] = dwellPath[n]
           /\ \A n \in 1..N : RunOf(dwellPath, n) \in Dwelling!ShortRuns =>
                q[n] = Dwelling!Replacement(RunOf(dwellPath, n))
           /\ \A r \in Dwelling!ShortRuns :
                \E b, a \in 1..N :
                    /\ RunOf(dwellPath, b) = r - 1 /\ RunOf(dwellPath, a) = r + 1
                    /\ r \in Nat \ {0} /\ r - 1 \in Nat \ {0}
                    /\ Dwelling!Replacement(r) \in {dwellPath[b], dwellPath[a]}
<1>1. N \in Nat \ {0} /\ \A n \in 1..N : dwellPath[n] \in Int
  BY DEF IsPath
<1>2. /\ DOMAIN q = 1..N
      /\ \A n \in 1..N : q[n] = IF RunOf(dwellPath, n) \in Dwelling!ShortRuns
                                THEN Dwelling!Replacement(RunOf(dwellPath, n)) ELSE dwellPath[n]
      /\ q \in [1..N -> {q[n] : n \in 1..N}]
  BY RunsOfPath DEF Dwelling!Passed
<1>3. ASSUME NEW r \in Dwelling!ShortRuns
      PROVE  \E b, a \in 1..N :
                /\ RunOf(dwellPath, b) = r - 1 /\ RunOf(dwellPath, a) = r + 1
                /\ r \in Nat \ {0} /\ r - 1 \in Nat \ {0}
                /\ Dwelling!Replacement(r) \in {dwellPath[b], dwellPath[a]}
  <2>1. r \in Dwelling!RunIds /\ r - 1 \in Dwelling!RunIds /\ r + 1 \in Dwelling!RunIds
    BY DEF Dwelling!ShortRuns, Dwelling!Interior
  <2>2. PICK b \in 1..N, o \in 1..N, a \in 1..N :
           RunOf(dwellPath, b) = r - 1 /\ RunOf(dwellPath, o) = r /\ RunOf(dwellPath, a) = r + 1
    BY <2>1, RunsOfPath
  <2>3. r \in Nat \ {0} /\ r - 1 \in Nat \ {0}
    BY <2>2, RunsStep
  <2>4. Dwelling!RunPhase(r - 1) = dwellPath[b] /\ Dwelling!RunPhase(r + 1) = dwellPath[a]
    BY <2>2, RunsOfPath
  <2>5. Dwelling!Replacement(r) \in {dwellPath[b], dwellPath[a]}
    BY <2>1, <2>4 DEF Dwelling!Replacement
  <2>6. QED
    BY <2>2, <2>3, <2>5
<1>4. \A n \in 1..N : q[n] \in Int
  <2>1. SUFFICES ASSUME NEW n \in 1..N PROVE q[n] \in Int
    OBVIOUS
  <2>2. CASE RunOf(dwellPath, n) \in Dwelling!ShortRuns
    <3>1. \E b, a \in 1..N : Dwelling!Replacement(RunOf(dwellPath, n)) \in {dwellPath[b], dwellPath[a]}
      BY <1>3, <2>2
    <3>2. QED
      BY <1>1, <1>2, <2>2, <3>1
  <2>3. CASE RunOf(dwellPath, n) \notin Dwelling!ShortRuns
    BY <1>1, <1>2, <2>3
  <2>4. QED
    BY <2>2, <2>3
<1>5. IsPath(q, N)
  BY <1>1, <1>2, <1>4 DEF IsPath
<1>6. QED
  BY <1>2, <1>3, <1>5

\* A pass begins no run that was not there before it (Passed).
LEMMA PassSplitsNoRun ==
    ASSUME NEW N, IsPath(dwellPath, N), NEW q, q = Dwelling!Passed
    PROVE  Starts(q, N) \subseteq Starts(dwellPath, N)
<1>1. N \in Nat \ {0}
  BY DEF IsPath
<1>2. SUFFICES ASSUME NEW m \in 1..N, m # 1, dwellPath[m - 1] = dwellPath[m]
               PROVE  q[m - 1] = q[m]
  BY DEF Starts
<1>3. PICK n \in 1..(N - 1) : n = m - 1 /\ n + 1 = m /\ n \in 1..N
  BY <1>1, <1>2
<1>4. RunOf(dwellPath, m) = RunOf(dwellPath, n) + 0 /\ RunOf(dwellPath, n) \in Nat
  BY <1>2, <1>3, RunsStep
<1>5. RunOf(dwellPath, m) = RunOf(dwellPath, n)
  BY <1>4
<1>6. QED
  BY <1>2, <1>3, <1>5, PassIs

\* The phases of two runs are in the order of the runs.
LEMMA RunsAreInOrder ==
    ASSUME NEW N, NEW p, IsPath(p, N), \A n \in 1..(N - 1) : p[n] <= p[n + 1],
           NEW b \in 1..N, NEW a \in 1..N, RunOf(p, b) < RunOf(p, a)
    PROVE  p[b] <= p[a]
<1>1. N \in Nat /\ RunOf(p, a) \in Nat /\ RunOf(p, b) \in Nat
  BY RunsStep DEF IsPath
<1>2. ~(a <= b)
  BY <1>1, RunsClimb
<1>3. b <= a
  BY <1>1, <1>2
<1>4. QED
  BY <1>3, PathClimbs

\* Where no two short runs are neighbours, a pass keeps the phases in order
\* and leaves fewer runs than it found.
LEMMA PassMerges ==
    ASSUME NEW N, IsPath(dwellPath, N), NEW q, q = Dwelling!Passed,
           ~Dwelling!Adjacent, Dwelling!ShortRuns # {}
    PROVE  /\ (\A n \in 1..(N - 1) : dwellPath[n] <= dwellPath[n + 1])
                  => \A n \in 1..(N - 1) : q[n] <= q[n + 1]
           /\ RunOf(q, N) < RunOf(dwellPath, N)
<1>1. N \in Nat \ {0} /\ N \in 1..N /\ \A n \in 1..N : dwellPath[n] \in Int
  BY DEF IsPath
<1>2. \A n \in 1..N : RunOf(dwellPath, n) \in Nat \ {0}
  BY RunsStep
<1>3. \A r : r \in Dwelling!ShortRuns => r + 1 \notin Dwelling!ShortRuns
  BY DEF Dwelling!Adjacent
<1>4. ASSUME \A n \in 1..(N - 1) : dwellPath[n] <= dwellPath[n + 1], NEW n \in 1..(N - 1)
      PROVE  q[n] <= q[n + 1]
  <2>1. n \in 1..N /\ n + 1 \in 1..N
    BY <1>1
  <2>2. PICK r : r = RunOf(dwellPath, n)
    OBVIOUS
  <2>3. r \in Nat
    BY <1>2, <2>1, <2>2
  <2>4. CASE dwellPath[n] = dwellPath[n + 1]
    <3>1. RunOf(dwellPath, n + 1) = r + 0
      BY <2>2, <2>4, RunsStep
    <3>2. RunOf(dwellPath, n + 1) = r
      BY <2>3, <3>1
    <3>3. q[n] = q[n + 1]
      BY <2>1, <2>2, <2>4, <3>2, PassIs
    <3>4. q[n] \in Int
      <4>1. IsPath(q, N)
        BY PassIs
      <4>2. QED
        BY <2>1, <4>1 DEF IsPath
    <3>5. QED
      BY <3>3, <3>4
  <2>5. CASE dwellPath[n] # dwellPath[n + 1]
    <3>1. RunOf(dwellPath, n + 1) = r + 1
      BY <2>2, <2>5, RunsStep
    <3>2. CASE r \in Dwelling!ShortRuns
      <4>1. r + 1 \notin Dwelling!ShortRuns
        BY <1>3, <3>2
      <4>2. q[n + 1] = dwellPath[n + 1] /\ q[n] = Dwelling!Replacement(r)
        BY <2>1, <2>2, <3>1, <3>2, <4>1, PassIs
      <4>3. PICK b, a \in 1..N :
               /\ RunOf(dwellPath, b) = r - 1 /\ RunOf(dwellPath, a) = r + 1
               /\ Dwelling!Replacement(r) \in {dwellPath[b], dwellPath[a]}
        BY <3>2, PassIs
      <4>4. dwellPath[b] <= dwellPath[n + 1]
        <5>1. RunOf(dwellPath, b) < RunOf(dwellPath, n + 1)
          BY <2>3, <3>1, <4>3
        <5>2. QED
          BY <1>4, <2>1, <5>1, RunsAreInOrder
      <4>5. dwellPath[a] = dwellPath[n + 1]
        <5>1. RunOf(dwellPath, a) = RunOf(dwellPath, n + 1)
          BY <3>1, <4>3
        <5>2. a <= n + 1 \/ n + 1 <= a
          BY <1>1
        <5>3. QED
          BY <2>1, <5>1, <5>2, RunsClimb
      <4>6. dwellPath[a] <= dwellPath[n + 1]
        BY <1>1, <2>1, <4>5
      <4>7. QED
        BY <4>2, <4>3, <4>4, <4>6
    <3>3. CASE r \notin Dwelling!ShortRuns /\ r + 1 \in Dwelling!ShortRuns
      <4>1. q[n] = dwellPath[n] /\ q[n + 1] = Dwelling!Replacement(r + 1)
        BY <2>1, <2>2, <3>1, <3>3, PassIs
      <4>2. PICK b, a \in 1..N :
               /\ RunOf(dwellPath, b) = (r + 1) - 1 /\ RunOf(dwellPath, a) = (r + 1) + 1
               /\ Dwelling!Replacement(r + 1) \in {dwellPath[b], dwellPath[a]}
        BY <3>3, PassIs
      <4>3. dwellPath[n] <= dwellPath[a]
        <5>1. RunOf(dwellPath, n) < RunOf(dwellPath, a)
          BY <2>2, <2>3, <4>2
        <5>2. QED
          BY <1>4, <2>1, <5>1, RunsAreInOrder
      <4>4. dwellPath[b] = dwellPath[n]
        <5>1. RunOf(dwellPath, b) = RunOf(dwellPath, n)
          BY <2>2, <2>3, <4>2
        <5>2. b <= n \/ n <= b
          BY <1>1
        <5>3. QED
          BY <2>1, <5>1, <5>2, RunsClimb
      <4>5. dwellPath[n] <= dwellPath[b]
        BY <1>1, <2>1, <4>4
      <4>6. QED
        BY <4>1, <4>2, <4>3, <4>5
    <3>4. CASE r \notin Dwelling!ShortRuns /\ r + 1 \notin Dwelling!ShortRuns
      <4>1. q[n] = dwellPath[n] /\ q[n + 1] = dwellPath[n + 1]
        BY <2>1, <2>2, <3>1, <3>4, PassIs
      <4>2. QED
        BY <1>4, <4>1
    <3>5. QED
      BY <3>2, <3>3, <3>4
  <2>6. QED
    BY <2>4, <2>5
<1>5. \E m \in 1..(N - 1) : dwellPath[m] # dwellPath[m + 1] /\ q[m] = q[m + 1]
  <2>1. PICK r : r \in Dwelling!ShortRuns
    OBVIOUS
  <2>2. PICK b, a \in 1..N :
           /\ RunOf(dwellPath, b) = r - 1 /\ RunOf(dwellPath, a) = r + 1
           /\ r \in Nat \ {0} /\ r - 1 \in Nat \ {0}
           /\ Dwelling!Replacement(r) \in {dwellPath[b], dwellPath[a]}
    BY <2>1, PassIs
  <2>3. r + 1 \notin Dwelling!ShortRuns
    BY <1>3, <2>1
  <2>4. r - 1 \notin Dwelling!ShortRuns
    <3>1. (r - 1) + 1 = r
      BY <2>2
    <3>2. QED
      BY <1>3, <2>1, <3>1
  <2>5. CASE Dwelling!Replacement(r) = dwellPath[b]
    <3>1. PICK o \in 1..N : RunOf(dwellPath, o) = r
      <4>1. r \in Dwelling!RunIds
        BY <2>1 DEF Dwelling!ShortRuns
      <4>2. QED
        BY <4>1, RunsOfPath
    <3>2. RunOf(dwellPath, o) = (r - 1) + 1
      BY <2>2, <3>1
    <3>3. PICK m \in 1..(N - 1) : RunOf(dwellPath, m) = r - 1 /\ RunOf(dwellPath, m + 1) = (r - 1) + 1
      BY <2>2, <3>2, RunsMeet
    <3>4. m \in 1..N /\ m + 1 \in 1..N /\ (r - 1) + 1 = r /\ r - 1 # r
      BY <1>1, <2>2
    <3>5. q[m] = dwellPath[m] /\ q[m + 1] = dwellPath[b]
      BY <2>1, <2>4, <2>5, <3>3, <3>4, PassIs
    <3>6. dwellPath[m] = dwellPath[b]
      <4>1. m <= b \/ b <= m
        BY <1>1
      <4>2. QED
        BY <2>2, <3>3, <3>4, <4>1, RunsClimb
    <3>7. dwellPath[m] # dwellPath[m + 1]
      <4>1. RunOf(dwellPath, m + 1) =
               RunOf(dwellPath, m) + (IF dwellPath[m] = dwellPath[m + 1] THEN 0 ELSE 1)
        BY RunsStep
      <4>2. QED
        BY <2>2, <3>3, <3>4, <4>1
    <3>8. QED
      BY <3>5, <3>6, <3>7
  <2>6. CASE Dwelling!Replacement(r) = dwellPath[a]
    <3>1. PICK m \in 1..(N - 1) : RunOf(dwellPath, m) = r /\ RunOf(dwellPath, m + 1) = r + 1
      BY <2>2, RunsMeet
    <3>2. m \in 1..N /\ m + 1 \in 1..N /\ r + 1 # r
      BY <1>1, <2>2
    <3>3. q[m + 1] = dwellPath[m + 1] /\ q[m] = dwellPath[a]
      BY <2>1, <2>3, <2>6, <3>1, <3>2, PassIs
    <3>4. dwellPath[m + 1] = dwellPath[a]
      <4>1. m + 1 <= a \/ a <= m + 1
        BY <1>1
      <4>2. QED
        BY <2>2, <3>1, <3>2, <4>1, RunsClimb
    <3>5. dwellPath[m] # dwellPath[m + 1]
      <4>1. RunOf(dwellPath, m + 1) =
               RunOf(dwellPath, m) + (IF dwellPath[m] = dwellPath[m + 1] THEN 0 ELSE 1)
        BY RunsStep
      <4>2. QED
        BY <2>2, <3>1, <3>2, <4>1
    <3>6. QED
      BY <3>3, <3>4, <3>5
  <2>7. QED
    BY <2>2, <2>5, <2>6
<1>6. RunOf(q, N) < RunOf(dwellPath, N)
  <2>1. PICK m \in 1..(N - 1) : dwellPath[m] # dwellPath[m + 1] /\ q[m] = q[m + 1]
    BY <1>5
  <2>2. m + 1 \in 1..N /\ (m + 1) - 1 = m /\ m + 1 # 1
    BY <1>1
  <2>3. m + 1 \in Starts(dwellPath, N) /\ m + 1 \notin Starts(q, N)
    BY <2>1, <2>2 DEF Starts
  <2>4. Starts(q, N) \subseteq Starts(dwellPath, N) /\ Starts(q, N) # Starts(dwellPath, N)
    BY <2>3, PassSplitsNoRun
  <2>5. IsFiniteSet(Starts(dwellPath, N))
    BY <1>1, RunsStep
  <2>6. RunOf(q, N) \in Nat /\ RunOf(dwellPath, N) \in Nat
    <3>1. IsPath(q, N)
      BY PassIs
    <3>2. QED
      BY <1>1, <1>2, <3>1, RunsStep
  <2>7. /\ Cardinality(Starts(q, N)) <= Cardinality(Starts(dwellPath, N))
        /\ Cardinality(Starts(q, N)) # Cardinality(Starts(dwellPath, N))
    BY <2>4, <2>5, FS_Subset
  <2>8. QED
    BY <2>6, <2>7 DEF RunOf
<1>7. QED
  BY <1>4, <1>6

-----------------------------------------------------------------------------
(* The loop.                                                                *)

\* The decode of a whole flight is a path through its windows (Decoded).
LEMMA DecodedIsPath ==
    ASSUME NEW f \in Flights
    PROVE  \E N : IsPath(Dwelling!Decoded(f.costs), N)
<1> DEFINE C == f.costs
           m == PhaseCount(f) - 1
           N == Len(C)
           acc == AdvanceWindows(Uninitialized, C)
<1>1. m \in Nat /\ C \in Seq(Vectors(m)) /\ N \in Nat \ {0}
  BY FlightTyped
<1>2. Dwelling!Decoded(C) = FinalPath(acc)
  BY DEF Dwelling!Decoded, Dwelling!FinalPath, Dwelling!FinalPhase, Dwelling!AdvanceWindows,
         Dwelling!FoldLeft, Dwelling!MapThenFoldSet, Dwelling!Max, Dwelling!AdvanceWindow,
         Dwelling!FirstWindow, Dwelling!NextWindow, Dwelling!MovesInto, Dwelling!MoveScore,
         Dwelling!StayScore, Dwelling!Uninitialized,
         FinalPath, FinalPhase, AdvanceWindows, FoldLeft, MapThenFoldSet, Max, AdvanceWindow,
         FirstWindow, NextWindow, MovesInto, MoveScore, StayScore, Uninitialized
<1>3. Upto(Uninitialized, C, m, 0)
  BY DEF Upto
<1> HIDE DEF C, m, N
<1>4. 0 \in 0..Len(C) /\ N \in 0..Len(C) /\ Len(C) = N - 0 /\ \A i \in 1..(N - 0) : C[i] = C[0 + i]
  BY <1>1 DEF N
<1>5. Upto(acc, C, m, N)
  BY <1>1, <1>3, <1>4, SegmentIsCheapest
<1> HIDE DEF acc
<1>6. Cheapest(acc, C, m, N)
  BY <1>1, <1>5 DEF Upto
<1>7. FinalPhase(acc) \in 0..m
  BY <1>1, <1>6, FinalPhaseIs DEF Cheapest
<1>8. FinalPath(acc) \in MonotonePaths(SubSeq(C, 1, N))
  BY <1>6, <1>7 DEF Cheapest, FinalPath
<1>9. FinalPath(acc) \in [1..N -> 0..m]
  <2>1. N \in 1..Len(C)
    BY <1>1 DEF N
  <2>2. QED
    BY <1>1, <1>8, <2>1, PathsAre
<1>10. \A p \in 0..m : p \in Int
  BY <1>1
<1>11. IsPath(FinalPath(acc), N)
  BY <1>1, <1>9, <1>10 DEF IsPath
<1>12. QED
  BY <1>2, <1>11 DEF C

\* The path has windows and phases of the decode, and its first and last phase.
KeepsDecode(p, d, N) ==
    /\ IsPath(p, N) /\ IsPath(d, N)
    /\ p[1] = d[1] /\ p[N] = d[N]
    /\ \A n \in 1..N : \E o \in 1..N : p[n] = d[o]

\* A pass leaves the first and the last run alone, and brings in no phase.
LEMMA PassKeepsDecode ==
    ASSUME NEW N, NEW d, KeepsDecode(dwellPath, d, N), NEW q, q = Dwelling!Passed
    PROVE  KeepsDecode(q, d, N)
<1>1. IsPath(dwellPath, N) /\ IsPath(d, N)
  BY DEF KeepsDecode
<1>2. IsPath(q, N)
  BY <1>1, PassIs
<1>3. N \in Nat \ {0} /\ N \in 1..N /\ 1 \in 1..N
  BY <1>1 DEF IsPath
<1>4. \A n \in 1..N : RunOf(dwellPath, n) \in Nat \ {0}
  BY <1>1, RunsStep
<1>5. RunOf(dwellPath, 1) \notin Dwelling!ShortRuns
  <2>1. SUFFICES ASSUME RunOf(dwellPath, 1) \in Dwelling!ShortRuns PROVE FALSE
    OBVIOUS
  <2>2. RunOf(dwellPath, 1) - 1 \in Nat \ {0}
    BY <1>1, <2>1, PassIs
  <2>3. RunOf(dwellPath, 1) = 1
    BY <1>1, RunsStep
  <2>4. QED
    BY <2>2, <2>3
<1>6. RunOf(dwellPath, N) \notin Dwelling!ShortRuns
  <2>1. SUFFICES ASSUME RunOf(dwellPath, N) \in Dwelling!ShortRuns PROVE FALSE
    OBVIOUS
  <2>2. PICK a \in 1..N : RunOf(dwellPath, a) = RunOf(dwellPath, N) + 1
    BY <1>1, <2>1, PassIs
  <2>3. a <= N
    BY <1>3
  <2>4. RunOf(dwellPath, a) <= RunOf(dwellPath, N)
    BY <1>1, <1>3, <2>3, RunsClimb
  <2>5. QED
    BY <1>3, <1>4, <2>2, <2>4
<1>7. q[1] = dwellPath[1] /\ q[N] = dwellPath[N]
  BY <1>1, <1>3, <1>5, <1>6, PassIs
<1>8. \A n \in 1..N : \E o \in 1..N : q[n] = dwellPath[o]
  BY <1>1, PassIs
<1>9. QED
  BY <1>1, <1>2, <1>7, <1>8 DEF KeepsDecode

\* Invariant of the loop; it returns only from a path without short runs.
DwellInv ==
    /\ \E N : KeepsDecode(dwellPath, Dwelling!Decoded(dwellCosts), N)
    /\ dwellReturned => Dwelling!NothingToReplace

\* What is left to replace depends on the flight and its path alone.
LEMMA StandsStill ==
    ASSUME dwellPath' = dwellPath, dwellCosts' = dwellCosts
    PROVE  Dwelling!NothingToReplace' = Dwelling!NothingToReplace
<1>1. \A n : Dwelling!RunId(n)' = Dwelling!RunId(n)
  BY DEF Dwelling!RunId
<1>2. Dwelling!RunIds' = Dwelling!RunIds
  BY <1>1 DEF Dwelling!RunIds
<1>3. \A r : Dwelling!RunRows(r)' = Dwelling!RunRows(r)
  BY <1>1 DEF Dwelling!RunRows
<1>4. Dwelling!DwellLimit' = Dwelling!DwellLimit
  BY DEF Dwelling!DwellLimit, Dwelling!Phases
<1>5. Dwelling!ShortRuns' = Dwelling!ShortRuns
  BY <1>2, <1>3, <1>4 DEF Dwelling!ShortRuns, Dwelling!Interior
<1>6. QED
  BY <1>5 DEF Dwelling!NothingToReplace

LEMMA DwellInvariance == Dwelling!Spec => []DwellInv
<1>1. Dwelling!Init => DwellInv
  <2>1. SUFFICES ASSUME Dwelling!Init PROVE DwellInv
    OBVIOUS
  <2>2. PICK f \in Flights : dwellCosts = f.costs
    BY <2>1 DEF Dwelling!Init
  <2>3. PICK d : d = Dwelling!Decoded(dwellCosts)
    OBVIOUS
  <2>4. PICK N : IsPath(d, N)
    BY <2>2, <2>3, DecodedIsPath
  <2>5. dwellPath = d /\ dwellReturned = FALSE
    BY <2>1, <2>3 DEF Dwelling!Init
  <2>6. KeepsDecode(dwellPath, d, N)
    BY <2>4, <2>5 DEF KeepsDecode
  <2>7. QED
    BY <2>3, <2>5, <2>6 DEF DwellInv
<1>2. DwellInv /\ [Dwelling!Next]_(Dwelling!vars) => DwellInv'
  <2>1. SUFFICES ASSUME DwellInv, [Dwelling!Next]_(Dwelling!vars)
                 PROVE  DwellInv'
    OBVIOUS
  <2>2. CASE Dwelling!Pass
    <3>1. PICK d : d = Dwelling!Decoded(dwellCosts)
      OBVIOUS
    <3>2. PICK N : KeepsDecode(dwellPath, d, N)
      BY <2>1, <3>1 DEF DwellInv
    <3>3. dwellPath' = Dwelling!Passed /\ dwellReturned' = FALSE /\ dwellCosts' = dwellCosts
      BY <2>1, <2>2 DEF Dwelling!Pass
    <3>4. KeepsDecode(dwellPath', d, N)
      BY <3>2, <3>3, PassKeepsDecode
    <3>5. Dwelling!Decoded(dwellCosts)' = d
      BY <3>1, <3>3
    <3>6. QED
      BY <3>3, <3>4, <3>5 DEF DwellInv
  <2>3. CASE Dwelling!Return
    <3>1. /\ dwellPath' = dwellPath /\ dwellCosts' = dwellCosts /\ Dwelling!NothingToReplace
      BY <2>3 DEF Dwelling!Return
    <3>2. QED
      BY <2>1, <3>1, StandsStill DEF DwellInv
  <2>4. CASE UNCHANGED Dwelling!vars
    <3>1. dwellPath' = dwellPath /\ dwellCosts' = dwellCosts /\ dwellReturned' = dwellReturned
      BY <2>4 DEF Dwelling!vars
    <3>2. QED
      BY <2>1, <3>1, StandsStill DEF DwellInv
  <2>5. QED
    BY <2>1, <2>2, <2>3, <2>4 DEF Dwelling!Next
<1>3. QED
  BY <1>1, <1>2, PTL DEF Dwelling!Spec

\* When the loop over a flight returns, no interior run of its phases is shorter
\* than the limit, unless the plan asks for no minimum; and all along the flight
\* begins and ends in the phases of its decode and has no other phases than the
\* decode gave it (enforce_min_dwell).
THEOREM DwellHoldsOnReturn ==
    Dwelling!Spec =>
        [](/\ \E N : KeepsDecode(dwellPath, Dwelling!Decoded(dwellCosts), N)
           /\ dwellReturned => Dwelling!NothingToReplace)
<1>1. DwellInv => /\ \E N : KeepsDecode(dwellPath, Dwelling!Decoded(dwellCosts), N)
                  /\ dwellReturned => Dwelling!NothingToReplace
  BY DEF DwellInv
<1>2. QED
  BY <1>1, DwellInvariance, PTL

\* A pass never leaves more runs of equal phases than it found; where no two short
\* runs are neighbours it leaves fewer, and the phases in order if they were so
\* before it: a pass that does not make progress swaps neighbours (enforce_min_dwell).
THEOREM PassesMergeRuns ==
    Dwelling!Spec =>
        [][/\ Cardinality(Dwelling!RunIds') <= Cardinality(Dwelling!RunIds)
           /\ dwellPath' # dwellPath /\ ~Dwelling!Adjacent =>
                /\ Cardinality(Dwelling!RunIds') < Cardinality(Dwelling!RunIds)
                /\ Dwelling!Ordered(dwellPath) => Dwelling!Ordered(dwellPath')]_dwellPath
<1> DEFINE Merges ==
        /\ Cardinality(Dwelling!RunIds') <= Cardinality(Dwelling!RunIds)
        /\ dwellPath' # dwellPath /\ ~Dwelling!Adjacent =>
             /\ Cardinality(Dwelling!RunIds') < Cardinality(Dwelling!RunIds)
             /\ Dwelling!Ordered(dwellPath) => Dwelling!Ordered(dwellPath')
<1>1. DwellInv /\ [Dwelling!Next]_(Dwelling!vars) => [Merges]_dwellPath
  <2>1. SUFFICES ASSUME DwellInv, Dwelling!Pass
                 PROVE  Merges
    BY DEF Dwelling!Next, Dwelling!Return, Dwelling!vars
  <2>2. PICK N : IsPath(dwellPath, N)
    BY <2>1 DEF DwellInv, KeepsDecode
  <2>3. PICK q : q = dwellPath'
    OBVIOUS
  <2>4. q = Dwelling!Passed /\ Dwelling!ShortRuns # {}
    BY <2>1, <2>3 DEF Dwelling!Pass, Dwelling!NothingToReplace
  <2>5. IsPath(q, N)
    BY <2>2, <2>4, PassIs
  <2>6. N \in Nat \ {0} /\ N \in 1..N /\ DOMAIN q = 1..N /\ DOMAIN dwellPath = 1..N
    BY <2>2, <2>5 DEF IsPath
  <2>7. Cardinality(Dwelling!RunIds) = RunOf(dwellPath, N)
    <3>1. Dwelling!RunIds = {RunOf(dwellPath, n) : n \in 1..N}
      BY <2>2, RunsOfPath
    <3>2. QED
      BY <2>2, <3>1, RunsAreNumbered
  <2>8. Cardinality(Dwelling!RunIds') = RunOf(q, N)
    <3>1. Dwelling!RunIds' = {RunOf(q, n) : n \in 1..N}
      BY <2>3, <2>6, DwellCounts DEF Dwelling!RunIds, Dwelling!RunId, RunOf, Starts
    <3>2. Cardinality({RunOf(q, n) : n \in 1..N}) = RunOf(q, N)
      BY <2>5, RunsAreNumbered
    <3>3. QED
      BY <3>1, <3>2
  <2>9. RunOf(q, N) <= RunOf(dwellPath, N)
    <3>1. Starts(q, N) \subseteq Starts(dwellPath, N)
      BY <2>2, <2>4, PassSplitsNoRun
    <3>2. IsFiniteSet(Starts(dwellPath, N))
      BY <2>2, <2>6, RunsStep
    <3>3. QED
      BY <3>1, <3>2, FS_Subset DEF RunOf
  <2>10. ASSUME ~Dwelling!Adjacent
         PROVE  /\ RunOf(q, N) < RunOf(dwellPath, N)
                /\ Dwelling!Ordered(dwellPath) => Dwelling!Ordered(q)
    <3>1. Len(dwellPath) = N /\ Len(q) = N
      BY <2>2, <2>5, <2>6 DEF IsPath
    <3>2. /\ Dwelling!Ordered(dwellPath) <=> \A n \in 1..(N - 1) : dwellPath[n] <= dwellPath[n + 1]
          /\ Dwelling!Ordered(q) <=> \A n \in 1..(N - 1) : q[n] <= q[n + 1]
      BY <3>1 DEF Dwelling!Ordered
    <3>3. QED
      BY <2>2, <2>4, <2>10, <3>2, PassMerges
  <2>11. QED
    BY <2>3, <2>7, <2>8, <2>9, <2>10
<1> HIDE DEF Merges
<1>2. Dwelling!Spec => [][Merges]_dwellPath
  BY <1>1, DwellInvariance, PTL DEF Dwelling!Spec
<1>3. QED
  BY <1>2 DEF Merges
=============================================================================
