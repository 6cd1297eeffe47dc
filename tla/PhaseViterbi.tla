----------------------------- MODULE PhaseViterbi -----------------------------
(***************************************************************************)
(* The decode of ordered phases (libs/phase/decode.py, PhaseSequenceState). *)
(* A window is its vector of phase costs; how the costs are computed from   *)
(* distances and progress bands is left out.  Phases are numbered from 0    *)
(* and a path may stay in its phase or move on to the next one, at a        *)
(* penalty (PhaseTransitionModel.allowed_transition_offsets = (0, 1)).      *)
(* An accumulator holds, for every phase p, the best path that ends in p    *)
(* and its score.                                                           *)
(***************************************************************************)
EXTENDS Integers, SequencesExt

CONSTANT TransitionPenalty  \* PhasePlanConfig.phase_transition_penalty

\* The state of a flight whose phase_scores are null.
Uninitialized == [score |-> <<>>, path |-> <<>>]

FirstWindow(cost) ==
    [score |-> cost, path |-> [p \in DOMAIN cost |-> <<p>>]]

StayScore(acc, cost, p) == acc.score[p] + cost[p]
MoveScore(acc, cost, p) == acc.score[p - 1] + cost[p] + TransitionPenalty

\* Mutant of MovesInto: the move into a phase is compared without its penalty.
MovesIntoFreely(acc, cost, p) ==
    p > 0 /\ acc.score[p - 1] < acc.score[p]

\* array_sort of the transition options: the lower score, a tie to offset 0.
\* Phase 0 has no predecessor, and its offset 1 scores `huge'.
MovesInto(acc, cost, p) ==
    p > 0 /\ MoveScore(acc, cost, p) < StayScore(acc, cost, p)

NextWindow(acc, cost) ==
    [score |-> [p \in DOMAIN cost |->
                   IF MovesInto(acc, cost, p) THEN MoveScore(acc, cost, p)
                   ELSE StayScore(acc, cost, p)],
     path  |-> [p \in DOMAIN cost |->
                   Append(acc.path[IF MovesInto(acc, cost, p) THEN p - 1 ELSE p], p)]]

\* The accumulator is initialized if and only if its scores are not null.
AdvanceWindow(acc, cost) ==
    IF acc.score = <<>> THEN FirstWindow(cost) ELSE NextWindow(acc, cost)

\* F.aggregate over the steps of a segment
AdvanceWindows(acc, costs) == FoldLeft(AdvanceWindow, acc, costs)

\* array_position(phase_scores, array_min(phase_scores)): the first best phase.
FinalPhase(acc) ==
    CHOOSE p \in DOMAIN acc.score :
        /\ \A q \in DOMAIN acc.score : acc.score[p] <= acc.score[q]
        /\ \A q \in DOMAIN acc.score : acc.score[q] = acc.score[p] => p <= q

FinalPath(acc) == acc.path[FinalPhase(acc)]

\* The decode of a whole flight.
Decoded(costs) == FinalPath(AdvanceWindows(Uninitialized, costs))
-----------------------------------------------------------------------------
(* The reference: what the decode is to compute.                            *)

Phases(costs) == DOMAIN costs[1]

MonotonePaths(costs) ==
    {path \in [1..Len(costs) -> Phases(costs)] :
        \A n \in 1..(Len(costs) - 1) : path[n + 1] - path[n] \in {0, 1}}

PathCost(costs, path) ==
    LET StepCost(n) ==
            costs[n][path[n]]
              + (IF n > 1 /\ path[n] # path[n - 1] THEN TransitionPenalty ELSE 0)
    IN  FoldLeft(LAMBDA total, n : total + StepCost(n), 0, [n \in DOMAIN costs |-> n])

IsOptimal(costs, path) ==
    /\ path \in MonotonePaths(costs)
    /\ \A other \in MonotonePaths(costs) :
        PathCost(costs, path) <= PathCost(costs, other)
=============================================================================
