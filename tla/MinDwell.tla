------------------------------- MODULE MinDwell -------------------------------
(***************************************************************************)
(* enforce_min_dwell (libs/phase/decode.py): a `while True' loop in which   *)
(* every pass gives all the short interior runs of equal phases to one of   *)
(* their neighbours at once, until a pass finds none.  One flight; the loop *)
(* of the code runs until no flight of the batch has a run to replace.      *)
(***************************************************************************)
EXTENDS PhaseViterbi

CONSTANTS
    MinDwellWindows,   \* PhasePlanConfig.phase_min_dwell_windows
    FittedWindowCount, \* flight_window_count of the flight the model was fitted on
    Flights            \* the phase_costs of the windows of a flight

VARIABLES
    costs,     \* the flight
    path,      \* phase_id_detected of each window
    finished   \* the loop has returned

vars == <<costs, path, finished>>

AtLeastOne(n) == IF n > 1 THEN n ELSE 1

\* The dwell_limit column: short flights have a lower limit.
DwellLimit ==
    LET fitted == AtLeastOne(FittedWindowCount \div (2 * Cardinality(Phases(costs))))
    IN  IF AtLeastOne(MinDwellWindows) < fitted THEN AtLeastOne(MinDwellWindows)
        ELSE fitted

Init ==
    /\ costs \in Flights
    /\ path = Decoded(costs)
    /\ finished = FALSE

\* phase_run_id: runs of equal phases, numbered from 1.
RunId(n) == Cardinality({m \in 1..n : m = 1 \/ path[m - 1] # path[m]})
RunIds == {RunId(n) : n \in DOMAIN path}
RunRows(r) == {n \in DOMAIN path : RunId(n) = r}
RunPhase(r) == path[CHOOSE n \in RunRows(r) : TRUE]

Interior(r) == r - 1 \in RunIds /\ r + 1 \in RunIds

CostOf(r, p) == MapThenSumSet(LAMBDA n : costs[n][p], RunRows(r))

ShortRuns ==
    {r \in RunIds : Interior(r) /\ Cardinality(RunRows(r)) < DwellLimit}

\* Mutant of Replacement: the left neighbour is taken two runs away.
ReplacementFromFar(r) ==
    LET left == RunPhase(IF r - 2 \in RunIds THEN r - 2 ELSE r - 1)
        right == RunPhase(IF r + 1 \in RunIds THEN r + 1 ELSE r - 1)
    IN  IF CostOf(r, left) <= CostOf(r, right) THEN left ELSE right

\* The cheaper neighbour, a tie to the left one.
Replacement(r) ==
    LET left == RunPhase(r - 1)
        right == RunPhase(IF r + 1 \in RunIds THEN r + 1 ELSE r - 1)
    IN  IF CostOf(r, left) <= CostOf(r, right) THEN left ELSE right

\* The path after a pass.  Neighbouring runs differ, so the filter
\* replacement # run_phase keeps every replacement.
Passed ==
    [n \in DOMAIN path |-> IF RunId(n) \in ShortRuns THEN Replacement(RunId(n)) ELSE path[n]]

NothingToReplace == MinDwellWindows <= 1 \/ ShortRuns = {}

Pass ==
    /\ ~finished
    /\ ~NothingToReplace
    /\ path' = Passed
    /\ UNCHANGED <<costs, finished>>

Return ==
    /\ ~finished
    /\ NothingToReplace
    /\ finished' = TRUE
    /\ UNCHANGED <<costs, path>>

Next == Pass \/ Return

Spec == Init /\ [][Next]_vars
FairSpec == Spec /\ WF_vars(Next)
-----------------------------------------------------------------------------
Ordered(p) == \A n \in 1..(Len(p) - 1) : p[n] <= p[n + 1]

Adjacent == \E r \in ShortRuns : r + 1 \in ShortRuns

\* The loop returns, and then no interior run is shorter than the limit:
\* "minimum-dwell enforcement" (libs/phase/README.md:58).
DwellIsEnforced ==
    <>(finished /\ (MinDwellWindows > 1 => ShortRuns = {}))
=============================================================================
