--------------------------- MODULE PhaseAssignment ---------------------------
(***************************************************************************)
(* The phases of a batch of flights (libs/phase/pipeline.py): the segmented *)
(* decode of PhaseDecode, whose result is checkpointed, and then the passes *)
(* of MinDwell over all flights at once.  A pass replaces the short runs of *)
(* every flight, and the loop returns when no flight has one: a flight that *)
(* never comes to rest keeps the others waiting.                            *)
(***************************************************************************)
EXTENDS PhaseDecode

CONSTANTS
    MinDwellWindows,   \* PhasePlanConfig.phase_min_dwell_windows
    FittedWindowCount  \* flight_window_count of the flight the model was fitted on

VARIABLES
    detected,   \* phase_id_detected of the windows of each flight
    returned    \* enforce_min_dwell has returned

assignmentVars == <<vars, detected, returned>>

Dwell(k) == INSTANCE MinDwell WITH
                costs <- flight[k].costs, path <- detected[k], finished <- returned,
                Flights <- {f.costs : f \in Flights}

AssignmentInit == Init /\ detected = NothingAssigned /\ returned = FALSE

Decode ==
    /\ Next
    /\ detected' = assigned'
    /\ UNCHANGED returned

Pass ==
    /\ Finished /\ ~returned
    /\ \E k \in Keys : ~Dwell(k)!NothingToReplace
    /\ detected' = [k \in Keys |->
                       IF Dwell(k)!NothingToReplace THEN detected[k] ELSE Dwell(k)!Passed]
    /\ UNCHANGED <<vars, returned>>

Return ==
    /\ Finished /\ ~returned
    /\ \A k \in Keys : Dwell(k)!NothingToReplace
    /\ returned' = TRUE
    /\ UNCHANGED <<vars, detected>>

AssignmentNext == Decode \/ Pass \/ Return

AssignmentSpec ==
    AssignmentInit /\ [][AssignmentNext]_assignmentVars /\ WF_assignmentVars(AssignmentNext)
-----------------------------------------------------------------------------
\* A pass that finds no two short runs of a flight next to each other keeps the
\* phases of the flight in order and leaves fewer runs than it found.
IsolatedRunsMerge ==
    [][\A k \in Keys :
          /\ Finished /\ detected'[k] # detected[k]
          /\ ~Dwell(k)!Adjacent /\ Dwell(k)!Ordered(detected[k])
          => /\ Dwell(k)!Ordered(detected'[k])
             /\ Cardinality(Dwell(k)!RunIds') < Cardinality(Dwell(k)!RunIds)]_detected

\* Only short runs of one flight next to each other can keep the loop of the whole
\* batch from returning with no short interior run left in any flight.
IsolatedRunsEnd ==
    <>((\E k \in Keys : Dwell(k)!Adjacent)
          \/ (returned /\ \A k \in Keys : MinDwellWindows > 1 => Dwell(k)!ShortRuns = {}))

\* Together: passes make progress unless short runs are next to each other.
IsolatedRunsSettle == IsolatedRunsMerge /\ IsolatedRunsEnd
=============================================================================
