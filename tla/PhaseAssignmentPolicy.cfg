\* The row policy alone; flights of different lengths.
SPECIFICATION AssignmentSpec
CONSTANTS
    k1 = k1
    k2 = k2
    Keys <- MCKeys
    Flights <- MCFlights
    TransitionPenalty = 1
    MinDwellWindows = 1
    FittedWindowCount = 24
    MaxRowsPerSegment = 1
    MaxSpanMs = 0
INVARIANT
    SegmentationPreservesPhases
CHECK_DEADLOCK FALSE
