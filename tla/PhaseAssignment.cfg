\* A segment closes after every window or 2 ms; a dwell limit of 2 for three and four phases.
SPECIFICATION AssignmentSpec
CONSTANTS
    k1 = k1
    k2 = k2
    Keys <- MCKeys
    Flights <- MCFlights
    TransitionPenalty = 3
    MinDwellWindows = 8
    FittedWindowCount = 16
    MaxRowsPerSegment = 1
    MaxSpanMs = 2
INVARIANTS
    TypeOK
    CarryIsOptimal
    AssignmentIsOptimal
PROPERTIES
    LastSegmentIsAssigned
    IsolatedRunsSettle
CHECK_DEADLOCK FALSE
