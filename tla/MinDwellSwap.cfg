\* Four phases, a model fitted on the flight itself, of 16 windows: limit 2.
SPECIFICATION FairSpec
CONSTANTS
    TransitionPenalty = 1
    MinDwellWindows = 8
    FittedWindowCount = 16
    Flights <- MCSelfFitted
PROPERTIES
    DwellIsEnforced
CHECK_DEADLOCK FALSE
