\* No inactivity timeout (the default), or one shorter than the quiet horizon,
\* so that inactivity and budget steps compete for the same window.
SPECIFICATION FairSpec
CONSTANTS
    MaxMs = 4
    EventThreshold = 3
    InactivityTimeouts = {0, 3}
    Flights <- MCFlights
INVARIANTS
    TypeOK
    WindowIdsContiguous
    WindowsPartitionEvents
    BudgetCap
    QuietSplitsWindows
PROPERTY
    EveryEventAssigned
CHECK_DEADLOCK FALSE
