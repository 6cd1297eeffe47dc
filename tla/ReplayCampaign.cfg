\* Any one exception, two runs of the operator.
SPECIFICATION Spec
CONSTANTS
    Dirs <- MCDirs
    Modes <- MCModes
    Ends <- MCEnds
    Changes <- MCChanges
    Tiers <- MCTiers
    WriteMode = "overwrite"
    MaxFailures = 1
    MaxRuns = 2
INVARIANTS
    TypeOK
    ResumeCompletesTheRun
    RecommendedBoundaryIsAccepted
    ReplayRecomputesChanges
    ReferenceIsFixed
CHECK_DEADLOCK FALSE
