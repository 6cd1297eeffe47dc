\* A backbone and graph search, replayed from the inferred stage.
SPECIFICATION Spec
CONSTANTS
    Dirs <- MCDirs
    Modes <- MCModes
    Ends <- MCEnds
    Changes <- MCChanges
    Tiers <- MCTiers
    WriteMode = "overwrite"
    MaxFailures = 0
    MaxRuns = 2
INVARIANTS
    InferredReplayIsFresh
CHECK_DEADLOCK FALSE
