\* Categorical: guards every 2 ms, transitions under 2 ms in violation, s1 -> s2
\* illegal.  Continuous: ratio 3/2, two samples of persistence, a guard after 4
\* units or 3 rows.
SPECIFICATION Spec
CONSTANTS
    Datatypes = {"numeric", "categorical", "constant"}
    s1 = s1
    s2 = s2
    Null = Null
    States <- MCStates
    IllegalTransitions <- MCIllegal
    Steps <- MCSteps
    MinDwellMs = 2
    MaxDwellMs = 2
    EmitStateEnter = TRUE
    EmitStateExit = TRUE
    EmitDwellBucket = TRUE
    MaxSamples = 5
    Inputs <- MCInputs
    MinPersistence = 2
    ReemitNum = 3
    ReemitDen = 2
    Refractory <- MCRefractory
    GuardAbsChange = 4
    GuardMaxGap = 3
    MaxRows = 4
INVARIANTS
    TypeOK
    StoryIsConnected
    EveryChangeIsReported
    DwellsAreExact
    CandidatesAreReported
    DriftIsReported
CHECK_DEADLOCK FALSE
