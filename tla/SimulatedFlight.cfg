\* Four ticks of half a second, counted in sixths of a second: lags of 4 and
\* 3 units, a time constant of one second (an inertial parameter goes half the
\* way in a tick, so that four ticks divide 16) and a reversion rate of 1.5.
SPECIFICATION Spec
CONSTANTS
    a = a
    b = b
    cruise = cruise
    taxi = taxi
    on = on
    off = off
    None = None
    Nominal = Nominal
    Modules <- MCModules
    Couplings <- MCCouplings
    Programs <- MCPrograms
    Targets = {0, 16}
    Phases <- MCPhases
    Envelope <- MCEnvelope
    Dt = 3
    TimeConstant = 6
    ReversionTime = 4
    ControlBand <- MCControlBand
    Trim <- MCTrim
    MaxSteps = 4
INVARIANTS
    TypeOK
    ArrivalsWereAdmitted
    QueuesAreInOrder
    DelayIsExact
    LabelsAreTrue
    RowsAreLabelled
    RowsFollowTheStream
CHECK_DEADLOCK FALSE
