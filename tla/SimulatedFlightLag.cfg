\* One delayed coupling; timing_lag by one step on an inertial parameter.
SPECIFICATION Spec
CONSTANTS
    a = a
    b = b
    cruise = cruise
    taxi = taxi
    on = on
    off = off
    None = None
    Nominal = Nominal
    Modules <- MCModules
    Couplings <- MCOneCoupling
    Programs <- MCLag
    Targets = {0, 16}
    Phases <- MCPhases
    Envelope <- MCEnvelope
    Dt = 3
    TimeConstant = 6
    ReversionTime = 4
    ControlBand <- MCControlBand
    Trim <- MCTrim
    MaxSteps = 4
INVARIANT
    LagIsApplied
CHECK_DEADLOCK FALSE
