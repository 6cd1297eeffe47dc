----------------------------- MODULE BehaviorTick -----------------------------
(***************************************************************************)
(* One sample of a parameter (libs/behavior): the generator of its family   *)
(* makes the clean value, the violator of the family makes the observed one *)
(* of it.  Both are written over a stream and keep their state in the call; *)
(* iter_tick_samples calls them anew in every tick, on a stream of one      *)
(* sample.  The noise is zero, and quotients are whole.                     *)
(*                                                                          *)
(* A context of a parameter: [kind, period, draws, size, window]; the rate  *)
(* of the violation is 1 / period, draws[i] tells whether the i-th number   *)
(* of the seeded generator is below it, and size is the one amount the kind *)
(* needs (steps, factor, offset, bound or state).                           *)
(***************************************************************************)
EXTENDS MisbehaviorProgram

CONSTANTS
    Dt,                \* the time between ticks
    TimeConstant,      \* time_constant_seconds of the inertial parameters
    ReversionTime,     \* 1 / reversion_rate of the regulated parameters
    ControlBand(_),    \* the error of a target that counts as settled
    Trim(_, _)         \* trim_amplitude * sin(trim_phase) of a target, by the
                       \* trimming steps since it has settled

\* Times are counted in a unit of which all of them are multiples.
ASSUME TickAssumption ==
    /\ Dt \in Nat \ {0}
    /\ TimeConstant \in Nat \ {0}
    /\ ReversionTime \in Nat \ {0}

\* The generators: what is yielded for a sample, from the value and the count
\* of settled steps after the sample before.  Only the regulated family counts.

Unsettled(v) == [value |-> v, settled |-> 0]

\* alpha = clip01(dt / time): the value after a first-order step
Approached(v, target, time) ==
    IF Dt >= time THEN target ELSE v + (Dt * (target - v)) \div time

InertialGenerated(state, target) == Unsettled(Approached(state.value, target, TimeConstant))

AccumulativeGenerated(state, rate) == Unsettled(state.value + Dt * rate)

\* The first settled step keeps 0.35 of the error; those after it keep 0.20
\* and trim.  An unsettled step restarts the trim.
RegulatedGenerated(state, target) ==
    LET moved == Approached(state.value, target, ReversionTime)
        error == moved - target
        settled == IF error \in -ControlBand(target)..ControlBand(target)
                   THEN state.settled + 1 ELSE 0
    IN  [settled |-> settled,
         value |-> CASE settled = 0 -> moved
                     [] settled = 1 -> target + (35 * error) \div 100
                     [] OTHER -> target + error \div 5 + Trim(target, settled - 1)]

\* alpha is 1: the response_rate, by default 2.1 a second, is that of a tick of
\* half a second or more.  A target is within its bounds.
TrackingGenerated(target) == Unsettled(target)

DiscreteStateGenerated(target) == Unsettled(target)

Generated(family, state, target) ==
    CASE family = "inertial" -> InertialGenerated(state, target)
      [] family = "accumulative" -> AccumulativeGenerated(state, target)
      [] family = "regulated" -> RegulatedGenerated(state, target)
      [] family = "tracking" -> TrackingGenerated(target)
      [] family = "discrete_state" -> DiscreteStateGenerated(target)

Families == {"inertial", "accumulative", "regulated", "tracking", "discrete_state"}

\* What a violator remembers from sample to sample: the values it has got,
\* the one value its kind keeps, and the steps left of a dwell.
FreshMemory == [buffer |-> <<>>, kept |-> None, left |-> 0]

Kept(memory, otherwise) == IF memory.kept = None THEN otherwise ELSE memory.kept

\* The violators: what they keep and show of a sample they apply to.  A kind
\* of another family is taken for the default of this one, or does nothing.

InertialViolation(ctx, memory, value) ==
    LET buffer == Append(memory.buffer, value)
        kept == Kept(memory, value)
    IN  CASE ctx.kind = "timing_lag" ->
                [kept |-> None,
                 value |-> IF Len(buffer) > ctx.size THEN buffer[Len(buffer) - ctx.size] ELSE value]
          [] ctx.kind = "increased_time_constant" ->
                LET slowed == kept + (value - kept) \div ctx.size
                IN  [kept |-> slowed, value |-> slowed]
          [] ctx.kind = "stuck_value" -> [kept |-> kept, value |-> kept]
          [] ctx.kind = "ramp_distortion" ->
                LET distorted == IF memory.kept = None THEN value
                                 ELSE kept + (value - Last(memory.buffer)) \div ctx.size
                IN  [kept |-> distorted, value |-> distorted]
          [] OTHER -> [kept |-> None, value |-> value]

AccumulativeViolation(ctx, memory, value) ==
    LET offset == Kept(memory, 0) - ctx.size
    IN  CASE ctx.kind \in {"leak_rate", "reset_drop"} -> [kept |-> offset, value |-> value + offset]
          [] ctx.kind = "drift" -> [kept |-> None, value |-> value + ctx.size * Len(memory.buffer)]
          [] ctx.kind = "bias" -> [kept |-> None, value |-> value + ctx.size]
          [] OTHER -> [kept |-> None, value |-> value - ctx.size]

\* sin(2 pi n / 4), for the default oscillation_period_steps
Sine(n) == <<0, 1, 0, -1>>[(n % 4) + 1]

RegulatedViolation(ctx, memory, value) ==
    [kept |-> None,
     value |-> CASE ctx.kind = "saturation" -> Min({value, ctx.size})
                 [] ctx.kind = "tracking_degradation" -> value \div ctx.size
                 [] ctx.kind = "oscillation" -> value + ctx.size * Sine(Len(memory.buffer))
                 [] OTHER -> value + ctx.size]

TrackingViolation(ctx, memory, value) ==
    [kept |-> None,
     value |-> CASE ctx.kind = "tracking_degradation" -> value \div ctx.size
                 [] ctx.kind = "offset" -> value + ctx.size
                 [] ctx.kind = "saturation" -> Min({value, ctx.size})
                 [] ctx.kind = "oscillation" -> value + ctx.size * Sine(Len(memory.buffer))
                 [] OTHER -> value]

\* A chatter follows the step_index of the tick, which the input program puts
\* into the context of the sample.
DiscreteStateViolation(ctx, memory, value, tick) ==
    LET holds == memory.kept # None /\ value # memory.kept /\ memory.left > 0
    IN  CASE ctx.kind = "illegal_transition" -> [kept |-> None, left |-> 0, value |-> ctx.size]
          [] ctx.kind = "state_chatter" ->
                [kept |-> None, left |-> 0, value |-> IF tick % 2 = 1 THEN value ELSE ctx.size]
          [] ctx.kind = "stuck_state" ->
                [kept |-> Kept(memory, value), left |-> 0, value |-> Kept(memory, value)]
          [] ctx.kind = "dwell_violation" ->
                IF holds THEN [kept |-> memory.kept, left |-> memory.left - 1, value |-> memory.kept]
                ELSE [kept |-> value, left |-> ctx.size, value |-> value]
          [] OTHER -> [kept |-> None, left |-> 0, value |-> value]

\* apply_violation: by the count of samples, or by the next number drawn.
Applies(family, ctx, memory) ==
    LET index == Len(memory.buffer)
    IN  CASE family = "inertial" -> (index + 1) % ctx.period = 0
          [] family = "tracking" -> index % ctx.period = 0
          [] OTHER -> ctx.draws[index + 1]

Violation(family, ctx, memory, value, tick) ==
    CASE family = "inertial" -> InertialViolation(ctx, memory, value)
      [] family = "accumulative" -> AccumulativeViolation(ctx, memory, value)
      [] family = "regulated" -> RegulatedViolation(ctx, memory, value)
      [] family = "tracking" -> TrackingViolation(ctx, memory, value)
      [] family = "discrete_state" -> DiscreteStateViolation(ctx, memory, value, tick)

\* violate_stream, from one sample to the next
Violated(family, ctx, memory, value, tick) ==
    LET after == [memory EXCEPT !.buffer = Append(@, value)]
        violation == Violation(family, ctx, memory, value, tick)
    IN  IF ~Applies(family, ctx, memory)
        THEN [memory |-> after, value |-> value, applied |-> FALSE]
        ELSE [memory |-> [after EXCEPT !.kept = violation.kept,
                                       !.left = IF "left" \in DOMAIN violation
                                                THEN violation.left ELSE 0],
              value |-> violation.value, applied |-> TRUE]

\* iter_tick_samples: the sample of a tick, of a generator and a violator that
\* are called for it alone.
TickSample(family, ctx, clean, target, tick) ==
    LET next == Generated(family, Unsettled(clean), target).value
        violated == Violated(family, ctx, FreshMemory, next, tick)
    IN  IF ctx = Nominal THEN [clean |-> next, value |-> next, applied |-> FALSE]
        ELSE [clean |-> next, value |-> violated.value, applied |-> violated.applied]
=============================================================================
