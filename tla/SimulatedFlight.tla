---------------------------- MODULE SimulatedFlight ----------------------------
(***************************************************************************)
(* The step of a simulated flight (libs/simulation: flight, aircraft,       *)
(* system, subsystem and module runtime): the phase program sets the modes, *)
(* the misbehavior program gives couplings and parameters their contexts,   *)
(* then every module in turn samples its parameter into its output port and *)
(* applies its outgoing couplings, so that a module later in the turn reads *)
(* what was transferred in the same tick.  A module has one parameter here; *)
(* it reads all the input ports of the module, and the telemetry row of a   *)
(* tick is its sample with the labels of the tick.                          *)
(***************************************************************************)
EXTENDS Coupling, BehaviorTick

CONSTANTS
    Modules,       \* a sequence: the modules in the order in which they step
    Couplings,     \* a sequence: the couplings of the aircraft
    Programs,      \* what a flight may be: [windows: the misbehavior program,
                   \* family: the behavior family of each module's parameter]
    Targets,       \* the values the input program may drive a parameter to
    Phases,        \* the phase labels the program may have at a step
    Envelope,      \* [phase -> [some modules -> mode]]: mode_state_by_module
    MaxSteps       \* bound: the ticks of a flight

ModuleSet == ToSet(Modules)
CouplingSet == ToSet(Couplings)

\* AircraftSpec.validate: module ids are unique, and a coupling leaves a
\* module of the aircraft; an input port is a port of one module.  The family
\* of a parameter is one of those that are simulated.  A context of a coupling
\* has its amounts; one of a parameter has a number of the generator for every
\* sample; both have the id of their window (_normalized_window_id).  Targets
\* are numbers, those of a discrete state too.  None is no time and no label.
ASSUME FlightAssumption ==
    /\ Modules \in Seq(ModuleSet) \ {<<>>}
    /\ \A i, j \in DOMAIN Modules : Modules[i] = Modules[j] => i = j
    /\ Couplings \in Seq(CouplingSet)
    /\ \A c \in CouplingSet : c.source \in ModuleSet /\ c.lag \in Int
    /\ \A c, d \in CouplingSet : c.port = d.port => c.target = d.target
    /\ \A f \in Programs :
        /\ f.windows \in Seq(ToSet(f.windows))
        /\ f.family \in [ModuleSet -> Families]
        /\ \A c \in CouplingSet, w \in ToSet(f.windows) :
              /\ w.context.window # None
              /\ [coupling |-> c.id, window |-> w.context.window] # None
        /\ \A c \in CouplingSet, w \in ToSet(f.windows) : w.subject = c.id =>
              {w.context.lag, w.context.even, w.context.odd} \subseteq Int
        /\ \A m \in ModuleSet, w \in ToSet(f.windows) : w.subject = m =>
              1..MaxSteps \subseteq DOMAIN w.context.draws
    /\ Targets \subseteq Int
    /\ MaxSteps \in Nat
    /\ None \notin Int

VARIABLES
    program,    \* the misbehavior program and the families
    step,       \* step_index
    turn,       \* the next module of the tick, 0 between two ticks
    modes,      \* mode_state_by_name of the modules
    ports,      \* the input ports: [at, value, metadata, origin]
    queues,     \* delayed_input_transfers_by_key of all the modules
    rows,       \* the telemetry rows of each module's parameter
    seen        \* history: [phase, modes, targets] of each tick

vars == <<program, step, turn, modes, ports, queues, rows, seen>>

Ports == {c.port : c \in CouplingSet}

EmptyPort == [at |-> None, value |-> None, metadata |-> None, origin |-> None]

Init ==
    /\ program \in Programs
    /\ step = 0
    /\ turn = 0
    /\ modes = [m \in ModuleSet |-> None]
    /\ ports = [p \in Ports |-> EmptyPort]
    /\ queues = [k \in {} |-> <<>>]
    /\ rows = [m \in ModuleSet |-> <<>>]
    /\ seen = <<>>

Context(subject, n) == ContextAt(program.windows, subject, n)

Time(n) == n * Dt

\* Mutant of ClearedPorts: the labels of the tick before stay on the ports.
UnclearedPorts == ports

\* Aircraft.step first takes the metadata off all the input ports.
ClearedPorts == [p \in Ports |-> [ports[p] EXCEPT !.metadata = None]]

\* Flight.step up to the first module.
BeginTick ==
    /\ turn = 0
    /\ step < MaxSteps
    /\ \E phase \in Phases, targets \in [ModuleSet -> Targets] :
        LET set == IF phase \in DOMAIN Envelope THEN Envelope[phase] ELSE <<>>
            newModes == [m \in ModuleSet |-> IF m \in DOMAIN set THEN set[m] ELSE modes[m]]
        IN  /\ modes' = newModes
            /\ seen' = Append(seen, [phase |-> phase, modes |-> newModes, targets |-> targets])
    /\ ports' = ClearedPorts
    /\ turn' = 1
    /\ UNCHANGED <<program, step, queues, rows>>

\* Mutant of InitialState: the stream goes on from the observed value.
ObservedState(m) == IF rows[m] = <<>> THEN 0 ELSE Last(rows[m]).value

\* resolve_initial_state: the clean value of the tick before.
InitialState(m) == IF rows[m] = <<>> THEN 0 ELSE Last(rows[m]).clean

\* _active_coupling_metadata_for_parameter: the first port in the order of
\* the couplings that misbehavior has touched, else the first with a label.
PortMetadata(m) ==
    LET Label(i) == ports[Couplings[i].port].metadata
        labelled == {i \in DOMAIN Couplings : Couplings[i].target = m /\ Label(i) # None}
        touched == {i \in labelled : Label(i).window # None}
    IN  IF touched # {} THEN Label(Min(touched))
        ELSE IF labelled # {} THEN Label(Min(labelled))
        ELSE [coupling |-> None, window |-> None]

OwnWindow(ctx) == IF ctx = Nominal THEN None ELSE ctx.window

\* Mutant of Row: the label of a coupling goes before the parameter's own.
RowCouplingFirst(m, sample, ctx) ==
    LET port == PortMetadata(m)
        touched == port.window # None
    IN  [clean |-> sample.clean, value |-> sample.value,
         applied |-> sample.applied \/ touched,
         window |-> IF touched THEN port.window ELSE OwnWindow(ctx),
         coupling |-> port.coupling]

\* iter_samples: the sample with its labels.  A coupling's label covers that
\* of a window of the parameter that was not applied to the sample.
Row(m, sample, ctx) ==
    LET port == PortMetadata(m)
        touched == port.window # None /\ ~sample.applied
    IN  [clean |-> sample.clean, value |-> sample.value,
         applied |-> sample.applied \/ touched,
         window |-> IF touched THEN port.window ELSE OwnWindow(ctx),
         coupling |-> port.coupling]

Sampled(m) ==
    LET ctx == Context(m, step)
    IN  Row(m, TickSample(program.family[m], ctx, InitialState(m), Last(seen).targets[m], step), ctx)

\* _signal_is_active, of the clean value, which is what the port gets.
IsActive(row) == row.clean # 0

\* The couplings of module m, applied one after the other.
Applied(m, row) ==
    LET tick == Last(seen)
    IN  FoldLeft(LAMBDA st, c :
                    IF c.source # m THEN st
                    ELSE Apply(st, c, Context(c.id, step), Time(step), tick.phase, tick.modes,
                               IsActive(row)),
                 [ports |-> ports, queues |-> queues], Couplings)

\* Module.step
StepModule ==
    /\ turn > 0
    /\ LET m == Modules[turn]
           row == Sampled(m)
           after == Applied(m, row)
       IN  /\ rows' = [rows EXCEPT ![m] = Append(@, row)]
           /\ ports' = after.ports
           /\ queues' = after.queues
    /\ turn' = IF turn = Len(Modules) THEN 0 ELSE turn + 1
    /\ step' = IF turn = Len(Modules) THEN step + 1 ELSE step
    /\ UNCHANGED <<program, modes, seen>>

Next == BeginTick \/ StepModule

Spec == Init /\ [][Next]_vars
-----------------------------------------------------------------------------
Now == Time(Len(seen) - 1)

\* The transfers on their way, as records of queues.
Queued == UNION {ToSet(queues[k]) : k \in DOMAIN queues}

\* What coupling c did with the sample of tick n, from the gates, the context
\* and the signal of that tick.
Admitted(c, n) ==
    LET ctx == Context(c.id, n)
        tick == seen[n + 1]
    IN  Admits(c, ctx, tick.phase, tick.modes) /\ Writes(c, ctx, IsActive(rows[c.source][n + 1]))

TickOf(t) == t \div Dt

\* Queues hold delayed transfers, and only a written port has a label.
TypeOK ==
    /\ step \in 0..MaxSteps
    /\ turn \in 0..Len(Modules)
    /\ Len(seen) = step + (IF turn = 0 THEN 0 ELSE 1)
    /\ DOMAIN ports = Ports
    /\ \A t \in Queued : t.value \in {None, t.origin} /\ t.at > t.origin
    /\ \A p \in Ports : ports[p].metadata # None => ports[p].origin # None

\* A value on a port was admitted by the gates and the context of the tick it
\* comes from, by one of the couplings into that port, and it has taken at
\* least the lag of that tick to arrive.
ArrivalsWereAdmitted ==
    \A p \in Ports : ports[p].origin # None =>
        \E c \in CouplingSet :
            LET n == TickOf(ports[p].origin)
            IN  /\ c.port = p
                /\ Admitted(c, n)
                /\ ports[p].at = ports[p].origin + EffectiveLag(c, Context(c.id, n), ports[p].origin)
                /\ ports[p].at <= Now

\* The queue of a key is in the order of the deadlines, so that the last due
\* transfer is the newest one.
QueuesAreInOrder ==
    \A k \in DOMAIN queues :
        \A i \in 1..(Len(queues[k]) - 1) : queues[k][i].at <= queues[k][i + 1].at

\* Couplings that share a port, a key and a time, under no window that
\* changes the key: then the delay is exact.  When the couplings of the port
\* have had their turn, the port holds the newest sample that one of them
\* admitted and whose lag is over, blocked in between or not.
KeepsKeys(c) ==
    \A i \in DOMAIN program.windows :
        program.windows[i].subject = c.id =>
            program.windows[i].context.kind \in {"coupling_break", "phase_context_violation"}

WritersOf(p) == {c \in CouplingSet : c.port = p}

DelayIsExact ==
    \A p \in Ports :
        LET writers == WritersOf(p)
            sent == {n \in 0..(Len(seen) - 1) : \E c \in writers :
                        Admitted(c, n) /\ Time(n) + c.lag <= Now}
            done == \A c \in writers : turn = 0 \/ c.source \in {Modules[i] : i \in 1..(turn - 1)}
        IN  /\ \A c \in writers : KeepsKeys(c)
            /\ \A c, d \in writers : Key(c, Nominal, 0) = Key(d, Nominal, 0)
            /\ done
            /\ sent # {}
            => ports[p].origin = Time(Max(sent))

\* A label on a port is that of a transfer by a coupling of the name on it,
\* made under the window it names, and written to the port in this tick.
LabelsAreTrue ==
    \A p \in Ports :
        LET label == ports[p].metadata
            n == TickOf(ports[p].origin)
        IN  label # None =>
            \E c \in WritersOf(p) :
                /\ c.id = label.coupling
                /\ Admitted(c, n)
                /\ label.window = OwnWindow(Context(c.id, n))
                /\ ports[p].at > Now - Dt \/ ~KeepsKeys(c)

\* The window of coupling c that a sample of tick n was sent under; the
\* sample of the sender has been taken.
SentUnder(c, n, w) ==
    /\ n < Len(rows[c.source])
    /\ Admitted(c, n)
    /\ OwnWindow(Context(c.id, n)) = w

Before(c, m) == \E i, j \in 1..Len(Modules) : i < j /\ Modules[i] = c.source /\ Modules[j] = m

\* What the violator did to the sample of tick n of module m.
OwnSample(m, n) ==
    TickSample(program.family[m], Context(m, n), IF n = 0 THEN 0 ELSE rows[m][n].clean,
               seen[n + 1].targets[m], n)

\* The window on a telemetry row is to blame for it: it is the window of the
\* parameter, if its violator touched the sample, and otherwise that of a
\* coupling from a module before it, under which a sample was sent that has
\* arrived in this tick.  And no touched sample goes without a label: one
\* that a coupling without a lag has sent in the tick always shows.
RowsAreLabelled ==
    \A m \in ModuleSet : \A n \in 0..(Len(rows[m]) - 1) :
        LET row == rows[m][n + 1]
            own == OwnSample(m, n).applied
            into == {c \in CouplingSet : c.target = m /\ Before(c, m)}
        IN  /\ own => row.applied /\ row.window = Context(m, n).window
            /\ row.applied /\ ~own =>
                \E c \in into : \E o \in 0..n :
                    /\ c.id = row.coupling
                    /\ row.window # None /\ SentUnder(c, o, row.window)
                    /\ KeepsKeys(c) => Time(o) + AtLeastZero(c.lag) \in (Time(n) - Dt + 1)..Time(n)
            /\ (\E c \in into : /\ WritersOf(c.port) = {c} /\ c.lag = 0 /\ KeepsKeys(c)
                                 /\ Admitted(c, n) /\ Context(c.id, n) # Nominal)
               => row.applied

\* The kinds whose violator needs no memory.
Memoryless == {"bias", "offset", "saturation", "tracking_degradation", "illegal_transition"}

\* One run of the generator of module m over its targets, to tick n: what it
\* yields and counts at each tick, as the stream of a whole flight would.
CleanRun(m, n) ==
    [i \in 1..(n + 1) |->
        FoldLeft(LAMBDA state, tick : Generated(program.family[m], state, tick.targets[m]),
                 Unsettled(0), SubSeq(seen, 1, i))]

\* That run has stayed at a target for a second step, and trims.
Trims(m, n) == \E i \in 1..(n + 1) : CleanRun(m, n)[i].settled > 1

\* The first of the ticks up to n that have the context of tick n.
FirstUnder(m, n) == Min({k \in 0..n : \A j \in k..n : Context(m, j) = Context(m, n)})

\* One run of the violator of module m over the clean samples of the window.
ObservedRun(m, n) ==
    LET first == FirstUnder(m, n)
    IN  FoldLeft(LAMBDA v, k : Violated(program.family[m], Context(m, n), v.memory,
                                        rows[m][k + 1].clean, k),
                 [memory |-> FreshMemory], [i \in 1..(n - first + 1) |-> first + i - 1])

Between(v, from, to) == (from <= v /\ v <= to) \/ (to <= v /\ v <= from)

\* Generator and violator are called anew in every tick, and the columns are
\* streams nevertheless, where that can be.  Whatever the windows do, the
\* clean column is one run of the generator over the targets for as long as
\* this run does not trim; a regulated channel, whose run trims from the
\* second settled step on, never does so in a flight: every tick takes it
\* towards its target and not past it.  Where the violator of the window
\* needs no memory, the observed column is one run of it over the window.
RowsFollowTheStream ==
    \A m \in ModuleSet : \A n \in 0..(Len(rows[m]) - 1) :
        LET ctx == Context(m, n)
            row == rows[m][n + 1]
        IN  /\ ~Trims(m, n) => row.clean = CleanRun(m, n)[n + 1].value
            /\ program.family[m] = "regulated" =>
                  Between(row.clean, IF n = 0 THEN 0 ELSE rows[m][n].clean, seen[n + 1].targets[m])
            /\ ctx = Nominal => row.value = row.clean
            /\ ctx # Nominal /\ ctx.kind \in Memoryless /\ ctx.period = 1
                /\ (\A i \in DOMAIN ctx.draws : ctx.draws[i])
               => row.value = ObservedRun(m, n).value

\* "Response occurs too late relative to coupled drivers or expected
\* dynamics" (docs/reference/misbehavior_taxonomy.md:154): from its first
\* lag_steps on, a timing_lag window of rate 1 shows the clean value of that
\* many ticks ago.
LagIsApplied ==
    \A m \in ModuleSet : \A n \in 0..(Len(rows[m]) - 1) :
        LET ctx == Context(m, n)
        IN  /\ program.family[m] = "inertial" /\ IsKind(ctx, "timing_lag") /\ ctx.period = 1
            /\ n >= ctx.size /\ Context(m, n - ctx.size) = ctx
            => rows[m][n + 1].value = rows[m][n + 1 - ctx.size].clean
=============================================================================
