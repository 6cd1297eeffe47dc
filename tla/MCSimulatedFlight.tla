-------------------------- MODULE MCSimulatedFlight --------------------------
(***************************************************************************)
(* Instances of SimulatedFlight: two modules a, b; a delayed coupling from  *)
(* a to b with a phase gate, a second one under the same key with a mode    *)
(* gate, an enabling one without a lag, and one back from b to a.  The      *)
(* flights have windows on couplings, on parameters of each family, or both.*)
(***************************************************************************)
EXTENDS SimulatedFlight

CONSTANTS a, b, cruise, taxi, on, off

MCModules == <<a, b>>
MCPhases == {cruise, taxi}

\* Mode of a: on in cruise, off on the ground.
MCEnvelope == (cruise :> (a :> on)) @@ (taxi :> (a :> off @@ b :> off))

From(id, source, target, port, relation, lag) ==
    [id |-> id, source |-> source, target |-> target, port |-> port,
     relation |-> relation, sign |-> 1, lag |-> lag, phaseGate |-> {}, modeGate |-> {},
     sourceModeGate |-> {}, targetModeGate |-> {}]

MCDelayed == [From("delayed", a, b, "in", "drive", 4) EXCEPT !.phaseGate = {cruise}]
MCSharing == [From("sharing", a, b, "in", "drive", 4) EXCEPT
                 !.phaseGate = {cruise}, !.modeGate = {off}]
MCEnabling == [From("enabling", a, b, "enable", "enable", 0) EXCEPT !.sourceModeGate = {on}]
MCBack == From("back", b, a, "back", "inhibit", 3)

MCCouplings == <<MCDelayed, MCSharing, MCEnabling, MCBack>>
MCOneCoupling == <<MCDelayed>>

CouplingContext(id, kind) ==
    [kind |-> kind, lag |-> 5, even |-> -2, odd |-> 1, window |-> <<id, kind>>]
Window(subject, first, end, context) ==
    [subject |-> subject, first |-> first, end |-> end, context |-> context]
CouplingWindow(id, first, end, kind) == Window(id, first, end, CouplingContext(id, kind))

\* control_band_abs = 2, and control_trim_abs = 1 at trim_oscillation_hz = 0.5,
\* a quarter of a period in a tick
MCControlBand(target) == 2
MCTrim(target, n) == Sine(n)

\* Tracking parameters are at their target in every tick.
MCTracking == (a :> "tracking" @@ b :> "tracking")

MCCouplingWindows ==
    {<<>>}
      \cup {<<CouplingWindow("delayed", 1, 3, kind)>> :
               kind \in {"coupling_break", "phase_context_violation", "coupling_inversion",
                         "timing_lag", "timing_jitter"}}
      \cup {<<CouplingWindow("enabling", 0, 3, "phase_context_violation"),
              CouplingWindow("enabling", 2, 4, "coupling_break"),
              CouplingWindow("back", 1, 3, "timing_lag")>>}

\* Windows of a parameter: in every sample, or in those the draws pick.
OfRate(m, first, end, kind, size, period, draws) ==
    Window(m, first, end, [kind |-> kind, size |-> size, period |-> period, draws |-> draws,
                           window |-> <<m, kind>>])
Always == <<TRUE, TRUE, TRUE, TRUE>>
Often == <<TRUE, FALSE, TRUE, TRUE>>
Later == <<FALSE, TRUE, TRUE, TRUE>>
Steady(m, first, end, kind, size) == OfRate(m, first, end, kind, size, 1, Always)

Flight(familyA, familyB, windows) ==
    [windows |-> windows, family |-> (a :> familyA @@ b :> familyB)]

MCParameterPrograms ==
    {Flight("inertial", "accumulative",
        <<Steady(a, 1, 3, "timing_lag", 1), Steady(b, 0, 4, "drift", 1)>>),
     Flight("inertial", "accumulative",
        <<Steady(a, 1, 4, "increased_time_constant", 2),
          OfRate(b, 1, 3, "bias", 5, 1, Later), Steady(b, 2, 4, "bias", 7)>>),
     Flight("inertial", "accumulative",
        <<Steady(a, 1, 4, "stuck_value", 1), Steady(b, 1, 3, "leak_rate", 2)>>),
     Flight("inertial", "regulated",
        <<Steady(a, 0, 3, "ramp_distortion", 2), OfRate(b, 0, 3, "offset", 3, 1, Often)>>),
     Flight("tracking", "regulated",
        <<OfRate(a, 0, 3, "tracking_degradation", 2, 2, Always), Steady(b, 1, 4, "saturation", 6)>>),
     Flight("tracking", "discrete_state",
        <<Steady(a, 0, 4, "oscillation", 2), Steady(b, 1, 3, "illegal_transition", -1)>>),
     Flight("discrete_state", "discrete_state",
        <<Steady(a, 0, 3, "dwell_violation", 1), Steady(b, 0, 4, "state_chatter", -1)>>),
     Flight("inertial", "inertial",
        <<OfRate(b, 0, 3, "timing_lag", 1, 2, Always),
          CouplingWindow("enabling", 1, 4, "phase_context_violation"),
          CouplingWindow("delayed", 0, 2, "timing_lag")>>),
     Flight("inertial", "regulated",
        <<Steady(a, 1, 3, "bias", 1), Steady(b, 0, 3, "bias", 2)>>),
     Flight("inertial", "tracking",
        <<Steady(b, 0, 2, "offset", 4), Steady(b, 1, 3, "tracking_degradation", 2),
          CouplingWindow("enabling", 1, 4, "phase_context_violation")>>)}

MCPrograms == {[windows |-> w, family |-> MCTracking] : w \in MCCouplingWindows}
                \cup MCParameterPrograms

MCLag == {Flight("inertial", "tracking", <<Steady(a, 1, 4, "timing_lag", 1)>>)}
=============================================================================
