------------------------------- MODULE Coupling -------------------------------
(***************************************************************************)
(* Coupling.apply (libs/simulation/coupling/runtime.py): one transfer from  *)
(* an output port to an input port, now or after a lag.  A transferred      *)
(* value is known by the time of the sample it comes from; gain and sign    *)
(* multiply it, and the sign stands for both in the queue key.  Times and   *)
(* lags are in seconds.                                                     *)
(*                                                                          *)
(* A coupling c: [id, source, target, port, relation, sign, lag,            *)
(* phaseGate, modeGate, sourceModeGate, targetModeGate]; `port' is the      *)
(* input port of the target, an empty gate is no gate.                      *)
(* A context: [kind, lag, even, odd, window], Nominal if there is none.     *)
(***************************************************************************)
EXTENDS MisbehaviorProgram

AtLeastZero(n) == IF n > 0 THEN n ELSE 0

IsKind(ctx, kind) == ctx # Nominal /\ ctx.kind = kind

\* The lag in force: timing_lag adds to it, timing_jitter adds one amount in
\* even seconds and another in odd ones.
EffectiveLag(c, ctx, now) ==
    AtLeastZero(
        CASE IsKind(ctx, "timing_lag") -> c.lag + ctx.lag
          [] IsKind(ctx, "timing_jitter") ->
                c.lag + (IF now % 2 = 0 THEN ctx.even ELSE ctx.odd)
          [] OTHER -> c.lag)

EffectiveSign(c, ctx) ==
    IF IsKind(ctx, "coupling_inversion") THEN -c.sign ELSE c.sign

Broken(ctx) == IsKind(ctx, "coupling_break")

IgnoresPhaseGate(ctx) == IsKind(ctx, "phase_context_violation")

\* Mutant of Key: the lag is no part of the key.
KeyWithoutLag(c, ctx, now) ==
    [source |-> c.source, port |-> c.port, relation |-> c.relation,
     sign |-> EffectiveSign(c, ctx), phaseGate |-> c.phaseGate,
     sourceModeGate |-> c.sourceModeGate, targetModeGate |-> c.targetModeGate]

\* DelayedTransferKey: neither the coupling id nor mode_gate is part of it.
Key(c, ctx, now) ==
    [source |-> c.source, port |-> c.port, relation |-> c.relation,
     sign |-> EffectiveSign(c, ctx), lag |-> EffectiveLag(c, ctx, now),
     phaseGate |-> c.phaseGate,
     sourceModeGate |-> c.sourceModeGate, targetModeGate |-> c.targetModeGate]

\* _blocking_gate finds none; modes[m] is the mode of module m.
Admits(c, ctx, phase, modes) ==
    /\ c.phaseGate # {} /\ ~IgnoresPhaseGate(ctx) => phase \in c.phaseGate
    /\ c.sourceModeGate # {} => modes[c.source] \in c.sourceModeGate
    /\ c.targetModeGate # {} => modes[c.target] \in c.targetModeGate
    /\ c.modeGate # {} /\ c.sourceModeGate = {} /\ c.targetModeGate = {} =>
        modes[c.source] \in c.modeGate \/ modes[c.target] \in c.modeGate

\* _resolve_transfer_result: whether to write, and what.
Writes(c, ctx, active) == ~Broken(ctx) /\ (c.relation = "inhibit" => active)

TransferredValue(c, now, active) ==
    IF c.relation = "inhibit" \/ (c.relation = "enable" /\ ~active)
    THEN None ELSE now

\* _build_transfer_metadata, as far as a sample label shows it
Metadata(c, ctx) == [coupling |-> c.id, window |-> IF ctx = Nominal THEN None ELSE ctx.window]

Transfer(c, ctx, now, active) ==
    [at |-> now + EffectiveLag(c, ctx, now), value |-> TransferredValue(c, now, active),
     metadata |-> Metadata(c, ctx), origin |-> now]

\* The state that apply changes: ports[p] = [at, value, metadata, origin] and
\* queues, by key.  A queue without transfers is as good as none.
QueueOf(st, k) == IF k \in DOMAIN st.queues THEN st.queues[k] ELSE <<>>

WithQueue(st, k, q) == [st EXCEPT !.queues = [j \in DOMAIN @ \cup {k} |-> IF j = k THEN q ELSE @[j]]]

IsDue(t, now) == t.at <= now

\* drain_due: the last due transfer of a queue, if any, and those not due.
DrainDue(queue, now) ==
    FoldLeft(LAMBDA drain, t : IF IsDue(t, now) THEN [drain EXCEPT !.due = <<t>>]
                               ELSE [drain EXCEPT !.rest = Append(@, t)],
             [due |-> <<>>, rest |-> <<>>], queue)

\* _drain_due_transfers: of the due transfers the last in the queue is written.
Drained(st, c, k, now) ==
    LET drain == DrainDue(QueueOf(st, k), now)
    IN  IF drain.due = <<>> THEN st
        ELSE [WithQueue(st, k, drain.rest) EXCEPT !.ports[c.port] = drain.due[1]]

\* Mutant of Apply: a blocked coupling does not drain its queue.
ApplyDrainsAdmitted(st, c, ctx, now, phase, modes, active) ==
    LET lag == EffectiveLag(c, ctx, now)
        k == Key(c, ctx, now)
        t == Transfer(c, ctx, now, active)
        drained == IF lag > 0 THEN Drained(st, c, k, now) ELSE st
    IN  IF ~Admits(c, ctx, phase, modes) THEN st
        ELSE IF ~Writes(c, ctx, active) THEN drained
        ELSE IF lag > 0 THEN WithQueue(drained, k, Append(QueueOf(drained, k), t))
        ELSE [drained EXCEPT !.ports[c.port] = t]

\* Mutant of Apply: the gates hold up immediate writes only.
ApplyQueuesBlocked(st, c, ctx, now, phase, modes, active) ==
    LET lag == EffectiveLag(c, ctx, now)
        k == Key(c, ctx, now)
        t == Transfer(c, ctx, now, active)
        drained == IF lag > 0 THEN Drained(st, c, k, now) ELSE st
    IN  IF ~Writes(c, ctx, active) THEN drained
        ELSE IF lag > 0 THEN WithQueue(drained, k, Append(QueueOf(drained, k), t))
        ELSE IF Admits(c, ctx, phase, modes) THEN [drained EXCEPT !.ports[c.port] = t]
        ELSE drained

\* Mutant of Apply: a transfer without a lag is queued as well.
ApplyQueuesAll(st, c, ctx, now, phase, modes, active) ==
    LET k == Key(c, ctx, now)
        t == Transfer(c, ctx, now, active)
        drained == Drained(st, c, k, now)
    IN  IF ~Admits(c, ctx, phase, modes) \/ ~Writes(c, ctx, active) THEN drained
        ELSE WithQueue(drained, k, Append(QueueOf(drained, k), t))

\* apply, at a time: drain the queue of the key in force, then write or queue.
Apply(st, c, ctx, now, phase, modes, active) ==
    LET lag == EffectiveLag(c, ctx, now)
        k == Key(c, ctx, now)
        t == Transfer(c, ctx, now, active)
        drained == IF lag > 0 THEN Drained(st, c, k, now) ELSE st
    IN  IF ~Admits(c, ctx, phase, modes) \/ ~Writes(c, ctx, active) THEN drained
        ELSE IF lag > 0 THEN WithQueue(drained, k, Append(QueueOf(drained, k), t))
        ELSE [drained EXCEPT !.ports[c.port] = t]
=============================================================================
