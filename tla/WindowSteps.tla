----------------------------- MODULE WindowSteps -----------------------------
(***************************************************************************)
(* The closure budget of adaptive windows (libs/windows/window.py) and the  *)
(* steps that the window builder folds (libs/windows/pipeline.py): the      *)
(* events of one flight and, between them, a budget step wherever the       *)
(* credit of the flight so far crosses a multiple of the event threshold.   *)
(*                                                                          *)
(* A flight is the sequence of the timestamps of its events, in the order   *)
(* of event_seq_id, which _canonicalize_events assigns by timestamp.  The   *)
(* code computes credit in doubles; here it is exact, in units of           *)
(* 1 / QuietHorizon of an event.                                            *)
(***************************************************************************)
EXTENDS Integers, Sequences

CONSTANTS
    MaxMs,           \* WindowPolicy.max_ms
    EventThreshold   \* WindowPolicy.event_threshold

ASSUME WindowPolicyAssumption == MaxMs \in Int /\ EventThreshold \in Int

\* WindowClosureBudgetPolicy.from_window_policy
QuietHorizon == IF MaxMs > 1 THEN MaxMs ELSE 1
Threshold == IF EventThreshold > 1 THEN EventThreshold ELSE 1

\* closure_budget_expr: one unit per event and Threshold units of quiet
\* credit per QuietHorizon milliseconds.
Credit(duration, count) == count * QuietHorizon + duration * Threshold

\* The credit between two boundaries.
BoundaryCredit == Threshold * QuietHorizon

\* elapsed_ms_for_budget_units_expr: the first millisecond at which quiet
\* time alone has earned so many units.
ElapsedFor(units) == (units * QuietHorizon + Threshold - 1) \div Threshold

IsFlight(ev) ==
    /\ ev \in Seq(Nat)
    /\ Len(ev) > 0
    /\ \A m, n \in 1..Len(ev) : m <= n => ev[m] <= ev[n]

Elapsed(ev, n) == ev[n] - ev[1]

\* Mutant of Boundaries: the last boundary crossed is left to the next event.
BoundariesButLast(ev, n) ==
    IF n = Len(ev) THEN {}
    ELSE (Credit(Elapsed(ev, n), n) \div BoundaryCredit) + 1
           .. (Credit(Elapsed(ev, n + 1), n) \div BoundaryCredit) - 1

\* The boundaries crossed by quiet time between event n and the next one.
Boundaries(ev, n) ==
    IF n = Len(ev) THEN {}
    ELSE (Credit(Elapsed(ev, n), n) \div BoundaryCredit) + 1
           .. Credit(Elapsed(ev, n + 1), n) \div BoundaryCredit

BoundaryTime(ev, n, k) == ev[1] + ElapsedFor(k * Threshold - n)

\* The null event_seq_id of a budget step.
NoSeq == 0

EventSteps(ev) == {[ts |-> ev[n], seq |-> n] : n \in 1..Len(ev)}

BudgetStepsAfter(ev, n) ==
    {[ts |-> BoundaryTime(ev, n, k), seq |-> NoSeq] : k \in Boundaries(ev, n)}

Steps(ev) ==
    EventSteps(ev) \cup UNION {BudgetStepsAfter(ev, n) : n \in 1..Len(ev)}

IsBudgetStep(step) == step.seq = NoSeq

\* window_step_order: by timestamp, a budget step before the events of its
\* own millisecond, events by event_seq_id.  NoSeq sorts both rules.
Precedes(a, b) == a.ts < b.ts \/ (a.ts = b.ts /\ a.seq < b.seq)
=============================================================================
