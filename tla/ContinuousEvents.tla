--------------------------- MODULE ContinuousEvents ---------------------------
(***************************************************************************)
(* The state machine of the continuous detector (libs/events/continuous.py, *)
(* ContinuousSequenceStateLayout.state_after_step_column): slope runs, the  *)
(* switch and oscillation events with their refractory distance, extrema,   *)
(* and the drift guard.  A sample is what the feature frame hands to the    *)
(* step: the sign of the slope candidate, |delta|, |delta_raw| and the kinds *)
(* it is an enabled candidate of.  Rows without a value are dropped but keep *)
(* their sample_index, so the indices of the samples may have gaps.  The    *)
(* averages and thresholds that make a candidate are left out.              *)
(***************************************************************************)
EXTENDS Integers, SequencesExt

CONSTANTS
    Inputs,              \* the samples: [sign, delta, raw, candidates]
    MinPersistence,      \* slope_min_persistence_samples
    ReemitNum, ReemitDen,\* slope_reemit_ratio = ReemitNum / ReemitDen
    Refractory,          \* [Spaced -> Nat]: the *_refractory_samples of a kind
    GuardAbsChange,      \* drift_guard_abs_change, 0 if off
    GuardMaxGap,         \* drift_guard_max_gap_samples, 0 if off
    MaxRows              \* bound: the rows of the stream, with and without a value

\* The kinds of event that keep a distance to the last one of their kind.
Spaced == {"switch", "oscillation"}

VARIABLES
    samples,        \* history: the samples read, with their sample_index
    lastIndex,      \* [Spaced -> Int]: last_switch_index, last_oscillation_index
    lastDriftGuardIndex, driftGuardCumAbs,
    slopeRun,       \* [sign, length, peak, emitted, lastEmittedPeak]
    events          \* [kind, at, reason, amount], at a position in samples

state == <<lastIndex, lastDriftGuardIndex, driftGuardCumAbs, slopeRun>>
vars == <<samples, state, events>>

NoRun == [sign |-> 0, length |-> 0, peak |-> 0, emitted |-> FALSE, lastEmittedPeak |-> 0]

LongAgo == -1000000000

Init ==
    /\ samples = <<>>
    /\ lastIndex = [kind \in Spaced |-> LongAgo]
    /\ lastDriftGuardIndex = 0
    /\ driftGuardCumAbs = 0
    /\ slopeRun = NoRun
    /\ events = <<>>

Larger(a, b) == IF a > b THEN a ELSE b

\* Mutant of RunWith: a run of the other sign goes on as the same run.
RunWithAnySign(x) ==
    IF x.sign = 0 THEN NoRun
    ELSE [slopeRun EXCEPT !.sign = x.sign, !.length = @ + 1, !.peak = Larger(@, x.delta)]

\* The run with the sample in it, before the sample is emitted.
RunWith(x) ==
    IF x.sign = 0 THEN NoRun
    ELSE IF x.sign # slopeRun.sign
    THEN [NoRun EXCEPT !.sign = x.sign, !.length = 1, !.peak = x.delta]
    ELSE [slopeRun EXCEPT !.length = @ + 1, !.peak = Larger(@, x.delta)]

SlopeEmit(run) ==
    /\ run.sign # 0
    /\ run.length >= MinPersistence
    /\ run.emitted => ReemitDen * run.peak >= run.lastEmittedPeak * ReemitNum

EmittedRun(run) == [run EXCEPT !.emitted = TRUE, !.lastEmittedPeak = run.peak]

\* switch_emit, oscillation_emit
SpacedEmit(kind, x, n) ==
    kind \in x.candidates /\ n - lastIndex[kind] >= Refractory[kind]

CumAbs(x) == driftGuardCumAbs + x.raw
DriftByChange(x) == GuardAbsChange > 0 /\ CumAbs(x) >= GuardAbsChange
DriftByGap(n) == GuardMaxGap > 0 /\ n - lastDriftGuardIndex >= GuardMaxGap
DriftEmit(x, n) == DriftByChange(x) \/ DriftByGap(n)

\* Mutant of CumAbsAfter: only a guard by change takes the change back to 0.
CumAbsAfterKept(x, n) == IF DriftByChange(x) THEN 0 ELSE CumAbs(x)

CumAbsAfter(x, n) == IF DriftEmit(x, n) THEN 0 ELSE CumAbs(x)

GuardIndexAfter(x, n) == IF DriftEmit(x, n) THEN n ELSE lastDriftGuardIndex

Optional(condition, event) == IF condition THEN <<event>> ELSE <<>>

\* append_detected_events, in its order
Emitted(x, n) ==
    LET run == RunWith(x)
        Event(kind, reason, amount) ==
            [kind |-> kind, at |-> Len(samples) + 1, reason |-> reason, amount |-> amount]
    IN  Optional(SlopeEmit(run),
                 Event(IF x.sign > 0 THEN "slope_positive" ELSE "slope_negative",
                       IF run.emitted THEN "run_strengthen" ELSE "run_start", run.peak))
          \o Optional(SpacedEmit("switch", x, n), Event("switch", "", x.raw))
          \o Optional(DriftEmit(x, n),
                      Event("drift_guard",
                            IF DriftByChange(x) THEN "abs_change" ELSE "max_gap", CumAbs(x)))
          \o Optional("extrema" \in x.candidates, Event("extrema", "", x.raw))
          \o Optional(SpacedEmit("oscillation", x, n), Event("oscillation", "", x.raw))

LastIndex == IF samples = <<>> THEN 0 ELSE Last(samples).index

\* state_after_step_column, for the sample with sample_index n
Sample(x, n) ==
    LET run == RunWith(x)
    IN  /\ samples' = Append(samples, [sign |-> x.sign, delta |-> x.delta, raw |-> x.raw,
                                      candidates |-> x.candidates, index |-> n])
        /\ events' = events \o Emitted(x, n)
        /\ slopeRun' = IF SlopeEmit(run) THEN EmittedRun(run) ELSE run
        /\ lastIndex' = [kind \in Spaced |->
                            IF SpacedEmit(kind, x, n) THEN n ELSE lastIndex[kind]]
        /\ driftGuardCumAbs' = CumAbsAfter(x, n)
        /\ lastDriftGuardIndex' = GuardIndexAfter(x, n)

Next == \E x \in Inputs, n \in (LastIndex + 1)..MaxRows : Sample(x, n)

Spec == Init /\ [][Next]_vars
-----------------------------------------------------------------------------
\* Where the events of these kinds stand in the stream of events, and at which
\* samples they were emitted.
OfKind(kinds) == {i \in DOMAIN events : events[i].kind \in kinds}
EmittedAt(kinds) == {events[i].at : i \in OfKind(kinds)}

Slopes == {"slope_positive", "slope_negative"}

\* The first sample of the run of equal, non-zero signs that sample n is in.
RunFirst(n) ==
    CHOOSE m \in 1..n :
        /\ \A i \in m..n : samples[i].sign = samples[n].sign
        /\ m = 1 \/ samples[m - 1].sign # samples[n].sign

PeakUpTo(n) == Max({samples[i].delta : i \in RunFirst(n)..n})

\* The emissions of the run of sample n, before sample n.
Earlier(n) == {i \in OfKind(Slopes) : events[i].at >= RunFirst(n) /\ events[i].at < n}

\* The run of sample n is to be reported at it.
Due(n) ==
    /\ samples[n].sign # 0
    /\ n - RunFirst(n) + 1 >= MinPersistence
    /\ \A i \in Earlier(n) : ReemitDen * PeakUpTo(n) >= events[i].amount * ReemitNum

\* The state is one the sequence can be in; a run that has been emitted
\* remembers the peak of an emission of its own.
TypeOK ==
    /\ lastIndex \in [Spaced -> {LongAgo} \cup (1..LastIndex)]
    /\ lastDriftGuardIndex \in 0..LastIndex
    /\ driftGuardCumAbs \in Nat
    /\ slopeRun.sign \in {-1, 0, 1}
    /\ slopeRun.length \in 0..Len(samples)
    /\ slopeRun.emitted <=> slopeRun.lastEmittedPeak > 0
    /\ slopeRun.lastEmittedPeak <= slopeRun.peak

\* A run of slopes is reported when it has lasted MinPersistence samples and
\* again whenever its peak has grown by the ratio, as seen in the samples.
SlopesFollowRuns == EmittedAt(Slopes) = {n \in DOMAIN samples : Due(n)}

\* Two switches (two oscillations) are at least their refractory distance
\* apart, and a candidate is left out only for an event of its kind less than
\* that before it: the candidates left out in between do not count.
CandidatesAreSpaced ==
    \A kind \in Spaced :
        \A n \in DOMAIN samples :
            n \in EmittedAt({kind}) <=>
                /\ kind \in samples[n].candidates
                /\ \A m \in EmittedAt({kind}) : m < n =>
                    samples[n].index - samples[m].index >= Refractory[kind]

\* Every change is accounted for by one guard: the changes that the guards
\* report and the one that is pending add up to those of the samples.
DriftAccountsForAll ==
    driftGuardCumAbs
      + FoldLeft(LAMBDA sum, e : sum + IF e.kind = "drift_guard" THEN e.amount ELSE 0, 0, events)
        = FoldLeft(LAMBDA sum, x : sum + x.raw, 0, samples)

\* After every sample the pending change is under its limit, and so is the
\* distance from the last guard.
DriftIsGuarded ==
    LET at == {0} \cup {samples[n].index : n \in EmittedAt({"drift_guard"})}
    IN  /\ GuardAbsChange > 0 => driftGuardCumAbs < GuardAbsChange
        /\ GuardMaxGap > 0 => LastIndex - Max(at) < GuardMaxGap
        /\ lastDriftGuardIndex = Max(at)
=============================================================================
