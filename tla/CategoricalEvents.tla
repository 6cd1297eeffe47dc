--------------------------- MODULE CategoricalEvents ---------------------------
(***************************************************************************)
(* The state machine of the categorical detector (libs/events/categorical   *)
(* .py, CategoricalSequenceStateLayout): what one sample of one parameter   *)
(* does to the sequence state and which events it emits.  The samples come  *)
(* one at a time, which is what F.aggregate does over the steps of all the  *)
(* segments of a key (SegmentedFold has the segments and the carry).  The   *)
(* label of a dwell bucket and the payload texts are left out.              *)
(***************************************************************************)
EXTENDS Integers, SequencesExt

CONSTANTS
    States,             \* the values of the parameter
    Null,               \* no value
    MinDwellMs,         \* min_dwell_seconds, 0 if off
    MaxDwellMs,         \* max_dwell_seconds, 0 if off
    IllegalTransitions, \* pairs <<from, to>>
    EmitStateEnter, EmitStateExit, EmitDwellBucket,
    Steps,              \* the times from one sample to the next
    MaxSamples          \* bound: the samples of the stream

VARIABLES
    samples,   \* history: the samples read, [ts, value]; value Null is missing
    lastState, lastStateTs, lastDwellGuardTs, missing,
    events     \* the events of the stream, [kind, from, to, dwell, at]

state == <<lastState, lastStateTs, lastDwellGuardTs, missing>>
vars == <<samples, state, events>>

Now == IF samples = <<>> THEN 0 ELSE Last(samples).ts

Init ==
    /\ samples = <<>>
    /\ lastState = Null
    /\ lastStateTs = Null
    /\ lastDwellGuardTs = Null
    /\ missing = FALSE
    /\ events = <<>>

\* missing_transition, enter_condition, transition_condition, same_state_condition

\* Mutant of Drops: every missing sample of a stretch is reported.
DropsAgain(v) == v = Null

Drops(v) == v = Null /\ ~missing

\* Mutant of Enters: the first value after a missing stretch is no entry.
EntersFirst(v) == v # Null /\ lastState = Null /\ ~missing

Enters(v) == v # Null /\ (lastState = Null \/ missing)
Moves(v) == v # Null /\ ~missing /\ lastState # Null /\ v # lastState
Stays(v) == v # Null /\ ~missing /\ lastState # Null /\ v = lastState

Dwell(ts) == IF lastStateTs = Null THEN 0 ELSE ts - lastStateTs

\* dwell_guard_condition
GuardDue(v, ts) ==
    /\ Stays(v)
    /\ MaxDwellMs > 0
    /\ Dwell(ts) >= MaxDwellMs
    /\ lastDwellGuardTs = Null \/ ts - lastDwellGuardTs >= MaxDwellMs

Event(kind, from, to, dwell, ts) ==
    [kind |-> kind, from |-> from, to |-> to, dwell |-> dwell, at |-> ts]

Optional(condition, event) == IF condition THEN <<event>> ELSE <<>>

\* append_detected_events, in its order
Emitted(v, ts) ==
    LET from == lastState
        moved(kind) == Event(kind, from, v, Dwell(ts), ts)
    IN  Optional(Enters(v) /\ EmitStateEnter, Event("state_enter", Null, v, 0, ts))
          \o Optional(Drops(v) /\ EmitStateExit /\ from # Null,
                      Event("state_exit", from, Null, 0, ts))
          \o Optional(Drops(v), Event("dropped", from, Null, 0, ts))
          \o Optional(Moves(v) /\ EmitStateExit, moved("state_exit"))
          \o Optional(Moves(v) /\ EmitDwellBucket, moved("dwell_bucket"))
          \o Optional(Moves(v), moved("transition"))
          \o Optional(Moves(v) /\ MinDwellMs > 0 /\ Dwell(ts) < MinDwellMs,
                      moved("dwell_violation"))
          \o Optional(Moves(v) /\ <<from, v>> \in IllegalTransitions,
                      moved("illegal_transition"))
          \o Optional(GuardDue(v, ts), moved("dwell_guard"))

\* Mutant of StateAfter: a missing sample keeps the last state.
StateAfterKept(v) == IF v = Null THEN lastState ELSE v

StateAfter(v) == v

\* Mutant of StateTsAfter: a transition does not restart the dwell.
StateTsAfterEntry(v, ts) ==
    IF v = Null \/ Enters(v) THEN ts ELSE lastStateTs

StateTsAfter(v, ts) ==
    IF v = Null \/ Enters(v) \/ Moves(v) THEN ts ELSE lastStateTs

GuardTsAfter(v, ts) ==
    IF v = Null THEN ts
    ELSE IF Enters(v) \/ Moves(v) THEN Null
    ELSE IF GuardDue(v, ts) THEN ts
    ELSE lastDwellGuardTs

\* state_after_step_column
Sample(v, ts) ==
    /\ samples' = Append(samples, [ts |-> ts, value |-> v])
    /\ events' = events \o Emitted(v, ts)
    /\ lastState' = StateAfter(v)
    /\ lastStateTs' = StateTsAfter(v, ts)
    /\ lastDwellGuardTs' = GuardTsAfter(v, ts)
    /\ missing' = (v = Null)

Next ==
    /\ Len(samples) < MaxSamples
    /\ \E v \in States \cup {Null}, dt \in Steps : Sample(v, Now + dt)

Spec == Init /\ [][Next]_vars
-----------------------------------------------------------------------------
(* The reference: the runs of equal values in the samples read.             *)

Value(n) == samples[n].value

\* Sample n is the first of its run.
RunStart(n) == n = 1 \/ Value(n - 1) # Value(n)

\* The time when the run of sample n began.
RunSince(n) ==
    samples[CHOOSE m \in 1..n : RunStart(m) /\ \A i \in (m + 1)..n : ~RunStart(i)].ts

\* Where the events of these kinds stand in the stream of events.
OfKind(kinds) == {i \in DOMAIN events : events[i].kind \in kinds}

\* The state is that of the last sample, and a known state has a start.
TypeOK ==
    /\ lastState \in States \cup {Null}
    /\ lastStateTs \in Nat \cup {Null}
    /\ lastDwellGuardTs \in Nat \cup {Null}
    /\ missing \in BOOLEAN
    /\ lastState # Null => lastStateTs # Null /\ ~missing

Story == {"state_enter", "transition", "dropped"}

\* Enters, transitions and drops tell one connected story: each leaves the
\* state the one before it led to, and a missing stretch is dropped once.
StoryIsConnected ==
    EmitStateEnter =>
        \A i, j \in OfKind(Story) :
            i < j /\ (i + 1)..(j - 1) \cap OfKind(Story) = {} =>
                /\ events[j].from = events[i].to
                /\ ~(events[i].kind = "dropped" /\ events[j].kind = "dropped")

\* The dwell of a transition is the time since the samples took the state it
\* leaves, guards and missing stretches in between or not.
DwellIsRunLength ==
    \A i \in DOMAIN events :
        events[i].kind \in {"transition", "dwell_guard"} =>
            \E n \in DOMAIN samples :
                /\ samples[n].ts = events[i].at
                /\ n > 1
                /\ Value(n - 1) = events[i].from
                /\ Value(n) = events[i].to
                /\ events[i].dwell = samples[n].ts - RunSince(n - 1)

\* The samples whose value is among to and follows one among from.
Changes(from, to) ==
    {n \in DOMAIN samples :
        RunStart(n) /\ Value(n) \in to /\ (IF n = 1 THEN Null ELSE Value(n - 1)) \in from}

\* The events of each change of the value, and no others: a transition from
\* a known state to a known state, an enter into a known state from nothing.
EveryChangeIsReported ==
    LET Counts(kind, changes) == Cardinality(OfKind({kind})) = Cardinality(changes)
    IN  /\ Counts("transition", Changes(States, States))
        /\ EmitStateEnter => Counts("state_enter", Changes({Null}, States))
        /\ Counts("dropped", Changes(States \cup {Null}, {Null}))
        /\ EmitStateExit => Counts("state_exit", Changes(States, States \cup {Null}))

\* Two guards of one dwell are at least the limit apart, and no sample of a
\* dwell is the limit or more after both the start and the last guard.
GuardsAreSpaced ==
    LET guards == OfKind({"dwell_guard"})
    IN  /\ \A i, j \in guards : i < j => events[j].at - events[i].at >= MaxDwellMs
        /\ MaxDwellMs > 0 /\ samples # <<>> /\ lastState # Null =>
            \/ Now - RunSince(Len(samples)) < MaxDwellMs
            \/ \E i \in guards :
                  events[i].at >= RunSince(Len(samples)) /\ Now - events[i].at < MaxDwellMs
=============================================================================
