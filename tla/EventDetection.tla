---------------------------- MODULE EventDetection ----------------------------
(***************************************************************************)
(* Event detection for one parameter of a flight (libs/events/pipeline.py): *)
(* EventSourceFrame sends the rows of a parameter to one detector by its    *)
(* profiled datatype, and EventDetectionPlan unites what they emit.  Each   *)
(* detector filters the rows once more: a constant goes to the continuous   *)
(* detector, which drops it, and a parameter of high cardinality or unknown *)
(* type goes to neither.  Samples and events are those of the detector the  *)
(* parameter is sent to.                                                    *)
(***************************************************************************)
EXTENDS Integers, Sequences

CONSTANTS
    Datatypes,          \* the profiled datatypes that are looked at
    \* the categorical detector
    States, Null, MinDwellMs, MaxDwellMs, IllegalTransitions,
    EmitStateEnter, EmitStateExit, EmitDwellBucket, Steps, MaxSamples,
    \* the continuous detector
    Inputs, MinPersistence, ReemitNum, ReemitDen, Refractory,
    GuardAbsChange, GuardMaxGap, MaxRows

ParameterDataType ==
    {"numeric", "binary", "categorical", "high_cardinality", "constant", "unknown"}

ASSUME DatatypesAssumption == Datatypes \subseteq ParameterDataType

ASSUME CategoricalAssumption ==
    /\ Null \notin States \cup Nat
    /\ MinDwellMs \in Nat /\ MaxDwellMs \in Nat /\ MaxSamples \in Nat
    /\ IllegalTransitions \subseteq States \X States
    /\ {EmitStateEnter, EmitStateExit, EmitDwellBucket} \subseteq BOOLEAN
    /\ Steps \subseteq Nat

ASSUME ContinuousAssumption ==
    /\ Inputs \subseteq [sign : {-1, 0, 1}, delta : Nat, raw : Nat,
                          candidates : SUBSET ({"switch", "oscillation", "extrema"})]
    \* a candidate sign means |delta| above the slope threshold
    /\ \A x \in Inputs : x.sign # 0 => x.delta > 0
    /\ MinPersistence \in Nat \ {0} /\ Refractory \in [{"switch", "oscillation"} -> Nat]
    /\ ReemitNum \in Nat /\ ReemitDen \in Nat \ {0} /\ ReemitNum >= ReemitDen
    /\ GuardAbsChange \in Nat /\ GuardMaxGap \in Nat /\ MaxRows \in Nat

VARIABLES
    datatype,    \* parameter_datatype_normalized of the parameter
    samples,     \* history: the samples the detector has read
    events,      \* what it has emitted
    lastState, lastStateTs, lastDwellGuardTs, missing,
    lastIndex, lastDriftGuardIndex, driftGuardCumAbs, slopeRun

Categorical == INSTANCE CategoricalEvents
Continuous == INSTANCE ContinuousEvents

categoricalState == <<lastState, lastStateTs, lastDwellGuardTs, missing>>
continuousState == <<lastIndex, lastDriftGuardIndex, driftGuardCumAbs, slopeRun>>
vars == <<datatype, samples, events, categoricalState, continuousState>>

\* The rows of numeric_df that pass the filter of _feature_frame.
IsContinuous == datatype = "numeric"

\* The rows of categorical_df that pass the filter of _prepare_source.
IsCategorical == datatype \in {"binary", "categorical"}

Init ==
    /\ datatype \in Datatypes
    /\ Categorical!Init
    /\ Continuous!Init

DetectCategorical ==
    /\ IsCategorical
    /\ Categorical!Next
    /\ UNCHANGED <<datatype, continuousState>>

DetectContinuous ==
    /\ IsContinuous
    /\ Continuous!Next
    /\ UNCHANGED <<datatype, categoricalState>>

Next == DetectCategorical \/ DetectContinuous

Spec == Init /\ [][Next]_vars
-----------------------------------------------------------------------------
\* The state of either detector is one its sequence can be in, and the state
\* of the one that gets no rows is the initial one.
TypeOK ==
    /\ datatype \in ParameterDataType
    /\ IsCategorical => Categorical!TypeOK /\ slopeRun = Continuous!NoRun
    /\ IsContinuous => Continuous!TypeOK /\ lastState = Null

\* Enters, transitions and drops of a categorical parameter tell one
\* connected story (libs/events/categorical.py:83).
StoryIsConnected == IsCategorical => Categorical!StoryIsConnected

\* Every change of a categorical value has its events, and there are no others.
EveryChangeIsReported == IsCategorical => Categorical!EveryChangeIsReported

\* The dwell that a transition or guard reports is the length of the run of
\* equal values before it, and the guards of a dwell are the limit apart, none
\* of them late.
DwellsAreExact ==
    IsCategorical => Categorical!DwellIsRunLength /\ Categorical!GuardsAreSpaced

\* The slope events are those that the runs of the samples call for.  Switches
\* and oscillations keep their refractory distance in sample_index, rows
\* without a value counted, and no other candidate is left out.
CandidatesAreReported ==
    IsContinuous => Continuous!SlopesFollowRuns /\ Continuous!CandidatesAreSpaced

\* The drift guards and the pending change account for every change once, and
\* no sample leaves the pending change or the distance from the last guard at
\* its limit.
DriftIsReported ==
    IsContinuous => Continuous!DriftAccountsForAll /\ Continuous!DriftIsGuarded
=============================================================================
