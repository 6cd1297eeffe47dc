--------------------------- MODULE PipelineStages ---------------------------
(***************************************************************************)
(* The stage scripts of the pipeline (pipelines/<number>_*.py) as what they *)
(* read, write and declare in their manifests, the plans they are selected  *)
(* from, and what a stage makes of its inputs.  A stage goes by its number, *)
(* a table by its artifact name.                                            *)
(*                                                                          *)
(* A table is abstracted to where its rows come from: whether from the      *)
(* flight of the run ("live") or through a fitted artifact ("fit") of a     *)
(* flight, which stages made it under which changed settings, and how many  *)
(* copies of each row it holds.  A missing table is not in the DOMAIN of    *)
(* the tables of its directory.                                             *)
(***************************************************************************)
EXTENDS Integers, Sequences, FiniteSets, SequencesExt, FiniteSetsExt, TLC

Table(flights, steps, copies) == [flights |-> flights, steps |-> steps, copies |-> copies]

-----------------------------------------------------------------------------
\* What the flight simulation writes before the first stage.
SeedTables(flight) ==
    LET tables == <<"raw_input", "phase_labels", "hierarchy_sensor_map_label">>
    IN IF flight = "faulted" THEN Append(tables, "coupling_misbehavior_windows") ELSE tables

SeedTable(flight) == Table({<<"live", flight>>}, {}, 1)

(***************************************************************************)
(* reads: tables without which the stage raises.  optional: tables it uses  *)
(* when they exist.  inputs: what its manifest lists as input_artifacts.    *)
(* replayableFrom: what the manifest requires for a replay.  writes: in     *)
(* order.  fits: written in S3NTINEL_FIT_WRITE_MODE (overwrite) and not in  *)
(* the write mode of the run.  knobs: the groups of settings it reads;      *)
(* fallbackKnobs: those it reads only without the window policy profile.    *)
(***************************************************************************)
Stage(reads, writes, knobs) ==
    [reads |-> reads, optional |-> {}, inputs |-> reads, replayableFrom |-> reads,
     writes |-> writes, fits |-> FALSE, knobs |-> knobs, fallbackKnobs |-> {}]

Fit(reads, writes, knobs) == [Stage(reads, writes, knobs) EXCEPT !.fits = TRUE]

IngestRaw == Stage({"raw_input"}, <<"raw_telemetry">>, {})

ParameterProfiles ==
    Fit({"raw_telemetry"}, <<"parameter_datatype_profile", "continuous_scaling_profile">>,
        {"profile"})

BehaviorProfiles ==
    Fit({"raw_telemetry", "parameter_datatype_profile", "continuous_scaling_profile"},
        <<"parameter_behavior_primitive_profile", "parameter_behavior_profile">>,
        {"behavior"})

EventProfiles ==
    Fit({"raw_telemetry", "parameter_datatype_profile"}, <<"parameter_event_profile">>,
        {"event_profile"})

EventsExtract ==
    Stage({"raw_telemetry", "parameter_datatype_profile", "parameter_event_profile"},
          <<"events">>, {"event_profile", "delta_threshold"})

WindowPolicy ==
    Fit({"raw_telemetry", "events"}, <<"window_policy_profile">>,
        {"window_limits", "window_strategy"})

WindowsAdaptive ==
    [Stage({"raw_telemetry", "events"}, <<"windows">>, {"window_strategy"}) EXCEPT
        !.optional = {"window_policy_profile"},
        !.inputs = @ \cup {"window_policy_profile"},
        !.fallbackKnobs = {"window_limits"}]

WindowFeatures ==
    Stage({"raw_telemetry", "events", "windows", "continuous_scaling_profile"},
          <<"window_features">>, {})

BackboneFit ==
    [Fit({"raw_telemetry", "events", "windows", "continuous_scaling_profile"},
         <<"window_features", "backbone", "backbone_sensor_energy">>, {"backbone"}) EXCEPT
        !.inputs = @ \cup {"window_features"},
        !.replayableFrom = {"window_features", "backbone_sensor_energy"}]

BuildGraph ==
    [Fit({"events", "windows", "backbone", "window_features"},
         <<"precision_graph", "event_graph", "lag_profile", "lag_graph", "transition_graph",
           "fused_graph", "graph_parameter_universe">>, {"graph"}) EXCEPT
        !.optional = {"window_policy_profile"}]

FitHierarchy ==
    Fit({"fused_graph", "lag_graph", "graph_parameter_universe",
         "parameter_datatype_profile", "parameter_behavior_profile"},
        <<"hierarchy_sensor_map", "hierarchy_edge_evidence">>, {"graph"})

PhaseFit ==
    [Stage({"raw_telemetry", "events", "windows", "backbone", "window_features"},
           <<"phase_windows", "phase_baselines", "phase_reference_model">>,
           {"phase_count"}) EXCEPT
        !.replayableFrom = {"window_features", "backbone"}]

PhaseApply ==
    [Stage({"raw_telemetry", "events", "windows", "backbone", "window_features",
            "phase_baselines", "phase_reference_model"}, <<"phase_windows">>, {}) EXCEPT
        !.replayableFrom = {"window_features", "phase_baselines", "phase_reference_model"}]

PhaseLabelCentroids ==
    [Stage({"phase_windows", "phase_baselines", "phase_labels"},
           <<"phase_label_centroids">>, {}) EXCEPT
        !.replayableFrom = {"phase_windows"}]

WindowScoresRaw ==
    Stage({"phase_windows", "phase_baselines", "hierarchy_sensor_map", "windows", "events",
           "parameter_behavior_profile", "parameter_event_profile"},
          <<"window_scores_raw">>, {})

WindowScoresCalibrate ==
    Stage({"window_scores_raw"}, <<"window_scores_calibrated">>, {"min_warm"})

AnomalyAttribution ==
    Stage({"window_scores_calibrated", "phase_windows", "windows", "events",
           "hierarchy_sensor_map", "parameter_behavior_profile", "raw_telemetry"},
          <<"anomaly_window_attribution", "anomaly_telemetry_attribution",
            "anomaly_event_attribution", "anomaly_parameter_candidate_evidence">>, {})

EmitExplorerBundle ==
    Stage({"raw_telemetry", "hierarchy_sensor_map", "events", "phase_windows",
           "anomaly_window_attribution", "anomaly_telemetry_attribution",
           "anomaly_event_attribution"}, <<"explorer_bundle">>, {})

PhaseModes == {"fit", "apply_reference"}

StageScript(script, phaseMode) ==
    CASE script = "00" -> IngestRaw
      [] script = "10" -> ParameterProfiles
      [] script = "12" -> BehaviorProfiles
      [] script = "15" -> EventProfiles
      [] script = "20" -> EventsExtract
      [] script = "25" -> WindowPolicy
      [] script = "30" -> WindowsAdaptive
      [] script = "35" -> WindowFeatures
      [] script = "40" -> BackboneFit
      [] script = "50" -> BuildGraph
      [] script = "60" -> FitHierarchy
      [] script = "70" -> IF phaseMode = "fit" THEN PhaseFit ELSE PhaseApply
      [] script = "72" -> PhaseLabelCentroids
      [] script = "80" -> WindowScoresRaw
      [] script = "85" -> WindowScoresCalibrate
      [] script = "90" -> AnomalyAttribution
      [] script = "95" -> EmitExplorerBundle

-----------------------------------------------------------------------------
\* MODE_PLAN_BY_NAME: the stages of each mode, in order.
ProfilePlan == <<"00", "10", "12", "15">>
EventPlan == <<"00", "10", "12", "15", "20">>
StructuralPlan == <<"00", "10", "12", "15", "20", "25", "30", "40", "50", "60">>
FullPlan ==
    <<"00", "10", "12", "15", "20", "25", "30", "40", "50", "60",
      "70", "72", "80", "85", "90", "95">>
InferencePlan == <<"20", "30", "35", "70", "72", "80", "85", "90", "95">>

Plan ==
    [profile |-> ProfilePlan, event |-> EventPlan, structural |-> StructuralPlan,
     full |-> FullPlan, reference_inference |-> InferencePlan]

Scripts == ToSet(FullPlan) \cup {"35"}

Artifacts ==
    ToSet(SeedTables("faulted"))
      \cup UNION {ToSet(StageScript(script, "fit").writes) : script \in Scripts}

\* A start or an end that is not given.
Unset == "unset"

Position(script, plan) == CHOOSE i \in DOMAIN plan : plan[i] = script
StartIndex(plan, start) == IF start = Unset THEN 1 ELSE Position(start, plan)
EndIndex(plan, end) == IF end = Unset THEN Len(plan) ELSE Position(end, plan)

\* selected_stage_scripts raises unless this holds.
IsSelectable(plan, start, end) ==
    /\ start # Unset => start \in ToSet(plan)
    /\ end # Unset => end \in ToSet(plan)
    /\ StartIndex(plan, start) <= EndIndex(plan, end)

SelectedStageScripts(plan, start, end) ==
    SubSeq(plan, StartIndex(plan, start), EndIndex(plan, end))

-----------------------------------------------------------------------------
\* Mutant: the window policy, which stage 30 takes for granted, is not listed.
ReferenceWithoutPolicy ==
    {"parameter_datatype_profile", "continuous_scaling_profile",
     "parameter_behavior_primitive_profile", "parameter_behavior_profile",
     "parameter_event_profile", "backbone", "backbone_sensor_energy", "precision_graph",
     "event_graph", "lag_profile", "lag_graph", "transition_graph", "fused_graph",
     "graph_parameter_universe", "hierarchy_edge_evidence", "hierarchy_sensor_map",
     "phase_baselines", "phase_reference_model"}

\* Artifacts fitted on one flight and applied to another (REFERENCE_ARTIFACT_NAMES).
ReferenceArtifactNames ==
    {"parameter_datatype_profile", "continuous_scaling_profile",
     "parameter_behavior_primitive_profile", "parameter_behavior_profile",
     "parameter_event_profile", "window_policy_profile", "backbone",
     "backbone_sensor_energy", "precision_graph", "event_graph", "lag_profile", "lag_graph",
     "transition_graph", "fused_graph", "graph_parameter_universe",
     "hierarchy_edge_evidence", "hierarchy_sensor_map", "phase_baselines",
     "phase_reference_model"}

Fitted == {artifact \in Artifacts : \E script \in {"10", "12", "15", "25", "50", "60"} :
              artifact \in ToSet(StageScript(script, "fit").writes)}
            \cup {"backbone", "backbone_sensor_energy", "phase_baselines",
                  "phase_reference_model"}

\* The flights behind the rows of artifact, as a stage that reads it passes them on.
FlightsThrough(artifact, table) ==
    IF artifact \in Fitted THEN {<<"fit", source[2]>> : source \in table.flights}
    ELSE table.flights

CanRun(stage, tables) == stage.reads \subseteq DOMAIN tables

InputsOf(stage, tables) == stage.reads \cup (stage.optional \cap DOMAIN tables)

KnobsRead(stage, tables) ==
    stage.knobs \cup IF "window_policy_profile" \in DOMAIN tables THEN {} ELSE stage.fallbackKnobs

\* The rows a stage computes from its input tables under the changed settings.
Computed(script, stage, tables, changed) ==
    LET inputs == InputsOf(stage, tables) IN
    Table(UNION {FlightsThrough(artifact, tables[artifact]) : artifact \in inputs},
          {<<script, changed \cap KnobsRead(stage, tables)>>}
            \cup UNION {tables[artifact].steps : artifact \in inputs},
          Max({tables[artifact].copies : artifact \in inputs}))

WriteModeOf(stage, writeMode) == IF stage.fits THEN "overwrite" ELSE writeMode

\* write_table, over a table that may exist: append keeps its rows.
WriteTable(artifact, tables, table, mode) ==
    IF mode = "append" /\ artifact \in DOMAIN tables
    THEN Table(table.flights \cup tables[artifact].flights,
               table.steps \cup tables[artifact].steps, 2)
    ELSE table

\* old with the entries of new put in.
Replacing(old, new) ==
    [x \in DOMAIN old \cup DOMAIN new |-> IF x \in DOMAIN new THEN new[x] ELSE old[x]]

\* The tables after the first count of a stage's writes.
AfterWrites(stage, tables, table, count, writeMode) ==
    Replacing(tables,
        [artifact \in ToSet(SubSeq(stage.writes, 1, count)) |->
            WriteTable(artifact, tables, table, WriteModeOf(stage, writeMode))])

StageRun(script, phaseMode, tables, changed, count, writeMode) ==
    LET stage == StageScript(script, phaseMode)
    IN AfterWrites(stage, tables, Computed(script, stage, tables, changed), count, writeMode)

Seeded(tables, flight, count) ==
    Replacing(tables,
        [artifact \in ToSet(SubSeq(SeedTables(flight), 1, count)) |-> SeedTable(flight)])
=============================================================================
