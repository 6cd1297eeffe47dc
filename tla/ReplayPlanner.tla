---------------------------- MODULE ReplayPlanner ----------------------------
(***************************************************************************)
(* Where to resume a run directory: the replay report and the resume plan   *)
(* (libs/simulation/replay_report.py), and the stage a benchmark variant    *)
(* has to be replayed from (libs/tuning/benchmark_planning.py).             *)
(***************************************************************************)
EXTENDS SimulationRun

\* _resolve_summary_artifact_path: the first of these modes with a summary.
SummaryOrder == <<"profile", "event", "structural", "full">>

OrderedStageScripts(dir) ==
    LET present == {i \in DOMAIN SummaryOrder : SummaryOrder[i] \in DOMAIN summaries[dir]}
    IN IF present = {} THEN <<>> ELSE summaries[dir][SummaryOrder[Min(present)]]

\* An artifact that the manifest does not list has the empty path, that is the
\* working directory, which exists.
ReportedToExist(manifest, artifact) ==
    artifact \in manifest.inputs => artifact \in DOMAIN tables[manifest.dir]

\* Mutant: a stage of the summary without a manifest is ready.
IsListed(dir, script) ==
    script \in DOMAIN manifests[dir] =>
        \A artifact \in manifests[dir][script].replayableFrom :
            ReportedToExist(manifests[dir][script], artifact)

\* build_simulation_replay_report: the stages listed as ready.
IsReady(dir, script) ==
    /\ script \in DOMAIN manifests[dir]
    /\ manifests[dir][script].replayableFrom # {}
    /\ \A artifact \in manifests[dir][script].replayableFrom :
          ReportedToExist(manifests[dir][script], artifact)

\* Mutant: one stage too many.
ReadyPast(dir, target) ==
    LET ordered == OrderedStageScripts(dir)
    IN {i \in 1 .. Min({Len(ordered), Position(target, ordered) + 1}) : IsReady(dir, ordered[i])}

\* recommend_resume_plan: where the stages that are ready up to the target stand
\* in the summary.
ReadyUpTo(dir, target) ==
    LET ordered == OrderedStageScripts(dir)
    IN {i \in 1 .. Position(target, ordered) : IsReady(dir, ordered[i])}

HasRecommendation(dir, target) ==
    /\ runMode[dir] # Unset
    /\ target \in ToSet(OrderedStageScripts(dir))
    /\ ReadyUpTo(dir, target) # {}

RecommendedStart(dir, target) == OrderedStageScripts(dir)[Max(ReadyUpTo(dir, target))]

-----------------------------------------------------------------------------
\* STAGE_ORDER of the planner, which has no stage 35 and no stage 72.
StageOrder == SelectSeq(FullPlan, LAMBDA script : script # "72")

Later(one, other) == IF Position(one, StageOrder) < Position(other, StageOrder) THEN other ELSE one

\* ARG_STAGE_BY_NAME and ENV_STAGE_BY_PREFIX, by group of settings.
PlannerStage ==
    [profile |-> "10", behavior |-> "12", event_profile |-> "15", delta_threshold |-> "20",
     window_limits |-> "30", window_strategy |-> "30", backbone |-> "40", graph |-> "60",
     phase_count |-> "70", min_warm |-> "85"]

Knobs == DOMAIN PlannerStage

\* infer_replay_target_stage: the last of the impacted stages.
InferredTarget(changed) ==
    LET impacted == {PlannerStage[knob] : knob \in changed}
    IN CHOOSE script \in impacted : \A other \in impacted : Later(script, other) = script

EvaluationEndStage ==
    [profile |-> "15", event |-> "20", structural |-> "60", phase |-> "70", scoring |-> "85",
     anomaly |-> "90", full |-> "95"]

\* resolve_replay_end_stage
ReplayEnd(target, tier) == Later(EvaluationEndStage[tier], target)

\* clone_replay_source_run: the manifests of the copy still point to the source.
Clone(source, copy) ==
    /\ tables' = [tables EXCEPT ![copy] = tables[source]]
    /\ manifests' = [manifests EXCEPT ![copy] = manifests[source]]
    /\ summaries' = [summaries EXCEPT ![copy] = summaries[source]]
    /\ runMode' = [runMode EXCEPT ![copy] = runMode[source]]
    /\ UNCHANGED <<phaseMode, run, failures>>
=============================================================================
