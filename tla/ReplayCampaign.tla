--------------------------- MODULE ReplayCampaign ---------------------------
(***************************************************************************)
(* Who starts runs, and on which directories.                               *)
(*  operator:  a fresh run, then replays in its directory with the same     *)
(*             settings and any stages (scripts/run_sim_pipeline.py);       *)
(*  benchmark: a fresh run, then a variant with changed settings, replayed  *)
(*             in a copy of it (libs/tuning/benchmark_runner.py);           *)
(*  pair:      a run of the nominal flight, one of the faulted flight, and  *)
(*             the inference of the faulted flight with the artifacts of    *)
(*             the first, in a copy of the second                           *)
(*             (libs/simulation/reference_inference.py).                    *)
(***************************************************************************)
EXTENDS ReplayPlanner

CONSTANTS
    Modes,      \* modes of the operator's and the benchmark's runs
    Ends,       \* end stages they ask for
    Changes,    \* sets of knobs a benchmark variant changes
    Tiers,      \* evaluation tiers of the benchmark
    MaxRuns     \* bound on the runs of the operator

ASSUME ReplayCampaignAssumption ==
    /\ Dirs = {"source", "other", "copy"}
    /\ Modes \subseteq {"profile", "event", "structural", "full"}
    /\ Changes \subseteq (SUBSET Knobs) \ {{}}
    /\ Tiers \subseteq DOMAIN EvaluationEndStage
    /\ MaxRuns \in Nat

VARIABLE campaign    \* kind, runs begun, and the variant: changed knobs and target

vars == <<runVars, campaign>>

Campaign(kind, runs, prepared, changed, target, tier) ==
    [kind |-> kind, runs |-> runs, prepared |-> prepared, changed |-> changed,
     target |-> target, tier |-> tier]

Init ==
    /\ RunInit
    /\ \E kind \in {"operator", "benchmark", "pair"} :
          campaign = Campaign(kind, 0, FALSE, {}, Unset, Unset)

BeginNext(config) ==
    /\ Begin(config)
    /\ campaign' = [campaign EXCEPT !.runs = @ + 1]

-----------------------------------------------------------------------------
FreshRun ==
    /\ campaign.kind \in {"operator", "benchmark"} /\ campaign.runs = 0
    /\ \E mode \in Modes, end \in Ends :
          BeginNext(Config(mode, "source", FALSE, Unset, end, {}, "nominal"))

Resume ==
    /\ campaign.kind = "operator" /\ campaign.runs \in 1 .. MaxRuns - 1
    /\ \E mode \in Modes, start \in Scripts \cup {Unset}, end \in Ends :
          /\ start \in ToSet(Plan[mode]) \cup {Unset}
          /\ BeginNext(Config(mode, "source", TRUE, start, end, {}, "nominal"))

\* build_replay_run_command: a boundary in the source, then the copy.
PlanVariant ==
    /\ campaign.kind = "benchmark" /\ campaign.runs = 1 /\ ~campaign.prepared
    /\ IsIdle
    /\ \E changed \in Changes, tier \in Tiers :
       \E target \in {InferredTarget(changed)} \cup ToSet(OrderedStageScripts("source")) :
          /\ target \in ToSet(StageOrder)
          /\ EvaluationEndStage[tier] \in ToSet(Plan[runMode["source"]])
          /\ HasRecommendation("source", target)
          /\ Clone("source", "copy")
          /\ campaign' = Campaign("benchmark", 1, TRUE, changed, target, tier)

RunVariant ==
    /\ campaign.kind = "benchmark" /\ campaign.runs = 1 /\ campaign.prepared
    /\ BeginNext(Config(runMode["copy"], "copy", TRUE,
                        RecommendedStart("source", campaign.target),
                        ReplayEnd(campaign.target, campaign.tier),
                        campaign.changed, "nominal"))

-----------------------------------------------------------------------------
ReferenceRun ==
    /\ campaign.kind = "pair" /\ campaign.runs = 0
    /\ BeginNext(Config("full", "source", FALSE, Unset, Unset, {}, "nominal"))

SelfFitRun ==
    /\ campaign.kind = "pair" /\ campaign.runs = 1 /\ run.status = "success"
    /\ BeginNext(Config("full", "other", FALSE, Unset, Unset, {}, "faulted"))

\* copytree of the self-fit directory, then stage_reference_artifacts over it.
StageReferenceArtifacts ==
    /\ campaign.kind = "pair" /\ campaign.runs = 2 /\ ~campaign.prepared
    /\ IsIdle /\ run.status = "success"
    /\ ReferenceArtifactNames \subseteq DOMAIN tables["source"]
    /\ tables' = [tables EXCEPT !["copy"] =
                     Replacing(tables["other"],
                         [artifact \in ReferenceArtifactNames |-> tables["source"][artifact]])]
    /\ manifests' = [manifests EXCEPT !["copy"] = manifests["other"]]
    /\ summaries' = [summaries EXCEPT !["copy"] = summaries["other"]]
    /\ runMode' = [runMode EXCEPT !["copy"] = runMode["other"]]
    /\ campaign' = [campaign EXCEPT !.prepared = TRUE]
    /\ UNCHANGED <<phaseMode, run, failures>>

InferenceRun ==
    /\ campaign.kind = "pair" /\ campaign.runs = 2 /\ campaign.prepared
    /\ BeginNext(Config("reference_inference", "copy", TRUE, Unset, Unset, {}, "faulted"))

Next ==
    \/ FreshRun \/ Resume
    \/ PlanVariant \/ RunVariant
    \/ ReferenceRun \/ SelfFitRun \/ StageReferenceArtifacts \/ InferenceRun
    \/ RunStep /\ UNCHANGED campaign

Spec == Init /\ [][Next]_vars

-----------------------------------------------------------------------------
\* Directories hold known tables and manifests point to directories; the
\* stages done and the stages left of an active run are its selection.
TypeOK ==
    /\ \A dir \in Dirs :
          /\ DOMAIN tables[dir] \subseteq Artifacts
          /\ \A artifact \in DOMAIN tables[dir] :
                /\ tables[dir][artifact].flights
                      \subseteq {"live", "fit"} \X {"nominal", "faulted"}
                /\ tables[dir][artifact].copies \in {1, 2}
          /\ DOMAIN manifests[dir] \subseteq Scripts
          /\ \A script \in DOMAIN manifests[dir] : manifests[dir][script].dir \in Dirs
          /\ DOMAIN summaries[dir] \subseteq DOMAIN Plan
          /\ runMode[dir] \in DOMAIN Plan \cup {Unset}
    /\ phaseMode \in PhaseModes
    /\ run.status \in {"none", "running", "success", "failed", "refused"}
    /\ run.step = "stages" =>
          run.done \o run.stages =
             SelectedStageScripts(Plan[run.config.mode], run.config.start, run.config.end)

Succeeded == IsIdle /\ run.status = "success"

\* A run that reports success, fresh or resumed at any stage after any failure,
\* leaves every table of its plan up to its end as one undisturbed run makes it:
\* none missing, none doubled, none made without an input that the plan gives it.
ResumeCompletesTheRun ==
    campaign.kind = "operator" /\ Succeeded =>
        Holds("source", FreshTables(run.config.mode, run.config.end, "nominal", {}))

\* The stage runner accepts every boundary that the planner recommends but
\* stage 40, and of a run from stage 40 it runs no stage: the manifest of that
\* stage asks for a table that it does not list, which the planner takes for
\* an existing one.
RecommendedBoundaryIsAccepted ==
    campaign.prepared /\ run.config.dir = "copy" =>
        IF run.config.start = "40" THEN run.done = <<>> /\ run.status # "success"
        ELSE run.status # "refused"

\* Where the first stage that reads a setting stands in the plan.
FirstReader(knob) ==
    Min({i \in DOMAIN FullPlan :
            LET stage == StageScript(FullPlan[i], "fit")
            IN knob \in stage.knobs \cup stage.fallbackKnobs})

\* A variant replayed from a target no later than the first stage that reads any
\* of its changed settings gives the tables that a fresh run with these settings
\* gives: what it does not recompute does not depend on them.
ReplayRecomputesChanges ==
    /\ campaign.kind = "benchmark" /\ run.config.dir = "copy" /\ Succeeded
    /\ \A knob \in campaign.changed :
          Position(campaign.target, FullPlan) <= FirstReader(knob)
    => Holds("copy", FreshTables(run.config.mode, run.config.end, "nominal", campaign.changed))

\* Inference against a reference: whatever the stages of the inference run write
\* comes from the rows of the faulted flight and from models fitted on the nominal
\* one, and from nothing that was fitted on the faulted flight itself.
ReferenceIsFixed ==
    campaign.kind = "pair" /\ run.config.dir = "copy" =>
        \A script \in ToSet(run.done) :
            \A artifact \in ToSet(StageScript(script, "apply_reference").writes) :
                tables["copy"][artifact].flights
                    \subseteq {<<"live", "faulted">>, <<"fit", "nominal">>}

-----------------------------------------------------------------------------
\* scripts/README.md:125, "the script infers the earliest impacted stage from the
\* changed knobs": a variant replayed from the inferred target gives the tables
\* that a fresh run with its settings gives.
InferredReplayIsFresh ==
    /\ campaign.kind = "benchmark" /\ run.config.dir = "copy" /\ Succeeded
    /\ campaign.target = InferredTarget(campaign.changed)
    => Holds("copy", FreshTables(run.config.mode, run.config.end, "nominal", campaign.changed))
=============================================================================
