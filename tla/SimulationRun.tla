---------------------------- MODULE SimulationRun ----------------------------
(***************************************************************************)
(* A run of the pipeline on a simulated flight (libs/simulation/runner.py,  *)
(* run_context.py) and the stage group it starts                            *)
(* (pipelines/_pipeline_runner.py): seeds, the checks before a replay, the  *)
(* stages one after the other, the summary, the manifests and the reports.  *)
(* Every run works in a run directory; a replay works in the directory it   *)
(* replays.  A stage reads all its inputs and then writes its tables in     *)
(* order; it may raise before, between and after its writes, and leaves a   *)
(* manifest only when it succeeds.  One run is active at a time.            *)
(***************************************************************************)
EXTENDS PipelineStages

CONSTANTS
    Dirs,          \* run directories
    WriteMode,     \* --write-mode, append or overwrite (merge becomes overwrite)
    MaxFailures    \* bound on the exceptions of a behaviour

ASSUME SimulationRunAssumption == WriteMode \in {"append", "overwrite"} /\ MaxFailures \in Nat

VARIABLES
    tables,        \* tables[dir]: artifact -> table
    manifests,     \* manifests[dir]: stage -> the manifest of its last success
    summaries,     \* summaries[dir]: mode -> the stages of its last stage group
    runMode,       \* runMode[dir]: mode in the run manifest, Unset without one
    phaseMode,     \* S3NTINEL_PHASE_EXECUTION_MODE of the process
    run,           \* the active run, or the last one
    failures       \* exceptions so far

runVars == <<tables, manifests, summaries, runMode, phaseMode, run, failures>>

Config(mode, dir, replay, start, end, changed, flight) ==
    [mode |-> mode, dir |-> dir, replay |-> replay, start |-> start, end |-> end,
     changed |-> changed, flight |-> flight]

\* Before the first run of the process.
NoRun ==
    [config |-> Config("full", CHOOSE dir \in Dirs : TRUE, FALSE, Unset, Unset, {}, "nominal"),
     step |-> "idle", status |-> "none", stages |-> <<>>, done |-> <<>>, savedPhaseMode |-> "fit"]

NoTables == [artifact \in {} |-> Table({}, {}, 0)]
NoManifests == [script \in {} |-> [dir |-> "", inputs |-> {}, replayableFrom |-> {}]]
NoSummaries == [mode \in {} |-> <<>>]

RunInit ==
    /\ tables = [dir \in Dirs |-> NoTables]
    /\ manifests = [dir \in Dirs |-> NoManifests]
    /\ summaries = [dir \in Dirs |-> NoSummaries]
    /\ runMode = [dir \in Dirs |-> Unset]
    /\ phaseMode = "fit"
    /\ run = NoRun
    /\ failures = 0

IsIdle == run.step = "idle"
MayFail == failures < MaxFailures

-----------------------------------------------------------------------------
\* _validate_replay_inputs: the manifest of the first stage in the replayed
\* directory exists and what it declares can be found where it points to.
InputExists(manifest, artifact) ==
    artifact \in manifest.inputs /\ artifact \in DOMAIN tables[manifest.dir]

\* Mutant: a stage that has left no manifest passes.
ReplayInputsIfListed(dir, script) ==
    script \in DOMAIN manifests[dir] =>
        \A artifact \in manifests[dir][script].replayableFrom :
            InputExists(manifests[dir][script], artifact)

ReplayInputsAreValid(dir, script) ==
    /\ script \in DOMAIN manifests[dir]
    /\ manifests[dir][script].replayableFrom # {}
    /\ \A artifact \in manifests[dir][script].replayableFrom :
          InputExists(manifests[dir][script], artifact)

\* run_mode: a selection exists, and starts late only in a replay.
ModeIsLegal(config) ==
    LET plan == Plan[config.mode] IN
    /\ IsSelectable(plan, config.start, config.end)
    /\ config.replay \/ StartIndex(plan, config.start) = 1

ShouldWriteSeeds(config, stages) == ~config.replay \/ Head(stages) = "00"

\* run_stage_group validates only a replay with an explicit start.
ReplayIsAccepted(config, stages) ==
    config.replay /\ config.start # Unset => ReplayInputsAreValid(config.dir, Head(stages))

PhaseModeFor(config) ==
    IF config.mode = "reference_inference" THEN "apply_reference" ELSE phaseMode

Started(config, step, status, stages) ==
    [config |-> config, step |-> step, status |-> status, stages |-> stages,
     done |-> <<>>, savedPhaseMode |-> phaseMode]

\* run_pipeline up to the first stage.  A run that run_mode refuses changes
\* nothing; one whose replay inputs are missing has written its seeds.
Begin(config) ==
    /\ IsIdle
    /\ IF ~ModeIsLegal(config)
       THEN /\ run' = Started(config, "reports", "failed", <<>>)
            /\ UNCHANGED <<tables, phaseMode, failures>>
       ELSE LET stages == SelectedStageScripts(Plan[config.mode], config.start, config.end)
                seeds == IF ShouldWriteSeeds(config, stages)
                         THEN Len(SeedTables(config.flight)) ELSE 0
            IN  /\ phaseMode' = PhaseModeFor(config)
                /\ \/ /\ tables' = [tables EXCEPT ![config.dir] = Seeded(@, config.flight, seeds)]
                      /\ run' = IF ReplayIsAccepted(config, stages)
                                THEN Started(config, "stages", "running", stages)
                                ELSE Started(config, "reports", "refused", <<>>)
                      /\ UNCHANGED failures
                   \/ \E count \in 0 .. seeds - 1 :    \* the simulation or a write raises
                         /\ MayFail
                         /\ tables' = [tables EXCEPT ![config.dir] =
                                          Seeded(@, config.flight, count)]
                         /\ run' = Started(config, "reports", "failed", <<>>)
                         /\ failures' = failures + 1
    /\ UNCHANGED <<manifests, summaries, runMode>>

-----------------------------------------------------------------------------
NextScript == Head(run.stages)
NextStage == StageScript(NextScript, phaseMode)
dirTables == tables[run.config.dir]

Manifest(dir, stage) ==
    [dir |-> dir, inputs |-> stage.inputs, replayableFrom |-> stage.replayableFrom]

\* The tables when the next stage has written its first count tables.
TablesAfter(count) ==
    [tables EXCEPT ![run.config.dir] =
        StageRun(NextScript, phaseMode, @, run.config.changed, count, WriteMode)]

WithManifest(script, manifest) ==
    [manifests EXCEPT ![run.config.dir] = Replacing(@, [s \in {script} |-> manifest])]

\* Mutant: the last stage stays the next one when it succeeds.
RunStageAgain ==
    /\ run.step = "stages" /\ run.stages # <<>>
    /\ CanRun(NextStage, dirTables)
    /\ tables' = TablesAfter(Len(NextStage.writes))
    /\ manifests' = WithManifest(NextScript, Manifest(run.config.dir, NextStage))
    /\ run' = [run EXCEPT !.stages = IF Len(@) > 1 THEN Tail(@) ELSE @,
                          !.done = Append(@, NextScript)]
    /\ UNCHANGED <<summaries, runMode, phaseMode, failures>>

RunStage ==
    /\ run.step = "stages" /\ run.stages # <<>>
    /\ CanRun(NextStage, dirTables)
    /\ tables' = TablesAfter(Len(NextStage.writes))
    /\ manifests' = WithManifest(NextScript, Manifest(run.config.dir, NextStage))
    /\ run' = [run EXCEPT !.stages = Tail(@), !.done = Append(@, NextScript)]
    /\ UNCHANGED <<summaries, runMode, phaseMode, failures>>

\* The summary lists the stages that ran, a failed one included.
SummaryWith(stages) ==
    [summaries EXCEPT ![run.config.dir] = Replacing(@, [mode \in {run.config.mode} |-> stages])]

StageFails ==
    /\ run.step = "stages" /\ run.stages # <<>>
    /\ \/ /\ ~CanRun(NextStage, dirTables)
          /\ UNCHANGED <<tables, failures>>
       \/ /\ CanRun(NextStage, dirTables) /\ MayFail
          /\ \E count \in 0 .. Len(NextStage.writes) : tables' = TablesAfter(count)
          /\ failures' = failures + 1
    /\ summaries' = SummaryWith(Append(run.done, NextScript))
    /\ run' = [run EXCEPT !.step = "reports", !.status = "failed", !.stages = <<>>]
    /\ UNCHANGED <<manifests, runMode, phaseMode>>

\* The summary after the last stage, and the validation reports, which may raise.
EndStages ==
    /\ run.step = "stages" /\ run.stages = <<>>
    /\ summaries' = SummaryWith(run.done)
    /\ \/ run' = [run EXCEPT !.step = "reports", !.status = "success"] /\ UNCHANGED failures
       \/ /\ MayFail
          /\ run' = [run EXCEPT !.step = "reports", !.status = "failed"]
          /\ failures' = failures + 1
    /\ UNCHANGED <<tables, manifests, runMode, phaseMode>>

\* The finally block: the run manifest, the reports, and the environment
\* unless a report raises.
Finish ==
    /\ run.step = "reports"
    /\ runMode' = [runMode EXCEPT ![run.config.dir] = run.config.mode]
    /\ \/ /\ phaseMode' = run.savedPhaseMode
          /\ run' = [run EXCEPT !.step = "idle"]
          /\ UNCHANGED failures
       \/ /\ MayFail
          /\ run' = [run EXCEPT !.step = "idle", !.status = "failed"]
          /\ failures' = failures + 1
          /\ UNCHANGED phaseMode
    /\ UNCHANGED <<tables, manifests, summaries>>

RunStep == RunStage \/ StageFails \/ EndStages \/ Finish

-----------------------------------------------------------------------------
\* The tables made, after one stage more, with all that it writes.
FitInto(changed, made, script) ==
    StageRun(script, "fit", made, changed, Len(StageScript(script, "fit").writes), "overwrite")

(***************************************************************************)
(* The tables that the stages of a mode up to last make of a flight in an   *)
(* empty directory, every stage once and with the same settings.            *)
(***************************************************************************)
FreshTables(mode, last, flight, changed) ==
    FoldLeft(LAMBDA made, script : FitInto(changed, made, script),
             Seeded(NoTables, flight, Len(SeedTables(flight))),
             SubSeq(Plan[mode], 1, EndIndex(Plan[mode], last)))

\* dir holds, among others, exactly the tables of fresh.
Holds(dir, fresh) ==
    \A artifact \in DOMAIN fresh :
        artifact \in DOMAIN tables[dir] /\ tables[dir][artifact] = fresh[artifact]
=============================================================================
