# S3NTINEL: TLA+ models and proofs

S3NTINEL turns flight telemetry into events, events into adaptive windows,
windows into phases, graphs, scores and anomaly attributions. The steps are
Spark stages; a simulator of coupled aircraft modules makes labelled flights
to test them. This directory models the parts whose correctness rests on
order, on carried state and on the interplay of several steps, checks them
with TLC on small instances, and proves the results that matter most with
TLAPS for every instance. `PROJECT.json` maps every definition to the lines it
stands for. Paths below are relative to the repository's `src/` directory.

## 1. Inventory

### The sequence kernels

**Segmentation** (`libs/spark_sequence/plan.py`). State: none; it gives each
row of an ordered stream a segment id, the greater of a row-count id and a
time-span id, and collects the distinct ids over all keys. Users: the event
detectors, the window builder, the phase decode. Each runs the same driver
loop: for every collected id in order, fold the rows of the keys that have
rows there with `F.aggregate`, starting from the carry of the iteration
before, and replace the carry. Hard: the ids of one key have gaps, and the
ids come from other keys too. Correct when segmentation is invisible: each
row meets the state of exactly the rows before it.

**Events** (`libs/events`). The stage sends the rows of a parameter to one of
two detectors by the profiled datatype and numbers what they emit. State of
the categorical one per sequence: last state, since when, last dwell guard,
missing; of the continuous one: the slope run, the last switch and
oscillation, the last drift guard and the change since. Operation: one sample.
Hard: conditions over several fields, missing stretches, runs that flip sign,
repeated reports by ratio, two triggers that share one counter. Correct when
the events are exactly the changes, runs and drifts of the samples.

**Adaptive windows** (`libs/windows/pipeline.py`, `window.py`). State per
flight: the open window, `next_win_id`, the closed windows. Operations: fold
an event, fold a budget step, end the stream, assign events by range. Hard:
windows opened by steps that are no events; three reasons to close that
compete; a window carried between segments. Correct when every event lies in
exactly one window, windows are numbered without gaps and ordered in time,
and quiet stretches split them.

**Phase decode** (`libs/phase/decode.py`). State per flight: score and path
per phase, then the assigned path. Operations: advance a segment, take the
final path, one pass of the dwell loop over all flights. Hard: only the carry
left at the end is read; the dwell loop has no bound, and one flight that does
not settle keeps the batch waiting. Correct when the path is an optimal
monotone path, for all flights of the batch, and the dwell loop ends.

### Graphs and hierarchy

**Fusion and hierarchy** (`libs/graph`). Stage 50 orients the edges of three
component graphs and joins them; stage 60 prunes the fused rows by weight,
top-k and mutual ranks, and groups parameters into modules, modules into
subsystems, subsystems into systems by union-find. State: the forest of a
level, the edges left, the finished levels. Hard: Spark collects the edges in
no order; ties are cut by name; three thresholds depend on one another; two
builders exist. Correct when both builders agree and each level is the
connected components of its strong edges. The weights themselves (ridge
regression, mutual information, lags) are numerical.

### The flight simulator

**Flight, aircraft, module, coupling** (`libs/simulation/*/runtime.py`) and
**behavior** (`libs/behavior`). State: step index, modes, input ports (value,
time, metadata), delayed writes by key, the last clean value of each
parameter, the misbehavior program. Operations: begin a tick (clear metadata,
set modes), step a module (read the ports, generate the clean sample, violate
it, label the row, apply the module's couplings). Modules step in order, so a
coupling forward is read in the same tick and one backward in the next (the
wire diagram, item 7, speaks of the next step only). Hard: a coupling drains
one queue and may feed another, keys are shared, gates act when a write is
queued and not when it arrives, labels live for one tick, generators written
over a stream are called anew for each sample. Correct when a port shows the
newest admitted sample whose lag is over, a misbehavior leaves the clean
signal alone, and rows carry the labels of what touched them.

### Around them

**Stage runner** (`pipelines/_pipeline_runner.py`, `plans.py`, the stage
scripts): the selected stages in order in one process, up to a failure; a
summary; a manifest for each stage that succeeds; the check of a replay's
inputs. **Simulation runner** (`libs/simulation/runner.py`,
`run_context.py`): seeds, environment, stages, reports, and the environment
restored. **Replay planning** (`replay_report.py`,
`libs/tuning/benchmark_planning.py`): which stages are ready, where to resume.
**Reference inference**: a nominal run, a faulted run, and the faulted flight
scored with the models of the first. Hard: a failure between two tables,
stale tables and manifests of earlier runs in the same directory, inputs that
a stage reads and does not declare. Correct when a run resumed to success
holds exactly the tables of an undisturbed one.

**Numerical and declarative parts** (window features, profiling, backbone,
phase fit, scoring, anomaly attribution, tuning objectives) keep no state over
time that a model checker would reach; **configuration, plotting, reporting,
architecture extraction, scripts** are parsing or output. They are listed one
by one under `components` in `PROJECT.json`, with the reason.

## 2. Modules

| Module | Models | State and actions |
| --- | --- | --- |
| `SequencePlan` | segment ids (`plan.py`) | operators |
| `StreamFold` | *abstract*: the fold of each stream row by row, from given rows on anew | `stream`, `restarts`, `seen`; one step advances the keys by any number of rows |
| `SegmentedFold` | the carry loop of the kernels | `stream`, `pending`, `carry`, `seen`; `ProcessSegment` is one iteration of the loop |
| `WindowSteps` | the closure budget and the steps of a flight | operators |
| `AdaptiveWindows` | `AdaptiveWindowTransition` | `Fold(step)` is `state_after_step_column`, `EndOfStream` is `end_of_stream_windows_column` |
| `CategoricalEvents`, `ContinuousEvents` | the two `state_after_step_column` | `Sample` |
| `EventDetection` | the detector a parameter is sent to (`events/pipeline.py`) | `DetectCategorical`, `DetectContinuous` |
| `PhaseViterbi` | `PhaseSequenceState`, and the reference definition of an optimal path | operators |
| `PhaseDecode` | `assign_phases_segmented` | `DecodeSegment`, `AssignPhases` |
| `MinDwell` | `enforce_min_dwell` for one flight | `Pass`, `Return` |
| `PhaseAssignment` | decode, then the dwell loop over the batch (`phase/pipeline.py`) | `Decode`, `Pass`, `Return` |
| `GraphEvidence` | edges of stage 50, pruning and rollup of stage 60 | operators |
| `UnionFind` | `graph/hierarchy.py` | operators: find with compression, union by rank |
| `Partition` | *abstract*: joining the blocks of strong edges | `nodes`, `threshold`, `pending`, `blocks` |
| `HierarchyFit` | stages 50 and 60 (`hierarchy_artifacts.py`) | `FuseGraph`, `RetainEdges`, `TakeAny`, `Climb`, `Finish` |
| `PandasHierarchy` | `from_fused`, the builder of the integration tests; connected components | operators |
| `MisbehaviorProgram` | windows over the step index | operators |
| `Coupling` | `Coupling.apply` and its parts | operators |
| `BehaviorTick` | generators and violators of the five families, `iter_tick_samples` | operators |
| `SimulatedFlight` | the tick of a flight | `BeginTick`, `StepModule` |
| `PipelineStages` | every stage as the tables it reads, declares and writes; plans; write modes | operators |
| `SimulationRun` | one run of the pipeline and its stage group | `Begin`, `RunStage`, `StageFails`, `EndStages`, `Finish` |
| `ReplayPlanner` | replay report, resume plan, inferred target | operators |
| `ReplayCampaign` | who starts runs on which directories | `FreshRun`, `Resume`; `PlanVariant`, `RunVariant`; `ReferenceRun`, `SelfFitRun`, `StageReferenceArtifacts`, `InferenceRun`; `RunStep` |

The proofs are in `SegmentedFoldProofs`, `EventDetectionProofs`,
`AdaptiveWindowsProofs`, `PhaseDecodeProofs`, `HierarchyFitProofs`,
`SimulatedFlightProofs` and `ReplayCampaignProofs`; `FoldLemmas` has what those
about folds share.

Composition: `PhaseDecode` uses `SequencePlan` and `PhaseViterbi`;
`PhaseAssignment` extends it with an instance of `MinDwell` per flight;
`EventDetection` instantiates both event machines over one stream;
`SimulatedFlight` extends `Coupling` and `BehaviorTick`, which share the
misbehavior program; `ReplayCampaign` extends `ReplayPlanner`,
`SimulationRun` and `PipelineStages`. `SegmentedFold` implements `StreamFold`
and `HierarchyFit` implements `Partition`, by refinement mappings; `HierarchyFit`
extends `PandasHierarchy` for the comparison of the two builders. An MC module
per run's machine holds the instances.

How the code is abstracted:

- `SegmentedFold` carries the set of rows folded into a state instead of the
  state: any kernel's state is a function of that set, so a property of the
  set holds for all of them. The window builder also leaves out of its carry
  the flights that have ended, which have no later rows.
- A flight of windows is the list of its event times. Credit is exact, in
  units of `1 / QuietHorizon` of an event, where the code uses doubles.
- A continuous sample is what the feature frame hands to the step; the
  averages and thresholds that make a candidate are inputs. Rows without a
  value, which keep their sample index, are a number `dropped` before it.
- A window of the phase decode is its vector of costs.
- Parameters of the hierarchy are numbers in the order of their names. Weights
  are multiples of 10,080, so that every quotient taken of them is a whole
  number; the rounding of averages, and the order of group names past four
  digits, are left out.
- In a flight, the noise is zero, a tick is at least a second and every
  quotient is whole; the input program drives a parameter to any of two
  targets in each tick; rows are emitted in every tick. A module has one
  parameter, which reads all the ports of the module in coupling order. A
  transferred value is the time of the sample it comes from; gain is part of
  the sign. Of a queue key, the two mode names, which are part of the gates in
  every coupling, are left out.
- A table is where its rows come from: which flight, directly or through a
  fitted model; which stages made it under which changed settings; how many
  copies of each row it holds. A stage reads its inputs and then writes its
  tables one by one, and may raise before, between and after the writes. The
  write of one table is taken to be atomic.
- A machine writes its history (`samples`, `seen`) so that properties compare
  it with its inputs and not with itself.

Operators whose comment begins with *Mutant* or *As if*
stand before some definitions: they are plausible bugs, and `PROJECT.json`
names the property that each of them breaks. No specification uses them.

## 3. Runs

| Run | Question | Bounds |
| --- | --- | --- |
| `fold_span` | With both policies on, is the fold of an unbroken key complete, is that of every key the row by row fold that restarts behind a skipped id and nowhere else, and does it end? | all pairs of streams of up to 4 rows, times up to 4; segments of 2 rows or 2 ms |
| `windows` | Do the windows of every short flight partition its events, contiguous, ordered, within budget and split by quiet? | up to 5 events within 9 ms; horizon 4 ms, threshold 3; timeout off or 3 ms |
| `phase_assignment` | Are the paths optimal among all monotone paths, and what do the dwell passes make of them? | pairs of flights of up to 3 windows and 3 phases, or 5 windows and 4 phases; penalty 3, dwell limit 2 |
| `phase_policy` | *Violated*: segmentation preserves the phases | the row policy alone, flights of different lengths |
| `dwell_swap` | *Violated*: the dwell loop ends | 4 phases, 16 windows, limit 2 |
| `events` | Do the detectors report the runs, changes and drifts of the samples? | 5 categorical samples of 2 states and missing, 0 to 2 ms apart; or 4 continuous rows |
| `coupled_flight` | Do ports hold the newest admitted sample that is due, rows the clean stream with its violation, and both true labels? | 2 modules, 4 couplings, 4 ticks of 1/2 s, lags of 4/6 and 3/6 s; 17 programs with windows on couplings, on parameters of every family, or on both |
| `ticked_lag` | *Violated*: a timing lag delays the samples | one parameter, a lag of one step |
| `hierarchy` | Do both builders find the same connected components, whatever the order of the edges? | 4 parameters, up to 3 related pairs, 3 kinds of evidence, 2 orders of the backbone, 4 settings |
| `fused_pairs` | *Violated*: a pair has one fused row with all its evidence | one related pair |
| `replays` | Does a resumed run hold the tables of an undisturbed one; is a replayed variant what a fresh one would be; does the reference stay fixed? | any one exception; 2 runs of an operator, structural or full, to stage 25 or the end; 4 groups of changed settings, 2 tiers; the pair of runs and the inference |
| `replay_target` | *Violated*: the inferred stage is the earliest impacted one | as `replays`, no exception |

Why the bounds suffice. A gap needs two keys and a quiet stretch longer than
one span; four rows hold a gap with rows on both sides. A budget step before,
between and after events, two budget steps in a row, and a timeout that falls
before, on and after a budget step all fit into 9 ms with a horizon of 4. Two
short runs side by side, the shortest way for the dwell loop to go on, need
four runs. A slope run can start, be reported, grow and be reported again in
four samples; a guard can come by change, by gap, and by both. The
time of a flight is counted in sixths of a second. With ticks of half a second
(3 units, as in the scenarios) and lags of 4 and 3 units, a write arrives one
or two ticks later, on time or between two ticks, and jitter changes its lag by
an amount that moves it across a tick; an inertial parameter with a time
constant of one second goes half the way to its target in a tick, so that four
ticks divide 16, and a regulated one at the default reversion rate of 1.5 goes
from 0 to 12 and 15 and has settled within a control band of 2, so that the
third and fourth ticks of one run of its generator trim. Three pairs of four parameters make a
chain, a star, a triangle and ties at the top-k place; a forest of rank 2
needs four nodes. A resumed run differs from a first one in what one exception
left; a third run finds a directory that a second one, failed or not, has left
in the same form. Data enters the machines only by comparison and addition, so
larger values repeat these cases.

`CHECK_DEADLOCK FALSE` is set where the program ends: a loop over finitely
many segments, steps, edges or ticks, or a campaign of finitely many runs.

Constants that are bounds and not settings of the code: `MaxSamples`,
`MaxRows` (events), `MaxSteps` (ticks), `MaxPairs` (related pairs),
`MaxRuns`, `MaxFailures` (campaigns), and the sets of flights, streams,
graphs, settings, programs and inputs of the MC modules.

Fairness. The liveness properties `EveryRowFolded`, `EveryEventAssigned`,
`LastSegmentIsAssigned`, `IsolatedRunsSettle` and `DwellIsEnforced` assume
`WF_vars(Next)`. The loops modelled are plain Python loops of one driver
process, which does its next iteration when there is one; nothing else takes
turns with it. The event machines, the flight, the hierarchy and the campaigns
state safety only and assume no fairness.

### What the properties say

- *Segmentation*: `CarryComplete` (an unbroken key meets exactly the rows
  before), `NoRowFromTheFuture` (even a broken key folds consecutive rows that
  end right before), `EveryRowFolded`, `ImplementsStreamFold` (the state that a
  row of any key meets, the lost ones included: exactly the rows before it,
  back to the last collected id that its key skips).
- *Windows*: `WindowIdsContiguous`; `WindowsPartitionEvents` (each folded
  event in the range of exactly one window, counts are those of the ranges,
  windows follow one another); `QuietSplitsWindows`; `EveryEventAssigned`.
  `BudgetCap`: budget steps lie at multiples of the threshold in the credit of
  the *flight*, so a window may close before its own budget is spent or a
  while after; it never holds more events than the threshold and spends less
  than two budgets and one event. The second bound counts the granularity of
  one millisecond, which earns up to one `QuietHorizon` of credit as long as
  `Threshold <= QuietHorizon`.
- *Phases*: `CarryIsOptimal`, `AssignmentIsOptimal` against a search over all
  monotone paths; `LastSegmentIsAssigned`; `IsolatedRunsSettle` says what
  holds of the dwell loop when no two short runs touch, and `DwellIsEnforced`
  is what fails when they do.
- *Events*: `StoryIsConnected`, `EveryChangeIsReported`, `DwellsAreExact`,
  `CandidatesAreReported`, `DriftIsReported`, all against the history of
  samples.
- *Flight*: `ArrivalsWereAdmitted`, `QueuesAreInOrder`, `DelayIsExact`
  (transfers), `LabelsAreTrue`, `RowsAreLabelled` (labels of ports and rows),
  `RowsFollowTheStream`: tick by tick, the clean values are those of one run of
  the generator (`CleanRun`), as long as that run does not trim. A regulated
  generator counts the steps it has been settled and trims from the second on,
  but only within one call: of a flight the property says what is true instead,
  that every tick takes a regulated channel towards its target and not past it.
  The observed values are those of one run of the violator over the window, for
  the violators without memory. Those with memory (drift, leak, the held state
  of a dwell, ramp, slowed, oscillation, lag) start anew in every tick:
  `LagIsApplied` is the case with a run of its own.
- *Hierarchy*: `LinksClimb` (each find ends), `BuildersAgree` (the Spark
  builder in any order of edges and the pandas builder give the same groups),
  `EvidenceFormsModules`, `ImplementsPartition`. `DefaultsCollapse`: a
  threshold that is not set is three quarters of the one below, and an average
  of weights that passed the lower one passes it too, so by default the edges
  between modules all join and no two levels above the modules can differ.
- *Replays*: `ResumeCompletesTheRun`; `ReplayRecomputesChanges` (a variant
  replayed from a target no later than the first reader of its changes equals
  a fresh run); `ReferenceIsFixed` (inference takes nothing fitted on the
  faulted flight); `RecommendedBoundaryIsAccepted`: the stage runner accepts
  what the planner recommends, except for stage 40, whose manifest
  (`pipelines/40_backbone_fit.py:288`) asks for a table it does not list: an
  empty path exists for the planner (`replay_report.py:209`) and not for the
  runner.

## 4. Findings

1. `phase_policy`: the final paths are read from the carry of the last segment
   id alone (`libs/phase/decode.py:356`), and the inner join drops the windows
   of every flight that ended in an earlier one. `scripts/README.md:251` calls
   the segment settings semantics-preserving. The carries of the event
   detectors (`libs/events/categorical.py:357`, `continuous.py:703`) and of the
   window builder (`libs/windows/pipeline.py:617`) are replaced in the same
   way: a key quiet for longer than `max_span_ms` skips an id that another key
   supplies, leaves the carry, and restarts from the initial state. Flights of
   the window builder cannot skip an id as long as `max_span_ms >= max_ms`,
   for budget steps fill their quiet stretches.
2. `dwell_swap`: all short runs are replaced at once, each by the phase its
   neighbour had before. Phases 0, 1, 2, 3 become 0, 2, 1, 3 and back, and
   `while True` (`libs/phase/decode.py:485`) does not end.
3. `ticked_lag`: a flight violates each sample in a call of its own
   (`libs/behavior/tick.py:31`), so the buffer of a timing lag never fills:
   rows are labelled `misbehavior_applied` and unchanged.
   `docs/reference/misbehavior_taxonomy.md:154` and the test of the violator on
   a whole stream (`test_behavior_family_contracts.py:145`) say otherwise.
4. `fused_pairs`: precision edges run in the order of the backbone, event and
   lag edges in the order of names (`libs/graph/pipeline.py:294`,
   `precision.py:61`), so a pair may get two fused rows with a part of the
   evidence each, where `docs/design/graph_hierarchy_design.md:46` and the
   glossary (`:154`) promise one.
5. `replay_target`: the inferred stage is the last impacted one
   (`libs/tuning/benchmark_planning.py:312`), where `scripts/README.md:125` says
   the earliest. Window limits map to stage 30 although the profile fitted by
   stage 25 overrides them, and graph settings to stage 60 although stage 50
   reads them.

Observed without a run of their own: in a flight the trim of a settled
regulated channel never starts, although `libs/behavior/regulated.py:90` has
such channels continue "making small bounded corrections around the setpoint"
and `test_behavior_family_contracts.py:191` runs the generator over a whole
stream (the cause is that of `ticked_lag`, and `RowsFollowTheStream` says what
a flight does instead); a misbehavior window that changes the
gain, sign or lag of a coupling strands the writes queued before it
(`libs/simulation/coupling/runtime.py:440`), which
`docs/current/coupling_execution_audit.md:46` knows; stage 50 reads the window
policy profile when the file is there and declares it nowhere
(`pipelines/50_build_graph.py:71`); the sensitivity report of the
evaluation builds its hierarchies without profiles
(`libs/graph/evaluation.py:215`), so its baseline may join pairs that stage 60
keeps apart.

## 5. Proofs

TLAPS proves, for all values of the constants:

- `SegmentIdMonotone` (`SegmentedFoldProofs`): segment ids never decrease along
  a stream; it rests on the monotonicity of division.
- `TypeCorrect`, `CarryIsComplete`, `NoneFromTheFuture` and `Refinement`
  (`SegmentedFoldProofs`). `CarryComplete` is not inductive: it speaks of rows
  that have been folded, and a step folds new ones from the carry. `IInv` adds
  what the carry holds: no pending id lies below a processed one, the folded
  rows are those of processed segments, and the carry of an unbroken key that
  goes on is exactly its folded rows. The step takes the least pending id `s`;
  by `SegmentIdMonotone` the rows below `s` precede those of `s`, so carry and
  segment rows together are a prefix. `NoneFromTheFuture` holds of broken keys
  too: a carry is a run of consecutive rows that ends at the last folded one
  (`CarrySuffix`). `Refinement` shows each iteration to be a step of
  `StreamFold` for all keys: the folded rows of a key are a prefix before and
  after, the carry is exactly the folded rows above the last processed id that
  the key has skipped (`CarryIsTail`), and between two rows of a key there is a
  restart just when it skips an id between theirs (`RestartsAreSkips`), so that
  each row meets the rows since its last restart (`StepFolds`). `Restarts` is
  computed from the streams alone; of a key that skips nothing it is empty.
- `IdsAreContiguous` (`AdaptiveWindowsProofs`). `FoldParts` says that a step
  appends at most one window before it, under `next_win_id`, and at most one
  after, under the id of the window it works on; `AppendNext` appends one
  window of the next id to a list numbered by id.
- `EventsArePartitioned` and `QuietSplits` (`AdaptiveWindowsProofs`), from
  `PartInv`: there are `e <= f` such that the events up to `f` have been
  folded, the closed windows form a chain that holds the events up to `e` (each
  holds the consecutive events after those of the one before, close enough to
  one another and within its times), and the open window, if there is one,
  holds those from `e + 1` to `f`. The least remaining step that is an event
  is the event `f + 1`; where budget steps fall plays no part beyond the order
  of times.
- `WindowsAreCapped` and `WindowTypes` (`AdaptiveWindowsProofs`). `BudgetCap` needs to know that the next step is
  never far: `BudgetInv` adds to `PartInv` that steps are folded in order, that
  while a window is open some remaining step comes within the time that earns
  one `BoundaryCredit` (an event, or the next budget step of the flight), and
  that the open window has not spent its budget. Credit is additive: a fold
  adds the gap times the threshold, and a quiet horizon for an event.
- `FoldRuns` (`FoldLemmas`): a left fold over a sequence is the run of its
  operator, element by element. The models write the kernels of the code as
  folds, and the library's induction theorems take an operator that the provers
  cannot instantiate; here induction is over a set of naturals, which has a
  least element because `<` is well founded on them, and the operator of the
  fold is a CONSTANT of the module, given by INSTANCE.
- `EventTypes`, `StoryStaysConnected`, `ChangesStayReported`,
  `DwellsStayExact`, `CandidatesStayReported` and `DriftStaysReported`
  (`EventDetectionProofs`): all invariants of the event machines, for any
  values, missing stretches, steps of time, limits and settings. None is
  inductive: they speak of the events and the samples alone, and what a sample
  emits depends on the state that the detector keeps. `EventInv` says what that
  state is of the samples: the state, the time of entry and `missing` are those
  of the last run of equal values and of the end of the story (`CategoricalIs`,
  `StoryIs`), every dwell was reported by a sample whose run has that length
  (`DwellsAre`), and a dwell that goes on is less than the limit past its entry
  or its last guard (`GuardsAre`); the slope run
  is the last run of samples of one sign (`SlopesAre`), `lastIndex` the last
  event of a kind (`SpacedIs`), and the pending change the sum of the changes
  since the last drift guard (`DriftIs`, `SumsAre`, by `FoldRuns` and
  `RunsAgree`). A sample emits several optional events of different kinds, so
  `Emits` says once which they are, and `EmittedOnce` and `OnlyAdds` what they
  add to the events of a kind; each part of `EventInv` then has one lemma for
  a sample. Events of a kind are written as sets of indices, because the provers
  know nothing of `SelectSeq`. `CandidatesStayReported` assumes
  `RefractoryFits`: no refractory distance exceeds 10^9 + 1. A detector that has
  emitted nothing holds the index -10^9 (`libs/events/continuous.py:91`), which
  would hold back the first candidate of a greater distance. The defaults are 20
  and 80 samples (`continuous.py:51`, `continuous.py:67`). The other five need
  no such condition.
- `CarryStaysOptimal`, `AssignmentStaysOptimal` and `DecodeTypes`
  (`PhaseDecodeProofs`): optimality of the segmented
  decode for any number of phases, any costs, any policy. A path costs the sum
  of its steps (`FoldRuns` over the windows), and one window more turns the
  cheapest path into each phase into the cheapest path one longer, ties
  included. `IInv` adds the key-wise account: the decoded windows of an
  unbroken flight are a prefix, its carry is absent before its first segment
  and after its last one, and `pending` is closed upward, so that the segment
  rows come right after the prefix. The run `phase_assignment` checks the three
  invariants of `AssignmentSpec`, in which every step is a step of `PhaseDecode`
  or leaves its variables alone; the theorems are about `Spec` of `PhaseDecode`
  itself, because the prover does not take the parameterised INSTANCE of
  `MinDwell` in `PhaseAssignment`.
- `PassesMergeRuns` and `DwellHoldsOnReturn` (`PhaseDecodeProofs`): the
  minimum-dwell loop over one flight, `Spec` of `MinDwell`, for any costs and
  limits. Runs are counted by the windows that begin one (`Starts`): the number
  of a window's run climbs by one where the phase changes (`RunsStep`), so runs
  are numbered without a gap and meet at one boundary (`RunsMeet`). A pass gives
  equal phases to the windows of a run, so it begins no run that was not there;
  where no two short runs touch, the run that is replaced takes the phase of a
  neighbour that stays, and the boundary between them is gone (`PassMerges`).
  Termination without neighbouring short runs follows informally, the count of
  runs being a natural number; as liveness it stays with TLC. The first and the
  last run are never short, so the ends of the decode stay (`PassKeepsDecode`).
  `dwell_swap` shows what neighbouring short runs do.
- `FindsEnd` and `Refinement` (`HierarchyFitProofs`): `LinksClimb` and
  `ImplementsPartition` for every graph, setting and order of edges. Along the
  links ranks grow, so the node of the highest rank that a walk meets is a root
  and the only one; compression moves nodes to their own root and changes no
  class; a link makes one class of two. Hence taking an edge joins its two
  blocks, or none.
- `HierarchyTypes`, `EvidenceStaysFaithful`, `BuildersStayInAgreement` and
  `DefaultsStayCollapsed` (`HierarchyFitProofs`): what a fit computes, for any
  graphs, weights, settings and profiles. `FitInv` says of a level in progress
  that its sets are connected by its strong edges, in that no set crosses a cut
  that no strong edge crosses, and that every strong edge already taken lies in
  one set (`LevelIs`). With no edge left there is one such grouping
  (`GroupsAreUnique`), and connected components are another of its kind
  (`ComponentsConnect`, by counting: what a step adds to cannot exceed the
  nodes), so a finished level is the components of its edges (`LevelEnds`),
  numbered apart (`NumbersTellGroups`). The rest is about the operators: the
  two builders order the rows of a parameter alike (`OrdersAgree`), hence keep
  the same neighbors and rows, and a pair with one row has one pair of ranks
  (`EvidenceAgrees`); and an average of weights above a bound is above it
  (`AverageIsBounded`, `RollupIs`). `DefaultsStayCollapsed` assumes
  `FusionCoversAffinity`: the fusion weights are at least 1, as their defaults
  are (`libs/graph/fused.py:11`). With a lesser weight a row can pass the
  affinity threshold and be rolled up with less than it. The other three need
  no such condition.
- `FlightTypes`, `QueuesStayInOrder`, `ArrivalsHadPassed`, `LabelsStayTrue`,
  `DelayStaysExact`, `RowsStayLabelled` and `RowsStayOnStream`
  (`SimulatedFlightProofs`): the transfers and the rows of a flight, for any
  modules, couplings, lags, gates and misbehavior windows. None of the seven is
  inductive: they speak of ports and rows, and a port is written from a queue
  that was filled ticks ago. `IInv` says of every queue that it is in the order
  of deadlines, that each item was sent, in a tick that let it pass, under the
  key of the queue, and that it is not overdue unless a window of the coupling
  changes keys; of every port that it holds something sent to it that is due,
  with a label of this tick; and that nothing is lost (`NothingLost`): into a
  port whose couplings share one key that no window changes, whatever was sent
  is on its way or something as new has arrived. The lemmas follow
  `Coupling.apply`: a drain takes the last due transfer and leaves the others in
  order (`DrainKeeps`), queueing and writing keep the account (`QueueKeeps`,
  `WriteKeeps`), then a coupling has had its turn (`TurnKeeps`), then the loop
  over the couplings of a module (`LoopKeeps`, by `FoldRuns`), and the next tick
  (`TickKeeps`). Queues are in order under every program because the key of a
  queue holds its lag: whatever changes the lag changes the queue.
  - The rows. A row is labelled from the ports as they are in the middle of the
    tick, so `IInv` also says of a label (`Labelling`) that its coupling leaves a
    module that has had its turn, and that a port with one coupling, without a lag
    and not under a window that changes keys, shows what that coupling has just
    sent. `RowInv` then follows the telemetry: each row is the sample of its tick
    (`SampleIn`), and a label that is not the violator's own is due to a coupling
    from an earlier module and a sample that arrived in that tick (`DueTo`).
    Later ticks leave all this as it is (`RowStays`), and a new row gets it from
    the labels of the moment (`NewRow`).
  - The streams. Called anew, a generator makes of a value what one that has not
    settled twice makes of its state (`SameUntilTrim`), so by `RowInv` the clean
    column is a run of the generator until that run trims (`RowsAreClean`, by
    induction along the run of `FoldRuns`). A first-order step with whole
    quotients stays between value and target, and so does what the first settled
    step keeps of the error (`ApproachedBetween`, `RegulatedBetween`); targets
    are numbers (`Driven`). A violator that is
    run over the samples of a window has a memory of as many samples as it has got
    (`Remembers`), and one that needs none shows the same with it as without
    (`NoMemory`, family by family).
- `CampaignTypes`, `BoundariesAreAccepted`, `ResumesComplete`,
  `ReplaysRecompute` and `ReferenceStays` (`ReplayCampaignProofs`): the
  invariants of the campaign, for any modes, end stages, changed settings and
  tiers, any number of runs and of stages that raise, wherever they do. None is
  inductive, because they speak of runs that have ended and of what was written
  long before.
  - `TypeInv`: what is left of a selection and what is done of it make up the
    selection, and a manifest is the one of its stage in some directory.
  - `BoundaryInv`: the manifests that runs have left in the source name it, and
    the copy has them too; so what the planner finds ready exists for the stage
    runner as well, and a run that was judged once is judged the same to its
    end. Stage 40, whose manifest lists a replay input that is not among its
    inputs, may be recommended and is never accepted, which is what the property
    says of it.
  - `Whole` is the sequence of tables after each stage of one run of the full
    plan with given settings. The plans of the modes that fit are its first
    stages (`PlansArePrefixes`), no table is made twice (`MadeIs`) and what a
    stage reads is made before it (`NeedsAreMade`), so a stage that meets the
    tables of its predecessors computes those of `Whole` (`SameComputes`).
    `OperatorInv` says that whatever lies in the directory is as in `Whole`, of
    an interrupted stage too, and that a manifest comes with all tables up to
    its stage. Hence a run that is resumed where the stage runner accepts it
    meets the tables it needs, or refuses.
  - `VariantInv` adds the benchmark: the copy is the source until the variant
    runs, and a stage before the first reader of a changed setting computes the
    same with it as without (`UnreadBefore`), so the tables up to the boundary
    are those of `Whole` with the changed settings. That no such stage reads a
    setting is worked out by the provers from the stages themselves.
  - `PairInv` follows the flights: the source is of the nominal flight, observed
    tables of the other directory are of the faulted one alone, and each stage
    of the inference reads only what was staged from the reference, what was
    observed, or what the inference itself has made (`InferenceGoesOn`).

  The last three theorems assume `WriteMode = "overwrite"`, the default of
  `--write-mode` (`libs/simulation/run_cli.py:29`), which `merge` becomes as
  well. With `append` they are false, and TLC finds each of the three violated
  on the instance of the run `replays`: a stage that is run again doubles its
  rows, and a table that is appended to keeps the rows it had. The first two
  theorems hold in either mode.

Assumptions are the named ASSUMEs of the modules: settings are integers,
streams and flights are non-empty and ordered in time, module ids are unique,
a selected sensor is selected once, graph weights are not negative, a coupling
leaves a module of the aircraft (`AircraftSpec.validate`,
`libs/simulation/aircraft/spec.py:28`), an input port belongs to one module, the
family of a parameter is one of those that are simulated, each misbehavior window
has an id (`_normalized_window_id`) and the generator a number for every sample,
and an aircraft has a module: without one a tick has no step. A coupling may have
a negative lag, as its specification may; it then acts as one without a lag, and
`RowsAreLabelled` says so. Every one is evaluated by a passing run whose module
extends it. The theorems are about `Spec`; the runs with fairness check
`FairSpec`, which implies it.

Only model-checked:

- liveness under fairness, which is beyond the proof system;
- `IsolatedRunsSettle`, whose liveness part is one of these; what its action
  part says of the passes over a batch, `PassesMergeRuns` proves of the passes
  over one flight.

## 6. Not modelled

- Numerical code: window features, profiles, backbone, component graphs,
  centroids, scores, attribution, objectives, evaluation. It is a large part
  of the repository, and each step of it is one declarative query or one
  fixed formula over floating-point data, in which order and interleaving
  play no part. Doubles and their rounding are out of reach everywhere.
- Scenarios, catalogues and the specification of aircraft (the longest files):
  data. Rendering, plotting, reporting, schemas, command lines: output.
- Spark itself, whose joins, `row_number` and `collect_list` with `sort_array`
  are taken to do what they say; the payloads and labels of events; how
  candidates of slope, extrema and oscillation are computed.
- Of runs: a crash within the write of a table, more than one exception in a
  behaviour, operator replays with changed settings, environment variables
  other than the phase mode (each run assigns them anew, and only the runs of
  a pair share a process), the group manifest of the entry points 96 to 99,
  which nothing reads, the nesting of tracked runs, and end stages set by
  objectives.
- Of flights: `rate_hz`, latent updates, noise, several parameters of a module.

With these left out the map covers about a tenth of the lines of the
repository.

## 7. Plan

Done, the most important first: segmentation, its refinement and proofs;
windows and the proof of their partition; phase decode, dwell and their
composition; the event machines behind one stage; the coupled flight with
behaviors and labels; fusion and hierarchy with refinement and proof; stages,
runs, replays and reference inference.

Left, in this order:

1. The selection of a window policy (`libs/windows/policy_profile.py`): its
   grid, penalties and tie breaks over given measurements.
2. The row flow of scoring and attribution (`libs/scoring`, `libs/anomaly`):
   which windows reach a score and an attribution, the weights abstracted.
3. The tuning search as another kind of campaign.
4. An abstract window builder (a partition of the events into consecutive
   ranges), implemented by `AdaptiveWindows` along the lines of `PartInv`.
