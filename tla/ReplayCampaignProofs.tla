------------------------ MODULE ReplayCampaignProofs ------------------------
(***************************************************************************)
(* Theorems of ReplayCampaign, for any modes, ends, settings and tiers, any *)
(* number of runs and any stages that raise: TypeOK,                        *)
(* RecommendedBoundaryIsAccepted and, when tables are overwritten,          *)
(* ResumeCompletesTheRun, ReplayRecomputesChanges and ReferenceIsFixed.     *)
(*                                                                          *)
(* Each has an invariant of its own. The types (TypeInv) carry the first;   *)
(* BoundaryInv says what a directory has noted of the stages of its source; *)
(* the next two compare a directory with what one whole run with the same   *)
(* settings makes, stage by stage (Whole); PairInv follows the flights that *)
(* a table is made of.                                                      *)
(***************************************************************************)
EXTENDS ReplayCampaign, TLAPS

Numbers == INSTANCE FoldLemmas WITH Op <- LAMBDA ctx, acc, x : acc
Folding == INSTANCE FoldLemmas WITH
    Op <- LAMBDA changed, made, script : FitInto(changed, made, script)

Flights == {"nominal", "faulted"}

-----------------------------------------------------------------------------
(* The stages.                                                              *)

\* The scripts, among them those of every plan.
LEMMA ScriptsAre ==
    /\ Scripts = {"00", "10", "12", "15", "20", "25", "30", "35", "40", "50", "60", "70",
                  "72", "80", "85", "90", "95"}
    /\ \A mode \in DOMAIN Plan : Plan[mode] \in Seq(Scripts) /\ Len(Plan[mode]) > 0
<1>1. Scripts = {"00", "10", "12", "15", "20", "25", "30", "35", "40", "50", "60", "70",
                 "72", "80", "85", "90", "95"}
  BY DEF Scripts, ToSet, FullPlan
<1>2. FullPlan \in Seq(Scripts) /\ Len(FullPlan) > 0
  BY <1>1 DEF FullPlan
<1>3. StructuralPlan \in Seq(Scripts) /\ Len(StructuralPlan) > 0
  BY <1>1 DEF StructuralPlan
<1>4. /\ ProfilePlan \in Seq(Scripts) /\ Len(ProfilePlan) > 0
      /\ EventPlan \in Seq(Scripts) /\ Len(EventPlan) > 0
      /\ InferencePlan \in Seq(Scripts) /\ Len(InferencePlan) > 0
  BY <1>1 DEF ProfilePlan, EventPlan, InferencePlan
<1>5. QED
  BY <1>1, <1>2, <1>3, <1>4 DEF Plan

\* A stage reads something, and lists what it writes.
IsStage(stage) == stage.reads # {} /\ stage.writes \in Seq(ToSet(stage.writes))

\* Every stage is one, in either phase mode.
LEMMA StageIs ==
    ASSUME NEW script \in Scripts, NEW mode \in PhaseModes
    PROVE  IsStage(StageScript(script, mode))
<1>1. IsStage(IngestRaw) /\ IsStage(ParameterProfiles) /\ IsStage(BehaviorProfiles)
  BY DEF IsStage, ToSet, IngestRaw, ParameterProfiles, BehaviorProfiles, Fit, Stage
<1>2. IsStage(EventProfiles) /\ IsStage(EventsExtract) /\ IsStage(WindowPolicy)
  BY DEF IsStage, ToSet, EventProfiles, EventsExtract, WindowPolicy, Fit, Stage
<1>3. IsStage(WindowsAdaptive) /\ IsStage(WindowFeatures) /\ IsStage(BackboneFit)
  BY DEF IsStage, ToSet, WindowsAdaptive, WindowFeatures, BackboneFit, Fit, Stage
<1>4. IsStage(BuildGraph) /\ IsStage(FitHierarchy)
  BY DEF IsStage, ToSet, BuildGraph, FitHierarchy, Fit, Stage
<1>5. IsStage(PhaseFit) /\ IsStage(PhaseApply) /\ IsStage(PhaseLabelCentroids)
  BY DEF IsStage, ToSet, PhaseFit, PhaseApply, PhaseLabelCentroids, Stage
<1>6. IsStage(WindowScoresRaw) /\ IsStage(WindowScoresCalibrate)
  BY DEF IsStage, ToSet, WindowScoresRaw, WindowScoresCalibrate, Stage
<1>7. IsStage(AnomalyAttribution) /\ IsStage(EmitExplorerBundle)
  BY DEF IsStage, ToSet, AnomalyAttribution, EmitExplorerBundle, Stage
<1>8. QED
  BY <1>1, <1>2, <1>3, <1>4, <1>5, <1>6, <1>7, ScriptsAre DEF StageScript

\* What a stage writes are artifacts, in either phase mode.
LEMMA WritesAreArtifacts ==
    ASSUME NEW script \in Scripts, NEW mode \in PhaseModes
    PROVE  StageScript(script, mode).writes \in Seq(Artifacts)
<1>1. StageScript(script, mode).writes \in Seq(ToSet(StageScript(script, mode).writes))
  BY StageIs DEF IsStage
<1>2. ToSet(StageScript(script, "fit").writes) \subseteq Artifacts
  BY DEF Artifacts
<1>3. ToSet(StageScript(script, mode).writes) \subseteq ToSet(StageScript(script, "fit").writes)
  <2>1. CASE script # "70" \/ mode = "fit"
    <3>1. StageScript(script, mode) = StageScript(script, "fit")
      BY <2>1, ScriptsAre DEF StageScript
    <3>2. QED
      BY <3>1
  <2>2. CASE script = "70" /\ mode # "fit"
    <3>1. StageScript(script, mode) = PhaseApply /\ StageScript(script, "fit") = PhaseFit
      BY <2>2 DEF StageScript
    <3>2. ToSet(PhaseApply.writes) \subseteq ToSet(PhaseFit.writes)
      BY DEF PhaseApply, PhaseFit, Stage, ToSet
    <3>3. QED
      BY <3>1, <3>2
  <2>3. QED
    BY <2>1, <2>2
<1>4. QED
  BY <1>1, <1>2, <1>3

\* The seeds of a run are artifacts.
LEMMA SeedsAre ==
    ASSUME NEW flight \in Flights
    PROVE  SeedTables(flight) \in Seq(Artifacts)
<1>1. ToSet(SeedTables("faulted")) = {"raw_input", "phase_labels",
          "hierarchy_sensor_map_label", "coupling_misbehavior_windows"}
  BY DEF SeedTables, ToSet
<1>2. {"raw_input", "phase_labels", "hierarchy_sensor_map_label",
       "coupling_misbehavior_windows"} \subseteq Artifacts
  BY <1>1 DEF Artifacts
<1>3. QED
  BY <1>2 DEF SeedTables, Flights

-----------------------------------------------------------------------------
(* The tables of a directory.                                               *)

\* Tables that are known, made of the flights X alone.
TablesAre(ts, X) ==
    /\ ts = [artifact \in DOMAIN ts |-> ts[artifact]]
    /\ DOMAIN ts \subseteq Artifacts
    /\ \A artifact \in DOMAIN ts :
          /\ ts[artifact].flights \subseteq {"live", "fit"} \X X
          /\ ts[artifact].copies \in {1, 2}

\* What a table passes on comes of the flights it is made of.
LEMMA ThroughIs ==
    ASSUME NEW artifact, NEW table, NEW X, table.flights \subseteq {"live", "fit"} \X X
    PROVE  FlightsThrough(artifact, table) \subseteq {"live", "fit"} \X X
  BY DEF FlightsThrough

\* The greatest of some copies.
LEMMA MaxOfCopies ==
    ASSUME NEW S, S \subseteq {1, 2}, S # {}
    PROVE  Max(S) \in S
<1>1. 1 >= 1 /\ 2 >= 1 /\ 2 >= 2
  OBVIOUS
<1>2. S = {1} \/ S = {2} \/ S = {1, 2}
  OBVIOUS
<1>3. \E x \in S : \A y \in S : x >= y
  BY <1>1, <1>2
<1>4. QED
  BY <1>3 DEF Max

\* So does what a stage computes from such tables.
LEMMA ComputedIs ==
    ASSUME NEW X, NEW ts, TablesAre(ts, X), NEW script, NEW stage, stage.reads # {},
           CanRun(stage, ts), NEW changed
    PROVE  /\ Computed(script, stage, ts, changed).flights \subseteq {"live", "fit"} \X X
           /\ Computed(script, stage, ts, changed).copies \in {1, 2}
<1> DEFINE inputs == InputsOf(stage, ts)
           copies == {ts[artifact].copies : artifact \in inputs}
<1>1. inputs \subseteq DOMAIN ts /\ inputs # {}
  BY DEF InputsOf, CanRun
<1>2. copies \subseteq {1, 2} /\ copies # {}
  BY <1>1 DEF TablesAre
<1>3. Max(copies) \in {1, 2}
  BY <1>2, MaxOfCopies
<1>4. \A artifact \in inputs : FlightsThrough(artifact, ts[artifact]) \subseteq {"live", "fit"} \X X
  BY <1>1, ThroughIs DEF TablesAre
<1>5. QED
  BY <1>3, <1>4 DEF Computed, Table

\* The first count of the artifacts that a stage writes.
Written(stage, count) == {stage.writes[i] : i \in 1..count}

\* The first tables that a stage writes are artifacts it lists; all of them are its
\* whole list.
LEMMA WrittenIs ==
    ASSUME NEW script \in Scripts, NEW mode \in PhaseModes, NEW stage,
           stage = StageScript(script, mode), NEW count \in 0 .. Len(stage.writes)
    PROVE  /\ Written(stage, count) \subseteq ToSet(stage.writes)
           /\ ToSet(stage.writes) \subseteq Artifacts
           /\ ToSet(SubSeq(stage.writes, 1, count)) = Written(stage, count)
           /\ Written(stage, Len(stage.writes)) = ToSet(stage.writes)
           /\ Len(stage.writes) \in Nat
<1> DEFINE w == stage.writes
<1>1. w \in Seq(Artifacts)
  BY WritesAreArtifacts
<1> HIDE DEF w
<1>2. SubSeq(w, 1, count) = [i \in 1..count |-> w[i]]
  BY <1>1 DEF w
<1>3. ToSet(SubSeq(w, 1, count)) = {w[i] : i \in 1..count}
  BY <1>2 DEF ToSet
<1>4. DOMAIN w = 1..Len(w) /\ Len(w) \in Nat /\ ToSet(w) \subseteq Artifacts
  BY <1>1 DEF ToSet
<1>5. {w[i] : i \in 1..count} \subseteq ToSet(w)
  BY <1>4 DEF ToSet, w
<1>6. QED
  BY <1>3, <1>4, <1>5 DEF Written, ToSet, w

\* The tables after the first count of a stage's writes, made of the others.
Ran(ts, after, stage, made, count, writeMode) ==
    /\ after = [artifact \in DOMAIN after |-> after[artifact]]
    /\ DOMAIN after = DOMAIN ts \cup Written(stage, count)
    /\ \A artifact \in Written(stage, count) :
           after[artifact] = WriteTable(artifact, ts, made, WriteModeOf(stage, writeMode))
    /\ \A artifact \in DOMAIN ts \ Written(stage, count) : after[artifact] = ts[artifact]

\* A stage writes the first count of its tables and changes no other.
LEMMA StageRunIs ==
    ASSUME NEW ts, NEW script \in Scripts, NEW mode \in PhaseModes, NEW changed,
           NEW count \in 0 .. Len(StageScript(script, mode).writes), NEW writeMode
    PROVE  Ran(ts, StageRun(script, mode, ts, changed, count, writeMode),
               StageScript(script, mode),
               Computed(script, StageScript(script, mode), ts, changed), count, writeMode)
<1> DEFINE stage == StageScript(script, mode)
           table(artifact) == WriteTable(artifact, ts, Computed(script, stage, ts, changed),
                                         WriteModeOf(stage, writeMode))
           after == StageRun(script, mode, ts, changed, count, writeMode)
<1>1. after = Replacing(ts, [artifact \in Written(stage, count) |-> table(artifact)])
  BY WrittenIs DEF StageRun, AfterWrites
<1> HIDE DEF table, after, stage
<1>2. /\ after = [artifact \in DOMAIN after |-> after[artifact]]
      /\ DOMAIN after = DOMAIN ts \cup Written(stage, count)
      /\ \A artifact \in Written(stage, count) : after[artifact] = table(artifact)
      /\ \A artifact \in DOMAIN ts \ Written(stage, count) : after[artifact] = ts[artifact]
  BY <1>1 DEF Replacing
<1>3. QED
  BY <1>2 DEF table, after, stage, Ran

\* A stage that can run keeps tables that are known and made of the flights X.
LEMMA RanKeeps ==
    ASSUME NEW X, NEW ts, TablesAre(ts, X), NEW script \in Scripts, NEW mode \in PhaseModes,
           NEW stage, stage = StageScript(script, mode), CanRun(stage, ts), NEW changed,
           NEW count \in 0 .. Len(stage.writes), NEW writeMode, NEW after,
           Ran(ts, after, stage, Computed(script, stage, ts, changed), count, writeMode)
    PROVE  TablesAre(after, X)
<1>1. PICK made : made = Computed(script, stage, ts, changed)
  OBVIOUS
<1>2. made.flights \subseteq {"live", "fit"} \X X /\ made.copies \in {1, 2}
  BY <1>1, StageIs, ComputedIs DEF IsStage
<1>3. Written(stage, count) \subseteq Artifacts
  BY WrittenIs
<1>4. Ran(ts, after, stage, made, count, writeMode)
  BY <1>1
<1>5. \A artifact \in Written(stage, count) :
         /\ after[artifact].flights \subseteq {"live", "fit"} \X X
         /\ after[artifact].copies \in {1, 2}
  BY <1>2, <1>4 DEF Ran, WriteTable, Table, TablesAre
<1>6. QED
  BY <1>3, <1>4, <1>5 DEF Ran, TablesAre

\* The first count of the tables that a run is seeded with.
SeedNames(flight, count) == {SeedTables(flight)[i] : i \in 1..count}

\* The tables after the first count of the seeds.
SeededBy(ts, after, flight, count) ==
    /\ after = [artifact \in DOMAIN after |-> after[artifact]]
    /\ DOMAIN after = DOMAIN ts \cup SeedNames(flight, count)
    /\ SeedNames(flight, count) \subseteq Artifacts
    /\ \A artifact \in SeedNames(flight, count) : after[artifact] = SeedTable(flight)
    /\ \A artifact \in DOMAIN ts \ SeedNames(flight, count) : after[artifact] = ts[artifact]

\* Seeding writes the first count of the seeds and changes no other table.
LEMMA SeededIs ==
    ASSUME NEW ts, NEW flight \in Flights, NEW count \in 0 .. Len(SeedTables(flight))
    PROVE  SeededBy(ts, Seeded(ts, flight, count), flight, count)
<1> DEFINE s == SeedTables(flight)
           seeds == {s[i] : i \in 1..count}
           after == Seeded(ts, flight, count)
<1>1. s \in Seq(Artifacts) /\ seeds = SeedNames(flight, count)
  BY SeedsAre DEF SeedNames
<1>2. ToSet(SubSeq(s, 1, count)) = seeds
  <2> HIDE DEF s
  <2>1. SubSeq(s, 1, count) = [i \in 1..count |-> s[i]]
    BY <1>1 DEF s
  <2>2. QED
    BY <2>1 DEF ToSet
<1>3. seeds \subseteq Artifacts
  <2> HIDE DEF s
  <2>1. QED
    BY <1>1 DEF s
<1>4. after = Replacing(ts, [artifact \in seeds |-> SeedTable(flight)])
  BY <1>2 DEF Seeded
<1> HIDE DEF seeds, after
<1>5. /\ after = [artifact \in DOMAIN after |-> after[artifact]]
      /\ DOMAIN after = DOMAIN ts \cup seeds
      /\ \A artifact \in seeds : after[artifact] = SeedTable(flight)
      /\ \A artifact \in DOMAIN ts \ seeds : after[artifact] = ts[artifact]
  BY <1>4 DEF Replacing
<1>6. SeededBy(ts, after, flight, count)
  BY <1>1, <1>3, <1>5 DEF SeededBy
<1>7. QED
  BY <1>6 DEF after

\* Seeds of a flight in X keep tables that are made of X alone.
LEMMA SeededKeeps ==
    ASSUME NEW X, NEW ts, TablesAre(ts, X), NEW flight \in Flights, flight \in X,
           NEW count \in 0 .. Len(SeedTables(flight))
    PROVE  TablesAre(Seeded(ts, flight, count), X)
<1>1. PICK after : after = Seeded(ts, flight, count)
  OBVIOUS
<1>2. SeededBy(ts, after, flight, count)
  BY <1>1, SeededIs
<1>3. SeedTable(flight).flights = {<<"live", flight>>} /\ SeedTable(flight).copies = 1
  BY DEF SeedTable, Table
<1>4. TablesAre(after, X)
  BY <1>2, <1>3 DEF SeededBy, TablesAre
<1>5. QED
  BY <1>1, <1>4

-----------------------------------------------------------------------------
(* The plans.                                                               *)

\* A stage of a plan has a position in it.
LEMMA PositionIs ==
    ASSUME NEW S, NEW plan \in Seq(S), NEW script \in ToSet(plan)
    PROVE  Position(script, plan) \in 1..Len(plan) /\ plan[Position(script, plan)] = script
<1>1. \E i \in DOMAIN plan : plan[i] = script
  BY DEF ToSet
<1>2. QED
  BY <1>1 DEF Position

\* The stages of a plan from first to last.
Selects(stages, plan, first, last) ==
    /\ first \in 1..Len(plan) /\ last \in first..Len(plan)
    /\ stages \in Seq(Scripts) /\ Len(stages) = last - first + 1
    /\ \A i \in 1..Len(stages) : stages[i] = plan[first + i - 1]
    /\ stages # <<>> /\ Head(stages) = plan[first]

\* A selection that exists is a part of the plan that begins at its start.
LEMMA SelectionIs ==
    ASSUME NEW mode \in DOMAIN Plan, NEW start, NEW end, IsSelectable(Plan[mode], start, end)
    PROVE  Selects(SelectedStageScripts(Plan[mode], start, end), Plan[mode],
                   StartIndex(Plan[mode], start), EndIndex(Plan[mode], end))
<1>1. PICK plan \in Seq(Scripts) : plan = Plan[mode] /\ Len(plan) > 0
  BY ScriptsAre
<1>2. PICK first : first = StartIndex(plan, start)
  OBVIOUS
<1>3. PICK last : last = EndIndex(plan, end)
  OBVIOUS
<1>4. first \in 1..Len(plan)
  BY <1>1, <1>2, PositionIs DEF StartIndex, IsSelectable
<1>5. last \in 1..Len(plan)
  BY <1>1, <1>3, PositionIs DEF EndIndex, IsSelectable
<1>6. first <= last
  BY <1>1, <1>2, <1>3 DEF IsSelectable
<1>7. PICK stages : stages = SubSeq(plan, first, last)
  OBVIOUS
<1>8. /\ stages \in Seq(Scripts) /\ Len(stages) = last - first + 1
      /\ \A i \in 1..Len(stages) : stages[i] = plan[first + i - 1]
  BY <1>4, <1>5, <1>6, <1>7
<1>9. stages # <<>> /\ Head(stages) = plan[first]
  BY <1>4, <1>5, <1>6, <1>8
<1>10. stages = SelectedStageScripts(Plan[mode], start, end)
  BY <1>1, <1>2, <1>3, <1>7 DEF SelectedStageScripts
<1>11. Selects(stages, plan, first, last)
  BY <1>4, <1>5, <1>6, <1>8, <1>9 DEF Selects
<1>12. QED
  BY <1>1, <1>2, <1>3, <1>10, <1>11

-----------------------------------------------------------------------------
(* The types of a run and of its directories.                               *)

ConfigTyped(config) ==
    config.mode \in DOMAIN Plan /\ config.dir \in Dirs /\ config.flight \in Flights

RunTyped ==
    /\ run = [config |-> run.config, step |-> run.step, status |-> run.status,
              stages |-> run.stages, done |-> run.done, savedPhaseMode |-> run.savedPhaseMode]
    /\ ConfigTyped(run.config)
    /\ run.step \in {"idle", "stages", "reports"}
    /\ run.status \in {"none", "running", "success", "failed", "refused"}
    /\ run.savedPhaseMode \in PhaseModes /\ phaseMode \in PhaseModes
    /\ run.stages \in Seq(Scripts) /\ run.done \in Seq(Scripts)
    /\ run.step = "stages" =>
          run.done \o run.stages =
             SelectedStageScripts(Plan[run.config.mode], run.config.start, run.config.end)

TablesTyped ==
    /\ tables = [dir \in Dirs |-> tables[dir]]
    /\ \A dir \in Dirs : TablesAre(tables[dir], Flights)

\* Every manifest is one that its stage writes in a directory.
ManifestsAre(ms) ==
    /\ ms = [script \in DOMAIN ms |-> ms[script]]
    /\ DOMAIN ms \subseteq Scripts
    /\ \A script \in DOMAIN ms :
          \E dir \in Dirs, mode \in PhaseModes :
              ms[script] = Manifest(dir, StageScript(script, mode))

NotesTyped ==
    /\ manifests = [dir \in Dirs |-> manifests[dir]]
    /\ summaries = [dir \in Dirs |-> summaries[dir]]
    /\ runMode = [dir \in Dirs |-> runMode[dir]]
    /\ \A dir \in Dirs :
          /\ ManifestsAre(manifests[dir])
          /\ DOMAIN summaries[dir] \subseteq DOMAIN Plan
          /\ \A mode \in DOMAIN summaries[dir] : summaries[dir][mode] \in Seq(Scripts)
          /\ runMode[dir] \in DOMAIN Plan \cup {Unset}

RunInv == RunTyped /\ TablesTyped /\ NotesTyped

\* The invariant of a run has the types of SimulationRun.
LEMMA RunInvTypes ==
    ASSUME RunInv
    PROVE  TypeOK
<1>1. ASSUME NEW dir \in Dirs
      PROVE  /\ DOMAIN tables[dir] \subseteq Artifacts
             /\ \A artifact \in DOMAIN tables[dir] :
                   /\ tables[dir][artifact].flights
                         \subseteq {"live", "fit"} \X {"nominal", "faulted"}
                   /\ tables[dir][artifact].copies \in {1, 2}
  BY DEF RunInv, TablesTyped, TablesAre, Flights
<1>2. ASSUME NEW dir \in Dirs
      PROVE  /\ DOMAIN manifests[dir] \subseteq Scripts
             /\ \A script \in DOMAIN manifests[dir] : manifests[dir][script].dir \in Dirs
             /\ DOMAIN summaries[dir] \subseteq DOMAIN Plan
             /\ runMode[dir] \in DOMAIN Plan \cup {Unset}
  BY DEF RunInv, NotesTyped, ManifestsAre, Manifest
<1>3. QED
  BY <1>1, <1>2 DEF TypeOK, RunInv, RunTyped

\* It holds at first.
LEMMA InitRunInv == RunInit => RunInv
<1> SUFFICES ASSUME RunInit PROVE RunInv
  OBVIOUS
<1>1. PICK dir \in Dirs : dir = CHOOSE d \in Dirs : TRUE
  BY ReplayCampaignAssumption
<1>2. "full" \in DOMAIN Plan
  BY DEF Plan
<1>3. RunTyped
  BY <1>1, <1>2 DEF RunInit, NoRun, RunTyped, ConfigTyped, Config, Flights, PhaseModes
<1>4. TablesTyped
  BY DEF RunInit, NoTables, TablesTyped, TablesAre
<1>5. NotesTyped
  BY DEF RunInit, NoManifests, NoSummaries, NotesTyped, ManifestsAre
<1>6. QED
  BY <1>3, <1>4, <1>5 DEF RunInv

\* The tables of a directory after its seeds.
LEMMA SeedingTyped ==
    ASSUME TablesTyped, NEW config, ConfigTyped(config),
           NEW count \in 0 .. Len(SeedTables(config.flight)),
           tables' = [tables EXCEPT ![config.dir] = Seeded(@, config.flight, count)]
    PROVE  TablesTyped'
<1>1. TablesAre(Seeded(tables[config.dir], config.flight, count), Flights)
  BY SeededKeeps DEF TablesTyped, ConfigTyped
<1>2. QED
  BY <1>1 DEF TablesTyped, ConfigTyped

\* A run that has started is one, whatever has come of its start.
LEMMA StartedTyped ==
    ASSUME RunTyped, NEW config, ConfigTyped(config), phaseMode' \in PhaseModes,
           NEW step \in {"stages", "reports"}, NEW status \in {"running", "failed", "refused"},
           NEW stages \in Seq(Scripts), run' = Started(config, step, status, stages),
           step = "stages" =>
               stages = SelectedStageScripts(Plan[config.mode], config.start, config.end)
    PROVE  RunTyped' /\ run'.config = config
<1>1. run' = [config |-> config, step |-> step, status |-> status, stages |-> stages,
              done |-> <<>>, savedPhaseMode |-> phaseMode]
  BY DEF Started
<1>2. /\ run'.config = config /\ run'.step = step /\ run'.status = status
      /\ run'.stages = stages /\ run'.done = <<>> /\ run'.savedPhaseMode = phaseMode
  BY <1>1
<1>3. run' = [config |-> run'.config, step |-> run'.step, status |-> run'.status,
              stages |-> run'.stages, done |-> run'.done,
              savedPhaseMode |-> run'.savedPhaseMode]
  BY <1>1, <1>2
<1>4. <<>> \o stages = stages /\ <<>> \in Seq(Scripts)
  OBVIOUS
<1>5. QED
  BY <1>2, <1>3, <1>4 DEF RunTyped

\* Beginning a run keeps the invariant and takes over the settings.
LEMMA BeginTyped ==
    ASSUME RunInv, NEW config, ConfigTyped(config), Begin(config)
    PROVE  RunInv' /\ run'.config = config
<1> DEFINE stages == SelectedStageScripts(Plan[config.mode], config.start, config.end)
           seeds == IF ShouldWriteSeeds(config, stages)
                    THEN Len(SeedTables(config.flight)) ELSE 0
<1>1. Len(SeedTables(config.flight)) \in Nat
  BY SeedsAre DEF ConfigTyped
<1>2. NotesTyped'
  BY DEF Begin, RunInv, NotesTyped
<1>3. CASE ~ModeIsLegal(config)
  <2>1. TablesTyped'
    BY <1>3 DEF Begin, RunInv, TablesTyped
  <2>2. RunTyped' /\ run'.config = config
    <3>1. run' = Started(config, "reports", "failed", <<>>) /\ phaseMode' = phaseMode
      BY <1>3 DEF Begin
    <3>2. phaseMode' \in PhaseModes /\ <<>> \in Seq(Scripts)
      BY <3>1 DEF RunInv, RunTyped
    <3>3. QED
      BY <3>1, <3>2, StartedTyped DEF RunInv
  <2>3. QED
    BY <1>2, <2>1, <2>2 DEF RunInv
<1>4. CASE ModeIsLegal(config)
  <2>1. stages \in Seq(Scripts)
    BY <1>4, SelectionIs DEF ModeIsLegal, ConfigTyped, Selects
  <2>2. phaseMode' \in PhaseModes
    BY <1>4 DEF Begin, PhaseModeFor, PhaseModes, RunInv, RunTyped
  <2>3. \E count \in 0 .. Len(SeedTables(config.flight)) :
           tables' = [tables EXCEPT ![config.dir] = Seeded(@, config.flight, count)]
    <3>1. seeds \in 0 .. Len(SeedTables(config.flight))
      BY <1>1
    <3>2. \/ tables' = [tables EXCEPT ![config.dir] = Seeded(@, config.flight, seeds)]
          \/ \E count \in 0 .. seeds - 1 :
                tables' = [tables EXCEPT ![config.dir] = Seeded(@, config.flight, count)]
      BY <1>4 DEF Begin
    <3> HIDE DEF seeds
    <3>3. QED
      BY <1>1, <3>1, <3>2
  <2>4. TablesTyped'
    BY <2>3, SeedingTyped DEF RunInv
  <2>5. \/ run' = Started(config, "stages", "running", stages)
        \/ run' = Started(config, "reports", "refused", <<>>)
        \/ run' = Started(config, "reports", "failed", <<>>)
    BY <1>4 DEF Begin
  <2> HIDE DEF stages
  <2>6. RunTyped' /\ run'.config = config
    <3>1. RunTyped /\ <<>> \in Seq(Scripts)
      BY DEF RunInv
    <3>2. CASE run' = Started(config, "stages", "running", stages)
      BY <2>1, <2>2, <3>1, <3>2, StartedTyped DEF stages
    <3>3. CASE run' = Started(config, "reports", "refused", <<>>)
      BY <2>2, <3>1, <3>3, StartedTyped
    <3>4. CASE run' = Started(config, "reports", "failed", <<>>)
      BY <2>2, <3>1, <3>4, StartedTyped
    <3>5. QED
      BY <2>5, <3>2, <3>3, <3>4
  <2>7. QED
    BY <1>2, <2>4, <2>6 DEF RunInv
<1>5. QED
  BY <1>3, <1>4

\* The next stage goes from the stages left to the stages done.
LEMMA MoveOne ==
    ASSUME NEW S, NEW done \in Seq(S), NEW stages \in Seq(S), stages # <<>>
    PROVE  /\ Head(stages) \in S /\ Tail(stages) \in Seq(S)
           /\ Append(done, Head(stages)) \in Seq(S)
           /\ Append(done, Head(stages)) \o Tail(stages) = done \o stages
<1>1. /\ Head(stages) \in S /\ Tail(stages) \in Seq(S)
      /\ Append(done, Head(stages)) \in Seq(S)
  OBVIOUS
<1> DEFINE one == Append(done, Head(stages)) \o Tail(stages)
           two == done \o stages
<1>2. one \in Seq(S) /\ two \in Seq(S) /\ Len(one) = Len(two)
  BY <1>1
<1>3. ASSUME NEW i \in 1..Len(two)
      PROVE  one[i] = two[i]
  <2>1. CASE i <= Len(done)
    BY <2>1
  <2>2. CASE i = Len(done) + 1
    BY <2>2
  <2>3. CASE i > Len(done) + 1
    BY <2>3
  <2>4. QED
    BY <2>1, <2>2, <2>3
<1> HIDE DEF one, two
<1>4. one = two
  BY <1>2, <1>3
<1>5. QED
  BY <1>1, <1>4 DEF one, two

\* A run that has stages left has a next one.
LEMMA NextStageIs ==
    ASSUME RunInv, run.stages # <<>>
    PROVE  /\ NextScript \in Scripts
           /\ NextStage = StageScript(NextScript, phaseMode)
           /\ phaseMode \in PhaseModes
           /\ Len(NextStage.writes) \in Nat
<1>1. NextScript \in Scripts /\ phaseMode \in PhaseModes
  BY MoveOne DEF RunInv, RunTyped, NextScript
<1>2. StageScript(NextScript, phaseMode).writes \in Seq(Artifacts)
  BY <1>1, WritesAreArtifacts
<1>3. QED
  BY <1>1, <1>2 DEF NextStage

\* What the next stage makes of the tables of its directory.
LEMMA TablesAfterIs ==
    ASSUME RunInv, run.stages # <<>>, NEW count \in 0 .. Len(NextStage.writes),
           tables' = TablesAfter(count)
    PROVE  /\ \A dir \in Dirs \ {run.config.dir} : tables'[dir] = tables[dir]
           /\ tables' = [dir \in Dirs |-> tables'[dir]]
           /\ Ran(dirTables, tables'[run.config.dir], NextStage,
                  Computed(NextScript, NextStage, dirTables, run.config.changed),
                  count, WriteMode)
<1>1. run.config.dir \in Dirs /\ tables = [dir \in Dirs |-> tables[dir]]
  BY DEF RunInv, RunTyped, ConfigTyped, TablesTyped
<1>2. /\ \A dir \in Dirs \ {run.config.dir} : tables'[dir] = tables[dir]
      /\ tables' = [dir \in Dirs |-> tables'[dir]]
      /\ tables'[run.config.dir] =
            StageRun(NextScript, phaseMode, dirTables, run.config.changed, count, WriteMode)
  BY <1>1 DEF TablesAfter, dirTables
<1>3. Ran(dirTables,
          StageRun(NextScript, phaseMode, dirTables, run.config.changed, count, WriteMode),
          StageScript(NextScript, phaseMode),
          Computed(NextScript, StageScript(NextScript, phaseMode), dirTables,
                   run.config.changed),
          count, WriteMode)
  <2>1. count \in 0 .. Len(StageScript(NextScript, phaseMode).writes)
    BY NextStageIs
  <2>2. QED
    BY <2>1, NextStageIs, StageRunIs
<1>4. QED
  BY <1>2, <1>3 DEF NextStage

\* The tables of the directory stay known after any part of the next stage.
LEMMA TablesAfterTyped ==
    ASSUME RunInv, run.stages # <<>>, CanRun(NextStage, dirTables),
           NEW count \in 0 .. Len(NextStage.writes), tables' = TablesAfter(count)
    PROVE  TablesTyped'
<1>1. PICK after : after = tables'[run.config.dir]
  OBVIOUS
<1>2. Ran(dirTables, after, NextStage,
          Computed(NextScript, NextStage, dirTables, run.config.changed), count, WriteMode)
  BY <1>1, TablesAfterIs
<1>3. TablesAre(dirTables, Flights)
  BY DEF RunInv, RunTyped, ConfigTyped, TablesTyped, dirTables
<1>4. TablesAre(after, Flights)
  BY <1>2, <1>3, NextStageIs, RanKeeps
<1>5. QED
  BY <1>1, <1>4, TablesAfterIs DEF RunInv, TablesTyped

\* A stage that runs keeps the invariant and goes to the stages done.
LEMMA RunStageTyped ==
    ASSUME RunInv, RunStage
    PROVE  /\ RunInv'
           /\ run' = [run EXCEPT !.stages = Tail(@), !.done = Append(@, NextScript)]
<1>1. /\ run.step = "stages" /\ run.stages # <<>> /\ CanRun(NextStage, dirTables)
      /\ tables' = TablesAfter(Len(NextStage.writes))
      /\ manifests' = WithManifest(NextScript, Manifest(run.config.dir, NextStage))
      /\ run' = [run EXCEPT !.stages = Tail(@), !.done = Append(@, NextScript)]
      /\ UNCHANGED <<summaries, runMode, phaseMode, failures>>
  BY DEF RunStage
<1>2. TablesTyped'
  <2>1. Len(NextStage.writes) \in 0 .. Len(NextStage.writes)
    BY <1>1, NextStageIs
  <2>2. QED
    BY <1>1, <2>1, TablesAfterTyped
<1>3. RunTyped'
  <2>1. /\ run'.config = run.config /\ run'.step = run.step /\ run'.status = run.status
        /\ run'.savedPhaseMode = run.savedPhaseMode
        /\ run'.stages = Tail(run.stages) /\ run'.done = Append(run.done, NextScript)
        /\ run' = [config |-> run'.config, step |-> run'.step, status |-> run'.status,
                   stages |-> run'.stages, done |-> run'.done,
                   savedPhaseMode |-> run'.savedPhaseMode]
    BY <1>1 DEF RunInv, RunTyped
  <2>2. /\ run'.stages \in Seq(Scripts) /\ run'.done \in Seq(Scripts)
        /\ run'.done \o run'.stages = run.done \o run.stages
    BY <1>1, <2>1, MoveOne DEF RunInv, RunTyped, NextScript
  <2>3. QED
    BY <1>1, <2>1, <2>2 DEF RunInv, RunTyped
<1>4. NotesTyped'
  <2>1. NextScript \in Scripts /\ NextStage = StageScript(NextScript, phaseMode)
        /\ phaseMode \in PhaseModes
    BY <1>1, NextStageIs
  <2>2. PICK ms : ms = Replacing(manifests[run.config.dir],
                          [s \in {NextScript} |-> Manifest(run.config.dir, NextStage)])
    OBVIOUS
  <2>3. run.config.dir \in Dirs
    BY DEF RunInv, RunTyped, ConfigTyped
  <2>4. ManifestsAre(ms)
    <3>1. ManifestsAre(manifests[run.config.dir])
      BY <2>3 DEF RunInv, NotesTyped
    <3>2. /\ ms = [script \in DOMAIN ms |-> ms[script]]
          /\ DOMAIN ms = DOMAIN manifests[run.config.dir] \cup {NextScript}
          /\ ms[NextScript] = Manifest(run.config.dir, NextStage)
          /\ \A script \in DOMAIN manifests[run.config.dir] \ {NextScript} :
                ms[script] = manifests[run.config.dir][script]
      BY <2>2 DEF Replacing
    <3>3. QED
      BY <2>1, <2>3, <3>1, <3>2 DEF ManifestsAre
  <2>5. /\ manifests' = [dir \in Dirs |-> manifests'[dir]]
        /\ \A dir \in Dirs : manifests'[dir] = IF dir = run.config.dir THEN ms ELSE manifests[dir]
    BY <1>1, <2>2, <2>3 DEF WithManifest, RunInv, NotesTyped
  <2>6. QED
    BY <1>1, <2>4, <2>5 DEF RunInv, NotesTyped
<1>5. QED
  BY <1>1, <1>2, <1>3, <1>4 DEF RunInv

\* The run goes to step with a status, and does no stage more.
LEMMA RunEndsTyped ==
    ASSUME RunTyped, phaseMode' \in PhaseModes, NEW step \in {"idle", "reports"},
           NEW status \in {"none", "running", "success", "failed", "refused"},
           NEW stages \in {run.stages, <<>>},
           run' = [run EXCEPT !.step = step, !.status = status, !.stages = stages]
    PROVE  RunTyped' /\ run'.config = run.config /\ run'.done = run.done /\ run'.step = step
<1>1. /\ run'.config = run.config /\ run'.step = step /\ run'.status = status
      /\ run'.savedPhaseMode = run.savedPhaseMode
      /\ run'.stages = stages /\ run'.done = run.done
      /\ run' = [config |-> run'.config, step |-> run'.step, status |-> run'.status,
                 stages |-> run'.stages, done |-> run'.done,
                 savedPhaseMode |-> run'.savedPhaseMode]
  <2>1. run' = [config |-> run.config, step |-> step, status |-> status, stages |-> stages,
                done |-> run.done, savedPhaseMode |-> run.savedPhaseMode]
    BY DEF RunTyped
  <2>2. /\ run'.config = run.config /\ run'.step = step /\ run'.status = status
        /\ run'.savedPhaseMode = run.savedPhaseMode
        /\ run'.stages = stages /\ run'.done = run.done
    BY <2>1
  <2>3. QED
    BY <2>1, <2>2
<1>2. stages \in Seq(Scripts)
  <2>1. <<>> \in Seq(Scripts)
    OBVIOUS
  <2>2. run.stages \in Seq(Scripts)
    BY DEF RunTyped
  <2>3. QED
    BY <2>1, <2>2
<1>3. QED
  BY <1>1, <1>2 DEF RunTyped

\* A summary of stages keeps the types of what a directory notes.
LEMMA SummariesTyped ==
    ASSUME RunInv, NEW stages \in Seq(Scripts), summaries' = SummaryWith(stages),
           UNCHANGED <<manifests, runMode>>
    PROVE  NotesTyped'
<1>1. run.config.dir \in Dirs /\ run.config.mode \in DOMAIN Plan
  BY DEF RunInv, RunTyped, ConfigTyped
<1>2. PICK ss : ss = Replacing(summaries[run.config.dir],
                               [mode \in {run.config.mode} |-> stages])
  OBVIOUS
<1>3. /\ DOMAIN ss \subseteq DOMAIN Plan
      /\ \A mode \in DOMAIN ss : ss[mode] \in Seq(Scripts)
  <2>1. /\ DOMAIN ss = DOMAIN summaries[run.config.dir] \cup {run.config.mode}
        /\ \A mode \in DOMAIN ss : ss[mode] \in {stages, summaries[run.config.dir][mode]}
        /\ \A mode \in DOMAIN ss \ {run.config.mode} : ss[mode] = summaries[run.config.dir][mode]
        /\ ss[run.config.mode] = stages
    BY <1>2 DEF Replacing
  <2>2. QED
    BY <1>1, <2>1 DEF RunInv, NotesTyped
<1>4. /\ summaries' = [dir \in Dirs |-> summaries'[dir]]
      /\ \A dir \in Dirs : summaries'[dir] = IF dir = run.config.dir THEN ss ELSE summaries[dir]
  BY <1>1, <1>2 DEF SummaryWith, RunInv, NotesTyped
<1>5. QED
  BY <1>3, <1>4 DEF RunInv, NotesTyped

\* A stage that raises keeps the invariant and ends the stages.
LEMMA StageFailsTyped ==
    ASSUME RunInv, StageFails
    PROVE  RunInv' /\ run'.config = run.config /\ run'.done = run.done /\ run'.step = "reports"
<1>1. /\ run.step = "stages" /\ run.stages # <<>>
      /\ summaries' = SummaryWith(Append(run.done, NextScript))
      /\ run' = [run EXCEPT !.step = "reports", !.status = "failed", !.stages = <<>>]
      /\ UNCHANGED <<manifests, runMode, phaseMode>>
  BY DEF StageFails
<1>2. NotesTyped'
  <2>1. Append(run.done, NextScript) \in Seq(Scripts)
    BY <1>1, NextStageIs DEF RunInv, RunTyped
  <2>2. QED
    BY <1>1, <2>1, SummariesTyped
<1>3. /\ RunTyped' /\ run'.config = run.config /\ run'.done = run.done
      /\ run'.step = "reports"
  BY <1>1, RunEndsTyped DEF RunInv, RunTyped
<1>4. TablesTyped'
  <2>1. CASE UNCHANGED tables
    BY <2>1 DEF RunInv, TablesTyped
  <2>2. CASE /\ CanRun(NextStage, dirTables)
             /\ \E count \in 0 .. Len(NextStage.writes) : tables' = TablesAfter(count)
    BY <1>1, <2>2, TablesAfterTyped
  <2>3. QED
    BY <2>1, <2>2 DEF StageFails
<1>5. QED
  BY <1>2, <1>3, <1>4 DEF RunInv

\* So does the end of the last stage.
LEMMA EndStagesTyped ==
    ASSUME RunInv, EndStages
    PROVE  RunInv' /\ run'.config = run.config /\ run'.done = run.done /\ run'.step = "reports"
<1>1. /\ summaries' = SummaryWith(run.done) /\ UNCHANGED <<tables, manifests, runMode, phaseMode>>
  BY DEF EndStages
<1>2. PICK status \in {"success", "failed"} :
          run' = [run EXCEPT !.step = "reports", !.status = status]
  BY DEF EndStages
<1>3. run' = [run EXCEPT !.step = "reports", !.status = status, !.stages = run.stages]
  BY <1>2 DEF RunInv, RunTyped
<1>4. /\ RunTyped' /\ run'.config = run.config /\ run'.done = run.done
      /\ run'.step = "reports"
  BY <1>1, <1>3, RunEndsTyped DEF RunInv, RunTyped
<1>5. TablesTyped'
  BY <1>1 DEF RunInv, TablesTyped
<1>6. NotesTyped'
  BY <1>1, SummariesTyped DEF RunInv, RunTyped
<1>7. QED
  BY <1>4, <1>5, <1>6 DEF RunInv

\* The reports keep the invariant and end the run.
LEMMA FinishTyped ==
    ASSUME RunInv, Finish
    PROVE  RunInv' /\ run'.config = run.config /\ run'.done = run.done /\ run'.step = "idle"
<1>1. /\ runMode' = [runMode EXCEPT ![run.config.dir] = run.config.mode]
      /\ UNCHANGED <<tables, manifests, summaries>>
      /\ phaseMode' \in {phaseMode, run.savedPhaseMode}
  BY DEF Finish
<1>2. PICK status \in {run.status, "failed"} :
          run' = [run EXCEPT !.step = "idle", !.status = status, !.stages = run.stages]
  <2>1. \/ run' = [run EXCEPT !.step = "idle"]
        \/ run' = [run EXCEPT !.step = "idle", !.status = "failed"]
    BY DEF Finish
  <2>2. QED
    BY <2>1 DEF RunInv, RunTyped
<1>3. /\ RunTyped' /\ run'.config = run.config /\ run'.done = run.done
      /\ run'.step = "idle"
  BY <1>1, <1>2, RunEndsTyped DEF RunInv, RunTyped
<1>4. TablesTyped'
  BY <1>1 DEF RunInv, TablesTyped
<1>5. NotesTyped'
  BY <1>1 DEF RunInv, NotesTyped, RunTyped, ConfigTyped
<1>6. QED
  BY <1>3, <1>4, <1>5 DEF RunInv

-----------------------------------------------------------------------------
(* The campaigns.                                                           *)

\* A step of the active run keeps its settings and the types of everything; a
\* directory that has a mode keeps one.
LEMMA RunStepTyped ==
    ASSUME RunInv, RunStep
    PROVE  /\ RunInv' /\ run'.config = run.config
           /\ \A dir \in Dirs : runMode[dir] \in DOMAIN Plan => runMode'[dir] \in DOMAIN Plan
<1>1. CASE RunStage
  <2>1. RunInv' /\ run' = [run EXCEPT !.stages = Tail(@), !.done = Append(@, NextScript)]
    BY <1>1, RunStageTyped
  <2>2. run'.config = run.config
    BY <2>1 DEF RunInv, RunTyped
  <2>3. QED
    BY <1>1, <2>1, <2>2 DEF RunStage
<1>2. CASE StageFails
  BY <1>2, StageFailsTyped DEF StageFails
<1>3. CASE EndStages
  BY <1>3, EndStagesTyped DEF EndStages
<1>4. CASE Finish
  <2>1. RunInv' /\ run'.config = run.config
    BY <1>4, FinishTyped
  <2>2. \A dir \in Dirs : runMode'[dir] = IF dir = run.config.dir THEN run.config.mode
                                          ELSE runMode[dir]
    BY <1>4 DEF Finish, RunInv, NotesTyped
  <2>3. QED
    BY <2>1, <2>2 DEF RunInv, RunTyped, ConfigTyped
<1>5. QED
  BY <1>1, <1>2, <1>3, <1>4 DEF RunStep

\* A copy of a directory.
LEMMA CloneTyped ==
    ASSUME RunInv, NEW source \in Dirs, NEW copy \in Dirs, Clone(source, copy)
    PROVE  RunInv' /\ runMode'[copy] = runMode[source]
<1>1. RunTyped'
  BY DEF Clone, RunInv, RunTyped
<1>2. TablesTyped'
  BY DEF Clone, RunInv, TablesTyped
<1>3. NotesTyped' /\ runMode'[copy] = runMode[source]
  BY DEF Clone, RunInv, NotesTyped
<1>4. QED
  BY <1>1, <1>2, <1>3 DEF RunInv

\* The tables of one directory with some of another put in.
LEMMA PutInIs ==
    ASSUME NEW ts, NEW X, TablesAre(ts, X), NEW other, NEW Y, TablesAre(other, Y),
           NEW names, names \subseteq DOMAIN other
    PROVE  TablesAre(Replacing(ts, [artifact \in names |-> other[artifact]]), X \cup Y)
<1> DEFINE put == Replacing(ts, [artifact \in names |-> other[artifact]])
<1>1. /\ put = [artifact \in DOMAIN put |-> put[artifact]]
      /\ DOMAIN put = DOMAIN ts \cup names
      /\ \A artifact \in names : put[artifact] = other[artifact]
      /\ \A artifact \in DOMAIN ts \ names : put[artifact] = ts[artifact]
  BY DEF Replacing
<1> HIDE DEF put
<1>2. ASSUME NEW artifact \in DOMAIN put
      PROVE  /\ put[artifact].flights \subseteq {"live", "fit"} \X (X \cup Y)
             /\ put[artifact].copies \in {1, 2}
  BY <1>1 DEF TablesAre
<1>3. DOMAIN put \subseteq Artifacts
  BY <1>1 DEF TablesAre
<1>4. put = [artifact \in DOMAIN put |-> put[artifact]]
  BY <1>1
<1>5. TablesAre(put, X \cup Y)
  BY <1>2, <1>3, <1>4 DEF TablesAre
<1>6. QED
  BY <1>5 DEF put

\* Staging the artifacts of a reference keeps the invariant.
LEMMA StagingTyped ==
    ASSUME RunInv, StageReferenceArtifacts
    PROVE  RunInv'
<1>1. "source" \in Dirs /\ "other" \in Dirs /\ "copy" \in Dirs
  BY ReplayCampaignAssumption
<1>2. RunTyped'
  BY DEF StageReferenceArtifacts, RunInv, RunTyped
<1>3. TablesTyped'
  <2>1. PICK put : put = Replacing(tables["other"],
                         [artifact \in ReferenceArtifactNames |-> tables["source"][artifact]])
    OBVIOUS
  <2>2. TablesAre(put, Flights \cup Flights)
    BY <1>1, <2>1, PutInIs DEF StageReferenceArtifacts, RunInv, TablesTyped
  <2>3. TablesAre(put, Flights)
    BY <2>2
  <2>4. QED
    BY <1>1, <2>1, <2>3 DEF StageReferenceArtifacts, RunInv, TablesTyped
<1>4. NotesTyped'
  BY <1>1 DEF StageReferenceArtifacts, RunInv, NotesTyped
<1>5. QED
  BY <1>2, <1>3, <1>4 DEF RunInv

\* The campaign has its fields, and the mode of a variant is known.
CampaignTyped ==
    /\ campaign = Campaign(campaign.kind, campaign.runs, campaign.prepared,
                           campaign.changed, campaign.target, campaign.tier)
    /\ campaign.runs \in Nat
    /\ campaign.kind \in {"operator", "benchmark", "pair"}
    /\ campaign.kind = "benchmark" /\ campaign.prepared => runMode["copy"] \in DOMAIN Plan

TypeInv == RunInv /\ CampaignTyped

\* A run of the campaign begins.
LEMMA BeginNextTyped ==
    ASSUME TypeInv, NEW mode \in DOMAIN Plan, NEW dir \in Dirs, NEW replay, NEW start,
           NEW end, NEW changed, NEW flight \in Flights,
           BeginNext(Config(mode, dir, replay, start, end, changed, flight))
    PROVE  /\ TypeInv' /\ run'.config = Config(mode, dir, replay, start, end, changed, flight)
           /\ campaign'.runs = campaign.runs + 1 /\ campaign'.kind = campaign.kind
           /\ campaign'.prepared = campaign.prepared /\ campaign'.changed = campaign.changed
           /\ campaign'.target = campaign.target /\ campaign'.tier = campaign.tier
<1>1. PICK config : config = Config(mode, dir, replay, start, end, changed, flight)
  OBVIOUS
<1>2. ConfigTyped(config)
  BY <1>1 DEF Config, ConfigTyped
<1>3. Begin(config) /\ campaign' = [campaign EXCEPT !.runs = @ + 1]
  BY <1>1 DEF BeginNext
<1>4. RunInv' /\ run'.config = config
  BY <1>2, <1>3, BeginTyped DEF TypeInv
<1>5. campaign' = Campaign(campaign.kind, campaign.runs + 1, campaign.prepared,
                           campaign.changed, campaign.target, campaign.tier)
  BY <1>3 DEF TypeInv, CampaignTyped, Campaign
<1>6. /\ campaign'.kind = campaign.kind /\ campaign'.runs = campaign.runs + 1
      /\ campaign'.prepared = campaign.prepared /\ campaign'.changed = campaign.changed
      /\ campaign'.target = campaign.target /\ campaign'.tier = campaign.tier
  BY <1>5 DEF Campaign
<1>7. runMode' = runMode
  BY <1>3 DEF Begin
<1>8. campaign' = Campaign(campaign'.kind, campaign'.runs, campaign'.prepared,
                           campaign'.changed, campaign'.target, campaign'.tier)
  BY <1>5, <1>6
<1>9. CampaignTyped'
  BY <1>6, <1>7, <1>8 DEF TypeInv, CampaignTyped
<1>10. QED
  BY <1>1, <1>4, <1>6, <1>9 DEF TypeInv

\* The campaign begins with known tables and settings.
LEMMA InitTypeInv == Init => TypeInv
<1> SUFFICES ASSUME Init PROVE TypeInv
  OBVIOUS
<1>1. RunInv
  BY InitRunInv DEF Init
<1>2. PICK kind \in {"operator", "benchmark", "pair"} :
          campaign = Campaign(kind, 0, FALSE, {}, Unset, Unset)
  BY DEF Init
<1>3. CampaignTyped
  BY <1>2 DEF Campaign, CampaignTyped
<1>4. QED
  BY <1>1, <1>3 DEF TypeInv

\* Every step of the campaign keeps the types.
LEMMA NextTypeInv ==
    ASSUME TypeInv, [Next]_vars
    PROVE  TypeInv'
<1> USE DEF TypeInv
<1>1. /\ "source" \in Dirs /\ "other" \in Dirs /\ "copy" \in Dirs
      /\ "nominal" \in Flights /\ "faulted" \in Flights
      /\ Modes \subseteq DOMAIN Plan
      /\ "full" \in DOMAIN Plan /\ "reference_inference" \in DOMAIN Plan
  BY ReplayCampaignAssumption DEF Flights, Plan
<1>2. CASE FreshRun
  BY <1>1, <1>2, BeginNextTyped DEF FreshRun
<1>3. CASE Resume
  BY <1>1, <1>3, BeginNextTyped DEF Resume
<1>4. CASE PlanVariant
  <2>1. Clone("source", "copy") /\ runMode["source"] # Unset
    BY <1>4 DEF PlanVariant, HasRecommendation
  <2>2. RunInv' /\ runMode'["copy"] \in DOMAIN Plan
    BY <1>1, <2>1, CloneTyped DEF RunInv, NotesTyped
  <2>3. PICK changed, target, tier :
            campaign' = Campaign("benchmark", 1, TRUE, changed, target, tier)
    BY <1>4 DEF PlanVariant
  <2>4. CampaignTyped'
    BY <2>2, <2>3 DEF CampaignTyped, Campaign
  <2>5. QED
    BY <2>2, <2>4
<1>5. CASE RunVariant
  <2>1. runMode["copy"] \in DOMAIN Plan
    BY <1>5 DEF RunVariant, CampaignTyped
  <2>2. BeginNext(Config(runMode["copy"], "copy", TRUE,
                         RecommendedStart("source", campaign.target),
                         ReplayEnd(campaign.target, campaign.tier),
                         campaign.changed, "nominal"))
    BY <1>5 DEF RunVariant
  <2>3. QED
    BY <1>1, <2>1, <2>2, BeginNextTyped
<1>6. CASE ReferenceRun
  BY <1>1, <1>6, BeginNextTyped DEF ReferenceRun
<1>7. CASE SelfFitRun
  BY <1>1, <1>7, BeginNextTyped DEF SelfFitRun
<1>8. CASE StageReferenceArtifacts
  <2>1. RunInv'
    BY <1>8, StagingTyped
  <2>2. campaign.kind = "pair" /\ campaign' = [campaign EXCEPT !.prepared = TRUE]
    BY <1>8 DEF StageReferenceArtifacts
  <2>3. campaign' = Campaign(campaign.kind, campaign.runs, TRUE,
                             campaign.changed, campaign.target, campaign.tier)
    BY <2>2 DEF CampaignTyped, Campaign
  <2>4. CampaignTyped'
    BY <2>2, <2>3 DEF CampaignTyped, Campaign
  <2>5. QED
    BY <2>1, <2>4
<1>9. CASE InferenceRun
  BY <1>1, <1>9, BeginNextTyped DEF InferenceRun
<1>10. CASE RunStep /\ UNCHANGED campaign
  BY <1>1, <1>10, RunStepTyped DEF CampaignTyped
<1>11. CASE UNCHANGED vars
  BY <1>11 DEF vars, runVars, RunInv, RunTyped, TablesTyped, NotesTyped, CampaignTyped
<1>12. QED
  BY <1>2, <1>3, <1>4, <1>5, <1>6, <1>7, <1>8, <1>9, <1>10, <1>11 DEF Next

\* TypeOK always holds: every run has known settings, and every table in a directory
\* is an artifact made of flights that were run, once or twice over.
THEOREM CampaignTypes == Spec => []TypeOK
<1>1. TypeInv => TypeOK
  BY RunInvTypes DEF TypeInv
<1>2. QED
  BY <1>1, InitTypeInv, NextTypeInv, PTL DEF Spec

-----------------------------------------------------------------------------
(* Where a variant resumes.                                                 *)

\* A step of the active run leaves every other directory alone.
LEMMA StepElsewhere ==
    ASSUME RunInv, RunStep, NEW dir \in Dirs, dir # run.config.dir
    PROVE  /\ tables'[dir] = tables[dir] /\ manifests'[dir] = manifests[dir]
           /\ summaries'[dir] = summaries[dir] /\ runMode'[dir] = runMode[dir]
<1>1. \A count : tables' = TablesAfter(count) => tables'[dir] = tables[dir]
  BY DEF TablesAfter, RunInv, TablesTyped
<1>2. tables'[dir] = tables[dir]
  BY <1>1 DEF RunStep, RunStage, StageFails, EndStages, Finish
<1>3. \A script, manifest : manifests' = WithManifest(script, manifest) =>
          manifests'[dir] = manifests[dir]
  BY DEF WithManifest, RunInv, NotesTyped
<1>4. manifests'[dir] = manifests[dir]
  BY <1>3 DEF RunStep, RunStage, StageFails, EndStages, Finish
<1>5. \A stages : summaries' = SummaryWith(stages) => summaries'[dir] = summaries[dir]
  BY DEF SummaryWith, RunInv, NotesTyped
<1>6. summaries'[dir] = summaries[dir]
  BY <1>5 DEF RunStep, RunStage, StageFails, EndStages, Finish
<1>7. runMode'[dir] = runMode[dir]
  BY DEF RunStep, RunStage, StageFails, EndStages, Finish, RunInv, NotesTyped
<1>8. QED
  BY <1>2, <1>4, <1>6, <1>7

\* How the status of a run changes: a run is never refused later, and what is over
\* stays as it is or fails.
LEMMA StatusIs ==
    ASSUME RunInv, RunStep
    PROVE  /\ run.step # "idle"
           /\ run'.status \in {run.status, "success", "failed"}
           /\ run.step # "stages" =>
                 /\ run'.step # "stages" /\ run'.done = run.done
                 /\ run'.status \in {run.status, "failed"}
<1>1. CASE RunStage
  BY <1>1, RunStageTyped DEF RunStage, RunInv, RunTyped
<1>2. CASE StageFails
  BY <1>2 DEF StageFails, RunInv, RunTyped
<1>3. CASE EndStages
  BY <1>3 DEF EndStages, RunInv, RunTyped
<1>4. CASE Finish
  BY <1>4 DEF Finish, RunInv, RunTyped
<1>5. QED
  BY <1>1, <1>2, <1>3, <1>4 DEF RunStep

\* What a manifest asks for in a replay it lists, but for the manifest of stage 40.
LEMMA ReplayableIs ==
    ASSUME NEW script \in Scripts, NEW mode \in PhaseModes
    PROVE  /\ script = "40" => \E artifact \in StageScript(script, mode).replayableFrom :
                                   artifact \notin StageScript(script, mode).inputs
           /\ script # "40" =>
                 StageScript(script, mode).replayableFrom \subseteq StageScript(script, mode).inputs
<1> DEFINE Lists(stage) == stage.replayableFrom \subseteq stage.inputs
<1>1. Lists(IngestRaw) /\ Lists(ParameterProfiles) /\ Lists(BehaviorProfiles)
  BY DEF IngestRaw, ParameterProfiles, BehaviorProfiles, Fit, Stage
<1>2. Lists(EventProfiles) /\ Lists(EventsExtract) /\ Lists(WindowPolicy)
  BY DEF EventProfiles, EventsExtract, WindowPolicy, Fit, Stage
<1>3. Lists(WindowsAdaptive) /\ Lists(WindowFeatures) /\ Lists(BuildGraph) /\ Lists(FitHierarchy)
  BY DEF WindowsAdaptive, WindowFeatures, BuildGraph, FitHierarchy, Fit, Stage
<1>4. Lists(PhaseFit) /\ Lists(PhaseApply) /\ Lists(PhaseLabelCentroids)
  BY DEF PhaseFit, PhaseApply, PhaseLabelCentroids, Stage
<1>5. Lists(WindowScoresRaw) /\ Lists(WindowScoresCalibrate)
  BY DEF WindowScoresRaw, WindowScoresCalibrate, Stage
<1>6. Lists(AnomalyAttribution) /\ Lists(EmitExplorerBundle)
  BY DEF AnomalyAttribution, EmitExplorerBundle, Stage
<1>7. "backbone_sensor_energy" \in BackboneFit.replayableFrom \ BackboneFit.inputs
  BY DEF BackboneFit, Fit, Stage
<1> HIDE DEF Lists
<1>8. script = "40" => StageScript(script, mode) = BackboneFit
  BY DEF StageScript
<1>9. script # "40" => Lists(StageScript(script, mode))
  BY <1>1, <1>2, <1>3, <1>4, <1>5, <1>6, ScriptsAre DEF StageScript
<1>10. QED
  BY <1>7, <1>8, <1>9 DEF Lists

\* A set of the first numbers that is not empty has a greatest and a least.
LEMMA ExtremesAre ==
    ASSUME NEW n \in Nat, NEW S \in SUBSET (1..n), S # {}
    PROVE  /\ Max(S) \in S /\ \A i \in S : i <= Max(S)
           /\ Min(S) \in S /\ \A i \in S : Min(S) <= i
<1>1. \A T \in SUBSET Nat : T # {} => \E i \in T : \A j \in T : i <= j
  BY Numbers!LeastElement
<1>2. \E i \in S : \A j \in S : i <= j
  BY <1>1
<1>3. \E i \in S : \A j \in S : i >= j
  <2> DEFINE T == {n - i : i \in S}
  <2>1. T \in SUBSET Nat /\ T # {}
    <3>1. \A i \in S : n - i \in Nat
      OBVIOUS
    <3>2. QED
      BY <3>1
  <2>2. PICK k \in T : \A j \in T : k <= j
    BY <1>1, <2>1
  <2>3. PICK i \in S : k = n - i
    BY <2>2
  <2>4. \A j \in S : n - i <= n - j
    BY <2>2, <2>3
  <2>5. \A j \in S : i >= j
    BY <2>4
  <2>6. QED
    BY <2>5
<1>4. Max(S) \in S /\ \A i \in S : i <= Max(S)
  BY <1>3 DEF Max
<1>5. Min(S) \in S /\ \A i \in S : Min(S) <= i
  BY <1>2 DEF Min
<1>6. QED
  BY <1>4, <1>5

\* The stages that the planner looks at are those of a summary.
LEMMA OrderedIs ==
    ASSUME RunInv, NEW dir \in Dirs
    PROVE  /\ OrderedStageScripts(dir) \in Seq(Scripts)
           /\ \/ OrderedStageScripts(dir) = <<>>
              \/ \E mode \in DOMAIN summaries[dir] :
                    OrderedStageScripts(dir) = summaries[dir][mode]
<1> DEFINE present == {i \in DOMAIN SummaryOrder : SummaryOrder[i] \in DOMAIN summaries[dir]}
<1>1. present \in SUBSET (1..4)
  BY DEF SummaryOrder
<1>2. CASE present = {}
  <2>1. OrderedStageScripts(dir) = <<>>
    BY <1>2 DEF OrderedStageScripts
  <2>2. <<>> \in Seq(Scripts)
    OBVIOUS
  <2>3. QED
    BY <2>1, <2>2
<1>3. CASE present # {}
  <2>1. Min(present) \in present
    <3> HIDE DEF present
    <3>1. 4 \in Nat
      OBVIOUS
    <3>2. QED
      BY <1>1, <1>3, <3>1, ExtremesAre
  <2>2. SummaryOrder[Min(present)] \in DOMAIN summaries[dir]
    BY <2>1
  <2>3. OrderedStageScripts(dir) = summaries[dir][SummaryOrder[Min(present)]]
    BY <1>3 DEF OrderedStageScripts
  <2>4. QED
    BY <2>2, <2>3 DEF RunInv, NotesTyped
<1>4. QED
  BY <1>2, <1>3

\* The recommended stage stands no later than the target in the summary and is
\* ready.
LEMMA RecommendedIs ==
    ASSUME RunInv, NEW dir \in Dirs, NEW target, HasRecommendation(dir, target),
           NEW ordered, ordered = OrderedStageScripts(dir)
    PROVE  /\ ordered \in Seq(Scripts)
           /\ Position(target, ordered) \in 1..Len(ordered)
           /\ ordered[Position(target, ordered)] = target
           /\ RecommendedStart(dir, target) \in Scripts
           /\ IsReady(dir, RecommendedStart(dir, target))
           /\ \E i \in 1..Position(target, ordered) : RecommendedStart(dir, target) = ordered[i]
<1>1. ordered \in Seq(Scripts) /\ target \in ToSet(ordered)
  BY OrderedIs DEF HasRecommendation
<1>2. Position(target, ordered) \in 1..Len(ordered) /\ ordered[Position(target, ordered)] = target
  BY <1>1, PositionIs
<1>3. PICK n : n = Position(target, ordered)
  OBVIOUS
<1>4. PICK S : S = ReadyUpTo(dir, target)
  OBVIOUS
<1>5. S = {i \in 1..n : IsReady(dir, ordered[i])} /\ S # {}
  BY <1>3, <1>4 DEF ReadyUpTo, HasRecommendation
<1>6. n \in Nat /\ S \in SUBSET (1..n)
  BY <1>1, <1>2, <1>3, <1>5
<1>7. Max(S) \in S
  BY <1>5, <1>6, ExtremesAre
<1>8. RecommendedStart(dir, target) = ordered[Max(S)]
  BY <1>4 DEF RecommendedStart
<1>9. Max(S) \in 1..n /\ IsReady(dir, ordered[Max(S)])
  BY <1>5, <1>7
<1>10. 1..n \subseteq 1..Len(ordered)
  BY <1>1, <1>2, <1>3
<1>11. ordered[Max(S)] \in Scripts
  BY <1>1, <1>9, <1>10
<1>12. QED
  BY <1>1, <1>2, <1>3, <1>8, <1>9, <1>11

\* A variant from stage 40 does nothing and fails; any other is never refused.
Judged ==
    IF run.config.start = "40"
    THEN run.done = <<>> /\ run.status \in {"failed", "refused"} /\ run.step # "stages"
    ELSE run.status # "refused"

\* No step of a run brings about a refusal, or a success from stage 40.
LEMMA JudgedStays ==
    ASSUME RunInv, RunStep, Judged
    PROVE  Judged'
<1>1. RunInv' /\ run'.config = run.config
  BY RunStepTyped
<1>2. QED
  BY <1>1, StatusIs DEF Judged

\* The copy holds the manifests of the source, which point to it, and a stage of
\* the source is ready.
MayResume(target) ==
    /\ manifests["copy"] = manifests["source"]
    /\ \A script \in DOMAIN manifests["source"] : manifests["source"][script].dir = "source"
    /\ HasRecommendation("source", target)

\* The fields of a run that has started.
LEMMA StartedIs ==
    ASSUME NEW config, NEW step, NEW status, NEW stages,
           run' = Started(config, step, status, stages)
    PROVE  /\ run'.config = config /\ run'.step = step /\ run'.status = status
           /\ run'.stages = stages /\ run'.done = <<>> /\ run'.savedPhaseMode = phaseMode
  BY DEF Started

\* A variant that starts where the planner says is judged from its first step on.
LEMMA VariantBegins ==
    ASSUME RunInv, NEW mode \in DOMAIN Plan, NEW target, MayResume(target), NEW end,
           NEW changed, NEW config,
           config = Config(mode, "copy", TRUE, RecommendedStart("source", target), end,
                           changed, "nominal"),
           Begin(config)
    PROVE  run'.config = config => Judged'
<1>1. PICK start : start = RecommendedStart("source", target)
  OBVIOUS
<1>2. start \in Scripts /\ IsReady("source", start) /\ "source" \in Dirs /\ "copy" \in Dirs
  BY <1>1, RecommendedIs, ReplayCampaignAssumption DEF MayResume
<1>3. start # Unset
  BY <1>2, ScriptsAre DEF Unset
<1>4. /\ config.mode = mode /\ config.dir = "copy" /\ config.replay /\ config.start = start
      /\ config.end = end
  BY <1>1 DEF Config
<1>5. PICK stages : stages = SelectedStageScripts(Plan[mode], start, end)
  OBVIOUS
<1>6. PICK kind \in PhaseModes, dir \in Dirs :
          manifests["source"][start] = Manifest(dir, StageScript(start, kind))
  BY <1>2 DEF RunInv, NotesTyped, ManifestsAre, IsReady
<1>7. CASE ~ModeIsLegal(config)
  <2>1. run'.done = <<>> /\ run'.status = "failed" /\ run'.step = "reports"
    BY <1>7 DEF Begin, Started
  <2>2. QED
    BY <2>1 DEF Judged
<1>8. CASE ModeIsLegal(config)
  <2>1. Head(stages) = start
    <3>1. IsSelectable(Plan[mode], start, end)
      BY <1>4, <1>8 DEF ModeIsLegal
    <3>2. Selects(stages, Plan[mode], StartIndex(Plan[mode], start), EndIndex(Plan[mode], end))
      BY <1>5, <3>1, SelectionIs
    <3>3. Head(stages) = Plan[mode][StartIndex(Plan[mode], start)]
      BY <3>2 DEF Selects
    <3>4. Plan[mode] \in Seq(Scripts) /\ start \in ToSet(Plan[mode])
      BY <1>3, <3>1, ScriptsAre DEF IsSelectable
    <3>5. Plan[mode][Position(start, Plan[mode])] = start
      BY <3>4, PositionIs
    <3>6. QED
      BY <1>3, <3>3, <3>5 DEF StartIndex
  <2>2. \/ run' = IF ReplayIsAccepted(config, stages)
                  THEN Started(config, "stages", "running", stages)
                  ELSE Started(config, "reports", "refused", <<>>)
        \/ run' = Started(config, "reports", "failed", <<>>)
    BY <1>4, <1>5, <1>8 DEF Begin
  <2>3. CASE start = "40"
    <3>1. ~ReplayInputsAreValid("copy", start)
      <4>1. \E artifact \in manifests["copy"][start].replayableFrom :
                artifact \notin manifests["copy"][start].inputs
        BY <1>2, <1>6, <2>3, ReplayableIs DEF Manifest, MayResume
      <4>2. QED
        BY <4>1 DEF ReplayInputsAreValid, InputExists
    <3>2. ~ReplayIsAccepted(config, stages)
      BY <1>3, <1>4, <2>1, <3>1 DEF ReplayIsAccepted
    <3>3. \/ run' = Started(config, "reports", "refused", <<>>)
          \/ run' = Started(config, "reports", "failed", <<>>)
      BY <2>2, <3>2
    <3>4. run'.done = <<>> /\ run'.step = "reports"
      BY <3>3, StartedIs
    <3>5. run'.status = "failed" \/ run'.status = "refused"
      BY <3>3, StartedIs
    <3>6. QED
      BY <1>4, <2>3, <3>4, <3>5 DEF Judged
  <2>4. CASE start # "40"
    <3>1. manifests["copy"][start].replayableFrom \subseteq manifests["copy"][start].inputs
      BY <1>2, <1>6, <2>4, ReplayableIs DEF Manifest, MayResume
    <3>2. ReplayInputsAreValid("copy", start)
      BY <1>2, <3>1 DEF ReplayInputsAreValid, InputExists, IsReady, ReportedToExist, MayResume
    <3>3. ReplayIsAccepted(config, stages)
      BY <1>4, <2>1, <3>2 DEF ReplayIsAccepted
    <3>4. \/ run' = Started(config, "stages", "running", stages)
          \/ run' = Started(config, "reports", "failed", <<>>)
      BY <2>2, <3>3
    <3>5. run'.status = "running" \/ run'.status = "failed"
      BY <3>4, StartedIs
    <3>6. QED
      BY <1>4, <2>4, <3>5 DEF Judged
  <2>5. QED
    BY <2>3, <2>4
<1>9. QED
  BY <1>7, <1>8

\* Before the variant runs everything happens in the source; the run of a variant
\* is judged; the operator prepares no copy and a pair names no start.
SourceIs ==
    /\ campaign.runs = 0 => IsIdle /\ ~campaign.prepared
    /\ campaign.runs = 1 => run.config.dir = "source"
    /\ campaign.runs <= 1 =>
          \A script \in DOMAIN manifests["source"] : manifests["source"][script].dir = "source"
    /\ campaign.prepared /\ campaign.runs = 1 => IsIdle /\ MayResume(campaign.target)
    /\ campaign.runs > 1 => Judged

BoundaryInv ==
    /\ TypeInv
    /\ campaign.kind = "operator" => ~campaign.prepared
    /\ campaign.kind = "pair" => run.config.start = Unset /\ run.status # "refused"
    /\ campaign.kind = "benchmark" => SourceIs

\* At first no copy is prepared and no run has begun.
LEMMA InitBoundaryInv == Init => BoundaryInv
<1> SUFFICES ASSUME Init PROVE BoundaryInv
  OBVIOUS
<1>1. TypeInv
  BY InitTypeInv
<1>2. PICK kind \in {"operator", "benchmark", "pair"} :
          campaign = Campaign(kind, 0, FALSE, {}, Unset, Unset)
  BY DEF Init
<1>3. campaign.kind = kind /\ campaign.runs = 0 /\ campaign.prepared = FALSE
  BY <1>2 DEF Campaign
<1>4. IsIdle /\ run.config.start = Unset /\ run.status = "none" /\ "source" \in Dirs
  BY ReplayCampaignAssumption DEF Init, RunInit, NoRun, Config, IsIdle
<1>5. DOMAIN manifests["source"] = {}
  BY <1>4 DEF Init, RunInit, NoManifests
<1>6. SourceIs
  BY <1>3, <1>4, <1>5 DEF SourceIs
<1>7. QED
  BY <1>1, <1>3, <1>4, <1>6 DEF BoundaryInv

\* The manifests that a run of the source leaves in it point to it.
LEMMA SourceManifests ==
    ASSUME RunInv, RunStep, run.config.dir = "source",
           \A script \in DOMAIN manifests["source"] : manifests["source"][script].dir = "source"
    PROVE  \A script \in DOMAIN manifests'["source"] : manifests'["source"][script].dir = "source"
<1>1. CASE RunStage
  <2>1. manifests' = WithManifest(NextScript, Manifest("source", NextStage))
    BY <1>1 DEF RunStage
  <2>2. manifests'["source"] = Replacing(manifests["source"],
                                  [s \in {NextScript} |-> Manifest("source", NextStage)])
    BY <2>1, ReplayCampaignAssumption DEF WithManifest, RunInv, NotesTyped
  <2>3. Manifest("source", NextStage).dir = "source"
    BY DEF Manifest
  <2>4. QED
    BY <2>2, <2>3 DEF Replacing
<1>2. CASE ~RunStage
  BY <1>2 DEF RunStep, StageFails, EndStages, Finish
<1>3. QED
  BY <1>1, <1>2

\* Every step keeps what the planner and the stage runner rely on.
LEMMA NextBoundaryInv ==
    ASSUME BoundaryInv, [Next]_vars
    PROVE  BoundaryInv'
<1>1. TypeInv /\ TypeInv' /\ RunInv
  BY NextTypeInv DEF BoundaryInv, TypeInv
<1>2. /\ "source" \in Dirs /\ "other" \in Dirs /\ "copy" \in Dirs
      /\ "nominal" \in Flights /\ "faulted" \in Flights
      /\ Modes \subseteq DOMAIN Plan
      /\ "full" \in DOMAIN Plan /\ "reference_inference" \in DOMAIN Plan
  BY ReplayCampaignAssumption DEF Flights, Plan
<1>3. CASE FreshRun
  <2>1. PICK mode \in Modes, end \in Ends :
            BeginNext(Config(mode, "source", FALSE, Unset, end, {}, "nominal"))
    BY <1>3 DEF FreshRun
  <2>2. /\ run'.config = Config(mode, "source", FALSE, Unset, end, {}, "nominal")
        /\ campaign'.runs = campaign.runs + 1 /\ campaign'.kind = campaign.kind
        /\ campaign'.prepared = campaign.prepared
    BY <1>1, <1>2, <2>1, BeginNextTyped
  <2>3. run'.config.dir = "source"
    BY <2>2 DEF Config
  <2>4. campaign.runs = 0 /\ campaign.kind \in {"operator", "benchmark"}
    BY <1>3 DEF FreshRun
  <2>5. manifests' = manifests
    BY <2>1 DEF BeginNext, Begin
  <2>6. campaign.kind = "benchmark" => SourceIs'
    <3>1. SUFFICES ASSUME campaign.kind = "benchmark" PROVE SourceIs'
      OBVIOUS
    <3>2. ~campaign'.prepared
      BY <2>2, <2>4, <3>1 DEF BoundaryInv, SourceIs
    <3>3. campaign'.runs = 1
      BY <2>2, <2>4
    <3>4. \A script \in DOMAIN manifests'["source"] : manifests'["source"][script].dir = "source"
      BY <2>4, <2>5, <3>1 DEF BoundaryInv, SourceIs
    <3>5. QED
      BY <2>3, <3>2, <3>3, <3>4 DEF SourceIs
  <2>7. QED
    BY <1>1, <2>2, <2>4, <2>6 DEF BoundaryInv
<1>4. CASE Resume
  <2>1. PICK mode \in Modes, start \in Scripts \cup {Unset}, end \in Ends :
            BeginNext(Config(mode, "source", TRUE, start, end, {}, "nominal"))
    BY <1>4 DEF Resume
  <2>2. campaign'.kind = campaign.kind /\ campaign'.prepared = campaign.prepared
    BY <1>1, <1>2, <2>1, BeginNextTyped
  <2>3. campaign.kind = "operator"
    BY <1>4 DEF Resume
  <2>4. QED
    BY <1>1, <2>2, <2>3 DEF BoundaryInv
<1>5. CASE PlanVariant
  <2>1. PICK target, changed, tier :
            /\ HasRecommendation("source", target) /\ Clone("source", "copy")
            /\ campaign' = Campaign("benchmark", 1, TRUE, changed, target, tier)
    BY <1>5 DEF PlanVariant
  <2>2. /\ campaign.kind = "benchmark" /\ campaign.runs = 1 /\ IsIdle
    BY <1>5 DEF PlanVariant
  <2>3. /\ campaign'.kind = "benchmark" /\ campaign'.runs = 1 /\ campaign'.prepared
        /\ campaign'.target = target
    BY <2>1 DEF Campaign
  <2>4. /\ \A script \in DOMAIN manifests["source"] : manifests["source"][script].dir = "source"
        /\ run.config.dir = "source"
    BY <2>2 DEF BoundaryInv, SourceIs
  <2>5. /\ manifests'["copy"] = manifests["source"] /\ manifests'["source"] = manifests["source"]
        /\ tables'["source"] = tables["source"] /\ summaries'["source"] = summaries["source"]
        /\ runMode'["source"] = runMode["source"] /\ run' = run
    BY <1>1, <1>2, <2>1 DEF Clone, RunInv, TablesTyped, NotesTyped
  <2>6. HasRecommendation("source", target)'
    <3>1. \A script : IsReady("source", script)' <=> IsReady("source", script)
      BY <2>4, <2>5 DEF IsReady, ReportedToExist
    <3>2. OrderedStageScripts("source")' = OrderedStageScripts("source")
      BY <2>5 DEF OrderedStageScripts
    <3>3. ReadyUpTo("source", target)' = ReadyUpTo("source", target)
      BY <3>1, <3>2 DEF ReadyUpTo
    <3>4. QED
      BY <2>1, <2>5, <3>2, <3>3 DEF HasRecommendation
  <2>7. MayResume(target)'
    BY <2>4, <2>5, <2>6 DEF MayResume
  <2>8. SourceIs'
    BY <2>2, <2>3, <2>4, <2>5, <2>7 DEF SourceIs, IsIdle
  <2>9. QED
    BY <1>1, <2>3, <2>8 DEF BoundaryInv
<1>6. CASE RunVariant
  <2>1. PICK config : config = Config(runMode["copy"], "copy", TRUE,
                                      RecommendedStart("source", campaign.target),
                                      ReplayEnd(campaign.target, campaign.tier),
                                      campaign.changed, "nominal")
    OBVIOUS
  <2>2. /\ BeginNext(config) /\ campaign.kind = "benchmark" /\ campaign.runs = 1
        /\ campaign.prepared
    BY <1>6, <2>1 DEF RunVariant
  <2>3. runMode["copy"] \in DOMAIN Plan
    BY <1>1, <2>2 DEF TypeInv, CampaignTyped
  <2>4. run'.config = config /\ campaign'.runs = 2 /\ campaign'.kind = "benchmark"
    <3>1. PICK mode, start, end, changed :
              /\ mode = runMode["copy"]
              /\ config = Config(mode, "copy", TRUE, start, end, changed, "nominal")
      BY <2>1
    <3>2. mode \in DOMAIN Plan
             /\ BeginNext(Config(mode, "copy", TRUE, start, end, changed, "nominal"))
      BY <2>2, <2>3, <3>1
    <3>3. /\ run'.config = Config(mode, "copy", TRUE, start, end, changed, "nominal")
          /\ campaign'.runs = campaign.runs + 1 /\ campaign'.kind = campaign.kind
      BY <1>1, <1>2, <3>2, BeginNextTyped
    <3>4. QED
      BY <2>2, <3>1, <3>3
  <2>5. MayResume(campaign.target) /\ Begin(config)
    BY <2>2 DEF BoundaryInv, SourceIs, BeginNext
  <2>6. Judged'
    BY <1>1, <2>1, <2>3, <2>4, <2>5, VariantBegins
  <2>7. QED
    BY <1>1, <2>4, <2>6 DEF BoundaryInv, SourceIs
<1>7. ASSUME NEW mode \in DOMAIN Plan, NEW dir \in Dirs, NEW replay, NEW flight \in Flights,
             campaign.kind = "pair",
             BeginNext(Config(mode, dir, replay, Unset, Unset, {}, flight))
      PROVE  BoundaryInv'
  <2>1. PICK config : config = Config(mode, dir, replay, Unset, Unset, {}, flight)
    OBVIOUS
  <2>2. run'.config = config /\ campaign'.kind = "pair"
    BY <1>1, <1>7, <2>1, BeginNextTyped
  <2>3. config.start = Unset /\ Begin(config)
    BY <1>7, <2>1 DEF Config, BeginNext
  <2>4. \A stages : ReplayIsAccepted(config, stages)
    BY <2>3 DEF ReplayIsAccepted
  <2>5. \E stages : \/ run' = Started(config, "stages", "running", stages)
                   \/ run' = Started(config, "reports", "failed", <<>>)
    BY <2>3, <2>4 DEF Begin
  <2>6. run'.status # "refused"
    BY <2>5, StartedIs
  <2>7. QED
    BY <1>1, <2>2, <2>3, <2>6 DEF BoundaryInv
<1>8. CASE ReferenceRun \/ SelfFitRun \/ InferenceRun
  BY <1>2, <1>7, <1>8 DEF ReferenceRun, SelfFitRun, InferenceRun
<1>9. CASE StageReferenceArtifacts
  <2>1. /\ campaign.kind = "pair" /\ campaign' = [campaign EXCEPT !.prepared = TRUE]
        /\ run' = run
    BY <1>9 DEF StageReferenceArtifacts
  <2>2. campaign'.kind = "pair"
    BY <1>1, <2>1 DEF TypeInv, CampaignTyped, Campaign
  <2>3. QED
    BY <1>1, <2>1, <2>2 DEF BoundaryInv
<1>10. CASE RunStep /\ UNCHANGED campaign
  <2>1. run'.config = run.config
    BY <1>1, <1>10, RunStepTyped
  <2>2. campaign.kind = "pair" => run'.config.start = Unset /\ run'.status # "refused"
    BY <1>1, <1>10, <2>1, StatusIs DEF BoundaryInv
  <2>3. campaign.kind = "benchmark" => SourceIs'
    <3>1. SUFFICES ASSUME campaign.kind = "benchmark" PROVE SourceIs'
      OBVIOUS
    <3>2. campaign.runs \in Nat
      BY <1>1 DEF TypeInv, CampaignTyped
    <3>3. SourceIs /\ ~IsIdle
      BY <1>1, <1>10, <3>1, StatusIs DEF BoundaryInv, IsIdle
    <3>4. CASE campaign.runs > 1
      <4>1. Judged'
        BY <1>1, <1>10, <3>3, <3>4, JudgedStays DEF SourceIs
      <4>2. QED
        BY <1>10, <3>2, <3>4, <4>1 DEF SourceIs
    <3>5. CASE campaign.runs <= 1
      <4>1. campaign.runs = 1 /\ run.config.dir = "source" /\ ~campaign.prepared
        BY <3>2, <3>3, <3>5 DEF SourceIs
      <4>2. \A script \in DOMAIN manifests'["source"] :
                manifests'["source"][script].dir = "source"
        BY <1>1, <1>10, <3>3, <4>1, SourceManifests DEF SourceIs
      <4>3. QED
        BY <1>10, <2>1, <4>1, <4>2 DEF SourceIs
    <3>6. QED
      BY <3>2, <3>4, <3>5
  <2>4. QED
    BY <1>1, <1>10, <2>2, <2>3 DEF BoundaryInv
<1>11. CASE UNCHANGED vars
  <2>1. /\ campaign' = campaign /\ run' = run /\ tables' = tables /\ manifests' = manifests
        /\ summaries' = summaries /\ runMode' = runMode
    BY <1>11 DEF vars, runVars
  <2>2. \A script : IsReady("source", script)' <=> IsReady("source", script)
    BY <2>1 DEF IsReady, ReportedToExist
  <2>3. OrderedStageScripts("source")' = OrderedStageScripts("source")
    BY <2>1 DEF OrderedStageScripts
  <2>4. ReadyUpTo("source", campaign.target)' = ReadyUpTo("source", campaign.target)
    BY <2>1, <2>2, <2>3 DEF ReadyUpTo
  <2>5. MayResume(campaign.target)' <=> MayResume(campaign.target)
    BY <2>1, <2>3, <2>4 DEF MayResume, HasRecommendation
  <2>6. Judged' <=> Judged
    BY <2>1 DEF Judged
  <2>7. SourceIs' <=> SourceIs
    BY <2>1, <2>5, <2>6 DEF SourceIs, IsIdle
  <2>8. QED
    BY <1>1, <2>1, <2>7 DEF BoundaryInv
<1>12. QED
  BY <1>3, <1>4, <1>5, <1>6, <1>8, <1>9, <1>10, <1>11 DEF Next

\* RecommendedBoundaryIsAccepted always holds: a variant that starts where the
\* planner says is never refused by the stage runner, and one from stage 40, which
\* the planner recommends and no replay accepts, does no stage and never succeeds.
THEOREM BoundariesAreAccepted == Spec => []RecommendedBoundaryIsAccepted
<1>1. BoundaryInv => RecommendedBoundaryIsAccepted
  <2> SUFFICES ASSUME BoundaryInv, campaign.prepared, run.config.dir = "copy"
               PROVE  IF run.config.start = "40"
                      THEN run.done = <<>> /\ run.status # "success"
                      ELSE run.status # "refused"
    BY DEF RecommendedBoundaryIsAccepted
  <2>1. CASE campaign.kind = "pair"
    BY <2>1 DEF BoundaryInv, Unset
  <2>2. CASE campaign.kind = "benchmark"
    <3>1. campaign.runs > 1
      BY <2>2 DEF BoundaryInv, SourceIs, TypeInv, CampaignTyped
    <3>2. Judged
      BY <2>2, <3>1 DEF BoundaryInv, SourceIs
    <3>3. QED
      BY <3>2 DEF Judged
  <2>3. QED
    BY <2>1, <2>2 DEF BoundaryInv, TypeInv, CampaignTyped
<1>2. QED
  BY <1>1, InitBoundaryInv, NextBoundaryInv, PTL DEF Spec

-----------------------------------------------------------------------------
(* What a whole run makes.                                                  *)

FitStage(i) == StageScript(FullPlan[i], "fit")

\* The tables that exist after the seeds and the first k stages of the full plan.
Made(k) ==
    ToSet(SeedTables("nominal")) \cup UNION {ToSet(FitStage(i).writes) : i \in 1..k}

\* The stage that makes a table, 0 for the seeds.
Maker(artifact) ==
    CASE artifact \in {"raw_input", "phase_labels", "hierarchy_sensor_map_label"} -> 0
      [] artifact = "raw_telemetry" -> 1
      [] artifact \in {"parameter_datatype_profile", "continuous_scaling_profile"} -> 2
      [] artifact \in {"parameter_behavior_primitive_profile",
                       "parameter_behavior_profile"} -> 3
      [] artifact = "parameter_event_profile" -> 4
      [] artifact = "events" -> 5
      [] artifact = "window_policy_profile" -> 6
      [] artifact = "windows" -> 7
      [] artifact \in {"window_features", "backbone", "backbone_sensor_energy"} -> 8
      [] artifact \in {"precision_graph", "event_graph", "lag_profile", "lag_graph",
                       "transition_graph", "fused_graph", "graph_parameter_universe"} -> 9
      [] artifact \in {"hierarchy_sensor_map", "hierarchy_edge_evidence"} -> 10
      [] artifact \in {"phase_windows", "phase_baselines", "phase_reference_model"} -> 11
      [] artifact = "phase_label_centroids" -> 12
      [] artifact = "window_scores_raw" -> 13
      [] artifact = "window_scores_calibrated" -> 14
      [] artifact \in {"anomaly_window_attribution", "anomaly_telemetry_attribution",
                       "anomaly_event_attribution",
                       "anomaly_parameter_candidate_evidence"} -> 15
      [] artifact = "explorer_bundle" -> 16

\* The stages of the full plan, when it fits.
LEMMA FitStagesAre ==
    /\ FitStage(1) = IngestRaw /\ FitStage(2) = ParameterProfiles
    /\ FitStage(3) = BehaviorProfiles /\ FitStage(4) = EventProfiles
    /\ FitStage(5) = EventsExtract /\ FitStage(6) = WindowPolicy
    /\ FitStage(7) = WindowsAdaptive /\ FitStage(8) = BackboneFit
    /\ FitStage(9) = BuildGraph /\ FitStage(10) = FitHierarchy
    /\ FitStage(11) = PhaseFit /\ FitStage(12) = PhaseLabelCentroids
    /\ FitStage(13) = WindowScoresRaw /\ FitStage(14) = WindowScoresCalibrate
    /\ FitStage(15) = AnomalyAttribution /\ FitStage(16) = EmitExplorerBundle
<1>1. /\ FullPlan[1] = "00" /\ FullPlan[2] = "10" /\ FullPlan[3] = "12" /\ FullPlan[4] = "15"
      /\ FullPlan[5] = "20" /\ FullPlan[6] = "25" /\ FullPlan[7] = "30" /\ FullPlan[8] = "40"
      /\ FullPlan[9] = "50" /\ FullPlan[10] = "60" /\ FullPlan[11] = "70" /\ FullPlan[12] = "72"
      /\ FullPlan[13] = "80" /\ FullPlan[14] = "85" /\ FullPlan[15] = "90" /\ FullPlan[16] = "95"
  BY DEF FullPlan
<1>2. QED
  BY <1>1 DEF FitStage, StageScript

\* What stage i of the full plan writes.
Writes(i, artifacts) == ToSet(FitStage(i).writes) = artifacts

\* What each of them writes, and the seeds of a nominal run.
LEMMA WritesAre ==
    /\ Writes(1, {"raw_telemetry"})
    /\ Writes(2, {"parameter_datatype_profile", "continuous_scaling_profile"})
    /\ Writes(3, {"parameter_behavior_primitive_profile", "parameter_behavior_profile"})
    /\ Writes(4, {"parameter_event_profile"}) /\ Writes(5, {"events"})
    /\ Writes(6, {"window_policy_profile"}) /\ Writes(7, {"windows"})
    /\ Writes(8, {"window_features", "backbone", "backbone_sensor_energy"})
    /\ Writes(9, {"precision_graph", "event_graph", "lag_profile", "lag_graph",
                  "transition_graph", "fused_graph", "graph_parameter_universe"})
    /\ Writes(10, {"hierarchy_sensor_map", "hierarchy_edge_evidence"})
    /\ Writes(11, {"phase_windows", "phase_baselines", "phase_reference_model"})
    /\ Writes(12, {"phase_label_centroids"}) /\ Writes(13, {"window_scores_raw"})
    /\ Writes(14, {"window_scores_calibrated"})
    /\ Writes(15, {"anomaly_window_attribution", "anomaly_telemetry_attribution",
                   "anomaly_event_attribution", "anomaly_parameter_candidate_evidence"})
    /\ Writes(16, {"explorer_bundle"})
    /\ ToSet(SeedTables("nominal")) = {"raw_input", "phase_labels", "hierarchy_sensor_map_label"}
<1>19. /\ WindowsAdaptive.writes = <<"windows">>
      /\ BackboneFit.writes = <<"window_features", "backbone", "backbone_sensor_energy">>
      /\ BuildGraph.writes =
             <<"precision_graph", "event_graph", "lag_profile", "lag_graph",
               "transition_graph", "fused_graph", "graph_parameter_universe">>
  BY DEF WindowsAdaptive, BackboneFit, BuildGraph, Fit, Stage
<1> USE FitStagesAre DEF Writes, ToSet, Fit, Stage
<1>1. Writes(1, {"raw_telemetry"})
  BY DEF IngestRaw
<1>2. Writes(2, {"parameter_datatype_profile", "continuous_scaling_profile"})
  BY DEF ParameterProfiles
<1>3. Writes(3, {"parameter_behavior_primitive_profile", "parameter_behavior_profile"})
  BY DEF BehaviorProfiles
<1>4. Writes(4, {"parameter_event_profile"})
  BY DEF EventProfiles
<1>5. Writes(5, {"events"})
  BY DEF EventsExtract
<1>6. Writes(6, {"window_policy_profile"})
  BY DEF WindowPolicy
<1>7. Writes(7, {"windows"})
  BY <1>19
<1>8. Writes(8, {"window_features", "backbone", "backbone_sensor_energy"})
  BY <1>19
<1>9. Writes(9, {"precision_graph", "event_graph", "lag_profile", "lag_graph",
                 "transition_graph", "fused_graph", "graph_parameter_universe"})
  BY <1>19
<1>10. Writes(10, {"hierarchy_sensor_map", "hierarchy_edge_evidence"})
  BY DEF FitHierarchy
<1>11. Writes(11, {"phase_windows", "phase_baselines", "phase_reference_model"})
  BY DEF PhaseFit
<1>12. Writes(12, {"phase_label_centroids"})
  BY DEF PhaseLabelCentroids
<1>13. Writes(13, {"window_scores_raw"})
  BY DEF WindowScoresRaw
<1>14. Writes(14, {"window_scores_calibrated"})
  BY DEF WindowScoresCalibrate
<1>15. Writes(15, {"anomaly_window_attribution", "anomaly_telemetry_attribution",
                   "anomaly_event_attribution", "anomaly_parameter_candidate_evidence"})
  BY DEF AnomalyAttribution
<1>16. Writes(16, {"explorer_bundle"})
  BY DEF EmitExplorerBundle
<1>17. ToSet(SeedTables("nominal")) = {"raw_input", "phase_labels", "hierarchy_sensor_map_label"}
  BY DEF SeedTables
<1> HIDE DEF Writes
<1>18. QED
  BY <1>1, <1>2, <1>3, <1>4, <1>5, <1>6, <1>7, <1>8, <1>9, <1>10, <1>11, <1>12, <1>13, <1>14,
     <1>15, <1>16, <1>17

\* No table is made twice.
LEMMA MakerIs ==
    /\ \A i \in 1..16 : \A artifact \in ToSet(FitStage(i).writes) : Maker(artifact) = i
    /\ \A artifact \in ToSet(SeedTables("nominal")) : Maker(artifact) = 0
<1> DEFINE By(i, S) == \A artifact \in S : Maker(artifact) = i
<1>1. /\ By(0, {"raw_input", "phase_labels", "hierarchy_sensor_map_label"})
      /\ By(1, {"raw_telemetry"})
      /\ By(2, {"parameter_datatype_profile", "continuous_scaling_profile"})
      /\ By(3, {"parameter_behavior_primitive_profile", "parameter_behavior_profile"})
      /\ By(4, {"parameter_event_profile"}) /\ By(5, {"events"})
      /\ By(6, {"window_policy_profile"}) /\ By(7, {"windows"})
  BY DEF Maker
<1>2. /\ By(8, {"window_features", "backbone", "backbone_sensor_energy"})
      /\ By(9, {"precision_graph", "event_graph", "lag_profile", "lag_graph",
                "transition_graph", "fused_graph", "graph_parameter_universe"})
      /\ By(10, {"hierarchy_sensor_map", "hierarchy_edge_evidence"})
  BY DEF Maker
<1>3. /\ By(11, {"phase_windows", "phase_baselines", "phase_reference_model"})
      /\ By(12, {"phase_label_centroids"}) /\ By(13, {"window_scores_raw"})
      /\ By(14, {"window_scores_calibrated"})
      /\ By(15, {"anomaly_window_attribution", "anomaly_telemetry_attribution",
                 "anomaly_event_attribution", "anomaly_parameter_candidate_evidence"})
      /\ By(16, {"explorer_bundle"})
  BY DEF Maker
<1> HIDE DEF By
<1>4. \A i \in 1..16 : By(i, ToSet(FitStage(i).writes))
  <2>1. /\ By(1, ToSet(FitStage(1).writes)) /\ By(2, ToSet(FitStage(2).writes))
        /\ By(3, ToSet(FitStage(3).writes)) /\ By(4, ToSet(FitStage(4).writes))
        /\ By(5, ToSet(FitStage(5).writes)) /\ By(6, ToSet(FitStage(6).writes))
        /\ By(7, ToSet(FitStage(7).writes)) /\ By(8, ToSet(FitStage(8).writes))
    BY <1>1, <1>2, WritesAre DEF Writes
  <2>2. /\ By(9, ToSet(FitStage(9).writes)) /\ By(10, ToSet(FitStage(10).writes))
        /\ By(11, ToSet(FitStage(11).writes)) /\ By(12, ToSet(FitStage(12).writes))
        /\ By(13, ToSet(FitStage(13).writes)) /\ By(14, ToSet(FitStage(14).writes))
        /\ By(15, ToSet(FitStage(15).writes)) /\ By(16, ToSet(FitStage(16).writes))
    BY <1>2, <1>3, WritesAre DEF Writes
  <2>3. \A i \in 1..16 : i \in {1, 2, 3, 4, 5, 6, 7, 8, 9, 10, 11, 12, 13, 14, 15, 16}
    OBVIOUS
  <2>4. QED
    BY <2>1, <2>2, <2>3
<1>5. By(0, ToSet(SeedTables("nominal")))
  BY <1>1, WritesAre
<1>6. QED
  BY <1>4, <1>5 DEF By

\* The tables that exist after k stages are those whose maker is at most k, and a
\* stage writes none that was there before it.
LEMMA MadeIs ==
    /\ \A k \in 0..16 : \A artifact :
          artifact \in Made(k) <=> artifact \in Made(16) /\ Maker(artifact) <= k
    /\ \A artifact \in Made(16) : Maker(artifact) \in 0..16
    /\ \A i \in 1..16 : Made(i) = Made(i - 1) \cup ToSet(FitStage(i).writes)
    /\ \A i \in 1..16 : ToSet(FitStage(i).writes) \cap Made(i - 1) = {}
    /\ Made(0) = ToSet(SeedTables("nominal"))
<1> DEFINE W(i) == ToSet(FitStage(i).writes)
           Seeds == ToSet(SeedTables("nominal"))
<1>1. /\ \A i \in 1..16 : \A artifact \in W(i) : Maker(artifact) = i
      /\ \A artifact \in Seeds : Maker(artifact) = 0
  BY MakerIs
<1>2. \A k \in 0..16 : Made(k) = Seeds \cup UNION {W(i) : i \in 1..k}
  BY DEF Made
<1> HIDE DEF W, Seeds
<1>3. \A k \in 0..16 : \A artifact :
          artifact \in Made(k) <=> artifact \in Seeds \/ \E i \in 1..k : artifact \in W(i)
  BY <1>2
<1>4. \A artifact \in Made(16) : Maker(artifact) \in 0..16
  BY <1>1, <1>3
<1>5. \A k \in 0..16 : \A artifact :
          artifact \in Made(k) <=> artifact \in Made(16) /\ Maker(artifact) <= k
  <2> TAKE k \in 0..16
  <2> TAKE artifact
  <2>1. ASSUME artifact \in Made(k)
        PROVE  artifact \in Made(16) /\ Maker(artifact) <= k
    BY <1>1, <1>3, <2>1
  <2>2. ASSUME artifact \in Made(16), Maker(artifact) <= k
        PROVE  artifact \in Made(k)
    <3>1. CASE artifact \in Seeds
      BY <1>3, <3>1
    <3>2. CASE \E i \in 1..16 : artifact \in W(i)
      <4>1. PICK i \in 1..16 : artifact \in W(i)
        BY <3>2
      <4>2. i <= k
        BY <1>1, <2>2, <4>1
      <4>3. QED
        BY <1>3, <4>1, <4>2
    <3>3. QED
      BY <1>3, <2>2, <3>1, <3>2
  <2>3. QED
    BY <2>1, <2>2
<1>6. \A i \in 1..16 : Made(i) = Made(i - 1) \cup W(i)
  <2> TAKE i \in 1..16
  <2>1. i - 1 \in 0..16 /\ 1..i = (1..(i - 1)) \cup {i}
    OBVIOUS
  <2>2. QED
    BY <1>3, <2>1
<1>7. \A i \in 1..16 : W(i) \cap Made(i - 1) = {}
  <2> TAKE i \in 1..16
  <2>1. i - 1 \in 0..16
    OBVIOUS
  <2>2. QED
    BY <1>1, <1>5, <2>1
<1>8. Made(0) = Seeds
  BY <1>3
<1>9. QED
  BY <1>4, <1>5, <1>6, <1>7, <1>8 DEF W, Seeds

\* What a stage uses is made before it, and the window policy before the only
\* stage that reads other settings without it.
LEMMA NeedsAreMade ==
    ASSUME NEW i \in 1..16
    PROVE  /\ FitStage(i).reads \cup FitStage(i).optional \subseteq Made(i - 1)
           /\ FitStage(i).fallbackKnobs # {} => "window_policy_profile" \in Made(i - 1)
<1> DEFINE Needs(j, stage) ==
              /\ \A artifact \in stage.reads \cup stage.optional :
                    artifact \in Made(16) /\ Maker(artifact) < j
              /\ stage.fallbackKnobs # {} => 6 < j
<1>1. {"raw_input", "phase_labels", "raw_telemetry", "parameter_datatype_profile",
       "continuous_scaling_profile", "parameter_behavior_profile", "parameter_event_profile",
       "events", "window_policy_profile", "windows", "window_features", "backbone",
       "fused_graph", "lag_graph", "graph_parameter_universe", "hierarchy_sensor_map",
       "phase_windows", "phase_baselines", "window_scores_raw", "window_scores_calibrated",
       "anomaly_window_attribution", "anomaly_telemetry_attribution",
       "anomaly_event_attribution"} \subseteq Made(16)
  BY WritesAre, MadeIs DEF Writes
<1>2. Needs(1, IngestRaw) /\ Needs(2, ParameterProfiles)
  BY <1>1 DEF IngestRaw, ParameterProfiles, Fit, Stage, Maker
<1>3. Needs(3, BehaviorProfiles) /\ Needs(4, EventProfiles)
  BY <1>1 DEF BehaviorProfiles, EventProfiles, Fit, Stage, Maker
<1>4. Needs(5, EventsExtract) /\ Needs(6, WindowPolicy)
  BY <1>1 DEF EventsExtract, WindowPolicy, Fit, Stage, Maker
<1>5. Needs(7, WindowsAdaptive)
  BY <1>1 DEF WindowsAdaptive, Stage, Maker
<1>6. Needs(8, BackboneFit)
  BY <1>1 DEF BackboneFit, Fit, Stage, Maker
<1>7. Needs(9, BuildGraph)
  BY <1>1 DEF BuildGraph, Fit, Stage, Maker
<1>8. Needs(10, FitHierarchy)
  BY <1>1 DEF FitHierarchy, Fit, Stage, Maker
<1>9. Needs(11, PhaseFit)
  BY <1>1 DEF PhaseFit, Stage, Maker
<1>10. Needs(12, PhaseLabelCentroids)
  BY <1>1 DEF PhaseLabelCentroids, Stage, Maker
<1>11. Needs(13, WindowScoresRaw) /\ Needs(14, WindowScoresCalibrate)
  BY <1>1 DEF WindowScoresRaw, WindowScoresCalibrate, Stage, Maker
<1>12. Needs(15, AnomalyAttribution)
  BY <1>1 DEF AnomalyAttribution, Stage, Maker
<1>13. Needs(16, EmitExplorerBundle)
  BY <1>1 DEF EmitExplorerBundle, Stage, Maker
<1> HIDE DEF Needs
<1>14. Needs(i, FitStage(i))
  <2>1. i \in {1, 2, 3, 4, 5, 6, 7, 8, 9, 10, 11, 12, 13, 14, 15, 16}
    OBVIOUS
  <2>2. i \in 1..8 => Needs(i, FitStage(i))
    BY <1>2, <1>3, <1>4, <1>5, <1>6, <2>1, FitStagesAre
  <2>3. i \in 9..16 => Needs(i, FitStage(i))
    BY <1>7, <1>8, <1>9, <1>10, <1>11, <1>12, <1>13, <2>1, FitStagesAre
  <2>4. QED
    BY <2>2, <2>3
<1>15. Maker("window_policy_profile") = 6
  BY DEF Maker
<1>16. i - 1 \in 0..16
  OBVIOUS
<1>17. \A artifact \in Made(16) : Maker(artifact) < i => artifact \in Made(i - 1)
  BY <1>16, MadeIs
<1>18. QED
  BY <1>1, <1>14, <1>15, <1>17 DEF Needs

\* Tables after each stage of the full plan, all with the same settings.
Line(changed, r) ==
    /\ r[0] = Seeded(NoTables, "nominal", Len(SeedTables("nominal")))
    /\ \A i \in 1..16 : r[i] = FitInto(changed, r[i - 1], FullPlan[i])

Whole(changed) == CHOOSE r : Line(changed, r)

\* There are such tables, with any settings.
LEMMA LineExists ==
    ASSUME NEW changed
    PROVE  Line(changed, Whole(changed))
<1> DEFINE base == Seeded(NoTables, "nominal", Len(SeedTables("nominal")))
<1>1. FullPlan \in Seq(Scripts) /\ Len(FullPlan) = 16
  BY ScriptsAre DEF FullPlan
<1>2. \E r : Folding!Runs(changed, base, FullPlan, r)
  BY <1>1, Folding!FoldRuns
<1>3. \E r : Line(changed, r)
  BY <1>1, <1>2 DEF Folding!Runs, Line
<1>4. QED
  BY <1>3 DEF Whole

\* What overwrites a table is what the stage computes.
LEMMA OverwritingIs ==
    ASSUME NEW ts, NEW after, NEW stage, NEW made, NEW count,
           Ran(ts, after, stage, made, count, "overwrite")
    PROVE  \A artifact \in Written(stage, count) : after[artifact] = made
<1>1. WriteModeOf(stage, "overwrite") = "overwrite"
  BY DEF WriteModeOf
<1>2. \A artifact : WriteTable(artifact, ts, made, "overwrite") = made
  BY DEF WriteTable
<1>3. QED
  BY <1>1, <1>2 DEF Ran

\* The tables after stage i of the full plan.
Fits(i, ts, after, changed) ==
    /\ after = [artifact \in DOMAIN after |-> after[artifact]]
    /\ DOMAIN after = DOMAIN ts \cup ToSet(FitStage(i).writes)
    /\ \A artifact \in ToSet(FitStage(i).writes) :
          after[artifact] = Computed(FullPlan[i], FitStage(i), ts, changed)
    /\ \A artifact \in DOMAIN ts \ ToSet(FitStage(i).writes) : after[artifact] = ts[artifact]

\* A stage that fits overwrites what it writes and changes no other table.
LEMMA FitIntoIs ==
    ASSUME NEW i \in 1..16, NEW ts, NEW changed
    PROVE  Fits(i, ts, FitInto(changed, ts, FullPlan[i]), changed)
<1>1. PICK script \in Scripts : script = FullPlan[i]
  <2>1. FullPlan \in Seq(Scripts) /\ Len(FullPlan) = 16
    BY ScriptsAre DEF FullPlan
  <2>2. PICK plan : plan = FullPlan
    OBVIOUS
  <2>3. plan \in Seq(Scripts) /\ i \in 1..Len(plan)
    BY <2>1, <2>2
  <2>4. plan[i] \in Scripts
    BY <2>3
  <2>5. QED
    BY <2>2, <2>4
<1>2. PICK stage : stage = FitStage(i)
  OBVIOUS
<1>3. stage = StageScript(script, "fit") /\ "fit" \in PhaseModes
  BY <1>1, <1>2 DEF FitStage, PhaseModes
<1>4. PICK n : n = Len(stage.writes)
  OBVIOUS
<1>5. n \in Nat
  <2>1. stage.writes \in Seq(Artifacts)
    BY <1>3, WritesAreArtifacts
  <2>2. QED
    BY <1>4, <2>1
<1>6. Ran(ts, StageRun(script, "fit", ts, changed, n, "overwrite"), stage,
          Computed(script, stage, ts, changed), n, "overwrite")
  BY <1>3, <1>4, <1>5, StageRunIs
<1>7. PICK after : after = StageRun(script, "fit", ts, changed, n, "overwrite")
  OBVIOUS
<1>8. PICK made : made = Computed(script, stage, ts, changed)
  OBVIOUS
<1>9. Ran(ts, after, stage, made, n, "overwrite")
  BY <1>6, <1>7, <1>8
<1>10. Written(stage, n) = ToSet(stage.writes)
  BY <1>3, <1>4, <1>5, WrittenIs
<1>11. \A artifact \in ToSet(stage.writes) : after[artifact] = made
  BY <1>9, <1>10, OverwritingIs
<1>12. after = FitInto(changed, ts, FullPlan[i])
  BY <1>1, <1>3, <1>4, <1>7 DEF FitInto
<1>13. Fits(i, ts, after, changed)
  BY <1>1, <1>2, <1>8, <1>9, <1>10, <1>11 DEF Ran, Fits
<1>14. QED
  BY <1>12, <1>13

\* Every table is made once and then kept.
LEMMA WholeIs ==
    ASSUME NEW changed, NEW r, r = Whole(changed)
    PROVE  /\ \A k \in 0..16 : DOMAIN r[k] = Made(k)
           /\ \A artifact \in Made(0) : r[0][artifact] = SeedTable("nominal")
           /\ \A k \in 1..16 : \A artifact \in ToSet(FitStage(k).writes) :
                 r[k][artifact] = Computed(FullPlan[k], FitStage(k), r[k - 1], changed)
           /\ \A k \in 0..16 : \A artifact \in Made(k) : r[16][artifact] = r[k][artifact]
<1>1. Line(changed, r)
  BY LineExists
<1>2. DOMAIN r[0] = Made(0) /\ \A artifact \in Made(0) : r[0][artifact] = SeedTable("nominal")
  <2> DEFINE s == SeedTables("nominal")
  <2>1. s \in Seq(Artifacts) /\ "nominal" \in Flights
    BY SeedsAre DEF Flights
  <2>2. SeedNames("nominal", Len(s)) = ToSet(s) /\ Len(s) \in 0..Len(s)
    <3>1. SeedNames("nominal", Len(s)) = {s[j] : j \in 1..Len(s)}
      BY DEF SeedNames
    <3> HIDE DEF s
    <3>2. QED
      BY <2>1, <3>1 DEF ToSet
  <2>3. DOMAIN NoTables = {}
    BY DEF NoTables
  <2>4. SeededBy(NoTables, r[0], "nominal", Len(s))
    BY <1>1, <2>1, <2>2, SeededIs DEF Line
  <2> HIDE DEF s
  <2>5. Made(0) = ToSet(s)
    BY MadeIs DEF s
  <2>6. QED
    BY <2>2, <2>3, <2>4, <2>5 DEF SeededBy
<1>3. ASSUME NEW k \in 1..16
      PROVE  /\ DOMAIN r[k] = DOMAIN r[k - 1] \cup ToSet(FitStage(k).writes)
             /\ \A artifact \in ToSet(FitStage(k).writes) :
                   r[k][artifact] = Computed(FullPlan[k], FitStage(k), r[k - 1], changed)
             /\ \A artifact \in DOMAIN r[k - 1] \ ToSet(FitStage(k).writes) :
                   r[k][artifact] = r[k - 1][artifact]
  <2>1. r[k] = FitInto(changed, r[k - 1], FullPlan[k])
    BY <1>1 DEF Line
  <2>2. Fits(k, r[k - 1], r[k], changed)
    BY <2>1, FitIntoIs
  <2>3. QED
    BY <2>2 DEF Fits
<1>4. \A k \in 0..16 : DOMAIN r[k] = Made(k)
  <2> DEFINE T == {k \in Nat : k \in 0..16 => DOMAIN r[k] = Made(k)}
  <2>1. 0 \in T
    BY <1>2
  <2>2. ASSUME NEW k \in Nat, k \in T
        PROVE  k + 1 \in T
    <3>1. CASE k + 1 \in 0..16
      <4>1. PICK j \in 1..16 : j = k + 1
        BY <3>1
      <4>2. DOMAIN r[j - 1] = Made(j - 1)
        BY <2>2, <4>1
      <4>3. DOMAIN r[j] = Made(j)
        BY <1>3, <4>2, MadeIs
      <4>4. QED
        BY <4>1, <4>3
    <3>2. QED
      BY <3>1
  <2>3. Nat \subseteq T
    <3> HIDE DEF T
    <3>1. QED
      BY <2>1, <2>2, Numbers!Induction
  <2>4. QED
    BY <2>3
<1>5. \A k \in 1..16 : \A artifact \in Made(k - 1) : r[k][artifact] = r[k - 1][artifact]
  <2> TAKE k \in 1..16
  <2>1. Made(k - 1) \cap ToSet(FitStage(k).writes) = {}
    BY MadeIs
  <2>2. k - 1 \in 0..16
    OBVIOUS
  <2>3. QED
    BY <1>3, <1>4, <2>1, <2>2
<1>6. \A k \in 0..16 : \A artifact \in Made(k) : r[16][artifact] = r[k][artifact]
  <2> DEFINE T == {n \in Nat : n \in 0..16 =>
                      \A artifact \in Made(16 - n) : r[16][artifact] = r[16 - n][artifact]}
  <2>1. 0 \in T
    OBVIOUS
  <2>2. ASSUME NEW n \in Nat, n \in T
        PROVE  n + 1 \in T
    <3>1. CASE n + 1 \in 0..16
      <4>1. PICK k \in 1..16 : k = 16 - n
        BY <3>1
      <4>2. k - 1 = 16 - (n + 1)
        BY <4>1
      <4>3. \A artifact \in Made(k) : r[16][artifact] = r[k][artifact]
        BY <2>2, <3>1, <4>1
      <4>4. Made(k - 1) \subseteq Made(k)
        BY MadeIs
      <4>5. \A artifact \in Made(k - 1) : r[16][artifact] = r[k - 1][artifact]
        BY <1>5, <4>3, <4>4
      <4>6. QED
        BY <4>2, <4>5
    <3>2. QED
      BY <3>1
  <2>3. Nat \subseteq T
    <3> HIDE DEF T
    <3>1. QED
      BY <2>1, <2>2, Numbers!Induction
  <2>4. ASSUME NEW k \in 0..16
        PROVE  \A artifact \in Made(k) : r[16][artifact] = r[k][artifact]
    <3>1. PICK n \in 0..16 : n = 16 - k /\ k = 16 - n
      OBVIOUS
    <3>2. n \in T
      BY <2>3
    <3>3. QED
      BY <3>1, <3>2
  <2>5. QED
    BY <2>4
<1>7. QED
  BY <1>2, <1>3, <1>4, <1>6

FitModes == {"profile", "event", "structural", "full"}

\* The plans of the modes that fit are the first stages of the full plan.
LEMMA PlansArePrefixes ==
    /\ \A i \in 1..16 : FullPlan[i] \in Scripts
    /\ \A i, j \in 1..16 : FullPlan[i] = FullPlan[j] => i = j
    /\ FullPlan[1] = "00"
    /\ FitModes \subseteq DOMAIN Plan
    /\ \A mode \in FitModes :
          /\ Plan[mode] \in Seq(Scripts) /\ Len(Plan[mode]) \in 1..16
          /\ \A i \in 1..Len(Plan[mode]) : Plan[mode][i] = FullPlan[i]
<1>1. FullPlan \in Seq(Scripts) /\ Len(FullPlan) = 16
  BY ScriptsAre DEF FullPlan
<1>2. \A i \in 1..16 : FullPlan[i] \in Scripts
  <2>1. PICK plan : plan = FullPlan
    OBVIOUS
  <2>2. plan \in Seq(Scripts) /\ \A i \in 1..16 : i \in 1..Len(plan)
    BY <1>1, <2>1
  <2>3. \A i \in 1..16 : plan[i] \in Scripts
    BY <2>2
  <2>4. QED
    BY <2>1, <2>3
<1>3. /\ FullPlan[1] = "00" /\ FullPlan[2] = "10" /\ FullPlan[3] = "12" /\ FullPlan[4] = "15"
      /\ FullPlan[5] = "20" /\ FullPlan[6] = "25" /\ FullPlan[7] = "30" /\ FullPlan[8] = "40"
      /\ FullPlan[9] = "50" /\ FullPlan[10] = "60" /\ FullPlan[11] = "70" /\ FullPlan[12] = "72"
      /\ FullPlan[13] = "80" /\ FullPlan[14] = "85" /\ FullPlan[15] = "90" /\ FullPlan[16] = "95"
  BY DEF FullPlan
<1>4. \A i, j \in 1..16 : FullPlan[i] = FullPlan[j] => i = j
  <2> DEFINE Is(i, script) == \A j \in 1..16 : FullPlan[j] = script => j = i
  <2>1. \A j \in 1..16 : j \in {1, 2, 3, 4, 5, 6, 7, 8, 9, 10, 11, 12, 13, 14, 15, 16}
    OBVIOUS
  <2>2. Is(1, "00") /\ Is(2, "10") /\ Is(3, "12") /\ Is(4, "15")
    BY <1>3, <2>1
  <2>3. Is(5, "20") /\ Is(6, "25") /\ Is(7, "30") /\ Is(8, "40")
    BY <1>3, <2>1
  <2>4. Is(9, "50") /\ Is(10, "60") /\ Is(11, "70") /\ Is(12, "72")
    BY <1>3, <2>1
  <2>5. Is(13, "80") /\ Is(14, "85") /\ Is(15, "90") /\ Is(16, "95")
    BY <1>3, <2>1
  <2> HIDE DEF Is
  <2>6. \A i \in 1..16 : Is(i, FullPlan[i])
    BY <1>3, <2>1, <2>2, <2>3, <2>4, <2>5
  <2>7. QED
    BY <2>6 DEF Is
<1>5. FitModes \subseteq DOMAIN Plan
  BY DEF FitModes, Plan
<1>6. /\ Len(ProfilePlan) = 4
      /\ ProfilePlan[1] = "00" /\ ProfilePlan[2] = "10"
      /\ ProfilePlan[3] = "12" /\ ProfilePlan[4] = "15"
  BY DEF ProfilePlan
<1>7. /\ Len(EventPlan) = 5
      /\ EventPlan[1] = "00" /\ EventPlan[2] = "10"
      /\ EventPlan[3] = "12" /\ EventPlan[4] = "15" /\ EventPlan[5] = "20"
  BY DEF EventPlan
<1>8. /\ Len(StructuralPlan) = 10
      /\ StructuralPlan[1] = "00" /\ StructuralPlan[2] = "10" /\ StructuralPlan[3] = "12"
      /\ StructuralPlan[4] = "15" /\ StructuralPlan[5] = "20" /\ StructuralPlan[6] = "25"
      /\ StructuralPlan[7] = "30" /\ StructuralPlan[8] = "40" /\ StructuralPlan[9] = "50"
      /\ StructuralPlan[10] = "60"
  BY DEF StructuralPlan
<1>9. /\ \A i \in 1..4 : ProfilePlan[i] = FullPlan[i]
      /\ \A i \in 1..5 : EventPlan[i] = FullPlan[i]
      /\ \A i \in 1..10 : StructuralPlan[i] = FullPlan[i]
  <2>1. /\ \A i \in 1..4 : i \in {1, 2, 3, 4}
        /\ \A i \in 1..5 : i \in {1, 2, 3, 4, 5}
        /\ \A i \in 1..10 : i \in {1, 2, 3, 4, 5, 6, 7, 8, 9, 10}
    OBVIOUS
  <2>2. \A i \in 1..4 : ProfilePlan[i] = FullPlan[i]
    BY <1>3, <1>6, <2>1
  <2>3. \A i \in 1..5 : EventPlan[i] = FullPlan[i]
    BY <1>3, <1>7, <2>1
  <2>4. \A i \in 1..10 : StructuralPlan[i] = FullPlan[i]
    BY <1>3, <1>8, <2>1
  <2>5. QED
    BY <2>2, <2>3, <2>4
<1>10. /\ Plan["profile"] = ProfilePlan /\ Plan["event"] = EventPlan
       /\ Plan["structural"] = StructuralPlan /\ Plan["full"] = FullPlan
  BY DEF Plan
<1>11. ASSUME NEW mode \in FitModes
       PROVE  /\ Plan[mode] \in Seq(Scripts) /\ Len(Plan[mode]) \in 1..16
              /\ \A i \in 1..Len(Plan[mode]) : Plan[mode][i] = FullPlan[i]
  <2>1. Plan[mode] \in Seq(Scripts)
    BY <1>5, ScriptsAre
  <2>2. Len(Plan[mode]) \in 1..16 /\ \A i \in 1..Len(Plan[mode]) : Plan[mode][i] = FullPlan[i]
    <3>1. Len(ProfilePlan) = 4 /\ Len(EventPlan) = 5 /\ Len(StructuralPlan) = 10
      BY <1>6, <1>7, <1>8
    <3>2. CASE mode = "profile"
      BY <1>9, <1>10, <3>1, <3>2
    <3>3. CASE mode = "event"
      BY <1>9, <1>10, <3>1, <3>3
    <3>4. CASE mode = "structural"
      <4>1. Plan[mode] = StructuralPlan
        BY <1>10, <3>4
      <4>2. Len(Plan[mode]) = 10 /\ \A i \in 1..10 : Plan[mode][i] = FullPlan[i]
        BY <1>9, <3>1, <4>1
      <4>3. QED
        BY <4>2
    <3>5. CASE mode = "full"
      BY <1>1, <1>10, <3>5
    <3>6. QED
      BY <3>2, <3>3, <3>4, <3>5 DEF FitModes
  <2>3. QED
    BY <2>1, <2>2
<1>12. QED
  BY <1>2, <1>3, <1>4, <1>5, <1>11

\* What a fresh run up to a stage makes are the first tables of a whole run.
LEMMA FreshIs ==
    ASSUME NEW mode \in FitModes, NEW last, NEW changed, NEW e,
           e = EndIndex(Plan[mode], last), e \in 1..Len(Plan[mode])
    PROVE  /\ FreshTables(mode, last, "nominal", changed) = Whole(changed)[e]
           /\ e \in 1..16
<1> DEFINE base == Seeded(NoTables, "nominal", Len(SeedTables("nominal")))
<1>1. PICK plan : plan = Plan[mode]
  OBVIOUS
<1>2. /\ plan \in Seq(Scripts) /\ Len(plan) \in 1..16
      /\ \A i \in 1..Len(plan) : plan[i] = FullPlan[i]
  BY <1>1, PlansArePrefixes
<1>3. e \in 1..Len(plan) /\ e \in 1..16
  BY <1>1, <1>2
<1>4. PICK seq : seq = SubSeq(plan, 1, e)
  OBVIOUS
<1>5. /\ seq \in Seq(Scripts) /\ Len(seq) = e
      /\ \A i \in 1..e : seq[i] = plan[i]
  <2>1. e \in Nat /\ 1 <= e /\ e <= Len(plan) /\ Len(plan) \in Nat
    BY <1>2, <1>3
  <2>2. seq = [i \in 1..e |-> plan[i]]
    BY <1>2, <1>4, <2>1
  <2>3. \A i \in 1..e : plan[i] \in Scripts
    BY <1>2, <2>1
  <2>4. QED
    BY <2>1, <2>2, <2>3
<1>6. \A i \in 1..e : seq[i] = FullPlan[i]
  BY <1>2, <1>3, <1>5
<1>7. PICK f : Folding!Runs(changed, base, seq, f) /\ Folding!Fold(changed, base, seq) = f[Len(seq)]
  BY <1>5, Folding!FoldRuns
<1>8. FreshTables(mode, last, "nominal", changed) = f[e]
  <2>1. FreshTables(mode, last, "nominal", changed)
           = Folding!Fold(changed, base, SubSeq(Plan[mode], 1, EndIndex(Plan[mode], last)))
    BY DEF FreshTables, FoldLeft, MapThenFoldSet, Max, Folding!Fold, Folding!FoldLeft,
           Folding!MapThenFoldSet, Folding!Max
  <2> HIDE DEF base
  <2>2. SubSeq(Plan[mode], 1, EndIndex(Plan[mode], last)) = seq
    BY <1>1, <1>4
  <2>3. QED
    BY <1>5, <1>7, <2>1, <2>2
<1>9. PICK r : r = Whole(changed)
  OBVIOUS
<1>10. r[0] = base /\ \A i \in 1..16 : r[i] = FitInto(changed, r[i - 1], FullPlan[i])
  BY <1>9, LineExists DEF Line
<1>11. f[0] = base /\ \A i \in 1..e : f[i] = FitInto(changed, f[i - 1], FullPlan[i])
  BY <1>5, <1>6, <1>7 DEF Folding!Runs
<1> HIDE DEF base
<1>12. f[e] = r[e]
  <2> DEFINE T == {n \in Nat : n <= e => f[n] = r[n]}
  <2>1. 0 \in T
    BY <1>10, <1>11
  <2>2. ASSUME NEW n \in Nat, n \in T
        PROVE  n + 1 \in T
    <3>1. CASE n + 1 <= e
      <4>1. PICK i \in 1..e : i = n + 1 /\ i - 1 = n /\ i \in 1..16
        BY <1>3, <3>1
      <4>2. f[i - 1] = r[i - 1]
        BY <2>2, <3>1, <4>1
      <4>3. f[i] = r[i]
        BY <1>10, <1>11, <4>1, <4>2
      <4>4. QED
        BY <4>1, <4>3
    <3>2. QED
      BY <3>1
  <2>3. Nat \subseteq T
    <3> HIDE DEF T
    <3>1. QED
      BY <2>1, <2>2, Numbers!Induction
  <2>4. e \in T
    BY <1>3, <2>3
  <2>5. QED
    BY <1>3, <2>4
<1>13. QED
  BY <1>3, <1>8, <1>9, <1>12

\* Tables that are the same as far as a stage uses them, which are tables of S.
Alike(stage, ts, other, S) ==
    /\ stage.reads \cup stage.optional \subseteq S
    /\ S \subseteq DOMAIN ts /\ S \subseteq DOMAIN other
    /\ \A artifact \in S : ts[artifact] = other[artifact]

\* From such tables the stage computes the same.
LEMMA SameInputs ==
    ASSUME NEW script, NEW stage, NEW ts, NEW other, NEW S, Alike(stage, ts, other, S),
           NEW changed, NEW settings,
           changed \cap KnobsRead(stage, ts) = settings \cap KnobsRead(stage, other)
    PROVE  Computed(script, stage, ts, changed) = Computed(script, stage, other, settings)
<1>1. PICK inputs : inputs = InputsOf(stage, ts)
  OBVIOUS
<1>2. InputsOf(stage, other) = inputs /\ inputs \subseteq S
  BY <1>1 DEF InputsOf, Alike
<1>3. \A artifact \in inputs : ts[artifact] = other[artifact]
  BY <1>2 DEF Alike
<1>4. UNION {FlightsThrough(artifact, ts[artifact]) : artifact \in inputs}
         = UNION {FlightsThrough(artifact, other[artifact]) : artifact \in inputs}
  BY <1>3
<1>5. UNION {ts[artifact].steps : artifact \in inputs}
         = UNION {other[artifact].steps : artifact \in inputs}
  BY <1>3
<1>6. {ts[artifact].copies : artifact \in inputs} = {other[artifact].copies : artifact \in inputs}
  BY <1>3
<1>7. QED
  BY <1>1, <1>2, <1>4, <1>5, <1>6 DEF Computed

\* The first tables are those of a whole run with the settings.
Same(ts, k, changed) ==
    /\ Made(k) \subseteq DOMAIN ts
    /\ \A artifact \in Made(k) : ts[artifact] = Whole(changed)[16][artifact]

\* From the same tables a stage computes the same.
LEMMA SameComputes ==
    ASSUME NEW i \in 1..16, NEW ts, NEW changed, Same(ts, i - 1, changed)
    PROVE  \A artifact \in ToSet(FitStage(i).writes) :
              Whole(changed)[16][artifact] = Computed(FullPlan[i], FitStage(i), ts, changed)
<1>1. PICK r : r = Whole(changed)
  OBVIOUS
<1>2. /\ DOMAIN r[i - 1] = Made(i - 1)
      /\ \A artifact \in ToSet(FitStage(i).writes) :
             r[i][artifact] = Computed(FullPlan[i], FitStage(i), r[i - 1], changed)
      /\ \A artifact \in Made(i) : r[16][artifact] = r[i][artifact]
      /\ \A artifact \in Made(i - 1) : r[16][artifact] = r[i - 1][artifact]
  <2>1. i - 1 \in 0..16
    OBVIOUS
  <2>2. QED
    BY <1>1, <2>1, WholeIs
<1>3. PICK before : before = r[i - 1]
  OBVIOUS
<1>4. PICK S : S = Made(i - 1)
  OBVIOUS
<1>5. PICK stage : stage = FitStage(i)
  OBVIOUS
<1>6. /\ stage.reads \cup stage.optional \subseteq S
      /\ stage.fallbackKnobs # {} => "window_policy_profile" \in S
  BY <1>4, <1>5, NeedsAreMade
<1>7. S \subseteq DOMAIN ts /\ \A artifact \in S : ts[artifact] = r[16][artifact]
  BY <1>1, <1>4 DEF Same
<1>8. S \subseteq DOMAIN before /\ \A artifact \in S : ts[artifact] = before[artifact]
  BY <1>2, <1>3, <1>4, <1>7
<1>9. changed \cap KnobsRead(stage, ts) = changed \cap KnobsRead(stage, before)
  BY <1>6, <1>7, <1>8 DEF KnobsRead
<1>10. Computed(FullPlan[i], stage, ts, changed) = Computed(FullPlan[i], stage, before, changed)
  <2>1. Alike(stage, ts, before, S)
    BY <1>6, <1>7, <1>8 DEF Alike
  <2>2. QED
    BY <1>9, <2>1, SameInputs
<1>11. ToSet(FitStage(i).writes) \subseteq Made(i)
  BY MadeIs
<1>12. QED
  BY <1>1, <1>2, <1>3, <1>5, <1>10, <1>11

-----------------------------------------------------------------------------
(* A run that fits, in tables that are those of a whole run.                *)

Selectable == IsSelectable(Plan[run.config.mode], run.config.start, run.config.end)
FirstOf == StartIndex(Plan[run.config.mode], run.config.start)
LastOf == EndIndex(Plan[run.config.mode], run.config.end)

\* The stages done, and those before the first one.
Reached == FirstOf - 1 + Len(run.done)

\* The active run, or the last one, fits in dir with some settings.
Fitting(dir, changed) ==
    /\ phaseMode = "fit" /\ run.savedPhaseMode = "fit"
    /\ run.config.mode \in FitModes /\ run.config.dir = dir
    /\ run.config.changed = changed /\ run.config.flight = "nominal"

\* The tables that it has reached are those of a whole run.
Progress(dir, changed) ==
    /\ run.step = "stages" =>
          run.status = "running" /\ Selectable /\ Same(tables[dir], Reached, changed)
    /\ run.status = "success" => Selectable /\ Same(tables[dir], LastOf, changed)

\* The next stage is the one after those that the run has reached.
LEMMA NextIs ==
    ASSUME RunInv, run.step = "stages", run.config.mode \in FitModes, Selectable
    PROVE  /\ FirstOf \in 1..16 /\ Len(run.done) \in Nat
           /\ run.stages = <<>> => Reached = LastOf
           /\ run.stages # <<>> =>
                 Reached + 1 \in 1..16 /\ NextScript = FullPlan[Reached + 1]
<1>1. PICK plan : plan = Plan[run.config.mode]
  OBVIOUS
<1>2. PICK sel : sel = SelectedStageScripts(plan, run.config.start, run.config.end)
  OBVIOUS
<1>3. PICK first, last : first = FirstOf /\ last = LastOf
  OBVIOUS
<1>4. Selects(sel, plan, first, last)
  BY <1>1, <1>2, <1>3, SelectionIs, PlansArePrefixes DEF Selectable, FirstOf, LastOf
<1>5. /\ Len(plan) \in 1..16
      /\ \A i \in 1..Len(plan) : plan[i] = FullPlan[i]
  BY <1>1, PlansArePrefixes
<1>6. PICK done : done = run.done
  OBVIOUS
<1>7. PICK stages : stages = run.stages
  OBVIOUS
<1>8. /\ done \in Seq(Scripts) /\ stages \in Seq(Scripts) /\ sel = done \o stages
  BY <1>1, <1>2, <1>6, <1>7 DEF RunInv, RunTyped
<1>9. /\ first \in 1..Len(plan) /\ last \in first..Len(plan)
      /\ Len(sel) = last - first + 1
      /\ \A i \in 1..Len(sel) : sel[i] = plan[first + i - 1]
  BY <1>4 DEF Selects
<1>10. Len(sel) = Len(done) + Len(stages) /\ Len(done) \in Nat /\ Len(stages) \in Nat
  BY <1>8
<1>20. FirstOf \in 1..16 /\ Len(run.done) \in Nat
  <2>1. first \in 1..16
    <3>1. PICK n : n = Len(plan)
      OBVIOUS
    <3>2. first \in 1..n /\ n \in 1..16
      BY <1>5, <1>9, <3>1
    <3>3. QED
      BY <3>2
  <2>2. QED
    BY <1>3, <1>6, <1>10, <2>1
<1>11. CASE stages = <<>>
  <2>1. Len(stages) = 0
    BY <1>11
  <2>2. Reached = LastOf
    BY <1>3, <1>5, <1>6, <1>9, <1>10, <2>1 DEF Reached
  <2>3. QED
    BY <1>20, <1>7, <1>11, <2>2
<1>12. CASE stages # <<>>
  <2>1. Len(stages) > 0
    BY <1>8, <1>12
  <2>2. sel[Len(done) + 1] = Head(stages)
    BY <1>8, <1>10, <2>1
  <2>3. Len(done) + 1 \in 1..Len(sel) /\ first + (Len(done) + 1) - 1 = first - 1 + Len(done) + 1
    BY <1>5, <1>9, <1>10, <2>1
  <2>4. Head(stages) = plan[first - 1 + Len(done) + 1]
    BY <1>9, <2>2, <2>3
  <2>5. first - 1 + Len(done) + 1 \in 1..Len(plan)
    BY <1>5, <1>9, <1>10, <2>1
  <2>6. Reached + 1 \in 1..16 /\ NextScript = FullPlan[Reached + 1]
    BY <1>3, <1>5, <1>6, <1>7, <2>4, <2>5 DEF Reached, NextScript
  <2>7. QED
    BY <1>20, <1>7, <1>12, <2>6
<1>13. QED
  BY <1>11, <1>12

\* What the next stage, stage i of the full plan, makes of some tables.
Wrote(ts, after, i, changed) ==
    /\ DOMAIN ts \subseteq DOMAIN after
    /\ \A artifact \in DOMAIN after :
          \/ /\ artifact \in ToSet(FitStage(i).writes)
             /\ after[artifact] = Whole(changed)[16][artifact]
          \/ artifact \in DOMAIN ts /\ after[artifact] = ts[artifact]
    /\ Same(after, i - 1, changed)

\* A run of such a directory writes the next tables of the whole run.
LEMMA NextWrites ==
    ASSUME RunInv, WriteMode = "overwrite", NEW dir, NEW changed, Fitting(dir, changed),
           run.step = "stages", run.stages # <<>>, Progress(dir, changed),
           NEW count \in 0..Len(NextStage.writes), tables' = TablesAfter(count)
    PROVE  /\ Wrote(tables[dir], tables'[dir], Reached + 1, changed)
           /\ Reached + 1 \in 1..16
           /\ count = Len(NextStage.writes) => Same(tables'[dir], Reached + 1, changed)
<1>1. PICK i \in 1..16 : i = Reached + 1 /\ NextScript = FullPlan[i]
  BY NextIs DEF Fitting, Progress
<1>2. PICK stage : stage = FitStage(i)
  OBVIOUS
<1>3. NextStage = stage /\ NextScript \in Scripts
  BY <1>1, <1>2, NextStageIs DEF FitStage, NextStage, Fitting
<1>4. PICK ts, after : ts = tables[dir] /\ after = tables'[dir]
  OBVIOUS
<1>5. i - 1 = Reached /\ i - 1 \in 0..16
  <2>1. FirstOf \in 1..16 /\ Len(run.done) \in Nat
    BY NextIs DEF Fitting, Progress
  <2>2. Reached \in Nat
    BY <2>1 DEF Reached
  <2>3. QED
    BY <1>1, <2>2
<1>6. Same(ts, i - 1, changed)
  BY <1>4, <1>5 DEF Progress
<1>7. PICK made : made = Computed(FullPlan[i], stage, ts, changed)
  OBVIOUS
<1>8. Ran(ts, after, stage, made, count, "overwrite")
  <2>1. Ran(dirTables, tables'[run.config.dir], NextStage,
            Computed(NextScript, NextStage, dirTables, run.config.changed), count, WriteMode)
    BY TablesAfterIs
  <2>2. dirTables = ts /\ tables'[run.config.dir] = after /\ run.config.changed = changed
    BY <1>4 DEF dirTables, Fitting
  <2>3. QED
    BY <1>1, <1>3, <1>7, <2>1, <2>2
<1>9. /\ Written(stage, count) \subseteq ToSet(stage.writes)
      /\ Written(stage, Len(stage.writes)) = ToSet(stage.writes)
  BY <1>3, NextStageIs, WrittenIs
<1>10. \A artifact \in Written(stage, count) : after[artifact] = made
  BY <1>8, OverwritingIs
<1>11. \A artifact \in ToSet(stage.writes) : Whole(changed)[16][artifact] = made
  BY <1>2, <1>6, <1>7, SameComputes
<1>12. DOMAIN after = DOMAIN ts \cup Written(stage, count)
  BY <1>8 DEF Ran
<1>13. \A artifact \in DOMAIN ts \ Written(stage, count) : after[artifact] = ts[artifact]
  BY <1>8 DEF Ran
<1>14. ToSet(stage.writes) \cap Made(i - 1) = {} /\ Made(i) = Made(i - 1) \cup ToSet(stage.writes)
  BY <1>2, MadeIs
<1>15. Same(after, i - 1, changed)
  BY <1>6, <1>9, <1>12, <1>13, <1>14 DEF Same
<1>16. Wrote(ts, after, i, changed)
  BY <1>2, <1>9, <1>10, <1>11, <1>12, <1>13, <1>15 DEF Wrote
<1>17. ASSUME count = Len(NextStage.writes)
       PROVE  Same(after, i, changed)
  <2>1. Written(stage, count) = ToSet(stage.writes)
    BY <1>3, <1>9, <1>17
  <2>2. QED
    BY <1>10, <1>11, <1>12, <1>14, <1>15, <2>1 DEF Same
<1>18. QED
  BY <1>1, <1>4, <1>16, <1>17

\* A step of the run goes on in the same way.
LEMMA StepProgress ==
    ASSUME RunInv, RunStep, WriteMode = "overwrite", NEW dir, NEW changed,
           Fitting(dir, changed), Progress(dir, changed)
    PROVE  Fitting(dir, changed)' /\ Progress(dir, changed)'
<1>1. RunInv' /\ run'.config = run.config
  BY RunStepTyped
<1>2. CASE RunStage
  <2>1. /\ run.step = "stages" /\ run.stages # <<>> /\ phaseMode' = phaseMode
        /\ tables' = TablesAfter(Len(NextStage.writes))
    BY <1>2 DEF RunStage
  <2>2. /\ run'.step = run.step /\ run'.status = run.status
        /\ run'.savedPhaseMode = run.savedPhaseMode
        /\ run'.done = Append(run.done, NextScript)
    BY <1>2, RunStageTyped DEF RunInv, RunTyped
  <2>3. Len(NextStage.writes) \in 0..Len(NextStage.writes)
    BY <2>1, NextStageIs
  <2>4. Same(tables'[dir], Reached + 1, changed)
    BY <2>1, <2>3, NextWrites
  <2>5. Reached' = Reached + 1
    <3>1. Len(run'.done) = Len(run.done) + 1 /\ Len(run.done) \in Nat
      BY <2>1, <2>2, NextStageIs DEF RunInv, RunTyped
    <3>2. FirstOf' = FirstOf /\ FirstOf \in 1..16
      BY <1>1, <2>1, NextIs DEF FirstOf, Fitting, Progress
    <3>3. QED
      BY <3>1, <3>2 DEF Reached
  <2>6. Selectable' /\ run'.status = "running"
    BY <1>1, <2>1, <2>2 DEF Progress, Selectable
  <2>7. Progress(dir, changed)'
    BY <2>4, <2>5, <2>6 DEF Progress
  <2>8. QED
    BY <1>1, <2>1, <2>2, <2>7 DEF Fitting
<1>3. CASE StageFails
  <2>1. /\ run'.step = "reports" /\ run'.status = "failed"
        /\ run'.savedPhaseMode = run.savedPhaseMode /\ phaseMode' = phaseMode
    BY <1>3 DEF StageFails, RunInv, RunTyped
  <2>2. QED
    BY <1>1, <2>1 DEF Fitting, Progress
<1>4. CASE EndStages
  <2>1. /\ run'.step = "reports" /\ run.step = "stages" /\ run.stages = <<>>
        /\ run'.savedPhaseMode = run.savedPhaseMode /\ phaseMode' = phaseMode
        /\ tables' = tables
    BY <1>4 DEF EndStages, RunInv, RunTyped
  <2>2. Selectable /\ Same(tables[dir], LastOf, changed)
    BY <2>1, NextIs DEF Fitting, Progress
  <2>3. Selectable' /\ LastOf' = LastOf
    BY <1>1, <2>2 DEF Selectable, LastOf
  <2>4. Same(tables[dir], LastOf, changed)'
    BY <2>1, <2>2, <2>3 DEF Same
  <2>5. Progress(dir, changed)'
    BY <2>1, <2>3, <2>4 DEF Progress
  <2>6. QED
    BY <1>1, <2>1, <2>5 DEF Fitting
<1>5. CASE Finish
  <2>1. /\ run'.step = "idle" /\ run'.status \in {run.status, "failed"} /\ tables' = tables
        /\ run'.savedPhaseMode = run.savedPhaseMode
        /\ phaseMode' \in {phaseMode, run.savedPhaseMode}
    BY <1>5 DEF Finish, RunInv, RunTyped
  <2>2. (Selectable' <=> Selectable) /\ LastOf' = LastOf
    BY <1>1 DEF Selectable, LastOf
  <2>3. Same(tables[dir], LastOf, changed)' <=> Same(tables[dir], LastOf, changed)
    BY <2>1, <2>2 DEF Same
  <2>4. Progress(dir, changed)'
    BY <2>1, <2>2, <2>3 DEF Progress
  <2>5. QED
    BY <1>1, <2>1, <2>4 DEF Fitting
<1>6. QED
  BY <1>2, <1>3, <1>4, <1>5 DEF RunStep

\* Whatever is in the directory is as in a whole run, and a stage that has left a
\* manifest has left all its tables and those of the stages before it.
Faithful(dir) ==
    /\ \A artifact \in DOMAIN tables[dir] :
          artifact \in Made(16) /\ tables[dir][artifact] = Whole({})[16][artifact]
    /\ \A i \in 1..16 :
          FullPlan[i] \in DOMAIN manifests[dir] => Made(i) \subseteq DOMAIN tables[dir]

\* A step of a run with the settings of the directory keeps it so.
LEMMA StepFaithful ==
    ASSUME RunInv, RunStep, WriteMode = "overwrite", NEW dir \in Dirs,
           Fitting(dir, {}), Progress(dir, {}), Faithful(dir)
    PROVE  Faithful(dir)'
<1>1. ASSUME NEW count \in 0..Len(NextStage.writes), tables' = TablesAfter(count),
             run.step = "stages", run.stages # <<>>
      PROVE  /\ \A artifact \in DOMAIN tables'[dir] :
                   artifact \in Made(16) /\ tables'[dir][artifact] = Whole({})[16][artifact]
             /\ DOMAIN tables[dir] \subseteq DOMAIN tables'[dir]
  <2>1. PICK i \in 1..16 : i = Reached + 1 /\ Wrote(tables[dir], tables'[dir], i, {})
    BY <1>1, NextWrites
  <2>2. ToSet(FitStage(i).writes) \subseteq Made(16)
    <3>1. Made(i) = Made(i - 1) \cup ToSet(FitStage(i).writes)
      BY MadeIs
    <3>2. i \in 0..16 /\ \A artifact \in Made(i) : artifact \in Made(16)
      BY MadeIs
    <3>3. QED
      BY <3>1, <3>2
  <2>3. QED
    BY <2>1, <2>2 DEF Wrote, Faithful
<1>2. CASE RunStage
  <2>1. /\ run.step = "stages" /\ run.stages # <<>>
        /\ tables' = TablesAfter(Len(NextStage.writes))
        /\ manifests' = WithManifest(NextScript, Manifest(run.config.dir, NextStage))
    BY <1>2 DEF RunStage
  <2>2. Len(NextStage.writes) \in 0..Len(NextStage.writes)
    BY <2>1, NextStageIs
  <2>3. PICK i \in 1..16 : i = Reached + 1 /\ NextScript = FullPlan[i]
    BY <2>1, NextIs DEF Fitting, Progress
  <2>4. Same(tables'[dir], i, {})
    BY <2>1, <2>2, <2>3, NextWrites
  <2>5. DOMAIN manifests'[dir] = DOMAIN manifests[dir] \cup {FullPlan[i]}
    <3>1. manifests'[dir] = Replacing(manifests[dir],
                               [s \in {NextScript} |-> Manifest(dir, NextStage)])
      BY <2>1 DEF WithManifest, RunInv, NotesTyped, Fitting
    <3>2. QED
      BY <2>3, <3>1 DEF Replacing
  <2>6. DOMAIN tables[dir] \subseteq DOMAIN tables'[dir]
    BY <1>1, <2>1, <2>2
  <2>7. ASSUME NEW j \in 1..16, FullPlan[j] \in DOMAIN manifests'[dir]
        PROVE  Made(j) \subseteq DOMAIN tables'[dir]
    <3>1. CASE FullPlan[j] = FullPlan[i]
      <4>1. j = i
        BY <3>1, PlansArePrefixes
      <4>2. QED
        BY <2>4, <4>1 DEF Same
    <3>2. CASE FullPlan[j] \in DOMAIN manifests[dir]
      <4>1. Made(j) \subseteq DOMAIN tables[dir]
        BY <3>2 DEF Faithful
      <4>2. QED
        BY <2>6, <4>1
    <3>3. QED
      BY <2>5, <2>7, <3>1, <3>2
  <2>8. \A artifact \in DOMAIN tables'[dir] :
            artifact \in Made(16) /\ tables'[dir][artifact] = Whole({})[16][artifact]
    BY <1>1, <2>1, <2>2
  <2>9. QED
    BY <2>7, <2>8 DEF Faithful
<1>3. CASE StageFails
  <2>1. /\ run.step = "stages" /\ run.stages # <<>> /\ manifests' = manifests
        /\ \/ tables' = tables
           \/ \E count \in 0..Len(NextStage.writes) : tables' = TablesAfter(count)
    BY <1>3 DEF StageFails
  <2>2. /\ \A artifact \in DOMAIN tables'[dir] :
              artifact \in Made(16) /\ tables'[dir][artifact] = Whole({})[16][artifact]
        /\ DOMAIN tables[dir] \subseteq DOMAIN tables'[dir]
    <3>1. CASE tables' = tables
      BY <3>1 DEF Faithful
    <3>2. QED
      BY <1>1, <2>1, <3>1
  <2>3. QED
    BY <2>1, <2>2 DEF Faithful
<1>4. CASE EndStages \/ Finish
  BY <1>4 DEF EndStages, Finish, Faithful
<1>5. QED
  BY <1>2, <1>3, <1>4 DEF RunStep

\* The seeds of the nominal flight are the first tables of every whole run.
LEMMA SeedNamesAre ==
    /\ SeedNames("nominal", Len(SeedTables("nominal"))) = Made(0)
    /\ \A count \in 0..Len(SeedTables("nominal")) : SeedNames("nominal", count) \subseteq Made(0)
    /\ \A changed : \A artifact \in Made(0) : Whole(changed)[16][artifact] = SeedTable("nominal")
    /\ Len(SeedTables("nominal")) \in Nat
    /\ Made(0) \subseteq Made(16)
<1>1. PICK s : s = SeedTables("nominal")
  OBVIOUS
<1>2. s \in Seq(Artifacts)
  BY <1>1, SeedsAre DEF Flights
<1>3. \A count : SeedNames("nominal", count) = {s[i] : i \in 1..count}
  BY <1>1 DEF SeedNames
<1>4. Made(0) = ToSet(s)
  BY <1>1, MadeIs
<1>5. DOMAIN s = 1..Len(s) /\ Len(s) \in Nat
  BY <1>2
<1>6. {s[i] : i \in 1..Len(s)} = ToSet(s)
  BY <1>5 DEF ToSet
<1>7. \A count \in 0..Len(s) : {s[i] : i \in 1..count} \subseteq ToSet(s)
  BY <1>5 DEF ToSet
<1>8. ASSUME NEW changed, NEW artifact \in Made(0)
      PROVE  Whole(changed)[16][artifact] = SeedTable("nominal")
  <2>1. 0 \in 0..16
    OBVIOUS
  <2>2. PICK r : r = Whole(changed)
    OBVIOUS
  <2>3. r[16][artifact] = r[0][artifact] /\ r[0][artifact] = SeedTable("nominal")
    BY <2>1, <2>2, WholeIs
  <2>4. QED
    BY <2>2, <2>3
<1>9. Made(0) \subseteq Made(16)
  BY MadeIs
<1>10. QED
  BY <1>1, <1>3, <1>4, <1>5, <1>6, <1>7, <1>8, <1>9

\* The tables of a directory when a run has begun in it: the first count seeds are
\* there, all of them when its stages follow and it starts with the first.
Sown(config, count) ==
    /\ tables' = [tables EXCEPT ![config.dir] = Seeded(@, config.flight, count)]
    /\ run'.step = "stages" =>
          count = IF ShouldWriteSeeds(config, SelectedStageScripts(Plan[config.mode],
                                                        config.start, config.end))
                  THEN Len(SeedTables(config.flight)) ELSE 0

\* A run begins with some of its seeds in the directory, or it fails before it
\* writes any.
LEMMA BeginSows ==
    ASSUME RunInv, NEW config, ConfigTyped(config), Begin(config)
    PROVE  \/ tables' = tables /\ run'.step = "reports" /\ run'.status = "failed"
              /\ phaseMode' = phaseMode
           \/ /\ ModeIsLegal(config) /\ phaseMode' = PhaseModeFor(config)
              /\ \E count \in 0..Len(SeedTables(config.flight)) : Sown(config, count)
              /\ \/ run'.step = "reports" /\ run'.status \in {"failed", "refused"}
                 \/ /\ run'.step = "stages" /\ run'.status = "running"
                    /\ ReplayIsAccepted(config, SelectedStageScripts(Plan[config.mode],
                                                    config.start, config.end))
<1>1. PICK stages : stages = SelectedStageScripts(Plan[config.mode], config.start, config.end)
  OBVIOUS
<1>2. PICK all : all = Len(SeedTables(config.flight))
  OBVIOUS
<1>3. all \in Nat
  BY <1>2, SeedsAre DEF ConfigTyped
<1>4. PICK seeds : seeds = IF ShouldWriteSeeds(config, stages) THEN all ELSE 0
  OBVIOUS
<1>5. seeds \in 0..all /\ \A count \in 0..seeds - 1 : count \in 0..all
  BY <1>3, <1>4
<1>6. CASE ~ModeIsLegal(config)
  <2>1. run' = Started(config, "reports", "failed", <<>>) /\ tables' = tables
        /\ phaseMode' = phaseMode
    BY <1>6 DEF Begin
  <2>2. run'.step = "reports" /\ run'.status = "failed"
    BY <2>1, StartedIs
  <2>3. QED
    BY <2>1, <2>2
<1>7. CASE ModeIsLegal(config)
  <2>1. phaseMode' = PhaseModeFor(config)
    BY <1>7 DEF Begin
  <2>2. \/ /\ tables' = [tables EXCEPT ![config.dir] = Seeded(@, config.flight, seeds)]
           /\ run' = IF ReplayIsAccepted(config, stages)
                     THEN Started(config, "stages", "running", stages)
                     ELSE Started(config, "reports", "refused", <<>>)
        \/ \E count \in 0..seeds - 1 :
              /\ tables' = [tables EXCEPT ![config.dir] = Seeded(@, config.flight, count)]
              /\ run' = Started(config, "reports", "failed", <<>>)
    BY <1>1, <1>2, <1>4, <1>7 DEF Begin
  <2>3. ASSUME NEW count \in 0..seeds - 1,
               tables' = [tables EXCEPT ![config.dir] = Seeded(@, config.flight, count)],
               run' = Started(config, "reports", "failed", <<>>)
        PROVE  /\ \E n \in 0..all : Sown(config, n)
               /\ run'.step = "reports" /\ run'.status = "failed"
    <3>1. run'.step = "reports" /\ run'.status = "failed"
      BY <2>3, StartedIs
    <3>2. count \in 0..all /\ Sown(config, count)
      BY <1>5, <2>3, <3>1 DEF Sown
    <3>3. QED
      BY <3>1, <3>2
  <2>4. ASSUME tables' = [tables EXCEPT ![config.dir] = Seeded(@, config.flight, seeds)]
        PROVE  \E n \in 0..all : Sown(config, n)
    <3>1. Sown(config, seeds)
      BY <1>1, <1>2, <1>4, <2>4 DEF Sown
    <3>2. QED
      BY <1>5, <3>1
  <2>5. ASSUME run' = IF ReplayIsAccepted(config, stages)
                      THEN Started(config, "stages", "running", stages)
                      ELSE Started(config, "reports", "refused", <<>>)
        PROVE  \/ run'.step = "reports" /\ run'.status = "refused"
               \/ /\ run'.step = "stages" /\ run'.status = "running"
                  /\ ReplayIsAccepted(config, stages)
    <3>1. CASE ReplayIsAccepted(config, stages)
      <4>1. run' = Started(config, "stages", "running", stages)
        BY <2>5, <3>1
      <4>2. QED
        BY <3>1, <4>1, StartedIs
    <3>2. CASE ~ReplayIsAccepted(config, stages)
      <4>1. run' = Started(config, "reports", "refused", <<>>)
        BY <2>5, <3>2
      <4>2. QED
        BY <4>1, StartedIs
    <3>3. QED
      BY <3>1, <3>2
  <2>6. QED
    BY <1>1, <1>2, <1>7, <2>1, <2>2, <2>3, <2>4, <2>5
<1>8. QED
  BY <1>6, <1>7

\* A fitting run begins with the tables that it needs when it starts with the first
\* stage or those before its first stage are there.
LEMMA BeginProgress ==
    ASSUME RunInv, NEW config, ConfigTyped(config), config.mode \in FitModes,
           config.flight = "nominal", phaseMode = "fit", Begin(config),
           NEW first, first = StartIndex(Plan[config.mode], config.start),
           NEW stages,
           stages = SelectedStageScripts(Plan[config.mode], config.start, config.end),
           ModeIsLegal(config) /\ first # 1 /\ ReplayIsAccepted(config, stages) =>
               Same(tables[config.dir], first - 1, config.changed)
    PROVE  Fitting(config.dir, config.changed)' /\ Progress(config.dir, config.changed)'
<1>1. /\ run'.config = config /\ RunInv'
  BY BeginTyped
<1>2. phaseMode' = "fit"
  <2>1. config.mode # "reference_inference"
    BY DEF FitModes
  <2>2. PhaseModeFor(config) = "fit"
    BY <2>1 DEF PhaseModeFor
  <2>3. QED
    BY <2>2, BeginSows
<1>3. run'.savedPhaseMode = "fit" /\ run'.done = <<>>
  <2>1. \E step, status, left : run' = Started(config, step, status, left)
    BY DEF Begin
  <2>2. QED
    BY <2>1, StartedIs
<1>4. Fitting(config.dir, config.changed)'
  BY <1>1, <1>2, <1>3 DEF Fitting
<1>5. CASE run'.step = "reports" /\ run'.status \in {"failed", "refused"}
  BY <1>4, <1>5 DEF Progress
<1>6. CASE run'.step # "reports"
  <2>1. /\ ModeIsLegal(config) /\ run'.status = "running"
        /\ ReplayIsAccepted(config, stages)
        /\ \E count \in 0..Len(SeedTables(config.flight)) : Sown(config, count)
        /\ run'.step = "stages"
    BY <1>6, BeginSows
  <2>2. PICK count \in 0..Len(SeedTables("nominal")) : Sown(config, count)
    BY <2>1
  <2>3. count = IF ShouldWriteSeeds(config, stages) THEN Len(SeedTables("nominal")) ELSE 0
    BY <2>1, <2>2 DEF Sown
  <2>4. PICK ts, after : ts = tables[config.dir] /\ after = tables'[config.dir]
    OBVIOUS
  <2>5. after = Seeded(ts, "nominal", count)
    BY <2>2, <2>4 DEF Sown, RunInv, TablesTyped, ConfigTyped
  <2>6. SeededBy(ts, after, "nominal", count)
    BY <2>5, SeededIs DEF Flights
  <2>7. IsSelectable(Plan[config.mode], config.start, config.end)
    BY <2>1 DEF ModeIsLegal
  <2>8. first \in 1..16 /\ Head(stages) = FullPlan[first]
    <3>1. Selects(stages, Plan[config.mode], first, EndIndex(Plan[config.mode], config.end))
      BY <2>7, PlansArePrefixes, SelectionIs
    <3>2. PICK plan : plan = Plan[config.mode]
      OBVIOUS
    <3>3. PICK n : n = Len(plan)
      OBVIOUS
    <3>4. n \in 1..16 /\ \A i \in 1..n : plan[i] = FullPlan[i]
      BY <3>2, <3>3, PlansArePrefixes
    <3>5. first \in 1..n /\ Head(stages) = plan[first]
      BY <3>1, <3>2, <3>3 DEF Selects
    <3>6. first \in 1..16
      BY <3>4, <3>5
    <3>7. QED
      BY <3>4, <3>5, <3>6
  <2>9. Same(after, first - 1, config.changed)
    <3>1. CASE first = 1
      <4>1. Head(stages) = "00"
        BY <2>8, <3>1, PlansArePrefixes
      <4>2. count = Len(SeedTables("nominal"))
        BY <2>3, <4>1 DEF ShouldWriteSeeds
      <4>3. SeedNames("nominal", count) = Made(0)
        BY <4>2, SeedNamesAre
      <4>4. Same(after, 0, config.changed)
        BY <2>6, <4>3, SeedNamesAre DEF SeededBy, Same
      <4>5. first - 1 = 0
        BY <3>1
      <4>6. QED
        BY <4>4, <4>5
    <3>2. CASE first # 1
      <4>1. Head(stages) # "00"
        <5>1. 1 \in 1..16
          OBVIOUS
        <5>2. QED
          BY <2>8, <3>2, <5>1, PlansArePrefixes
      <4>2. config.replay
        BY <2>1, <3>2 DEF ModeIsLegal
      <4>3. count = 0
        BY <2>3, <4>1, <4>2 DEF ShouldWriteSeeds
      <4>4. SeedNames("nominal", 0) = {}
        BY DEF SeedNames
      <4>5. Same(ts, first - 1, config.changed)
        BY <2>1, <2>4, <3>2
      <4>6. QED
        BY <2>6, <4>3, <4>4, <4>5 DEF SeededBy, Same
    <3>3. QED
      BY <3>1, <3>2
  <2>10. Reached' = first - 1
    <3>1. FirstOf' = first
      BY <1>1 DEF FirstOf
    <3>2. Len(run'.done) = 0
      BY <1>3
    <3>3. QED
      BY <2>8, <3>1, <3>2 DEF Reached
  <2>11. Selectable'
    BY <1>1, <2>7 DEF Selectable
  <2>12. Progress(config.dir, config.changed)'
    BY <2>1, <2>4, <2>9, <2>10, <2>11 DEF Progress
  <2>13. QED
    BY <1>4, <2>12
<1>7. QED
  BY <1>5, <1>6, BeginSows

\* What a run writes before its stages is as in a whole run.
LEMMA BeginFaithful ==
    ASSUME RunInv, NEW config, ConfigTyped(config), config.flight = "nominal", Begin(config),
           Faithful(config.dir)
    PROVE  Faithful(config.dir)'
<1>1. manifests' = manifests
  BY DEF Begin
<1>2. CASE tables' = tables
  BY <1>1, <1>2 DEF Faithful
<1>3. CASE \E count \in 0..Len(SeedTables("nominal")) : Sown(config, count)
  <2>1. PICK count \in 0..Len(SeedTables("nominal")) : Sown(config, count)
    BY <1>3
  <2>2. PICK ts, after : ts = tables[config.dir] /\ after = tables'[config.dir]
    OBVIOUS
  <2>3. after = Seeded(ts, "nominal", count)
    BY <2>1, <2>2 DEF Sown, RunInv, TablesTyped, ConfigTyped
  <2>4. SeededBy(ts, after, "nominal", count)
    BY <2>3, SeededIs DEF Flights
  <2>5. \A artifact \in SeedNames("nominal", count) :
            artifact \in Made(16) /\ after[artifact] = Whole({})[16][artifact]
    BY <2>4, SeedNamesAre DEF SeededBy
  <2>6. \A artifact \in DOMAIN after :
            artifact \in Made(16) /\ after[artifact] = Whole({})[16][artifact]
    BY <2>2, <2>4, <2>5 DEF SeededBy, Faithful
  <2>7. DOMAIN ts \subseteq DOMAIN after
    BY <2>4 DEF SeededBy
  <2>8. QED
    BY <1>1, <2>2, <2>6, <2>7 DEF Faithful
<1>4. QED
  BY <1>2, <1>3, BeginSows

\* The first stage of a selection that fits is a stage of the full plan.
LEMMA FirstIs ==
    ASSUME NEW mode \in FitModes, NEW start, NEW end, IsSelectable(Plan[mode], start, end),
           NEW first, first = StartIndex(Plan[mode], start)
    PROVE  /\ first \in 1..16
           /\ Head(SelectedStageScripts(Plan[mode], start, end)) = FullPlan[first]
           /\ start # Unset => FullPlan[first] = start
<1>1. PICK stages : stages = SelectedStageScripts(Plan[mode], start, end)
  OBVIOUS
<1>2. PICK plan : plan = Plan[mode]
  OBVIOUS
<1>3. PICK n : n = Len(plan)
  OBVIOUS
<1>4. Selects(stages, plan, first, EndIndex(plan, end))
  BY <1>1, <1>2, PlansArePrefixes, SelectionIs
<1>5. n \in 1..16 /\ \A i \in 1..n : plan[i] = FullPlan[i]
  BY <1>2, <1>3, PlansArePrefixes
<1>6. first \in 1..n /\ Head(stages) = plan[first]
  BY <1>3, <1>4 DEF Selects
<1>7. first \in 1..16
  BY <1>5, <1>6
<1>8. start # Unset => plan[first] = start
  <2>1. SUFFICES ASSUME start # Unset PROVE plan[first] = start
    OBVIOUS
  <2>2. plan \in Seq(Scripts) /\ start \in ToSet(plan) /\ first = Position(start, plan)
    BY <1>2, <2>1, PlansArePrefixes DEF IsSelectable, StartIndex
  <2>3. QED
    BY <2>2, PositionIs
<1>9. QED
  BY <1>1, <1>5, <1>6, <1>7, <1>8

\* Where a stage has left its manifest, its tables and those before it are those of
\* a whole run.
LEMMA FaithfulSame ==
    ASSUME NEW dir, Faithful(dir), NEW i \in 1..16, FullPlan[i] \in DOMAIN manifests[dir]
    PROVE  Same(tables[dir], i, {}) /\ Same(tables[dir], i - 1, {})
<1>1. PICK ts : ts = tables[dir]
  OBVIOUS
<1>2. Made(i) \subseteq DOMAIN ts
  BY <1>1 DEF Faithful
<1>3. \A artifact \in DOMAIN ts : ts[artifact] = Whole({})[16][artifact]
  BY <1>1 DEF Faithful
<1>4. Made(i - 1) \subseteq Made(i)
  BY MadeIs
<1>5. Same(ts, i, {}) /\ Same(ts, i - 1, {})
  BY <1>2, <1>3, <1>4 DEF Same
<1>6. QED
  BY <1>1, <1>5

\* A run that has succeeded has made what a fresh run makes.
LEMMA CompletedIs ==
    ASSUME NEW dir, NEW changed, Fitting(dir, changed), Progress(dir, changed),
           run.status = "success"
    PROVE  Holds(dir, FreshTables(run.config.mode, run.config.end, "nominal", changed))
<1>1. PICK mode, last : mode = run.config.mode /\ last = run.config.end
  OBVIOUS
<1>2. PICK e : e = EndIndex(Plan[mode], last)
  OBVIOUS
<1>3. mode \in FitModes /\ mode \in DOMAIN Plan
  BY <1>1, PlansArePrefixes DEF Fitting
<1>4. IsSelectable(Plan[mode], run.config.start, last) /\ Same(tables[dir], e, changed)
  BY <1>1, <1>2 DEF Progress, Selectable, LastOf
<1>5. e \in 1..Len(Plan[mode])
  <2>1. Plan[mode] \in Seq(Scripts) /\ Len(Plan[mode]) > 0
    BY <1>3, ScriptsAre
  <2>2. CASE last = Unset
    BY <1>2, <2>1, <2>2 DEF EndIndex
  <2>3. CASE last # Unset
    BY <1>2, <1>4, <2>1, <2>3, PositionIs DEF EndIndex, IsSelectable
  <2>4. QED
    BY <2>2, <2>3
<1>6. PICK r : r = Whole(changed)
  OBVIOUS
<1>7. FreshTables(mode, last, "nominal", changed) = r[e] /\ e \in 1..16
  BY <1>2, <1>3, <1>5, <1>6, FreshIs
<1>8. e \in 0..16
  BY <1>7
<1>9. DOMAIN r[e] = Made(e) /\ \A artifact \in Made(e) : r[16][artifact] = r[e][artifact]
  BY <1>6, <1>8, WholeIs
<1>10. Holds(dir, r[e])
  BY <1>4, <1>6, <1>9 DEF Holds, Same
<1>11. QED
  BY <1>1, <1>7, <1>10

-----------------------------------------------------------------------------
(* The runs of an operator and the first run of a benchmark.                *)

\* The source has what a whole run makes of it, as far as its runs have come.
SourceFits ==
    /\ phaseMode = "fit" /\ Faithful("source")
    /\ campaign.runs = 0 => IsIdle /\ run.status = "none"
    /\ campaign.runs # 0 => Fitting("source", {}) /\ Progress("source", {})

OperatorInv ==
    /\ TypeInv
    /\ campaign.kind = "operator" => SourceFits
    /\ campaign.kind = "benchmark" /\ campaign.runs <= 1 => SourceFits

\* At first the source is empty.
LEMMA InitOperatorInv == Init => OperatorInv
<1> SUFFICES ASSUME Init PROVE OperatorInv
  OBVIOUS
<1>1. TypeInv
  BY InitTypeInv
<1>2. campaign.runs = 0
  BY DEF Init, Campaign
<1>3. phaseMode = "fit" /\ IsIdle /\ run.status = "none"
  BY DEF Init, RunInit, NoRun, IsIdle
<1>4. DOMAIN tables["source"] = {} /\ DOMAIN manifests["source"] = {}
  BY ReplayCampaignAssumption DEF Init, RunInit, NoTables, NoManifests
<1>5. Faithful("source")
  BY <1>4 DEF Faithful
<1>6. QED
  BY <1>1, <1>2, <1>3, <1>5 DEF OperatorInv, SourceFits

\* A run with the settings of the source begins where its tables allow.
LEMMA SourceBegins ==
    ASSUME TypeInv, SourceFits, NEW mode \in FitModes, NEW replay \in BOOLEAN, NEW start,
           NEW end, replay \/ start = Unset,
           BeginNext(Config(mode, "source", replay, start, end, {}, "nominal"))
    PROVE  SourceFits' /\ TypeInv' /\ campaign'.kind = campaign.kind
<1>1. PICK config : config = Config(mode, "source", replay, start, end, {}, "nominal")
  OBVIOUS
<1>2. /\ config.mode = mode /\ config.dir = "source" /\ config.replay = replay
      /\ config.start = start /\ config.end = end /\ config.changed = {}
      /\ config.flight = "nominal"
  BY <1>1 DEF Config
<1>3. "source" \in Dirs /\ mode \in DOMAIN Plan /\ "nominal" \in Flights
  BY ReplayCampaignAssumption, PlansArePrefixes DEF Flights
<1>4. /\ TypeInv' /\ campaign'.kind = campaign.kind
      /\ campaign'.runs = campaign.runs + 1
  BY <1>3, BeginNextTyped
<1>5. Begin(config) /\ ConfigTyped(config)
  BY <1>1, <1>2, <1>3 DEF BeginNext, ConfigTyped
<1>6. PICK stages : stages = SelectedStageScripts(Plan[mode], start, end)
  OBVIOUS
<1>7. PICK first : first = StartIndex(Plan[mode], start)
  OBVIOUS
<1>8. ASSUME ModeIsLegal(config), first # 1, ReplayIsAccepted(config, stages)
      PROVE  Same(tables["source"], first - 1, {})
  <2>1. IsSelectable(Plan[mode], start, end)
    BY <1>2, <1>8 DEF ModeIsLegal
  <2>2. first \in 1..16 /\ Head(stages) = FullPlan[first]
    BY <1>6, <1>7, <2>1, FirstIs
  <2>3. start # Unset
    BY <1>7, <1>8 DEF StartIndex
  <2>4. FullPlan[first] \in DOMAIN manifests["source"]
    BY <1>2, <1>8, <2>2, <2>3 DEF ReplayIsAccepted, ReplayInputsAreValid
  <2>5. QED
    BY <2>2, <2>4, FaithfulSame DEF SourceFits
<1>9. Fitting("source", {})' /\ Progress("source", {})'
  <2>1. RunInv /\ phaseMode = "fit"
    BY DEF TypeInv, SourceFits
  <2>2. /\ config.mode \in FitModes /\ config.flight = "nominal"
        /\ first = StartIndex(Plan[config.mode], config.start)
        /\ stages = SelectedStageScripts(Plan[config.mode], config.start, config.end)
    BY <1>2, <1>6, <1>7
  <2>3. ModeIsLegal(config) /\ first # 1 /\ ReplayIsAccepted(config, stages) =>
            Same(tables[config.dir], first - 1, config.changed)
    BY <1>2, <1>8
  <2>4. Fitting(config.dir, config.changed)' /\ Progress(config.dir, config.changed)'
    BY <1>5, <2>1, <2>2, <2>3, BeginProgress
  <2>5. QED
    BY <1>2, <2>4
<1>10. Faithful("source")'
  BY <1>2, <1>5, BeginFaithful DEF TypeInv, SourceFits
<1>11. phaseMode' = "fit"
  BY <1>9 DEF Fitting
<1>12. campaign'.runs # 0
  BY <1>4 DEF TypeInv, CampaignTyped
<1>13. QED
  BY <1>4, <1>9, <1>10, <1>11, <1>12 DEF SourceFits

\* A step of a run of the source.
LEMMA SourceGoesOn ==
    ASSUME TypeInv, SourceFits, RunStep, UNCHANGED campaign, WriteMode = "overwrite"
    PROVE  SourceFits'
<1>1. RunInv /\ "source" \in Dirs
  BY ReplayCampaignAssumption DEF TypeInv
<1>2. campaign.runs # 0
  BY <1>1, StatusIs DEF SourceFits, IsIdle
<1>3. Fitting("source", {}) /\ Progress("source", {}) /\ Faithful("source")
  BY <1>2 DEF SourceFits
<1>4. Fitting("source", {})' /\ Progress("source", {})'
  BY <1>1, <1>3, StepProgress
<1>5. Faithful("source")'
  BY <1>1, <1>3, StepFaithful
<1>6. phaseMode' = "fit"
  BY <1>4 DEF Fitting
<1>7. QED
  BY <1>2, <1>4, <1>5, <1>6 DEF SourceFits

\* A step that leaves the source and the run alone keeps the source so.
LEMMA SourceStays ==
    ASSUME SourceFits, tables'["source"] = tables["source"],
           manifests'["source"] = manifests["source"], run' = run, phaseMode' = phaseMode,
           campaign'.runs = campaign.runs
    PROVE  SourceFits'
<1>1. Faithful("source")' <=> Faithful("source")
  BY DEF Faithful
<1>2. Fitting("source", {})' <=> Fitting("source", {})
  BY DEF Fitting
<1>3. Progress("source", {})' <=> Progress("source", {})
  BY DEF Progress, Selectable, Same, Reached, FirstOf, LastOf
<1>4. QED
  BY <1>1, <1>2, <1>3 DEF SourceFits, IsIdle

\* Every step keeps what a resumed run relies on.
LEMMA NextOperatorInv ==
    ASSUME OperatorInv, [Next]_vars, WriteMode = "overwrite"
    PROVE  OperatorInv'
<1>1. TypeInv /\ TypeInv' /\ RunInv
  BY NextTypeInv DEF OperatorInv, TypeInv
<1>2. Modes \subseteq FitModes /\ "source" \in Dirs /\ "copy" \in Dirs /\ "source" # "copy"
  BY ReplayCampaignAssumption DEF FitModes
<1>3. campaign.runs \in Nat
  BY <1>1 DEF TypeInv, CampaignTyped
<1>4. CASE FreshRun
  <2>1. PICK mode \in Modes, end \in Ends :
            BeginNext(Config(mode, "source", FALSE, Unset, end, {}, "nominal"))
    BY <1>4 DEF FreshRun
  <2>2. SourceFits
    BY <1>4 DEF FreshRun, OperatorInv
  <2>3. SourceFits'
    BY <1>1, <1>2, <2>1, <2>2, SourceBegins
  <2>4. QED
    BY <1>1, <2>3 DEF OperatorInv
<1>5. CASE Resume
  <2>1. PICK mode \in Modes, start \in Scripts \cup {Unset}, end \in Ends :
            BeginNext(Config(mode, "source", TRUE, start, end, {}, "nominal"))
    BY <1>5 DEF Resume
  <2>2. SourceFits
    BY <1>5 DEF Resume, OperatorInv
  <2>3. SourceFits'
    BY <1>1, <1>2, <2>1, <2>2, SourceBegins
  <2>4. QED
    BY <1>1, <2>3 DEF OperatorInv
<1>6. CASE PlanVariant
  <2>1. PICK target, changed, tier :
            /\ Clone("source", "copy")
            /\ campaign' = Campaign("benchmark", 1, TRUE, changed, target, tier)
    BY <1>6 DEF PlanVariant
  <2>2. campaign'.runs = 1 /\ campaign.runs = 1 /\ campaign.kind = "benchmark"
    BY <1>6, <2>1 DEF PlanVariant, Campaign
  <2>3. /\ tables'["source"] = tables["source"] /\ manifests'["source"] = manifests["source"]
        /\ run' = run /\ phaseMode' = phaseMode
    BY <1>1, <1>2, <2>1 DEF Clone, RunInv, TablesTyped, NotesTyped
  <2>4. SourceFits'
    BY <2>2, <2>3, SourceStays DEF OperatorInv
  <2>5. QED
    BY <1>1, <2>4 DEF OperatorInv
<1>7. CASE RunVariant
  <2>1. PICK config : config = Config(runMode["copy"], "copy", TRUE,
                                      RecommendedStart("source", campaign.target),
                                      ReplayEnd(campaign.target, campaign.tier),
                                      campaign.changed, "nominal")
    OBVIOUS
  <2>2. BeginNext(config) /\ campaign.kind = "benchmark" /\ campaign.runs = 1
    BY <1>7, <2>1 DEF RunVariant
  <2>3. campaign' = Campaign("benchmark", 2, campaign.prepared, campaign.changed,
                             campaign.target, campaign.tier)
    BY <1>1, <2>2 DEF BeginNext, TypeInv, CampaignTyped, Campaign
  <2>4. campaign'.kind = "benchmark" /\ campaign'.runs = 2
    BY <2>3 DEF Campaign
  <2>5. QED
    BY <1>1, <2>4 DEF OperatorInv
<1>8. CASE ReferenceRun \/ SelfFitRun \/ StageReferenceArtifacts \/ InferenceRun
  <2>1. campaign.kind = "pair" /\ \/ campaign' = [campaign EXCEPT !.runs = @ + 1]
                                  \/ campaign' = [campaign EXCEPT !.prepared = TRUE]
    BY <1>8 DEF ReferenceRun, SelfFitRun, StageReferenceArtifacts, InferenceRun, BeginNext
  <2>2. \E runs, prepared :
            campaign' = Campaign("pair", runs, prepared, campaign.changed, campaign.target,
                                 campaign.tier)
    BY <1>1, <2>1 DEF TypeInv, CampaignTyped, Campaign
  <2>3. campaign'.kind = "pair"
    BY <2>2 DEF Campaign
  <2>4. QED
    BY <1>1, <2>3 DEF OperatorInv
<1>9. CASE RunStep /\ UNCHANGED campaign
  BY <1>1, <1>9, SourceGoesOn DEF OperatorInv
<1>10. CASE UNCHANGED vars
  <2>1. /\ campaign' = campaign /\ run' = run /\ tables' = tables /\ manifests' = manifests
        /\ phaseMode' = phaseMode
    BY <1>10 DEF vars, runVars
  <2>2. SourceFits => SourceFits'
    BY <2>1, SourceStays
  <2>3. QED
    BY <1>1, <2>1, <2>2 DEF OperatorInv
<1>11. QED
  BY <1>4, <1>5, <1>6, <1>7, <1>8, <1>9, <1>10 DEF Next

\* ResumeCompletesTheRun always holds when tables are overwritten: what a run that was
\* interrupted and resumed leaves is what one run without exceptions would leave.
THEOREM ResumesComplete ==
    ASSUME WriteMode = "overwrite"
    PROVE  Spec => []ResumeCompletesTheRun
<1>1. OperatorInv => ResumeCompletesTheRun
  <2> SUFFICES ASSUME OperatorInv, campaign.kind = "operator", Succeeded
               PROVE  Holds("source", FreshTables(run.config.mode, run.config.end,
                                                  "nominal", {}))
    BY DEF ResumeCompletesTheRun
  <2>1. SourceFits /\ run.status = "success"
    BY DEF OperatorInv, Succeeded
  <2>2. Fitting("source", {}) /\ Progress("source", {})
    BY <2>1 DEF SourceFits
  <2>3. QED
    BY <2>1, <2>2, CompletedIs
<1>2. OperatorInv /\ [Next]_vars => OperatorInv'
  BY NextOperatorInv
<1>3. QED
  BY <1>1, <1>2, InitOperatorInv, PTL DEF Spec

-----------------------------------------------------------------------------
(* The variant of a benchmark.                                              *)

\* A stage before the first one that reads a setting does not read it.
LEMMA UnreadBefore ==
    ASSUME NEW knob, NEW i \in 1..16, NEW f \in 1..16, i < f, f <= FirstReader(knob)
    PROVE  knob \notin FitStage(i).knobs \cup FitStage(i).fallbackKnobs
<1> DEFINE readers == {j \in DOMAIN FullPlan :
                          LET stage == StageScript(FullPlan[j], "fit")
                          IN knob \in stage.knobs \cup stage.fallbackKnobs}
<1>1. DOMAIN FullPlan = 1..16
  BY DEF FullPlan
<1>2. readers \in SUBSET (1..16)
  BY <1>1
<1>3. FirstReader(knob) = Min(readers)
  BY DEF FirstReader
<1>4. knob \in FitStage(i).knobs \cup FitStage(i).fallbackKnobs => i \in readers
  BY <1>1 DEF FitStage
<1> HIDE DEF readers
<1>5. i \in readers => Min(readers) \in 1..16 /\ Min(readers) <= i
  <2>1. 16 \in Nat
    OBVIOUS
  <2>2. SUFFICES ASSUME i \in readers PROVE Min(readers) \in 1..16 /\ Min(readers) <= i
    OBVIOUS
  <2>3. Min(readers) \in readers /\ \A j \in readers : Min(readers) <= j
    BY <1>2, <2>1, <2>2, ExtremesAre
  <2>4. QED
    BY <1>2, <2>2, <2>3
<1>6. QED
  BY <1>3, <1>4, <1>5

\* Settings that no stage before stage f of the plan reads.
Unread(changed, f) == \A knob \in changed : f <= FirstReader(knob)

\* They leave the tables before stage f as they are.
LEMMA UnreadKeeps ==
    ASSUME NEW changed, NEW f \in 1..16, Unread(changed, f)
    PROVE  \A artifact \in Made(f - 1) : Whole(changed)[16][artifact] = Whole({})[16][artifact]
<1>1. PICK r, q : r = Whole(changed) /\ q = Whole({})
  OBVIOUS
<1>2. /\ \A k \in 0..16 : DOMAIN r[k] = Made(k)
      /\ \A artifact \in Made(0) : r[0][artifact] = SeedTable("nominal")
      /\ \A k \in 1..16 : \A artifact \in ToSet(FitStage(k).writes) :
            r[k][artifact] = Computed(FullPlan[k], FitStage(k), r[k - 1], changed)
      /\ \A k \in 0..16 : \A artifact \in Made(k) : r[16][artifact] = r[k][artifact]
  BY <1>1, WholeIs
<1>3. /\ \A k \in 0..16 : DOMAIN q[k] = Made(k)
      /\ \A artifact \in Made(0) : q[0][artifact] = SeedTable("nominal")
      /\ \A k \in 1..16 : \A artifact \in ToSet(FitStage(k).writes) :
            q[k][artifact] = Computed(FullPlan[k], FitStage(k), q[k - 1], {})
      /\ \A k \in 0..16 : \A artifact \in Made(k) : q[16][artifact] = q[k][artifact]
  BY <1>1, WholeIs
<1>4. ASSUME NEW k \in 1..16, k <= f - 1,
             \A artifact \in Made(k - 1) : r[k - 1][artifact] = q[k - 1][artifact]
      PROVE  \A artifact \in Made(k) : r[16][artifact] = q[16][artifact]
  <2>1. PICK stage, S : stage = FitStage(k) /\ S = Made(k - 1)
    OBVIOUS
  <2>2. PICK one, two : one = r[k - 1] /\ two = q[k - 1]
    OBVIOUS
  <2>3. k - 1 \in 0..16
    OBVIOUS
  <2>4. Alike(stage, one, two, S)
    <3>1. DOMAIN one = S /\ DOMAIN two = S
      BY <1>2, <1>3, <2>1, <2>2, <2>3
    <3>2. stage.reads \cup stage.optional \subseteq S
      BY <2>1, NeedsAreMade
    <3>3. QED
      BY <1>4, <2>1, <2>2, <3>1, <3>2 DEF Alike
  <2>5. changed \cap KnobsRead(stage, one) = {} \cap KnobsRead(stage, two)
    <3>1. ASSUME NEW knob \in changed
          PROVE  knob \notin stage.knobs \cup stage.fallbackKnobs
      <4>1. f <= FirstReader(knob)
        BY DEF Unread
      <4>2. k < f
        BY <1>4
      <4>3. QED
        BY <2>1, <4>1, <4>2, UnreadBefore
    <3>2. KnobsRead(stage, one) \subseteq stage.knobs \cup stage.fallbackKnobs
      BY DEF KnobsRead
    <3>3. QED
      BY <3>1, <3>2
  <2>6. Computed(FullPlan[k], stage, one, changed) = Computed(FullPlan[k], stage, two, {})
    BY <2>4, <2>5, SameInputs
  <2>7. \A artifact \in ToSet(stage.writes) : r[k][artifact] = q[k][artifact]
    BY <1>2, <1>3, <2>1, <2>2, <2>6
  <2>8. Made(k) = S \cup ToSet(stage.writes)
    BY <2>1, MadeIs
  <2>9. \A artifact \in S : r[16][artifact] = q[16][artifact]
    BY <1>2, <1>3, <1>4, <2>1, <2>3
  <2>10. \A artifact \in ToSet(stage.writes) : r[16][artifact] = q[16][artifact]
    BY <1>2, <1>3, <2>7, <2>8
  <2>11. QED
    BY <2>8, <2>9, <2>10
<1>5. \A k \in Nat : k <= f - 1 => \A artifact \in Made(k) : r[16][artifact] = q[16][artifact]
  <2> DEFINE T == {k \in Nat : k <= f - 1 =>
                      \A artifact \in Made(k) : r[16][artifact] = q[16][artifact]}
  <2>1. 0 \in T
    BY <1>2, <1>3
  <2>2. ASSUME NEW k \in Nat, k \in T
        PROVE  k + 1 \in T
    <3>1. CASE k + 1 <= f - 1
      <4>1. PICK j \in 1..16 : j = k + 1 /\ j - 1 = k
        BY <3>1
      <4>2. \A artifact \in Made(k) : r[16][artifact] = q[16][artifact]
        BY <2>2, <3>1
      <4>3. k \in 0..16
        BY <3>1
      <4>4. \A artifact \in Made(k) : r[k][artifact] = q[k][artifact]
        BY <1>2, <1>3, <4>2, <4>3
      <4>5. \A artifact \in Made(j) : r[16][artifact] = q[16][artifact]
        BY <1>4, <3>1, <4>1, <4>4
      <4>6. QED
        BY <4>1, <4>5
    <3>2. QED
      BY <3>1
  <2>3. Nat \subseteq T
    <3> HIDE DEF T
    <3>1. QED
      BY <2>1, <2>2, Numbers!Induction
  <2>4. QED
    BY <2>3
<1>6. f - 1 \in Nat /\ f - 1 <= f - 1
  OBVIOUS
<1>7. \A artifact \in Made(f - 1) : r[16][artifact] = q[16][artifact]
  BY <1>5, <1>6
<1>8. QED
  BY <1>1, <1>7

\* The first stages of the full plan.
BeginsPlan(stages) ==
    stages \in Seq(Scripts) /\ Len(stages) \in 0..16
        /\ \A i \in 1..Len(stages) : stages[i] = FullPlan[i]

\* A fresh run that fits has done the first stages of the full plan.
LEMMA DoneIsPrefix ==
    ASSUME RunInv, run.step = "stages", run.config.mode \in FitModes, Selectable,
           run.config.start = Unset
    PROVE  BeginsPlan(run.done) /\ (run.stages # <<>> => BeginsPlan(Append(run.done, NextScript)))
<1>1. PICK plan : plan = Plan[run.config.mode]
  OBVIOUS
<1>2. PICK sel : sel = SelectedStageScripts(plan, run.config.start, run.config.end)
  OBVIOUS
<1>3. PICK last : last = LastOf
  OBVIOUS
<1>4. FirstOf = 1
  BY DEF FirstOf, StartIndex
<1>5. Selects(sel, plan, 1, last)
  BY <1>1, <1>2, <1>3, <1>4, SelectionIs, PlansArePrefixes DEF Selectable, FirstOf, LastOf
<1>6. PICK n : n = Len(plan)
  OBVIOUS
<1>7. n \in 1..16 /\ \A i \in 1..n : plan[i] = FullPlan[i]
  BY <1>1, <1>6, PlansArePrefixes
<1>8. PICK done, stages : done = run.done /\ stages = run.stages
  OBVIOUS
<1>9. done \in Seq(Scripts) /\ stages \in Seq(Scripts) /\ sel = done \o stages
  BY <1>1, <1>2, <1>8 DEF RunInv, RunTyped
<1>10. Len(sel) = Len(done) + Len(stages) /\ Len(done) \in Nat /\ Len(stages) \in Nat
  BY <1>9
<1>11. /\ last \in 1..n /\ Len(sel) = last
       /\ \A i \in 1..Len(sel) : sel[i] = plan[i]
  BY <1>5, <1>6 DEF Selects
<1>12. BeginsPlan(done)
  <2>1. Len(done) \in 0..16 /\ \A i \in 1..Len(done) : i \in 1..Len(sel) /\ i \in 1..n
    <3>1. PICK d, l : d = Len(done) /\ l = Len(sel)
      OBVIOUS
    <3>2. d \in Nat /\ l \in 1..n /\ d <= l
      BY <1>10, <1>11, <3>1
    <3>3. n \in 1..16
      BY <1>7
    <3>4. d \in 0..16
      BY <3>2, <3>3
    <3>5. \A i \in 1..d : i \in 1..l /\ i \in 1..n
      BY <3>2, <3>3
    <3>6. QED
      BY <3>1, <3>4, <3>5
  <2>2. \A i \in 1..Len(done) : sel[i] = done[i]
    BY <1>9, <1>10
  <2>3. \A i \in 1..Len(done) : done[i] = FullPlan[i]
    BY <1>7, <1>11, <2>1, <2>2
  <2>4. QED
    BY <1>9, <2>1, <2>3 DEF BeginsPlan
<1>13. ASSUME stages # <<>>
       PROVE  BeginsPlan(Append(done, NextScript))
  <2>1. Reached + 1 \in 1..16 /\ NextScript = FullPlan[Reached + 1]
    BY <1>8, <1>13, NextIs
  <2>2. Reached = Len(done)
    BY <1>4, <1>8, <1>10 DEF Reached
  <2>3. PICK script : script = NextScript
    OBVIOUS
  <2>4. script \in Scripts
    BY <1>8, <1>13, <2>3, NextStageIs
  <2>5. PICK more : more = Append(done, script)
    OBVIOUS
  <2>6. /\ more \in Seq(Scripts) /\ Len(more) = Len(done) + 1
        /\ \A i \in 1..Len(done) : more[i] = done[i]
        /\ more[Len(done) + 1] = script
    BY <1>9, <2>4, <2>5
  <2>7. \A i \in 1..Len(more) : i \in 1..Len(done) \/ i = Len(done) + 1
    BY <1>10, <2>6
  <2>8. \A i \in 1..Len(more) : more[i] = FullPlan[i]
    BY <1>12, <2>1, <2>2, <2>3, <2>6, <2>7 DEF BeginsPlan
  <2>9. Len(more) \in 0..16
    BY <1>10, <2>1, <2>2, <2>6
  <2>10. QED
    BY <2>3, <2>5, <2>6, <2>8, <2>9 DEF BeginsPlan
<1>14. QED
  BY <1>8, <1>12, <1>13

\* The stages that a fresh run has listed, and its mode.
SourceNotes ==
    /\ runMode["source"] \in FitModes \cup {Unset}
    /\ \A mode \in DOMAIN summaries["source"] : BeginsPlan(summaries["source"][mode])

\* A step of a fresh run in the source keeps its notes in order.
LEMMA NotesGoOn ==
    ASSUME RunInv, RunStep, Fitting("source", {}), Progress("source", {}),
           run.config.start = Unset, SourceNotes
    PROVE  SourceNotes'
<1>1. /\ "source" \in Dirs /\ run.config.dir = "source" /\ run.config.mode \in FitModes
      /\ summaries = [dir \in Dirs |-> summaries[dir]]
      /\ runMode = [dir \in Dirs |-> runMode[dir]]
  BY ReplayCampaignAssumption DEF Fitting, RunInv, NotesTyped
<1>2. ASSUME NEW stages, BeginsPlan(stages), summaries' = SummaryWith(stages)
      PROVE  \A mode \in DOMAIN summaries'["source"] : BeginsPlan(summaries'["source"][mode])
  <2>1. summaries'["source"] = Replacing(summaries["source"],
                                         [mode \in {run.config.mode} |-> stages])
    BY <1>1, <1>2 DEF SummaryWith
  <2>2. \A mode \in DOMAIN summaries'["source"] :
            \/ summaries'["source"][mode] = stages
            \/ mode \in DOMAIN summaries["source"]
                  /\ summaries'["source"][mode] = summaries["source"][mode]
    BY <2>1 DEF Replacing
  <2>3. QED
    BY <1>2, <2>2 DEF SourceNotes
<1>3. CASE RunStage
  BY <1>3 DEF RunStage, SourceNotes
<1>4. CASE StageFails
  <2>1. /\ run.step = "stages" /\ run.stages # <<>> /\ runMode' = runMode
        /\ summaries' = SummaryWith(Append(run.done, NextScript))
    BY <1>4 DEF StageFails
  <2>2. BeginsPlan(Append(run.done, NextScript))
    BY <2>1, DoneIsPrefix DEF Fitting, Progress
  <2>3. QED
    BY <1>2, <2>1, <2>2 DEF SourceNotes
<1>5. CASE EndStages
  <2>1. /\ run.step = "stages" /\ runMode' = runMode
        /\ summaries' = SummaryWith(run.done)
    BY <1>5 DEF EndStages
  <2>2. BeginsPlan(run.done)
    BY <2>1, DoneIsPrefix DEF Fitting, Progress
  <2>3. QED
    BY <1>2, <2>1, <2>2 DEF SourceNotes
<1>6. CASE Finish
  <2>1. runMode' = [runMode EXCEPT ![run.config.dir] = run.config.mode] /\ summaries' = summaries
    BY <1>6 DEF Finish
  <2>2. runMode'["source"] = run.config.mode
    BY <1>1, <2>1
  <2>3. QED
    BY <1>1, <2>1, <2>2 DEF SourceNotes
<1>7. QED
  BY <1>3, <1>4, <1>5, <1>6 DEF RunStep

\* The target is no later than the first stage that reads a changed setting.
TargetIsEarly == Unread(campaign.changed, Position(campaign.target, FullPlan))

\* The source of a benchmark is a fresh run, its copy is the same until the variant
\* runs, and the variant makes what a whole run with its settings makes.
VariantIs ==
    /\ campaign.runs = 1 => run.config.start = Unset
    /\ campaign.runs <= 1 => SourceNotes
    /\ campaign.runs = 1 /\ campaign.prepared =>
          tables["copy"] = tables["source"] /\ runMode["copy"] = runMode["source"]
    /\ campaign.runs > 1 /\ TargetIsEarly =>
          Fitting("copy", campaign.changed) /\ Progress("copy", campaign.changed)

VariantInv ==
    /\ OperatorInv /\ BoundaryInv
    /\ campaign.kind = "benchmark" => VariantIs

\* At first nothing is noted.
LEMMA InitVariantInv == Init => VariantInv
<1> SUFFICES ASSUME Init PROVE VariantInv
  OBVIOUS
<1>1. OperatorInv /\ BoundaryInv
  BY InitOperatorInv, InitBoundaryInv
<1>2. campaign.runs = 0
  BY DEF Init, Campaign
<1>3. runMode["source"] = Unset /\ DOMAIN summaries["source"] = {}
  BY ReplayCampaignAssumption DEF Init, RunInit, NoSummaries
<1>4. QED
  BY <1>1, <1>2, <1>3 DEF VariantInv, VariantIs, SourceNotes

\* The recommended stage stands in the full plan, no later than the target.
LEMMA RecommendedIsEarly ==
    ASSUME RunInv, SourceNotes, NEW target, HasRecommendation("source", target),
           NEW start, start = RecommendedStart("source", target)
    PROVE  /\ start \in Scripts /\ start \in DOMAIN manifests["source"]
           /\ Position(target, FullPlan) \in 1..16
           /\ \E i \in 1..16 : FullPlan[i] = start /\ i <= Position(target, FullPlan)
<1>1. "source" \in Dirs
  BY ReplayCampaignAssumption
<1>2. PICK ordered : ordered = OrderedStageScripts("source")
  OBVIOUS
<1>3. PICK p : p = Position(target, ordered)
  OBVIOUS
<1>4. /\ ordered \in Seq(Scripts) /\ p \in 1..Len(ordered) /\ ordered[p] = target
      /\ start \in Scripts /\ IsReady("source", start)
      /\ \E i \in 1..p : start = ordered[i]
  BY <1>1, <1>2, <1>3, RecommendedIs
<1>5. BeginsPlan(ordered)
  <2>1. CASE ordered = <<>>
    BY <1>4, <2>1
  <2>2. CASE \E mode \in DOMAIN summaries["source"] : ordered = summaries["source"][mode]
    BY <2>2 DEF SourceNotes
  <2>3. QED
    BY <1>1, <1>2, <2>1, <2>2, OrderedIs
<1>6. PICK n : n = Len(ordered)
  OBVIOUS
<1>7. n \in 0..16 /\ p \in 1..n /\ \A i \in 1..n : ordered[i] = FullPlan[i]
  BY <1>4, <1>5, <1>6 DEF BeginsPlan
<1>8. p \in 1..16 /\ FullPlan[p] = target
  <2>1. n \in 0..16 /\ p \in 1..n
    BY <1>7
  <2>2. p \in 1..16
    BY <2>1
  <2>3. QED
    BY <1>4, <1>7, <2>2
<1>9. PICK i \in 1..p : start = ordered[i]
  BY <1>4
<1>10. i \in 1..n /\ i \in 1..16 /\ i <= p
  BY <1>7, <1>8, <1>9
<1>11. FullPlan[i] = start
  BY <1>7, <1>9, <1>10
<1>12. Position(target, FullPlan) = p
  <2>1. DOMAIN FullPlan = 1..16
    BY DEF FullPlan
  <2>2. Position(target, FullPlan) \in 1..16 /\ FullPlan[Position(target, FullPlan)] = target
    BY <1>8, <2>1 DEF Position
  <2>3. QED
    BY <1>8, <2>2, PlansArePrefixes
<1>13. QED
  BY <1>4, <1>8, <1>10, <1>11, <1>12 DEF IsReady

\* A variant that begins no later than its target has the tables that it needs.
LEMMA VariantFits ==
    ASSUME RunInv, phaseMode = "fit", Faithful("source"), SourceNotes,
           tables["copy"] = tables["source"], manifests["copy"] = manifests["source"],
           NEW target, HasRecommendation("source", target), NEW changed,
           Unread(changed, Position(target, FullPlan)),
           NEW mode \in FitModes, NEW end, NEW config,
           config = Config(mode, "copy", TRUE, RecommendedStart("source", target), end,
                           changed, "nominal"),
           Begin(config)
    PROVE  Fitting("copy", changed)' /\ Progress("copy", changed)'
<1>1. PICK start : start = RecommendedStart("source", target)
  OBVIOUS
<1>2. /\ config.mode = mode /\ config.dir = "copy" /\ config.replay
      /\ config.start = start /\ config.end = end /\ config.changed = changed
      /\ config.flight = "nominal"
  BY <1>1 DEF Config
<1>3. ConfigTyped(config) /\ config.mode \in FitModes
  BY <1>2, ReplayCampaignAssumption, PlansArePrefixes DEF ConfigTyped, Flights
<1>4. PICK p : p = Position(target, FullPlan)
  OBVIOUS
<1>5. /\ start \in Scripts /\ start \in DOMAIN manifests["source"] /\ p \in 1..16
      /\ \E i \in 1..16 : FullPlan[i] = start /\ i <= p
  BY <1>1, <1>4, RecommendedIsEarly
<1>6. PICK i \in 1..16 : FullPlan[i] = start /\ i <= p
  BY <1>5
<1>7. start # Unset
  BY <1>5, ScriptsAre DEF Unset
<1>8. PICK first : first = StartIndex(Plan[mode], start)
  OBVIOUS
<1>9. PICK stages : stages = SelectedStageScripts(Plan[mode], start, end)
  OBVIOUS
<1>10. ASSUME ModeIsLegal(config)
       PROVE  Same(tables["copy"], first - 1, changed)
  <2>1. IsSelectable(Plan[mode], start, end)
    BY <1>2, <1>10 DEF ModeIsLegal
  <2>2. first \in 1..16 /\ FullPlan[first] = start
    BY <1>7, <1>8, <2>1, FirstIs
  <2>3. first = i
    BY <1>6, <2>2, PlansArePrefixes
  <2>4. Unread(changed, p)
    BY <1>4
  <2>5. \A artifact \in Made(first - 1) :
            Whole(changed)[16][artifact] = Whole({})[16][artifact]
    <3>1. \A artifact \in Made(p - 1) :
              Whole(changed)[16][artifact] = Whole({})[16][artifact]
      BY <1>5, <2>4, UnreadKeeps
    <3>2. Made(first - 1) \subseteq Made(p - 1)
      <4>1. first - 1 \in 0..16 /\ p - 1 \in 0..16 /\ first - 1 <= p - 1
        BY <1>5, <1>6, <2>2, <2>3
      <4>2. PICK k, l : k = first - 1 /\ l = p - 1
        OBVIOUS
      <4>3. k \in 0..16 /\ l \in 0..16 /\ k <= l
        BY <4>1, <4>2
      <4>4. \A artifact \in Made(k) : artifact \in Made(16) /\ Maker(artifact) <= k
        BY <4>3, MadeIs
      <4>5. \A artifact \in Made(16) : Maker(artifact) \in 0..16
        BY MadeIs
      <4>6. \A artifact \in Made(16) : Maker(artifact) <= l => artifact \in Made(l)
        BY <4>3, MadeIs
      <4>7. Made(k) \subseteq Made(l)
        BY <4>3, <4>4, <4>5, <4>6
      <4>8. QED
        BY <4>2, <4>7
    <3>3. QED
      BY <3>1, <3>2
  <2>6. Same(tables["copy"], first - 1, {})
    BY <1>5, <2>2, FaithfulSame
  <2>7. QED
    BY <2>5, <2>6 DEF Same
<1>11. /\ first = StartIndex(Plan[config.mode], config.start)
       /\ stages = SelectedStageScripts(Plan[config.mode], config.start, config.end)
  BY <1>2, <1>8, <1>9
<1>12. ModeIsLegal(config) /\ first # 1 /\ ReplayIsAccepted(config, stages) =>
           Same(tables[config.dir], first - 1, config.changed)
  BY <1>2, <1>10
<1>13. Fitting(config.dir, config.changed)' /\ Progress(config.dir, config.changed)'
  BY <1>2, <1>3, <1>11, <1>12, BeginProgress
<1>14. QED
  BY <1>2, <1>13

\* Every step keeps what a variant relies on.
LEMMA NextVariantInv ==
    ASSUME VariantInv, [Next]_vars, WriteMode = "overwrite"
    PROVE  VariantInv'
<1>1. OperatorInv' /\ BoundaryInv'
  BY NextOperatorInv, NextBoundaryInv DEF VariantInv
<1>2. OperatorInv /\ BoundaryInv /\ TypeInv /\ RunInv /\ CampaignTyped
  BY DEF VariantInv, OperatorInv, TypeInv
<1>3. "source" \in Dirs /\ "copy" \in Dirs /\ Modes \subseteq FitModes
  BY ReplayCampaignAssumption DEF FitModes
<1>4. CASE FreshRun
  <2>1. PICK mode \in Modes, end \in Ends :
            BeginNext(Config(mode, "source", FALSE, Unset, end, {}, "nominal"))
    BY <1>4 DEF FreshRun
  <2>2. PICK config : config = Config(mode, "source", FALSE, Unset, end, {}, "nominal")
    OBVIOUS
  <2>3. Begin(config) /\ campaign' = [campaign EXCEPT !.runs = @ + 1] /\ campaign.runs = 0
    BY <1>4, <2>1, <2>2 DEF FreshRun, BeginNext
  <2>4. config.start = Unset
    BY <2>2 DEF Config
  <2>5. \E step, status, stages : run' = Started(config, step, status, stages)
    BY <2>3 DEF Begin
  <2>6. run'.config = config
    BY <2>5, StartedIs
  <2>7. summaries' = summaries /\ runMode' = runMode
    BY <2>3 DEF Begin
  <2>8. campaign'.runs = 1 /\ campaign'.kind = campaign.kind
        /\ campaign'.prepared = campaign.prepared
    <3>1. campaign' = Campaign(campaign.kind, 1, campaign.prepared, campaign.changed,
                               campaign.target, campaign.tier)
      BY <1>2, <2>3 DEF CampaignTyped, Campaign
    <3>2. QED
      BY <3>1 DEF Campaign
  <2>9. campaign.kind = "benchmark" => VariantIs'
    <3>1. SUFFICES ASSUME campaign.kind = "benchmark" PROVE VariantIs'
      OBVIOUS
    <3>2. ~campaign.prepared /\ SourceNotes
      BY <1>2, <2>3, <3>1 DEF BoundaryInv, SourceIs, VariantInv, VariantIs
    <3>3. SourceNotes'
      BY <2>7, <3>2 DEF SourceNotes
    <3>4. QED
      BY <2>4, <2>6, <2>8, <3>2, <3>3 DEF VariantIs
  <2>10. QED
    BY <1>1, <2>8, <2>9 DEF VariantInv
<1>5. CASE PlanVariant
  <2>1. PICK target, changed, tier :
            /\ Clone("source", "copy")
            /\ campaign' = Campaign("benchmark", 1, TRUE, changed, target, tier)
    BY <1>5 DEF PlanVariant
  <2>2. campaign'.runs = 1 /\ campaign.runs = 1 /\ campaign.kind = "benchmark"
    BY <1>5, <2>1 DEF PlanVariant, Campaign
  <2>3. /\ tables'["source"] = tables["source"] /\ tables'["copy"] = tables["source"]
        /\ runMode'["source"] = runMode["source"] /\ runMode'["copy"] = runMode["source"]
        /\ summaries'["source"] = summaries["source"] /\ run' = run
    BY <1>2, <1>3, <2>1 DEF Clone, RunInv, TablesTyped, NotesTyped
  <2>4. VariantIs
    BY <2>2 DEF VariantInv
  <2>5. SourceNotes'
    BY <2>2, <2>3, <2>4 DEF VariantIs, SourceNotes
  <2>6. VariantIs'
    BY <2>2, <2>3, <2>4, <2>5 DEF VariantIs
  <2>7. QED
    BY <1>1, <2>6 DEF VariantInv
<1>6. CASE RunVariant
  <2>1. PICK config : config = Config(runMode["copy"], "copy", TRUE,
                                      RecommendedStart("source", campaign.target),
                                      ReplayEnd(campaign.target, campaign.tier),
                                      campaign.changed, "nominal")
    OBVIOUS
  <2>2. BeginNext(config) /\ campaign.kind = "benchmark" /\ campaign.runs = 1
        /\ campaign.prepared
    BY <1>6, <2>1 DEF RunVariant
  <2>3. campaign' = Campaign("benchmark", 2, campaign.prepared, campaign.changed,
                             campaign.target, campaign.tier)
    <3>1. campaign' = [campaign EXCEPT !.runs = @ + 1]
      BY <2>2 DEF BeginNext
    <3>2. campaign = Campaign("benchmark", 1, campaign.prepared, campaign.changed,
                              campaign.target, campaign.tier)
      BY <1>2, <2>2 DEF CampaignTyped
    <3>3. QED
      BY <3>1, <3>2 DEF Campaign
  <2>4. campaign'.kind = "benchmark" /\ campaign'.runs = 2
        /\ campaign'.changed = campaign.changed /\ campaign'.target = campaign.target
    BY <2>3 DEF Campaign
  <2>5. SourceFits /\ SourceIs /\ VariantIs
    BY <1>2, <2>2 DEF OperatorInv, BoundaryInv, VariantInv
  <2>6. MayResume(campaign.target)
    BY <2>2, <2>5 DEF SourceIs
  <2>7. /\ tables["copy"] = tables["source"] /\ runMode["copy"] = runMode["source"]
        /\ SourceNotes
    BY <2>2, <2>5 DEF VariantIs
  <2>8. PICK mode : mode = runMode["copy"]
    OBVIOUS
  <2>9. mode \in FitModes
    BY <2>6, <2>7, <2>8 DEF MayResume, HasRecommendation, SourceNotes
  <2>10. ASSUME TargetIsEarly
         PROVE  /\ Fitting("copy", campaign.changed)'
                /\ Progress("copy", campaign.changed)'
    <3>1. PICK target, changed : target = campaign.target /\ changed = campaign.changed
      OBVIOUS
    <3>2. PICK end : end = ReplayEnd(campaign.target, campaign.tier)
      OBVIOUS
    <3>3. config = Config(mode, "copy", TRUE, RecommendedStart("source", target), end,
                          changed, "nominal")
      BY <2>1, <2>8, <3>1, <3>2
    <3>4. /\ phaseMode = "fit" /\ Faithful("source") /\ Begin(config)
          /\ manifests["copy"] = manifests["source"] /\ HasRecommendation("source", target)
      BY <2>2, <2>5, <2>6, <3>1 DEF SourceFits, MayResume, BeginNext
    <3>5. Unread(changed, Position(target, FullPlan))
      BY <2>10, <3>1 DEF TargetIsEarly
    <3>6. Fitting("copy", changed)' /\ Progress("copy", changed)'
      BY <1>2, <2>7, <2>9, <3>3, <3>4, <3>5, VariantFits
    <3>7. campaign'.changed = changed
      BY <2>4, <3>1
    <3>8. QED
      BY <3>1, <3>6, <3>7 DEF Fitting, Progress
  <2>11. TargetIsEarly' <=> TargetIsEarly
    BY <2>4 DEF TargetIsEarly
  <2>12. VariantIs'
    BY <2>4, <2>10, <2>11 DEF VariantIs
  <2>13. QED
    BY <1>1, <2>12 DEF VariantInv
<1>7. CASE Resume \/ ReferenceRun \/ SelfFitRun \/ StageReferenceArtifacts \/ InferenceRun
  <2>1. campaign.kind # "benchmark" /\ \/ campaign' = [campaign EXCEPT !.runs = @ + 1]
                                       \/ campaign' = [campaign EXCEPT !.prepared = TRUE]
    BY <1>7 DEF Resume, ReferenceRun, SelfFitRun, StageReferenceArtifacts, InferenceRun, BeginNext
  <2>2. \E runs, prepared :
            campaign' = Campaign(campaign.kind, runs, prepared, campaign.changed,
                                 campaign.target, campaign.tier)
    BY <1>2, <2>1 DEF CampaignTyped, Campaign
  <2>3. campaign'.kind # "benchmark"
    BY <2>1, <2>2 DEF Campaign
  <2>4. QED
    BY <1>1, <2>3 DEF VariantInv
<1>8. CASE RunStep /\ UNCHANGED campaign
  <2>1. campaign' = campaign /\ run.step # "idle" /\ run'.config = run.config
    BY <1>2, <1>8, StatusIs, RunStepTyped
  <2>2. campaign.kind = "benchmark" => VariantIs'
    <3>1. SUFFICES ASSUME campaign.kind = "benchmark" PROVE VariantIs'
      OBVIOUS
    <3>2. VariantIs /\ SourceIs /\ (campaign.runs <= 1 => SourceFits) /\ campaign.runs \in Nat
      BY <1>2, <3>1 DEF VariantInv, BoundaryInv, OperatorInv, CampaignTyped
    <3>3. campaign.runs # 0 /\ ~(campaign.runs = 1 /\ campaign.prepared)
      BY <2>1, <3>2 DEF SourceIs, IsIdle
    <3>4. CASE campaign.runs = 1
      <4>1. SourceFits /\ SourceNotes /\ run.config.start = Unset
        BY <3>2, <3>4 DEF VariantIs
      <4>2. SourceNotes'
        BY <1>2, <1>8, <3>3, <4>1, NotesGoOn DEF SourceFits
      <4>3. QED
        BY <2>1, <3>3, <3>4, <4>1, <4>2 DEF VariantIs
    <3>5. CASE campaign.runs > 1
      <4>1. TargetIsEarly' <=> TargetIsEarly
        BY <2>1 DEF TargetIsEarly
      <4>2. PICK changed : changed = campaign.changed
        OBVIOUS
      <4>3. ASSUME TargetIsEarly
            PROVE  Fitting("copy", changed)' /\ Progress("copy", changed)'
        <5>1. Fitting("copy", changed) /\ Progress("copy", changed)
          BY <3>2, <3>5, <4>2, <4>3 DEF VariantIs
        <5>2. QED
          BY <1>2, <1>8, <5>1, StepProgress
      <4>4. campaign'.changed = changed
        BY <2>1, <4>2
      <4>5. TargetIsEarly' =>
                Fitting("copy", campaign.changed)' /\ Progress("copy", campaign.changed)'
        BY <4>1, <4>3, <4>4 DEF Fitting, Progress
      <4>6. campaign'.runs > 1 /\ ~(campaign'.runs <= 1) /\ campaign'.runs # 1
        BY <2>1, <3>2, <3>5
      <4>7. QED
        BY <4>5, <4>6 DEF VariantIs
    <3>6. QED
      BY <3>2, <3>3, <3>4, <3>5
  <2>3. QED
    BY <1>1, <2>1, <2>2 DEF VariantInv
<1>9. CASE UNCHANGED vars
  <2>1. /\ campaign' = campaign /\ run' = run /\ tables' = tables /\ phaseMode' = phaseMode
        /\ summaries' = summaries /\ runMode' = runMode
    BY <1>9 DEF vars, runVars
  <2>2. SourceNotes' <=> SourceNotes
    BY <2>1 DEF SourceNotes
  <2>3. Fitting("copy", campaign.changed)' <=> Fitting("copy", campaign.changed)
    BY <2>1 DEF Fitting
  <2>4. Progress("copy", campaign.changed)' <=> Progress("copy", campaign.changed)
    BY <2>1 DEF Progress, Selectable, Same, Reached, FirstOf, LastOf
  <2>5. TargetIsEarly' <=> TargetIsEarly
    BY <2>1 DEF TargetIsEarly
  <2>6. VariantIs' <=> VariantIs
    BY <2>1, <2>2, <2>3, <2>4, <2>5 DEF VariantIs
  <2>7. QED
    BY <1>1, <2>1, <2>6 DEF VariantInv
<1>10. QED
  BY <1>4, <1>5, <1>6, <1>7, <1>8, <1>9 DEF Next

\* ReplayRecomputesChanges always holds when tables are overwritten: a variant whose
\* target is no later than the first stage that reads a changed setting leaves what
\* a whole run with the changed settings would leave.
THEOREM ReplaysRecompute ==
    ASSUME WriteMode = "overwrite"
    PROVE  Spec => []ReplayRecomputesChanges
<1>1. VariantInv => ReplayRecomputesChanges
  <2> SUFFICES ASSUME VariantInv, campaign.kind = "benchmark", run.config.dir = "copy",
                      Succeeded,
                      \A knob \in campaign.changed :
                          Position(campaign.target, FullPlan) <= FirstReader(knob)
               PROVE  Holds("copy", FreshTables(run.config.mode, run.config.end, "nominal",
                                                campaign.changed))
    BY DEF ReplayRecomputesChanges
  <2>1. /\ VariantIs /\ SourceIs /\ (campaign.runs <= 1 => SourceFits)
        /\ campaign.runs \in Nat
    BY DEF VariantInv, BoundaryInv, OperatorInv, TypeInv, CampaignTyped
  <2>2. run.status = "success"
    BY DEF Succeeded
  <2>3. campaign.runs > 1
    <3>1. campaign.runs # 0
      BY <2>1, <2>2 DEF SourceFits
    <3>2. campaign.runs # 1
      BY <2>1 DEF SourceIs
    <3>3. QED
      BY <2>1, <3>1, <3>2
  <2>4. TargetIsEarly
    BY DEF TargetIsEarly, Unread
  <2>5. Fitting("copy", campaign.changed) /\ Progress("copy", campaign.changed)
    BY <2>1, <2>3, <2>4 DEF VariantIs
  <2>6. QED
    BY <2>2, <2>5, CompletedIs
<1>2. VariantInv /\ [Next]_vars => VariantInv'
  BY NextVariantInv
<1>3. QED
  BY <1>1, <1>2, InitVariantInv, PTL DEF Spec

-----------------------------------------------------------------------------
(* Inference with the artifacts of another flight.                          *)

InferenceStage(i) == StageScript(InferencePlan[i], "apply_reference")

\* The stages of an inference.
LEMMA InferenceStagesAre ==
    /\ InferenceStage(1) = EventsExtract /\ InferenceStage(2) = WindowsAdaptive
    /\ InferenceStage(3) = WindowFeatures /\ InferenceStage(4) = PhaseApply
    /\ InferenceStage(5) = PhaseLabelCentroids /\ InferenceStage(6) = WindowScoresRaw
    /\ InferenceStage(7) = WindowScoresCalibrate /\ InferenceStage(8) = AnomalyAttribution
    /\ InferenceStage(9) = EmitExplorerBundle
<1>1. /\ InferencePlan[1] = "20" /\ InferencePlan[2] = "30" /\ InferencePlan[3] = "35"
      /\ InferencePlan[4] = "70" /\ InferencePlan[5] = "72" /\ InferencePlan[6] = "80"
      /\ InferencePlan[7] = "85" /\ InferencePlan[8] = "90" /\ InferencePlan[9] = "95"
  BY DEF InferencePlan
<1>2. QED
  BY <1>1 DEF InferenceStage, StageScript

\* The tables that the first k stages of the inference make.
Inferred(k) == UNION {ToSet(InferenceStage(i).writes) : i \in 1..k}

\* What the inference takes from elsewhere: the rows of its flight, and what is
\* fitted.
Given == {"raw_telemetry", "phase_labels"} \cup ReferenceArtifactNames

Infers(i, artifacts) == ToSet(InferenceStage(i).writes) = artifacts

\* What each of them writes.
LEMMA InferredAre ==
    /\ Infers(1, {"events"}) /\ Infers(2, {"windows"}) /\ Infers(3, {"window_features"})
    /\ Infers(4, {"phase_windows"}) /\ Infers(5, {"phase_label_centroids"})
    /\ Infers(6, {"window_scores_raw"}) /\ Infers(7, {"window_scores_calibrated"})
    /\ Infers(8, {"anomaly_window_attribution", "anomaly_telemetry_attribution",
                  "anomaly_event_attribution", "anomaly_parameter_candidate_evidence"})
    /\ Infers(9, {"explorer_bundle"})
<1>1. \A x : ToSet(<<x>>) = {x}
  BY DEF ToSet
<1>2. \A w, x, y, z : ToSet(<<w, x, y, z>>) = {w, x, y, z}
  BY DEF ToSet
<1>3. /\ EventsExtract.writes = <<"events">> /\ WindowsAdaptive.writes = <<"windows">>
      /\ WindowFeatures.writes = <<"window_features">>
  BY DEF EventsExtract, WindowsAdaptive, WindowFeatures, Stage
<1>4. /\ PhaseApply.writes = <<"phase_windows">>
      /\ PhaseLabelCentroids.writes = <<"phase_label_centroids">>
      /\ WindowScoresRaw.writes = <<"window_scores_raw">>
      /\ WindowScoresCalibrate.writes = <<"window_scores_calibrated">>
      /\ AnomalyAttribution.writes =
            <<"anomaly_window_attribution", "anomaly_telemetry_attribution",
              "anomaly_event_attribution", "anomaly_parameter_candidate_evidence">>
      /\ EmitExplorerBundle.writes = <<"explorer_bundle">>
  BY DEF PhaseApply, PhaseLabelCentroids, WindowScoresRaw, WindowScoresCalibrate,
         AnomalyAttribution, EmitExplorerBundle, Stage
<1>5. /\ Infers(1, {"events"}) /\ Infers(2, {"windows"}) /\ Infers(3, {"window_features"})
      /\ Infers(4, {"phase_windows"}) /\ Infers(5, {"phase_label_centroids"})
      /\ Infers(6, {"window_scores_raw"}) /\ Infers(7, {"window_scores_calibrated"})
      /\ Infers(9, {"explorer_bundle"})
  BY <1>1, <1>3, <1>4, InferenceStagesAre DEF Infers
<1>6. Infers(8, {"anomaly_window_attribution", "anomaly_telemetry_attribution",
                 "anomaly_event_attribution", "anomaly_parameter_candidate_evidence"})
  BY <1>2, <1>4, InferenceStagesAre DEF Infers
<1>7. QED
  BY <1>5, <1>6

\* The artifacts of a reference are those that are fitted.
LEMMA FittedAre == Fitted = ReferenceArtifactNames
<1> DEFINE W(script) == ToSet(StageScript(script, "fit").writes)
<1>1. /\ W("10") = {"parameter_datatype_profile", "continuous_scaling_profile"}
      /\ W("12") = {"parameter_behavior_primitive_profile", "parameter_behavior_profile"}
      /\ W("15") = {"parameter_event_profile"} /\ W("25") = {"window_policy_profile"}
      /\ W("50") = {"precision_graph", "event_graph", "lag_profile", "lag_graph",
                    "transition_graph", "fused_graph", "graph_parameter_universe"}
      /\ W("60") = {"hierarchy_sensor_map", "hierarchy_edge_evidence"}
  <2>1. /\ FullPlan[2] = "10" /\ FullPlan[3] = "12" /\ FullPlan[4] = "15"
        /\ FullPlan[6] = "25" /\ FullPlan[9] = "50" /\ FullPlan[10] = "60"
    BY DEF FullPlan
  <2>2. QED
    BY <2>1, WritesAre DEF Writes, FitStage
<1>2. W("40") = {"window_features", "backbone", "backbone_sensor_energy"}
  <2>1. FullPlan[8] = "40"
    BY DEF FullPlan
  <2>2. QED
    BY <2>1, WritesAre DEF Writes, FitStage
<1>3. W("70") = {"phase_windows", "phase_baselines", "phase_reference_model"}
  <2>1. FullPlan[11] = "70"
    BY DEF FullPlan
  <2>2. QED
    BY <2>1, WritesAre DEF Writes, FitStage
<1>4. \A script \in {"10", "12", "15", "25", "50", "60"} : W(script) \subseteq Artifacts
  BY ScriptsAre DEF Artifacts
<1>5. Fitted = {artifact \in Artifacts :
                   \E script \in {"10", "12", "15", "25", "50", "60"} : artifact \in W(script)}
                 \cup {"backbone", "backbone_sensor_energy", "phase_baselines",
                       "phase_reference_model"}
  BY DEF Fitted
<1> HIDE DEF W
<1>6. Fitted = W("10") \cup W("12") \cup W("15") \cup W("25") \cup W("50") \cup W("60")
                 \cup {"backbone", "backbone_sensor_energy", "phase_baselines",
                       "phase_reference_model"}
  BY <1>4, <1>5
<1>7. QED
  BY <1>1, <1>6 DEF ReferenceArtifactNames

\* What a stage of the inference uses is given or made before it, and nothing that
\* it makes is fitted.
LEMMA InferenceNeeds ==
    ASSUME NEW i \in 1..9
    PROVE  /\ InferenceStage(i).reads \cup InferenceStage(i).optional
                 \subseteq Given \cup Inferred(i - 1)
           /\ Inferred(i) = Inferred(i - 1) \cup ToSet(InferenceStage(i).writes)
           /\ ToSet(InferenceStage(i).writes) \cap (Fitted \cup Given) = {}
<1> DEFINE Uses(stage, S) == stage.reads \cup stage.optional \subseteq Given \cup S
           W(j) == ToSet(InferenceStage(j).writes)
<1>1. /\ W(1) = {"events"} /\ W(2) = {"windows"} /\ W(3) = {"window_features"}
      /\ W(4) = {"phase_windows"} /\ W(5) = {"phase_label_centroids"}
      /\ W(6) = {"window_scores_raw"} /\ W(7) = {"window_scores_calibrated"}
      /\ W(8) = {"anomaly_window_attribution", "anomaly_telemetry_attribution",
                 "anomaly_event_attribution", "anomaly_parameter_candidate_evidence"}
      /\ W(9) = {"explorer_bundle"}
  BY InferredAre DEF Infers
<1>2. \A k \in 0..9 : \A j \in 1..k : W(j) \subseteq Inferred(k)
  BY DEF Inferred
<1>3. Inferred(i) = Inferred(i - 1) \cup W(i)
  <2>1. 1..i = (1..(i - 1)) \cup {i}
    OBVIOUS
  <2> HIDE DEF W
  <2>2. \A k : Inferred(k) = UNION {W(j) : j \in 1..k}
    BY DEF Inferred, W
  <2>3. QED
    BY <2>1, <2>2
<1> HIDE DEF W
<1>4. Uses(EventsExtract, {}) /\ Uses(WindowsAdaptive, {"events"})
  BY DEF EventsExtract, WindowsAdaptive, Stage, Given, ReferenceArtifactNames
<1>5. /\ Uses(WindowFeatures, {"events", "windows"})
      /\ Uses(PhaseApply, {"events", "windows", "window_features"})
  BY DEF WindowFeatures, PhaseApply, Stage, Given, ReferenceArtifactNames
<1>6. /\ Uses(PhaseLabelCentroids, {"phase_windows"})
      /\ Uses(WindowScoresRaw, {"events", "windows", "phase_windows"})
      /\ Uses(WindowScoresCalibrate, {"window_scores_raw"})
  BY DEF PhaseLabelCentroids, WindowScoresRaw, WindowScoresCalibrate, Stage, Given,
         ReferenceArtifactNames
<1>7. /\ Uses(AnomalyAttribution,
              {"events", "windows", "phase_windows", "window_scores_calibrated"})
      /\ Uses(EmitExplorerBundle,
              {"events", "phase_windows", "anomaly_window_attribution",
               "anomaly_telemetry_attribution", "anomaly_event_attribution"})
  BY DEF AnomalyAttribution, EmitExplorerBundle, Stage, Given, ReferenceArtifactNames
<1>8. \A stage, S, T : Uses(stage, S) /\ S \subseteq T => Uses(stage, T)
  OBVIOUS
<1> HIDE DEF Uses
<1>9. i \in {1, 2, 3, 4, 5, 6, 7, 8, 9} /\ i - 1 \in 0..9
  OBVIOUS
<1>10. Uses(InferenceStage(i), Inferred(i - 1))
  <2>1. CASE i = 1
    BY <1>4, <1>8, <2>1, InferenceStagesAre
  <2>2. CASE i = 2
    <3>1. {"events"} \subseteq Inferred(1)
      BY <1>1, <1>2
    <3>2. QED
      BY <1>4, <1>8, <2>2, <3>1, InferenceStagesAre
  <2>3. CASE i = 3
    <3>1. {"events", "windows"} \subseteq Inferred(2)
      BY <1>1, <1>2
    <3>2. QED
      BY <1>5, <1>8, <2>3, <3>1, InferenceStagesAre
  <2>4. CASE i = 4
    <3>1. {"events", "windows", "window_features"} \subseteq Inferred(3)
      BY <1>1, <1>2
    <3>2. QED
      BY <1>5, <1>8, <2>4, <3>1, InferenceStagesAre
  <2>5. CASE i = 5
    <3>1. {"phase_windows"} \subseteq Inferred(4)
      BY <1>1, <1>2
    <3>2. QED
      BY <1>6, <1>8, <2>5, <3>1, InferenceStagesAre
  <2>6. CASE i = 6
    <3>1. {"events", "windows", "phase_windows"} \subseteq Inferred(5)
      BY <1>1, <1>2
    <3>2. QED
      BY <1>6, <1>8, <2>6, <3>1, InferenceStagesAre
  <2>7. CASE i = 7
    <3>1. {"window_scores_raw"} \subseteq Inferred(6)
      BY <1>1, <1>2
    <3>2. QED
      BY <1>6, <1>8, <2>7, <3>1, InferenceStagesAre
  <2>8. CASE i = 8
    <3>1. {"events", "windows", "phase_windows", "window_scores_calibrated"} \subseteq Inferred(7)
      BY <1>1, <1>2
    <3>2. QED
      BY <1>7, <1>8, <2>8, <3>1, InferenceStagesAre
  <2>9. CASE i = 9
    <3>1. {"events", "phase_windows", "anomaly_window_attribution",
           "anomaly_telemetry_attribution", "anomaly_event_attribution"} \subseteq Inferred(8)
      BY <1>1, <1>2
    <3>2. QED
      BY <1>7, <1>8, <2>9, <3>1, InferenceStagesAre
  <2>10. QED
    BY <1>9, <2>1, <2>2, <2>3, <2>4, <2>5, <2>6, <2>7, <2>8, <2>9
<1>11. W(i) \cap (Fitted \cup Given) = {}
  <2>1. Fitted \cup Given = {"raw_telemetry", "phase_labels"} \cup ReferenceArtifactNames
    BY FittedAre DEF Given
  <2>2. QED
    BY <1>1, <1>9, <2>1 DEF ReferenceArtifactNames
<1>12. QED
  BY <1>3, <1>10, <1>11 DEF Uses, W

\* Rows of the faulted flight, and models fitted on the nominal one.
Allowed == {<<"live", "faulted">>, <<"fit", "nominal">>}

\* The tables of S pass on nothing else.
Clean(ts, S) ==
    \A artifact \in S :
        artifact \in DOMAIN ts => FlightsThrough(artifact, ts[artifact]) \subseteq Allowed

\* Nor does a stage that uses no other table.
LEMMA CleanComputes ==
    ASSUME NEW ts, NEW S, Clean(ts, S), NEW stage, CanRun(stage, ts),
           stage.reads \cup stage.optional \subseteq S, NEW script, NEW changed
    PROVE  Computed(script, stage, ts, changed).flights \subseteq Allowed
<1>1. PICK inputs : inputs = InputsOf(stage, ts)
  OBVIOUS
<1>2. inputs \subseteq S /\ inputs \subseteq DOMAIN ts
  BY <1>1 DEF InputsOf, CanRun
<1>3. \A artifact \in inputs : FlightsThrough(artifact, ts[artifact]) \subseteq Allowed
  BY <1>2 DEF Clean
<1>4. Computed(script, stage, ts, changed).flights
         = UNION {FlightsThrough(artifact, ts[artifact]) : artifact \in inputs}
  BY <1>1 DEF Computed, Table
<1>5. QED
  BY <1>3, <1>4

\* What a stage of the inference leaves.
LEMMA CleanWrites ==
    ASSUME NEW i \in 1..9, NEW ts, Clean(ts, Given \cup Inferred(i - 1)), NEW stage,
           stage = InferenceStage(i), CanRun(stage, ts), NEW script, NEW changed,
           NEW count, Written(stage, count) \subseteq ToSet(stage.writes), NEW after,
           Ran(ts, after, stage, Computed(script, stage, ts, changed), count, "overwrite")
    PROVE  Clean(after, Given \cup Inferred(i - 1) \cup Written(stage, count))
<1>1. PICK made : made = Computed(script, stage, ts, changed)
  OBVIOUS
<1>2. made.flights \subseteq Allowed
  BY <1>1, InferenceNeeds, CleanComputes
<1>3. Ran(ts, after, stage, made, count, "overwrite")
  BY <1>1
<1>4. \A artifact \in Written(stage, count) : after[artifact] = made /\ artifact \notin Fitted
  BY <1>3, OverwritingIs, InferenceNeeds
<1>5. \A artifact \in Written(stage, count) :
          FlightsThrough(artifact, after[artifact]) \subseteq Allowed
  BY <1>2, <1>4 DEF FlightsThrough
<1>6. PICK S : S = Given \cup Inferred(i - 1)
  OBVIOUS
<1>7. Clean(ts, S)
  BY <1>6
<1>8. \A artifact \in S \ Written(stage, count) :
          artifact \in DOMAIN after => artifact \in DOMAIN ts /\ after[artifact] = ts[artifact]
  BY <1>3 DEF Ran
<1>9. Clean(after, S \cup Written(stage, count))
  BY <1>5, <1>7, <1>8 DEF Clean
<1>10. QED
  BY <1>6, <1>9

-----------------------------------------------------------------------------
(* The rows of the faulted flight.                                          *)

Observed == {"raw_input", "phase_labels", "raw_telemetry"}

\* The rows of the faulted flight come from it alone.
Live(ts) ==
    \A artifact \in Observed :
        artifact \in DOMAIN ts => ts[artifact].flights \subseteq {<<"live", "faulted">>}

\* Only the ingestion writes such a table, and from the raw input alone.
KeepsLive(stage) ==
    /\ ToSet(stage.writes) \cap Observed \subseteq {"raw_telemetry"}
    /\ "raw_telemetry" \in ToSet(stage.writes) =>
          stage.reads = {"raw_input"} /\ stage.optional = {}

\* So it is with every stage, in either phase mode.
LEMMA StagesKeepLive ==
    ASSUME NEW script \in Scripts, NEW mode \in PhaseModes
    PROVE  KeepsLive(StageScript(script, mode))
<1>1. KeepsLive(IngestRaw) /\ KeepsLive(ParameterProfiles) /\ KeepsLive(BehaviorProfiles)
  BY DEF KeepsLive, Observed, ToSet, IngestRaw, ParameterProfiles, BehaviorProfiles, Fit, Stage
<1>2. KeepsLive(EventProfiles) /\ KeepsLive(EventsExtract) /\ KeepsLive(WindowPolicy)
  BY DEF KeepsLive, Observed, ToSet, EventProfiles, EventsExtract, WindowPolicy, Fit, Stage
<1>3. KeepsLive(WindowsAdaptive) /\ KeepsLive(WindowFeatures) /\ KeepsLive(BackboneFit)
  BY DEF KeepsLive, Observed, ToSet, WindowsAdaptive, WindowFeatures, BackboneFit, Fit, Stage
<1>4. KeepsLive(BuildGraph) /\ KeepsLive(FitHierarchy)
  BY DEF KeepsLive, Observed, ToSet, BuildGraph, FitHierarchy, Fit, Stage
<1>5. KeepsLive(PhaseFit) /\ KeepsLive(PhaseApply) /\ KeepsLive(PhaseLabelCentroids)
  BY DEF KeepsLive, Observed, ToSet, PhaseFit, PhaseApply, PhaseLabelCentroids, Stage
<1>6. KeepsLive(WindowScoresRaw) /\ KeepsLive(WindowScoresCalibrate)
  BY DEF KeepsLive, Observed, ToSet, WindowScoresRaw, WindowScoresCalibrate, Stage
<1>7. KeepsLive(AnomalyAttribution) /\ KeepsLive(EmitExplorerBundle)
  BY DEF KeepsLive, Observed, ToSet, AnomalyAttribution, EmitExplorerBundle, Stage
<1>8. QED
  BY <1>1, <1>2, <1>3, <1>4, <1>5, <1>6, <1>7, ScriptsAre DEF StageScript

\* A stage keeps tables live.
LEMMA LiveStays ==
    ASSUME NEW script \in Scripts, NEW mode \in PhaseModes, NEW stage,
           stage = StageScript(script, mode), NEW ts, Live(ts), CanRun(stage, ts), NEW changed,
           NEW count, Written(stage, count) \subseteq ToSet(stage.writes), NEW after,
           Ran(ts, after, stage, Computed(script, stage, ts, changed), count, "overwrite")
    PROVE  Live(after)
<1>1. PICK made : made = Computed(script, stage, ts, changed)
  OBVIOUS
<1>2. Ran(ts, after, stage, made, count, "overwrite")
  BY <1>1
<1>3. KeepsLive(stage)
  BY StagesKeepLive
<1>4. ASSUME "raw_telemetry" \in Written(stage, count)
      PROVE  after["raw_telemetry"].flights \subseteq {<<"live", "faulted">>}
  <2>1. stage.reads = {"raw_input"} /\ stage.optional = {}
    BY <1>3, <1>4 DEF KeepsLive
  <2>2. InputsOf(stage, ts) = {"raw_input"} /\ "raw_input" \in DOMAIN ts
    BY <2>1 DEF InputsOf, CanRun
  <2>3. ts["raw_input"].flights \subseteq {<<"live", "faulted">>}
    BY <2>2 DEF Live, Observed
  <2>4. "raw_input" \notin Fitted
    BY FittedAre DEF ReferenceArtifactNames
  <2>5. made.flights
           = UNION {FlightsThrough(artifact, ts[artifact]) : artifact \in {"raw_input"}}
    BY <1>1, <2>2 DEF Computed, Table
  <2>6. FlightsThrough("raw_input", ts["raw_input"]) = ts["raw_input"].flights
    BY <2>4 DEF FlightsThrough
  <2>7. made.flights \subseteq {<<"live", "faulted">>}
    BY <2>3, <2>5, <2>6
  <2>8. QED
    BY <1>2, <1>4, <2>7, OverwritingIs
<1>5. ASSUME NEW artifact \in Observed, artifact \in DOMAIN after
      PROVE  after[artifact].flights \subseteq {<<"live", "faulted">>}
  <2>1. CASE artifact \in Written(stage, count)
    <3>1. artifact = "raw_telemetry"
      BY <1>3, <1>5, <2>1 DEF KeepsLive
    <3>2. QED
      BY <1>4, <2>1, <3>1
  <2>2. CASE artifact \notin Written(stage, count)
    <3>1. artifact \in DOMAIN ts /\ after[artifact] = ts[artifact]
      BY <1>2, <1>5, <2>2 DEF Ran
    <3>2. QED
      BY <1>5, <3>1 DEF Live
  <2>3. QED
    BY <2>1, <2>2
<1>6. QED
  BY <1>5 DEF Live

\* The inference has done the first stages of its plan, and what it uses or has
\* made passes on nothing but what is allowed.
Inferring ==
    /\ run.config.dir = "copy" /\ run.config.mode = "reference_inference"
    /\ run.config.start = Unset /\ run.config.end = Unset
    /\ run.step = "stages" => phaseMode = "apply_reference"
    /\ Len(run.done) \in 0..9
    /\ \A i \in 1..Len(run.done) : run.done[i] = InferencePlan[i]
    /\ Clean(tables["copy"], Given \cup Inferred(Len(run.done)))
    /\ Inferred(Len(run.done)) \subseteq DOMAIN tables["copy"]

\* Without a start and an end the inference is all of its plan.
LEMMA InferenceIs ==
    ASSUME NEW stages,
           stages = SelectedStageScripts(Plan["reference_inference"], Unset, Unset)
    PROVE  /\ stages \in Seq(Scripts) /\ Len(stages) = 9
           /\ \A i \in 1..9 : stages[i] = InferencePlan[i]
           /\ Head(stages) = "20"
<1>1. PICK plan : plan = Plan["reference_inference"]
  OBVIOUS
<1>2. "reference_inference" \in DOMAIN Plan /\ plan = InferencePlan
  BY <1>1 DEF Plan
<1>3. Len(plan) = 9 /\ plan[1] = "20"
  BY <1>2 DEF InferencePlan
<1>4. StartIndex(plan, Unset) = 1 /\ EndIndex(plan, Unset) = 9
  BY <1>3 DEF StartIndex, EndIndex
<1>5. IsSelectable(plan, Unset, Unset)
  BY <1>4 DEF IsSelectable
<1>6. Selects(stages, plan, 1, 9)
  BY <1>1, <1>2, <1>4, <1>5, SelectionIs
<1>7. /\ stages \in Seq(Scripts) /\ Len(stages) = 9 /\ Head(stages) = "20"
      /\ \A i \in 1..9 : stages[i] = plan[i]
  BY <1>3, <1>6 DEF Selects
<1>8. QED
  BY <1>2, <1>7

\* Whatever comes of its begin, a run starts.
LEMMA BeginStarts ==
    ASSUME NEW config, Begin(config)
    PROVE  \E step, status, left : run' = Started(config, step, status, left)
  BY DEF Begin

\* The inference begins without seeds.
LEMMA InferenceBegins ==
    ASSUME RunInv, Clean(tables["copy"], Given), NEW config, Begin(config),
           config = Config("reference_inference", "copy", TRUE, Unset, Unset, {}, "faulted")
    PROVE  Inferring'
<1>1. /\ config.mode = "reference_inference" /\ config.dir = "copy" /\ config.replay
      /\ config.start = Unset /\ config.end = Unset /\ config.flight = "faulted"
  BY DEF Config
<1>2. "copy" \in Dirs /\ "faulted" \in Flights
  BY ReplayCampaignAssumption DEF Flights
<1>3. PICK stages : stages = SelectedStageScripts(Plan[config.mode], config.start, config.end)
  OBVIOUS
<1>4. Head(stages) = "20"
  BY <1>1, <1>3, InferenceIs
<1>5. ~ShouldWriteSeeds(config, stages)
  BY <1>1, <1>4 DEF ShouldWriteSeeds
<1>6. Inferred(0) = {} /\ \E step, status, left : run' = Started(config, step, status, left)
  <2>1. Inferred(0) = {}
    BY DEF Inferred
  <2>2. \E step, status, left : run' = Started(config, step, status, left)
    BY BeginStarts
  <2>3. QED
    BY <2>1, <2>2
<1>7. run'.config = config /\ run'.done = <<>>
  BY <1>6, StartedIs
<1>8. run'.step = "stages" => phaseMode' = "apply_reference"
  <2>1. CASE ~ModeIsLegal(config)
    <3>1. run' = Started(config, "reports", "failed", <<>>)
      BY <2>1 DEF Begin
    <3>2. QED
      BY <3>1, StartedIs
  <2>2. CASE ModeIsLegal(config)
    BY <1>1, <2>2 DEF Begin, PhaseModeFor
  <2>3. QED
    BY <2>1, <2>2
<1>9. \/ tables' = tables
      \/ tables' = [tables EXCEPT !["copy"] = Seeded(@, "faulted", 0)]
  <2>1. CASE ~ModeIsLegal(config)
    BY <2>1 DEF Begin
  <2>2. CASE ModeIsLegal(config)
    <3>1. PICK seeds : seeds = IF ShouldWriteSeeds(config, stages)
                               THEN Len(SeedTables(config.flight)) ELSE 0
      OBVIOUS
    <3>2. seeds = 0
      BY <1>5, <3>1
    <3>3. \/ tables' = [tables EXCEPT ![config.dir] = Seeded(@, config.flight, seeds)]
          \/ \E count \in 0..seeds - 1 : TRUE
      BY <1>3, <2>2, <3>1 DEF Begin
    <3>4. ~\E count \in 0..seeds - 1 : TRUE
      BY <3>2
    <3>5. QED
      BY <1>1, <3>2, <3>3, <3>4
  <2>3. QED
    BY <2>1, <2>2
<1>10. Clean(tables'["copy"], Given)
  <2>1. CASE tables' = tables
    BY <2>1
  <2>2. CASE tables' = [tables EXCEPT !["copy"] = Seeded(@, "faulted", 0)]
    <3>1. PICK ts, after : ts = tables["copy"] /\ after = tables'["copy"]
      OBVIOUS
    <3>2. after = Seeded(ts, "faulted", 0)
      BY <1>2, <2>2, <3>1 DEF RunInv, TablesTyped
    <3>3. 0 \in 0..Len(SeedTables("faulted"))
      <4>1. SeedTables("faulted") \in Seq(Artifacts)
        BY <1>2, SeedsAre
      <4>2. QED
        BY <4>1
    <3>4. SeededBy(ts, after, "faulted", 0)
      BY <1>2, <3>2, <3>3, SeededIs
    <3>5. SeedNames("faulted", 0) = {}
      BY DEF SeedNames
    <3>6. DOMAIN after = DOMAIN ts /\ \A artifact \in DOMAIN ts : after[artifact] = ts[artifact]
      BY <3>4, <3>5 DEF SeededBy
    <3>7. Clean(ts, Given)
      BY <3>1
    <3>8. Clean(after, Given)
      BY <3>6, <3>7 DEF Clean
    <3>9. QED
      BY <3>1, <3>8
  <2>3. QED
    BY <1>9, <2>1, <2>2
<1>11. Len(run'.done) = 0
  BY <1>7
<1>12. Given \cup Inferred(0) = Given
  BY <1>6
<1>13. /\ Len(run'.done) \in 0..9
       /\ \A i \in 1..Len(run'.done) : run'.done[i] = InferencePlan[i]
  BY <1>11
<1>14. QED
  BY <1>1, <1>6, <1>7, <1>8, <1>10, <1>11, <1>12, <1>13 DEF Inferring

\* The next stage of the inference is the one after those done.
LEMMA InferenceNext ==
    ASSUME RunInv, Inferring, run.step = "stages", run.stages # <<>>
    PROVE  /\ Len(run.done) + 1 \in 1..9
           /\ NextScript = InferencePlan[Len(run.done) + 1]
           /\ NextStage = InferenceStage(Len(run.done) + 1)
<1>1. PICK done, stages : done = run.done /\ stages = run.stages
  OBVIOUS
<1>2. PICK all : all = SelectedStageScripts(Plan["reference_inference"], Unset, Unset)
  OBVIOUS
<1>3. /\ done \in Seq(Scripts) /\ stages \in Seq(Scripts) /\ done \o stages = all
      /\ stages # <<>>
  BY <1>1, <1>2 DEF RunInv, RunTyped, Inferring
<1>4. Len(all) = 9 /\ \A i \in 1..9 : all[i] = InferencePlan[i]
  BY <1>2, InferenceIs
<1>5. Len(stages) > 0 /\ Len(done) + Len(stages) = 9 /\ Len(done) \in Nat /\ Len(stages) \in Nat
  <2>1. Len(done) \in Nat /\ Len(stages) \in Nat /\ Len(done \o stages) = Len(done) + Len(stages)
    BY <1>3
  <2>2. Len(stages) > 0
    BY <1>3
  <2>3. QED
    BY <1>3, <1>4, <2>1, <2>2
<1>6. Len(done) + 1 \in 1..9
  BY <1>5
<1>7. all[Len(done) + 1] = Head(stages)
  BY <1>3, <1>5
<1>8. NextScript = InferencePlan[Len(done) + 1]
  BY <1>1, <1>4, <1>6, <1>7 DEF NextScript
<1>9. NextStage = InferenceStage(Len(done) + 1)
  BY <1>8 DEF NextStage, InferenceStage, Inferring
<1>10. QED
  BY <1>1, <1>6, <1>8, <1>9

\* It leaves tables that pass on nothing else.
LEMMA InferenceWrites ==
    ASSUME RunInv, Inferring, run.step = "stages", run.stages # <<>>, WriteMode = "overwrite",
           CanRun(NextStage, dirTables), NEW count \in 0..Len(NextStage.writes),
           tables' = TablesAfter(count), NEW i, i = Len(run.done) + 1
    PROVE  /\ Clean(tables'["copy"],
                    Given \cup Inferred(i - 1) \cup Written(NextStage, count))
           /\ DOMAIN tables'["copy"] = DOMAIN tables["copy"] \cup Written(NextStage, count)
           /\ i - 1 = Len(run.done) /\ i \in 1..9
<1>1. i \in 1..9 /\ NextStage = InferenceStage(i)
  BY InferenceNext
<1>2. i - 1 = Len(run.done)
  BY DEF Inferring
<1>3. PICK ts, after : ts = tables["copy"] /\ after = tables'["copy"]
  OBVIOUS
<1>4. PICK script : script = NextScript
  OBVIOUS
<1>5. PICK stage : stage = NextStage
  OBVIOUS
<1>6. PICK changed : changed = run.config.changed
  OBVIOUS
<1>7. dirTables = ts
  BY <1>3 DEF dirTables, Inferring
<1>8. Ran(ts, after, stage, Computed(script, stage, ts, changed), count, "overwrite")
  BY <1>3, <1>4, <1>5, <1>6, <1>7, TablesAfterIs DEF Inferring
<1>9. Written(stage, count) \subseteq ToSet(stage.writes)
  BY <1>5, NextStageIs, WrittenIs
<1>10. Clean(ts, Given \cup Inferred(i - 1)) /\ CanRun(stage, ts) /\ stage = InferenceStage(i)
  BY <1>1, <1>2, <1>3, <1>5, <1>7 DEF Inferring
<1>11. Clean(after, Given \cup Inferred(i - 1) \cup Written(stage, count))
  BY <1>1, <1>8, <1>9, <1>10, CleanWrites
<1>12. DOMAIN after = DOMAIN ts \cup Written(stage, count)
  BY <1>8 DEF Ran
<1>13. QED
  BY <1>1, <1>2, <1>3, <1>5, <1>11, <1>12

\* A step of the inference keeps it so.
LEMMA InferenceGoesOn ==
    ASSUME RunInv, RunStep, Inferring, WriteMode = "overwrite"
    PROVE  Inferring'
<1>1. run'.config = run.config
  BY RunStepTyped
<1>2. PICK i : i = Len(run.done) + 1
  OBVIOUS
<1>3. CASE RunStage
  <2>1. /\ run.step = "stages" /\ run.stages # <<>> /\ CanRun(NextStage, dirTables)
        /\ tables' = TablesAfter(Len(NextStage.writes)) /\ phaseMode' = phaseMode
    BY <1>3 DEF RunStage
  <2>2. run'.done = Append(run.done, NextScript) /\ run'.step = run.step
    BY <1>3, RunStageTyped DEF RunInv, RunTyped
  <2>3. PICK n : n = Len(NextStage.writes)
    OBVIOUS
  <2>4. n \in 0..Len(NextStage.writes)
    BY <2>1, <2>3, NextStageIs
  <2>5. PICK made : made = Written(NextStage, n)
    OBVIOUS
  <2>6. /\ Clean(tables'["copy"], Given \cup Inferred(i - 1) \cup made)
        /\ DOMAIN tables'["copy"] = DOMAIN tables["copy"] \cup made
        /\ i - 1 = Len(run.done) /\ i \in 1..9
    BY <1>2, <2>1, <2>3, <2>4, <2>5, InferenceWrites
  <2>7. NextStage = InferenceStage(i) /\ NextScript = InferencePlan[i] /\ NextScript \in Scripts
    BY <1>2, <2>1, InferenceNext, NextStageIs
  <2>8. made = ToSet(InferenceStage(i).writes)
    BY <2>1, <2>3, <2>4, <2>5, <2>7, NextStageIs, WrittenIs
  <2>9. Inferred(i) = Inferred(i - 1) \cup made
    BY <2>6, <2>8, InferenceNeeds
  <2>10. PICK done, script : done = run.done /\ script = NextScript
    OBVIOUS
  <2>11. done \in Seq(Scripts) /\ script \in Scripts /\ run'.done = Append(done, script)
    BY <2>2, <2>7, <2>10 DEF RunInv, RunTyped
  <2>12. /\ Len(run'.done) = Len(done) + 1
         /\ \A j \in 1..Len(done) : run'.done[j] = done[j]
         /\ run'.done[Len(done) + 1] = script
    BY <2>11
  <2>13. Len(run'.done) = i
    BY <1>2, <2>10, <2>12
  <2>14. \A j \in 1..i : run'.done[j] = InferencePlan[j]
    <3>1. \A j \in 1..i : j \in 1..(i - 1) \/ j = i
      BY <2>6
    <3>2. \A j \in 1..(i - 1) : done[j] = InferencePlan[j] /\ run'.done[j] = done[j]
      BY <2>6, <2>10, <2>12 DEF Inferring
    <3>3. run'.done[i] = InferencePlan[i]
      BY <1>2, <2>7, <2>10, <2>12
    <3>4. QED
      BY <3>1, <3>2, <3>3
  <2>15. Clean(tables'["copy"], Given \cup Inferred(i))
    <3>1. Given \cup Inferred(i) = Given \cup Inferred(i - 1) \cup made
      BY <2>9
    <3>2. QED
      BY <2>6, <3>1
  <2>16. Inferred(i) \subseteq DOMAIN tables'["copy"]
    BY <2>6, <2>9 DEF Inferring
  <2>17. i \in 0..9
    BY <2>6
  <2>18. QED
    BY <1>1, <2>1, <2>2, <2>13, <2>14, <2>15, <2>16, <2>17 DEF Inferring
<1>4. CASE StageFails
  <2>1. /\ run.step = "stages" /\ run.stages # <<>>
        /\ run'.step = "reports" /\ run'.done = run.done
    BY <1>4, StageFailsTyped DEF StageFails
  <2>2. /\ Clean(tables'["copy"], Given \cup Inferred(Len(run.done)))
        /\ DOMAIN tables["copy"] \subseteq DOMAIN tables'["copy"]
    <3>1. CASE tables' = tables
      BY <3>1 DEF Inferring
    <3>2. CASE /\ CanRun(NextStage, dirTables)
               /\ \E count \in 0..Len(NextStage.writes) : tables' = TablesAfter(count)
      <4>1. PICK count \in 0..Len(NextStage.writes) : tables' = TablesAfter(count)
        BY <3>2
      <4>2. PICK made : made = Written(NextStage, count)
        OBVIOUS
      <4>3. /\ Clean(tables'["copy"], Given \cup Inferred(i - 1) \cup made)
            /\ DOMAIN tables'["copy"] = DOMAIN tables["copy"] \cup made
            /\ i - 1 = Len(run.done)
        BY <1>2, <2>1, <3>2, <4>1, <4>2, InferenceWrites
      <4>4. QED
        BY <4>3 DEF Clean
    <3>3. QED
      BY <1>4, <3>1, <3>2 DEF StageFails
  <2>3. QED
    BY <1>1, <2>1, <2>2 DEF Inferring
<1>5. CASE EndStages \/ Finish
  <2>1. tables' = tables /\ run'.done = run.done /\ run'.step # "stages"
    BY <1>5, EndStagesTyped, FinishTyped DEF EndStages, Finish
  <2>2. QED
    BY <1>1, <2>1 DEF Inferring
<1>6. QED
  BY <1>3, <1>4, <1>5 DEF RunStep

-----------------------------------------------------------------------------
(* The runs before the inference.                                           *)

\* A run keeps what its tables are made of, and the rows of the faulted flight.
LEMMA FlightsStay ==
    ASSUME RunInv, RunStep, WriteMode = "overwrite", NEW dir, dir = run.config.dir
    PROVE  /\ \A X : TablesAre(tables[dir], X) => TablesAre(tables'[dir], X)
           /\ Live(tables[dir]) => Live(tables'[dir])
<1>1. ASSUME run.step = "stages", run.stages # <<>>, CanRun(NextStage, dirTables),
             NEW count \in 0..Len(NextStage.writes), tables' = TablesAfter(count)
      PROVE  /\ \A X : TablesAre(tables[dir], X) => TablesAre(tables'[dir], X)
             /\ Live(tables[dir]) => Live(tables'[dir])
  <2>1. PICK ts, after : ts = tables[dir] /\ after = tables'[dir]
    OBVIOUS
  <2>2. PICK script, stage : script = NextScript /\ stage = NextStage
    OBVIOUS
  <2>3. PICK changed : changed = run.config.changed
    OBVIOUS
  <2>4. Ran(ts, after, stage, Computed(script, stage, ts, changed), count, "overwrite")
    BY <1>1, <2>1, <2>2, <2>3, TablesAfterIs DEF dirTables
  <2>5. PICK mode : mode = phaseMode
    OBVIOUS
  <2>6. script \in Scripts /\ mode \in PhaseModes /\ stage = StageScript(script, mode)
    BY <1>1, <2>2, <2>5, NextStageIs
  <2>7. CanRun(stage, ts) /\ count \in 0..Len(stage.writes)
    BY <1>1, <2>1, <2>2 DEF dirTables
  <2>8. \A X : TablesAre(ts, X) => TablesAre(after, X)
    BY <2>4, <2>6, <2>7, RanKeeps
  <2>9. Written(stage, count) \subseteq ToSet(stage.writes)
    BY <2>6, <2>7, WrittenIs
  <2>10. Live(ts) => Live(after)
    BY <2>4, <2>6, <2>7, <2>9, LiveStays
  <2>11. QED
    BY <2>1, <2>8, <2>10
<1>2. CASE tables' = tables
  BY <1>2
<1>3. CASE tables' # tables
  <2>1. /\ run.step = "stages" /\ run.stages # <<>> /\ CanRun(NextStage, dirTables)
        /\ \/ tables' = TablesAfter(Len(NextStage.writes))
           \/ \E count \in 0..Len(NextStage.writes) : tables' = TablesAfter(count)
    BY <1>3 DEF RunStep, RunStage, StageFails, EndStages, Finish
  <2>2. Len(NextStage.writes) \in 0..Len(NextStage.writes)
    BY <2>1, NextStageIs
  <2>3. QED
    BY <1>1, <2>1, <2>2
<1>4. QED
  BY <1>2, <1>3

\* So do the seeds, and no other directory is written.
LEMMA SeedsStay ==
    ASSUME RunInv, NEW config, ConfigTyped(config), Begin(config),
           NEW dir, NEW flight, dir = config.dir, flight = config.flight
    PROVE  /\ \A X : flight \in X /\ TablesAre(tables[dir], X) => TablesAre(tables'[dir], X)
           /\ flight = "faulted" /\ Live(tables[dir]) => Live(tables'[dir])
           /\ \A other \in Dirs \ {dir} : tables'[other] = tables[other]
<1>1. CASE tables' = tables
  BY <1>1
<1>2. CASE \E count \in 0..Len(SeedTables(flight)) : Sown(config, count)
  <2>1. PICK count \in 0..Len(SeedTables(flight)) : Sown(config, count)
    BY <1>2
  <2>2. PICK ts, after : ts = tables[dir] /\ after = tables'[dir]
    OBVIOUS
  <2>3. tables' = [tables EXCEPT ![dir] = Seeded(@, flight, count)]
    BY <2>1 DEF Sown
  <2>4. /\ after = Seeded(ts, flight, count)
        /\ \A other \in Dirs \ {dir} : tables'[other] = tables[other]
    BY <2>2, <2>3 DEF RunInv, TablesTyped, ConfigTyped
  <2>5. flight \in Flights
    BY DEF ConfigTyped
  <2>6. \A X : flight \in X /\ TablesAre(ts, X) => TablesAre(after, X)
    BY <2>4, <2>5, SeededKeeps
  <2>7. SeededBy(ts, after, flight, count)
    BY <2>4, <2>5, SeededIs
  <2>8. flight = "faulted" /\ Live(ts) => Live(after)
    <3>1. SeedTable("faulted").flights = {<<"live", "faulted">>}
      BY DEF SeedTable, Table
    <3>2. QED
      BY <2>7, <3>1 DEF SeededBy, Live
  <2>9. QED
    BY <2>2, <2>4, <2>6, <2>8
<1>3. QED
  BY <1>1, <1>2, BeginSows

\* What is staged for the inference passes on nothing else.
LEMMA StagedIsClean ==
    ASSUME RunInv, StageReferenceArtifacts, TablesAre(tables["source"], {"nominal"}),
           Live(tables["other"])
    PROVE  Clean(tables'["copy"], Given)
<1>1. PICK source, other, copy :
          source = tables["source"] /\ other = tables["other"] /\ copy = tables'["copy"]
  OBVIOUS
<1>2. /\ ReferenceArtifactNames \subseteq DOMAIN source
      /\ copy = Replacing(other, [artifact \in ReferenceArtifactNames |-> source[artifact]])
  BY <1>1, ReplayCampaignAssumption DEF StageReferenceArtifacts, RunInv, TablesTyped
<1>3. /\ \A artifact \in ReferenceArtifactNames : copy[artifact] = source[artifact]
      /\ \A artifact \in DOMAIN copy : artifact \notin ReferenceArtifactNames =>
            artifact \in DOMAIN other /\ copy[artifact] = other[artifact]
  BY <1>2 DEF Replacing
<1>4. ASSUME NEW artifact \in ReferenceArtifactNames
      PROVE  FlightsThrough(artifact, copy[artifact]) \subseteq Allowed
  <2>1. source[artifact].flights \subseteq {"live", "fit"} \X {"nominal"}
    BY <1>1, <1>2 DEF TablesAre
  <2>2. artifact \in Fitted
    BY FittedAre
  <2>3. \A s \in {"live", "fit"} \X {"nominal"} : s[2] = "nominal"
    OBVIOUS
  <2>4. FlightsThrough(artifact, copy[artifact])
           = {<<"fit", s[2]>> : s \in source[artifact].flights}
    BY <1>3, <2>2 DEF FlightsThrough
  <2>5. QED
    BY <2>1, <2>3, <2>4 DEF Allowed
<1>5. ASSUME NEW artifact \in {"raw_telemetry", "phase_labels"}, artifact \in DOMAIN copy
      PROVE  FlightsThrough(artifact, copy[artifact]) \subseteq Allowed
  <2>1. artifact \notin ReferenceArtifactNames /\ artifact \notin Fitted
    BY FittedAre DEF ReferenceArtifactNames
  <2>2. artifact \in DOMAIN other /\ copy[artifact] = other[artifact]
    BY <1>3, <1>5, <2>1
  <2>3. other[artifact].flights \subseteq {<<"live", "faulted">>}
    BY <1>1, <2>2 DEF Live, Observed
  <2>4. QED
    BY <2>1, <2>2, <2>3 DEF FlightsThrough, Allowed
<1>6. Clean(copy, Given)
  BY <1>4, <1>5 DEF Clean, Given
<1>7. QED
  BY <1>1, <1>6

\* A pair runs the nominal flight, then the faulted one, each in a directory of its
\* own, and then infers in a copy that holds nothing else of either.
PairIs ==
    /\ campaign.runs = 0 => IsIdle /\ run.done = <<>>
    /\ campaign.runs = 1 => run.config.dir = "source"
    /\ campaign.runs <= 1 => ~campaign.prepared
    /\ campaign.runs = 2 => run.config.dir = "other"
    /\ campaign.runs <= 2 => TablesAre(tables["source"], {"nominal"}) /\ Live(tables["other"])
    /\ campaign.runs = 2 /\ campaign.prepared => IsIdle /\ Clean(tables["copy"], Given)
    /\ campaign.runs > 2 => Inferring

PairInv == TypeInv /\ (campaign.kind = "pair" => PairIs)

\* At first there are no tables.
LEMMA InitPairInv == Init => PairInv
<1> SUFFICES ASSUME Init PROVE PairInv
  OBVIOUS
<1>1. TypeInv
  BY InitTypeInv
<1>2. PICK kind \in {"operator", "benchmark", "pair"} :
          campaign = Campaign(kind, 0, FALSE, {}, Unset, Unset)
  BY DEF Init
<1>3. campaign.runs = 0 /\ campaign.prepared = FALSE
  BY <1>2 DEF Campaign
<1>4. IsIdle /\ run.done = <<>>
  BY DEF Init, RunInit, NoRun, IsIdle
<1>5. tables["source"] = NoTables /\ tables["other"] = NoTables
  BY ReplayCampaignAssumption DEF Init, RunInit
<1>6. TablesAre(NoTables, {"nominal"}) /\ Live(NoTables)
  BY DEF NoTables, TablesAre, Live
<1>7. QED
  BY <1>1, <1>3, <1>4, <1>5, <1>6 DEF PairInv, PairIs

\* A run of a pair begins, in the directory that its place in the pair asks for.
LEMMA PairBegins ==
    ASSUME PairInv, campaign.kind = "pair", NEW mode \in DOMAIN Plan, NEW dir \in Dirs,
           NEW replay, NEW flight \in Flights, NEW config,
           config = Config(mode, dir, replay, Unset, Unset, {}, flight), BeginNext(config),
           \/ campaign.runs = 0 /\ dir = "source" /\ flight = "nominal"
           \/ campaign.runs = 1 /\ dir = "other" /\ flight = "faulted"
           \/ campaign.runs = 2 /\ campaign.prepared /\ dir = "copy" /\ flight = "faulted"
                 /\ mode = "reference_inference" /\ replay = TRUE
    PROVE  PairInv'
<1>1. /\ TypeInv' /\ run'.config = config
      /\ campaign'.runs = campaign.runs + 1 /\ campaign'.kind = campaign.kind
      /\ campaign'.prepared = campaign.prepared
  BY BeginNextTyped DEF PairInv
<1>2. RunInv /\ PairIs /\ Begin(config)
  BY DEF PairInv, TypeInv, BeginNext
<1>3. /\ config.dir = dir /\ config.flight = flight /\ ConfigTyped(config)
  BY DEF Config, ConfigTyped
<1>4. /\ \A X : flight \in X /\ TablesAre(tables[dir], X) => TablesAre(tables'[dir], X)
      /\ flight = "faulted" /\ Live(tables[dir]) => Live(tables'[dir])
      /\ \A other \in Dirs \ {dir} : tables'[other] = tables[other]
  BY <1>2, <1>3, SeedsStay
<1>5. "source" \in Dirs /\ "other" \in Dirs /\ "copy" \in Dirs
  BY ReplayCampaignAssumption
<1>6. CASE campaign.runs = 0 /\ dir = "source" /\ flight = "nominal"
  <2>1. TablesAre(tables'["source"], {"nominal"}) /\ Live(tables'["other"])
    BY <1>2, <1>4, <1>5, <1>6 DEF PairIs
  <2>2. campaign'.runs = 1 /\ ~campaign'.prepared /\ run'.config.dir = "source"
    BY <1>1, <1>2, <1>3, <1>6 DEF PairIs
  <2>3. PairIs'
    BY <2>1, <2>2 DEF PairIs
  <2>4. QED
    BY <1>1, <2>3 DEF PairInv
<1>7. CASE campaign.runs = 1 /\ dir = "other" /\ flight = "faulted"
  <2>1. TablesAre(tables'["source"], {"nominal"}) /\ Live(tables'["other"])
    BY <1>2, <1>4, <1>5, <1>7 DEF PairIs
  <2>2. campaign'.runs = 2 /\ ~campaign'.prepared /\ run'.config.dir = "other"
    BY <1>1, <1>2, <1>3, <1>7 DEF PairIs
  <2>3. PairIs'
    BY <2>1, <2>2 DEF PairIs
  <2>4. QED
    BY <1>1, <2>3 DEF PairInv
<1>8. CASE campaign.runs = 2 /\ campaign.prepared /\ dir = "copy" /\ flight = "faulted"
             /\ mode = "reference_inference" /\ replay = TRUE
  <2>1. Clean(tables["copy"], Given)
    BY <1>2, <1>8 DEF PairIs
  <2>2. config = Config("reference_inference", "copy", TRUE, Unset, Unset, {}, "faulted")
    BY <1>8
  <2>3. Inferring'
    BY <1>2, <2>1, <2>2, InferenceBegins
  <2>4. campaign'.runs = 3
    BY <1>1, <1>8
  <2>5. PairIs'
    BY <2>3, <2>4 DEF PairIs
  <2>6. QED
    BY <1>1, <2>5 DEF PairInv
<1>9. QED
  BY <1>6, <1>7, <1>8

\* Every step keeps what an inference relies on.
LEMMA NextPairInv ==
    ASSUME PairInv, [Next]_vars, WriteMode = "overwrite"
    PROVE  PairInv'
<1>1. TypeInv /\ TypeInv' /\ RunInv
  BY NextTypeInv DEF PairInv, TypeInv
<1>2. /\ "source" \in Dirs /\ "other" \in Dirs /\ "copy" \in Dirs
      /\ "nominal" \in Flights /\ "faulted" \in Flights
      /\ "full" \in DOMAIN Plan /\ "reference_inference" \in DOMAIN Plan
  BY ReplayCampaignAssumption DEF Flights, Plan
<1>3. CASE ReferenceRun
  <2>1. PICK config : config = Config("full", "source", FALSE, Unset, Unset, {}, "nominal")
    OBVIOUS
  <2>2. campaign.kind = "pair" /\ campaign.runs = 0 /\ BeginNext(config)
    BY <1>3, <2>1 DEF ReferenceRun
  <2>3. QED
    BY <1>2, <2>1, <2>2, PairBegins
<1>4. CASE SelfFitRun
  <2>1. PICK config : config = Config("full", "other", FALSE, Unset, Unset, {}, "faulted")
    OBVIOUS
  <2>2. campaign.kind = "pair" /\ campaign.runs = 1 /\ BeginNext(config)
    BY <1>4, <2>1 DEF SelfFitRun
  <2>3. QED
    BY <1>2, <2>1, <2>2, PairBegins
<1>5. CASE InferenceRun
  <2>1. PICK config : config = Config("reference_inference", "copy", TRUE, Unset, Unset, {},
                                      "faulted")
    OBVIOUS
  <2>2. campaign.kind = "pair" /\ campaign.runs = 2 /\ campaign.prepared /\ BeginNext(config)
    BY <1>5, <2>1 DEF InferenceRun
  <2>3. QED
    BY <1>2, <2>1, <2>2, PairBegins
<1>6. CASE StageReferenceArtifacts
  <2>1. /\ campaign.kind = "pair" /\ campaign.runs = 2 /\ IsIdle /\ run' = run
        /\ campaign' = [campaign EXCEPT !.prepared = TRUE]
    BY <1>6 DEF StageReferenceArtifacts
  <2>2. PairIs
    BY <2>1 DEF PairInv
  <2>3. campaign' = Campaign("pair", 2, TRUE, campaign.changed, campaign.target,
                             campaign.tier)
    BY <1>1, <2>1 DEF TypeInv, CampaignTyped, Campaign
  <2>4. campaign'.runs = 2
    BY <2>3 DEF Campaign
  <2>5. tables'["source"] = tables["source"] /\ tables'["other"] = tables["other"]
    BY <1>1, <1>2, <1>6 DEF StageReferenceArtifacts, RunInv, TablesTyped
  <2>6. Clean(tables'["copy"], Given)
    BY <1>1, <1>6, <2>1, <2>2, StagedIsClean DEF PairIs
  <2>7. PairIs'
    BY <2>1, <2>2, <2>4, <2>5, <2>6 DEF PairIs, IsIdle
  <2>8. QED
    BY <1>1, <2>7 DEF PairInv
<1>7. CASE FreshRun \/ Resume \/ PlanVariant \/ RunVariant
  <2>1. campaign.kind # "pair"
        /\ \/ campaign' = [campaign EXCEPT !.runs = @ + 1]
           \/ \E changed, target, tier :
                 campaign' = Campaign("benchmark", 1, TRUE, changed, target, tier)
    BY <1>7 DEF FreshRun, Resume, PlanVariant, RunVariant, BeginNext
  <2>2. \E kind, runs, prepared, changed, target, tier :
            kind # "pair" /\ campaign' = Campaign(kind, runs, prepared, changed, target, tier)
    <3>1. CASE campaign' = [campaign EXCEPT !.runs = @ + 1]
      <4>1. campaign' = Campaign(campaign.kind, campaign.runs + 1, campaign.prepared,
                                 campaign.changed, campaign.target, campaign.tier)
        BY <1>1, <3>1 DEF TypeInv, CampaignTyped, Campaign
      <4>2. QED
        BY <2>1, <4>1
    <3>2. QED
      BY <2>1, <3>1
  <2>3. campaign'.kind # "pair"
    BY <2>2 DEF Campaign
  <2>4. QED
    BY <1>1, <2>3 DEF PairInv
<1>8. CASE RunStep /\ UNCHANGED campaign
  <2>1. ~IsIdle /\ run'.config = run.config /\ campaign' = campaign
    BY <1>1, <1>8, StatusIs, RunStepTyped DEF IsIdle
  <2>2. campaign.kind = "pair" => PairIs'
    <3>1. SUFFICES ASSUME campaign.kind = "pair" PROVE PairIs'
      OBVIOUS
    <3>2. PairIs /\ campaign.runs \in Nat
      BY <1>1, <3>1 DEF PairInv, TypeInv, CampaignTyped
    <3>3. campaign.runs # 0 /\ ~(campaign.runs = 2 /\ campaign.prepared)
      BY <2>1, <3>2 DEF PairIs
    <3>4. CASE campaign.runs = 1
      <4>1. /\ run.config.dir = "source" /\ ~campaign.prepared
            /\ TablesAre(tables["source"], {"nominal"}) /\ Live(tables["other"])
        BY <3>2, <3>4 DEF PairIs
      <4>2. tables'["other"] = tables["other"]
        BY <1>1, <1>2, <1>8, <4>1, StepElsewhere
      <4>3. TablesAre(tables'["source"], {"nominal"})
        BY <1>1, <1>8, <4>1, FlightsStay
      <4>4. campaign'.runs = 1 /\ run'.config.dir = "source" /\ ~campaign'.prepared
        BY <2>1, <3>4, <4>1
      <4>5. QED
        BY <4>1, <4>2, <4>3, <4>4 DEF PairIs
    <3>5. CASE campaign.runs = 2
      <4>1. /\ run.config.dir = "other" /\ ~campaign.prepared
            /\ TablesAre(tables["source"], {"nominal"}) /\ Live(tables["other"])
        BY <3>2, <3>3, <3>5 DEF PairIs
      <4>2. tables'["source"] = tables["source"]
        BY <1>1, <1>2, <1>8, <4>1, StepElsewhere
      <4>3. Live(tables'["other"])
        BY <1>1, <1>8, <4>1, FlightsStay
      <4>4. campaign'.runs = 2 /\ run'.config.dir = "other" /\ ~campaign'.prepared
        BY <2>1, <3>5, <4>1
      <4>5. QED
        BY <4>1, <4>2, <4>3, <4>4 DEF PairIs
    <3>6. CASE campaign.runs > 2
      <4>1. Inferring'
        BY <1>1, <1>8, <3>2, <3>6, InferenceGoesOn DEF PairIs
      <4>2. campaign'.runs \in Nat /\ campaign'.runs > 2
        BY <2>1, <3>2, <3>6
      <4>3. QED
        BY <4>1, <4>2 DEF PairIs
    <3>7. QED
      BY <3>2, <3>3, <3>4, <3>5, <3>6
  <2>3. QED
    BY <1>1, <2>1, <2>2 DEF PairInv
<1>9. CASE UNCHANGED vars
  <2>1. campaign' = campaign /\ run' = run /\ tables' = tables /\ phaseMode' = phaseMode
    BY <1>9 DEF vars, runVars
  <2>2. Inferring' <=> Inferring
    BY <2>1 DEF Inferring
  <2>3. PairIs' <=> PairIs
    BY <2>1, <2>2 DEF PairIs, IsIdle
  <2>4. QED
    BY <1>1, <2>1, <2>3 DEF PairInv
<1>10. QED
  BY <1>3, <1>4, <1>5, <1>6, <1>7, <1>8, <1>9 DEF Next

\* ReferenceIsFixed always holds when tables are overwritten: nothing that an inference
\* makes of the faulted flight rests on a model fitted on that flight.
THEOREM ReferenceStays ==
    ASSUME WriteMode = "overwrite"
    PROVE  Spec => []ReferenceIsFixed
<1>1. PairInv => ReferenceIsFixed
  <2> SUFFICES ASSUME PairInv, campaign.kind = "pair", run.config.dir = "copy",
                      NEW script \in ToSet(run.done),
                      NEW artifact \in ToSet(StageScript(script, "apply_reference").writes)
               PROVE  tables["copy"][artifact].flights \subseteq Allowed
    BY DEF ReferenceIsFixed, Allowed
  <2>1. PairIs /\ campaign.runs \in Nat
    BY DEF PairInv, TypeInv, CampaignTyped
  <2>2. campaign.runs > 2
    <3>1. campaign.runs # 1 /\ campaign.runs # 2
      BY <2>1 DEF PairIs
    <3>2. campaign.runs # 0
      BY <2>1 DEF PairIs, ToSet
    <3>3. QED
      BY <2>1, <3>1, <3>2
  <2>3. Inferring
    BY <2>1, <2>2 DEF PairIs
  <2>4. PICK done : done = run.done
    OBVIOUS
  <2>5. PICK n : n = Len(done)
    OBVIOUS
  <2>6. done \in Seq(Scripts)
    BY <2>4 DEF PairInv, TypeInv, RunInv, RunTyped
  <2>7. PICK i \in 1..n : script = done[i]
    BY <2>4, <2>5, <2>6 DEF ToSet
  <2>8. n \in 0..9 /\ done[i] = InferencePlan[i]
    BY <2>3, <2>4, <2>5 DEF Inferring
  <2>9. i \in 1..9
    BY <2>7, <2>8
  <2>10. artifact \in ToSet(InferenceStage(i).writes)
    BY <2>7, <2>8 DEF InferenceStage
  <2>11. artifact \in Inferred(n) /\ artifact \notin Fitted
    <3>1. artifact \notin Fitted
      BY <2>9, <2>10, InferenceNeeds
    <3>2. QED
      BY <2>10, <3>1 DEF Inferred
  <2>12. artifact \in DOMAIN tables["copy"] /\ Clean(tables["copy"], Given \cup Inferred(n))
    BY <2>3, <2>4, <2>5, <2>11 DEF Inferring
  <2>13. FlightsThrough(artifact, tables["copy"][artifact]) \subseteq Allowed
    BY <2>11, <2>12 DEF Clean
  <2>14. QED
    BY <2>11, <2>13 DEF FlightsThrough
<1>2. PairInv /\ [Next]_vars => PairInv'
  BY NextPairInv
<1>3. QED
  BY <1>1, <1>2, InitPairInv, PTL DEF Spec
=============================================================================
