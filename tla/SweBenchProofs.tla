---------------------------- MODULE SweBenchProofs ----------------------------
(***************************************************************************)
(* For every dataset, any number of conversions, configs and commands:     *)
(* what is published is whole, lines and artifacts agree, and the patch of *)
(* a success is the tree that was verified.  Inv is inductive; its parts   *)
(* say what has been established when the runner, a conversion or an       *)
(* export is at a certain place.                                           *)
(***************************************************************************)
EXTENDS SweBench, TLAPS

\* The places within a task.
Exporting == {"finally", "listed", "diff", "diff_new", "publish", "cleanup"}
Stages    == {"setup", "build", "agent", "verify", "score", "flush"} \cup Exporting

RunTypes ==
  /\ control \in Labels /\ tasks \in Seq(Ids) /\ configs \in 1..Configs /\ config \in 1..configs
  /\ raising \in BOOLEAN

WorkTypes ==
  /\ base \in BOOLEAN
  /\ outcome \in [status: {"running", "limit", "completed", "failed"},
                  verdict: {"none", "passed", "failed"}, error: BOOLEAN, tested: Trees]
  /\ export \in [listed: SUBSET {"tracked", "new"}, tree: Trees]
  /\ patch \in Patches

ProcTypes ==
  /\ awaited \in Commands \cup {None}
  /\ process \in [Commands -> {"unused", "started", "half", "full", "gone"}]
  /\ tree \in Trees

DiskTypes ==
  /\ results \in [1..Configs -> Seq(Rows)]
  /\ torn \in BOOLEAN
  /\ patches \in [1..Configs -> [Ids -> Trees \cup {Absent, Foreign}]]
  /\ report \in [groups: Seq(Seq(Rows)), summary: 0..Configs]

DatasetTypes ==
  /\ target \in Directories
  /\ staging \in [Converters -> Directories]
  /\ converting \in [Converters -> {"idle", "fetch", "verify", "publish"}]

ExportTypes ==
  /\ exporting \in [at: {"idle", "patches"}, config: 1..Configs,
                    rows: Seq(Rows), lines: Seq(Lines)]
  /\ predictions \in [config: 0..Configs, lines: Seq(Lines)]

\* How far the run is: within a task there is a task to be answered, and the
\* report has the configs that are done.
StageInv ==
  /\ control = "idle" <=> tasks = <<>>
  /\ control = "idle" => config = 1
  /\ \A i, j \in DOMAIN tasks : tasks[i] = tasks[j] => i = j
  /\ control \in Stages => Len(results[config]) < Len(tasks)
  /\ control \in Stages \cup {"idle", "next"} => Len(report.groups) = config - 1
  /\ control = "summary" => Len(report.groups) = config

\* The patch of a task is what its artifact holds from its publication on.
PatchInv ==
  /\ control \notin {"cleanup", "score", "flush", "stopped"} => patch = NoPatch
  /\ control \in {"cleanup", "score", "flush"} =>
       /\ patch.status # "error" => patches[config][Current] \in {patch.tree, Foreign}
       /\ patch.status = "empty" <=> patch.status # "error" /\ patch.tree = CleanTree
  /\ LinesHaveArtifacts

\* Only the command that the agent waits for runs beside it.
QuietInv ==
  /\ control \in {"idle", "next", "setup", "build", "score", "flush", "summary"} =>
       \A c \in Commands : ~Alive(c)
  /\ control \in {"agent", "verify"} => \A c \in Commands : Alive(c) => c = awaited
  /\ control = "verify" => awaited = None

TrackedIn(t) == IF t.tracked # Base THEN {"tracked"} ELSE {}
NewIn(t)     == IF t.new # Absent THEN {"new"} ELSE {}

\* After a completed task nothing runs, and each git call sees the verified tree.
VerifiedInv ==
  /\ control \in {"idle", "next", "setup", "build", "agent", "verify", "summary"} =>
       outcome.status # "completed"
  /\ control = "verify" => outcome.tested = tree
  /\ outcome.status = "completed" =>
       /\ control \in Exporting => /\ \A c \in Commands : ~Alive(c)
                                   /\ outcome.tested = tree /\ tree # CleanTree
       /\ control = "listed" => export.listed = TrackedIn(tree)
       /\ control \in {"diff", "diff_new"} => export.listed = TrackedIn(tree) \cup NewIn(tree)
       /\ control = "diff_new" => export.tree.tracked = tree.tracked
       /\ control = "publish" => export.tree = tree
       /\ control \in {"cleanup", "score", "flush"} /\ patch.status # "error" =>
            patch = [status |-> "exported", tree |-> outcome.tested]
  /\ SuccessIsVerified

\* A conversion works through its request in order, and lists what it did.
ConversionInv ==
  /\ \A d \in Converters :
       /\ Len(staging[d].tasks) <= Len(Requests[d])
       /\ \A i \in DOMAIN staging[d].tasks :
            /\ staging[d].tasks[i] = Requests[d][i]
            /\ staging[d].repos[staging[d].tasks[i]] = "good"
       /\ converting[d] = "verify" => Len(staging[d].tasks) < Len(Requests[d])
       /\ converting[d] = "publish" =>
            staging[d].tasks = Requests[d] /\ staging[d].metadata = staging[d].tasks
  /\ DatasetWhole

\* The lines are those of the rows, and rows lists a config's results.
FaithfulLines(lines, rows) ==
  \A i \in DOMAIN lines :
    /\ rows[i].patch.status # "error"
    /\ lines[i] = [task |-> rows[i].task, patch |-> rows[i].patch.tree]

\* An export has all the results of a finished config.
PredictionInv ==
  /\ exporting.at = "patches" =>
       /\ tasks # <<>>
       /\ exporting.rows = results[exporting.config]
       /\ Len(exporting.rows) = Len(tasks)
       /\ Len(exporting.lines) <= Len(exporting.rows)
       /\ FaithfulLines(exporting.lines, exporting.rows)
  /\ predictions # NoPredictions =>
       /\ tasks # <<>>
       /\ predictions.config \in 1..Configs
       /\ Len(predictions.lines) = Len(tasks)
       /\ Len(results[predictions.config]) = Len(tasks)
       /\ FaithfulLines(predictions.lines, results[predictions.config])

Types == RunTypes /\ WorkTypes /\ ProcTypes /\ DiskTypes /\ DatasetTypes /\ ExportTypes

Inv == /\ Types
       /\ StageInv /\ PatchInv /\ QuietInv /\ VerifiedInv
       /\ ConversionInv /\ PredictionInv

-----------------------------------------------------------------------------
(* Types                                                                   *)

\* A conversion and an export leave the runner, and each other, alone.
LEMMA Elsewhere ==
  /\ Conversion => UNCHANGED runner /\ UNCHANGED exports
  /\ Export => UNCHANGED runner /\ UNCHANGED datasets
<1>1. Conversion => UNCHANGED runner /\ UNCHANGED exports
  BY DEF Conversion, BeginConversion, Materialize, DescribeTask, WriteMetadata,
         PublishDataset, AbandonConversion
<1>2. Export => UNCHANGED runner /\ UNCHANGED datasets
  BY DEF Export, ReadRun, CheckPatch, PublishPredictions, AbandonPredictions, exports
<1> QED BY <1>1, <1>2

\* The task list of a run is fixed when the dataset is loaded.
LEMMA RunnerLeavesTasks == RunnerNext => UNCHANGED tasks
<1>1. \/ StartTask \/ CopyRepository \/ BuildAgent \/ SetUpFails \/ CutByDeadline
      \/ BeginVerification \/ Judge \/ EndUnverified \/ Propagate \/ SkipExport \/ ListTracked
      \/ ListUntracked
      => UNCHANGED tasks
  BY DEF StartTask, CopyRepository, BuildAgent, SetUpFails, CutByDeadline, BeginVerification, Judge,
         EndUnverified, Propagate, SkipExport, ListTracked, ListUntracked, run
<1>2. \/ DiffTracked \/ DiffUntracked \/ PublishPatch \/ ExportFails \/ CleanUp \/ WriteLine
      \/ FlushLine \/ SaveReport \/ SaveSummary \/ Stop
      => UNCHANGED tasks
  BY DEF DiffTracked, DiffUntracked, PublishPatch, ExportFails, CleanUp, WriteLine, FlushLine,
         SaveReport, SaveSummary, Stop, run
<1>3. ASSUME NEW c \in Commands, RunCommand(c) \/ ProcessWrites(c) \/ ProcessExits(c) \/ TimesOut(c)
      PROVE  UNCHANGED tasks
  BY <1>3 DEF RunCommand, ProcessWrites, ProcessExits, TimesOut, run
<1> QED BY <1>1, <1>2, <1>3 DEF RunnerNext, RunnerStep, ProcessStep

\* What is not touched keeps its type.
LEMMA TypesFrame ==
  ASSUME Types
  PROVE  /\ UNCHANGED <<control, run>> => RunTypes'
         /\ UNCHANGED work => WorkTypes'
         /\ UNCHANGED procs => ProcTypes'
         /\ UNCHANGED disk => DiskTypes'
         /\ UNCHANGED datasets => DatasetTypes'
         /\ UNCHANGED exports => ExportTypes'
<1>1. UNCHANGED <<control, run>> => RunTypes'
  BY DEF Types, RunTypes, run
<1>2. UNCHANGED work => WorkTypes'
  BY DEF Types, WorkTypes, work
<1>3. UNCHANGED procs => ProcTypes'
  BY DEF Types, ProcTypes, procs
<1>4. UNCHANGED disk => DiskTypes'
  BY DEF Types, DiskTypes, disk
<1>5. UNCHANGED datasets => DatasetTypes'
  BY DEF Types, DatasetTypes, datasets
<1>6. UNCHANGED exports => ExportTypes'
  BY DEF Types, ExportTypes, exports
<1> QED BY <1>1, <1>2, <1>3, <1>4, <1>5, <1>6

\* The constants that stand for a task that has nothing yet have their types.
LEMMA ConstantTypes ==
  /\ CleanTree \in Trees /\ NoPatch \in Patches
  /\ NoExport \in [listed: SUBSET {"tracked", "new"}, tree: Trees]
  /\ \A o \in {Fresh, AtLimit, Raised, [Fresh EXCEPT !.status = "failed"],
              [Fresh EXCEPT !.verdict = "failed", !.status = "failed"]} :
       o \in [status: {"running", "limit", "completed", "failed"},
             verdict: {"none", "passed", "failed"}, error: BOOLEAN, tested: Trees]
<1>1. CleanTree \in Trees
  BY DEF CleanTree, Trees
<1>2. Fresh \in [status: {"running", "limit", "completed", "failed"},
                verdict: {"none", "passed", "failed"}, error: BOOLEAN, tested: Trees]
  BY <1>1 DEF Fresh
<1>3. \A o \in {Fresh, AtLimit, Raised, [Fresh EXCEPT !.status = "failed"],
              [Fresh EXCEPT !.verdict = "failed", !.status = "failed"]} :
       o \in [status: {"running", "limit", "completed", "failed"},
             verdict: {"none", "passed", "failed"}, error: BOOLEAN, tested: Trees]
  BY <1>1, <1>2 DEF AtLimit, Raised, Fresh
<1>4. NoPatch \in Patches
  BY <1>1 DEF NoPatch, Patches
<1>5. NoExport \in [listed: SUBSET {"tracked", "new"}, tree: Trees]
  BY <1>1 DEF NoExport
<1> QED BY <1>1, <1>3, <1>4, <1>5

\* The number of tasks answered, and the task that is being answered.
LEMMA CurrentTask ==
  ASSUME Types, StageInv
  PROVE  /\ config \in 1..Configs /\ results[config] \in Seq(Rows) /\ Answered \in Nat
         /\ control \in Stages => Answered + 1 \in DOMAIN tasks /\ Current \in Ids
<1>1. config \in 1..Configs /\ results[config] \in Seq(Rows) /\ Answered \in Nat
  BY RunnerAssumption DEF Types, RunTypes, DiskTypes, Answered
<1>2. ASSUME control \in Stages
      PROVE  Answered + 1 \in DOMAIN tasks /\ Current \in Ids
  BY <1>1, <1>2 DEF Types, RunTypes, StageInv, Answered, Current
<1> QED BY <1>1, <1>2

\* The line of a task is a row.
LEMMA ResultType ==
  ASSUME Types, StageInv, control \in Stages
  PROVE  Result \in Rows
<1>1. Current \in Ids
  BY CurrentTask
<1>2. Success \in BOOLEAN
  BY DEF Success, Types, WorkTypes
<1>3. patch \in Patches /\ outcome.tested \in Trees /\ CleanTree \in Trees
  BY ConstantTypes DEF Types, WorkTypes
<1> QED BY <1>1, <1>2, <1>3 DEF Result, Rows

\* The runner keeps its labels and positions in their ranges.
LEMMA RunTypesKept ==
  ASSUME Inv, Next
  PROVE  RunTypes'
<1>0. Types /\ StageInv /\ DatasetTypes
  BY DEF Inv, Types
<1> USE <1>0
<1>1. CASE LoadDataset
  BY <1>1, RunnerAssumption DEF LoadDataset, LoadTasks, Goto, RunTypes, Types, DatasetTypes, Directories, Labels, StageInv
<1>2. CASE StartTask \/ CopyRepository \/ BuildAgent \/ SetUpFails \/ CutByDeadline
           \/ BeginVerification \/ Judge \/ EndUnverified
  BY <1>2 DEF StartTask, CopyRepository, BuildAgent, SetUpFails, CutByDeadline,
              BeginVerification, Judge, EndUnverified, run, Goto, RunTypes, Types, Labels
<1>3. CASE \/ SkipExport \/ ListTracked \/ ListUntracked \/ DiffTracked \/ DiffUntracked
           \/ PublishPatch \/ ExportFails \/ WriteLine \/ FlushLine \/ SaveReport \/ Stop
  BY <1>3 DEF SkipExport, ListTracked, ListUntracked, DiffTracked, DiffUntracked, Stop,
              PublishPatch, ExportFails, WriteLine, FlushLine, SaveReport,
              run, Goto, RunTypes, Types, Labels
<1>4. CASE Propagate \/ CleanUp \/ SaveSummary
  <2>1. CASE Propagate
    BY <2>1 DEF Propagate, Goto, RunTypes, Types, Labels
  <2>2. CASE CleanUp
    BY <2>2 DEF CleanUp, AfterTask, run, Goto, RunTypes, Types, Labels
  <2>3. CASE SaveSummary
    BY <2>3, RunnerAssumption DEF SaveSummary, Goto, RunTypes, Types, Labels
  <2> QED BY <1>4, <2>1, <2>2, <2>3
<1>5. ASSUME NEW c \in Commands, RunCommand(c) \/ ProcessWrites(c) \/ ProcessExits(c) \/ TimesOut(c)
      PROVE  RunTypes'
  BY <1>5, TypesFrame DEF RunCommand, ProcessWrites, ProcessExits, TimesOut
<1>6. CASE UNCHANGED runner
  BY <1>6, TypesFrame DEF runner
<1>7. ASSUME NEW k \in 1..Configs, NEW t \in Ids, EditPatch(k, t)
      PROVE  RunTypes'
  BY <1>7, TypesFrame DEF EditPatch
<1> QED
  BY <1>1, <1>2, <1>3, <1>4, <1>5, <1>6, <1>7, Elsewhere
  DEF Next, Evaluation, RunnerNext, RunnerStep, ProcessStep

\* The variables of a task keep their types.
LEMMA WorkTypesKept ==
  ASSUME Inv, Next
  PROVE  WorkTypes'
<1>0. Types
  BY DEF Inv
<1>1. CASE UNCHANGED work
  BY <1>0, <1>1, TypesFrame
<1>2. CASE SetUpFails \/ CutByDeadline \/ Judge \/ EndUnverified \/ Propagate \/ BeginVerification
  <2>1. UNCHANGED <<base, export, patch>>
    BY <1>2 DEF SetUpFails, CutByDeadline, Judge, EndUnverified, Propagate, BeginVerification
  <2>2. outcome' \in [status: {"running", "limit", "completed", "failed"},
                    verdict: {"none", "passed", "failed"}, error: BOOLEAN, tested: Trees]
    <3>1. CASE SetUpFails \/ CutByDeadline \/ EndUnverified \/ Propagate
      BY <3>1, ConstantTypes DEF SetUpFails, CutByDeadline, EndUnverified, Propagate
    <3>2. CASE Judge
      BY <3>2, <1>0, ConstantTypes DEF Judge, Types, WorkTypes, ProcTypes
    <3>3. CASE BeginVerification
      BY <3>3, <1>0, ConstantTypes DEF BeginVerification, Types, WorkTypes, ProcTypes
    <3> QED BY <1>2, <3>1, <3>2, <3>3
  <2> QED BY <1>0, <2>1, <2>2 DEF Types, WorkTypes
<1>3. CASE CopyRepository
  BY <1>0, <1>3 DEF CopyRepository, Types, WorkTypes
<1>4. CASE ListTracked \/ ListUntracked
  BY <1>0, <1>4 DEF ListTracked, ListUntracked, Types, WorkTypes
<1>5. CASE DiffTracked \/ DiffUntracked
  BY <1>0, <1>5 DEF DiffTracked, DiffUntracked, Types, WorkTypes, ProcTypes, Trees
<1>6. CASE PublishPatch \/ ExportFails
  BY <1>0, <1>6, ConstantTypes DEF PublishPatch, ExportFails, Types, WorkTypes, Patches
<1>7. CASE FlushLine \/ Stop
  BY <1>0, <1>7, ConstantTypes DEF FlushLine, Stop, Forget, Types, WorkTypes
<1>8. ASSUME NEW c \in Commands, RunCommand(c) \/ ProcessWrites(c) \/ ProcessExits(c) \/ TimesOut(c)
      PROVE  UNCHANGED work
  BY <1>8 DEF RunCommand, ProcessWrites, ProcessExits, TimesOut
<1>9. LoadDataset \/ StartTask \/ BuildAgent \/ SkipExport \/ CleanUp \/ WriteLine
      \/ SaveReport \/ SaveSummary => UNCHANGED work
  BY DEF LoadDataset, LoadTasks, StartTask, BuildAgent, SkipExport, CleanUp, WriteLine,
         SaveReport, SaveSummary
<1>10. (\E k \in 1..Configs, t \in Ids : EditPatch(k, t)) \/ UNCHANGED runner => UNCHANGED work
  BY DEF EditPatch, runner
<1> QED
  BY <1>1, <1>2, <1>3, <1>4, <1>5, <1>6, <1>7, <1>8, <1>9, <1>10, Elsewhere
  DEF Next, Evaluation, RunnerNext, RunnerStep, ProcessStep

\* The processes and their tree keep their types.
LEMMA ProcTypesKept ==
  ASSUME Inv, Next
  PROVE  ProcTypes'
<1>0. Types
  BY DEF Inv
<1>1. CASE UNCHANGED procs
  BY <1>0, <1>1, TypesFrame
<1>2. CASE CutByDeadline \/ Propagate \/ Stop
  BY <1>0, <1>2 DEF CutByDeadline, Propagate, Stop, Types, ProcTypes
<1>3. CASE CleanUp
  BY <1>0, <1>3, ConstantTypes DEF CleanUp, Types, ProcTypes
<1>4. ASSUME NEW c \in Commands, RunCommand(c) \/ ProcessExits(c) \/ TimesOut(c)
      PROVE  ProcTypes'
  BY <1>0, <1>4 DEF RunCommand, ProcessExits, TimesOut, Returned, Types, ProcTypes
<1>5. ASSUME NEW c \in Commands, ProcessWrites(c)
      PROVE  ProcTypes'
  BY <1>0, <1>5 DEF ProcessWrites, Types, ProcTypes, Trees
<1>6. \/ StartTask \/ CopyRepository \/ BuildAgent \/ SetUpFails \/ BeginVerification \/ Judge
      \/ EndUnverified \/ SkipExport \/ ListTracked \/ ListUntracked \/ DiffTracked
      => UNCHANGED procs
  BY DEF StartTask, CopyRepository, BuildAgent, SetUpFails, BeginVerification, Judge,
         EndUnverified, SkipExport, ListTracked, ListUntracked, DiffTracked
<1>7. \/ LoadDataset \/ DiffUntracked \/ PublishPatch \/ ExportFails \/ WriteLine \/ FlushLine
      \/ SaveReport \/ SaveSummary \/ (\E k \in 1..Configs, t \in Ids : EditPatch(k, t))
      \/ UNCHANGED runner
      => UNCHANGED procs
  BY DEF LoadDataset, LoadTasks, DiffUntracked, PublishPatch, ExportFails, WriteLine, FlushLine,
         SaveReport, SaveSummary, EditPatch, runner
<1> QED
  BY <1>1, <1>2, <1>3, <1>4, <1>5, <1>6, <1>7, Elsewhere
  DEF Next, Evaluation, RunnerNext, RunnerStep, ProcessStep

\* Few actions write to the disk of the run.
LEMMA DiskMoves ==
  ASSUME Next
  PROVE  \/ UNCHANGED disk
         \/ PublishPatch \/ WriteLine \/ FlushLine \/ SaveReport \/ SaveSummary
         \/ \E k \in 1..Configs, t \in Ids : EditPatch(k, t)
<1>1. \/ StartTask \/ CopyRepository \/ BuildAgent \/ SetUpFails \/ BeginVerification \/ Judge
      \/ EndUnverified \/ SkipExport \/ ListTracked \/ ListUntracked \/ DiffTracked
      => UNCHANGED disk
  BY DEF StartTask, CopyRepository, BuildAgent, SetUpFails, BeginVerification, Judge,
         EndUnverified, SkipExport, ListTracked, ListUntracked, DiffTracked
<1>2. \/ LoadDataset \/ DiffUntracked \/ ExportFails \/ Stop \/ CutByDeadline \/ Propagate
      \/ CleanUp \/ UNCHANGED runner
      => UNCHANGED disk
  BY DEF LoadDataset, LoadTasks, DiffUntracked, ExportFails, Stop, CutByDeadline, Propagate,
         CleanUp, runner
<1>3. ASSUME NEW c \in Commands, RunCommand(c) \/ ProcessWrites(c) \/ ProcessExits(c) \/ TimesOut(c)
      PROVE  UNCHANGED disk
  BY <1>3 DEF RunCommand, ProcessWrites, ProcessExits, TimesOut
<1> QED
  BY <1>1, <1>2, <1>3, Elsewhere DEF Next, Evaluation, RunnerNext, RunnerStep, ProcessStep

\* Lines, artifacts and reports keep their types.
LEMMA DiskTypesKept ==
  ASSUME Inv, Next
  PROVE  DiskTypes'
<1>0. Types /\ StageInv /\ config \in 1..Configs /\ config \in Nat
  BY CurrentTask, RunnerAssumption DEF Inv
<1>1. CASE UNCHANGED disk
  BY <1>0, <1>1, TypesFrame
<1>2. CASE PublishPatch
  <2>1. export.tree \in Trees
    BY <1>0 DEF Types, WorkTypes
  <2>2. Current \in Ids
    BY <1>0, <1>2, CurrentTask DEF PublishPatch, Stages, Exporting
  <2> QED BY <1>0, <1>2, <2>1, <2>2 DEF PublishPatch, Types, DiskTypes
<1>3. CASE WriteLine
  BY <1>0, <1>3 DEF WriteLine, Types, DiskTypes
<1>4. CASE FlushLine
  <2>1. Result \in Rows
    BY <1>0, <1>4, ResultType DEF FlushLine, Stages
  <2>2. Append(results[config], Result) \in Seq(Rows)
    BY <1>0, <2>1, CurrentTask
  <2>3. /\ results' = [results EXCEPT ![config] = Append(results[config], Result)]
        /\ torn' = FALSE /\ patches' = patches /\ report' = report
    BY <1>4 DEF FlushLine
  <2> QED BY <1>0, <2>2, <2>3 DEF Types, DiskTypes
<1>5. CASE SaveReport
  <2>1. Append(report.groups, results[config]) \in Seq(Seq(Rows))
    BY <1>0 DEF Types, DiskTypes
  <2>2. /\ report' = [report EXCEPT !.groups = Append(report.groups, results[config])]
        /\ results' = results /\ torn' = torn /\ patches' = patches
    BY <1>5 DEF SaveReport
  <2> QED BY <1>0, <2>1, <2>2 DEF Types, DiskTypes
<1>6. CASE SaveSummary
  BY <1>0, <1>6 DEF SaveSummary, Types, DiskTypes
<1>7. ASSUME NEW k \in 1..Configs, NEW t \in Ids, EditPatch(k, t)
      PROVE  DiskTypes'
  BY <1>0, <1>7 DEF EditPatch, Types, DiskTypes
<1> QED
  BY <1>1, <1>2, <1>3, <1>4, <1>5, <1>6, <1>7, DiskMoves

\* What a conversion asks for.
LEMMA RequestTypes ==
  ASSUME NEW d \in Converters
  PROVE  /\ Requests[d] \in Seq(Ids) /\ Requests[d] # <<>>
         /\ \A i, j \in DOMAIN Requests[d] : Requests[d][i] = Requests[d][j] => i = j
BY SweBenchAssumption

\* While not everything that it asks for is done, there is a next instance.
LEMMA UpcomingTask ==
  ASSUME DatasetTypes, ConversionInv, NEW d \in Converters, staging[d].tasks # Requests[d]
  PROVE  Len(staging[d].tasks) + 1 \in DOMAIN Requests[d] /\ Upcoming(d) \in Ids
<1>1. staging[d].tasks \in Seq(Ids)
  BY DEF DatasetTypes, Directories
<1>2. /\ Len(staging[d].tasks) <= Len(Requests[d])
      /\ \A i \in DOMAIN staging[d].tasks : staging[d].tasks[i] = Requests[d][i]
  BY DEF ConversionInv
<1>3. Len(staging[d].tasks) # Len(Requests[d])
  BY <1>1, <1>2, RequestTypes
<1> QED BY <1>1, <1>2, <1>3, RequestTypes DEF Upcoming

\* The dataset and what is prepared for it keep their types.
LEMMA DatasetTypesKept ==
  ASSUME Inv, Next
  PROVE  DatasetTypes'
<1>0. Types /\ DatasetTypes /\ ConversionInv
  BY DEF Inv, Types
<1>1. CASE UNCHANGED datasets
  BY <1>0, <1>1, TypesFrame
<1>2. EmptyDirectory \in Directories
  BY DEF EmptyDirectory, Directories
<1>3. ASSUME NEW d \in Converters, BeginConversion(d)
      PROVE  DatasetTypes'
  BY <1>0, <1>3 DEF BeginConversion, DatasetTypes
<1>4. ASSUME NEW d \in Converters, Materialize(d)
      PROVE  DatasetTypes'
  <2>1. Upcoming(d) \in Ids
    BY <1>0, <1>4, UpcomingTask DEF Materialize
  <2>2. PICK state \in {"good", "bad"} : staging' = [staging EXCEPT ![d].repos[Upcoming(d)] = state]
    BY <1>4 DEF Materialize
  <2>3. staging[d].repos \in [Ids -> {"none", "good", "bad"}] /\ staging[d] \in Directories
    BY <1>0 DEF DatasetTypes, Directories
  <2>4. [staging[d].repos EXCEPT ![Upcoming(d)] = state] \in [Ids -> {"none", "good", "bad"}]
    BY <2>1, <2>3
  <2> DEFINE repos == [staging[d].repos EXCEPT ![Upcoming(d)] = state]
  <2>5. [staging[d] EXCEPT !.repos = repos] \in Directories
    BY <2>3, <2>4 DEF Directories
  <2>6. staging' = [staging EXCEPT ![d] = [staging[d] EXCEPT !.repos = repos]]
    BY <2>2
  <2>7. staging' \in [Converters -> Directories]
    BY <1>0, <2>5, <2>6 DEF DatasetTypes
  <2> QED BY <1>0, <1>4, <2>7 DEF Materialize, DatasetTypes
<1>5. ASSUME NEW d \in Converters, DescribeTask(d)
      PROVE  DatasetTypes'
  <2>1. staging[d].tasks # Requests[d]
    BY <1>0, <1>5 DEF DescribeTask, ConversionInv
  <2>2. Upcoming(d) \in Ids
    BY <1>0, <2>1, UpcomingTask
  <2>3. staging[d].tasks \in Seq(Ids) /\ staging[d] \in Directories
    BY <1>0 DEF DatasetTypes, Directories
  <2>4. Append(staging[d].tasks, Upcoming(d)) \in Seq(Ids)
    BY <2>2, <2>3
  <2>5. [staging[d] EXCEPT !.tasks = Append(staging[d].tasks, Upcoming(d))] \in Directories
    BY <2>3, <2>4 DEF Directories
  <2>6. staging' = [staging EXCEPT ![d] = [staging[d] EXCEPT !.tasks = Append(staging[d].tasks, Upcoming(d))]]
    BY <1>5 DEF DescribeTask
  <2>7. staging' \in [Converters -> Directories]
    BY <1>0, <2>5, <2>6 DEF DatasetTypes
  <2> QED BY <1>0, <1>5, <2>7 DEF DescribeTask, DatasetTypes
<1>6. ASSUME NEW d \in Converters, WriteMetadata(d)
      PROVE  DatasetTypes'
  BY <1>0, <1>6 DEF WriteMetadata, DatasetTypes, Directories
<1>7. ASSUME NEW d \in Converters, PublishDataset(d) \/ AbandonConversion(d)
      PROVE  DatasetTypes'
  BY <1>0, <1>2, <1>7 DEF PublishDataset, AbandonConversion, DatasetTypes
<1>8. LoadDataset \/ Evaluation \/ (\E k \in 1..Configs, t \in Ids : EditPatch(k, t))
      => UNCHANGED datasets
  BY DEF LoadDataset, Evaluation, EditPatch
<1>9. CASE Conversion
  BY <1>9, <1>3, <1>4, <1>5, <1>6, <1>7 DEF Conversion
<1>10. CASE ~ Conversion
  <2>1. UNCHANGED datasets
    BY <1>8, <1>10, Elsewhere DEF Next
  <2> QED BY <1>1, <2>1
<1> QED BY ONLY <1>9, <1>10

\* A row that is being checked against its artifact.
LEMMA CheckedRow ==
  ASSUME Types, CheckPatch
  PROVE  /\ Len(exporting.lines) + 1 \in DOMAIN exporting.rows
         /\ exporting.rows[Len(exporting.lines) + 1] \in Rows
<1>1. /\ exporting.lines \in Seq(Lines) /\ exporting.rows \in Seq(Rows)
      /\ Len(exporting.lines) < Len(exporting.rows)
  BY DEF Types, ExportTypes, CheckPatch
<1> QED BY ONLY <1>1

\* The export and the predictions keep their types.
LEMMA ExportTypesKept ==
  ASSUME Inv, Next
  PROVE  ExportTypes'
<1>0. Types
  BY DEF Inv
<1>1. CASE UNCHANGED exports
  BY <1>0, <1>1, TypesFrame
<1>2. 1 \in 1..Configs
  BY RunnerAssumption
<1>3. NotExporting \in [at: {"idle", "patches"}, config: 1..Configs, rows: Seq(Rows), lines: Seq(Lines)]
  BY <1>2 DEF NotExporting
<1>4. ASSUME NEW k \in 1..Configs, ReadRun(k)
      PROVE  ExportTypes'
  <2>1. results[k] \in Seq(Rows)
    BY <1>0 DEF Types, DiskTypes
  <2>2. exporting' = [at |-> "patches", config |-> k, rows |-> results[k], lines |-> <<>>]
        /\ UNCHANGED predictions
    BY <1>4 DEF ReadRun, NotExporting
  <2> QED BY <1>0, <2>1, <2>2 DEF Types, ExportTypes
<1>5. CASE CheckPatch
  <2> DEFINE row == exporting.rows[Len(exporting.lines) + 1]
             file == patches[exporting.config][row.task]
  <2>1. row \in Rows /\ exporting.config \in 1..Configs
    BY <1>0, <1>5, CheckedRow DEF Types, ExportTypes
  <2>2. row.task \in Ids
    BY <2>1 DEF Rows
  <2>3. file \in Trees \cup {Absent, Foreign}
    BY <1>0, <2>1, <2>2 DEF Types, DiskTypes
  <2> DEFINE line == [task |-> row.task, patch |-> file]
  <2>4. line \in Lines
    BY <2>2, <2>3 DEF Lines
  <2>5. exporting' = [exporting EXCEPT !.lines = Append(exporting.lines, line)]
        /\ UNCHANGED predictions
    BY <1>5 DEF CheckPatch
  <2> HIDE DEF line
  <2>6. Append(exporting.lines, line) \in Seq(Lines)
    BY <1>0, <2>4 DEF Types, ExportTypes
  <2> QED BY <1>0, <2>5, <2>6 DEF Types, ExportTypes
<1>6. CASE PublishPredictions
  BY <1>0, <1>3, <1>6, RunnerAssumption DEF PublishPredictions, Types, ExportTypes
<1>7. CASE AbandonPredictions
  BY <1>0, <1>3, <1>7 DEF AbandonPredictions, Types, ExportTypes
<1>8. LoadDataset \/ Evaluation \/ (\E k \in 1..Configs, t \in Ids : EditPatch(k, t))
      => UNCHANGED exports
  BY DEF LoadDataset, Evaluation, EditPatch
<1> QED
  BY <1>1, <1>4, <1>5, <1>6, <1>7, <1>8, Elsewhere DEF Next, Export

\* The types are inductive with the rest of the invariant.
LEMMA TypesKept ==
  ASSUME Inv, Next
  PROVE  Types'
BY RunTypesKept, WorkTypesKept, ProcTypesKept, DiskTypesKept, DatasetTypesKept, ExportTypesKept
DEF Types

-----------------------------------------------------------------------------
(* How far the run is, and what its commands may still do                  *)

\* StageInv is about the runner's place, its task list, the lines and the report.
LEMMA StageFrame ==
  ASSUME StageInv, UNCHANGED <<tasks, config, results, report>>,
         control' = control \/ (control \in Stages /\ control' \in Stages \cup {"stopped"})
  PROVE  StageInv'
BY DEF StageInv, Stages, Exporting

\* The stages of a task follow one another, and those of the run.
LEMMA StageKept ==
  ASSUME Inv, Next
  PROVE  StageInv'
<1>0. /\ Types /\ StageInv
      /\ config \in 1..Configs /\ config \in Nat /\ Answered \in Nat
      /\ results[config] \in Seq(Rows) /\ report.groups \in Seq(Seq(Rows))
      /\ tasks \in Seq(Ids)
  BY CurrentTask, RunnerAssumption DEF Inv, Types, DiskTypes, RunTypes
<1>1. CASE LoadDataset
  <2>1. /\ control = "idle" /\ tasks' = target.tasks /\ target.tasks # <<>> /\ control' = "next"
        /\ UNCHANGED <<config, results, report>>
        /\ \A i, j \in DOMAIN tasks' : tasks'[i] = tasks'[j] => i = j
    BY <1>1 DEF LoadDataset, LoadTasks, Goto, disk
  <2> QED BY <1>0, <2>1 DEF StageInv, Stages, Exporting
<1>2. CASE StartTask
  <2>1. /\ control = "next" /\ Len(results[config]) < Len(tasks) /\ control' = "setup"
        /\ UNCHANGED <<tasks, config, results, report>>
    BY <1>2 DEF StartTask, Answered, Goto, run, disk
  <2> QED BY <1>0, <2>1 DEF StageInv, Stages, Exporting
<1>3. CASE \/ CopyRepository \/ BuildAgent \/ SetUpFails \/ CutByDeadline \/ BeginVerification
           \/ Judge \/ EndUnverified \/ Propagate
  <2>1. /\ control \in Stages /\ control' \in Stages
        /\ UNCHANGED <<tasks, config, results, report>>
    BY <1>3 DEF CopyRepository, BuildAgent, SetUpFails, CutByDeadline, BeginVerification, Judge,
                EndUnverified, Propagate, Goto, run, disk, Stages, Exporting
  <2> QED BY <1>0, <2>1, StageFrame
<1>4. CASE \/ SkipExport \/ ListTracked \/ ListUntracked \/ DiffTracked \/ DiffUntracked
           \/ PublishPatch \/ ExportFails \/ WriteLine \/ CleanUp
  <2>1. /\ control \in Stages /\ control' \in Stages \cup {"stopped"}
        /\ UNCHANGED <<tasks, config, results, report>>
    BY <1>4 DEF SkipExport, ListTracked, ListUntracked, DiffTracked, DiffUntracked, PublishPatch,
                ExportFails, WriteLine, CleanUp, AfterTask, Goto, run, disk, Stages, Exporting
  <2> QED BY <1>0, <2>1, StageFrame
<1>5. CASE FlushLine
  <2>1. /\ control = "flush" /\ control' = "next" /\ UNCHANGED <<tasks, config, report>>
        /\ results' = [results EXCEPT ![config] = Append(results[config], Result)]
    BY <1>5 DEF FlushLine, Goto, run
  <2> QED BY <1>0, <2>1 DEF StageInv, Stages, Exporting
<1>6. CASE SaveReport
  <2>1. /\ control = "next" /\ control' = "summary" /\ UNCHANGED <<tasks, config, results>>
        /\ report' = [report EXCEPT !.groups = Append(report.groups, results[config])]
    BY <1>6 DEF SaveReport, Goto, run
  <2>2. Len(report'.groups) = Len(report.groups) + 1
    BY <1>0, <2>1 DEF Types, DiskTypes
  <2> QED BY <1>0, <2>1, <2>2 DEF StageInv, Stages, Exporting
<1>7. CASE SaveSummary
  <2>1. /\ control = "summary" /\ UNCHANGED <<tasks, results>>
        /\ report' = [report EXCEPT !.summary = config]
        /\ \/ config' = config + 1 /\ control' = "next"
           \/ config' = config /\ control' = "finished"
    BY <1>7 DEF SaveSummary, Goto
  <2>2. report'.groups = report.groups
    BY <1>0, <2>1 DEF Types, DiskTypes
  <2> QED BY <1>0, <2>1, <2>2 DEF StageInv, Stages, Exporting
<1>8. CASE Stop
  <2>1. control # "idle" /\ control' = "stopped" /\ UNCHANGED <<tasks, config, results, report>>
    BY <1>8 DEF Stop, Goto, run, disk
  <2> QED BY <1>0, <2>1 DEF StageInv, Stages, Exporting
<1>9. ASSUME NEW c \in Commands, RunCommand(c) \/ ProcessWrites(c) \/ ProcessExits(c) \/ TimesOut(c)
      PROVE  StageInv'
  <2>1. UNCHANGED <<control, tasks, config, results, report>>
    BY <1>9 DEF RunCommand, ProcessWrites, ProcessExits, TimesOut, run, disk
  <2> QED BY <1>0, <2>1, StageFrame
<1>10. ASSUME UNCHANGED runner \/ \E k \in 1..Configs, t \in Ids : EditPatch(k, t)
       PROVE  StageInv'
  <2>1. UNCHANGED <<control, tasks, config, results, report>>
    BY <1>10 DEF EditPatch, runner, run, disk
  <2> QED BY <1>0, <2>1, StageFrame
<1> QED
  BY <1>1, <1>2, <1>3, <1>4, <1>5, <1>6, <1>7, <1>8, <1>9, <1>10, Elsewhere
  DEF Next, Evaluation, RunnerNext, RunnerStep, ProcessStep

\* Where nothing runs, or only the awaited command, the next place has the same.
LEMMA QuietKept ==
  ASSUME Inv, Next
  PROVE  QuietInv'
<1>0. /\ QuietInv /\ StageInv /\ None \notin Commands
      /\ process \in [Commands -> {"unused", "started", "half", "full", "gone"}]
  BY RunnerAssumption DEF Inv, Types, ProcTypes
<1>1. CASE \/ LoadDataset \/ StartTask \/ CopyRepository \/ BuildAgent \/ WriteLine \/ FlushLine
           \/ SaveReport \/ SaveSummary
  <2>1. /\ control \in {"idle", "next", "setup", "build", "score", "flush", "summary"}
        /\ control' \notin {"verify"} /\ UNCHANGED process
    BY <1>1 DEF LoadDataset, LoadTasks, StartTask, CopyRepository, BuildAgent, WriteLine, FlushLine,
                SaveReport, SaveSummary, Goto, procs
  <2> QED BY <1>0, <2>1 DEF QuietInv, Alive
<1>2. CASE \/ SetUpFails \/ CutByDeadline \/ Judge \/ EndUnverified \/ Propagate
           \/ SkipExport \/ ListTracked \/ ListUntracked \/ DiffTracked \/ DiffUntracked
           \/ PublishPatch \/ ExportFails \/ Stop
  <2>1. control' \in {"finally", "listed", "diff", "diff_new", "publish", "cleanup", "stopped"}
    BY <1>2 DEF SetUpFails, CutByDeadline, Judge, EndUnverified, Propagate, SkipExport, ListTracked,
                ListUntracked, DiffTracked, DiffUntracked, PublishPatch, ExportFails, Stop, Goto
  <2> QED BY <2>1 DEF QuietInv
<1>3. CASE BeginVerification
  BY <1>0, <1>3 DEF BeginVerification, Goto, procs, QuietInv, Alive
<1>4. CASE CleanUp
  <2>1. process' = [c \in Commands |-> "unused"] /\ control' \in {"score", "stopped"}
    BY <1>4 DEF CleanUp, AfterTask, Goto
  <2> QED BY <2>1 DEF QuietInv, Alive
<1>5. ASSUME NEW c \in Commands, RunCommand(c)
      PROVE  QuietInv'
  <2>1. /\ control = "agent" /\ control' = "agent" /\ awaited = None /\ awaited' = c
        /\ process' = [process EXCEPT ![c] = "started"]
    BY <1>5 DEF RunCommand
  <2> QED BY <1>0, <2>1 DEF QuietInv, Alive
<1>6. ASSUME NEW c \in Commands, ProcessWrites(c)
      PROVE  QuietInv'
  <2>1. /\ UNCHANGED <<control, awaited>> /\ Alive(c)
        /\ \A e \in Commands \ {c} : process'[e] = process[e]
    BY <1>0, <1>6 DEF ProcessWrites, Alive
  <2> QED BY <1>0, <2>1 DEF QuietInv, Alive
<1>7. ASSUME NEW c \in Commands, ProcessExits(c) \/ TimesOut(c)
      PROVE  QuietInv'
  <2>1. /\ control' = control /\ Alive(c) /\ awaited' \in {awaited, None}
        /\ process' = [process EXCEPT ![c] = "gone"] /\ (awaited' # awaited => awaited = c)
    BY <1>7 DEF ProcessExits, TimesOut, Returned
  <2>2. \A e \in Commands : Alive(e)' => Alive(e) /\ e # c
    BY <1>0, <2>1 DEF Alive
  <2> QED BY <1>0, <2>1, <2>2 DEF QuietInv
<1>8. ASSUME UNCHANGED runner \/ \E k \in 1..Configs, t \in Ids : EditPatch(k, t)
      PROVE  QuietInv'
  BY <1>0, <1>8 DEF EditPatch, runner, procs, QuietInv, Alive
<1> QED
  BY <1>1, <1>2, <1>3, <1>4, <1>5, <1>6, <1>7, <1>8, Elsewhere
  DEF Next, Evaluation, RunnerNext, RunnerStep, ProcessStep

-----------------------------------------------------------------------------
(* Conversions and the dataset                                             *)

\* A step of one conversion keeps the invariant when that conversion keeps it.
LEMMA OneConverts ==
  ASSUME ConversionInv, DatasetWhole', NEW d \in Converters,
         \A e \in Converters : e # d => staging'[e] = staging[e] /\ converting'[e] = converting[e],
         Len(staging'[d].tasks) <= Len(Requests[d]),
         \A i \in DOMAIN staging'[d].tasks :
           /\ staging'[d].tasks[i] = Requests[d][i]
           /\ staging'[d].repos[staging'[d].tasks[i]] = "good",
         converting'[d] = "verify" => Len(staging'[d].tasks) < Len(Requests[d]),
         converting'[d] = "publish" =>
           staging'[d].tasks = Requests[d] /\ staging'[d].metadata = staging'[d].tasks
  PROVE  ConversionInv'
<1>1. ASSUME NEW e \in Converters
      PROVE  /\ Len(staging'[e].tasks) <= Len(Requests[e])
             /\ \A i \in DOMAIN staging'[e].tasks :
                  /\ staging'[e].tasks[i] = Requests[e][i]
                  /\ staging'[e].repos[staging'[e].tasks[i]] = "good"
             /\ converting'[e] = "verify" => Len(staging'[e].tasks) < Len(Requests[e])
             /\ converting'[e] = "publish" =>
                  staging'[e].tasks = Requests[e] /\ staging'[e].metadata = staging'[e].tasks
  <2>1. CASE e = d
    BY <2>1
  <2>2. CASE e # d
    <3>1. staging'[e] = staging[e] /\ converting'[e] = converting[e]
      BY <2>2
    <3>2. ConversionInv
      OBVIOUS
    <3> QED BY ONLY <3>1, <3>2, e \in Converters DEF ConversionInv
  <2> QED BY ONLY <2>1, <2>2
<1> QED BY <1>1 DEF ConversionInv

\* Instances are done in the order of the request, and what is done stays.
LEMMA ConversionKept ==
  ASSUME Inv, Next
  PROVE  ConversionInv'
<1>0. /\ DatasetTypes /\ ConversionInv /\ DatasetWhole /\ StageInv
      /\ staging \in [Converters -> Directories]
      /\ converting \in [Converters -> {"idle", "fetch", "verify", "publish"}]
  BY DEF Inv, Types, DatasetTypes, ConversionInv
<1>1. CASE UNCHANGED <<datasets, tasks>>
  BY <1>0, <1>1 DEF datasets, ConversionInv, DatasetWhole
<1>2. CASE LoadDataset
  BY <1>0, <1>2 DEF LoadDataset, LoadTasks, datasets, ConversionInv, DatasetWhole
<1>3. ASSUME NEW d \in Converters, BeginConversion(d)
      PROVE  ConversionInv'
  <2>1. /\ UNCHANGED <<target, tasks, staging>> /\ converting' = [converting EXCEPT ![d] = "fetch"]
    BY <1>3 DEF BeginConversion, runner, run
  <2> QED BY <1>0, <2>1 DEF ConversionInv, DatasetWhole
<1>4. ASSUME NEW d \in Converters, Materialize(d)
      PROVE  ConversionInv'
  <2>1. PICK state \in {"good", "bad"} : staging' = [staging EXCEPT ![d].repos[Upcoming(d)] = state]
    BY <1>4 DEF Materialize
  <2>2. /\ UNCHANGED <<target, tasks>> /\ converting' = [converting EXCEPT ![d] = "verify"]
        /\ staging[d].tasks # Requests[d]
    BY <1>4 DEF Materialize, runner, run
  <2>3. Len(staging[d].tasks) + 1 \in DOMAIN Requests[d] /\ Upcoming(d) = Requests[d][Len(staging[d].tasks) + 1]
    BY <1>0, <2>2, UpcomingTask DEF Upcoming
  <2>4. /\ staging'[d].tasks = staging[d].tasks
        /\ \A t \in Ids : t # Upcoming(d) => staging'[d].repos[t] = staging[d].repos[t]
        /\ \A e \in Converters : e # d => staging'[e] = staging[e]
    BY <1>0, <2>1 DEF Directories
  <2>5. /\ staging[d].tasks \in Seq(Ids) /\ Len(staging[d].tasks) <= Len(Requests[d])
        /\ \A i \in DOMAIN staging[d].tasks :
             /\ staging[d].tasks[i] = Requests[d][i]
             /\ staging[d].repos[staging[d].tasks[i]] = "good"
    BY <1>0 DEF Directories, ConversionInv
  <2>6. Len(staging[d].tasks) < Len(Requests[d])
    BY <2>3, <2>5, RequestTypes
  <2>7. \A i \in DOMAIN staging[d].tasks : staging[d].tasks[i] # Upcoming(d)
    BY <2>3, <2>5, <2>6, RequestTypes
  <2>8. DatasetWhole'
    BY <1>0, <2>2 DEF DatasetWhole
  <2>9. \A i \in DOMAIN staging'[d].tasks :
          /\ staging'[d].tasks[i] = Requests[d][i]
          /\ staging'[d].repos[staging'[d].tasks[i]] = "good"
    <3>1. \A i \in DOMAIN staging[d].tasks : staging[d].tasks[i] \in Ids
      BY <2>5
    <3> QED BY ONLY <2>4, <2>5, <2>7, <3>1
  <2>10. converting'[d] = "verify"
         /\ \A e \in Converters : e # d => staging'[e] = staging[e] /\ converting'[e] = converting[e]
    BY <1>0, <2>2, <2>4
  <2>11. Len(staging'[d].tasks) <= Len(Requests[d]) /\ Len(staging'[d].tasks) < Len(Requests[d])
    BY <2>4, <2>5, <2>6
  <2> QED BY ONLY <1>0, <2>8, <2>9, <2>10, <2>11, OneConverts, d \in Converters
<1>5. ASSUME NEW d \in Converters, DescribeTask(d)
      PROVE  ConversionInv'
  <2>1. /\ UNCHANGED <<target, tasks>> /\ converting' = [converting EXCEPT ![d] = "fetch"]
        /\ converting[d] = "verify" /\ staging[d].repos[Upcoming(d)] = "good"
        /\ staging' = [staging EXCEPT ![d] = [staging[d] EXCEPT !.tasks = Append(staging[d].tasks, Upcoming(d))]]
    BY <1>5 DEF DescribeTask, runner, run
  <2>2. /\ staging'[d].tasks = Append(staging[d].tasks, Upcoming(d))
        /\ staging'[d].repos = staging[d].repos
        /\ \A e \in Converters : e # d => staging'[e] = staging[e]
    BY <1>0, <2>1 DEF Directories
  <2>3. /\ staging[d].tasks \in Seq(Ids) /\ Len(staging[d].tasks) < Len(Requests[d])
        /\ \A i \in DOMAIN staging[d].tasks :
             /\ staging[d].tasks[i] = Requests[d][i]
             /\ staging[d].repos[staging[d].tasks[i]] = "good"
    BY <1>0, <2>1 DEF Directories, ConversionInv
  <2>4. Upcoming(d) = Requests[d][Len(staging[d].tasks) + 1]
    BY DEF Upcoming
  <2>5. /\ Len(staging'[d].tasks) = Len(staging[d].tasks) + 1
        /\ staging'[d].tasks[Len(staging[d].tasks) + 1] = Upcoming(d)
        /\ \A i \in DOMAIN staging'[d].tasks :
             i \in DOMAIN staging[d].tasks \/ i = Len(staging[d].tasks) + 1
        /\ \A i \in DOMAIN staging[d].tasks : staging'[d].tasks[i] = staging[d].tasks[i]
    <3>1. Upcoming(d) \in Ids
      BY <2>3, <2>4, RequestTypes
    <3> QED BY ONLY <2>2, <2>3, <3>1
  <2>6. \A i \in DOMAIN staging'[d].tasks :
          /\ staging'[d].tasks[i] = Requests[d][i]
          /\ staging'[d].repos[staging'[d].tasks[i]] = "good"
    <3> SUFFICES ASSUME NEW i \in DOMAIN staging'[d].tasks
                 PROVE  /\ staging'[d].tasks[i] = Requests[d][i]
                        /\ staging[d].repos[staging'[d].tasks[i]] = "good"
      BY <2>2
    <3>1. CASE i \in DOMAIN staging[d].tasks
      BY ONLY <3>1, <2>3, <2>5
    <3>2. CASE i = Len(staging[d].tasks) + 1
      BY ONLY <3>2, <2>1, <2>4, <2>5
    <3> QED BY <2>5, <3>1, <3>2
  <2>7. Len(staging'[d].tasks) <= Len(Requests[d])
    <3>1. Len(Requests[d]) \in Nat
      BY RequestTypes
    <3> QED BY ONLY <2>3, <2>5, <3>1
  <2>8. DatasetWhole'
    BY <1>0, <2>1 DEF ConversionInv, DatasetWhole
  <2>9. converting'[d] = "fetch" /\ \A e \in Converters : e # d => converting'[e] = converting[e]
    BY <1>0, <2>1
  <2>10. converting'[d] \notin {"verify", "publish"}
         /\ \A e \in Converters : e # d => staging'[e] = staging[e] /\ converting'[e] = converting[e]
    BY <2>2, <2>9
  <2> QED BY ONLY <1>0, <2>6, <2>7, <2>8, <2>10, OneConverts, d \in Converters
<1>6. ASSUME NEW d \in Converters, WriteMetadata(d)
      PROVE  ConversionInv'
  <2>1. /\ UNCHANGED <<target, tasks>> /\ converting' = [converting EXCEPT ![d] = "publish"]
        /\ staging[d].tasks = Requests[d]
        /\ staging' = [staging EXCEPT ![d] = [staging[d] EXCEPT !.metadata = staging[d].tasks]]
    BY <1>6 DEF WriteMetadata, runner, run
  <2>2. /\ staging'[d].tasks = staging[d].tasks /\ staging'[d].repos = staging[d].repos
        /\ staging'[d].metadata = staging[d].tasks
        /\ \A e \in Converters : e # d => staging'[e] = staging[e]
    BY <1>0, <2>1 DEF Directories
  <2>3. DatasetWhole'
    BY <1>0, <2>1 DEF DatasetWhole
  <2>4. converting'[d] = "publish"
        /\ \A e \in Converters : e # d => staging'[e] = staging[e] /\ converting'[e] = converting[e]
    BY <1>0, <2>1, <2>2
  <2>5. /\ Len(staging[d].tasks) <= Len(Requests[d])
        /\ \A i \in DOMAIN staging[d].tasks :
             /\ staging[d].tasks[i] = Requests[d][i]
             /\ staging[d].repos[staging[d].tasks[i]] = "good"
    BY <1>0 DEF ConversionInv
  <2>6. /\ Len(staging'[d].tasks) <= Len(Requests[d])
        /\ \A i \in DOMAIN staging'[d].tasks :
             /\ staging'[d].tasks[i] = Requests[d][i]
             /\ staging'[d].repos[staging'[d].tasks[i]] = "good"
        /\ staging'[d].tasks = Requests[d] /\ staging'[d].metadata = staging'[d].tasks
    BY ONLY <2>1, <2>2, <2>5
  <2> QED BY ONLY <1>0, <2>3, <2>4, <2>6, OneConverts, d \in Converters
<1>7. ASSUME NEW d \in Converters, PublishDataset(d) \/ AbandonConversion(d)
      PROVE  ConversionInv'
  <2>1. /\ tasks' = tasks /\ converting' = [converting EXCEPT ![d] = "idle"]
        /\ staging' = [staging EXCEPT ![d] = EmptyDirectory]
    BY <1>7 DEF PublishDataset, AbandonConversion, runner, run
  <2>2. \A e \in Converters :
          /\ Len(staging[e].tasks)' <= Len(Requests[e])
          /\ \A i \in DOMAIN staging'[e].tasks :
               /\ staging'[e].tasks[i] = Requests[e][i]
               /\ staging'[e].repos[staging'[e].tasks[i]] = "good"
          /\ converting'[e] = "verify" => Len(staging'[e].tasks) < Len(Requests[e])
          /\ converting'[e] = "publish" =>
               staging'[e].tasks = Requests[e] /\ staging'[e].metadata = staging'[e].tasks
    BY <1>0, <2>1, RequestTypes DEF ConversionInv, EmptyDirectory
  <2>3. CASE AbandonConversion(d)
    <3>1. target' = target
      BY <2>3 DEF AbandonConversion
    <3> QED BY <1>0, <2>1, <2>2, <3>1 DEF ConversionInv, DatasetWhole
  <2>4. CASE PublishDataset(d)
    <3>1. converting[d] = "publish" /\ target = EmptyDirectory /\ target' = staging[d]
      BY <2>4 DEF PublishDataset
    <3>2. tasks = <<>>
      BY <1>0, <3>1 DEF DatasetWhole, EmptyDirectory
    <3>3. DatasetWhole'
      BY <1>0, <2>1, <3>1, <3>2 DEF DatasetWhole, ConversionInv
    <3> QED BY <2>2, <3>3 DEF ConversionInv
  <2> QED BY <1>7, <2>3, <2>4
<1>8. Evaluation \/ Export \/ (\E k \in 1..Configs, t \in Ids : EditPatch(k, t))
      => UNCHANGED <<datasets, tasks>>
  <2>1. Evaluation => UNCHANGED <<datasets, tasks>>
    BY RunnerLeavesTasks DEF Evaluation
  <2> QED BY <2>1, Elsewhere DEF EditPatch, runner, run
<1> QED
  BY <1>1, <1>2, <1>3, <1>4, <1>5, <1>6, <1>7, <1>8 DEF Next, Conversion

-----------------------------------------------------------------------------
(* Lines and artifacts                                                     *)

\* The lines, the reports and the patch are about these variables only.
LEMMA PatchFrame ==
  ASSUME PatchInv, UNCHANGED <<tasks, config, results, patches, report>>
  PROVE  /\ LinesHaveArtifacts' /\ Current' = Current
         /\ UNCHANGED <<control, patch>> => PatchInv'
<1>1. LinesHaveArtifacts' /\ Current' = Current
  BY DEF PatchInv, LinesHaveArtifacts, Current, Answered
<1> QED BY <1>1 DEF PatchInv

\* A row states the artifact that was published for it, or that there is none.
LEMMA FlushedLine ==
  ASSUME Inv, FlushLine
  PROVE  LinesHaveArtifacts'
<1>1. /\ control = "flush" /\ UNCHANGED <<tasks, config, patches, report>>
      /\ results' = [results EXCEPT ![config] = Append(results[config], Result)]
  BY DEF FlushLine, run
<1>2. /\ config \in 1..Configs /\ config \in Nat /\ results[config] \in Seq(Rows) /\ Result \in Rows
      /\ results \in [1..Configs -> Seq(Rows)] /\ report.groups \in Seq(Seq(Rows))
  BY <1>1, CurrentTask, ResultType, RunnerAssumption DEF Inv, Types, DiskTypes, Stages
<1>3. /\ Len(results[config]) < Len(tasks) /\ Len(report.groups) = config - 1
  BY <1>1 DEF Inv, StageInv, Stages
<1>4. LinesHaveArtifacts
  BY DEF Inv, PatchInv
<1>5. /\ Result.task = tasks[Len(results[config]) + 1]
      /\ Result.patch.status # "error" => patches[config][Result.task] \in {Result.patch.tree, Foreign}
      /\ Result.patch.status = "empty" <=> Result.patch.status # "error" /\ Result.patch.tree = CleanTree
  BY <1>1 DEF Inv, PatchInv, Result, Current, Answered
<1> DEFINE Good(k, i, row) ==
             /\ row.task = tasks[i]
             /\ row.patch.status # "error" => patches[k][row.task] \in {row.patch.tree, Foreign}
             /\ row.patch.status = "empty" <=> row.patch.status # "error" /\ row.patch.tree = CleanTree
<1>6. \A k \in 1..Configs : Len(results[k]) <= Len(tasks) /\ \A i \in DOMAIN results[k] : Good(k, i, results[k][i])
  BY <1>4 DEF LinesHaveArtifacts
<1>7. Good(config, Len(results[config]) + 1, Result)
  BY <1>5
<1>8. \A k \in 1..Configs : k # config => results'[k] = results[k]
  BY <1>1, <1>2
<1>9. results'[config] = Append(results[config], Result)
  BY <1>1, <1>2
<1> HIDE DEF Good
<1>10. Len(results'[config]) <= Len(tasks)
       /\ \A i \in DOMAIN results'[config] : Good(config, i, results'[config][i])
  <2>1. tasks \in Seq(Ids)
    BY DEF Inv, Types, RunTypes
  <2> QED BY <1>2, <1>3, <1>6, <1>7, <1>9, <2>1
<1>11. \A k \in 1..Configs : Len(results'[k]) <= Len(tasks) /\ \A i \in DOMAIN results'[k] : Good(k, i, results'[k][i])
  BY <1>6, <1>8, <1>10
<1>12. \A k \in DOMAIN report.groups :
         /\ report.groups[k] = results'[k] /\ Len(results'[k]) = Len(tasks)
  <2>1. \A k \in DOMAIN report.groups : k \in 1..Configs /\ k # config
    <3>1. DOMAIN report.groups = 1..(config - 1)
      BY <1>2, <1>3
    <3> QED BY <1>2, <3>1, RunnerAssumption
  <2>2. \A k \in DOMAIN report.groups : report.groups[k] = results[k] /\ Len(results[k]) = Len(tasks)
    BY <1>4 DEF LinesHaveArtifacts
  <2> QED BY ONLY <1>8, <2>1, <2>2
<1>13. UNCHANGED <<tasks, patches, report>>
  BY <1>1
<1> QED BY ONLY <1>11, <1>12, <1>13 DEF LinesHaveArtifacts, Good

\* A new artifact belongs to no line yet.
LEMMA PublishedPatch ==
  ASSUME Inv, PublishPatch
  PROVE  PatchInv'
<1>1. /\ control = "publish" /\ control' = "cleanup" /\ UNCHANGED <<tasks, config, results, report>>
      /\ patches' = [patches EXCEPT ![config][Current] = export.tree]
      /\ patch' = [status |-> IF export.tree = CleanTree THEN "empty" ELSE "exported",
                  tree |-> export.tree]
  BY DEF PublishPatch, Goto, run
<1>2. /\ config \in 1..Configs /\ Current \in Ids /\ Answered + 1 \in DOMAIN tasks
      /\ Answered = Len(results[config]) /\ Current = tasks[Answered + 1] /\ Answered \in Nat
      /\ patches \in [1..Configs -> [Ids -> Trees \cup {Absent, Foreign}]]
      /\ results \in [1..Configs -> Seq(Rows)] /\ tasks \in Seq(Ids)
  BY <1>1, CurrentTask DEF Inv, Types, DiskTypes, RunTypes, Stages, Exporting, Answered, Current
<1>3. LinesHaveArtifacts /\ \A i, j \in DOMAIN tasks : tasks[i] = tasks[j] => i = j
  BY DEF Inv, PatchInv, StageInv
<1>4. /\ \A k \in 1..Configs : k # config => patches'[k] = patches[k]
      /\ \A t \in Ids : t # Current => patches'[config][t] = patches[config][t]
      /\ patches'[config][Current] = export.tree
  BY <1>1, <1>2
<1>5. \A i \in DOMAIN results[config] : results[config][i].task \in Ids /\ results[config][i].task # Current
  <2> SUFFICES ASSUME NEW i \in DOMAIN results[config]
               PROVE  results[config][i].task \in Ids /\ results[config][i].task # Current
    OBVIOUS
  <2>1. i \in DOMAIN tasks /\ i # Answered + 1 /\ results[config][i].task = tasks[i]
    BY <1>2, <1>3 DEF LinesHaveArtifacts
  <2> QED BY <1>2, <1>3, <2>1
<1>6. LinesHaveArtifacts'
  <2>1. \A k \in 1..Configs : \A i \in DOMAIN results[k] :
          patches'[k][results[k][i].task] = patches[k][results[k][i].task]
    BY <1>4, <1>5
  <2>2. UNCHANGED <<tasks, results, report>>
    BY <1>1
  <2>3. ASSUME NEW k \in 1..Configs, NEW i \in DOMAIN results[k]
        PROVE  LET row == results[k][i]
               IN /\ row.task = tasks[i]
                  /\ row.patch.status # "error" =>
                       patches'[k][row.task] \in {row.patch.tree, Foreign}
                  /\ row.patch.status = "empty" <=>
                       row.patch.status # "error" /\ row.patch.tree = CleanTree
    <3>1. patches'[k][results[k][i].task] = patches[k][results[k][i].task]
      BY <2>1
    <3>2. LinesHaveArtifacts
      BY <1>3
    <3> QED BY ONLY <3>1, <3>2, k \in 1..Configs, i \in DOMAIN results[k] DEF LinesHaveArtifacts
  <2>4. /\ \A k \in 1..Configs : Len(results[k]) <= Len(tasks)
        /\ \A k \in DOMAIN report.groups : report.groups[k] = results[k] /\ Len(results[k]) = Len(tasks)
    BY <1>3 DEF LinesHaveArtifacts
  <2> QED BY ONLY <2>2, <2>3, <2>4 DEF LinesHaveArtifacts
<1>7. Current' = Current
  BY <1>1 DEF Current, Answered
<1> QED BY <1>1, <1>4, <1>6, <1>7 DEF PatchInv

\* A line names an artifact that exists, and a report shows the lines.
LEMMA PatchKept ==
  ASSUME Inv, Next
  PROVE  PatchInv'
<1>0. /\ Types /\ StageInv /\ PatchInv /\ LinesHaveArtifacts /\ config \in 1..Configs /\ config \in Nat
      /\ results \in [1..Configs -> Seq(Rows)] /\ tasks \in Seq(Ids) /\ report.groups \in Seq(Seq(Rows))
  BY CurrentTask, RunnerAssumption DEF Inv, PatchInv, Types, RunTypes, DiskTypes
<1>1. CASE LoadDataset
  <2>1. /\ control = "idle" /\ control' = "next" /\ UNCHANGED <<config, results, patches, report, patch>>
    <3>1. LoadTasks(target.tasks)
      BY <1>1 DEF LoadDataset
    <3> QED BY ONLY <3>1 DEF LoadTasks, Goto, disk, work
  <2>2. tasks = <<>> /\ config = 1 /\ Len(report.groups) = 0
    BY <1>0, <2>1 DEF StageInv
  <2>3. \A k \in 1..Configs : results[k] = <<>>
    <3>1. \A k \in 1..Configs : results[k] \in Seq(Rows) /\ Len(results[k]) <= 0
      BY <1>0, <2>2 DEF LinesHaveArtifacts
    <3> QED BY ONLY <3>1
  <2>4. LinesHaveArtifacts'
    <3>1. Len(tasks') \in Nat
      BY <1>0, <1>1 DEF LoadDataset, LoadTasks, Types, DatasetTypes, Directories
    <3>2. \A k \in 1..Configs : results'[k] = <<>>
      BY <2>1, <2>3
    <3>3. DOMAIN report'.groups = {}
      BY <1>0, <2>1, <2>2
    <3>4. \A k \in 1..Configs : Len(results'[k]) <= Len(tasks') /\ DOMAIN results'[k] = {}
      BY ONLY <3>1, <3>2
    <3> QED BY ONLY <3>3, <3>4 DEF LinesHaveArtifacts
  <2> QED BY <1>0, <2>1, <2>4 DEF PatchInv
<1>2. CASE \/ StartTask \/ CopyRepository \/ BuildAgent \/ SetUpFails \/ CutByDeadline
           \/ BeginVerification \/ Judge \/ EndUnverified \/ Propagate \/ ListTracked
           \/ ListUntracked \/ DiffTracked \/ DiffUntracked
  <2>1. /\ control \notin {"cleanup", "score", "flush", "stopped"}
        /\ control' \notin {"cleanup", "score", "flush", "stopped"}
        /\ patch' = patch /\ UNCHANGED <<tasks, config, results, patches, report>>
    BY <1>2 DEF StartTask, CopyRepository, BuildAgent, SetUpFails, CutByDeadline, BeginVerification,
                Judge, EndUnverified, Propagate, ListTracked, ListUntracked, DiffTracked,
                DiffUntracked, Goto, run, disk, work
  <2> QED BY <1>0, <2>1, PatchFrame DEF PatchInv
<1>3. CASE SkipExport \/ ExportFails
  <2>1. /\ control' = "cleanup" /\ patch' = NoPatch /\ UNCHANGED <<tasks, config, results, patches, report>>
    BY <1>0, <1>3 DEF SkipExport, ExportFails, Goto, run, disk, work, PatchInv
  <2> QED BY <1>0, <2>1, PatchFrame DEF PatchInv, NoPatch
<1>4. CASE PublishPatch
  BY <1>4, PublishedPatch
<1>5. CASE CleanUp \/ WriteLine
  <2>1. /\ control \in {"cleanup", "score"} /\ control' \in {"score", "flush", "stopped"}
        /\ patch' = patch /\ UNCHANGED <<tasks, config, results, patches, report>>
    BY <1>5 DEF CleanUp, WriteLine, AfterTask, Goto, run, disk, work
  <2> QED BY <1>0, <2>1, PatchFrame DEF PatchInv
<1>6. CASE FlushLine
  <2>1. patch' = NoPatch /\ control' = "next"
    BY <1>6 DEF FlushLine, Forget, Goto
  <2> QED BY <1>6, <2>1, FlushedLine DEF PatchInv
<1>7. CASE SaveReport
  <2>1. /\ control = "next" /\ control' = "summary" /\ patch' = patch
        /\ UNCHANGED <<tasks, config, results, patches>> /\ Len(results[config]) = Len(tasks)
        /\ report' = [report EXCEPT !.groups = Append(report.groups, results[config])]
    BY <1>7 DEF SaveReport, Answered, Goto, run, work
  <2>2. Len(report.groups) = config - 1
    BY <1>0, <2>1 DEF StageInv
  <2>3. report'.groups = Append(report.groups, results[config])
    BY <1>0, <2>1 DEF Types, DiskTypes
  <2>4. \A k \in DOMAIN report'.groups : report'.groups[k] = results[k] /\ Len(results[k]) = Len(tasks)
    <3>1. results[config] \in Seq(Rows) /\ report.groups \in Seq(Seq(Rows)) /\ config \in Nat
      BY <1>0
    <3>2. \A k \in DOMAIN report.groups : report.groups[k] = results[k] /\ Len(results[k]) = Len(tasks)
      BY <1>0 DEF LinesHaveArtifacts
    <3>3. Len(results[config]) = Len(tasks)
      BY <2>1
    <3>4. \A k \in DOMAIN report'.groups :
            \/ k \in DOMAIN report.groups /\ report'.groups[k] = report.groups[k]
            \/ k = config /\ report'.groups[k] = results[config]
      BY ONLY <2>2, <2>3, <3>1
    <3> QED BY ONLY <3>2, <3>3, <3>4
  <2>5. LinesHaveArtifacts'
    <3>1. LinesHaveArtifacts /\ UNCHANGED <<tasks, results, patches>>
      BY <1>0, <2>1
    <3> QED BY ONLY <2>4, <3>1 DEF LinesHaveArtifacts
  <2> QED BY <1>0, <2>1, <2>5 DEF PatchInv
<1>8. CASE SaveSummary
  <2>1. /\ control = "summary" /\ control' \in {"next", "finished"} /\ patch' = patch
        /\ UNCHANGED <<tasks, results, patches>> /\ report' = [report EXCEPT !.summary = config]
    BY <1>8 DEF SaveSummary, Goto, work
  <2>2. report'.groups = report.groups
    BY <1>0, <2>1 DEF Types, DiskTypes
  <2>3. LinesHaveArtifacts'
    BY <1>0, <2>1, <2>2 DEF LinesHaveArtifacts
  <2> QED BY <1>0, <2>1, <2>3 DEF PatchInv
<1>9. CASE Stop
  <2>1. control' = "stopped" /\ UNCHANGED <<tasks, config, results, patches, report>>
    BY <1>9 DEF Stop, Goto, run, disk
  <2> QED BY <1>0, <2>1, PatchFrame DEF PatchInv
<1>10. ASSUME NEW c \in Commands, RunCommand(c) \/ ProcessWrites(c) \/ ProcessExits(c) \/ TimesOut(c)
       PROVE  PatchInv'
  <2>1. UNCHANGED <<control, patch, tasks, config, results, patches, report>>
    BY <1>10 DEF RunCommand, ProcessWrites, ProcessExits, TimesOut, run, disk, work
  <2> QED BY <1>0, <2>1, PatchFrame
<1>11. CASE UNCHANGED runner
  BY <1>0, <1>11, PatchFrame DEF runner, run, disk, work
<1>12. ASSUME NEW k \in 1..Configs, NEW t \in Ids, EditPatch(k, t)
       PROVE  PatchInv'
  <2>1. /\ UNCHANGED <<control, patch, tasks, config, results, report>>
        /\ patches' = [patches EXCEPT ![k][t] = Foreign]
    BY <1>12 DEF EditPatch, run, work
  <2>2. \A j \in 1..Configs, u \in Ids : patches'[j][u] \in {patches[j][u], Foreign}
    BY <1>0, <2>1 DEF Types, DiskTypes
  <2>3. \A j \in 1..Configs : \A i \in DOMAIN results[j] : results[j][i].task \in Ids
    BY <1>0 DEF LinesHaveArtifacts
  <2>4. LinesHaveArtifacts'
    <3>1. \A j \in 1..Configs : \A i \in DOMAIN results[j] :
            patches'[j][results[j][i].task] \in {patches[j][results[j][i].task], Foreign}
      BY <2>2, <2>3
    <3>2. LinesHaveArtifacts /\ UNCHANGED <<tasks, results, report>>
      BY <1>0, <2>1
    <3>3. ASSUME NEW j \in 1..Configs, NEW i \in DOMAIN results[j]
          PROVE  LET row == results[j][i]
                 IN /\ row.task = tasks[i]
                    /\ row.patch.status # "error" =>
                         patches'[j][row.task] \in {row.patch.tree, Foreign}
                    /\ row.patch.status = "empty" <=>
                         row.patch.status # "error" /\ row.patch.tree = CleanTree
      <4>1. patches'[j][results[j][i].task] \in {patches[j][results[j][i].task], Foreign}
        BY <3>1
      <4> QED BY ONLY <3>2, <4>1, j \in 1..Configs, i \in DOMAIN results[j] DEF LinesHaveArtifacts
    <3>4. /\ \A j \in 1..Configs : Len(results[j]) <= Len(tasks)
          /\ \A j \in DOMAIN report.groups : report.groups[j] = results[j] /\ Len(results[j]) = Len(tasks)
      BY <3>2 DEF LinesHaveArtifacts
    <3> QED BY ONLY <3>2, <3>3, <3>4 DEF LinesHaveArtifacts
  <2>5. Current' = Current
    BY <2>1 DEF Current, Answered
  <2>6. control \in {"cleanup", "score", "flush"} => Current \in Ids
    BY <1>0, CurrentTask DEF Stages, Exporting
  <2> QED BY <1>0, <2>1, <2>2, <2>4, <2>5, <2>6 DEF PatchInv
<1> QED
  BY <1>1, <1>2, <1>3, <1>4, <1>5, <1>6, <1>7, <1>8, <1>9, <1>10, <1>11, <1>12, Elsewhere
  DEF Next, Evaluation, RunnerNext, RunnerStep, ProcessStep

-----------------------------------------------------------------------------
(* What was verified                                                       *)

\* What is established about a completed task needs only these variables.
LEMMA VerifiedFrame ==
  ASSUME VerifiedInv, UNCHANGED <<control, outcome, tree, export, patch, results>>,
         outcome.status = "completed" /\ control \in Exporting => \A c \in Commands : ~Alive(c)'
  PROVE  VerifiedInv'
BY DEF VerifiedInv, SuccessIsVerified

\* Elsewhere than in export, and without a completed outcome, there is little to show.
LEMMA NotCompleted ==
  ASSUME VerifiedInv, outcome'.status # "completed", UNCHANGED results,
         control' = "verify" => outcome'.tested = tree'
  PROVE  VerifiedInv'
BY DEF VerifiedInv, SuccessIsVerified

\* A line that tells of success names the tree that was verified.
LEMMA FlushedSuccess ==
  ASSUME Inv, FlushLine
  PROVE  SuccessIsVerified'
<1>1. /\ control = "flush"
      /\ results' = [results EXCEPT ![config] = Append(results[config], Result)]
  BY DEF FlushLine
<1>2. /\ config \in 1..Configs /\ results[config] \in Seq(Rows) /\ results \in [1..Configs -> Seq(Rows)]
  BY CurrentTask DEF Inv, Types, DiskTypes
<1>3. VerifiedInv /\ SuccessIsVerified
  BY DEF Inv, VerifiedInv
<1>4. Result.success /\ Result.patch.status # "error" =>
        Result.patch = [status |-> "exported", tree |-> Result.tested]
  BY <1>1, <1>3 DEF VerifiedInv, Result, Success
<1>5. results'[config] = Append(results[config], Result)
      /\ \A k \in 1..Configs : k # config => results'[k] = results[k]
  BY <1>1, <1>2
<1>6. \A i \in DOMAIN results'[config] :
        LET row == results'[config][i]
        IN row.success /\ row.patch.status # "error" => row.patch = [status |-> "exported", tree |-> row.tested]
  BY <1>2, <1>3, <1>4, <1>5 DEF SuccessIsVerified
<1> DEFINE Good(row) == row.success /\ row.patch.status # "error" =>
                          row.patch = [status |-> "exported", tree |-> row.tested]
<1>7. \A k \in 1..Configs : \A i \in DOMAIN results[k] : Good(results[k][i])
  BY <1>3 DEF SuccessIsVerified
<1>8. \A i \in DOMAIN results'[config] : Good(results'[config][i])
  BY <1>6
<1>9. (\A k \in 1..Configs : \A i \in DOMAIN results'[k] : Good(results'[k][i])) => SuccessIsVerified'
  BY DEF SuccessIsVerified
<1> HIDE DEF Good
<1> QED BY <1>5, <1>7, <1>8, <1>9

\* Each git call of a completed task sees the tree that was verified.
LEMMA VerifiedKept ==
  ASSUME Inv, Next
  PROVE  VerifiedInv'
<1>0. /\ Types /\ StageInv /\ PatchInv /\ QuietInv /\ VerifiedInv /\ None \notin Commands
      /\ process \in [Commands -> {"unused", "started", "half", "full", "gone"}]
  BY RunnerAssumption DEF Inv, Types, ProcTypes
<1>1. CASE \/ LoadDataset \/ StartTask \/ CopyRepository \/ BuildAgent \/ SaveReport \/ SaveSummary
  <2>1. /\ outcome'.status # "completed" /\ control' # "verify" /\ UNCHANGED results
    BY <1>0, <1>1 DEF LoadDataset, LoadTasks, StartTask, CopyRepository, BuildAgent, SaveReport,
                SaveSummary, Goto, work, disk, VerifiedInv
  <2> QED BY <1>0, <2>1, NotCompleted
<1>2. CASE SetUpFails \/ CutByDeadline \/ EndUnverified \/ Propagate
  <2>1. outcome'.status # "completed" /\ control' # "verify" /\ UNCHANGED results
    BY <1>2 DEF SetUpFails, CutByDeadline, EndUnverified, Propagate, Goto, disk, AtLimit, Raised, Fresh
  <2> QED BY <1>0, <2>1, NotCompleted
<1>3. CASE BeginVerification
  <2>1. /\ control = "agent" /\ outcome' = [outcome EXCEPT !.tested = tree] /\ UNCHANGED <<tree, results>>
    BY <1>3 DEF BeginVerification, procs, disk
  <2>2. outcome'.status = outcome.status /\ outcome'.tested = tree
    BY <1>0, <2>1 DEF Types, WorkTypes
  <2> QED BY <1>0, <2>1, <2>2, NotCompleted DEF VerifiedInv
<1>4. CASE Judge
  <2>1. control = "verify" /\ control' = "finally" /\ UNCHANGED <<tree, process, results>>
    BY <1>4 DEF Judge, Goto, procs, disk
  <2>2. CASE outcome' = [Fresh EXCEPT !.verdict = "failed", !.status = "failed"]
    BY <1>0, <2>1, <2>2, NotCompleted DEF Fresh
  <2>3. CASE Verifies /\ outcome' = [outcome EXCEPT !.verdict = "passed", !.status = "completed"]
    <3>1. outcome'.tested = tree /\ tree # CleanTree
      BY <1>0, <2>1, <2>3 DEF Types, WorkTypes, VerifiedInv, Verifies
    <3>2. \A c \in Commands : ~Alive(c)'
      BY <1>0, <2>1 DEF QuietInv, Alive
    <3> QED BY <1>0, <2>1, <3>1, <3>2 DEF VerifiedInv, SuccessIsVerified, Exporting
  <2> QED BY <1>4, <2>2, <2>3 DEF Judge
<1>5. CASE SkipExport \/ ExportFails
  <2>1. /\ control \in Exporting /\ control' = "cleanup" /\ patch' = NoPatch
        /\ UNCHANGED <<outcome, tree, process, results>>
    BY <1>0, <1>5 DEF SkipExport, ExportFails, Goto, work, procs, disk, Exporting, PatchInv
  <2> QED BY <1>0, <2>1 DEF VerifiedInv, SuccessIsVerified, Exporting, Alive, NoPatch
<1>6. CASE ListTracked
  <2>1. /\ control = "finally" /\ control' = "listed" /\ UNCHANGED <<outcome, tree, process, results>>
        /\ export' = [export EXCEPT !.listed = TrackedIn(tree)]
    BY <1>6 DEF ListTracked, Goto, procs, disk, TrackedIn
  <2>2. export'.listed = TrackedIn(tree)
    BY <1>0, <2>1 DEF Types, WorkTypes
  <2> QED BY <1>0, <2>1, <2>2 DEF VerifiedInv, SuccessIsVerified, Exporting, Alive, TrackedIn
<1>7. CASE ListUntracked
  <2>1. /\ control = "listed" /\ control' = "diff" /\ UNCHANGED <<outcome, tree, process, results>>
        /\ export' = [export EXCEPT !.listed = @ \cup NewIn(tree)]
    BY <1>7 DEF ListUntracked, Goto, procs, disk, NewIn
  <2>2. export'.listed = export.listed \cup NewIn(tree)
    BY <1>0, <2>1 DEF Types, WorkTypes
  <2> QED BY <1>0, <2>1, <2>2 DEF VerifiedInv, SuccessIsVerified, Exporting, Alive, TrackedIn, NewIn
<1>8. CASE DiffTracked
  <2>1. /\ control = "diff" /\ control' = "diff_new" /\ UNCHANGED <<outcome, tree, process, results>>
        /\ export' = [export EXCEPT !.tree.tracked = IF "tracked" \in export.listed THEN tree.tracked ELSE Base]
    BY <1>8 DEF DiffTracked, Goto, procs, disk
  <2>2. /\ export'.listed = export.listed
        /\ export'.tree.tracked = IF "tracked" \in export.listed THEN tree.tracked ELSE Base
    BY <1>0, <2>1 DEF Types, WorkTypes, Trees
  <2>3. outcome.status = "completed" => export'.tree.tracked = tree.tracked
    BY <1>0, <2>1, <2>2 DEF VerifiedInv, TrackedIn, NewIn
  <2> QED BY <1>0, <2>1, <2>2, <2>3 DEF VerifiedInv, SuccessIsVerified, Exporting, Alive, TrackedIn, NewIn
<1>9. CASE DiffUntracked
  <2>1. /\ control = "diff_new" /\ control' = "publish" /\ UNCHANGED <<outcome, tree, process, results>>
        /\ export' = [export EXCEPT !.tree.new = IF "new" \in export.listed THEN tree.new ELSE Absent]
    BY <1>9 DEF DiffUntracked, Goto, procs, disk
  <2>2. /\ export'.tree \in Trees
        /\ export'.tree.tracked = export.tree.tracked
        /\ export'.tree.new = IF "new" \in export.listed THEN tree.new ELSE Absent
    BY <1>0, <2>1 DEF Types, WorkTypes, ProcTypes, Trees
  <2>3. tree \in Trees
    BY <1>0 DEF Types, ProcTypes
  <2>4. outcome.status = "completed" => export'.tree = tree
    BY <1>0, <2>1, <2>2, <2>3 DEF VerifiedInv, TrackedIn, NewIn, Trees
  <2> QED BY <1>0, <2>1, <2>4 DEF VerifiedInv, SuccessIsVerified, Exporting, Alive
<1>10. CASE PublishPatch
  <2>1. /\ control = "publish" /\ control' = "cleanup" /\ UNCHANGED <<outcome, tree, process, results>>
        /\ patch' = [status |-> IF export.tree = CleanTree THEN "empty" ELSE "exported",
                    tree |-> export.tree]
    BY <1>10 DEF PublishPatch, Goto, procs
  <2>2. outcome.status = "completed" => patch' = [status |-> "exported", tree |-> outcome.tested]
    BY <1>0, <2>1 DEF VerifiedInv, Exporting
  <2> QED BY <1>0, <2>1, <2>2 DEF VerifiedInv, SuccessIsVerified, Exporting, Alive
<1>11. CASE CleanUp \/ WriteLine
  <2>1. /\ control \in {"cleanup", "score"} /\ control' \in {"score", "flush", "stopped"}
        /\ UNCHANGED <<outcome, patch, results>>
    BY <1>11 DEF CleanUp, WriteLine, AfterTask, Goto, work, disk
  <2> QED BY <1>0, <2>1 DEF VerifiedInv, SuccessIsVerified, Exporting
<1>12. CASE FlushLine
  <2>1. control' = "next" /\ outcome' = Fresh
    BY <1>12 DEF FlushLine, Forget, Goto
  <2> QED BY <1>12, <2>1, FlushedSuccess DEF VerifiedInv, Fresh, Exporting
<1>13. CASE Stop
  <2>1. control' = "stopped" /\ outcome' = Fresh /\ UNCHANGED results
    BY <1>13 DEF Stop, Forget, Goto, disk
  <2> QED BY <1>0, <2>1, NotCompleted DEF Fresh
<1>14. ASSUME NEW c \in Commands, RunCommand(c)
       PROVE  VerifiedInv'
  <2>1. /\ control = "agent" /\ UNCHANGED <<control, tree, outcome, export, patch, results>>
    BY <1>14 DEF RunCommand, work, disk
  <2> QED BY <1>0, <2>1, VerifiedFrame DEF Exporting
<1>15. ASSUME NEW c \in Commands, ProcessWrites(c)
       PROVE  VerifiedInv'
  <2>1. UNCHANGED <<control, outcome, export, patch, results>> /\ Alive(c)
    BY <1>15 DEF ProcessWrites, work, disk, Alive
  <2>2. control # "verify" /\ (outcome.status = "completed" => control \notin Exporting)
    BY <1>0, <2>1 DEF QuietInv, VerifiedInv
  <2> QED BY <1>0, <2>1, <2>2 DEF VerifiedInv, SuccessIsVerified, Exporting
<1>16. ASSUME NEW c \in Commands, ProcessExits(c) \/ TimesOut(c)
       PROVE  VerifiedInv'
  <2>1. /\ UNCHANGED <<control, outcome, tree, export, patch, results>>
        /\ process' = [process EXCEPT ![c] = "gone"]
    BY <1>16 DEF ProcessExits, TimesOut, work, disk
  <2>2. \A e \in Commands : Alive(e)' => Alive(e)
    BY <1>0, <2>1 DEF Alive
  <2>3. outcome.status = "completed" /\ control \in Exporting => \A e \in Commands : ~Alive(e)'
    BY <1>0, <2>2 DEF VerifiedInv
  <2> QED BY <1>0, <2>1, <2>3, VerifiedFrame
<1>17. ASSUME UNCHANGED runner \/ \E k \in 1..Configs, t \in Ids : EditPatch(k, t)
       PROVE  VerifiedInv'
  <2>1. UNCHANGED <<control, outcome, tree, export, patch, process, results>>
    BY <1>17 DEF EditPatch, runner, work, procs, disk
  <2> QED BY <1>0, <2>1, VerifiedFrame DEF VerifiedInv, Alive
<1> QED
  BY <1>1, <1>2, <1>3, <1>4, <1>5, <1>6, <1>7, <1>8, <1>9, <1>10, <1>11, <1>12, <1>13, <1>14,
     <1>15, <1>16, <1>17, Elsewhere
  DEF Next, Evaluation, RunnerNext, RunnerStep, ProcessStep

-----------------------------------------------------------------------------
(* Predictions                                                             *)

\* Lines are only added, at the end of the results of one config, whose run is
\* not finished then.
LEMMA FinishedStays ==
  ASSUME Inv, Next
  PROVE  \/ tasks # <<>> /\ UNCHANGED tasks
            /\ \A k \in 1..Configs : Len(results[k]) = Len(tasks) => results'[k] = results[k]
         \/ tasks = <<>>
<1>0. /\ config \in 1..Configs /\ results \in [1..Configs -> Seq(Rows)] /\ tasks \in Seq(Ids)
  BY CurrentTask DEF Inv, Types, DiskTypes, RunTypes
<1> SUFFICES ASSUME tasks # <<>>
             PROVE  /\ UNCHANGED tasks
                    /\ \A k \in 1..Configs : Len(results[k]) = Len(tasks) => results'[k] = results[k]
  OBVIOUS
<1>1. UNCHANGED tasks
  <2>1. ~LoadDataset
    BY DEF LoadDataset, LoadTasks, Inv, StageInv
  <2> QED BY <2>1, RunnerLeavesTasks, Elsewhere DEF Next, Evaluation, EditPatch, runner, run
<1>2. CASE FlushLine
  <2>1. /\ results' = [results EXCEPT ![config] = Append(results[config], Result)] /\ control = "flush"
    BY <1>2 DEF FlushLine
  <2>2. Len(results[config]) # Len(tasks)
    BY <1>0, <2>1 DEF Inv, StageInv, Stages
  <2> QED BY <1>0, <1>1, <2>1, <2>2
<1>3. UNCHANGED disk \/ PublishPatch \/ WriteLine \/ SaveReport \/ SaveSummary
      \/ (\E k \in 1..Configs, t \in Ids : EditPatch(k, t)) => UNCHANGED results
  BY DEF disk, PublishPatch, WriteLine, SaveReport, SaveSummary, EditPatch
<1> QED BY <1>1, <1>2, <1>3, DiskMoves

\* A run whose results have the ids of the metadata has answered every task.
LEMMA AllAnswered ==
  ASSUME Inv, NEW k \in 1..Configs, ReadRun(k)
  PROVE  tasks # <<>> /\ Len(results[k]) = Len(tasks)
<1>1. /\ target # EmptyDirectory /\ target.tasks \in Seq(Ids) /\ target.metadata \in Seq(Ids)
      /\ IdsOf(results[k]) = {target.metadata[i] : i \in DOMAIN target.metadata}
  BY DEF ReadRun, Inv, Types, DatasetTypes, Directories
<1>2. target.metadata = target.tasks /\ target.tasks # <<>>
  BY <1>1, RequestTypes DEF Inv, ConversionInv, DatasetWhole
<1>3. /\ results[k] \in Seq(Rows) /\ Len(results[k]) <= Len(tasks) /\ tasks \in Seq(Ids)
      /\ \A i \in DOMAIN results[k] : results[k][i].task = tasks[i]
      /\ \A i, j \in DOMAIN tasks : tasks[i] = tasks[j] => i = j
  <2>1. results[k] \in Seq(Rows) /\ tasks \in Seq(Ids)
    BY DEF Inv, Types, DiskTypes, RunTypes
  <2>2. \A i, j \in DOMAIN tasks : tasks[i] = tasks[j] => i = j
    BY DEF Inv, StageInv
  <2>3. Len(results[k]) <= Len(tasks) /\ \A i \in DOMAIN results[k] : results[k][i].task = tasks[i]
    BY DEF Inv, PatchInv, LinesHaveArtifacts
  <2> QED BY <2>1, <2>2, <2>3
<1>4. \A i \in DOMAIN target.tasks : \E j \in DOMAIN results[k] : results[k][j].task = target.tasks[i]
  BY <1>1, <1>2 DEF IdsOf
<1>5. tasks # <<>>
  BY <1>1, <1>2, <1>3, <1>4
<1>6. target.tasks = tasks
  BY <1>5 DEF Inv, ConversionInv, DatasetWhole
<1>7. \A i \in DOMAIN tasks : \E j \in DOMAIN results[k] : tasks[j] = tasks[i]
  <2>1. \A i \in DOMAIN results[k] : results[k][i].task = tasks[i]
    BY <1>3
  <2> QED BY ONLY <1>4, <1>6, <2>1
<1>8. Len(tasks) \in DOMAIN tasks
  BY <1>3, <1>5
<1>9. PICK j \in DOMAIN results[k] : tasks[j] = tasks[Len(tasks)]
  BY <1>7, <1>8
<1>10. j = Len(tasks)
  BY <1>3, <1>8, <1>9
<1> QED BY <1>3, <1>5, <1>9, <1>10

\* An export, and what it published, belong to a finished config.
LEMMA PredictionKept ==
  ASSUME Inv, Next
  PROVE  PredictionInv'
<1>0. /\ Types /\ PredictionInv
      /\ exporting \in [at: {"idle", "patches"}, config: 1..Configs, rows: Seq(Rows), lines: Seq(Lines)]
      /\ predictions \in [config: 0..Configs, lines: Seq(Lines)]
      /\ results \in [1..Configs -> Seq(Rows)]
  BY DEF Inv, Types, ExportTypes, DiskTypes
<1>1. CASE UNCHANGED exports
  <2>1. UNCHANGED <<exporting, predictions>>
    BY <1>1 DEF exports
  <2>2. CASE tasks = <<>>
    BY <1>0, <2>1, <2>2 DEF PredictionInv
  <2>3. CASE tasks # <<>>
    <3>1. /\ UNCHANGED tasks
          /\ \A k \in 1..Configs : Len(results[k]) = Len(tasks) => results'[k] = results[k]
      BY <2>3, FinishedStays
    <3>2. exporting.at = "patches" => results'[exporting.config] = results[exporting.config]
      BY <1>0, <3>1 DEF PredictionInv
    <3>3. predictions # NoPredictions => results'[predictions.config] = results[predictions.config]
      BY <1>0, <3>1 DEF PredictionInv
    <3>4. PredictionInv
      BY <1>0
    <3> QED BY ONLY <2>1, <3>1, <3>2, <3>3, <3>4 DEF PredictionInv, FaithfulLines, NoPredictions
  <2> QED BY <2>2, <2>3
<1>2. Export => UNCHANGED <<tasks, results, patches>>
  BY Elsewhere DEF runner, run, disk
<1>3. ASSUME NEW k \in 1..Configs, ReadRun(k)
      PROVE  PredictionInv'
  <2>1. /\ exporting' = [at |-> "patches", config |-> k, rows |-> results[k], lines |-> <<>>]
        /\ UNCHANGED <<predictions, tasks, results>>
    BY <1>2, <1>3 DEF ReadRun, NotExporting, Export
  <2>2. tasks # <<>> /\ Len(results[k]) = Len(tasks)
    BY <1>3, AllAnswered
  <2>3. exporting'.lines = <<>> /\ FaithfulLines(<<>>, results[k]) /\ Len(results[k]) \in Nat
    BY <1>0, <2>1 DEF FaithfulLines
  <2> QED BY <1>0, <2>1, <2>2, <2>3 DEF PredictionInv
<1>4. CASE CheckPatch
  <2> DEFINE row  == exporting.rows[Len(exporting.lines) + 1]
             line == [task |-> row.task, patch |-> row.patch.tree]
  <2>1. /\ exporting.at = "patches" /\ Len(exporting.lines) < Len(exporting.rows)
        /\ row.patch.status # "error"
        /\ exporting' = [exporting EXCEPT !.lines = Append(exporting.lines, line)]
        /\ UNCHANGED <<predictions, tasks, results>>
    BY <1>2, <1>4 DEF CheckPatch, Valid, Export
  <2>2. /\ exporting'.at = exporting.at /\ exporting'.rows = exporting.rows
        /\ exporting'.config = exporting.config /\ exporting'.lines = Append(exporting.lines, line)
    BY <1>0, <2>1
  <2>3. FaithfulLines(exporting.lines, exporting.rows)
    BY <1>0, <2>1 DEF PredictionInv
  <2>4. exporting.lines \in Seq(Lines)
    BY <1>0
  <2>5. FaithfulLines(Append(exporting.lines, line), exporting.rows)
    <3>1. \A i \in DOMAIN Append(exporting.lines, line) :
            \/ i \in DOMAIN exporting.lines /\ Append(exporting.lines, line)[i] = exporting.lines[i]
            \/ i = Len(exporting.lines) + 1 /\ Append(exporting.lines, line)[i] = line
      <4> HIDE DEF line
      <4> QED BY ONLY <2>4
    <3>2. row.patch.status # "error"
      BY <2>1
    <3> QED BY ONLY <2>3, <3>1, <3>2 DEF FaithfulLines
  <2> HIDE DEF line
  <2>6. Len(exporting'.lines) <= Len(exporting'.rows)
    BY <1>0, <2>1, <2>2
  <2> QED BY <1>0, <2>1, <2>2, <2>5, <2>6 DEF PredictionInv
<1>5. CASE PublishPredictions
  <2>1. /\ exporting.at = "patches" /\ Len(exporting.lines) = Len(exporting.rows)
        /\ predictions' = [config |-> exporting.config, lines |-> exporting.lines]
        /\ exporting' = NotExporting /\ UNCHANGED <<tasks, results>>
    BY <1>2, <1>5 DEF PublishPredictions, Export
  <2> QED BY <1>0, <2>1 DEF PredictionInv, NotExporting
<1>6. CASE AbandonPredictions
  <2>1. exporting' = NotExporting /\ UNCHANGED <<predictions, tasks, results>>
    BY <1>2, <1>6 DEF AbandonPredictions, Export
  <2> QED BY <1>0, <2>1 DEF PredictionInv, NotExporting
<1>7. LoadDataset \/ Evaluation \/ (\E k \in 1..Configs, t \in Ids : EditPatch(k, t))
      => UNCHANGED exports
  BY DEF LoadDataset, Evaluation, EditPatch
<1> QED
  BY <1>1, <1>3, <1>4, <1>5, <1>6, <1>7, Elsewhere DEF Next, Export

-----------------------------------------------------------------------------
(* The theorems                                                            *)

\* The invariant holds at the start.
LEMMA InvInit == Init => Inv
<1> SUFFICES ASSUME Init
             PROVE  Inv
  OBVIOUS
<1>1. /\ Configs \in Nat \ {0} /\ 1 \in 1..Configs
  BY RunnerAssumption
<1>2. RunTypes /\ WorkTypes
  <2>1. RunTypes
    <3>1. control = "idle" /\ tasks = <<>> /\ configs = 1 /\ config = 1 /\ raising = FALSE
      BY DEF Init, RunnerInit
    <3>2. tasks \in Seq(Ids) /\ config \in 1..configs
      BY <3>1
    <3> QED BY <1>1, <3>1, <3>2 DEF RunTypes, Labels
  <2>2. WorkTypes
    BY ConstantTypes DEF Init, RunnerInit, WorkTypes
  <2> QED BY <2>1, <2>2
<1>3. ProcTypes
  BY ConstantTypes DEF Init, RunnerInit, ProcTypes
<1>4. DiskTypes
  <2>1. results \in [1..Configs -> Seq(Rows)] /\ torn \in BOOLEAN
    <3>1. <<>> \in Seq(Rows)
      OBVIOUS
    <3>2. results = [k \in 1..Configs |-> <<>>] /\ torn = FALSE
      BY DEF Init, RunnerInit
    <3> QED BY <3>1, <3>2
  <2>2. patches \in [1..Configs -> [Ids -> Trees \cup {Absent, Foreign}]]
    BY DEF Init, RunnerInit
  <2>3. report \in [groups: Seq(Seq(Rows)), summary: 0..Configs]
    BY <1>1 DEF Init, RunnerInit
  <2> QED BY <2>1, <2>2, <2>3 DEF DiskTypes
<1>5. DatasetTypes
  BY DEF Init, DatasetTypes, EmptyDirectory, Directories
<1>6. ExportTypes
  BY <1>1 DEF Init, ExportTypes, NotExporting, NoPredictions
<1>7. StageInv /\ QuietInv
  BY DEF Init, RunnerInit, StageInv, QuietInv, Stages, Exporting, Alive
<1>8. PatchInv
  BY <1>1 DEF Init, RunnerInit, PatchInv, LinesHaveArtifacts
<1>9. VerifiedInv
  BY DEF Init, RunnerInit, VerifiedInv, SuccessIsVerified, Fresh, Exporting
<1>10. ConversionInv
  BY RequestTypes DEF Init, RunnerInit, ConversionInv, DatasetWhole, EmptyDirectory
<1>11. PredictionInv
  BY DEF Init, PredictionInv, NotExporting
<1> QED BY <1>2, <1>3, <1>4, <1>5, <1>6, <1>7, <1>8, <1>9, <1>10, <1>11 DEF Inv, Types

\* Every step of the evaluation, a conversion or an export preserves it.
LEMMA InvNext == Inv /\ [Next]_vars => Inv'
<1> SUFFICES ASSUME Inv, [Next]_vars
             PROVE  Inv'
  OBVIOUS
<1>1. CASE Next
  BY <1>1, TypesKept, StageKept, QuietKept, ConversionKept, PatchKept, VerifiedKept, PredictionKept
  DEF Inv
<1>2. CASE UNCHANGED vars
  <2>1. UNCHANGED runner /\ UNCHANGED datasets /\ UNCHANGED exports
    BY <1>2 DEF vars
  <2>2. UNCHANGED <<control, run>> /\ UNCHANGED work /\ UNCHANGED procs /\ UNCHANGED disk
    BY <2>1 DEF runner
  <2>3. Types'
    BY <2>1, <2>2, TypesFrame DEF Inv, Types
  <2>4. StageInv' /\ PatchInv'
    BY <2>2, StageFrame, PatchFrame DEF Inv, run, work, disk
  <2>5. QuietInv' /\ VerifiedInv'
    BY <2>2 DEF Inv, QuietInv, VerifiedInv, SuccessIsVerified, Alive, work, procs, disk
  <2>6. ConversionInv'
    BY <2>1, <2>2 DEF Inv, ConversionInv, DatasetWhole, datasets, run
  <2>7. PredictionInv'
    BY <2>1, <2>2 DEF Inv, PredictionInv, FaithfulLines, exports, run, disk
  <2> QED BY <2>3, <2>4, <2>5, <2>6, <2>7 DEF Inv
<1> QED BY <1>1, <1>2 DEF vars

\* The invariant holds throughout every evaluation.
LEMMA Invariance == Spec => []Inv
BY InvInit, InvNext, PTL DEF Spec

\* Every part of the state of an evaluation keeps its type.
THEOREM EvaluationTypes == Spec => []TypeOK
<1>1. Inv => TypeOK
  BY DEF Inv, Types, RunTypes, WorkTypes, ProcTypes, DiskTypes, DatasetTypes, ExportTypes, TypeOK
<1> QED BY <1>1, Invariance, PTL

\* Of any number of conversions to one output directory, what is there is one's
\* whole dataset, and it stays while it is evaluated.
THEOREM DatasetIsWhole == Spec => []DatasetWhole
<1>1. Inv => DatasetWhole
  BY DEF Inv, ConversionInv
<1> QED BY <1>1, Invariance, PTL

\* Wherever the run is stopped, its lines are those of the first tasks with the
\* artifacts they name, and its reports are of finished configs.
THEOREM LinesNameArtifacts == Spec => []LinesHaveArtifacts
<1>1. Inv => LinesHaveArtifacts
  BY DEF Inv, PatchInv
<1> QED BY <1>1, Invariance, PTL

\* The patch of a success is the tree its verification saw, although commands
\* outlive the await of the agent.
THEOREM SuccessWasVerified == Spec => []SuccessIsVerified
<1>1. Inv => SuccessIsVerified
  BY DEF Inv, VerifiedInv
<1> QED BY <1>1, Invariance, PTL

\* Published predictions are the patches of the results of one whole config,
\* although the run goes on while they are exported.
THEOREM PredictionsAreFaithful == Spec => []PredictionsFaithful
<1>1. ASSUME Inv
      PROVE  PredictionsFaithful
  <2> SUFFICES ASSUME predictions # NoPredictions
               PROVE  LET rows == results[predictions.config]
                      IN /\ Len(predictions.lines) = Len(target.tasks)
                         /\ \A i \in DOMAIN predictions.lines :
                              /\ predictions.lines[i].task = target.tasks[i]
                              /\ rows[i].patch.status # "error"
                              /\ predictions.lines[i].patch = rows[i].patch.tree
    BY DEF PredictionsFaithful
  <2>1. /\ tasks # <<>> /\ predictions.config \in 1..Configs
        /\ Len(predictions.lines) = Len(tasks)
        /\ Len(results[predictions.config]) = Len(tasks)
        /\ FaithfulLines(predictions.lines, results[predictions.config])
    BY <1>1 DEF Inv, PredictionInv
  <2>2. target.tasks = tasks
    BY <1>1, <2>1 DEF Inv, ConversionInv, DatasetWhole
  <2>3. \A i \in DOMAIN results[predictions.config] : results[predictions.config][i].task = tasks[i]
    BY <1>1, <2>1 DEF Inv, PatchInv, LinesHaveArtifacts
  <2>4. DOMAIN predictions.lines = DOMAIN results[predictions.config]
    BY <1>1, <2>1 DEF Inv, Types, ExportTypes, DiskTypes
  <2>5. \A i \in DOMAIN predictions.lines :
          /\ predictions.lines[i].task = target.tasks[i]
          /\ results[predictions.config][i].patch.status # "error"
          /\ predictions.lines[i].patch = results[predictions.config][i].patch.tree
    <3> SUFFICES ASSUME NEW i \in DOMAIN predictions.lines
                 PROVE  /\ predictions.lines[i].task = target.tasks[i]
                        /\ results[predictions.config][i].patch.status # "error"
                        /\ predictions.lines[i].patch = results[predictions.config][i].patch.tree
      OBVIOUS
    <3> DEFINE row == results[predictions.config][i]
    <3>1. /\ row.patch.status # "error"
          /\ predictions.lines[i] = [task |-> row.task, patch |-> row.patch.tree]
      BY <2>1 DEF FaithfulLines
    <3>2. row.task = tasks[i]
      BY <2>3, <2>4
    <3> HIDE DEF row
    <3>3. predictions.lines[i].task = row.task /\ predictions.lines[i].patch = row.patch.tree
      BY <3>1
    <3> QED BY <2>2, <3>1, <3>2, <3>3 DEF row
  <2> QED BY <2>1, <2>2, <2>5
<1> QED BY <1>1, Invariance, PTL

=============================================================================
