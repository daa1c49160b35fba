------------------------------- MODULE SweBench -------------------------------
(***************************************************************************)
(* The way of a SWE-bench subset through the program, each part a command  *)
(* of its own: eval-convert-swebench publishes a dataset, eval runs it     *)
(* (EvalRunner), and eval-export-swebench turns the results and patches of *)
(* a run into predictions.  The parts share only directories: conversions  *)
(* to the same output may overlap, and predictions may be exported while   *)
(* the run is still going on.                                              *)
(***************************************************************************)
EXTENDS EvalRunner

CONSTANTS
  Converters,  \* conversions to the same output directory
  Requests,    \* the instances each asks for, sorted as _select_instances does
  Foreign      \* a patch file after somebody else wrote to it

VARIABLES
  target,      \* the dataset directory: tasks, metadata and repositories
  staging,     \* per conversion: the directory it prepares beside the target
  converting,  \* per conversion: where it is
  exporting,   \* the export: where it is, its run, and the rows and lines it has
  predictions  \* predictions.jsonl

datasets == <<target, staging, converting>>
exports  == <<exporting, predictions>>
vars     == <<runner, datasets, exports>>

ASSUME SweBenchAssumption ==
  /\ Foreign \notin Trees /\ Foreign # Absent
  /\ Requests \in [Converters -> Seq(Ids) \ {<<>>}]
  /\ \A d \in Converters : \A i, j \in DOMAIN Requests[d] :
       Requests[d][i] = Requests[d][j] => i = j

\* tasks has one entry per YAML file, repos the state of each repository, and
\* metadata the instances that metadata.json lists.
EmptyDirectory == [tasks |-> <<>>, repos |-> [i \in Ids |-> "none"], metadata |-> <<>>]
NoPredictions  == [config |-> 0, lines |-> <<>>]
NotExporting   == [at |-> "idle", config |-> 1, rows |-> <<>>, lines |-> <<>>]

Init ==
  /\ RunnerInit
  /\ target = EmptyDirectory
  /\ staging = [d \in Converters |-> EmptyDirectory]
  /\ converting = [d \in Converters |-> "idle"]
  /\ exporting = NotExporting
  /\ predictions = NoPredictions

-----------------------------------------------------------------------------
(* convert_swebench_records                                                *)

\* The output must be missing or empty, and is looked at again only by the
\* replace at the end.
BeginConversion(d) ==
  /\ converting[d] = "idle"
  /\ target = EmptyDirectory
  /\ converting' = [converting EXCEPT ![d] = "fetch"]
  /\ UNCHANGED <<runner, target, staging, exports>>

Upcoming(d) == Requests[d][Len(staging[d].tasks) + 1]

\* git leaves the repository at the base commit and clean, or otherwise.
Materialize(d) ==
  /\ converting[d] = "fetch"
  /\ staging[d].tasks # Requests[d]
  /\ \E state \in {"good", "bad"} : staging' = [staging EXCEPT ![d].repos[Upcoming(d)] = state]
  /\ converting' = [converting EXCEPT ![d] = "verify"]
  /\ UNCHANGED <<runner, target, exports>>

\* _verify_repository, then the task's YAML file.
DescribeTask(d) ==
  /\ converting[d] = "verify"
  /\ staging[d].repos[Upcoming(d)] = "good"
  /\ staging' = [staging EXCEPT ![d].tasks = Append(@, Upcoming(d))]
  /\ converting' = [converting EXCEPT ![d] = "fetch"]
  /\ UNCHANGED <<runner, target, exports>>

WriteMetadata(d) ==
  /\ converting[d] = "fetch"
  /\ staging[d].tasks = Requests[d]
  /\ staging' = [staging EXCEPT ![d].metadata = staging[d].tasks]
  /\ converting' = [converting EXCEPT ![d] = "publish"]
  /\ UNCHANGED <<runner, target, exports>>

MutPublishOver(d) ==
  /\ converting[d] = "publish"
  /\ target' = staging[d]
  /\ staging' = [staging EXCEPT ![d] = EmptyDirectory]
  /\ converting' = [converting EXCEPT ![d] = "idle"]
  /\ UNCHANGED <<runner, exports>>

\* rename refuses a directory that is not empty.
PublishDataset(d) ==
  /\ converting[d] = "publish"
  /\ target = EmptyDirectory
  /\ target' = staging[d]
  /\ staging' = [staging EXCEPT ![d] = EmptyDirectory]
  /\ converting' = [converting EXCEPT ![d] = "idle"]
  /\ UNCHANGED <<runner, exports>>

\* Whatever fails, the staging directory is removed.
AbandonConversion(d) ==
  /\ converting[d] \in {"fetch", "verify", "publish"}
  /\ staging' = [staging EXCEPT ![d] = EmptyDirectory]
  /\ converting' = [converting EXCEPT ![d] = "idle"]
  /\ UNCHANGED <<runner, target, exports>>

\* load_dataset reads the YAML files in lexical order.
LoadDataset ==
  /\ LoadTasks(target.tasks)
  /\ UNCHANGED <<datasets, exports>>

-----------------------------------------------------------------------------
(* export_swebench_predictions                                             *)

IdsOf(rows) == {rows[i].task : i \in DOMAIN rows}

\* The metadata and the results are read, once.  A part of a line is invalid,
\* and every task of the dataset has to have its one result.
ReadRun(k) ==
  /\ exporting.at = "idle"
  /\ target # EmptyDirectory
  /\ ~(torn /\ k = config)
  /\ IdsOf(results[k]) = {target.metadata[i] : i \in DOMAIN target.metadata}
  /\ exporting' = [NotExporting EXCEPT !.at = "patches", !.config = k, !.rows = results[k]]
  /\ UNCHANGED <<runner, datasets, predictions>>

MutValid(row, file) == row.patch.status # "error" /\ file # Absent

\* _validated_patch: the artifact is there, and is the one of the result by
\* digest and size; the status says whether it is empty.
Valid(row, file) == row.patch.status # "error" /\ file = row.patch.tree

CheckPatch ==
  /\ exporting.at = "patches"
  /\ Len(exporting.lines) < Len(exporting.rows)
  /\ LET row == exporting.rows[Len(exporting.lines) + 1]
         file == patches[exporting.config][row.task]
     IN /\ Valid(row, file)
        /\ exporting' = [exporting EXCEPT !.lines = Append(@, [task |-> row.task, patch |-> file])]
  /\ UNCHANGED <<runner, datasets, predictions>>

\* One replace of the whole file.
PublishPredictions ==
  /\ exporting.at = "patches"
  /\ Len(exporting.lines) = Len(exporting.rows)
  /\ predictions' = [config |-> exporting.config, lines |-> exporting.lines]
  /\ exporting' = NotExporting
  /\ UNCHANGED <<runner, datasets>>

\* A check or a write fails: nothing is published.
AbandonPredictions ==
  /\ exporting.at = "patches"
  /\ exporting' = NotExporting
  /\ UNCHANGED <<runner, datasets, predictions>>

\* Somebody edits a patch of the run by hand.
EditPatch(k, t) ==
  /\ patches[k][t] \notin {Absent, Foreign}
  /\ exporting.at = "patches"                                    \* bound: no earlier edit
  /\ \A j \in 1..Configs, u \in Ids : patches[j][u] # Foreign   \* bound: one edit
  /\ patches' = [patches EXCEPT ![k][t] = Foreign]
  /\ UNCHANGED <<control, run, work, procs, results, torn, report, datasets, exports>>

-----------------------------------------------------------------------------

Conversion ==
  \E d \in Converters : \/ BeginConversion(d) \/ Materialize(d) \/ DescribeTask(d)
                        \/ WriteMetadata(d) \/ PublishDataset(d) \/ AbandonConversion(d)

Export == \/ \E k \in 1..Configs : ReadRun(k)
          \/ CheckPatch \/ PublishPredictions \/ AbandonPredictions

Evaluation == RunnerNext /\ UNCHANGED <<datasets, exports>>

Next == \/ Conversion \/ LoadDataset \/ Evaluation \/ Export
        \/ \E k \in 1..Configs, t \in Ids : EditPatch(k, t)

Spec == Init /\ [][Next]_vars

FairSpec == Spec /\ WF_vars(RunnerStep /\ UNCHANGED <<datasets, exports>>)

-----------------------------------------------------------------------------
(* Properties                                                              *)

Labels == {"idle", "next", "setup", "build", "agent", "verify", "finally", "listed",
           "diff", "diff_new", "publish", "cleanup", "score", "flush", "summary",
           "finished", "stopped"}

Patches     == [status: {"error", "empty", "exported"}, tree: Trees]
Rows        == [task: Ids, success: BOOLEAN, patch: Patches, tested: Trees]
Lines       == [task: Ids, patch: Trees \cup {Absent, Foreign}]
Directories == [tasks: Seq(Ids), repos: [Ids -> {"none", "good", "bad"}], metadata: Seq(Ids)]

\* Every part of the state keeps its type.
TypeOK ==
  /\ control \in Labels /\ tasks \in Seq(Ids) /\ configs \in 1..Configs /\ config \in 1..configs
  /\ raising \in BOOLEAN /\ base \in BOOLEAN /\ torn \in BOOLEAN
  /\ tree \in Trees
  /\ outcome \in [status: {"running", "limit", "completed", "failed"},
                  verdict: {"none", "passed", "failed"}, error: BOOLEAN, tested: Trees]
  /\ awaited \in Commands \cup {None}
  /\ export \in [listed: SUBSET {"tracked", "new"}, tree: Trees]
  /\ patch \in Patches
  /\ process \in [Commands -> {"unused", "started", "half", "full", "gone"}]
  /\ results \in [1..Configs -> Seq(Rows)]
  /\ patches \in [1..Configs -> [Ids -> Trees \cup {Absent, Foreign}]]
  /\ report \in [groups: Seq(Seq(Rows)), summary: 0..Configs]
  /\ target \in Directories
  /\ staging \in [Converters -> Directories]
  /\ converting \in [Converters -> {"idle", "fetch", "verify", "publish"}]
  /\ exporting \in [at: {"idle", "patches"}, config: 1..Configs,
                    rows: Seq(Rows), lines: Seq(Lines)]
  /\ predictions \in [config: 0..Configs, lines: Seq(Lines)]

\* "Export the final tree", "only settled verification evidence can establish
\* success": the patch of a successful task is the tree on which its
\* verification began, and is not empty, whatever a cut command was still
\* writing in other tasks.
SuccessIsVerified ==
  \A k \in 1..Configs : \A i \in DOMAIN results[k] :
    LET row == results[k][i]
    IN row.success /\ row.patch.status # "error" =>
         row.patch = [status |-> "exported", tree |-> row.tested]

\* "Persist each result before continuing": the lines are those of the first
\* tasks, in their order, each with the artifact it names; and every report
\* shows finished configs as their lines do.
LinesHaveArtifacts ==
  /\ \A k \in 1..Configs :
       /\ Len(results[k]) <= Len(tasks)
       /\ \A i \in DOMAIN results[k] :
            LET row == results[k][i]
            IN /\ row.task = tasks[i]
               /\ row.patch.status # "error" =>
                    patches[k][row.task] \in {row.patch.tree, Foreign}
               /\ row.patch.status = "empty" <=> row.patch.status # "error" /\ row.patch.tree = CleanTree
  /\ \A k \in DOMAIN report.groups :
       report.groups[k] = results[k] /\ Len(results[k]) = Len(tasks)

\* "Convert explicit instances": the target is empty, or has exactly what one
\* conversion was asked for, each repository verified and listed; and what the
\* evaluation loaded is still what is there.
DatasetWhole ==
  /\ target # EmptyDirectory =>
       /\ \E d \in Converters : target.tasks = Requests[d]
       /\ target.metadata = target.tasks
       /\ \A i \in DOMAIN target.tasks : target.repos[target.tasks[i]] = "good"
  /\ tasks # <<>> => target.tasks = tasks

\* "Combine trusted conversion metadata and verified patch artifacts": published
\* predictions have one line for every task of the dataset, the patch of its
\* result, although results, patches and dataset are read one after the other.
PredictionsFaithful ==
  predictions # NoPredictions =>
    LET rows == results[predictions.config]
    IN /\ Len(predictions.lines) = Len(target.tasks)
       /\ \A i \in DOMAIN predictions.lines :
            /\ predictions.lines[i].task = target.tasks[i]
            /\ rows[i].patch.status # "error"
            /\ predictions.lines[i].patch = rows[i].patch.tree

\* A command that never ends holds up neither its task nor the later ones: an
\* evaluation that was started comes to its end, or stops with an exception.
EvaluationEnds == control # "idle" ~> control \in {"finished", "stopped"}

=============================================================================
