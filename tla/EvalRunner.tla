------------------------------ MODULE EvalRunner ------------------------------
(***************************************************************************)
(* The evaluation of a dataset: run_experiments over its configs, and in   *)
(* each run_dataset over the tasks, every task in a copy of its repository *)
(* that is removed after its patch was exported.                           *)
(*                                                                         *)
(* The agent is reduced to what the runner can see of it (AgentStep models *)
(* the rest): it executes commands, is verified once, and ends.  A command *)
(* of LocalWorkspace runs in a thread and a process of its own.  The       *)
(* deadline of the task cuts the await, and neither: the process goes on   *)
(* writing until it exits or its own timeout kills it.                     *)
(*                                                                         *)
(* A tree is a tracked file and a file that a task may add; a command      *)
(* writes one after the other, and its name stands for what it writes.     *)
(* The verification command of a converted task exports the patch to a     *)
(* place of its own, and leaves the tree as it is.                         *)
(***************************************************************************)
EXTENDS Naturals, Sequences

CONSTANTS
  Ids,       \* task ids
  Configs,   \* the most configs a run compares
  Results,   \* bound: the most results it has, all configs together
  Commands,  \* the commands an agent may run, each once
  Base,      \* the tracked file at the base commit
  Absent,    \* the other file there; what is not in a directory
  None

VARIABLES
  control,   \* where the runner is
  tasks,     \* the dataset as load_dataset returned it
  configs,   \* how many configs are compared
  config,    \* the config being run
  raising,   \* whether an exception is on its way out of run_dataset
  \* the task being run
  tree,      \* its workspace
  base,      \* whether the base commit was captured
  outcome,   \* how its agent ended, and on which tree its verification began
  awaited,   \* the command the agent waits for
  export,    \* what export_patch has listed, and what its diffs returned
  patch,     \* PatchArtifact
  \* processes
  process,   \* per command: how far it is
  \* on disk
  results,   \* results.jsonl per config
  torn,      \* whether the last of them ends in a part of a line
  patches,   \* patches/<id>.diff per config
  report     \* the configs in results.json, and those in summary.md

work   == <<base, outcome, export, patch>>
run    == <<tasks, configs, config, raising>>
procs  == <<awaited, process, tree>>
disk   == <<results, torn, patches, report>>
runner == <<control, run, work, procs, disk>>

ASSUME RunnerAssumption ==
  /\ Configs \in Nat \ {0}
  /\ Base \notin Commands /\ Absent \notin Commands /\ None \notin Commands

Trees     == [tracked: Commands \cup {Base}, new: Commands \cup {Absent}]
CleanTree == [tracked |-> Base, new |-> Absent]

NoPatch   == [status |-> "error", tree |-> CleanTree]
NoExport  == [listed |-> {}, tree |-> CleanTree]
Fresh     == [status |-> "running", verdict |-> "none", error |-> FALSE, tested |-> CleanTree]

\* At one of its limits, the deadline among them; with an exception that is
\* kept as the task's error.
AtLimit   == [Fresh EXCEPT !.status = "limit"]
Raised    == [Fresh EXCEPT !.status = "failed", !.error = TRUE]

Goto(label) == control' = label

RunnerInit ==
  /\ control = "idle" /\ tasks = <<>> /\ configs = 1 /\ config = 1 /\ raising = FALSE
  /\ base = FALSE /\ outcome = Fresh /\ export = NoExport /\ patch = NoPatch
  /\ tree = CleanTree /\ awaited = None
  /\ process = [c \in Commands |-> "unused"]
  /\ results = [k \in 1..Configs |-> <<>>] /\ torn = FALSE
  /\ patches = [k \in 1..Configs |-> [t \in Ids |-> Absent]]
  /\ report = [groups |-> <<>>, summary |-> 0]

-----------------------------------------------------------------------------
(* run_dataset up to the agent                                             *)

\* The checks at the head of run_experiments and run_dataset.
LoadTasks(ids) ==
  /\ control = "idle"
  /\ ids # <<>>
  /\ \A i \in DOMAIN ids, j \in DOMAIN ids : ids[i] = ids[j] => i = j
  /\ tasks' = ids
  /\ configs' \in 1..Configs
  /\ configs' * Len(ids) <= Results   \* bound
  /\ Goto("next")
  /\ UNCHANGED <<config, raising, work, procs, disk>>

Answered == Len(results[config])

\* The id of the task being run.
Current == tasks[Answered + 1]

StartTask ==
  /\ control = "next"
  /\ Answered < Len(tasks)
  /\ Goto("setup")
  /\ UNCHANGED <<run, work, procs, disk>>

\* Copy the repository, capture its base commit; without one there is no patch.
CopyRepository ==
  /\ control = "setup"
  /\ base' \in BOOLEAN
  /\ Goto("build")
  /\ UNCHANGED <<run, outcome, export, patch, procs, disk>>

\* The workspace, the agent and the context it discovers.
BuildAgent ==
  /\ control = "build"
  /\ Goto("agent")
  /\ UNCHANGED <<run, work, procs, disk>>

\* A failure before the agent runs is the task's error.
SetUpFails ==
  /\ control \in {"setup", "build"}
  /\ outcome' = Raised
  /\ Goto("finally")
  /\ UNCHANGED <<run, base, export, patch, procs, disk>>

-----------------------------------------------------------------------------
(* Commands                                                                *)

Alive(c) == process[c] \notin {"unused", "gone"}

RunCommand(c) ==
  /\ control = "agent" /\ awaited = None
  /\ process[c] = "unused"
  /\ process' = [process EXCEPT ![c] = "started"]
  /\ awaited' = c
  /\ UNCHANGED <<control, run, tree, work, disk>>

\* One write of the process.
ProcessWrites(c) ==
  /\ \/ /\ process[c] = "started"
        /\ process' = [process EXCEPT ![c] = "half"]
        /\ tree' = [tree EXCEPT !.tracked = c]
     \/ /\ process[c] = "half"
        /\ process' = [process EXCEPT ![c] = "full"]
        /\ tree' = [tree EXCEPT !.new = c]
  /\ UNCHANGED <<control, run, awaited, work, disk>>

Returned(c) == IF awaited = c THEN None ELSE awaited

ProcessExits(c) ==
  /\ Alive(c)
  /\ process' = [process EXCEPT ![c] = "gone"]
  /\ awaited' = Returned(c)
  /\ UNCHANGED <<control, run, tree, work, disk>>

MutTimesOutUnkilled(c) ==
  /\ Alive(c)
  /\ awaited' = Returned(c)
  /\ UNCHANGED <<control, run, process, tree, work, disk>>

\* The command's own timeout: its process group is killed, then the thread
\* returns, to an agent that may no longer wait for it.
TimesOut(c) ==
  /\ Alive(c)
  /\ process' = [process EXCEPT ![c] = "gone"]
  /\ awaited' = Returned(c)
  /\ UNCHANGED <<control, run, tree, work, disk>>

-----------------------------------------------------------------------------
(* How Agent.run ends                                                      *)

MutDeadlineUnseen ==
  /\ control \in {"agent", "verify"}
  /\ awaited' = None
  /\ Goto("agent")
  /\ UNCHANGED <<outcome, run, base, export, patch, process, tree, disk>>

\* asyncio.timeout cuts the await it surrounds.
CutByDeadline ==
  /\ control \in {"agent", "verify"}
  /\ outcome' = AtLimit
  /\ awaited' = None
  /\ Goto("finally")
  /\ UNCHANGED <<run, base, export, patch, process, tree, disk>>

BeginVerification ==
  /\ control = "agent" /\ awaited = None
  /\ outcome' = [outcome EXCEPT !.tested = tree]
  /\ Goto("verify")
  /\ UNCHANGED <<run, base, export, patch, procs, disk>>

\* eval-verify-swebench-patch: the patch would not be empty.
Verifies == tree # CleanTree

\* There is one attempt; git may also fail in it.
Judge ==
  /\ control = "verify"
  /\ \/ Verifies /\ outcome' = [outcome EXCEPT !.verdict = "passed", !.status = "completed"]
     \/ outcome' = [Fresh EXCEPT !.verdict = "failed", !.status = "failed"]
  /\ Goto("finally")
  /\ UNCHANGED <<run, base, export, patch, procs, disk>>

\* Another limit ends the run, or an exception that is the task's error.
EndUnverified ==
  /\ control = "agent" /\ awaited = None
  /\ outcome' \in {AtLimit, Raised}
  /\ Goto("finally")
  /\ UNCHANGED <<run, base, export, patch, procs, disk>>

\* Cancellation, at any await, and EventStoreError leave through finally.
Propagate ==
  /\ control \in {"build", "agent", "verify"}
  /\ raising' = TRUE
  /\ outcome' = [Fresh EXCEPT !.status = "failed"]
  /\ awaited' = None
  /\ Goto("finally")
  /\ UNCHANGED <<tasks, configs, config, base, export, patch, process, tree, disk>>

-----------------------------------------------------------------------------
(* export_patch, each git call at its own moment                           *)

SkipExport ==
  /\ control = "finally" /\ ~base
  /\ Goto("cleanup")
  /\ UNCHANGED <<run, work, procs, disk>>

\* The scan for links and special files, and git diff --name-only.
ListTracked ==
  /\ control = "finally" /\ base
  /\ export' = [export EXCEPT !.listed = IF tree.tracked # Base THEN {"tracked"} ELSE {}]
  /\ Goto("listed")
  /\ UNCHANGED <<run, base, outcome, patch, procs, disk>>

\* git ls-files --others.
ListUntracked ==
  /\ control = "listed"
  /\ export' = [export EXCEPT !.listed = @ \cup (IF tree.new # Absent THEN {"new"} ELSE {})]
  /\ Goto("diff")
  /\ UNCHANGED <<run, base, outcome, patch, procs, disk>>

\* The diff of the tracked paths, then one per untracked path.
DiffTracked ==
  /\ control = "diff"
  /\ export' = [export EXCEPT !.tree.tracked = IF "tracked" \in export.listed THEN tree.tracked ELSE Base]
  /\ Goto("diff_new")
  /\ UNCHANGED <<run, base, outcome, patch, procs, disk>>

DiffUntracked ==
  /\ control = "diff_new"
  /\ export' = [export EXCEPT !.tree.new = IF "new" \in export.listed THEN tree.new ELSE Absent]
  /\ Goto("publish")
  /\ UNCHANGED <<run, base, outcome, patch, procs, disk>>

\* A new file, complete and synced before it has its name; then the identity
\* of what was written: an empty patch is a file as well.
PublishPatch ==
  /\ control = "publish"
  /\ patches' = [patches EXCEPT ![config][Current] = export.tree]
  /\ patch' = [status |-> IF export.tree = CleanTree THEN "empty" ELSE "exported",
               tree |-> export.tree]
  /\ Goto("cleanup")
  /\ UNCHANGED <<run, base, outcome, export, procs, results, torn, report>>

\* A path is rejected, git fails or is out of time, or the disk is full.
ExportFails ==
  /\ \/ control = "finally" /\ base
     \/ control \in {"listed", "diff", "diff_new", "publish"}
  /\ patch' = NoPatch
  /\ Goto("cleanup")
  /\ UNCHANGED <<run, base, outcome, export, procs, disk>>

-----------------------------------------------------------------------------
(* The result                                                              *)

\* Where an exception that came through finally goes on.
AfterTask == IF raising THEN "stopped" ELSE "score"

\* close does nothing for LocalWorkspace; TemporaryDirectory removes the copy,
\* or raises when a process adds to it meanwhile.  Without its directory a
\* process writes nothing more, and the next task has processes of its own.
CleanUp ==
  /\ control = "cleanup"
  /\ process' = [c \in Commands |-> "unused"]
  /\ tree' = CleanTree
  /\ \/ Goto(AfterTask)
     \/ (\E c \in Commands : Alive(c)) /\ Goto("stopped")
  /\ UNCHANGED <<run, awaited, work, disk>>

\* score: "Only settled verification evidence can establish success".
Success == /\ outcome.verdict = "passed" /\ outcome.status = "completed"
           /\ ~outcome.error

\* The tree it was tested on is history, for the properties only.
Result == [task |-> Current, success |-> Success, patch |-> patch,
           tested |-> IF Success THEN outcome.tested ELSE CleanTree]

\* The trace is read, and a first part of the line written.
WriteLine ==
  /\ control = "score"
  /\ torn' = TRUE
  /\ Goto("flush")
  /\ UNCHANGED <<run, work, procs, results, patches, report>>

\* The local variables of a task are gone with it.
Forget == base' = FALSE /\ outcome' = Fresh /\ export' = NoExport /\ patch' = NoPatch

MutFlushLineAnew ==
  /\ control = "flush"
  /\ results' = [results EXCEPT ![config] = <<Result>>]
  /\ torn' = FALSE
  /\ Forget
  /\ Goto("next")
  /\ UNCHANGED <<run, procs, patches, report>>

\* flush and fsync.
FlushLine ==
  /\ control = "flush"
  /\ results' = [results EXCEPT ![config] = Append(@, Result)]
  /\ torn' = FALSE
  /\ Forget
  /\ Goto("next")
  /\ UNCHANGED <<run, procs, patches, report>>

-----------------------------------------------------------------------------
(* run_experiments                                                         *)

\* _save_report replaces results.json, and then summary.md.
SaveReport ==
  /\ control = "next"
  /\ Answered = Len(tasks)
  /\ report' = [report EXCEPT !.groups = Append(@, results[config])]
  /\ Goto("summary")
  /\ UNCHANGED <<run, work, procs, results, torn, patches>>

MutSaveSummary ==
  /\ control = "summary"
  /\ report' = [report EXCEPT !.summary = config]
  /\ IF config <= configs
     THEN config' = config + 1 /\ Goto("next")
     ELSE Goto("finished") /\ UNCHANGED config
  /\ UNCHANGED <<tasks, configs, raising, work, procs, results, torn, patches>>

SaveSummary ==
  /\ control = "summary"
  /\ report' = [report EXCEPT !.summary = config]
  /\ IF config < configs
     THEN config' = config + 1 /\ Goto("next")
     ELSE Goto("finished") /\ UNCHANGED config
  /\ UNCHANGED <<tasks, configs, raising, work, procs, results, torn, patches>>

\* An unreadable trace or a full disk raises; the process may also die.
Stop ==
  /\ control \notin {"idle", "finished", "stopped"}
  /\ Goto("stopped")
  /\ awaited' = None
  /\ Forget
  /\ UNCHANGED <<run, process, tree, disk>>

-----------------------------------------------------------------------------

\* What the runner and its agent do; each of these ends, by a timeout at last.
RunnerStep ==
  \/ StartTask \/ CopyRepository \/ BuildAgent \/ SetUpFails
  \/ (\E c \in Commands : RunCommand(c))
  \/ CutByDeadline \/ BeginVerification \/ Judge \/ EndUnverified \/ Propagate
  \/ SkipExport \/ ListTracked \/ ListUntracked \/ DiffTracked \/ DiffUntracked
  \/ PublishPatch \/ ExportFails \/ CleanUp \/ WriteLine \/ FlushLine
  \/ SaveReport \/ SaveSummary

ProcessStep == \E c \in Commands : ProcessWrites(c) \/ ProcessExits(c) \/ TimesOut(c)

RunnerNext == RunnerStep \/ ProcessStep \/ Stop

=============================================================================
