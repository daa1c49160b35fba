# codekeel: verification development

codekeel is a harness for a coding agent: a model is asked for one action at a
time, the action is checked against a policy, executed in a workspace, and
recorded. A run can be stopped, waited for, approved and resumed by other
processes. These modules say what the harness promises about such runs, check
it with TLC and prove all of it but the liveness with TLAPS.

Paths below are relative to `src/src/codekeel/`.

## Inventory

| Part | State it keeps | Operations | Interacts with | What makes it correct |
| --- | --- | --- | --- | --- |
| Run protocol (`agent/loop.py`, `agent/state.py`) | `AgentState`, event sequence, last event ID, checkpoint revision, `_at_boundary`, pending approval | `run`, `resume`, `step`, `save_checkpoint` | both stores (calls), model, tools, policy | one owner at a time; no step is repeated; nothing done is forgotten; a run ends once |
| Approvals (`runtime/approvals.py`) | none of its own | `validate_approval`, `resolve_approval` | both stores | one decision per action; nothing executes without it |
| Checkpoint store (`persistence/`) | one row per run: revision, payload | `load`, `save(expected_revision)` | run protocol, approvals | compare-and-swap on the revision; a snapshot the loop makes is valid |
| Event trace (`events/`) | one append-only log per run | `append`, `read` | run protocol, approvals | contiguous sequence; a damaged tail stops writers and resumes |
| Budgets (`agent/termination.py`, `runtime/budgets.py`) | none; reads the counters | `evaluate` | run protocol, explorer | no limit is passed; priority of the outcomes |
| Verification (`runtime/verification.py`, `_verify_final_intent`) | attempts, commands, last result | suite of shell commands | shell tool, budgets | completed means the last suite passed in full |
| Explorer (`agent/explorer.py`, `tools/explorer.py`) | its own history | `run` with callbacks into the parent | budgets of the parent | it spends the parent's budgets, and stops with them |
| Context (`context/`) | none | `prepare`, `plan_summary`, `apply_summary`, `process` | run protocol | calls and results stay together, recent turns stay |
| Policy (`runtime/policy.py`) | configured rules | `assess` | run protocol, explorer | a denial wins |
| Tools (`tools/`) | access rules | `execute` | policy (before), workspace, output limits (after) | no name leads past the rules; only allowed tools change anything |
| Output limits (`context/tool_output.py`) | artifacts named by digest | `process` | tools (before), history (after), workspace | a hint leads to the whole output |
| Workspaces (`workspace/`) | a container and its lifecycle state, or the processes of commands | `create`, `start`, `execute`, `stop`, `remove`, `close`, `read_file`, `write_file`, `inspect_path` | Docker CLI or host | no container is lost or used after removal; paths stay inside; a command ends |
| Evaluation (`evals/runner.py`, `patch.py`, `scorer.py`, `experiments.py`) | a copy per task, patches, result lines, reports | `run_dataset`, `export_patch`, `score`, `run_experiments` | run protocol, local workspace, commands that outlive their await | lines and artifacts agree; a success was verified; reports are whole |
| SWE-bench (`evals/swebench.py`, `dataset.py`) | datasets, predictions | `convert_swebench_records`, `load_dataset`, `export_swebench_predictions` | evaluation, through directories only | what is published is whole and faithful |
| Command line (`cli.py`) | none | `run`, `resume`, `approve`, `reject`, `eval` | all of it | its invocations are the processes of the model |

The hard behaviours are these. Two invocations of the command line are two
processes; they share only the checkpoint row and the trace, which are different
files and are never written together. A process may die between any two calls,
or in the middle of an event line. A step nests loops (explorer, verification,
summaries) that all spend one set of budgets, and every way out of it must leave
a snapshot that can be resumed. A call of docker whose caller stops waiting goes
on, and so does a local command whose await a deadline cuts. A command may make
links between two tool calls whose rules are about paths. The commands of an
evaluation share directories, and may overlap. And the history that a request was
cut to is the history the next cut begins with. `PROJECT.json` lists the hazards at
their lines.

## Modules

| Module | Models | Proofs in |
| --- | --- | --- |
| `ExclusiveSteps` | abstract: a run is absent, settled or claimed; only while it is claimed is the model asked or an action executed; steps are asked in order, each once, and acted on at most once | |
| `RunLifecycle` | one run, any number of runtime processes (`run`, `resume`) and approvers (`resolve_approval`) over one checkpoint and one trace; implements `ExclusiveSteps` | `RunLifecycleProofs`, `RunTraceProofs` |
| `AgentStep` | the inside of a run in one process at a time: steps, summaries, explorers, verification suites, their budgets, the snapshots and what resume compares | `AgentStepProofs` |
| `AppendOnlyTrace` | abstract: a sequence of events with fresh ids that only grows, and may be torn at its end | |
| `JsonlTrace` | `JsonlEventStore`: a file of lines, `flock`, buffered writes, `fsync`, crashes and power failures; implements `AppendOnlyTrace` | `JsonlTraceProofs` |
| `DockerWorkspace` | a workspace object and its calls of docker, which may fail, time out and take effect late | `DockerWorkspaceProofs` |
| `HistoryTurns` | `_turns`: how a history is divided into turns, as operators | `ContextHistoryProofs` |
| `ContextHistory` | the history of a run through repeated cuts and summaries | `ContextHistoryProofs` |
| `ActionPolicy` | `ActionPolicy.assess` as operators: modes, rules, risks, how a command is read | `ToolCallsProofs` |
| `ToolCalls` | one tool call after the other, from the request to the result, with links that commands make; uses `ActionPolicy` | `ToolCallsProofs` |
| `EvalRunner` | an evaluation: configs, tasks, the agent's commands and their processes, export, score, lines, reports | |
| `SweBench` | the ways into and out of an evaluation, composed with `EvalRunner`: conversions, loading, predictions | `SweBenchProofs` |

`MC*` modules give TLC its values (processes, ids, containers as model values,
with symmetry where the specification treats them alike and no liveness is
checked; sizes for `ContextHistory`; policies and commands for `ToolCalls`).

`RunLifecycle` treats an append as one action that happens or is torn;
`JsonlTrace` shows that the file does behave so (`AppendOnlyTrace` has the same
shape as `trace` and `torn`). `RunLifecycle` treats a step's outcome as a
choice; `AgentStep` says which outcomes there are and what they spend.
`AgentStep` takes the summary request of the context manager as a choice;
`ContextHistory` says when it is made and what it does to the messages. What is one
effect of a tool in both is a whole call in `ToolCalls`. `EvalRunner` sees of an
agent what `run_dataset` sees: that it runs commands, is verified once, and ends.

### How `RunLifecycle` corresponds to the code

Every call on a store is an action, and so is every call of the model, of a tool
and of the verification suite. What Python does between two such calls changes
only the process's own memory and is part of the action before it. So:

* `Run`, `EmitRunStarted`, `SaveStart` are `Agent.run` and the head of `_drive`;
* `Resume` loads the checkpoint, and the actions on `"validate"` read the trace
  and compare: `RefuseResume`, `ReturnUnchanged`, `ContinueRun`,
  `CompleteBookkeeping`. The two reads are different actions since other
  processes write between them. `resume` reads the trace a second time in
  `validate_approval`; the model reads once, as any change between the two reads
  makes the revision stale and the claim fail;
* `ClaimStep` ... `SettleStep`/`ReturnWaiting` are `step` and everything it
  calls;
* `EmitTerminalError`, `SaveInterrupted`, `SkipBestEffort` are the handlers of
  `_drive` and of `_execute_action`; `StoreRefuses` is an `EventStoreError` or a
  `PersistenceError`, which ends the process without another write;
* `Stop` is the death of a process, or a store call that fails without effect,
  at any point; `StopDuringAppend` leaves an incomplete line;
* `Decide`, `ValidateDecision`, ..., `SaveDecision` are `resolve_approval`.

An event's identity is its position and its author, which is what a fresh UUID
amounts to. A checkpoint's `last_event_id` is then `last`, the author of the
event at `seq`.

What is abstracted here: messages, usage, cost and time. A limit other than
`max_steps` may be reached at any check and a deadline may pass at any point
where the code looks at it, so `MAX_STEPS`, `MAX_COST` and `MAX_TOKENS` are one
status, `"exhausted"`. `BudgetUpdated` records are appended with the event they
accompany. The events inside a verification suite, summary requests and the
explorer's own requests are not separate actions; they are in `AgentStep`.
Resuming processes have the same configuration (workspace, tools, policy,
budgets), so the comparisons of `resume` that would refuse another one are not
modelled.

### How `AgentStep` corresponds to the code

`control` is the place in the code, `used` the counters of `AgentState` by name (the
explorer's and the verification's apart from the run's own), `status` the `RunStatus`.
An action is one await: the code between two awaits is in the action before. `Start`,
`ClaimStep`, `SettleStep`, `ReturnWaiting`, `FinishRun` are `run`, `step` and
`_drive`; `TakeUpDecision`, `StopAtLimit`, `RequestModel`, `ModelResponds` are
`_step`; `PrepareContext`, `RequestSummary`, `SummaryResponds` are `_prepare_context`;
`DenyCall`, `AskApproval`, `RunCall`, `ToolReturns`, `ProcessOutput` are
`_execute_action`; `RefuseExplorer` to `EndExplorer` are `ReadOnlyExplorer.run` with
the callbacks of `_delegate_explore`; `Complete`, `BeginAttempt` to `JudgeSuite` are
`_verify_final_intent`. `saved` is the latest checkpoint, `verdict` what the trace
says of the last verification attempt, `ahead` whether the trace has records that
`saved` does not know. `TimeOut`, `Raise`, `RecordError`, `SaveInterrupted` are the
ways an error leaves a step. `Stop` ends the process anywhere; `ResumeRun` and
`CompleteBookkeeping` load what `resume` accepts. Cost and tokens are small numbers
(`Charges`); `limits` is the `BudgetLimits` that the run was begun with; a response
may take a meter past its limit, as in the code, which checks before a request. Calls
and results are abstracted to one open call, since `Checkpoint.validate_boundary`
looks at the last exchange only.

### How `JsonlTrace` corresponds to the code

A line has an event and a form: whole, whole without the newline (it parses), a
part, or garbled. `LockAndCheck` is `flock` and the read and validation under
it; `Write`, `WriteFails` are `write` and `flush` (one call for the
model, which may stop part way); `Sync` is `fsync`;
`Unlock`, `Close`, `CloseFlushes` are the `finally` clause and the exit of
`with os.fdopen`, in the order in which Python runs them. `PowerFailure` keeps
what was synced and any beginning of the rest. A reader holds the shared lock for
one action, since it changes nothing. That the file itself survives a power failure, once
a line in it was synced, is an assumption about the file system: the code syncs the
file and never the directory that names it.

### How `DockerWorkspace` corresponds to the code

`id`, `_started` and the call under way (`pc`) are the workspace's; `daemon` and
`busy` are docker's. A lifecycle call may return, be refused, or be given up by
its caller (a timeout of `subprocess.run`, or the cancellation of the task); what
is given up is in `late` and may take effect at any later time, since
`asyncio.to_thread` cannot stop its thread. Killing the docker client of a
command leaves the command running in the container, so `CommandExpires` goes
on to the restart. After an exception or a cancellation the callers only close
(`cli.py:133`, `evals/runner.py:129`), which is the assumption `leaving` makes
explicit. A command either begins while its client lives or never: that an `exec`
request whose client was killed is not begun later is an assumption about the daemon,
and `CleanContainer` and `ClosedQuiet` rest on it. Paths, output and the image are left
out.

### How `HistoryTurns` and `ContextHistory` correspond to the code

`HistoryTurns` is the loop of `_turns` as a recursive function: a state with the turns so far,
the pending turn and the results that are due. In `ContextHistory` a message has a
kind, a size in tokens and the exchanges it is about (an answer and its results
are about one; a summary about all that it was made from). `about` is what lets
a property say that something was forgotten. `Prepare` takes the first of
`Candidate(.., 0), Candidate(.., 1), ...` that fits, which are the attempts of `prepare`
in their order; the candidates are cut from the clamped history as there.
`Summarize` is one action from the plan to `_set_prepared`: nothing else touches
the history meanwhile. `estimate_context_tokens` is a sum of sizes; the tool
definitions are part of `MaxTokens`.

### How `ActionPolicy` and `ToolCalls` correspond to the code

`Assess` is `assess`, with its parts named as there. A command is a sequence of words
and marks: the words are those that `shlex.split` finds, the marks all that the policy
refuses wherever it stands (heredocs, line breaks, operators and other special
characters, a quote that is not closed); the empty sequence is a blank command or an
argument that is no string. A quote that is closed later is no mark but makes another
word, so such a command is another one and not one with something added behind. `Basename` is
what `rsplit` leaves of a word. Rules are a sequence, as the tuple is: of several that
match with the same length `Longest` takes the first, as `max` does. That `shlex.split`
finds no words in a command that is not blank cannot happen, since comments are
refused before. `ToolCalls` runs one call at a time, as the loop awaits them:
`Request` ... `ExecuteCall` are `_execute_action` (and `ReadOnlyExplorer`, and
the suite of `_verify_final_intent`, by the field `by`), with the approval in
between; `Inspect`, `ReadFile`, `ShowEntries`, `ReadForEdit`, `WriteFile` are the
file tools; `RefuseCommand`, `RunCommand` the shell; `KeepOutput` ...
`SpillBreaks` are `ToolOutputManager.process`; `Return` puts the result into the
history. `WriteBreaks`, `SpillBreaks` and `Die` are a full disk or the death of the
process, which may leave a part of a file.

A workspace is one directory of entries, some of which are links. `EndOf` follows
them as `Path.resolve` does, and a chain may be a loop or lead outside. Commands
change an entry or make it a link, but only while the agent waits for them:
nothing else runs beside a file tool, and links do not change within one. (A
process that a command leaves behind in the background is not modelled here.)
Patterns are the sets of names they match. Abstracted: trees of directories, and so the
components of an artifact's path (an alias of any of them is a link at the artifact's
name), `find_files`, which filters the same listing by a pattern, `search_files` of a
single file, which reads like `read_file`, and line numbers and limits of what is
shown. The retrieval hint always fits the limit, since `max_chars` is at least 512 and
a run id at most 128 characters. `ToolAssumption` says that the artifact directory is
not protected by the configuration: spilling does not ask for
authorization, so a configuration that protected it would be passed over.

### How `EvalRunner` and `SweBench` correspond to the code

`control` is the place in `run_experiments`, `run_dataset` and `export_patch`; an action
is one await or one operation on the disk. `LoadTasks` ... `SetUpFails` are
`run_dataset` to the agent; `CutByDeadline`, `BeginVerification`, `Judge`,
`EndUnverified`, `Propagate` are the ways in which `Agent.run` ends;
`ListTracked` ... `ExportFails` are `export_patch`, one action per git call;
`CleanUp`, `WriteLine`, `FlushLine` end the task, and `SaveReport`, `SaveSummary` the
config. `Stop` is an exception that leaves `run_experiments`, or the death of the
process, anywhere.

A command of `LocalWorkspace` is a process and a thread that waits for it
(`asyncio.to_thread`). The deadline of a task cuts the await of the thread and nothing
else, so `ProcessWrites`, `ProcessExits` and `TimesOut` go on beside the export and
the cleanup. The tree is a tracked file and an untracked one, which is what it takes
for a diff to mix two moments. `tested` in a row is history: the tree when the
verification of a success began. The verification command of a converted task,
`eval-verify-swebench-patch`, exports the patch to a place of its own and fails if it
is empty (`Verifies`); that it leaves the tree alone is an assumption about
verification commands, which this one keeps. Another assumption is that a command
which returned left nothing running: `LocalWorkspace` kills the process group at a
timeout only, and a process that a command put into the background and that writes
later could change the tree between a verification and the export.

`SweBench` has three more programs. A conversion prepares a staging directory and
publishes it by one `rename`, which refuses a directory that is not empty. An export
reads metadata and results once, then the patches one by one; a run may be going
on meanwhile, and `EditPatch` is somebody who edits an artifact by hand. Digest
and size of an artifact are its content. Validation of records, names and paths
changes no state; a conversion or export that it refuses is one that was never begun,
or is abandoned. An export checks patches in the order of the results, where the code
goes through the sorted ids. The two are the same order except where one id is
a beginning of another, and nothing here depends on it.

## Runs

| Run | Instance | Question |
| --- | --- | --- |
| `crash` | 2 faulty runtimes, 1 approver, 2 steps | `SingleOwner`, `NoReplay`, `ConsentBeforeEffect` when processes die anywhere and others take over |
| `decide` | 2 runtimes, 2 approvers, all faulty, 1 step, verification on | `OneDecision`, `SettledFrontier`, `EffectsAccounted`, and that `ExclusiveSteps` is implemented, when humans and resumes race |
| `live` | 2 runtimes, 1 approver, no faults, 1 step, verification on | `RunEnds`, `DecisionTakenUp` |
| `bookkeeping` | 2 faulty runtimes, 1 step | a finding, below |
| `step_budgets` | every limit set, or `max_steps` alone, with a deadline; suite of 2, 2 attempts, explorer of 2 steps | no limit is passed, a summary leaves the request its call, every snapshot is valid and resumable, completion is verified, calls return |
| `trace_crash` | 2 writers, 2 ids, 2 sequence numbers, power failures, no write errors | `AcknowledgedStays`, `AppendOnlyTrace` is implemented, and `AppendReturns` |
| `trace_errors` | 1 writer whose writes may fail, 3 ids, 3 sequence numbers | `SeenStays` when errors leave bytes behind and nobody else writes |
| `trace_late` | 2 writers whose writes may fail | a finding, below |
| `docker_dispose` | 3 containers | what a closed workspace leaves, and where commands begin |
| `context` | 5 exchanges, answers of 1 or 4 tokens clamped to 3, budget 11 | `NeverBroken`, `NewestKept`, `SummaryCarries` through repeated cuts, summaries of summaries, and both mixed |
| `tools` | 5 entries: source, a protected and a denied one, and two that may become links, the artifact among them; 2 texts; 4 policies, 8 commands | `ShowsAccessible`, `CommandsJudged`, `HintHonest`, `WritesGuarded` over any sequence of calls and commands |
| `evaluation` | 2 conversions of 1 and 2 tasks, up to 2 configs and 2 results, 1 command per task, an export | `SuccessIsVerified`, `LinesHaveArtifacts`, `DatasetWhole`, `PredictionsFaithful`, `EvaluationEnds` |

Why these bounds. `RunLifecycle`: two processes are what a race over one revision
takes, and a third adds no new kind of interference since every save by another
process invalidates all older copies alike (this is the argument of the proof,
which holds for any number). A process may die and take the run up again, so two
runtimes give any number of successive owners. Two steps are needed to tell
"this step" from "an earlier step" (a late decision, a replayed call);
`OneDecision` needs only one step and a second decider,
and the other properties of that run are about the latest step. `Faulty`, `MaxSteps` and
`Verifying` are the bounds, set in each `.cfg`.

`AgentStep`: the limits are its bounds. Each is small enough to be reached and large
enough that a step, an explorer and a suite can each be the one to reach it: a suite
of two commands can be cut in the middle, an explorer of two steps can reach the
parent's limits before its own, and two attempts tell a first verdict from a last one.
The second budget has `max_steps` and the deadline alone: any limit on requests or
calls would end the nested loops too, and `CallsReturn` should hold without. Its three
steps are an explorer that ends by its own limit and the step that delegated to it, or
two attempts and one step besides. `JsonlTrace`: two lines give a stale writer, a
fresh one, an event to lose and damage before the last line; longer files add nothing
(and the proof covers them). `ToolCalls`: two names that may be links give a chain and
a loop; with the artifact among them, a hint can be made untrue in every way.
`EvalRunner`: two results are two tasks of one config or one task of two configs,
which is where an earlier line can be spoilt; one command per task that writes twice
can be anywhere when the export begins, and the proof covers any number.
`DockerWorkspace`: a container that was cut, one that is used, and one more that must
not come to be. `ContextHistory`: the budgets are such that one exchange of the
largest size fits beside the reminders and two do not, while several small ones do, so
that clearing alone, removing one turn and removing several all happen; `KeepRecent =
2` protects one exchange and the reminders; two summaries follow each other within
five exchanges.

`CHECK_DEADLOCK FALSE` is set where a run that has ended, that a crash left
unready, or that has reached the bound on its exchanges or messages, rightly does
nothing more.

Fairness (`FairSpec`, run `live`): a process that has begun a call goes on with
it (weak fairness; asyncio and the operating system run it). That someone
resumes a settled run (strong fairness, since the checkpoint may be claimed in
between) and that a human decides about a pending action are assumptions about
the environment: the code promises progress only to whoever calls it. Liveness
is checked with `Faulty = {}`: a process that dies within a claim stops the run
for ever by design ("automatic replay is unsafe").

`AgentStep` has `WF_vars(Work)`: the process goes on, and each await ends,
because the model, the tools and the commands are awaited with the time that is
left (`_complete_with_deadline`, `asyncio.timeout`). `Stop` and `Load` are not
in `Work`: nobody has to resume. `JsonlTrace` has weak fairness of each writer's
work, and strong fairness of taking the lock: `flock` serves whoever waits for a
lock that is free again and again. `SweBench` has weak fairness of the runner's own
steps: each await in it ends, the agent's by the deadline. Nothing is assumed of
commands, which need not end, nor of conversions and exports. The others have no
liveness property.

### Findings

`bookkeeping`: `agent/loop.py:238` says that a process may die after saving its
terminal step and before writing `RunFinished`, and that resume completes this
bookkeeping. The resume does so within a claim of its own (241-245). If it dies
between its two saves, the checkpoint stays unready and nobody can resume:
`BookkeepingResumable` is violated. No model or tool call is at stake in that
window, so nothing would be replayed by completing it a second time.

`trace_late`: when `stream.flush` fails, the buffered stream keeps its bytes, and
closing it (`events/jsonl.py:71`), which comes after the unlock (75-76), flushes
them again without the lock. If another writer has appended meanwhile, two lines
have the same sequence number (`OneLinePerSequence`, which
`tests/events/test_store.py:189` is about), and every later read refuses the
trace as corrupt.

Some observations, without a run. A `docker create` whose caller stopped waiting (a
timeout of 120 s, the deadline of the run, Ctrl-C) may still create its container,
whose id nobody knows; `close` succeeds and the container stays, while
`README.md:83` of the repository says that workspaces are ephemeral. `ClosedRemoved`
says that this is all that can stay.

And a summary is accepted only if the history
with it fits, but then the budget reminder is made anew (`agent/loop.py:703`), may
be longer, and `prepare` (704) removes the oldest turn, which is the summary. The
request goes out with neither the old turns nor the summary that was paid for.
The model has these behaviours, and `SummaryCarries` says what does hold: while
there is a summary, nothing is forgotten.

`run_dataset` says that a task's failure does not stop later tasks. Its cleanup may:
the copy is a `TemporaryDirectory`, and while a cut command is still creating files in
it, removing it can fail and the error leaves `run_dataset` (`evals/runner.py:122`; the
second disjunct of `CleanUp`). The result of that task is then not written either. An
exception of `workspace.close` would do the same; `LocalWorkspace` has none.

The patch of a task that did not succeed may mix two moments, since a cut command
writes between the git calls of its export. The result says so only by not being a
success; `SuccessIsVerified` is the part that holds.

## What is proved

`RunLifecycleProofs`, for all sets of processes, all faults and every step
budget, from `LifecycleAssumption` alone:

* `TypeCorrect`: `Spec => []TypeOK`;
* `Exclusion`: `Spec => []SingleOwner`;
* `NeverRepeated`: `Spec => []NoReplay`;
* `Refinement`: `Spec => ImplementsExclusiveSteps`.

The argument. None of these is inductive alone: that a process in a step is
alone depends on how it came by its copy. Call a process a holder when its copy
has the stored revision. The invariant `IInv` says that no copy is newer than the
store (`RevInv`), that an unready checkpoint has at most one holder
(`UniqueInv`), and that whoever is past a claim holds an unready checkpoint
(`OwnInv`). A load needs a ready checkpoint, so it cannot add a holder to an
unready one; a save raises the revision, so every other process stops being a
holder. That gives exclusion. For `NoReplay`, `ReadyInv` and `HolderInv` say that
the step counter in a ready checkpoint, and in a holder's copy, counts exactly
the model calls made, and that the effect of a step about to act has not
happened (`LocInv`, by place in the code). Lemma `Kinds` sorts every action into
four kinds (begin, load, work without a save, save), so ownership and data are
argued four times rather than once per action.

`RunTraceProofs`, on top of it and from the same assumption, for what the two stores
say together:

* `FrontierSettled`: `Spec => []SettledFrontier`;
* `Consent`: `Spec => []ConsentBeforeEffect`;
* `SingleDecision`: `Spec => []OneDecision`;
* `Accounting`: `Spec => []EffectsAccounted`;
* `Ordered`: `Spec => [](TraceInOrder /\ EndIsLast)`;
* `OutcomeFinal`: `Spec => [][OutcomeStays]_vars`.

The checkpoint and the trace are never written together, so none of these follows
from the step before. What carries them is `TraceInv`, about the holder of `IInv`.
`FrontInv`: while a process holds the revision it claimed, it has seen every event
there is, so its next append is at the end (`FrontLoc`, by place). Nobody else can
append, since whoever could would hold that revision too; the one exception is a
process that saved a terminal status and is yet to record it, and for that one
`FinishInv` says that the checkpoint has kept this status, whoever completed the
bookkeeping. `BodyInv` then says what the copy's counters mean: no response or
decision is recorded past step `loc.steps` (`Latest`); the first `loc.steps` have
their response, and the outcome of their action if it was executed (`AccountedTo`);
a pending action is undecided in the trace too, or has the one recorded decision of
a human (`TruePendings`). So a response, a decision and an outcome are each recorded
for a step that had none, and an action is executed on a response that is the only
one, or on a recorded consent. A ready checkpoint has all this from the copy that it
was saved from, and whoever loads it, from the checkpoint. `TraceInv` was checked
with the instances of `crash` and `decide` before it was proved.

`Ordered` and `OutcomeFinal` are about no property of a run of their own; the formulas
`TraceInOrder` and `OutcomeStays` stand in `RunTraceProofs`. `TraceInOrder` says that
each event of each step is recorded at most once, in the order of the protocol and
before all events of later steps, `EndIsLast` (a part of `SettledFrontier`) that
nothing follows a RunFinished or RunFailed. A process that comes late, or whose
revision is out of date, may still append when its copy names the end of the trace, so
holding a revision is not what keeps the order. `OrderInv` therefore speaks of every
process: the events up to its copy's frontier, which no later append changes, have
come so far in the protocol as its place in the code says (`OrderAt`), and what it
appends there belongs after them. `OutcomeStays`: once a terminal status is stored, no
step replaces it or the step count, asks the model or executes an action; it follows
from `TraceInv`, since whoever is within a step holds a checkpoint that says
"running". TLC found both to hold, with `OrderInv` as an invariant, on the instance of
`decide` with and without a suite, before they were proved.

Which of these catches what: that nothing executes on a decision whose save failed is
`SettledFrontier`, since the recorded decision leaves the checkpoint behind the trace;
`ConsentBeforeEffect` and `OneDecision` speak of decisions that were confirmed. That no
run has two ends is the part `EndIsLast`; the part `FrontierNamed` alone would allow a
second one after a checkpoint that names the first.

`AgentStepProofs`, for all limits (or none), suites, attempts and charges:
`TypeCorrect`, `LimitsHold`, `SnapshotsAccepted`,
`SettledResumes`, `NoAttemptReplayed`, `StopsAtOnce`, `CompletionVerified`,
`SpendingStands`. The invariant has a part per concern: `LimitInv` (where a
request is under way that was checked before it began, the meters are still below
their limits), `StatusInv` (the status, place by place), `HistoryInv` (a call is
open exactly where its result is due, so a snapshot is only taken when
`validate_boundary` accepts it), `CountInv` (the counters bound each other, as
`validate_boundary` also demands), `AccountInv` (the trace and the checkpoint
agree, or a record is ahead and the checkpoint is not ready) and `DoneInv` (what
completion rests on). The actions are split into families, each with a lemma per
part.

`JsonlTraceProofs`, for any number of writers, ids and events, with failing writes,
process deaths in the middle of a write, and power failures: `TypeCorrect` without a
hypothesis, and under `[]Calm` `TraceReadable` (`AlwaysReadable`),
`AcknowledgedDurable` (`AcknowledgedStays`), `SeenPrefix` (`SeenStays`),
`SequencesUnique` (`OneLinePerSequence`) and `TraceRefinement` (`ImplementsTrace`).
`Calm` says that no process writes while the stream of another, whose flush failed,
still holds a whole record. It is the weakest hypothesis we found, and one is needed:
`trace_late` is a behaviour that is not calm. `CalmWhenUndisturbed` shows that every
behaviour is calm where no write of a live process fails or where one process
appends, which covers the instances of `trace_crash` and `trace_errors`, and
`UndisturbedTrace` states all of the above for these cases without `Calm`. The
invariant: the file is `Sound` (every line but the last is whole, each stands at its
sequence number, ids differ), synced lines parse, whoever writes holds the lock, what
it is about to write still follows and what its stream holds still fits (`WriterInv`),
no two streams hold something (`LoneInv`), what was acknowledged is synced
(`AckedInv`), and what was read is a prefix of what can be read (`SeenInv`). The
lemmas say what each write adds to a sound file, and the refinement argues by what
happens to the readable part.

`DockerWorkspaceProofs`, for any set of containers: `TypeCorrect`,
`NothingKnownIsLeft`, `NothingRunsOn`, `NeverTwo`, `CleanStart`. The invariant
says that the workspace knows every container but those of a cut create, which
are never started (`OwnInv`), which places in the code have a container
(`PcInv`), and that where a command may begin none runs (`CalmInv`).

`ContextHistoryProofs`, for every budget, `KeepRecent`, all sizes and every number of
exchanges, from `HistoryAssumption`: `HistoryInvariant`, `TypeCorrect`,
`HistoryAccepted` (`NeverBroken`), `NewestSurvive` (`NewestKept`) and
`SummaryComplete` (`SummaryCarries`). The invariant `HInv` says that the history is
`Paired` (each call is followed by its result, each result follows its call, and the
system message and the task come first) and `Ordered` (what a message is about is
followed without a gap by what later messages are about; a summary comes right after
the task). Three lemmas carry the proof. `OldTurnsCut`: of a paired history the scan
succeeds, and its old turns are exactly the positions 3 to some `m` at which a turn
may end. So any cut, whichever of the candidates fits first, is the history without
such a stretch with messages clamped and cleared in place, and `CutGood` says that
this is a good history again; `SummaryGood` and `AppendGood` say the same of a summary
in the place of the stretch, and of what the model answers. `NewestKept` needs
`Ordered`, not just that old turns go first, because a summary that is itself cut must
not leave a hole behind it. The scan and the removal of positions are recursive
functions over positions: `Induction` is well-founded induction
(`WellFoundedInduction`) stated with a set instead of an operator, `Iteration` the
existence of the function that iterates a step, and what each prefix of the scan looks
like follows from the two.

`ToolCallsProofs`, for all policies, rules and commands: `DenyWins`,
`DenialCannotBeDisguised`, `AppendingKeepsDenial`, `ElaborationKeepsDenial`,
`StricterIsSafer`, from the definitions of `ActionPolicy` and `PolicyAssumption`.
`AppendingKeepsDenial` says that nothing added behind a denied command, words or
marks, makes it pass, although a longer rule may know the whole as harmless;
`ElaborationKeepsDenial` that another path to its program, or options and arguments
among its own, do not either. Both suppose that the rules which deny name programs
without a path (`BareDenials`), the second also that they have at most two words; both
are so of the default rules. A rule for a program with a path denies only as the
longest that matches, and one of three words only as a beginning, so without these
suppositions the theorems do not hold of the code either. And for any entries, links,
patterns and policies, from `ToolAssumption`: `ToolTypes`, `AccessibleOnly`,
`HintsAreHonest`, `CommandsAreJudged`, `WritesAreGuarded`. The invariant says what has
been established at each place: past `Inspect` the path's end is authorized; past
`ExecuteCall` the verdict stands; a result shows only what was accessible when it was
made, and nothing that the rules are about changes between. A chain of links is a
recursive function of a fixed length, which the proofs need not unfold: what matters
is that its end is the same in the check and in the effect.

`SweBenchProofs`, for any dataset, conversions, configs and commands, from
`RunnerAssumption` and `SweBenchAssumption`: `EvaluationTypes`, `DatasetIsWhole`,
`LinesNameArtifacts`, `SuccessWasVerified`, `PredictionsAreFaithful`. The
invariant has a part per concern: `StageInv` (within a task there is one to be
answered, and the report has the configs that are done), `PatchInv` (from its
publication on a patch is what its artifact holds), `QuietInv` (only the awaited
command runs while the agent or the verification does), `VerifiedInv` (after a
completed verification nothing runs, so each git call of the export sees the tree
that was verified), `ConversionInv` (a conversion has done a beginning of its
request) and `PredictionInv` (an export has all results of a finished config, whose
lines are not written any more). That a success was verified needs all of
`QuietInv`: it is because the verification is awaited, and the agent's commands before
it, that nothing can be writing.

Every invariant that a run checks, and every action property and refinement, is also
a theorem. Only model-checked is liveness (`RunEnds`, `DecisionTakenUp`, `CallsReturn`,
`AppendReturns`, `EvaluationEnds`): it rests on fairness, and so on `ENABLED`, which is
out of the prover's reach. The two findings are counterexamples and need no proof. No
module declares a `RECURSIVE` operator; recursion is by functions, so
that it can be reasoned about. The modules `AgentStep`, `DockerWorkspace`, `ToolCalls`
and `SweBench` state no abstract specification of their own, and that the outcomes of
a step in `AgentStep` are those that `RunLifecycle` chooses from is argued above, not
proved.

## Not modelled, and why

* The content of tool output, prompts, plans and diffs: text without control.
* Models (`models/`): a request and a response or an error, which is how the
  loop sees them; retries of the HTTP clients are inside one await.
* Planning (`tools/planning.py`): a plan is validated and replaced as a whole.
* Repository context (`context/repo.py`): read once, becomes part of the prompt.
* `git_read`, `find_files` and the layout of what tools show; the helper that reads
  and writes files inside a container; the validation of YAML and JSON records; the
  means in reports.
* The statements of the SQLite store: `save` is one conditional `UPDATE` in one
  transaction, which is the compare-and-swap of `RunLifecycle`.
* Two runs, or a run and an editor, in one workspace: `edit_file` writes what it made of
  an earlier read, and what changed between is lost. Within one run nothing writes
  between its awaits.
* Parsing and printing of the command line. What it shows of a run mixes its own state
  with the stored checkpoint (`cli.py:74`), but decides nothing.
* The death of the whole process around docker calls: nothing of the workspace
  is persisted, so nobody knows its container any more.

## Plan

In order of what matters most to a run; the first eight are done.

1. `ExclusiveSteps`, `RunLifecycle`: the protocol of claims, crashes, approvals.
2. `AgentStep`: budgets, snapshots, explorer, verification.
3. `AppendOnlyTrace`, `JsonlTrace`: the trace that 1 rests on.
4. `DockerWorkspace`: the lifecycle of containers.
5. `HistoryTurns`, `ContextHistory`: what requests hold.
6. `ActionPolicy`, `ToolCalls`: policy, tools, paths and output artifacts.
7. `EvalRunner`, `SweBench`: evaluation, from the dataset to the predictions.
8. Proofs of what was only model-checked in `RunLifecycle`, `JsonlTrace` and
   `ContextHistory`.
9. Processes that a command leaves behind in the background, beside `ToolCalls`.
