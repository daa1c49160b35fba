----------------------------- MODULE AgentStep ------------------------------
(***************************************************************************)
(* What one process does inside the steps of a run: Agent._step with its   *)
(* summary request, its tool call, the explorer it may delegate to and the *)
(* verification suite, and the accounting of all of them against the       *)
(* limits of the run.  RunLifecycle models who may take a step; here one   *)
(* process works at a time, is stopped anywhere, and another one resumes   *)
(* from the checkpoint it left.                                            *)
(*                                                                         *)
(* An action ends at an await, at an append that reports a number, or at   *)
(* a save.  The clock passes the deadline at any moment (PassDeadline).    *)
(* Abstracted: the text of messages, and what tools do.  Input and output  *)
(* tokens have the same status and are one meter here, "tokens".           *)
(***************************************************************************)
EXTENDS Integers

CONSTANTS
  Budgets,     \* the BudgetLimits that a run may have
  NoLimit,     \* None in one of them
  Deadline,    \* whether max_wall_time is set
  Suites,      \* how many commands VerificationPolicy may have; 0: no policy
  MaxAttempts, \* VerificationPolicy.max_verification_attempts
  ChildSteps,  \* ExplorerAgent.max_steps
  Summarizing, \* whether the context manager is a SummaryContextManager
  Charges      \* what a response may cost: a set of [cost, tokens]

Limits == (Nat \ {0}) \cup {NoLimit}

\* tokens stands for the limits of input and of output tokens.
BudgetLimits == [steps: Limits, calls: Limits, tools: Limits, cost: Limits, tokens: Limits]

ASSUME StepAssumption ==
  /\ NoLimit \notin Nat
  /\ Budgets \subseteq BudgetLimits
  /\ Deadline \in BOOLEAN
  /\ Summarizing \in BOOLEAN
  /\ Suites \subseteq Nat
  /\ MaxAttempts \in Nat \ {0}
  /\ ChildSteps \in Nat \ {0}
  /\ Charges \subseteq [cost: Nat, tokens: Nat]

VARIABLES
  control,     \* where the process is
  \* AgentState, and the pending approval beside it
  status,
  used,        \* every counter that _budget_payload reports
  passed,      \* verification_passed
  open,        \* whether the last assistant message has a call without result
  pending,     \* PendingApproval, or NoCall
  \* the process's memory within a step
  call,        \* the call being executed
  child,       \* steps taken by the explorer in this delegation
  suite,       \* commands run in this attempt, and whether one failed; how
               \* many passed is history, read by the properties only
  interrupted, \* _verification_interrupted
  boundary,    \* _at_boundary
  late,        \* whether the deadline has passed
  \* the trace
  recorded,    \* the last reported accounting
  verdict,     \* the last VerificationFinished
  ended,       \* the status in a final RunFinished
  ahead,       \* whether events were appended since the last save
  \* the checkpoint store
  saved,
  \* what the run was begun with, which never changes
  checks,      \* how many commands its verification has
  limits       \* its budget

agent == <<status, used, passed, open, pending>>
local == <<call, child, suite, interrupted, boundary>>
trace == <<recorded, verdict, ended, ahead>>
setup == <<checks, limits>>
vars  == <<control, agent, local, late, trace, saved, setup>>

Counters == {"cost", "tokens", "steps", "calls", "tools", "attempts",
             "commands", "xsteps", "xtools"}

\* the statuses that step() leaves ready and resume() accepts
Settled == {"running", "waiting", "completed", "max_steps", "max_cost",
            "max_tokens", "verification_failed"}
Statuses == Settled \cup {"timeout", "failed", "cancelled"}

Calls == [kind: {"tool", "delegate", "unknown"}, policy: {"allow", "ask", "deny"}]

NoCall    == [kind |-> "none", approved |-> "undecided"]
NoVerdict == [attempt |-> 0, passed |-> "none"]
NoReport  == [c \in Counters |-> 0]
NoSave    == [ready |-> FALSE, late |-> FALSE, status |-> "running",
              used |-> NoReport, passed |-> "none", open |-> FALSE,
              pending |-> NoCall]

-----------------------------------------------------------------------------
(* Limits                                                                  *)

\* Definitions named Mut... are deliberate mistakes: each is what the definition
\* after it would be if the code had one plausible bug, and shows that the
\* properties notice it.
MutReachedPast(value, limit) == limit # NoLimit /\ value > limit

Reached(value, limit) == limit # NoLimit /\ value >= limit

StepsSpent(u) == u["steps"] + u["xsteps"]
ToolsSpent(u) == u["tools"] + u["commands"] + u["xtools"]

\* TerminationPolicy.evaluate: the first limit that is reached, or "none".
Exceeded ==
  IF late                                THEN "timeout"
  ELSE IF Reached(used["cost"], limits.cost)     THEN "max_cost"
  ELSE IF Reached(used["tokens"], limits.tokens) THEN "max_tokens"
  ELSE IF \/ Reached(StepsSpent(used), limits.steps)
          \/ Reached(used["calls"], limits.calls)
          \/ Reached(ToolsSpent(used), limits.tools)   THEN "max_steps"
  ELSE "none"

\* Add one to each of these counters and append BudgetUpdated.
Spend(counters) ==
  /\ used' = [c \in Counters |-> used[c] + IF c \in counters THEN 1 ELSE 0]
  /\ recorded' = used'
  /\ ahead' = TRUE
  /\ UNCHANGED <<verdict, ended>>

MutChargeUnreported(usage) ==
  /\ used' = [used EXCEPT !["cost"] = @ + usage.cost, !["tokens"] = @ + usage.tokens]
  /\ ahead' = TRUE
  /\ UNCHANGED <<recorded, verdict, ended>>

\* Add a response's usage and append BudgetUpdated.
Charge(usage) ==
  /\ used' = [used EXCEPT !["cost"] = @ + usage.cost, !["tokens"] = @ + usage.tokens]
  /\ recorded' = used'
  /\ ahead' = TRUE
  /\ UNCHANGED <<verdict, ended>>

Goto(label) == control' = label

\* The step ends with this status.
EndWith(result) ==
  /\ status' = result
  /\ Goto("settle")

\* An exception leaves the step; _drive sets this status.
Fail(result) ==
  /\ status' = result
  /\ Goto("raised")

\* save_checkpoint, of the values the step leaves.  Checkpoint validates the
\* snapshot; that it never has to refuse one is property SnapshotsValid.
Save(ready) ==
  /\ saved' = [ready |-> ready, late |-> late, status |-> status, used |-> used,
               passed |-> passed, open |-> open, pending |-> pending]
  /\ ahead' = FALSE
  /\ UNCHANGED <<recorded, verdict, ended>>

-----------------------------------------------------------------------------
(* The loop around the steps                                               *)

Init ==
  /\ control = "new"
  /\ status = "running" /\ used = NoReport /\ passed = "none"
  /\ open = FALSE /\ pending = NoCall
  /\ call = [kind |-> "tool", policy |-> "allow"] /\ child = 0
  /\ suite = [run |-> 0, passes |-> 0, failed |-> FALSE]
  /\ interrupted = FALSE /\ boundary = TRUE /\ late = FALSE
  /\ recorded = NoReport /\ verdict = NoVerdict /\ ended = "none"
  /\ ahead = FALSE
  /\ saved = NoSave
  /\ checks \in Suites /\ limits \in Budgets

\* RunStarted, and the first checkpoint.
Start ==
  /\ control = "new"
  /\ Save(TRUE)
  /\ Goto("loop")
  /\ UNCHANGED <<agent, local, late>>

ClaimStep ==
  /\ control = "loop"
  /\ status = "running"
  /\ boundary' = FALSE
  /\ interrupted' = FALSE
  /\ Save(FALSE)
  /\ Goto("step")
  /\ UNCHANGED <<agent, call, child, suite, late>>

MutSettledByAnyStatus == ~interrupted
\* Whether another process may go on from where the step ends.
AtBoundary == ~interrupted /\ status \in Settled

SettleStep ==
  /\ control = "settle"
  /\ boundary' = AtBoundary
  /\ Save(AtBoundary)
  /\ Goto("loop")
  /\ UNCHANGED <<agent, call, child, suite, interrupted, late>>

ReturnWaiting ==
  /\ control = "loop"
  /\ status = "waiting"
  /\ Goto("returned")
  /\ UNCHANGED <<agent, local, late, trace, saved>>

\* RunFinished, with the budget payload.
RecordEnd(label) ==
  /\ recorded' = used
  /\ ended' = status
  /\ ahead' = TRUE
  /\ Goto(label)
  /\ UNCHANGED <<agent, verdict, saved, late>>

FinishRun ==
  /\ control = "loop"
  /\ status \notin {"running", "waiting"}
  /\ RecordEnd("finish")
  /\ UNCHANGED local

SaveFinished ==
  /\ control = "finish"
  /\ Save(boundary)
  /\ Goto("returned")
  /\ UNCHANGED <<agent, local, late>>

-----------------------------------------------------------------------------
(* The head of a step: budgets, context, the request                       *)

\* _execute_action below the policy, for a call that may run.
Perform(kind) ==
  /\ child' = 0
  /\ \/ kind = "tool" /\ Goto("tool") /\ UNCHANGED status
     \/ kind = "delegate" /\ Goto("explore") /\ UNCHANGED status
     \/ kind = "unknown" /\ Fail("failed")

\* A resumed step takes the decided action up; the call was counted and its
\* policy asked before the run waited.
TakeUpDecision ==
  /\ control = "step"
  /\ pending # NoCall
  /\ pending' = NoCall
  /\ \/ late /\ EndWith("timeout") /\ UNCHANGED child
     \/ /\ ~late /\ pending.approved = "yes"
        /\ Perform(pending.kind)
     \/ /\ ~late /\ pending.approved = "no"
        /\ Goto("output")
        /\ UNCHANGED <<status, child>>
  /\ UNCHANGED <<used, passed, open, call, suite, interrupted, boundary, late,
                 trace, saved>>

MutStopAtLimitKeepsRunning ==
  /\ \/ control = "step" /\ pending = NoCall
     \/ control = "prepared"
  /\ Exceeded # "none"
  /\ Goto("settle")
  /\ UNCHANGED <<agent, local, late, trace, saved>>

\* Both checks of _step: before the context is prepared, and again before the
\* main request, since a summary spends too.
StopAtLimit ==
  /\ \/ control = "step" /\ pending = NoCall
     \/ control = "prepared"
  /\ Exceeded # "none"
  /\ EndWith(Exceeded)
  /\ UNCHANGED <<used, passed, open, pending, local, late, trace, saved>>

\* The deterministic path, or a history that needs no summary.
PrepareContext ==
  /\ control = "step"
  /\ pending = NoCall
  /\ Exceeded = "none"
  /\ Goto("prepared")
  /\ UNCHANGED <<agent, local, late, trace, saved>>

MutCanSummarize == ~Reached(used["calls"], limits.calls)

\* A summary leaves a slot for the main request.
CanSummarize == ~Reached(used["calls"] + 1, limits.calls)

RequestSummary ==
  /\ control = "step"
  /\ pending = NoCall
  /\ Summarizing /\ CanSummarize
  /\ Exceeded = "none"
  /\ Spend({"calls"})
  /\ Goto("summary")
  /\ UNCHANGED <<status, passed, open, pending, local, late, saved>>

\* A summary that cannot be used is charged for as well.
SummaryResponds ==
  /\ control = "summary"
  /\ \E usage \in Charges : Charge(usage)
  /\ (Goto("prepared") /\ UNCHANGED status) \/ Fail("failed")
  /\ UNCHANGED <<passed, open, pending, local, late, saved>>

RequestModel ==
  /\ control = "prepared"
  /\ Exceeded = "none"
  /\ Spend({"steps", "calls"})
  /\ Goto("model")
  /\ UNCHANGED <<status, passed, open, pending, local, late, saved>>

\* The answer: a final one, one call, or what _parse_action rejects.
ModelResponds ==
  /\ control = "model"
  /\ \E usage \in Charges : Charge(usage)
  /\ \/ Goto("final") /\ UNCHANGED <<status, open, call>>
     \/ Fail("failed") /\ UNCHANGED <<open, call>>
     \/ /\ call' \in Calls
        /\ open' = TRUE
        /\ Goto("called")
        /\ UNCHANGED status
  /\ UNCHANGED <<passed, pending, child, suite, interrupted, boundary,
                 late, saved>>

-----------------------------------------------------------------------------
(* A tool call                                                             *)

\* The policy denies, or asks where nobody can be asked: an error result.
DenyCall ==
  /\ control = "called"
  /\ ~late
  /\ call.kind # "unknown" /\ call.policy # "allow"
  /\ Spend({"tools"})
  /\ Goto("output")
  /\ UNCHANGED <<status, passed, open, pending, local, late, saved>>

AskApproval ==
  /\ control = "called"
  /\ ~late
  /\ call.kind # "unknown" /\ call.policy = "ask"
  /\ Spend({"tools"})
  /\ pending' = [kind |-> call.kind, approved |-> "undecided"]
  /\ EndWith("waiting")
  /\ UNCHANGED <<passed, open, local, late, saved>>

RunCall ==
  /\ control = "called"
  /\ ~late
  /\ call.kind = "unknown" \/ call.policy = "allow"
  /\ Spend({"tools"})
  /\ Perform(call.kind)
  /\ UNCHANGED <<passed, open, pending, call, suite, interrupted,
                 boundary, late, saved>>

ToolReturns ==
  /\ control = "tool"
  /\ Goto("output")
  /\ UNCHANGED <<agent, local, late, trace, saved>>

\* The result is reduced and appended to the history.
ProcessOutput ==
  /\ control = "output"
  /\ ~late
  /\ open' = FALSE
  /\ Goto("settle")
  /\ UNCHANGED <<status, used, passed, pending, local, late, trace, saved>>

-----------------------------------------------------------------------------
(* The explorer: its loop, with the callbacks of _delegate_explore         *)

\* A callback that refuses sets the status of the run, and the explorer
\* returns an error result.
Refuse(result) == status' = result /\ Goto("output")

MutChildMayGoOn == child <= ChildSteps

ChildMayGoOn == child < ChildSteps

\* before_model or before_tool refuses.
RefuseExplorer ==
  /\ \/ control = "explore" /\ ChildMayGoOn
     \/ control = "explorer_call"
  /\ Exceeded # "none"
  /\ Refuse(Exceeded)
  /\ UNCHANGED <<used, passed, open, pending, local, late, trace, saved>>

RequestExplorer ==
  /\ control = "explore"
  /\ ChildMayGoOn
  /\ Exceeded = "none"
  /\ Spend({"calls", "xsteps"})
  /\ child' = child + 1
  /\ Goto("explorer_model")
  /\ UNCHANGED <<status, passed, open, pending, call, suite, interrupted,
                 boundary, late, saved>>

\* after_model: the usage limits and the deadline, not the request limits.
UsageExceeded(now) ==
  IF Reached(now["cost"], limits.cost) THEN "max_cost"
  ELSE IF Reached(now["tokens"], limits.tokens) THEN "max_tokens"
  ELSE IF late THEN "timeout" ELSE "none"

ExplorerResponds ==
  /\ control = "explorer_model"
  /\ \E usage \in Charges : Charge(usage)
  /\ IF UsageExceeded(used') # "none"
     THEN Refuse(UsageExceeded(used'))
     ELSE UNCHANGED status /\ (Goto("output") \/ Goto("explorer_call"))
  /\ UNCHANGED <<passed, open, pending, local, late, saved>>

\* One read-only call; its result goes to the explorer's own history.
RunExplorerCall ==
  /\ control = "explorer_call"
  /\ Exceeded = "none"
  /\ Spend({"xtools"})
  /\ Goto("explore")
  /\ UNCHANGED <<status, passed, open, pending, local, late, saved>>

\* The explorer's own step limit: an error result, and the run goes on.
EndExplorer ==
  /\ control = "explore"
  /\ ~ChildMayGoOn
  /\ Goto("output")
  /\ UNCHANGED <<agent, local, late, trace, saved>>

-----------------------------------------------------------------------------
(* The verification suite                                                  *)

Complete ==
  /\ control = "final"
  /\ checks = 0
  /\ EndWith("completed")
  /\ UNCHANGED <<used, passed, open, pending, local, late, trace, saved>>

AttemptsLeft == used["attempts"] < MaxAttempts

BeginAttempt ==
  /\ control = "final"
  /\ checks > 0
  /\ IF AttemptsLeft
     THEN /\ Spend({"attempts"})
          /\ passed' = "none"
          /\ suite' = [run |-> 0, passes |-> 0, failed |-> FALSE]
          /\ Goto("suite")
          /\ UNCHANGED status
     ELSE /\ EndWith("verification_failed")
          /\ UNCHANGED <<used, passed, suite, trace>>
  /\ UNCHANGED <<open, pending, call, child, interrupted, boundary, late, saved>>

\* The tool budget is spent in the middle of the suite.
InterruptSuite ==
  /\ control = "suite"
  /\ suite.run < checks
  /\ ~late
  /\ Reached(ToolsSpent(used), limits.tools)
  /\ EndWith("max_steps")
  /\ interrupted' = TRUE
  /\ UNCHANGED <<used, passed, open, pending, call, child, suite, boundary, late,
                 trace, saved>>

BeginCommand ==
  /\ control = "suite"
  /\ suite.run < checks
  /\ ~late
  /\ ~Reached(ToolsSpent(used), limits.tools)
  /\ Spend({"commands"})
  /\ Goto("command")
  /\ UNCHANGED <<status, passed, open, pending, local, late, saved>>

MutLastFailureOnly(ok) == ~ok

\* Whether a command of this attempt has failed.
AnyFailed(ok) == suite.failed \/ ~ok

CommandReturns ==
  /\ control = "command"
  /\ \E ok \in BOOLEAN :
       suite' = [run    |-> suite.run + 1,
                 passes |-> suite.passes + IF ok THEN 1 ELSE 0,
                 failed |-> AnyFailed(ok)]
  /\ Goto("suite")
  /\ UNCHANGED <<agent, call, child, interrupted, boundary, late, trace, saved>>

Verdict == IF suite.failed THEN "no" ELSE "yes"

JudgeSuite ==
  /\ control = "suite"
  /\ suite.run = checks
  /\ ~late
  /\ passed' = Verdict
  /\ verdict' = [attempt |-> used["attempts"], passed |-> Verdict]
  /\ ahead' = TRUE
  /\ EndWith(IF ~suite.failed THEN "completed"
              ELSE IF AttemptsLeft THEN "running" ELSE "verification_failed")
  /\ UNCHANGED <<used, open, pending, local, late, recorded, ended, saved>>

-----------------------------------------------------------------------------
(* Deadlines, exceptions, and the processes that come after                *)

PassDeadline ==
  /\ Deadline /\ ~late
  /\ control \notin {"new", "returned"}
  /\ late' = TRUE
  /\ UNCHANGED <<control, agent, local, trace, saved>>

Exploring == {"explore", "explorer_model"}

\* Wherever the code awaits under the deadline or looks at the clock.
TimeOut ==
  /\ late
  /\ control \in {"summary", "model", "called", "tool", "output", "suite",
                  "command"} \cup Exploring
  /\ EndWith("timeout")
  /\ UNCHANGED <<used, passed, open, pending, local, late, trace, saved>>

\* An await raises or is cancelled, or the context has no room.
Raise ==
  /\ \/ control \in {"summary", "model", "tool", "output", "command"}
     \/ control \in Exploring /\ child > 0
     \/ control = "suite" /\ suite.run = checks /\ suite.failed
     \/ control = "step" /\ pending = NoCall /\ Exceeded = "none"
  /\ \E result \in {"failed", "cancelled"} : Fail(result)
  /\ UNCHANGED <<used, passed, open, pending, local, late, trace, saved>>

\* RunFailed, or RunFinished for a cancellation, with the budget payload.
RecordError ==
  /\ control = "raised"
  /\ recorded' = used
  /\ ahead' = TRUE
  /\ ended' = IF status = "cancelled" THEN status ELSE ended
  /\ Goto("save_error")
  /\ UNCHANGED <<agent, local, late, verdict, saved>>

SaveInterrupted ==
  /\ control = "save_error"
  /\ boundary' = FALSE
  /\ Save(FALSE)
  /\ Goto("returned")
  /\ UNCHANGED <<agent, call, child, suite, interrupted, late>>

\* The process dies; its memory is overwritten by the next load.
Stop ==
  /\ control \notin {"new", "returned"}
  /\ Goto("returned")
  /\ UNCHANGED <<agent, local, late, trace, saved>>

\* resolve_approval, by a process of its own.
Decide ==
  /\ control = "returned"
  /\ saved.ready /\ ~ahead
  /\ saved.pending # NoCall /\ saved.pending.approved = "undecided"
  /\ \E decision \in {"yes", "no"} :
       saved' = [saved EXCEPT !.pending = [@ EXCEPT !.approved = decision]]
  /\ UNCHANGED <<control, agent, local, late, trace>>

\* What resume compares before it goes on.
Consistent ==
  /\ saved.passed = verdict.passed
  /\ verdict # NoVerdict => verdict.attempt = saved.used["attempts"]
  /\ saved.used = recorded
  /\ ended # "none" => ended = saved.status

Resumable == saved.ready /\ ~ahead /\ Consistent

\* The counters a resumed run goes on with.
Loaded == saved.used

Load ==
  /\ used' = Loaded /\ passed' = saved.passed /\ open' = saved.open
  /\ pending' = saved.pending
  /\ late' = saved.late
  /\ interrupted' = FALSE

ResumeRun ==
  /\ control = "returned"
  /\ Resumable
  /\ \/ saved.status = "running"
     \/ saved.status = "waiting" /\ saved.pending.approved # "undecided"
  /\ Load
  /\ status' = "running"
  /\ boundary' = TRUE
  /\ Goto("loop")
  /\ UNCHANGED <<call, child, suite, trace, saved>>

\* RunFinished is missing: claim the run, record its end, and save it ready.
CompleteBookkeeping ==
  /\ control = "returned"
  /\ Resumable
  /\ saved.status \in Settled \ {"running", "waiting"}
  /\ ended = "none"
  /\ Load
  /\ status' = saved.status
  /\ boundary' = FALSE
  /\ saved' = [saved EXCEPT !.ready = FALSE]
  /\ Goto("refinish")
  /\ UNCHANGED <<call, child, suite, trace>>

RecordMissingEnd ==
  /\ control = "refinish"
  /\ RecordEnd("finish")
  /\ boundary' = TRUE
  /\ UNCHANGED <<call, child, suite, interrupted>>

-----------------------------------------------------------------------------

Head == \/ ClaimStep \/ TakeUpDecision \/ StopAtLimit \/ PrepareContext
        \/ RequestSummary \/ SummaryResponds \/ RequestModel \/ ModelResponds

Tool == \/ DenyCall \/ AskApproval \/ RunCall \/ ToolReturns \/ ProcessOutput

Explorer == \/ RefuseExplorer \/ RequestExplorer \/ ExplorerResponds
            \/ RunExplorerCall \/ EndExplorer

Verification == \/ Complete \/ BeginAttempt \/ InterruptSuite
                \/ BeginCommand \/ CommandReturns \/ JudgeSuite

Tail == \/ SettleStep \/ ReturnWaiting \/ FinishRun \/ SaveFinished
        \/ RecordMissingEnd \/ TimeOut \/ Raise \/ RecordError \/ SaveInterrupted

\* A process that was started goes on, and its calls return.
Work == Head \/ Tool \/ Explorer \/ Verification \/ Tail

Step == \/ Start \/ Work \/ PassDeadline \/ Stop
        \/ Decide \/ ResumeRun \/ CompleteBookkeeping

Next == Step /\ UNCHANGED setup

Spec == Init /\ [][Next]_vars

FairSpec == Spec /\ WF_vars(Work /\ UNCHANGED setup)

-----------------------------------------------------------------------------
(* Properties                                                              *)

Labels == {"new", "loop", "step", "prepared", "summary", "model", "called",
           "tool", "explore", "explorer_model", "explorer_call", "output",
           "final", "suite", "command", "settle", "raised", "save_error",
           "finish", "refinish", "returned"}

Accounts  == [Counters -> Nat]
Results   == {"none", "yes", "no"}
Pendings  == {NoCall} \cup [kind: {"tool", "delegate"},
                            approved: {"undecided", "yes", "no"}]
Snapshots == [ready: BOOLEAN, late: BOOLEAN, status: Statuses, used: Accounts,
              passed: Results, open: BOOLEAN, pending: Pendings]

\* Every part of the state keeps its type.
TypeOK ==
  /\ control \in Labels
  /\ status \in Statuses /\ used \in Accounts /\ passed \in Results
  /\ open \in BOOLEAN /\ pending \in Pendings
  /\ call \in Calls
  /\ child \in 0..ChildSteps
  /\ suite \in [run: 0..checks, passes: 0..checks, failed: BOOLEAN]
  /\ interrupted \in BOOLEAN /\ boundary \in BOOLEAN /\ late \in BOOLEAN
  /\ recorded \in Accounts
  /\ verdict \in [attempt: Nat, passed: Results]
  /\ ended \in Statuses \cup {"none"}
  /\ ahead \in BOOLEAN
  /\ saved \in Snapshots
  /\ checks \in Suites /\ limits \in Budgets

Within(value, limit) == limit = NoLimit \/ value <= limit

\* A meter is read before a request, so it passes its limit by less than what
\* one response costs.
CostWithin(u) ==
  \/ limits.cost = NoLimit \/ u["cost"] < limits.cost
  \/ \E usage \in Charges : u["cost"] < limits.cost + usage.cost

TokensWithin(u) ==
  \/ limits.tokens = NoLimit \/ u["tokens"] < limits.tokens
  \/ \E usage \in Charges : u["tokens"] < limits.tokens + usage.tokens

SpentWithin(u) ==
  /\ Within(StepsSpent(u), limits.steps)
  /\ Within(u["calls"], limits.calls)
  /\ Within(ToolsSpent(u), limits.tools)
  /\ CostWithin(u)
  /\ TokensWithin(u)

\* The call that the main request will need, while it is prepared.
MainRequestReserved ==
  control \in {"summary", "prepared"} => ~Reached(used["calls"], limits.calls)

\* "Summary requests share all parent limits", and the explorer and the
\* verification commands do too: whoever spends, and across resumes, the sum
\* stays within the limit of the run.  "Reserve the pending main request": and
\* while one is prepared, with a summary or without, its call is still there.
WithinLimits == SpentWithin(used) /\ MainRequestReserved

\* Checkpoint.validate_boundary, of which _turns requires that a ready history
\* has no call without its result, but for the pending one.
ValidBoundary(s) ==
  /\ s.ready => /\ s.status = "waiting" <=> s.pending # NoCall
                /\ s.open <=> s.pending # NoCall
  /\ IF checks = 0
     THEN s.used["attempts"] = 0 /\ s.used["commands"] = 0 /\ s.passed = "none"
     ELSE /\ s.passed # "none" => s.used["attempts"] > 0
          /\ s.used["attempts"] <= MaxAttempts
          /\ s.used["commands"] <= s.used["attempts"] * checks
          /\ s.status = "completed" => s.passed = "yes"
  /\ s.used["xtools"] <= s.used["xsteps"]
  /\ s.used["steps"] + s.used["xsteps"] <= s.used["calls"]
  /\ s.used["tools"] <= s.used["steps"]

\* Whatever path a step takes, the checkpoint it saves is one that the
\* validator accepts: no save fails on the program's own state.
SnapshotsValid == ValidBoundary(saved)

\* A ready checkpoint at the end of the trace passes every comparison that
\* resume makes with the trace: no settled run is refused.
ResumeConsistent == saved.ready /\ ~ahead => Consistent

\* "Keep it unready so a restart cannot replay commands already executed in
\* this attempt": every attempt counted in a ready checkpoint was judged.
AttemptsJudged == saved.ready => verdict.attempt = saved.used["attempts"]

\* Once a check or a callback has ended the run, nothing is requested or
\* executed in the rest of the step.
Acting == {"summary", "model", "called", "tool", "explorer_model",
           "explorer_call", "final", "suite", "command"}

ActsWhileRunning == control \in Acting => status = "running"

\* With a policy, a run is completed only when every command of the suite
\* passed in the last attempt, and the trace says so.
CompletedVerified ==
  status = "completed" /\ checks > 0 =>
    /\ suite.passes = checks
    /\ passed = "yes"
    /\ verdict = [attempt |-> used["attempts"], passed |-> "yes"]

\* What a run has spent is never refunded by stopping and resuming it.
NeverRefunded == [][\A c \in Counters : used'[c] >= used[c]]_used

\* Every call of run and resume returns: a finite max_steps ends every loop,
\* the explorer's and the verification's included.
CallsReturn == control \in Labels \ {"new", "returned"} ~> control = "returned"

=============================================================================
