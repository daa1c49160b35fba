---------------------------- MODULE RunLifecycle ----------------------------
(***************************************************************************)
(* One run of the codekeel agent, seen from outside its step: the          *)
(* processes that may work on it, the checkpoint they share through a      *)
(* compare-and-swap on its revision, and its append-only event trace.      *)
(*                                                                         *)
(* A runtime process creates the run (Agent.run) or continues it           *)
(* (Agent.resume); an approver process records one human decision          *)
(* (resolve_approval).  Every call on either store is an action of its     *)
(* own, so two processes interleave between any two calls and a process    *)
(* may die between them.  The checkpoint and the trace are different       *)
(* stores: nothing writes both at once.                                    *)
(*                                                                         *)
(* Abstracted: messages, usage and cost (a budget other than max_steps may *)
(* run out at any check), and the BudgetUpdated record, which is appended  *)
(* with the event it accompanies.  The three budget statuses MAX_STEPS,    *)
(* MAX_COST and MAX_TOKENS are one status here, "exhausted".               *)
(***************************************************************************)
EXTENDS Integers, Sequences, FiniteSets

CONSTANTS
  Runtimes,   \* processes that run or resume the agent
  Approvers,  \* processes that record a human decision
  Faulty,     \* the processes that may die, or whose stores may fail
  MaxSteps,   \* BudgetLimits.max_steps; the bound of every run here
  Verifying   \* whether a VerificationPolicy is configured

Procs == Runtimes \cup Approvers

ASSUME LifecycleAssumption ==
  /\ Runtimes \cap Approvers = {}
  /\ Faulty \subseteq Procs
  /\ MaxSteps \in Nat
  /\ Verifying \in BOOLEAN
  /\ "nobody" \notin Procs

VARIABLES
  cp,       \* the stored checkpoint; revision 0 means there is none
  trace,    \* the recorded events
  torn,     \* whether the trace ends in an incomplete line
  begun,    \* whether the run was created (its run_id is fresh)
  pc,       \* where each process is
  loc,      \* each process's copy of the checkpoint, in memory
  act,      \* the response, outcome or decision a process has in hand
  want,     \* the action an approver's human decides about
  \* history, read by the properties only
  calls,    \* how often the model was called for step n
  effects,  \* how often the action of step n was executed
  given,    \* the decisions humans made
  acks      \* the decisions resolve_approval confirmed

stores  == <<cp, trace, torn>>
history == <<calls, effects, given, acks>>
vars    == <<cp, trace, torn, begun, pc, loc, act, want, history>>

Steps     == 1..MaxSteps
Decisions == {"yes", "no"}
Terminal  == {"completed", "exhausted", "verification_failed", "timeout",
              "cancelled", "failed"}
Statuses  == Terminal \cup {"running", "waiting"}

\* the statuses step() leaves ready and resume() accepts
Settled == {"running", "waiting", "completed", "exhausted",
            "verification_failed"}

NoPending == [step |-> 0, approved |-> "undecided"]

NoCheckpoint == [rev |-> 0, ready |-> FALSE, seq |-> 0, last |-> "nobody",
                 status |-> "running", steps |-> 0, pending |-> NoPending]

-----------------------------------------------------------------------------
(* Control and the two stores                                              *)

Goto(p, label) == pc' = [pc EXCEPT ![p] = label]

\* What the model may answer: a final answer, a call its policy allows, asks
\* about or denies, a call of no registered tool, or a response that
\* _parse_action rejects.
Responses == {"final", "allow", "ask", "deny", "unknown", "malformed"}

InStep  == {"step", "request", "call", "respond", "toolcall", "ask", "exec",
            "toolend", "output", "verify", "verified", "settle", "fail",
            "fail_save"}
Appends == {"start", "request", "respond", "toolcall", "ask", "toolend",
            "verified", "fail", "finish", "refinish", "resolve"}
Saves   == {"start_save", "claim", "settle", "finish_claim", "finish_save",
            "fail_save", "decide_claim", "decide_save"}
Labels  == InStep \cup Appends \cup Saves
             \cup {"idle", "validate", "decide_validate"}

\* validate_append: the next sequence number is contiguous, the tail is sound.
CanAppend(p) == ~torn /\ loc[p].seq = Len(trace)

\* Definitions named Mut... are deliberate mistakes: each is what the definition
\* after it would be if the code had one plausible bug, and shows that the
\* properties notice it.
MutRecordedWithoutId(p) == [loc[p] EXCEPT !.seq = @ + 1]

\* The process's copy after its event was appended.
Recorded(p) == [loc[p] EXCEPT !.seq = @ + 1, !.last = p]

\* _emit: append one event; copy is what the process then has in memory.
Emit(p, type, step, val, copy) ==
  /\ CanAppend(p)
  /\ trace' = Append(trace, [type |-> type, by |-> p, step |-> step, val |-> val])
  /\ loc' = [loc EXCEPT ![p] = copy]
  /\ UNCHANGED <<cp, torn, begun, want, history>>

MutAnyRevision(p) == TRUE

\* save_checkpoint: write snapshot over the revision this process last saw.
CanSave(p) == cp.rev = loc[p].rev

Store(p, snapshot) ==
  /\ CanSave(p)
  /\ cp' = [snapshot EXCEPT !.rev = @ + 1]
  /\ UNCHANGED <<trace, torn, begun>>

\* Save, and go on with the saved copy.
SaveAndGo(p, snapshot, label) ==
  /\ Store(p, snapshot)
  /\ loc' = [loc EXCEPT ![p] = [snapshot EXCEPT !.rev = @ + 1]]
  /\ Goto(p, label)
  /\ UNCHANGED <<want, history>>

\* The call returns or raises; what the process had in memory is gone.
Leave(p) ==
  /\ Goto(p, "idle")
  /\ loc' = [loc EXCEPT ![p] = NoCheckpoint]
  /\ act' = [act EXCEPT ![p] = "none"]
  /\ want' = [want EXCEPT ![p] = 0]

RecordedAt(i, type, n) == trace[i].type = type /\ trace[i].step = n

\* trace.warning is unset and the last recorded event is the checkpoint's.
SameFrontier(c) ==
  /\ ~torn
  /\ trace # <<>>
  /\ Len(trace) = c.seq
  /\ trace[c.seq].by = c.last

Init ==
  /\ cp = NoCheckpoint
  /\ trace = <<>>
  /\ torn = FALSE
  /\ begun = FALSE
  /\ pc = [p \in Procs |-> "idle"]
  /\ loc = [p \in Procs |-> NoCheckpoint]
  /\ act = [p \in Procs |-> "none"]
  /\ want = [p \in Procs |-> 0]
  /\ calls = [n \in Steps |-> 0]
  /\ effects = [n \in Steps |-> 0]
  /\ given = {}
  /\ acks = {}

-----------------------------------------------------------------------------
(* Agent.run: a fresh run is recorded, then saved, then driven             *)

Run(p) ==
  /\ pc[p] = "idle"
  /\ ~begun
  /\ begun' = TRUE
  /\ Goto(p, "start")
  /\ loc' = [loc EXCEPT ![p] = [NoCheckpoint EXCEPT !.ready = TRUE]]
  /\ UNCHANGED <<stores, act, want, history>>

EmitRunStarted(p) ==
  /\ pc[p] = "start"
  /\ Emit(p, "started", 0, "", Recorded(p))
  /\ Goto(p, "start_save")
  /\ UNCHANGED act

SaveStart(p) ==
  /\ pc[p] = "start_save"
  /\ SaveAndGo(p, loc[p], "claim")
  /\ UNCHANGED act

-----------------------------------------------------------------------------
(* Agent.resume: load, compare with the trace, continue                    *)

\* An unready checkpoint is refused before anything is written.
Resume(p) ==
  /\ pc[p] = "idle"
  /\ cp.ready
  /\ loc' = [loc EXCEPT ![p] = cp]
  /\ Goto(p, "validate")
  /\ UNCHANGED <<stores, begun, act, want, history>>

\* The last event of this type belongs to step n.
LastIs(type, n) ==
  \E i \in DOMAIN trace : /\ RecordedAt(i, type, n)
                          /\ \A j \in i + 1..Len(trace) : trace[j].type # type

\* validate_approval: the pending action is the one last requested, and its
\* decision is the last event.
ApprovalRecorded(c) ==
  /\ c.status = "waiting"
  /\ LastIs("approval", c.pending.step)
  /\ LastIs("responded", c.pending.step)
  /\ IF c.pending.approved = "undecided"
     THEN RecordedAt(Len(trace), "approval", c.pending.step)
     ELSE /\ RecordedAt(Len(trace), "resolved", c.pending.step)
          /\ trace[Len(trace)].val = c.pending.approved

\* The checks of resume that compare the checkpoint with the trace.
Resumable(c) ==
  /\ SameFrontier(c)
  /\ trace[c.seq].type = "finished" => trace[c.seq].val = c.status
  /\ c.pending # NoPending => ApprovalRecorded(c)
  /\ c.status \in Settled

RefuseResume(p) ==
  /\ pc[p] = "validate"
  /\ ~Resumable(loc[p])
  /\ Leave(p)
  /\ UNCHANGED <<stores, begun, history>>

\* A run that still waits, or whose RunFinished is recorded, is returned as is.
ReturnUnchanged(p) ==
  /\ pc[p] = "validate"
  /\ Resumable(loc[p])
  /\ \/ loc[p].status = "waiting" /\ loc[p].pending.approved = "undecided"
     \/ loc[p].status \in Terminal /\ trace[Len(trace)].type = "finished"
  /\ Leave(p)
  /\ UNCHANGED <<stores, begun, history>>

MutContinuesRunningOnly(c) == c.status = "running"

\* The run has a next step: it was running, or its pending action is decided.
Continues(c) ==
  \/ c.status = "running"
  \/ c.status = "waiting" /\ c.pending.approved # "undecided"

ContinueRun(p) ==
  /\ pc[p] = "validate"
  /\ Resumable(loc[p])
  /\ Continues(loc[p])
  /\ loc' = [loc EXCEPT ![p].status = "running"]
  /\ Goto(p, "claim")
  /\ UNCHANGED <<stores, begun, act, want, history>>

MutCompleteAgain(p) ==
  /\ pc[p] = "validate"
  /\ Resumable(loc[p])
  /\ loc[p].status \in Terminal
  /\ Goto(p, "finish_claim")
  /\ UNCHANGED <<stores, begun, loc, act, want, history>>

\* The terminal step was saved but RunFinished was not recorded.
CompleteBookkeeping(p) ==
  /\ pc[p] = "validate"
  /\ Resumable(loc[p])
  /\ loc[p].status \in Terminal
  /\ trace[Len(trace)].type # "finished"
  /\ Goto(p, "finish_claim")
  /\ UNCHANGED <<stores, begun, loc, act, want, history>>

ClaimBookkeeping(p) ==
  /\ pc[p] = "finish_claim"
  /\ SaveAndGo(p, [loc[p] EXCEPT !.ready = FALSE], "refinish")
  /\ UNCHANGED act

EmitMissingFinished(p) ==
  /\ pc[p] = "refinish"
  /\ Emit(p, "finished", loc[p].steps, loc[p].status,
          [Recorded(p) EXCEPT !.ready = TRUE])
  /\ Goto(p, "finish_save")
  /\ UNCHANGED act

-----------------------------------------------------------------------------
(* step(): claim the run, do one step, save the boundary                   *)

MutClaimStaysReady(p) ==
  /\ pc[p] = "claim"
  /\ SaveAndGo(p, loc[p], "step")
  /\ UNCHANGED act

ClaimStep(p) ==
  /\ pc[p] = "claim"
  /\ SaveAndGo(p, [loc[p] EXCEPT !.ready = FALSE], "step")
  /\ UNCHANGED act

\* The step ends with this status; its boundary is saved next.
EndStep(p, status) ==
  /\ loc' = [loc EXCEPT ![p].status = status]
  /\ Goto(p, "settle")

\* The step raises: the run fails, or is cancelled.
Raise(p) ==
  \E status \in {"failed", "cancelled"} :
    /\ loc' = [loc EXCEPT ![p].status = status]
    /\ Goto(p, "fail")

\* A decided approval: the pending action is taken up and nothing is asked,
\* unless the deadline passed meanwhile.
TakeUpDecision(p) ==
  /\ pc[p] = "step"
  /\ loc[p].pending # NoPending
  /\ \/ /\ loc' = [loc EXCEPT ![p].pending = NoPending]
        /\ \/ /\ loc[p].pending.approved = "yes"
              /\ act' = [act EXCEPT ![p] = "approved"]
              /\ Goto(p, "exec")
           \/ /\ loc[p].pending.approved = "no"
              /\ act' = [act EXCEPT ![p] = "result"]
              /\ Goto(p, "toolend")
     \/ /\ loc' = [loc EXCEPT ![p].pending = NoPending, ![p].status = "timeout"]
        /\ Goto(p, "settle")
        /\ UNCHANGED act
  /\ UNCHANGED <<stores, begun, want, history>>

MutWithinBudgetInclusive(p) == loc[p].steps <= MaxSteps

\* max_steps is not used up.
WithinBudget(p) == loc[p].steps < MaxSteps

\* TerminationPolicy.evaluate, then the context is prepared: a summary request
\* may exhaust a budget or time out, and preparing may raise.
CheckBudgets(p) ==
  /\ pc[p] = "step"
  /\ loc[p].pending = NoPending
  /\ \/ \E status \in {"exhausted", "timeout"} : EndStep(p, status)
     \/ WithinBudget(p) /\ Raise(p)
     \/ WithinBudget(p) /\ Goto(p, "request") /\ UNCHANGED loc
  /\ UNCHANGED <<stores, begun, act, want, history>>

EmitModelRequested(p) ==
  /\ pc[p] = "request"
  /\ Emit(p, "requested", loc[p].steps + 1, "", [Recorded(p) EXCEPT !.steps = @ + 1])
  /\ Goto(p, "call")
  /\ UNCHANGED act

CallModel(p) ==
  /\ pc[p] = "call"
  /\ calls' = [calls EXCEPT ![loc[p].steps] = @ + 1]
  /\ \/ /\ \E r \in Responses : act' = [act EXCEPT ![p] = r]
        /\ Goto(p, "respond")
        /\ UNCHANGED loc
     \/ EndStep(p, "timeout") /\ UNCHANGED act
     \/ Raise(p) /\ UNCHANGED act
  /\ UNCHANGED <<stores, begun, want, effects, given, acks>>

\* ModelResponded is recorded; then _parse_action says what the response is.
\* A tool call is not taken up after the deadline.
EmitModelResponded(p) ==
  /\ pc[p] = "respond"
  /\ \E status \in {"running", "completed", "failed", "timeout"} :
       /\ Emit(p, "responded", loc[p].steps, act[p],
               [Recorded(p) EXCEPT !.status = status])
       /\ CASE act[p] = "malformed" ->
                 status = "failed" /\ Goto(p, "fail")
            [] act[p] = "final" /\ Verifying ->
                 status = "running" /\ Goto(p, "verify")
            [] act[p] = "final" /\ ~Verifying ->
                 status = "completed" /\ Goto(p, "settle")
            [] OTHER ->
                 \/ status = "running" /\ Goto(p, "toolcall")
                 \/ status = "timeout" /\ Goto(p, "settle")
  /\ UNCHANGED act

\* ToolCalled is recorded, then the policy decides what becomes of the call.
EmitToolCalled(p) ==
  /\ pc[p] = "toolcall"
  /\ act[p] # "ask"
  /\ Emit(p, "called", loc[p].steps, "", Recorded(p))
  /\ Goto(p, IF act[p] = "allow" THEN "exec" ELSE "toolend")
  /\ act' = [act EXCEPT ![p] = IF @ = "deny" THEN "result" ELSE @]

\* A call that requires approval stays pending, and the run will wait.
EmitToolCalledForApproval(p) ==
  /\ pc[p] = "toolcall"
  /\ act[p] = "ask"
  /\ Emit(p, "called", loc[p].steps, "",
          [Recorded(p) EXCEPT !.status = "waiting",
             !.pending = [step |-> loc[p].steps, approved |-> "undecided"]])
  /\ Goto(p, "ask")
  /\ UNCHANGED act

EmitApprovalRequested(p) ==
  /\ pc[p] = "ask"
  /\ Emit(p, "approval", loc[p].pending.step, "", Recorded(p))
  /\ Goto(p, "settle")
  /\ UNCHANGED act

\* The tool runs.  Whatever its outcome, its effect may have happened.
Execute(p) ==
  /\ pc[p] = "exec"
  /\ effects' = [effects EXCEPT ![loc[p].steps] = @ + 1]
  /\ \E outcome \in {"result", "timeout", "raised"} :
       act' = [act EXCEPT ![p] = outcome]
  /\ Goto(p, "toolend")
  /\ UNCHANGED <<stores, begun, loc, want, calls, given, acks>>

\* ToolCompleted or ToolFailed.
EmitToolEnd(p) ==
  /\ pc[p] = "toolend"
  /\ \E status \in {"running", "timeout", "failed", "cancelled"} :
       /\ Emit(p, "tool", loc[p].steps, act[p], [Recorded(p) EXCEPT !.status = status])
       /\ CASE act[p] = "result"  -> status = "running" /\ Goto(p, "output")
            [] act[p] = "timeout" -> status = "timeout" /\ Goto(p, "settle")
            [] act[p] = "unknown" -> status = "failed" /\ Goto(p, "fail")
            [] OTHER -> status \in {"failed", "cancelled"} /\ Goto(p, "fail")
  /\ UNCHANGED act

\* The output manager may time out or raise.  A delegated exploration may
\* have exhausted a budget that the parent run shares.
ProcessOutput(p) ==
  /\ pc[p] = "output"
  /\ \/ \E status \in {"running", "exhausted", "timeout"} : EndStep(p, status)
     \/ Raise(p)
  /\ UNCHANGED <<stores, begun, act, want, history>>

\* The suite runs to its end, or stops at the deadline or the tool budget.  A
\* command may raise, and so may the preparation of the failure report.
Verify(p) ==
  /\ pc[p] = "verify"
  /\ effects' = [effects EXCEPT ![loc[p].steps] = @ + 1]
  /\ \/ /\ \E outcome \in {"passed", "rejected"} : act' = [act EXCEPT ![p] = outcome]
        /\ Goto(p, "verified")
        /\ UNCHANGED loc
     \/ EndStep(p, "timeout") /\ UNCHANGED act
     \/ EndStep(p, "exhausted") /\ act' = [act EXCEPT ![p] = "interrupted"]
     \/ Raise(p) /\ UNCHANGED act
     \/ /\ act' = [act EXCEPT ![p] = "raised"]
        /\ Goto(p, "toolend")
        /\ UNCHANGED loc
  /\ UNCHANGED <<stores, begun, want, calls, given, acks>>

EmitVerificationFinished(p) ==
  /\ pc[p] = "verified"
  /\ \E status \in IF act[p] = "passed" THEN {"completed"}
                                        ELSE {"running", "verification_failed"} :
       Emit(p, "verified", loc[p].steps, act[p], [Recorded(p) EXCEPT !.status = status])
  /\ Goto(p, "settle")
  /\ UNCHANGED act

MutAlwaysAtBoundary(p) == act[p] # "interrupted"
MutNotWhileWaiting(p) ==
  loc[p].status \in Settled \ {"waiting"} /\ act[p] # "interrupted"

\* _at_boundary at the end of step(): an incomplete suite stays unready.
AtBoundary(p) == loc[p].status \in Settled /\ act[p] # "interrupted"

SettleStep(p) ==
  /\ pc[p] = "settle"
  /\ loc[p].status # "waiting"
  /\ SaveAndGo(p, [loc[p] EXCEPT !.ready = AtBoundary(p)],
               IF loc[p].status = "running" THEN "claim" ELSE "finish")
  /\ act' = [act EXCEPT ![p] = "none"]

ReturnWaiting(p) ==
  /\ pc[p] = "settle"
  /\ loc[p].status = "waiting"
  /\ Store(p, [loc[p] EXCEPT !.ready = AtBoundary(p)])
  /\ Leave(p)
  /\ UNCHANGED history

EmitRunFinished(p) ==
  /\ pc[p] = "finish"
  /\ Emit(p, "finished", loc[p].steps, loc[p].status, Recorded(p))
  /\ Goto(p, "finish_save")
  /\ UNCHANGED act

SaveFinished(p) ==
  /\ pc[p] = "finish_save"
  /\ Store(p, loc[p])
  /\ Leave(p)
  /\ UNCHANGED history

-----------------------------------------------------------------------------
(* Failures                                                                *)

\* An exception or a cancellation inside a step is recorded if it can be,
\* then the checkpoint is saved unready.
EmitTerminalError(p) ==
  /\ pc[p] = "fail"
  /\ Emit(p, IF loc[p].status = "cancelled" THEN "finished" ELSE "failed",
          loc[p].steps, loc[p].status, Recorded(p))
  /\ Goto(p, "fail_save")
  /\ UNCHANGED act

SaveInterrupted(p) ==
  /\ pc[p] = "fail_save"
  /\ Store(p, [loc[p] EXCEPT !.ready = FALSE])
  /\ Leave(p)
  /\ UNCHANGED history

\* The terminal error, and the failure of a tool that raised, are recorded
\* as far as the sink works: the run goes on to fail without the event.
BestEffort(p) == pc[p] = "fail" \/ (pc[p] = "toolend" /\ act[p] = "raised")

SkipBestEffort(p) ==
  /\ BestEffort(p)
  /\ p \in Faulty \/ ~CanAppend(p)
  /\ IF pc[p] = "toolend"
     THEN Raise(p)
     ELSE Goto(p, "fail_save") /\ UNCHANGED loc
  /\ UNCHANGED <<stores, begun, act, want, history>>

\* A store refuses the call: EventStoreError or PersistenceError ends the
\* process without another write.
StoreRefuses(p) ==
  /\ \/ pc[p] \in Appends /\ ~BestEffort(p) /\ ~CanAppend(p)
     \/ pc[p] \in Saves /\ ~CanSave(p)
  /\ Leave(p)
  /\ UNCHANGED <<stores, begun, history>>

\* The process dies, or a store call fails, at any point.
Stop(p) ==
  /\ p \in Faulty
  /\ pc[p] # "idle"
  /\ Leave(p)
  /\ UNCHANGED <<stores, begun, history>>

\* The process dies while it writes an event line.
StopDuringAppend(p) ==
  /\ p \in Faulty
  /\ pc[p] \in Appends
  /\ CanAppend(p)
  /\ torn' = TRUE
  /\ Leave(p)
  /\ UNCHANGED <<cp, trace, begun, history>>

-----------------------------------------------------------------------------
(* resolve_approval: claim, record the decision, settle                    *)

\* A human decides about an action the trace shows as requested, maybe late.
Decide(a, n, decision) ==
  /\ pc[a] = "idle"
  /\ cp.ready
  /\ \E i \in DOMAIN trace : RecordedAt(i, "approval", n)
  /\ given' = given \cup {<<n, decision>>}
  /\ loc' = [loc EXCEPT ![a] = cp]
  /\ want' = [want EXCEPT ![a] = n]
  /\ act' = [act EXCEPT ![a] = decision]
  /\ Goto(a, "decide_validate")
  /\ UNCHANGED <<stores, begun, calls, effects, acks>>

\* The action ID of the decision is not compared.
MutAnyUndecided(c, n) ==
  /\ SameFrontier(c)
  /\ ApprovalRecorded(c)
  /\ c.pending.step \in Steps
  /\ c.pending.approved = "undecided"

\* A decided action may be decided again.
MutAlsoDecided(c, n) ==
  /\ SameFrontier(c)
  /\ ApprovalRecorded(c)
  /\ c.pending.step = n

\* validate_approval, and the action ID names the undecided action.
Undecided(c, n) ==
  /\ SameFrontier(c)
  /\ ApprovalRecorded(c)
  /\ c.pending = [step |-> n, approved |-> "undecided"]

ValidateDecision(a) ==
  /\ pc[a] = "decide_validate"
  /\ Undecided(loc[a], want[a])
  /\ Goto(a, "decide_claim")
  /\ UNCHANGED <<stores, begun, loc, act, want, history>>

RefuseDecision(a) ==
  /\ pc[a] = "decide_validate"
  /\ ~Undecided(loc[a], want[a])
  /\ Leave(a)
  /\ UNCHANGED <<stores, begun, history>>

ClaimDecision(a) ==
  /\ pc[a] = "decide_claim"
  /\ SaveAndGo(a, [loc[a] EXCEPT !.ready = FALSE], "resolve")
  /\ UNCHANGED act

EmitApprovalResolved(a) ==
  /\ pc[a] = "resolve"
  /\ Emit(a, "resolved", loc[a].pending.step, act[a],
          [Recorded(a) EXCEPT !.ready = TRUE, !.pending.approved = act[a]])
  /\ Goto(a, "decide_save")
  /\ UNCHANGED act

SaveDecision(a) ==
  /\ pc[a] = "decide_save"
  /\ Store(a, loc[a])
  /\ acks' = acks \cup {<<a, loc[a].pending.step, act[a]>>}
  /\ Leave(a)
  /\ UNCHANGED <<calls, effects, given>>

-----------------------------------------------------------------------------

StepAction(p) ==
  \/ TakeUpDecision(p) \/ CheckBudgets(p) \/ EmitModelRequested(p)
  \/ CallModel(p) \/ EmitModelResponded(p) \/ EmitToolCalled(p)
  \/ EmitToolCalledForApproval(p) \/ EmitApprovalRequested(p) \/ Execute(p) \/ EmitToolEnd(p)
  \/ ProcessOutput(p) \/ Verify(p) \/ EmitVerificationFinished(p)
  \/ SettleStep(p) \/ ReturnWaiting(p) \/ EmitTerminalError(p) \/ SaveInterrupted(p)
  \/ SkipBestEffort(p)

DriveAction(p) ==
  \/ EmitRunStarted(p) \/ SaveStart(p) \/ RefuseResume(p)
  \/ ReturnUnchanged(p) \/ ContinueRun(p) \/ CompleteBookkeeping(p)
  \/ ClaimBookkeeping(p) \/ EmitMissingFinished(p) \/ ClaimStep(p)
  \/ EmitRunFinished(p) \/ SaveFinished(p)

ApproverAction(a) ==
  \/ ValidateDecision(a) \/ RefuseDecision(a) \/ ClaimDecision(a)
  \/ EmitApprovalResolved(a) \/ SaveDecision(a)

Next ==
  \/ \E p \in Runtimes : Run(p) \/ Resume(p) \/ DriveAction(p) \/ StepAction(p)
  \/ \E a \in Approvers :
       \/ \E n \in Steps, decision \in Decisions : Decide(a, n, decision)
       \/ ApproverAction(a)
  \/ \E p \in Procs : StoreRefuses(p) \/ Stop(p) \/ StopDuringAppend(p)

Spec == Init /\ [][Next]_vars

\* A process that has begun a call goes on with it.  Someone resumes a
\* settled run, and a human decides about the pending action.
Fairness ==
  /\ WF_vars(\E p \in Runtimes : Run(p))
  /\ \A p \in Runtimes :
       /\ WF_vars(DriveAction(p) \/ StepAction(p) \/ StoreRefuses(p))
       /\ SF_vars(Resume(p))
  /\ \A a \in Approvers :
       /\ WF_vars(ApproverAction(a) \/ StoreRefuses(a))
       /\ SF_vars(\E decision \in Decisions : Decide(a, cp.pending.step, decision))

FairSpec == Spec /\ Fairness

-----------------------------------------------------------------------------
(* Properties                                                              *)

Outcomes == {"result", "timeout", "raised", "passed", "rejected",
             "interrupted", "approved"}
EventTypes == {"started", "requested", "responded", "called", "approval",
               "resolved", "tool", "verified", "finished", "failed"}
Pendings == [step: 0..MaxSteps, approved: Decisions \cup {"undecided"}]
Checkpoints ==
  [rev: Nat, ready: BOOLEAN, seq: Nat, last: Procs \cup {"nobody"},
   status: Statuses, steps: 0..MaxSteps, pending: Pendings]
Acts   == Responses \cup Outcomes \cup Decisions \cup {"none"}
Events == [type: EventTypes, by: Procs, step: 0..MaxSteps,
           val: Acts \cup Statuses \cup {""}]

StoresOK ==
  /\ cp \in Checkpoints
  /\ trace \in Seq(Events)
  /\ torn \in BOOLEAN
  /\ begun \in BOOLEAN

ProcessesOK ==
  /\ pc \in [Procs -> Labels]
  /\ loc \in [Procs -> Checkpoints]
  /\ act \in [Procs -> Acts]
  /\ want \in [Procs -> 0..MaxSteps]

HistoryOK ==
  /\ calls \in [Steps -> Nat]
  /\ effects \in [Steps -> Nat]
  /\ given \subseteq Steps \X Decisions
  /\ acks \subseteq Approvers \X (0..MaxSteps) \X Decisions

\* The stores, the processes and the history keep their types.
TypeOK == StoresOK /\ ProcessesOK /\ HistoryOK

HasAnswer(type, n, val) ==
  \E i \in DOMAIN trace : RecordedAt(i, type, n) /\ trace[i].val = val

HasEndRecord == \E i \in DOMAIN trace : trace[i].type \in {"finished", "failed"}

\* "Persist an in-flight marker before any model/tool side effects.  CAS
\* stops a stale second runtime before it can repeat the same step": at most
\* one process is past a claim, and nobody can load the run meanwhile.
Exclusive == InStep \cup {"refinish", "resolve", "decide_save"}

SingleOwner ==
  \A p \in Procs : pc[p] \in Exclusive =>
     /\ ~cp.ready
     /\ \A q \in Procs : pc[q] \in Exclusive => p = q

\* "... never replay": whatever dies, and whoever resumes, the model is asked
\* for step n at most once and its action has its effect at most once.
NoReplay == \A n \in Steps : calls[n] <= 1 /\ effects[n] <= 1

\* An action the policy asks about is executed only after a human approved
\* that very action and the approval was recorded; an action whose rejection
\* was confirmed is never executed.
ConsentBeforeEffect ==
  \A n \in Steps : effects[n] > 0 =>
     /\ HasAnswer("responded", n, "ask") =>
          HasAnswer("resolved", n, "yes") /\ <<n, "yes">> \in given
     /\ \A a \in Approvers : <<a, n, "no">> \notin acks

\* "Concurrent or repeated decisions fail closed": one decision per action is
\* recorded, and resolve_approval confirms none but that one.
OneDecision ==
  /\ \A i, j \in DOMAIN trace :
       (trace[i].type = "resolved" /\ RecordedAt(j, "resolved", trace[i].step))
          => i = j
  /\ \A d, e \in acks : d[2] = e[2] => d = e
  /\ \A d \in acks : HasAnswer("resolved", d[2], d[3])

\* A ready checkpoint names the event the trace ended in when it was saved,
\* and nothing but the RunFinished of its own terminal status can follow it.
FrontierNamed ==
  cp.ready =>
    /\ cp.seq \in DOMAIN trace
    /\ trace[cp.seq].by = cp.last
    /\ \/ Len(trace) = cp.seq
       \/ /\ Len(trace) = cp.seq + 1
          /\ cp.status \in Terminal
          /\ RecordedAt(Len(trace), "finished", cp.steps)
          /\ trace[Len(trace)].val = cp.status

Ending == {"finished", "failed"}

\* "Complete that bookkeeping once": nothing is recorded after the end of the
\* run, and no second end.
EndIsLast == \A i \in DOMAIN trace : trace[i].type \in Ending => i = Len(trace)

\* The two stores agree wherever a run may be taken up, and a run ends once,
\* whoever finishes it, resumes it and completes its bookkeeping.
SettledFrontier == FrontierNamed /\ EndIsLast

\* A ready checkpoint accounts for all that was done: every model call and
\* every effect so far belongs to a step it counts, and its outcome is
\* recorded before the frontier.
EffectsAccounted ==
  cp.ready => \A n \in Steps :
    /\ calls[n] > 0 <=> n <= cp.steps
    /\ calls[n] > 0 =>
         \E i \in 1..cp.seq : RecordedAt(i, "responded", n)
    /\ effects[n] > 0 =>
         \E i \in 1..cp.seq : \/ RecordedAt(i, "tool", n)
                               \/ RecordedAt(i, "verified", n)

\* The protocol implements ExclusiveSteps: the run is claimed while its
\* checkpoint is unready.
Phase == IF cp.rev = 0 THEN "absent" ELSE IF cp.ready THEN "settled" ELSE "claimed"

Abstract == INSTANCE ExclusiveSteps
              WITH phase <- Phase, asked <- calls, acted <- effects

ImplementsExclusiveSteps == Abstract!Spec

\* Without faults a run that was created comes to a recorded end, however
\* many processes resume it and decide about it at once.
RunEnds == begun ~> HasEndRecord

\* Without faults a confirmed decision is taken up: the run goes past the
\* action it waited for.
DecisionTakenUp ==
  \A n \in Steps : (\E d \in acks : d[2] = n) ~> (cp.pending = NoPending)

\* "A process may die after saving its terminal step but before writing
\* RunFinished.  Complete that bookkeeping once": as long as the bookkeeping
\* of a settled terminal status is not done, and nobody is at it, some resume
\* can do it.
BookkeepingResumable ==
  (/\ cp.status \in Terminal \cap Settled
   /\ \A p \in Procs : pc[p] = "idle"
   /\ ~HasEndRecord)
  => cp.ready

=============================================================================
