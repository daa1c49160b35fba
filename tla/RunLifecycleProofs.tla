------------------------- MODULE RunLifecycleProofs -------------------------
(***************************************************************************)
(* Proofs about RunLifecycle, for every set of runtimes and approvers,     *)
(* every set of faulty processes and every step budget.                    *)
(*                                                                         *)
(* The argument: a process past a claim holds the latest revision of an    *)
(* unready checkpoint.  Nobody can load it, and the first save by another  *)
(* process would end its hold, so it is alone, and the counters in its     *)
(* copy tell which model calls and effects there have been.                *)
(***************************************************************************)
EXTENDS RunLifecycle, SequenceTheorems, TLAPS

-----------------------------------------------------------------------------
(* The inductive invariant                                                 *)

\* What the types need besides themselves: a step is asked only within the
\* budget, and an approver has a step and a decision in hand.
TypeSupport ==
  \A p \in Procs :
    /\ pc[p] = "request" => loc[p].steps < MaxSteps
    /\ pc[p] = "decide_validate" => want[p] \in Steps
    /\ pc[p] \in {"decide_validate", "decide_claim", "resolve", "decide_save"}
         => act[p] \in Decisions

\* p works on the latest revision.
Holder(p) == pc[p] # "idle" /\ loc[p].rev = cp.rev

\* No copy is newer than the store.
RevInv == \A p \in Procs : pc[p] # "idle" => loc[p].rev <= cp.rev

\* An unready checkpoint has one holder: who claimed it.
UniqueInv == ~cp.ready => \A p, q \in Procs : Holder(p) /\ Holder(q) => p = q

\* What is done past a claim is done by the holder of an unready checkpoint.
OwnInv == \A p \in Procs : pc[p] \in Exclusive => Holder(p) /\ ~cp.ready

Starting == {"start", "start_save"}

\* Before the first save there is at most the process that creates the run.
FreshInv ==
  /\ ~begun => /\ cp.rev = 0
               /\ \A p \in Procs : pc[p] = "idle"
               /\ \A n \in Steps : calls[n] = 0 /\ effects[n] = 0
  /\ cp.rev = 0 => /\ ~cp.ready
                   /\ \A p \in Procs : pc[p] \in {"idle"} \cup Starting
  /\ \A p \in Procs : pc[p] \in Starting => loc[p].ready

\* The model was asked once for each of the first k steps.
Asked(k) == \A n \in Steps : calls[n] = IF n <= k THEN 1 ELSE 0

\* No action after step k was executed, and none twice.
QuietAfter(k) == \A n \in Steps : effects[n] <= 1 /\ (n > k => effects[n] = 0)

\* The action of step k is yet to be executed.
Untouched(k) == k \in Steps /\ effects[k] = 0

\* A checkpoint's counter tells what was done, and its pending action was not.
Consistent(c) ==
  /\ Asked(c.steps)
  /\ QuietAfter(c.steps)
  /\ c.pending # NoPending => c.pending.step = c.steps /\ Untouched(c.steps)

BeforeEffect == {"respond", "toolcall", "ask", "exec", "verify"}
NonePending  == InStep \ {"step", "ask", "settle"}

\* What p's copy says, at each point of p's control, while p is the holder.
LocInv(p) ==
  /\ pc[p] = "call" => /\ loc[p].steps \in Steps
                       /\ Asked(loc[p].steps - 1)
                       /\ QuietAfter(loc[p].steps - 1)
  /\ pc[p] # "call" => Consistent(loc[p])
  /\ pc[p] \in BeforeEffect => Untouched(loc[p].steps)
  /\ pc[p] \in NonePending => loc[p].pending = NoPending
  /\ pc[p] \in {"decide_claim", "resolve"} => loc[p].pending # NoPending

ReadyInv  == cp.ready => Consistent(cp)
HolderInv == \A p \in Procs : Holder(p) => LocInv(p)

OwnershipInv == RevInv /\ UniqueInv /\ OwnInv /\ FreshInv
DataInv      == ReadyInv /\ HolderInv /\ NoReplay

\* The inductive invariant.
IInv == TypeOK /\ TypeSupport /\ OwnershipInv /\ DataInv

-----------------------------------------------------------------------------
(* Checkpoints, and the updates the actions make to them                   *)

\* The fields of a checkpoint have their types.
LEMMA FieldTyped ==
  ASSUME NEW c \in Checkpoints
  PROVE  /\ c.rev \in Nat
         /\ c.steps \in 0..MaxSteps
         /\ c.status \in Statuses
         /\ c.pending \in Pendings
         /\ c.pending.step \in 0..MaxSteps
  BY DEF Checkpoints, Pendings

\* Each update the actions make to a copy leaves a checkpoint.
LEMMA UpdateTyped ==
  ASSUME NEW c \in Checkpoints
  PROVE  /\ \A b \in BOOLEAN : [c EXCEPT !.ready = b] \in Checkpoints
         /\ \A p \in Procs : [c EXCEPT !.last = p] \in Checkpoints
         /\ \A s \in Statuses : [c EXCEPT !.status = s] \in Checkpoints
         /\ \A q \in Pendings : [c EXCEPT !.pending = q] \in Checkpoints
         /\ c.steps < MaxSteps => [c EXCEPT !.steps = @ + 1] \in Checkpoints
         /\ [c EXCEPT !.seq = @ + 1] \in Checkpoints
         /\ [c EXCEPT !.rev = @ + 1] \in Checkpoints
<1>1. \A b \in BOOLEAN : [c EXCEPT !.ready = b] \in Checkpoints
  BY DEF Checkpoints
<1>2. \A p \in Procs : [c EXCEPT !.last = p] \in Checkpoints
  BY DEF Checkpoints
<1>3. \A s \in Statuses : [c EXCEPT !.status = s] \in Checkpoints
  BY DEF Checkpoints
<1>4. \A q \in Pendings : [c EXCEPT !.pending = q] \in Checkpoints
  BY DEF Checkpoints
<1>5. c.steps < MaxSteps => [c EXCEPT !.steps = @ + 1] \in Checkpoints
  BY LifecycleAssumption DEF LifecycleAssumption, Checkpoints
<1>6. [c EXCEPT !.seq = @ + 1] \in Checkpoints
  BY DEF Checkpoints
<1>7. [c EXCEPT !.rev = @ + 1] \in Checkpoints
  BY DEF Checkpoints
<1>q. QED BY <1>1, <1>2, <1>3, <1>4, <1>5, <1>6, <1>7

\* A process begins with no checkpoint, and no pending action.
LEMMA InitialTyped ==
  /\ 0 \in 0..MaxSteps
  /\ NoPending \in Pendings
  /\ NoCheckpoint \in Checkpoints
<1>1. 0 \in 0..MaxSteps
  BY LifecycleAssumption DEF LifecycleAssumption
<1>2. NoPending \in Pendings
  BY <1>1 DEF NoPending, Pendings
<1>q. QED
  BY <1>1, <1>2 DEF NoCheckpoint, Checkpoints, Statuses

\* The statuses, by name.
LEMMA StatusNames == Terminal \cup {"running", "waiting"} = Statuses
  BY DEF Statuses

\* A copy that counts one more event is a checkpoint with the same step.
LEMMA RecordedTyped ==
  ASSUME ProcessesOK, NEW p \in Procs
  PROVE  Recorded(p) \in Checkpoints /\ Recorded(p).steps = loc[p].steps
<1>1. loc[p] \in Checkpoints
  BY DEF ProcessesOK
<1>2. [loc[p] EXCEPT !.seq = @ + 1] \in Checkpoints
  BY <1>1, UpdateTyped
<1>3. Recorded(p) = [[loc[p] EXCEPT !.seq = @ + 1] EXCEPT !.last = p]
  BY DEF Recorded
<1>4. Recorded(p).steps = loc[p].steps
  BY <1>1 DEF Recorded, Checkpoints
<1>q. QED BY <1>2, <1>3, <1>4, UpdateTyped

\* Appending an event leaves a trace.
LEMMA AppendTyped ==
  ASSUME NEW s \in Seq(Events), NEW type \in EventTypes, NEW p \in Procs,
         NEW n \in 0..MaxSteps, NEW val \in Acts \cup Statuses \cup {""}
  PROVE  Append(s, [type |-> type, by |-> p, step |-> n, val |-> val])
           \in Seq(Events)
<1>1. [type |-> type, by |-> p, step |-> n, val |-> val] \in Events
  BY DEF Events
<1>q. QED BY <1>1, AppendProperties

-----------------------------------------------------------------------------
(* Types                                                                   *)

\* What the process has in memory stays a checkpoint.
LEMMA DriveCopies ==
  ASSUME ProcessesOK, TypeSupport, NEW p \in Procs, DriveAction(p)
  PROVE  loc' \in [Procs -> Checkpoints]
<1>1. /\ loc \in [Procs -> Checkpoints]
      /\ loc[p] \in Checkpoints
      /\ Recorded(p) \in Checkpoints
  BY RecordedTyped DEF ProcessesOK
<1>2. QED
  <2>1. CASE EmitRunStarted(p)
    BY <1>1, <2>1, UpdateTyped DEF EmitRunStarted, Emit
  <2>2. CASE SaveStart(p)
    BY <1>1, <2>2, UpdateTyped DEF SaveStart, SaveAndGo
  <2>3. CASE RefuseResume(p)
    BY <1>1, <2>3, InitialTyped DEF RefuseResume, Leave
  <2>4. CASE ReturnUnchanged(p)
    BY <1>1, <2>4, InitialTyped DEF ReturnUnchanged, Leave
  <2>5. CASE ContinueRun(p)
    BY <1>1, <2>5, UpdateTyped, StatusNames DEF ContinueRun
  <2>6. CASE CompleteBookkeeping(p)
    BY <1>1, <2>6 DEF CompleteBookkeeping
  <2>7. CASE ClaimBookkeeping(p)
    BY <1>1, <2>7, UpdateTyped DEF ClaimBookkeeping, SaveAndGo
  <2>8. CASE EmitMissingFinished(p)
    BY <1>1, <2>8, UpdateTyped DEF EmitMissingFinished, Emit
  <2>9. CASE ClaimStep(p)
    BY <1>1, <2>9, UpdateTyped DEF ClaimStep, SaveAndGo
  <2>10. CASE EmitRunFinished(p)
    BY <1>1, <2>10, UpdateTyped DEF EmitRunFinished, Emit
  <2>11. CASE SaveFinished(p)
    BY <1>1, <2>11, InitialTyped DEF SaveFinished, Leave
  <2>q. QED BY <2>1, <2>2, <2>3, <2>4, <2>5, <2>6, <2>7, <2>8, <2>9, <2>10,
              <2>11
           DEF DriveAction

\* What the process has in memory stays a checkpoint.
LEMMA StepCopies ==
  ASSUME ProcessesOK, TypeSupport, NEW p \in Procs, StepAction(p)
  PROVE  loc' \in [Procs -> Checkpoints]
<1>1. /\ loc \in [Procs -> Checkpoints]
      /\ loc[p] \in Checkpoints
      /\ Recorded(p) \in Checkpoints
  BY RecordedTyped DEF ProcessesOK
<1>2. QED
  <2>1. CASE TakeUpDecision(p)
    <3>1. [loc[p] EXCEPT !.pending = NoPending] \in Checkpoints
      BY <1>1, InitialTyped, UpdateTyped
    <3>2. [[loc[p] EXCEPT !.pending = NoPending] EXCEPT !.status = "timeout"]
            \in Checkpoints
      BY <3>1, StatusNames, UpdateTyped DEF Terminal
    <3>3. \/ loc' = [loc EXCEPT ![p] = [loc[p] EXCEPT !.pending = NoPending]]
          \/ loc' = [loc EXCEPT ![p] =
                       [[loc[p] EXCEPT !.pending = NoPending]
                          EXCEPT !.status = "timeout"]]
      BY <1>1, <2>1 DEF TakeUpDecision
    <3>q. QED BY <1>1, <3>1, <3>2, <3>3
  <2>2. CASE CheckBudgets(p)
    <3>1. loc' = loc \/ \E s \in Statuses : loc' = [loc EXCEPT ![p].status = s]
      BY <2>2, StatusNames DEF CheckBudgets, EndStep, Raise, Terminal
    <3>2. \A s \in Statuses : [loc[p] EXCEPT !.status = s] \in Checkpoints
      BY <1>1, UpdateTyped
    <3>q. QED BY <1>1, <3>1, <3>2
  <2>3. CASE EmitModelRequested(p)
    <3>1. Recorded(p).steps < MaxSteps
      BY <2>3, RecordedTyped DEF EmitModelRequested, TypeSupport
    <3>2. [Recorded(p) EXCEPT !.steps = @ + 1] \in Checkpoints
      BY <1>1, <3>1, UpdateTyped
    <3>q. QED BY <1>1, <2>3, <3>2 DEF EmitModelRequested, Emit
  <2>4. CASE CallModel(p)
    <3>1. loc' = loc \/ \E s \in Statuses : loc' = [loc EXCEPT ![p].status = s]
      BY <2>4, StatusNames DEF CallModel, EndStep, Raise, Terminal
    <3>2. \A s \in Statuses : [loc[p] EXCEPT !.status = s] \in Checkpoints
      BY <1>1, UpdateTyped
    <3>q. QED BY <1>1, <3>1, <3>2
  <2>5. CASE EmitModelResponded(p)
    <3>1. PICK s \in Statuses :
            loc' = [loc EXCEPT ![p] = [Recorded(p) EXCEPT !.status = s]]
      BY <2>5, StatusNames DEF EmitModelResponded, Emit, Terminal
    <3>2. [Recorded(p) EXCEPT !.status = s] \in Checkpoints
      BY <1>1, UpdateTyped
    <3>q. QED BY <1>1, <3>1, <3>2
  <2>6. CASE EmitToolCalled(p)
    BY <1>1, <2>6, UpdateTyped DEF EmitToolCalled, Emit
  <2>7. CASE EmitToolCalledForApproval(p)
    <3> DEFINE asked == [step |-> loc[p].steps, approved |-> "undecided"]
    <3>1. asked \in Pendings
      BY <1>1, FieldTyped DEF Pendings
    <3>2. [[Recorded(p) EXCEPT !.status = "waiting"] EXCEPT !.pending = asked]
            \in Checkpoints
      BY <1>1, <3>1, StatusNames, UpdateTyped
    <3>3. loc' = [loc EXCEPT ![p] =
            [[Recorded(p) EXCEPT !.status = "waiting"] EXCEPT !.pending = asked]]
      BY <2>7 DEF EmitToolCalledForApproval, Emit
    <3>q. QED BY <1>1, <3>2, <3>3
  <2>8. CASE EmitApprovalRequested(p)
    BY <1>1, <2>8, UpdateTyped DEF EmitApprovalRequested, Emit
  <2>9. CASE Execute(p)
    BY <1>1, <2>9 DEF Execute
  <2>10. CASE EmitToolEnd(p)
    <3>1. PICK s \in Statuses :
            loc' = [loc EXCEPT ![p] = [Recorded(p) EXCEPT !.status = s]]
      BY <2>10, StatusNames DEF EmitToolEnd, Emit, Terminal
    <3>2. [Recorded(p) EXCEPT !.status = s] \in Checkpoints
      BY <1>1, UpdateTyped
    <3>q. QED BY <1>1, <3>1, <3>2
  <2>11. CASE ProcessOutput(p)
    <3>1. loc' = loc \/ \E s \in Statuses : loc' = [loc EXCEPT ![p].status = s]
      BY <2>11, StatusNames DEF ProcessOutput, EndStep, Raise, Terminal
    <3>2. \A s \in Statuses : [loc[p] EXCEPT !.status = s] \in Checkpoints
      BY <1>1, UpdateTyped
    <3>q. QED BY <1>1, <3>1, <3>2
  <2>12. CASE Verify(p)
    <3>1. loc' = loc \/ \E s \in Statuses : loc' = [loc EXCEPT ![p].status = s]
      BY <2>12, StatusNames DEF Verify, EndStep, Raise, Terminal
    <3>2. \A s \in Statuses : [loc[p] EXCEPT !.status = s] \in Checkpoints
      BY <1>1, UpdateTyped
    <3>q. QED BY <1>1, <3>1, <3>2
  <2>13. CASE EmitVerificationFinished(p)
    <3>1. PICK s \in Statuses :
            loc' = [loc EXCEPT ![p] = [Recorded(p) EXCEPT !.status = s]]
      BY <2>13, StatusNames DEF EmitVerificationFinished, Emit, Terminal
    <3>2. [Recorded(p) EXCEPT !.status = s] \in Checkpoints
      BY <1>1, UpdateTyped
    <3>q. QED BY <1>1, <3>1, <3>2
  <2>14. CASE SettleStep(p)
    <3>1. AtBoundary(p) \in BOOLEAN
      BY DEF AtBoundary
    <3>2. [[loc[p] EXCEPT !.ready = AtBoundary(p)] EXCEPT !.rev = @ + 1]
            \in Checkpoints
      BY <1>1, <3>1, UpdateTyped
    <3>q. QED BY <1>1, <2>14, <3>2 DEF SettleStep, SaveAndGo
  <2>15. CASE ReturnWaiting(p)
    BY <1>1, <2>15, InitialTyped DEF ReturnWaiting, Leave
  <2>16. CASE EmitTerminalError(p)
    BY <1>1, <2>16, UpdateTyped DEF EmitTerminalError, Emit
  <2>17. CASE SaveInterrupted(p)
    BY <1>1, <2>17, InitialTyped DEF SaveInterrupted, Leave
  <2>18. CASE SkipBestEffort(p)
    <3>1. loc' = loc \/ \E s \in Statuses : loc' = [loc EXCEPT ![p].status = s]
      BY <2>18, StatusNames DEF SkipBestEffort, Raise, Terminal
    <3>2. \A s \in Statuses : [loc[p] EXCEPT !.status = s] \in Checkpoints
      BY <1>1, UpdateTyped
    <3>q. QED BY <1>1, <3>1, <3>2
  <2>q. QED BY <2>1, <2>2, <2>3, <2>4, <2>5, <2>6, <2>7, <2>8, <2>9, <2>10,
              <2>11, <2>12, <2>13, <2>14, <2>15, <2>16, <2>17, <2>18
           DEF StepAction

\* What the process has in memory stays a checkpoint.
LEMMA ApproverCopies ==
  ASSUME ProcessesOK, TypeSupport, NEW p \in Procs, ApproverAction(p)
  PROVE  loc' \in [Procs -> Checkpoints]
<1>1. /\ loc \in [Procs -> Checkpoints]
      /\ loc[p] \in Checkpoints
      /\ Recorded(p) \in Checkpoints
  BY RecordedTyped DEF ProcessesOK
<1>2. QED
  <2>1. CASE ValidateDecision(p)
    BY <1>1, <2>1 DEF ValidateDecision
  <2>2. CASE RefuseDecision(p)
    BY <1>1, <2>2, InitialTyped DEF RefuseDecision, Leave
  <2>3. CASE ClaimDecision(p)
    BY <1>1, <2>3, UpdateTyped DEF ClaimDecision, SaveAndGo
  <2>4. CASE EmitApprovalResolved(p)
    <3> DEFINE c == [Recorded(p) EXCEPT !.ready = TRUE]
               decided == [c.pending EXCEPT !.approved = act[p]]
    <3>1. c \in Checkpoints
      BY <1>1, UpdateTyped
    <3>2. act[p] \in Decisions
      BY <2>4 DEF EmitApprovalResolved, TypeSupport
    <3>3. decided \in Pendings
      BY <3>1, <3>2, FieldTyped DEF Pendings
    <3>4. [c EXCEPT !.pending = decided] \in Checkpoints
      BY <3>1, <3>3, UpdateTyped
    <3>5. loc' = [loc EXCEPT ![p] = [c EXCEPT !.pending = decided]]
      BY <1>1, <2>4 DEF EmitApprovalResolved, Emit, Checkpoints
    <3> HIDE DEF c, decided
    <3>q. QED BY <1>1, <3>4, <3>5
  <2>5. CASE SaveDecision(p)
    BY <1>1, <2>5, InitialTyped DEF SaveDecision, Leave
  <2>q. QED BY <2>1, <2>2, <2>3, <2>4, <2>5
           DEF ApproverAction

\* The control, the response in hand and the decided step keep their types.
LEMMA DriveControl ==
  ASSUME ProcessesOK, NEW p \in Procs, DriveAction(p)
  PROVE  /\ pc' \in [Procs -> Labels]
         /\ act' \in [Procs -> Acts]
         /\ want' \in [Procs -> 0..MaxSteps]
<1>1. pc' \in [Procs -> Labels]
  <2>1. \E label \in Labels : Goto(p, label)
    <3>1. CASE EmitRunStarted(p) \/ SaveStart(p) \/ RefuseResume(p) \/ ReturnUnchanged(p)
      BY <3>1 DEF EmitRunStarted, SaveStart, RefuseResume, ReturnUnchanged, SaveAndGo, Leave,
             Labels, InStep, Appends, Saves
    <3>2. CASE ContinueRun(p) \/ CompleteBookkeeping(p) \/ ClaimBookkeeping(p)
      BY <3>2 DEF ContinueRun, CompleteBookkeeping, ClaimBookkeeping, SaveAndGo, Labels, InStep,
             Appends, Saves
    <3>3. CASE EmitMissingFinished(p) \/ ClaimStep(p) \/ EmitRunFinished(p) \/ SaveFinished(p)
      BY <3>3 DEF EmitMissingFinished, ClaimStep, EmitRunFinished, SaveFinished, SaveAndGo, Leave,
             Labels, InStep, Appends, Saves
    <3> QED BY <3>1, <3>2, <3>3 DEF DriveAction
  <2> QED BY <2>1 DEF Goto, ProcessesOK
<1>2. act' \in [Procs -> Acts]
  BY DEF DriveAction, EmitRunStarted, SaveStart, RefuseResume, ReturnUnchanged,
         ContinueRun, CompleteBookkeeping, ClaimBookkeeping,
         EmitMissingFinished, ClaimStep, EmitRunFinished, SaveFinished, Leave,
         ProcessesOK, Acts
<1>3. want' \in [Procs -> 0..MaxSteps]
  BY InitialTyped DEF DriveAction, EmitRunStarted, SaveStart, RefuseResume,
         ReturnUnchanged, ContinueRun, CompleteBookkeeping, ClaimBookkeeping,
         EmitMissingFinished, ClaimStep, EmitRunFinished, SaveFinished, Emit,
         SaveAndGo, Leave, ProcessesOK
<1>q. QED BY <1>1, <1>2, <1>3

\* The stores keep their types.
LEMMA DriveStores ==
  ASSUME StoresOK, ProcessesOK, NEW p \in Procs, DriveAction(p)
  PROVE  StoresOK'
<1>1. /\ cp \in Checkpoints
      /\ loc[p] \in Checkpoints
      /\ trace \in Seq(Events)
      /\ act[p] \in Acts
  BY DEF StoresOK, ProcessesOK
<1>3. cp' \in Checkpoints
  <2>1. \/ cp' = cp
        \/ cp' = [loc[p] EXCEPT !.rev = @ + 1]
        \/ \E b \in BOOLEAN :
             cp' = [[loc[p] EXCEPT !.ready = b] EXCEPT !.rev = @ + 1]
    BY DEF DriveAction, EmitRunStarted, SaveStart, RefuseResume,
           ReturnUnchanged, ContinueRun, CompleteBookkeeping, ClaimBookkeeping,
           EmitMissingFinished, ClaimStep, EmitRunFinished, SaveFinished, Emit,
           SaveAndGo, Store, stores
  <2>q. QED BY <1>1, <2>1, UpdateTyped
<1>4. trace' \in Seq(Events)
  <2>1. \/ trace' = trace
        \/ \E type \in EventTypes, n \in 0..MaxSteps,
              val \in Acts \cup Statuses \cup {""} :
             trace' = Append(trace,
                        [type |-> type, by |-> p, step |-> n, val |-> val])
    BY <1>1, FieldTyped, InitialTyped DEF DriveAction, EmitRunStarted,
           SaveStart, RefuseResume, ReturnUnchanged, ContinueRun,
           CompleteBookkeeping, ClaimBookkeeping, EmitMissingFinished,
           ClaimStep, EmitRunFinished, SaveFinished, Emit, SaveAndGo, Store,
           stores, EventTypes
  <2>q. QED BY <1>1, <2>1, AppendTyped
<1>5. torn' \in BOOLEAN /\ begun' \in BOOLEAN
  BY DEF DriveAction, EmitRunStarted, SaveStart, RefuseResume, ReturnUnchanged,
         ContinueRun, CompleteBookkeeping, ClaimBookkeeping,
         EmitMissingFinished, ClaimStep, EmitRunFinished, SaveFinished, Emit,
         SaveAndGo, Store, stores, StoresOK
<1>q. QED BY <1>3, <1>4, <1>5 DEF StoresOK

\* The history keeps its types.
LEMMA DriveHistory ==
  ASSUME HistoryOK, ProcessesOK, NEW p \in Procs, DriveAction(p)
  PROVE  HistoryOK'
  BY DEF DriveAction, EmitRunStarted, SaveStart, RefuseResume, ReturnUnchanged,
         ContinueRun, CompleteBookkeeping, ClaimBookkeeping,
         EmitMissingFinished, ClaimStep, EmitRunFinished, SaveFinished, Emit,
         SaveAndGo, history, HistoryOK

\* The control, the response in hand and the decided step keep their types.
LEMMA StepControl ==
  ASSUME ProcessesOK, NEW p \in Procs, StepAction(p)
  PROVE  /\ pc' \in [Procs -> Labels]
         /\ act' \in [Procs -> Acts]
         /\ want' \in [Procs -> 0..MaxSteps]
<1>1. pc' \in [Procs -> Labels]
  <2>1. ASSUME NEW l \in Labels, Goto(p, l) PROVE pc' \in [Procs -> Labels]
    BY <2>1 DEF Goto, ProcessesOK
  <2>2. CASE TakeUpDecision(p) \/ CheckBudgets(p) \/ EmitModelRequested(p) \/ CallModel(p)
    BY <2>1, <2>2 DEF TakeUpDecision, CheckBudgets, EmitModelRequested, CallModel,
           EndStep, Raise, Labels, InStep
  <2>3. CASE EmitModelResponded(p) \/ EmitToolCalled(p) \/ EmitToolCalledForApproval(p)
             \/ EmitApprovalRequested(p) \/ Execute(p)
    BY <2>1, <2>3 DEF EmitModelResponded, EmitToolCalled, EmitToolCalledForApproval,
           EmitApprovalRequested, Execute, EndStep, Raise, Labels, InStep
  <2>4. CASE EmitToolEnd(p) \/ ProcessOutput(p) \/ Verify(p) \/ EmitVerificationFinished(p)
    BY <2>1, <2>4 DEF EmitToolEnd, ProcessOutput, Verify, EmitVerificationFinished,
           EndStep, Raise, Labels, InStep
  <2>5. CASE SettleStep(p) \/ ReturnWaiting(p) \/ EmitTerminalError(p)
             \/ SaveInterrupted(p) \/ SkipBestEffort(p)
    BY <2>1, <2>5 DEF SettleStep, ReturnWaiting, EmitTerminalError, SaveInterrupted,
           SkipBestEffort, SaveAndGo, Leave, EndStep, Raise, Labels, InStep, Appends,
           Saves
  <2>q. QED BY <2>2, <2>3, <2>4, <2>5 DEF StepAction
<1>2. act' \in [Procs -> Acts]
  BY DEF StepAction, TakeUpDecision, CheckBudgets, EmitModelRequested,
         CallModel, EmitModelResponded, EmitToolCalled,
         EmitToolCalledForApproval, EmitApprovalRequested, Execute,
         EmitToolEnd, ProcessOutput, Verify, EmitVerificationFinished,
         SettleStep, ReturnWaiting, EmitTerminalError, SaveInterrupted,
         SkipBestEffort, Leave, EndStep, Raise, ProcessesOK, Acts, Responses,
         Outcomes
<1>3. want' \in [Procs -> 0..MaxSteps]
  BY InitialTyped DEF StepAction, TakeUpDecision, CheckBudgets,
         EmitModelRequested, CallModel, EmitModelResponded, EmitToolCalled,
         EmitToolCalledForApproval, EmitApprovalRequested, Execute,
         EmitToolEnd, ProcessOutput, Verify, EmitVerificationFinished,
         SettleStep, ReturnWaiting, EmitTerminalError, SaveInterrupted,
         SkipBestEffort, Emit, SaveAndGo, Leave, ProcessesOK
<1>q. QED BY <1>1, <1>2, <1>3

\* The stores keep their types.
LEMMA StepStores ==
  ASSUME StoresOK, ProcessesOK, TypeSupport, NEW p \in Procs, StepAction(p)
  PROVE  StoresOK'
<1>1. /\ cp \in Checkpoints
      /\ loc[p] \in Checkpoints
      /\ trace \in Seq(Events)
      /\ act[p] \in Acts
  BY DEF StoresOK, ProcessesOK
<1>2. AtBoundary(p) \in BOOLEAN
  BY DEF AtBoundary
<1>3. cp' \in Checkpoints
  <2>1. \/ cp' = cp
        \/ cp' = [loc[p] EXCEPT !.rev = @ + 1]
        \/ \E b \in BOOLEAN :
             cp' = [[loc[p] EXCEPT !.ready = b] EXCEPT !.rev = @ + 1]
    <3>1. CASE TakeUpDecision(p) \/ CheckBudgets(p) \/ EmitModelRequested(p)
               \/ CallModel(p) \/ EmitModelResponded(p) \/ EmitToolCalled(p)
               \/ EmitToolCalledForApproval(p) \/ EmitApprovalRequested(p)
      BY <3>1 DEF TakeUpDecision, CheckBudgets, EmitModelRequested, CallModel,
             EmitModelResponded, EmitToolCalled, EmitToolCalledForApproval,
             EmitApprovalRequested, Emit, stores
    <3>2. CASE Execute(p) \/ EmitToolEnd(p) \/ ProcessOutput(p) \/ Verify(p)
               \/ EmitVerificationFinished(p) \/ EmitTerminalError(p)
               \/ SkipBestEffort(p)
      BY <3>2 DEF Execute, EmitToolEnd, ProcessOutput, Verify,
             EmitVerificationFinished, EmitTerminalError, SkipBestEffort, Emit,
             stores
    <3>3. CASE SettleStep(p) \/ ReturnWaiting(p) \/ SaveInterrupted(p)
      BY <1>2, <3>3 DEF SettleStep, ReturnWaiting, SaveInterrupted, SaveAndGo,
             Store, stores
    <3>q. QED BY <3>1, <3>2, <3>3 DEF StepAction
  <2>q. QED BY <1>1, <2>1, UpdateTyped
<1>4. trace' \in Seq(Events)
  <2>1. \/ trace' = trace
        \/ \E type \in EventTypes, n \in 0..MaxSteps,
              val \in Acts \cup Statuses \cup {""} :
             trace' = Append(trace,
                        [type |-> type, by |-> p, step |-> n, val |-> val])
    <3>1. ASSUME EmitModelRequested(p)
          PROVE  loc[p].steps + 1 \in 0..MaxSteps
      <4>1. loc[p].steps < MaxSteps
        BY <3>1 DEF EmitModelRequested, TypeSupport
      <4>q. QED
        BY <1>1, <4>1, FieldTyped, LifecycleAssumption DEF LifecycleAssumption
    <3>2. CASE EmitModelRequested(p)
      BY <1>1, <3>2, FieldTyped, <3>1 DEF EmitModelRequested, Emit, EventTypes
    <3>3. CASE EmitModelResponded(p)
      BY <1>1, <3>3, FieldTyped DEF EmitModelResponded, Emit, EventTypes
    <3>4. CASE EmitToolCalled(p)
      BY <1>1, <3>4, FieldTyped DEF EmitToolCalled, Emit, EventTypes
    <3>5. CASE EmitToolCalledForApproval(p)
      BY <1>1, <3>5, FieldTyped DEF EmitToolCalledForApproval, Emit, EventTypes
    <3>6. CASE EmitApprovalRequested(p)
      BY <1>1, <3>6, FieldTyped DEF EmitApprovalRequested, Emit, EventTypes
    <3>7. CASE EmitToolEnd(p)
      BY <1>1, <3>7, FieldTyped DEF EmitToolEnd, Emit, EventTypes
    <3>8. CASE EmitVerificationFinished(p)
      BY <1>1, <3>8, FieldTyped DEF EmitVerificationFinished, Emit, EventTypes
    <3>9. CASE EmitTerminalError(p)
      BY <1>1, <3>9, FieldTyped DEF EmitTerminalError, Emit, EventTypes
    <3>10. CASE trace' = trace
      BY <3>10
    <3>q. QED
      BY <3>2, <3>3, <3>4, <3>5, <3>6, <3>7, <3>8, <3>9, <3>10 DEF StepAction,
             TakeUpDecision, CheckBudgets, CallModel, Execute, ProcessOutput,
             Verify, SettleStep, ReturnWaiting, SaveInterrupted,
             SkipBestEffort, SaveAndGo, Store, stores
  <2>q. QED BY <1>1, <2>1, AppendTyped
<1>5. torn' \in BOOLEAN /\ begun' \in BOOLEAN
  BY DEF StepAction, TakeUpDecision, CheckBudgets, EmitModelRequested,
         CallModel, EmitModelResponded, EmitToolCalled,
         EmitToolCalledForApproval, EmitApprovalRequested, Execute,
         EmitToolEnd, ProcessOutput, Verify, EmitVerificationFinished,
         SettleStep, ReturnWaiting, EmitTerminalError, SaveInterrupted,
         SkipBestEffort, Emit, SaveAndGo, Store, stores, StoresOK
<1>q. QED BY <1>3, <1>4, <1>5 DEF StoresOK

\* The history keeps its types.
LEMMA StepHistory ==
  ASSUME HistoryOK, ProcessesOK, NEW p \in Procs, StepAction(p)
  PROVE  HistoryOK'
<1>1. \/ calls' = calls
      \/ calls' = [calls EXCEPT ![loc[p].steps] = @ + 1]
  BY DEF StepAction, TakeUpDecision, CheckBudgets, EmitModelRequested,
         CallModel, EmitModelResponded, EmitToolCalled,
         EmitToolCalledForApproval, EmitApprovalRequested, Execute,
         EmitToolEnd, ProcessOutput, Verify, EmitVerificationFinished,
         SettleStep, ReturnWaiting, EmitTerminalError, SaveInterrupted,
         SkipBestEffort, Emit, SaveAndGo, history
<1>2. \/ effects' = effects
      \/ effects' = [effects EXCEPT ![loc[p].steps] = @ + 1]
  BY DEF StepAction, TakeUpDecision, CheckBudgets, EmitModelRequested,
         CallModel, EmitModelResponded, EmitToolCalled,
         EmitToolCalledForApproval, EmitApprovalRequested, Execute,
         EmitToolEnd, ProcessOutput, Verify, EmitVerificationFinished,
         SettleStep, ReturnWaiting, EmitTerminalError, SaveInterrupted,
         SkipBestEffort, Emit, SaveAndGo, history
<1>3. given' = given /\ acks' = acks
  BY DEF StepAction, TakeUpDecision, CheckBudgets, EmitModelRequested,
         CallModel, EmitModelResponded, EmitToolCalled,
         EmitToolCalledForApproval, EmitApprovalRequested, Execute,
         EmitToolEnd, ProcessOutput, Verify, EmitVerificationFinished,
         SettleStep, ReturnWaiting, EmitTerminalError, SaveInterrupted,
         SkipBestEffort, Emit, SaveAndGo, history
<1>4. calls' \in [Steps -> Nat] /\ effects' \in [Steps -> Nat]
  BY <1>1, <1>2 DEF HistoryOK
<1>q. QED BY <1>3, <1>4 DEF HistoryOK

\* The control, the response in hand and the decided step keep their types.
LEMMA ApproverControl ==
  ASSUME ProcessesOK, NEW p \in Procs, ApproverAction(p)
  PROVE  /\ pc' \in [Procs -> Labels]
         /\ act' \in [Procs -> Acts]
         /\ want' \in [Procs -> 0..MaxSteps]
<1>1. pc' \in [Procs -> Labels]
  BY DEF ApproverAction, ValidateDecision, RefuseDecision, ClaimDecision,
         EmitApprovalResolved, SaveDecision, Emit, SaveAndGo, Leave, Goto,
         ProcessesOK, Labels, InStep, Appends, Saves
<1>2. act' \in [Procs -> Acts]
  BY DEF ApproverAction, ValidateDecision, RefuseDecision, ClaimDecision,
         EmitApprovalResolved, SaveDecision, Leave, ProcessesOK, Acts
<1>3. want' \in [Procs -> 0..MaxSteps]
  BY InitialTyped DEF ApproverAction, ValidateDecision, RefuseDecision,
         ClaimDecision, EmitApprovalResolved, SaveDecision, Emit, SaveAndGo,
         Leave, ProcessesOK
<1>q. QED BY <1>1, <1>2, <1>3

\* The stores keep their types.
LEMMA ApproverStores ==
  ASSUME StoresOK, ProcessesOK, NEW p \in Procs, ApproverAction(p)
  PROVE  StoresOK'
<1>1. /\ cp \in Checkpoints
      /\ loc[p] \in Checkpoints
      /\ trace \in Seq(Events)
      /\ act[p] \in Acts
  BY DEF StoresOK, ProcessesOK
<1>3. cp' \in Checkpoints
  <2>1. \/ cp' = cp
        \/ cp' = [loc[p] EXCEPT !.rev = @ + 1]
        \/ \E b \in BOOLEAN :
             cp' = [[loc[p] EXCEPT !.ready = b] EXCEPT !.rev = @ + 1]
    BY DEF ApproverAction, ValidateDecision, RefuseDecision, ClaimDecision,
           EmitApprovalResolved, SaveDecision, Emit, SaveAndGo, Store, stores
  <2>q. QED BY <1>1, <2>1, UpdateTyped
<1>4. trace' \in Seq(Events)
  <2>1. \/ trace' = trace
        \/ \E type \in EventTypes, n \in 0..MaxSteps,
              val \in Acts \cup Statuses \cup {""} :
             trace' = Append(trace,
                        [type |-> type, by |-> p, step |-> n, val |-> val])
    BY <1>1, FieldTyped, InitialTyped DEF ApproverAction, ValidateDecision,
           RefuseDecision, ClaimDecision, EmitApprovalResolved, SaveDecision,
           Emit, SaveAndGo, Store, stores, EventTypes
  <2>q. QED BY <1>1, <2>1, AppendTyped
<1>5. torn' \in BOOLEAN /\ begun' \in BOOLEAN
  BY DEF ApproverAction, ValidateDecision, RefuseDecision, ClaimDecision,
         EmitApprovalResolved, SaveDecision, Emit, SaveAndGo, Store, stores,
         StoresOK
<1>q. QED BY <1>3, <1>4, <1>5 DEF StoresOK

\* The history keeps its types.
LEMMA ApproverHistory ==
  ASSUME HistoryOK, ProcessesOK, TypeSupport, NEW p \in Approvers, ApproverAction(p)
  PROVE  HistoryOK'
<1>1. calls' = calls /\ effects' = effects /\ given' = given
  BY DEF ApproverAction, ValidateDecision, RefuseDecision, ClaimDecision,
         EmitApprovalResolved, SaveDecision, Emit, SaveAndGo, history
<1>2. CASE SaveDecision(p)
  <2>1. loc[p].pending.step \in 0..MaxSteps /\ act[p] \in Decisions
    BY <1>2, FieldTyped DEF SaveDecision, ProcessesOK, TypeSupport, Procs
  <2>q. QED BY <1>1, <1>2, <2>1 DEF SaveDecision, HistoryOK
<1>3. CASE ~SaveDecision(p)
  <2>1. acks' = acks
    BY <1>3 DEF ApproverAction, ValidateDecision, RefuseDecision,
           ClaimDecision, EmitApprovalResolved, Emit, SaveAndGo, history
  <2>q. QED BY <1>1, <2>1 DEF HistoryOK
<1>q. QED BY <1>2, <1>3

\* A process that stops, even within an append, keeps the types.
LEMMA FailureTypes ==
  ASSUME TypeOK, NEW p \in Procs,
         StoreRefuses(p) \/ Stop(p) \/ StopDuringAppend(p)
  PROVE  TypeOK'
<1>1. /\ Leave(p)
      /\ UNCHANGED <<cp, trace, begun, history>>
      /\ torn' \in BOOLEAN
  BY DEF StoreRefuses, Stop, StopDuringAppend, stores, TypeOK, StoresOK
<1>2. "idle" \in Labels /\ "none" \in Acts
  BY DEF Labels, Acts
<1>3. ProcessesOK'
  BY <1>1, <1>2, InitialTyped DEF Leave, Goto, TypeOK, ProcessesOK
<1>4. StoresOK' /\ HistoryOK'
  BY <1>1 DEF TypeOK, StoresOK, HistoryOK, history
<1>q. QED BY <1>3, <1>4 DEF TypeOK

\* Creating the run keeps the types.
LEMMA RunTypes ==
  ASSUME TypeOK, NEW p \in Procs, Run(p)
  PROVE  TypeOK'
<1>1. [NoCheckpoint EXCEPT !.ready = TRUE] \in Checkpoints
  BY InitialTyped, UpdateTyped
<1>2. ProcessesOK'
  BY <1>1 DEF Run, Goto, TypeOK, ProcessesOK, Labels, Appends
<1>3. StoresOK' /\ HistoryOK'
  BY DEF Run, TypeOK, StoresOK, HistoryOK, stores, history
<1>q. QED BY <1>2, <1>3 DEF TypeOK

\* Loading a checkpoint to resume keeps the types.
LEMMA ResumeTypes ==
  ASSUME TypeOK, NEW p \in Procs, Resume(p)
  PROVE  TypeOK'
<1>1. ProcessesOK'
  BY DEF Resume, Goto, TypeOK, ProcessesOK, StoresOK, Labels
<1>2. StoresOK' /\ HistoryOK'
  BY DEF Resume, TypeOK, StoresOK, HistoryOK, stores, history
<1>q. QED BY <1>1, <1>2 DEF TypeOK

\* Loading a checkpoint to decide keeps the types.
LEMMA DecideTypes ==
  ASSUME TypeOK, NEW p \in Procs, NEW n \in Steps, NEW d \in Decisions,
         Decide(p, n, d)
  PROVE  TypeOK'
<1>1. n \in 0..MaxSteps
  BY LifecycleAssumption DEF LifecycleAssumption, Steps
<1>2. ProcessesOK'
  BY <1>1 DEF Decide, Goto, TypeOK, ProcessesOK, StoresOK, Labels, Acts
<1>3. StoresOK' /\ HistoryOK'
  BY DEF Decide, TypeOK, StoresOK, HistoryOK, stores
<1>q. QED BY <1>2, <1>3 DEF TypeOK

\* Every step keeps the types.
LEMMA TypeStep ==
  ASSUME TypeOK, TypeSupport, [Next]_vars
  PROVE  TypeOK'
<1>1. CASE UNCHANGED vars
  BY <1>1 DEF vars, stores, history, TypeOK, StoresOK, ProcessesOK, HistoryOK
<1>2. ASSUME NEW p \in Runtimes, Run(p) \/ Resume(p)
      PROVE  TypeOK'
  BY <1>2, RunTypes, ResumeTypes DEF Procs
<1>3. ASSUME NEW p \in Runtimes, DriveAction(p)
      PROVE  TypeOK'
  BY <1>3, DriveCopies, DriveControl, DriveStores, DriveHistory
  DEF Procs, TypeOK, ProcessesOK
<1>4. ASSUME NEW p \in Runtimes, StepAction(p)
      PROVE  TypeOK'
  BY <1>4, StepCopies, StepControl, StepStores, StepHistory
  DEF Procs, TypeOK, ProcessesOK
<1>5. ASSUME NEW a \in Approvers, NEW n \in Steps, NEW d \in Decisions,
             Decide(a, n, d)
      PROVE  TypeOK'
  BY <1>5, DecideTypes DEF Procs
<1>6. ASSUME NEW a \in Approvers, ApproverAction(a)
      PROVE  TypeOK'
  BY <1>6, ApproverCopies, ApproverControl, ApproverStores, ApproverHistory
  DEF Procs, TypeOK, ProcessesOK
<1>7. ASSUME NEW p \in Procs,
             StoreRefuses(p) \/ Stop(p) \/ StopDuringAppend(p)
      PROVE  TypeOK'
  BY <1>7, FailureTypes
<1>q. QED
  BY <1>1, <1>2, <1>3, <1>4, <1>5, <1>6, <1>7 DEF Next

-----------------------------------------------------------------------------
(* Kinds of steps                                                          *)

\* Nobody but p goes on.
Others(p) ==
  \A q \in Procs \ {p} : pc'[q] = pc[q] /\ loc'[q] = loc[q] /\ act'[q] = act[q]
                           /\ want'[q] = want[q]

\* p creates the run.
Begins(p) ==
  /\ Others(p)
  /\ ~begun
  /\ pc'[p] = "start"
  /\ loc'[p] = [NoCheckpoint EXCEPT !.ready = TRUE]
  /\ UNCHANGED <<cp, calls, effects>>
  /\ begun'

\* p loads a ready checkpoint.
Loads(p) ==
  /\ Others(p)
  /\ cp.ready
  /\ pc'[p] \in {"validate", "decide_validate"}
  /\ loc'[p] = cp
  /\ UNCHANGED <<cp, begun, calls, effects>>

\* p goes on without a save; only within a claim it calls the model or acts.
Works(p) ==
  /\ Others(p)
  /\ UNCHANGED <<cp, begun>>
  /\ pc[p] # "idle"
  /\ pc'[p] # "idle" =>
       /\ loc'[p].rev = loc[p].rev
       /\ pc'[p] \in Exclusive => pc[p] \in Exclusive
       /\ pc'[p] \in Starting <=> pc[p] \in Starting
       /\ pc'[p] \in Starting => loc'[p].ready = loc[p].ready
  /\ \/ UNCHANGED <<calls, effects>>
     \/ pc[p] \in Exclusive /\ pc'[p] \notin {"idle", "call"}

\* p saves its copy.  What it may do from here on needs an unready checkpoint.
Saving(p) ==
  /\ Others(p)
  /\ CanSave(p)
  /\ UNCHANGED <<begun, calls, effects>>
  /\ pc[p] \notin {"idle", "call"}
  /\ cp'.rev = cp.rev + 1
  /\ cp'.steps = loc[p].steps
  /\ cp'.pending = loc[p].pending
  /\ pc[p] \in Starting => cp'.ready = loc[p].ready
  /\ pc'[p] # "idle" =>
       /\ loc'[p] = cp'
       /\ pc'[p] \in Exclusive => ~cp'.ready
       /\ pc'[p] \notin Starting

\* No other process goes on.
LEMMA DriveOthers ==
  ASSUME ProcessesOK, NEW p \in Procs, DriveAction(p)
  PROVE  Others(p)
  BY DEF DriveAction, EmitRunStarted, SaveStart, RefuseResume, ReturnUnchanged,
         ContinueRun, CompleteBookkeeping, ClaimBookkeeping,
         EmitMissingFinished, ClaimStep, EmitRunFinished, SaveFinished, Emit,
         SaveAndGo, Leave, Goto, Others, ProcessesOK

\* Each of these actions works on, or saves.
LEMMA DriveKinds ==
  ASSUME ProcessesOK, NEW p \in Procs, DriveAction(p)
  PROVE  Works(p) \/ Saving(p)
<1>1. /\ pc \in [Procs -> Labels]
      /\ loc \in [Procs -> Checkpoints]
      /\ loc[p] \in Checkpoints
      /\ Others(p)
  BY DriveOthers DEF ProcessesOK
<1>2. QED
  <2>1. CASE EmitRunStarted(p)
    BY <1>1, <2>1 DEF EmitRunStarted, Emit, Recorded, history, Goto, Works,
           Exclusive, InStep, Starting, Checkpoints
  <2>2. CASE SaveStart(p)
    BY <1>1, <2>2 DEF SaveStart, SaveAndGo, Store, CanSave, Goto, history,
           Saving, Exclusive, InStep, Starting, Checkpoints
  <2>3. CASE RefuseResume(p)
    BY <1>1, <2>3 DEF RefuseResume, Leave, history, stores, Goto, Works,
           Exclusive, InStep, Starting, Checkpoints
  <2>4. CASE ReturnUnchanged(p)
    BY <1>1, <2>4 DEF ReturnUnchanged, Leave, history, stores, Goto, Works,
           Exclusive, InStep, Starting, Checkpoints
  <2>5. CASE ContinueRun(p)
    BY <1>1, <2>5 DEF ContinueRun, stores, history, Goto, Works, Exclusive,
           InStep, Starting, Checkpoints
  <2>6. CASE CompleteBookkeeping(p)
    BY <1>1, <2>6 DEF CompleteBookkeeping, stores, history, Goto, Works,
           Exclusive, InStep, Starting, Checkpoints
  <2>7. CASE ClaimBookkeeping(p)
    BY <1>1, <2>7 DEF ClaimBookkeeping, SaveAndGo, Store, CanSave, Goto,
           history, Saving, Exclusive, InStep, Starting, Checkpoints
  <2>8. CASE EmitMissingFinished(p)
    BY <1>1, <2>8 DEF EmitMissingFinished, Emit, Recorded, history, Goto,
           Works, Exclusive, InStep, Starting, Checkpoints
  <2>9. CASE ClaimStep(p)
    BY <1>1, <2>9 DEF ClaimStep, SaveAndGo, Store, CanSave, Goto, history,
           Saving, Exclusive, InStep, Starting, Checkpoints
  <2>10. CASE EmitRunFinished(p)
    BY <1>1, <2>10 DEF EmitRunFinished, Emit, Recorded, history, Goto, Works,
           Exclusive, InStep, Starting, Checkpoints
  <2>11. CASE SaveFinished(p)
    BY <1>1, <2>11 DEF SaveFinished, Store, CanSave, Leave, Goto, history,
           Saving, Starting, Checkpoints
  <2>q. QED BY <2>1, <2>2, <2>3, <2>4, <2>5, <2>6, <2>7, <2>8, <2>9, <2>10,
              <2>11
           DEF DriveAction

\* No other process goes on.
LEMMA StepOthers ==
  ASSUME ProcessesOK, NEW p \in Procs, StepAction(p)
  PROVE  Others(p)
<1> USE DEF Goto, Others, ProcessesOK
<1>1. CASE TakeUpDecision(p) \/ CheckBudgets(p) \/ EmitModelRequested(p) \/ CallModel(p)
  BY <1>1 DEF TakeUpDecision, CheckBudgets, EmitModelRequested, CallModel, Emit, EndStep, Raise
<1>2. CASE EmitModelResponded(p) \/ EmitToolCalled(p) \/ EmitToolCalledForApproval(p)
           \/ EmitApprovalRequested(p)
  BY <1>2 DEF EmitModelResponded, EmitToolCalled, EmitToolCalledForApproval,
         EmitApprovalRequested, Emit
<1>3. CASE Execute(p) \/ EmitToolEnd(p) \/ ProcessOutput(p) \/ Verify(p)
           \/ EmitVerificationFinished(p)
  BY <1>3 DEF Execute, EmitToolEnd, ProcessOutput, Verify, EmitVerificationFinished, Emit,
         EndStep, Raise
<1>4. CASE SettleStep(p) \/ SkipBestEffort(p)
  BY <1>4 DEF SettleStep, SkipBestEffort, SaveAndGo, Raise
<1>5. CASE ReturnWaiting(p) \/ SaveInterrupted(p)
  BY <1>5 DEF ReturnWaiting, SaveInterrupted, Leave
<1>6. CASE EmitTerminalError(p)
  BY <1>6 DEF EmitTerminalError, Emit
<1> QED BY <1>1, <1>2, <1>3, <1>4, <1>5, <1>6 DEF StepAction

\* Each of these actions works on, or saves.
LEMMA StepKinds ==
  ASSUME ProcessesOK, NEW p \in Procs, StepAction(p)
  PROVE  Works(p) \/ Saving(p)
<1>1. /\ pc \in [Procs -> Labels]
      /\ loc \in [Procs -> Checkpoints]
      /\ loc[p] \in Checkpoints
      /\ Others(p)
  BY StepOthers DEF ProcessesOK
<1>2. QED
  <2>1. CASE TakeUpDecision(p)
    BY <1>1, <2>1 DEF TakeUpDecision, stores, history, Goto, Works, Exclusive,
           InStep, Starting, Checkpoints
  <2>2. CASE CheckBudgets(p)
    BY <1>1, <2>2 DEF CheckBudgets, EndStep, Raise, stores, history, Goto,
           Works, Exclusive, InStep, Starting, Checkpoints
  <2>3. CASE EmitModelRequested(p)
    BY <1>1, <2>3 DEF EmitModelRequested, Emit, Recorded, history, Goto, Works,
           Exclusive, InStep, Starting, Checkpoints
  <2>4. CASE CallModel(p)
    BY <1>1, <2>4 DEF CallModel, EndStep, Raise, stores, history, Goto, Works,
           Exclusive, InStep, Starting, Checkpoints
  <2>5. CASE EmitModelResponded(p)
    BY <1>1, <2>5 DEF EmitModelResponded, Emit, Recorded, history, Goto, Works,
           Exclusive, InStep, Starting, Checkpoints
  <2>6. CASE EmitToolCalled(p)
    BY <1>1, <2>6 DEF EmitToolCalled, Emit, Recorded, history, Goto, Works,
           Exclusive, InStep, Starting, Checkpoints
  <2>7. CASE EmitToolCalledForApproval(p)
    BY <1>1, <2>7 DEF EmitToolCalledForApproval, Emit, Recorded, history, Goto,
           Works, Exclusive, InStep, Starting, Checkpoints
  <2>8. CASE EmitApprovalRequested(p)
    BY <1>1, <2>8 DEF EmitApprovalRequested, Emit, Recorded, history, Goto,
           Works, Exclusive, InStep, Starting, Checkpoints
  <2>9. CASE Execute(p)
    BY <1>1, <2>9 DEF Execute, stores, history, Goto, Works, Exclusive, InStep,
           Starting, Checkpoints
  <2>10. CASE EmitToolEnd(p)
    BY <1>1, <2>10 DEF EmitToolEnd, Emit, Recorded, history, Goto, Works,
           Exclusive, InStep, Starting, Checkpoints
  <2>11. CASE ProcessOutput(p)
    BY <1>1, <2>11 DEF ProcessOutput, EndStep, Raise, stores, history, Goto,
           Works, Exclusive, InStep, Starting, Checkpoints
  <2>12. CASE Verify(p)
    BY <1>1, <2>12 DEF Verify, EndStep, Raise, stores, history, Goto, Works,
           Exclusive, InStep, Starting, Checkpoints
  <2>13. CASE EmitVerificationFinished(p)
    BY <1>1, <2>13 DEF EmitVerificationFinished, Emit, Recorded, history, Goto,
           Works, Exclusive, InStep, Starting, Checkpoints
  <2>14. CASE SettleStep(p)
    BY <1>1, <2>14 DEF SettleStep, SaveAndGo, Store, CanSave, Goto, history,
           Saving, Exclusive, InStep, Starting, Checkpoints
  <2>15. CASE ReturnWaiting(p)
    BY <1>1, <2>15 DEF ReturnWaiting, Store, CanSave, Leave, Goto, history,
           Saving, Starting, Checkpoints
  <2>16. CASE EmitTerminalError(p)
    BY <1>1, <2>16 DEF EmitTerminalError, Emit, Recorded, history, Goto, Works,
           Exclusive, InStep, Starting, Checkpoints
  <2>17. CASE SaveInterrupted(p)
    BY <1>1, <2>17 DEF SaveInterrupted, Store, CanSave, Leave, Goto, history,
           Saving, Starting, Checkpoints
  <2>18. CASE SkipBestEffort(p)
    BY <1>1, <2>18 DEF SkipBestEffort, BestEffort, Raise, stores, history,
           Goto, Works, Exclusive, InStep, Starting, Checkpoints
  <2>q. QED BY <2>1, <2>2, <2>3, <2>4, <2>5, <2>6, <2>7, <2>8, <2>9, <2>10,
              <2>11, <2>12, <2>13, <2>14, <2>15, <2>16, <2>17, <2>18
           DEF StepAction

\* No other process goes on.
LEMMA ApproverOthers ==
  ASSUME ProcessesOK, NEW p \in Procs, ApproverAction(p)
  PROVE  Others(p)
  BY DEF ApproverAction, ValidateDecision, RefuseDecision, ClaimDecision,
         EmitApprovalResolved, SaveDecision, Emit, SaveAndGo, Leave, Goto,
         Others, ProcessesOK

\* Each of these actions works on, or saves.
LEMMA ApproverKinds ==
  ASSUME ProcessesOK, NEW p \in Procs, ApproverAction(p)
  PROVE  Works(p) \/ Saving(p)
<1>1. /\ pc \in [Procs -> Labels]
      /\ loc \in [Procs -> Checkpoints]
      /\ loc[p] \in Checkpoints
      /\ Others(p)
  BY ApproverOthers DEF ProcessesOK
<1>2. QED
  <2>1. CASE ValidateDecision(p)
    BY <1>1, <2>1 DEF ValidateDecision, stores, history, Goto, Works,
           Exclusive, InStep, Starting, Checkpoints
  <2>2. CASE RefuseDecision(p)
    BY <1>1, <2>2 DEF RefuseDecision, Leave, history, stores, Goto, Works,
           Exclusive, InStep, Starting, Checkpoints
  <2>3. CASE ClaimDecision(p)
    BY <1>1, <2>3 DEF ClaimDecision, SaveAndGo, Store, CanSave, Goto, history,
           Saving, Exclusive, InStep, Starting, Checkpoints
  <2>4. CASE EmitApprovalResolved(p)
    BY <1>1, <2>4 DEF EmitApprovalResolved, Emit, Recorded, history, Goto,
           Works, Exclusive, InStep, Starting, Checkpoints
  <2>5. CASE SaveDecision(p)
    BY <1>1, <2>5 DEF SaveDecision, Store, CanSave, Leave, Goto, history,
           Saving, Starting, Checkpoints
  <2>q. QED BY <2>1, <2>2, <2>3, <2>4, <2>5
           DEF ApproverAction

-----------------------------------------------------------------------------
(* What the counters tell                                                  *)

\* What the copy says stays true of what was called and done.
LEMMA DriveData ==
  ASSUME ProcessesOK, HistoryOK, TypeSupport,
         NEW p \in Procs, LocInv(p), DriveAction(p)
  PROVE  pc'[p] = "idle" \/ LocInv(p)'
<1>1. /\ pc \in [Procs -> Labels]
      /\ loc \in [Procs -> Checkpoints]
      /\ loc[p] \in Checkpoints
      /\ calls \in [Steps -> Nat]
      /\ effects \in [Steps -> Nat]
  BY DEF ProcessesOK, HistoryOK
<1>2. QED
  <2>1. CASE EmitRunStarted(p)
    BY <1>1, <2>1 DEF EmitRunStarted, Emit, Recorded, history, Goto, LocInv,
           Consistent, Asked, QuietAfter, Untouched, BeforeEffect, NonePending,
           InStep, Checkpoints
  <2>2. CASE SaveStart(p)
    BY <1>1, <2>2 DEF SaveStart, SaveAndGo, Store, history, Goto, LocInv,
           Consistent, Asked, QuietAfter, Untouched, BeforeEffect, NonePending,
           InStep, Checkpoints
  <2>3. CASE RefuseResume(p)
    BY <1>1, <2>3 DEF RefuseResume, Leave, Goto
  <2>4. CASE ReturnUnchanged(p)
    BY <1>1, <2>4 DEF ReturnUnchanged, Leave, Goto
  <2>5. CASE ContinueRun(p)
    BY <1>1, <2>5 DEF ContinueRun, history, stores, Goto, LocInv, Consistent,
           Asked, QuietAfter, Untouched, BeforeEffect, NonePending, InStep,
           Checkpoints
  <2>6. CASE CompleteBookkeeping(p)
    BY <1>1, <2>6 DEF CompleteBookkeeping, history, stores, Goto, LocInv,
           Consistent, Asked, QuietAfter, Untouched, BeforeEffect, NonePending,
           InStep, Checkpoints
  <2>7. CASE ClaimBookkeeping(p)
    BY <1>1, <2>7 DEF ClaimBookkeeping, SaveAndGo, Store, history, Goto,
           LocInv, Consistent, Asked, QuietAfter, Untouched, BeforeEffect,
           NonePending, InStep, Checkpoints
  <2>8. CASE EmitMissingFinished(p)
    BY <1>1, <2>8 DEF EmitMissingFinished, Emit, Recorded, history, Goto,
           LocInv, Consistent, Asked, QuietAfter, Untouched, BeforeEffect,
           NonePending, InStep, Checkpoints
  <2>9. CASE ClaimStep(p)
    BY <1>1, <2>9 DEF ClaimStep, SaveAndGo, Store, history, Goto, LocInv,
           Consistent, Asked, QuietAfter, Untouched, BeforeEffect, NonePending,
           InStep, Checkpoints
  <2>10. CASE EmitRunFinished(p)
    BY <1>1, <2>10 DEF EmitRunFinished, Emit, Recorded, history, Goto, LocInv,
           Consistent, Asked, QuietAfter, Untouched, BeforeEffect, NonePending,
           InStep, Checkpoints
  <2>11. CASE SaveFinished(p)
    BY <1>1, <2>11 DEF SaveFinished, Leave, Goto
  <2>q. QED BY <2>1, <2>2, <2>3, <2>4, <2>5, <2>6, <2>7, <2>8, <2>9, <2>10,
              <2>11
           DEF DriveAction

\* What the copy says stays true of what was called and done.
LEMMA StepData ==
  ASSUME ProcessesOK, HistoryOK, TypeSupport,
         NEW p \in Procs, LocInv(p), StepAction(p)
  PROVE  pc'[p] = "idle" \/ LocInv(p)'
<1>1. /\ pc \in [Procs -> Labels]
      /\ loc \in [Procs -> Checkpoints]
      /\ loc[p] \in Checkpoints
      /\ calls \in [Steps -> Nat]
      /\ effects \in [Steps -> Nat]
  BY DEF ProcessesOK, HistoryOK
<1>2. QED
  <2>1. CASE TakeUpDecision(p)
    <3>1. /\ loc'[p].steps = loc[p].steps /\ loc'[p].pending = NoPending
          /\ pc[p] = "step" /\ loc[p].pending # NoPending
          /\ pc'[p] \in {"exec", "toolend", "settle"}
          /\ calls' = calls /\ effects' = effects
      <4>1. \/ loc' = [loc EXCEPT ![p].pending = NoPending]
            \/ loc' = [loc EXCEPT ![p].pending = NoPending, ![p].status = "timeout"]
        BY <2>1 DEF TakeUpDecision
      <4>2. loc'[p].steps = loc[p].steps /\ loc'[p].pending = NoPending
        BY ONLY <1>1, <4>1, p \in Procs DEF Checkpoints
      <4> QED BY <1>1, <2>1, <4>2 DEF TakeUpDecision, history, Goto
    <3>2. Consistent(loc[p]) /\ Untouched(loc[p].steps)
      BY <3>1 DEF LocInv, Consistent
    <3>3. Consistent(loc[p])' /\ Untouched(loc[p].steps)'
      BY ONLY <3>1, <3>2 DEF Consistent, Asked, QuietAfter, Untouched
    <3> QED BY ONLY <3>1, <3>3 DEF LocInv
  <2>2. CASE CheckBudgets(p)
    <3>1. /\ loc'[p].steps = loc[p].steps
          /\ loc'[p].pending = loc[p].pending
          /\ calls' = calls /\ effects' = effects
          /\ pc[p] = "step" /\ loc[p].pending = NoPending
          /\ pc'[p] \in {"settle", "fail", "request"}
      BY <1>1, <2>2 DEF CheckBudgets, EndStep, Raise, Goto, history,
             Checkpoints
    <3>q. QED
      BY <1>1, <3>1 DEF LocInv, Consistent, Asked, QuietAfter, Untouched,
             BeforeEffect, NonePending, InStep
  <2>3. CASE EmitModelRequested(p)
    <3>1. /\ loc'[p].steps = loc[p].steps + 1
          /\ loc'[p].pending = loc[p].pending
          /\ calls' = calls /\ effects' = effects
          /\ pc[p] = "request" /\ pc'[p] = "call"
      BY <1>1, <2>3 DEF EmitModelRequested, Emit, Recorded, Goto, history,
             Checkpoints
    <3>2. loc[p].steps \in Nat /\ MaxSteps \in Nat /\ loc[p].steps < MaxSteps
      BY <1>1, <3>1, LifecycleAssumption
      DEF LifecycleAssumption, TypeSupport, Checkpoints
    <3>3. loc'[p].steps - 1 = loc[p].steps /\ loc'[p].steps \in Steps
      BY <3>1, <3>2 DEF Steps
    <3>q. QED
      BY <1>1, <3>1, <3>3 DEF LocInv, Consistent, Asked, QuietAfter, Untouched,
             BeforeEffect, NonePending, InStep
  <2>4. CASE CallModel(p)
    <3> DEFINE k == loc[p].steps
    <3>1. /\ loc'[p].steps = k /\ loc'[p].pending = loc[p].pending
          /\ pc[p] = "call" /\ pc'[p] \in {"respond", "settle", "fail"}
          /\ calls' = [calls EXCEPT ![k] = @ + 1] /\ effects' = effects
      BY <1>1, <2>4 DEF CallModel, EndStep, Raise, Goto, Checkpoints
    <3>2. /\ k \in Steps /\ Asked(k - 1) /\ QuietAfter(k - 1)
          /\ loc[p].pending = NoPending
      BY <3>1 DEF LocInv, NonePending, InStep
    <3> HIDE DEF k
    <3>3. k \in Nat /\ \A n \in Steps : n \in Nat
      BY <3>2, LifecycleAssumption DEF Steps, LifecycleAssumption
    <3>4. \A n \in Steps : calls'[n] = IF n <= k THEN 1 ELSE 0
      <4>1. calls'[k] = calls[k] + 1 /\ \A n \in Steps : n # k => calls'[n] = calls[n]
        BY <1>1, <3>1, <3>2
      <4>2. \A n \in Steps : n # k => (n <= k <=> n <= k - 1)
        BY ONLY <3>3
      <4>3. ~(k <= k - 1) /\ k <= k
        BY ONLY <3>3
      <4> QED BY ONLY <3>2, <4>1, <4>2, <4>3 DEF Asked
    <3>5. (\A n \in Steps : effects[n] <= 1 /\ (n > k => effects[n] = 0)) /\ effects[k] = 0
      BY ONLY <3>2, <3>3 DEF QuietAfter
    <3>6. Consistent(loc[p])' /\ Untouched(loc[p].steps)'
      BY ONLY <3>1, <3>2, <3>4, <3>5 DEF Consistent, Asked, QuietAfter, Untouched
    <3> QED BY ONLY <3>1, <3>2, <3>6 DEF LocInv
  <2>5. CASE EmitModelResponded(p)
    BY <1>1, <2>5 DEF EmitModelResponded, Emit, Recorded, history, Goto,
           LocInv, Consistent, Asked, QuietAfter, Untouched, BeforeEffect,
           NonePending, InStep, Checkpoints
  <2>6. CASE EmitToolCalled(p)
    BY <1>1, <2>6 DEF EmitToolCalled, Emit, Recorded, history, Goto, LocInv,
           Consistent, Asked, QuietAfter, Untouched, BeforeEffect, NonePending,
           InStep, Checkpoints
  <2>7. CASE EmitToolCalledForApproval(p)
    BY <1>1, <2>7 DEF EmitToolCalledForApproval, Emit, Recorded, history,
           Pendings, NoPending, Goto, LocInv, Consistent, Asked, QuietAfter,
           Untouched, BeforeEffect, NonePending, InStep, Checkpoints
  <2>8. CASE EmitApprovalRequested(p)
    BY <1>1, <2>8 DEF EmitApprovalRequested, Emit, Recorded, history, Goto,
           LocInv, Consistent, Asked, QuietAfter, Untouched, BeforeEffect,
           NonePending, InStep, Checkpoints
  <2>9. CASE Execute(p)
    <3> DEFINE k == loc[p].steps
    <3>1. /\ loc' = loc /\ calls' = calls /\ effects' = [effects EXCEPT ![k] = @ + 1]
          /\ pc[p] = "exec" /\ pc'[p] = "toolend"
      BY <1>1, <2>9 DEF Execute, Goto
    <3>2. /\ Asked(k) /\ QuietAfter(k) /\ Untouched(k) /\ loc[p].pending = NoPending
      BY <3>1 DEF LocInv, Consistent, BeforeEffect, NonePending, InStep
    <3> HIDE DEF k
    <3>3. \A n \in Steps : effects'[n] <= 1 /\ (n > k => effects'[n] = 0)
      <4>1. k \in Steps /\ ~(k > k)
        BY <3>2, LifecycleAssumption DEF Untouched, Steps, LifecycleAssumption
      <4>2. effects'[k] = effects[k] + 1 /\ \A n \in Steps : n # k => effects'[n] = effects[n]
        BY <1>1, <3>1, <4>1
      <4> QED BY ONLY <3>2, <4>1, <4>2 DEF QuietAfter, Untouched
    <3>4. Consistent(loc[p])' /\ loc'[p].pending = NoPending
      <4>1. loc'[p].steps = k
        BY <3>1 DEF k
      <4> QED BY ONLY <3>1, <3>2, <3>3, <4>1 DEF Consistent, Asked, QuietAfter
    <3> QED BY ONLY <3>1, <3>4 DEF LocInv, BeforeEffect
  <2>10. CASE EmitToolEnd(p)
    BY <1>1, <2>10 DEF EmitToolEnd, Emit, Recorded, history, Goto, LocInv,
           Consistent, Asked, QuietAfter, Untouched, BeforeEffect, NonePending,
           InStep, Checkpoints
  <2>11. CASE ProcessOutput(p)
    BY <1>1, <2>11 DEF ProcessOutput, EndStep, Raise, history, stores, Goto,
           LocInv, Consistent, Asked, QuietAfter, Untouched, BeforeEffect,
           NonePending, InStep, Checkpoints
  <2>12. CASE Verify(p)
    <3>1. /\ loc'[p].steps = loc[p].steps
          /\ loc'[p].pending = loc[p].pending
          /\ calls' = calls
          /\ effects' = [effects EXCEPT ![loc[p].steps] = @ + 1]
          /\ pc[p] = "verify" /\ pc'[p] \in {"settle", "verified", "toolend", "fail"}
      BY <1>1, <2>12 DEF Verify, EndStep, Raise, Goto, Checkpoints
    <3>2. /\ Consistent(loc[p])
          /\ Untouched(loc[p].steps)
          /\ loc[p].pending = NoPending
      BY <3>1 DEF LocInv, BeforeEffect, NonePending, InStep
    <3>q. QED
      BY <1>1, <3>1, <3>2 DEF LocInv, Consistent, Asked, QuietAfter, Untouched,
             Steps, BeforeEffect, NonePending, InStep
  <2>13. CASE EmitVerificationFinished(p)
    BY <1>1, <2>13 DEF EmitVerificationFinished, Emit, Recorded, history, Goto,
           LocInv, Consistent, Asked, QuietAfter, Untouched, BeforeEffect,
           NonePending, InStep, Checkpoints
  <2>14. CASE SettleStep(p)
    BY <1>1, <2>14 DEF SettleStep, SaveAndGo, Store, history, Goto, LocInv,
           Consistent, Asked, QuietAfter, Untouched, BeforeEffect, NonePending,
           InStep, Checkpoints
  <2>15. CASE ReturnWaiting(p)
    BY <1>1, <2>15 DEF ReturnWaiting, Leave, Goto
  <2>16. CASE EmitTerminalError(p)
    BY <1>1, <2>16 DEF EmitTerminalError, Emit, Recorded, history, Goto,
           LocInv, Consistent, Asked, QuietAfter, Untouched, BeforeEffect,
           NonePending, InStep, Checkpoints
  <2>17. CASE SaveInterrupted(p)
    BY <1>1, <2>17 DEF SaveInterrupted, Leave, Goto
  <2>18. CASE SkipBestEffort(p)
    <3>1. /\ loc'[p].steps = loc[p].steps
          /\ loc'[p].pending = loc[p].pending
          /\ calls' = calls /\ effects' = effects
          /\ pc[p] \in {"fail", "toolend"} /\ loc[p].pending = NoPending
          /\ pc'[p] \in {"fail_save", "fail"}
      BY <1>1, <2>18 DEF SkipBestEffort, BestEffort, Raise, Goto, history,
             LocInv, NonePending, InStep, Checkpoints
    <3>q. QED
      BY <1>1, <3>1 DEF LocInv, Consistent, Asked, QuietAfter, Untouched,
             BeforeEffect, NonePending, InStep
  <2>q. QED BY <2>1, <2>2, <2>3, <2>4, <2>5, <2>6, <2>7, <2>8, <2>9, <2>10,
              <2>11, <2>12, <2>13, <2>14, <2>15, <2>16, <2>17, <2>18
           DEF StepAction

\* What the copy says stays true of what was called and done.
LEMMA ApproverData ==
  ASSUME ProcessesOK, HistoryOK, TypeSupport,
         NEW p \in Procs, LocInv(p), ApproverAction(p)
  PROVE  pc'[p] = "idle" \/ LocInv(p)'
<1>1. /\ pc \in [Procs -> Labels]
      /\ loc \in [Procs -> Checkpoints]
      /\ loc[p] \in Checkpoints
      /\ calls \in [Steps -> Nat]
      /\ effects \in [Steps -> Nat]
  BY DEF ProcessesOK, HistoryOK
<1>2. QED
  <2>1. CASE ValidateDecision(p)
    BY <1>1, <2>1 DEF ValidateDecision, history, stores, Undecided,
           TypeSupport, NoPending, Steps, Goto, LocInv, Consistent, Asked,
           QuietAfter, Untouched, BeforeEffect, NonePending, InStep,
           Checkpoints
  <2>2. CASE RefuseDecision(p)
    BY <1>1, <2>2 DEF RefuseDecision, Leave, Goto
  <2>3. CASE ClaimDecision(p)
    BY <1>1, <2>3 DEF ClaimDecision, SaveAndGo, Store, history, Goto, LocInv,
           Consistent, Asked, QuietAfter, Untouched, BeforeEffect, NonePending,
           InStep, Checkpoints
  <2>4. CASE EmitApprovalResolved(p)
    BY <1>1, <2>4 DEF EmitApprovalResolved, Emit, Recorded, history, Pendings,
           NoPending, Goto, LocInv, Consistent, Asked, QuietAfter, Untouched,
           BeforeEffect, NonePending, InStep, Checkpoints
  <2>5. CASE SaveDecision(p)
    BY <1>1, <2>5 DEF SaveDecision, Leave, Goto
  <2>q. QED BY <2>1, <2>2, <2>3, <2>4, <2>5
           DEF ApproverAction

\* The process that goes on keeps what its copy says.
Keeps(p) == LocInv(p) => pc'[p] = "idle" \/ LocInv(p)'

\* Every step is a stutter or of one of the four kinds.
LEMMA Kinds ==
  ASSUME TypeOK, TypeSupport, [Next]_vars
  PROVE  \/ UNCHANGED vars
         \/ \E p \in Procs : \/ Begins(p) \/ Loads(p)
                             \/ (Works(p) \/ Saving(p)) /\ Keeps(p)
<1>1. ASSUME NEW p \in Procs, Run(p)
      PROVE  Begins(p)
  BY <1>1 DEF Run, Begins, Others, Goto, stores, history, TypeOK, ProcessesOK
<1>2. ASSUME NEW p \in Procs, Resume(p)
      PROVE  Loads(p)
  BY <1>2 DEF Resume, Loads, Others, Goto, stores, history, TypeOK, ProcessesOK
<1>3. ASSUME NEW p \in Procs, NEW n \in Steps, NEW d \in Decisions,
             Decide(p, n, d)
      PROVE  Loads(p)
  BY <1>3 DEF Decide, Loads, Others, Goto, stores, TypeOK, ProcessesOK
<1>4. ASSUME NEW p \in Procs,
             StoreRefuses(p) \/ Stop(p) \/ StopDuringAppend(p)
      PROVE  Works(p) /\ Keeps(p)
  <2>1. Leave(p) /\ UNCHANGED <<cp, begun, calls, effects>>
    BY <1>4 DEF StoreRefuses, Stop, StopDuringAppend, stores, history
  <2>2. pc[p] # "idle"
    BY <1>4 DEF StoreRefuses, Stop, StopDuringAppend, Appends, Saves
  <2>q. QED
    BY <2>1, <2>2
    DEF Leave, Goto, Works, Keeps, Others, Starting, TypeOK, ProcessesOK
<1>5. ASSUME NEW p \in Procs,
             DriveAction(p) \/ StepAction(p) \/ ApproverAction(p)
      PROVE  (Works(p) \/ Saving(p)) /\ Keeps(p)
  BY <1>5, DriveKinds, StepKinds, ApproverKinds,
     DriveData, StepData, ApproverData
  DEF Keeps, TypeOK
<1>q. QED
  BY <1>1, <1>2, <1>3, <1>4, <1>5 DEF Next, Procs

\* A step of p keeps what the types need.
LEMMA SupportStep ==
  ASSUME TypeOK, TypeSupport, [Next]_vars
  PROVE  TypeSupport'
<1> DEFINE Fine(p) ==
             /\ pc[p] = "request" => loc[p].steps < MaxSteps
             /\ pc[p] = "decide_validate" => want[p] \in Steps
             /\ pc[p] \in {"decide_validate", "decide_claim", "resolve",
                           "decide_save"} => act[p] \in Decisions
<1>1. CASE UNCHANGED vars
  BY <1>1 DEF vars, TypeSupport
<1>2. ASSUME NEW p \in Procs, Others(p), Fine(p)'
      PROVE  TypeSupport'
  BY <1>2 DEF Others, TypeSupport
<1>3. /\ pc \in [Procs -> Labels]
      /\ loc \in [Procs -> Checkpoints]
      /\ act \in [Procs -> Acts]
      /\ want \in [Procs -> 0..MaxSteps]
  BY DEF TypeOK, ProcessesOK
<1>4. ASSUME NEW p \in Runtimes, DriveAction(p)
      PROVE  TypeSupport'
  <2>1. p \in Procs /\ Fine(p)
    BY DEF Procs, TypeSupport
  <2>2. Fine(p)'
    BY <1>3, <2>1, <1>4 DEF DriveAction, EmitRunStarted, SaveStart,
           RefuseResume, ReturnUnchanged, ContinueRun, CompleteBookkeeping,
           ClaimBookkeeping, EmitMissingFinished, ClaimStep, EmitRunFinished,
           SaveFinished, Emit, SaveAndGo, Leave, Goto
  <2>q. QED BY <1>2, <1>4, <2>1, <2>2, DriveOthers DEF TypeOK
<1>5. ASSUME NEW p \in Runtimes, StepAction(p)
      PROVE  TypeSupport'
  <2>1. p \in Procs /\ Fine(p)
    BY DEF Procs, TypeSupport
  <2>2. Fine(p)'
    <3>1. pc'[p] \notin {"decide_validate", "decide_claim", "resolve", "decide_save"}
      BY <1>3, <2>1, <1>5 DEF StepAction, TakeUpDecision, CheckBudgets,
             EmitModelRequested, CallModel, EmitModelResponded, EmitToolCalled,
             EmitToolCalledForApproval, EmitApprovalRequested, Execute,
             EmitToolEnd, ProcessOutput, Verify, EmitVerificationFinished,
             SettleStep, ReturnWaiting, EmitTerminalError, SaveInterrupted,
             SkipBestEffort, Emit, SaveAndGo, Leave, EndStep, Raise, Goto
    <3>2. pc'[p] = "request" => loc'[p].steps < MaxSteps
      BY <1>3, <2>1, <1>5 DEF StepAction, TakeUpDecision, CheckBudgets,
             EmitModelRequested, CallModel, EmitModelResponded, EmitToolCalled,
             EmitToolCalledForApproval, EmitApprovalRequested, Execute,
             EmitToolEnd, ProcessOutput, Verify, EmitVerificationFinished,
             SettleStep, ReturnWaiting, EmitTerminalError, SaveInterrupted,
             SkipBestEffort, Emit, SaveAndGo, Leave, EndStep, Raise, Goto,
             WithinBudget
    <3>q. QED BY <3>1, <3>2
  <2>q. QED BY <1>2, <1>5, <2>1, <2>2, StepOthers DEF TypeOK
<1>6. ASSUME NEW p \in Approvers, ApproverAction(p)
      PROVE  TypeSupport'
  <2>1. p \in Procs /\ Fine(p)
    BY DEF Procs, TypeSupport
  <2>2. Fine(p)'
    BY <1>3, <2>1, <1>6 DEF ApproverAction, ValidateDecision, RefuseDecision,
           ClaimDecision, EmitApprovalResolved, SaveDecision, Emit, SaveAndGo,
           Leave, Goto
  <2>q. QED BY <1>2, <1>6, <2>1, <2>2, ApproverOthers DEF TypeOK
<1>7. ASSUME NEW p \in Runtimes, Run(p) \/ Resume(p)
      PROVE  TypeSupport'
  <2>1. p \in Procs
    BY DEF Procs
  <2>2. Others(p) /\ pc'[p] \in {"start", "validate"}
    BY <1>3, <1>7, <2>1 DEF Run, Resume, Goto, Others
  <2>q. QED BY <1>2, <2>1, <2>2
<1>8. ASSUME NEW p \in Approvers, NEW k \in Steps, NEW d \in Decisions,
             Decide(p, k, d)
      PROVE  TypeSupport'
  <2>1. p \in Procs
    BY DEF Procs
  <2>2. Others(p) /\ Fine(p)'
    BY <1>3, <1>8, <2>1 DEF Decide, Goto, Others
  <2>q. QED BY <1>2, <2>1, <2>2
<1>9. ASSUME NEW p \in Procs,
             StoreRefuses(p) \/ Stop(p) \/ StopDuringAppend(p)
      PROVE  TypeSupport'
  <2>1. Others(p) /\ pc'[p] = "idle"
    BY <1>3, <1>9
    DEF StoreRefuses, Stop, StopDuringAppend, Leave, Goto, Others
  <2>q. QED BY <1>2, <2>1
<1>q. QED
  BY <1>1, <1>4, <1>5, <1>6, <1>7, <1>8, <1>9 DEF Next

-----------------------------------------------------------------------------
(* Ownership                                                               *)

\* Every step keeps the ownership of the run.
LEMMA OwnershipStep ==
  ASSUME TypeOK, TypeOK', TypeSupport, OwnershipInv, [Next]_vars
  PROVE  OwnershipInv'
<1> USE DEF OwnershipInv
<1>1. /\ cp.rev \in Nat /\ cp'.rev \in Nat
      /\ \A p \in Procs : loc[p].rev \in Nat
  BY FieldTyped DEF TypeOK, StoresOK, ProcessesOK
<1>2. CASE UNCHANGED vars
  BY <1>2
  DEF vars, stores, history, RevInv, UniqueInv, OwnInv, FreshInv, Holder
<1>3. ASSUME NEW p \in Procs, Begins(p)
      PROVE  OwnershipInv'
  <2>1. /\ cp.rev = 0 /\ cp' = cp /\ ~cp.ready
        /\ loc'[p].rev = 0 /\ loc'[p].ready
        /\ pc'[p] = "start"
        /\ \A q \in Procs \ {p} : pc'[q] = "idle"
    BY <1>3 DEF Begins, Others, FreshInv, NoCheckpoint
  <2>2. begun'
    BY <1>3 DEF Begins
  <2>q. QED
    BY <2>1, <2>2
    DEF RevInv, UniqueInv, OwnInv, FreshInv, Holder, Starting, Exclusive, InStep
<1>4. ASSUME NEW p \in Procs, Loads(p)
      PROVE  OwnershipInv'
  <2>1. cp' = cp /\ cp.ready /\ loc'[p] = cp /\ cp.rev # 0 /\ begun /\ begun'
    BY <1>4 DEF Loads, FreshInv
  <2>2. pc'[p] \notin {"idle"} \cup Exclusive \cup Starting
    BY <1>4 DEF Loads, Starting, Exclusive, InStep
  <2>3. \A q \in Procs \ {p} : pc'[q] = pc[q] /\ loc'[q] = loc[q]
    BY <1>4 DEF Loads, Others
  <2>q. QED
    BY <1>1, <2>1, <2>2, <2>3
    DEF RevInv, UniqueInv, OwnInv, FreshInv, Holder
<1>5. ASSUME NEW p \in Procs, Works(p)
      PROVE  OwnershipInv'
  <2>1. cp' = cp /\ begun' /\ begun /\ pc[p] # "idle"
    BY <1>5 DEF Works, FreshInv
  <2>2. \A q \in Procs \ {p} : pc'[q] = pc[q] /\ loc'[q] = loc[q]
    BY <1>5 DEF Works, Others
  <2>3. RevInv' /\ UniqueInv'
    BY <1>5, <2>1, <2>2 DEF Works, RevInv, UniqueInv, Holder
  <2>4. OwnInv'
    BY <1>5, <2>1, <2>2 DEF Works, OwnInv, Holder, Exclusive, InStep
  <2>5. FreshInv'
    BY <1>5, <2>1, <2>2 DEF Works, FreshInv, Starting
  <2>q. QED BY <2>3, <2>4, <2>5
<1>6. ASSUME NEW p \in Procs, Saving(p)
      PROVE  OwnershipInv'
  <2>1. cp'.rev = cp.rev + 1 /\ begun' /\ Holder(p)
    BY <1>6 DEF Saving, FreshInv, Holder, CanSave
  <2>2. \A q \in Procs \ {p} : pc'[q] = pc[q] /\ loc'[q] = loc[q]
    BY <1>6 DEF Saving, Others
  \* Whoever else had the latest revision has it no more.
  <2>3. \A q \in Procs \ {p} : ~Holder(q)'
    BY <1>1, <2>1, <2>2 DEF RevInv, Holder
  <2>4. RevInv'
    BY <1>1, <1>6, <2>1, <2>2 DEF Saving, RevInv
  <2>5. UniqueInv'
    BY <2>3 DEF UniqueInv
  <2>6. OwnInv'
    <3>1. \A q \in Procs \ {p} : pc[q] \notin Exclusive
      BY <2>1 DEF OwnInv, UniqueInv
    <3>2. pc'[p] \in Exclusive => Holder(p)' /\ ~cp'.ready
      BY <1>6 DEF Saving, Holder, Exclusive, InStep
    <3>q. QED BY <2>2, <3>1, <3>2 DEF OwnInv
  <2>7. FreshInv'
    BY <1>1, <1>6, <2>1, <2>2 DEF Saving, FreshInv, Starting
  <2>q. QED BY <2>4, <2>5, <2>6, <2>7
<1>q. QED
  BY <1>2, <1>3, <1>4, <1>5, <1>6, Kinds

-----------------------------------------------------------------------------
(* The counters and the effects                                            *)

\* Without a call or an effect, and with the copy as it was, LocInv stands.
LEMMA LocInvFrame ==
  ASSUME NEW q \in Procs, LocInv(q), UNCHANGED <<calls, effects>>,
         pc'[q] = pc[q], loc'[q] = loc[q]
  PROVE  LocInv(q)'
  BY DEF LocInv, Consistent, Asked, QuietAfter, Untouched

\* Every step keeps what the counters tell, and replays nothing.
LEMMA DataStep ==
  ASSUME TypeOK, TypeOK', TypeSupport, OwnershipInv, DataInv, [Next]_vars
  PROVE  DataInv'
<1> USE DEF DataInv
<1>1. CASE UNCHANGED vars
  BY <1>1
  DEF vars, history, ReadyInv, HolderInv, NoReplay, Holder, LocInv, Consistent,
      Asked, QuietAfter, Untouched
<1>2. ASSUME NEW p \in Procs, Begins(p)
      PROVE  DataInv'
  <2>1. /\ ~cp'.ready
        /\ \A q \in Procs \ {p} : ~Holder(q)'
        /\ \A n \in Steps : calls'[n] = 0 /\ effects'[n] = 0
        /\ pc'[p] = "start"
        /\ loc'[p].steps = 0 /\ loc'[p].pending = NoPending
    BY <1>2
    DEF Begins, Others, OwnershipInv, FreshInv, Holder, NoCheckpoint
  <2>2. LocInv(p)'
    BY <2>1
    DEF LocInv, Consistent, Asked, QuietAfter, BeforeEffect, NonePending,
        InStep, Steps
  <2>q. QED BY <2>1, <2>2 DEF ReadyInv, HolderInv, NoReplay
<1>3. ASSUME NEW p \in Procs, Loads(p)
      PROVE  DataInv'
  <2>1. /\ UNCHANGED <<cp, calls, effects>>
        /\ loc'[p] = cp
        /\ pc'[p] \in {"validate", "decide_validate"}
        /\ Consistent(cp)
    BY <1>3 DEF Loads, ReadyInv
  <2>2. LocInv(p)'
    BY <2>1
    DEF LocInv, Consistent, Asked, QuietAfter, Untouched, BeforeEffect,
        NonePending, InStep
  <2>3. \A q \in Procs \ {p} : Holder(q)' => LocInv(q)'
    BY <1>3, <2>1, LocInvFrame DEF Loads, Others, HolderInv, Holder
  <2>4. ReadyInv' /\ NoReplay'
    BY <2>1
    DEF ReadyInv, NoReplay, Consistent, Asked, QuietAfter, Untouched
  <2>q. QED BY <2>2, <2>3, <2>4 DEF HolderInv
<1>4. ASSUME NEW p \in Procs, Works(p), Keeps(p)
      PROVE  DataInv'
  <2>1. Holder(p)' => LocInv(p)'
    BY <1>4 DEF Works, Keeps, HolderInv, Holder
  <2>2. CASE UNCHANGED <<calls, effects>>
    <3>1. \A q \in Procs \ {p} : Holder(q)' => LocInv(q)'
      BY <1>4, <2>2, LocInvFrame DEF Works, Others, HolderInv, Holder
    <3>2. ReadyInv' /\ NoReplay'
      BY <1>4, <2>2
      DEF Works, ReadyInv, NoReplay, Consistent, Asked, QuietAfter, Untouched
    <3>q. QED BY <2>1, <3>1, <3>2 DEF HolderInv
  <2>3. CASE pc[p] \in Exclusive /\ pc'[p] \notin {"idle", "call"}
    \* p is the only holder, and stays it.
    <3>1. /\ Holder(p) /\ Holder(p)'
          /\ ~cp'.ready
          /\ \A q \in Procs \ {p} : ~Holder(q)'
      BY <1>4, <2>3
      DEF Works, Others, OwnershipInv, OwnInv, UniqueInv, Holder
    <3>2. Consistent(loc[p])'
      BY <2>1, <2>3, <3>1 DEF LocInv
    <3>3. NoReplay'
      BY <3>2 DEF NoReplay, Consistent, Asked, QuietAfter
    <3>q. QED BY <2>1, <3>1, <3>3 DEF ReadyInv, HolderInv
  <2>q. QED BY <1>4, <2>2, <2>3 DEF Works
<1>5. ASSUME NEW p \in Procs, Saving(p), Keeps(p)
      PROVE  DataInv'
  <2>1. /\ Holder(p)
        /\ UNCHANGED <<calls, effects>>
        /\ cp'.rev = cp.rev + 1
        /\ cp'.steps = loc[p].steps /\ cp'.pending = loc[p].pending
    BY <1>5 DEF Saving, CanSave, Holder
  <2>2. cp.rev \in Nat /\ \A q \in Procs : loc[q].rev \in Nat
    BY FieldTyped DEF TypeOK, StoresOK, ProcessesOK
  <2>3. \A q \in Procs \ {p} : ~Holder(q)'
    BY <1>5, <2>1, <2>2 DEF Saving, Others, OwnershipInv, RevInv, Holder
  <2>4. LocInv(p) /\ Consistent(loc[p])
    BY <1>5, <2>1 DEF Saving, HolderInv, LocInv
  <2>5. ReadyInv' /\ NoReplay'
    BY <2>1, <2>4
    DEF ReadyInv, NoReplay, Consistent, Asked, QuietAfter, Untouched
  <2>6. Holder(p)' => LocInv(p)'
    BY <1>5, <2>4 DEF Keeps, Holder
  <2>q. QED BY <2>3, <2>5, <2>6 DEF HolderInv
<1>q. QED
  BY <1>1, <1>2, <1>3, <1>4, <1>5, Kinds

-----------------------------------------------------------------------------
(* Theorems                                                                *)

\* The invariant holds before the run is created.
LEMMA InitIInv == Init => IInv
<1> SUFFICES ASSUME Init
             PROVE  IInv
  OBVIOUS
<1> USE DEF Init
<1>1. "idle" \in Labels /\ "none" \in Acts
  BY DEF Labels, Acts
<1>2. TypeOK
  <2>1. StoresOK
    <3>1. <<>> \in Seq(Events)
      OBVIOUS
    <3>q. QED BY <3>1, InitialTyped DEF StoresOK
  <2>2. ProcessesOK
    BY <1>1, InitialTyped DEF ProcessesOK
  <2>3. HistoryOK
    BY DEF HistoryOK
  <2>q. QED BY <2>1, <2>2, <2>3 DEF TypeOK
<1>3. TypeSupport
  BY DEF TypeSupport
<1>4. OwnershipInv
  BY DEF OwnershipInv, RevInv, UniqueInv, OwnInv, FreshInv, Holder, Starting,
         Exclusive, InStep, NoCheckpoint
<1>5. DataInv
  BY DEF DataInv, ReadyInv, HolderInv, NoReplay, Holder, NoCheckpoint
<1>q. QED BY <1>2, <1>3, <1>4, <1>5 DEF IInv

\* Every step keeps the invariant.
LEMMA NextIInv == IInv /\ [Next]_vars => IInv'
<1> SUFFICES ASSUME IInv, [Next]_vars
             PROVE  IInv'
  OBVIOUS
<1>1. TypeOK'
  BY TypeStep DEF IInv
<1>2. TypeSupport'
  BY SupportStep DEF IInv
<1>3. OwnershipInv'
  BY <1>1, OwnershipStep DEF IInv
<1>4. DataInv'
  BY <1>1, DataStep DEF IInv
<1>q. QED BY <1>1, <1>2, <1>3, <1>4 DEF IInv

\* The inductive invariant holds in every reachable state.
THEOREM InductiveInvariant == Spec => []IInv
  BY InitIInv, NextIInv, PTL DEF Spec

\* Whatever processes die and however stores fail, the checkpoint, the trace
\* and every process's copy keep their types; so no step number ever exceeds
\* the step budget.
THEOREM TypeCorrect == Spec => []TypeOK
<1>1. IInv => TypeOK
  BY DEF IInv
<1>q. QED BY <1>1, InductiveInvariant, PTL

\* What Agent.step relies on before it calls the model or a tool: the
\* compare-and-swap on the revision lets no two processes be past a claim at
\* once, and what is claimed cannot be resumed.
THEOREM Exclusion == Spec => []SingleOwner
<1>1. IInv => SingleOwner
  BY DEF IInv, OwnershipInv, OwnInv, UniqueInv, SingleOwner
<1>q. QED BY <1>1, InductiveInvariant, PTL

\* However runs are resumed, approved and interrupted, no step's model call
\* and no step's effect is repeated.
THEOREM NeverRepeated == Spec => []NoReplay
<1>1. IInv => NoReplay
  BY DEF IInv, DataInv
<1>q. QED BY <1>1, InductiveInvariant, PTL

-----------------------------------------------------------------------------
(* The protocol implements ExclusiveSteps                                  *)

\* A save settles or claims the run, or leaves it as it was.
LEMMA SavingRefines ==
  ASSUME IInv, TypeOK', NEW p \in Procs, Saving(p)
  PROVE  [Abstract!Next]_(Abstract!vars)
<1>1. cp.rev \in Nat /\ cp'.rev = cp.rev + 1
  BY FieldTyped DEF Saving, IInv, TypeOK, StoresOK
<1>2. cp.rev = 0 => cp'.ready
  BY DEF Saving, IInv, OwnershipInv, FreshInv
<1>3. calls' = calls /\ effects' = effects
  BY DEF Saving
<1>q. QED
  BY <1>1, <1>2, <1>3
  DEF Abstract!Next, Abstract!vars, Abstract!Create, Abstract!Claim,
      Abstract!Settle, Abstract!Move, Phase

\* A process that calls the model or acts holds a claim, and its counters say
\* that the call or the effect is the first.
LEMMA StepRefines ==
  ASSUME IInv, TypeOK', NEW p \in Procs, StepAction(p), Works(p)
  PROVE  [Abstract!Next]_(Abstract!vars)
<1>1. cp' = cp
  BY DEF Works
<1>2. /\ loc[p].steps \in Nat
      /\ calls \in [Steps -> Nat]
      /\ effects \in [Steps -> Nat]
  BY FieldTyped DEF IInv, TypeOK, ProcessesOK, HistoryOK
<1>3. ASSUME pc[p] \in {"call", "exec", "verify"}
      PROVE  LocInv(p) /\ Phase = "claimed" /\ Phase' = "claimed"
  <2>1. Holder(p) /\ ~cp.ready
    BY <1>3 DEF IInv, OwnershipInv, OwnInv, Exclusive, InStep
  <2>2. cp.rev # 0
    BY <1>3 DEF IInv, OwnershipInv, FreshInv, Starting
  <2>q. QED BY <1>1, <2>1, <2>2 DEF Phase, IInv, DataInv, HolderInv
<1>4. CASE CallModel(p)
  <2> DEFINE n == loc[p].steps
  <2>1. /\ pc[p] = "call"
        /\ calls' = [calls EXCEPT ![n] = @ + 1]
        /\ effects' = effects
    BY <1>4 DEF CallModel
  <2>2. n \in Steps /\ Asked(n - 1)
    BY <1>3, <2>1 DEF LocInv
  <2>3. calls[n] = 0 /\ \A m \in Steps : m < n => calls[m] = 1
    BY <1>2, <2>2 DEF Asked, Steps
  <2>4. Abstract!Ask(n)
    BY <1>2, <1>3, <2>1, <2>2, <2>3 DEF Abstract!Ask
  <2>q. QED BY <2>2, <2>4 DEF Abstract!Next
<1>5. CASE Execute(p) \/ Verify(p)
  <2> DEFINE n == loc[p].steps
  <2>1. /\ pc[p] \in {"exec", "verify"}
        /\ effects' = [effects EXCEPT ![n] = @ + 1]
        /\ calls' = calls
    BY <1>5 DEF Execute, Verify
  <2>2. n \in Steps /\ effects[n] = 0 /\ Asked(n)
    BY <1>3, <2>1 DEF LocInv, BeforeEffect, Untouched, Consistent
  <2>3. calls[n] = 1
    BY <2>2 DEF Asked, Steps
  <2>4. Abstract!Act(n)
    BY <1>2, <1>3, <2>1, <2>2, <2>3 DEF Abstract!Act
  <2>q. QED BY <2>2, <2>4 DEF Abstract!Next
<1>6. CASE ~(CallModel(p) \/ Execute(p) \/ Verify(p))
  <2>1. calls' = calls /\ effects' = effects
    BY <1>6 DEF StepAction, TakeUpDecision, CheckBudgets, EmitModelRequested,
           EmitModelResponded, EmitToolCalled, EmitToolCalledForApproval,
           EmitApprovalRequested, EmitToolEnd, ProcessOutput,
           EmitVerificationFinished, SettleStep, ReturnWaiting,
           EmitTerminalError, SaveInterrupted, SkipBestEffort, Emit, SaveAndGo,
           history
  <2>q. QED BY <1>1, <2>1 DEF Abstract!vars, Phase
<1>q. QED BY <1>4, <1>5, <1>6

\* Every step is a step of ExclusiveSteps or a stutter.
LEMMA NextRefines ==
  ASSUME IInv, IInv', [Next]_vars
  PROVE  [Abstract!Next]_(Abstract!vars)
<1>1. TypeOK /\ TypeOK' /\ ProcessesOK
  BY DEF IInv, TypeOK
<1>2. CASE UNCHANGED vars
  BY <1>2 DEF vars, history, Abstract!vars, Phase
<1>3. ASSUME NEW p \in Procs, Run(p) \/ Resume(p)
      PROVE  UNCHANGED Abstract!vars
  BY <1>3 DEF Run, Resume, stores, history, Abstract!vars, Phase
<1>4. ASSUME NEW p \in Procs, DriveAction(p) \/ ApproverAction(p)
      PROVE  [Abstract!Next]_(Abstract!vars)
  <2>1. CASE Saving(p)
    BY <1>1, <2>1, SavingRefines
  <2>2. CASE Works(p)
    <3>1. calls' = calls /\ effects' = effects
      BY <1>4 DEF DriveAction, ApproverAction, EmitRunStarted, SaveStart,
             RefuseResume, ReturnUnchanged, ContinueRun, CompleteBookkeeping,
             ClaimBookkeeping, EmitMissingFinished, ClaimStep, EmitRunFinished,
             SaveFinished, ValidateDecision, RefuseDecision, ClaimDecision,
             EmitApprovalResolved, SaveDecision, Emit, SaveAndGo, history
    <3>2. cp' = cp
      BY <2>2 DEF Works
    <3>q. QED BY <3>1, <3>2 DEF Abstract!vars, Phase
  <2>q. QED BY <1>1, <1>4, <2>1, <2>2, DriveKinds, ApproverKinds
<1>5. ASSUME NEW p \in Procs, StepAction(p)
      PROVE  [Abstract!Next]_(Abstract!vars)
  BY <1>1, <1>5, StepKinds, SavingRefines, StepRefines
<1>6. ASSUME NEW p \in Procs, NEW n \in Steps, NEW d \in Decisions,
             Decide(p, n, d)
      PROVE  UNCHANGED Abstract!vars
  BY <1>6 DEF Decide, stores, Abstract!vars, Phase
<1>7. ASSUME NEW p \in Procs,
             StoreRefuses(p) \/ Stop(p) \/ StopDuringAppend(p)
      PROVE  UNCHANGED Abstract!vars
  BY <1>7
  DEF StoreRefuses, Stop, StopDuringAppend, stores, history, Abstract!vars, Phase
<1>q. QED
  BY <1>2, <1>3, <1>4, <1>5, <1>6, <1>7 DEF Next, Procs

\* Seen from outside, concurrent resumes, decisions and crashes amount to one
\* run that is settled or claimed, and that asks for each step, in order, and
\* acts on it, at most once and only while it is claimed.
THEOREM Refinement == Spec => ImplementsExclusiveSteps
<1>1. Init => Abstract!Init
  BY DEF Init, Abstract!Init, Phase, NoCheckpoint
<1>2. IInv /\ IInv' /\ [Next]_vars => [Abstract!Next]_(Abstract!vars)
  BY NextRefines
<1>q. QED
  BY <1>1, <1>2, InductiveInvariant, PTL
  DEF Spec, ImplementsExclusiveSteps, Abstract!Spec

=============================================================================
