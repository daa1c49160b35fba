--------------------------- MODULE RunTraceProofs ---------------------------
(***************************************************************************)
(* Proofs about the trace of RunLifecycle: what a checkpoint that may be   *)
(* resumed says of the recorded events, and what the recorded decisions    *)
(* say of the executed actions; for every set of runtimes, approvers and   *)
(* faulty processes and every step budget.                                 *)
(*                                                                         *)
(* The argument rests on IInv of RunLifecycleProofs: past a claim one      *)
(* process holds the latest revision, alone.  FrontInv: it saw every event *)
(* there is, for who else may append would hold that revision too, or      *)
(* saved the terminal status that the checkpoint has since.  BodyInv: what *)
(* its copy counts is what the events before its frontier are about, so a  *)
(* response, a decision and an execution are each recorded for a step that *)
(* had none.  A ready checkpoint inherits both from the copy it was saved  *)
(* from, and whoever loads it, from the checkpoint.  OrderInv: whatever a  *)
(* process has seen of the trace, latest revision or not, it knows how far *)
(* in its step that came, so what it may append belongs after it.          *)
(***************************************************************************)
EXTENDS RunLifecycleProofs

-----------------------------------------------------------------------------
(* The checkpoint and the end of the trace                                 *)

\* p's copy is the checkpoint it loaded or saved last.
Copying == {"validate", "decide_validate", "decide_claim", "finish_claim",
            "refinish", "finish"}

\* Nobody but p may append, and p has seen all that was.
Leading == InStep \cup {"start_save", "claim", "decide_claim", "resolve",
                        "finish_save", "decide_save"}

Deciding  == {"decide_claim", "resolve", "decide_save"}
Finishing == {"finish_claim", "refinish", "finish_save"}

\* The trace ends in the event that p recorded or loaded last.
Leads(p) ==
  /\ Len(trace) > 0
  /\ loc[p].seq = Len(trace)
  /\ loc[p].last = trace[Len(trace)].by

\* What the stored checkpoint and p's copy tell of the trace's end, while p
\* works on the latest revision.
FrontLoc(p) ==
  /\ pc[p] = "start" => trace = <<>> /\ loc[p].seq = 0
  /\ pc[p] \in Starting \cup {"claim"} => loc[p].status = "running"
  /\ pc[p] = "claim" => cp.status \in {"running", "waiting"}
  /\ pc[p] \in Copying => loc[p] = cp
  /\ pc[p] \in InStep => cp.status = "running"
  /\ pc[p] \in Deciding => cp.status = "waiting"
  /\ pc[p] \in Finishing => /\ cp.status \in Terminal
                            /\ loc[p].status = cp.status
                            /\ loc[p].steps = cp.steps
  /\ pc[p] = "finish_save" => loc[p].seq = cp.seq + 1
  /\ pc[p] \in Leading => Leads(p)

\* Before the first save nothing but the run's creation is recorded.
StartInv ==
  /\ ~begun => trace = <<>>
  /\ \A p \in Procs : pc[p] \in Starting => cp.rev = 0

\* Whoever saved a terminal status and is yet to record it: the checkpoint has
\* that status since, whoever saved it again.
FinishInv ==
  \A p \in Procs : pc[p] = "finish" =>
    /\ cp.status \in Terminal
    /\ loc[p].status = cp.status
    /\ loc[p].steps = cp.steps
    /\ loc[p].seq <= cp.seq

FrontInv ==
  /\ StartInv
  /\ FinishInv
  /\ \A p \in Procs : Holder(p) => FrontLoc(p)
  /\ FrontierNamed

-----------------------------------------------------------------------------
(* What the trace tells of each step                                       *)

\* The steps and responses recorded, the steps and decisions, and the steps
\* whose action has its outcome recorded.
Answers == {<<trace[i].step, trace[i].val>> :
              i \in {j \in DOMAIN trace : trace[j].type = "responded"}}
Decided == {<<trace[i].step, trace[i].val>> :
              i \in {j \in DOMAIN trace : trace[j].type = "resolved"}}
Ends    == {trace[i].step :
              i \in {j \in DOMAIN trace : trace[j].type \in {"tool", "verified"}}}

AnsweredSteps == {d[1] : d \in Answers}
DecidedSteps  == {d[1] : d \in Decided}

\* The k such that no response and no decision is recorded past step k.
Latest == {k \in 0..MaxSteps : \A d \in Answers \cup Decided : d[1] <= k}

\* The k such that each of the first k steps has its response recorded, and
\* the outcome of its action if that was executed.
AccountedTo ==
  {k \in 0..MaxSteps : \A n \in Steps : n <= k =>
     n \in AnsweredSteps /\ (effects[n] > 0 => n \in Ends)}

\* A pending action awaits its decision, or has the one that is recorded and
\* that a human made.
TruePendings ==
  {q \in Pendings : q # NoPending =>
     IF q.approved = "undecided"
     THEN q.step \notin DecidedSteps
     ELSE <<q.step, q.approved>> \in Decided \cap given}

\* The responses that are the only one recorded for their step, while no
\* decision is.
OnlyResponses ==
  {a \in (0..MaxSteps) \X Acts :
     a[1] \notin DecidedSteps /\ \A d \in Answers : d[1] = a[1] => d = a}

Balanced == {"start", "start_save", "validate", "claim", "finish_claim",
             "refinish", "step", "request", "toolcall", "ask", "exec", "output",
             "verify", "decide_validate", "decide_claim", "resolve",
             "decide_save"}

\* What p's copy tells of the recorded steps, while p works on the latest
\* revision.
BodyLoc(p) ==
  /\ loc[p].steps \in Latest
  /\ loc[p].pending \in TruePendings
  /\ pc[p] \in {"call", "respond"} => loc[p].steps - 1 \in Latest \cap AccountedTo
  /\ pc[p] \in {"toolend", "verified"} => /\ loc[p].steps - 1 \in AccountedTo
                                          /\ loc[p].steps \in AnsweredSteps
  /\ pc[p] \in Balanced => loc[p].steps \in AccountedTo
  /\ pc[p] = "settle" /\ loc[p].status \in Settled /\ act[p] # "interrupted" =>
       loc[p].steps \in AccountedTo
  /\ pc[p] \in {"finish", "finish_save"} /\ loc[p].ready =>
       loc[p].steps \in AccountedTo
  /\ (pc[p] \in {"toolcall", "verify"} \/ (pc[p] = "exec" /\ act[p] = "allow")) =>
       <<loc[p].steps, act[p]>> \in OnlyResponses
  /\ pc[p] = "exec" /\ act[p] # "allow" => <<loc[p].steps, "yes">> \in Decided \cap given
  /\ pc[p] = "verify" => act[p] = "final"
  /\ pc[p] \in {"decide_claim", "resolve"} =>
       loc[p].pending = [step |-> want[p], approved |-> "undecided"]
  /\ pc[p] = "decide_save" =>
       /\ loc[p].pending = [step |-> want[p], approved |-> act[p]]
       /\ \A d \in acks : d[2] # want[p]

\* A ready checkpoint tells the same.
BodyReady ==
  cp.ready => /\ cp.steps \in Latest \cap AccountedTo
              /\ cp.pending \in TruePendings

\* The decision a process has in hand is a human's, and a suite that stopped
\* at a limit ends its step.
InHand(p) ==
  /\ pc[p] \in {"decide_validate", "decide_claim", "resolve", "decide_save"}
       => <<want[p], act[p]>> \in given
  /\ act[p] = "interrupted" => pc[p] = "settle" /\ loc[p].status = "exhausted"

\* One decision is recorded for each step.
ResolvedOnce ==
  \A i, j \in DOMAIN trace :
    (/\ trace[i].type = "resolved"
     /\ trace[j].type = "resolved"
     /\ trace[i].step = trace[j].step) => i = j

\* What was confirmed is recorded, once.
AcksInv ==
  /\ \A d \in acks : <<d[2], d[3]>> \in Decided
  /\ \A d, e \in acks : d[2] = e[2] => d = e

\* ConsentBeforeEffect, in these terms.
ConsentInv ==
  \A n \in Steps : effects[n] > 0 =>
    /\ <<n, "ask">> \in Answers => <<n, "yes">> \in Decided \cap given
    /\ \A d \in acks : <<d[2], d[3]>> # <<n, "no">>

BodyInv ==
  /\ BodyReady
  /\ \A p \in Procs : InHand(p)
  /\ \A p \in Procs : Holder(p) => BodyLoc(p)
  /\ ResolvedOnce
  /\ AcksInv
  /\ ConsentInv

\* The invariant of the trace.
TraceInv == FrontInv /\ BodyInv

-----------------------------------------------------------------------------
(* Appends                                                                 *)

\* What was recorded stays, and the new event is the last.
LEMMA Grown ==
  ASSUME NEW S, NEW s \in Seq(S), NEW e
  PROVE  /\ Len(s) \in Nat
         /\ Len(Append(s, e)) = Len(s) + 1
         /\ Len(Append(s, e)) > 0
         /\ Append(s, e)[Len(s) + 1] = e
         /\ Append(s, e)[Len(Append(s, e))] = e
         /\ \A i \in 1..Len(s) : Append(s, e)[i] = s[i]
         /\ DOMAIN s = 1..Len(s)
         /\ DOMAIN Append(s, e) = 1..Len(s) + 1
<1>1. s \in Seq(S \cup {e}) /\ e \in S \cup {e}
  BY SeqDef
<1>q. QED BY <1>1, AppendProperties, LenProperties

\* An append leaves p at the end of the trace.
LEMMA EmitLeads ==
  ASSUME TypeOK, NEW p \in Procs, NEW type, NEW n, NEW val, NEW copy,
         Emit(p, type, n, val, copy),
         copy.seq = loc[p].seq + 1, copy.last = p
  PROVE  Leads(p)' /\ loc'[p] = copy /\ cp' = cp
<1> DEFINE e == [type |-> type, by |-> p, step |-> n, val |-> val]
<1>1. e.by = p
  OBVIOUS
<1>2. trace \in Seq(Events) /\ trace' = Append(trace, e)
  BY DEF TypeOK, StoresOK, Emit
<1>3. loc'[p] = copy /\ cp' = cp /\ loc[p].seq = Len(trace)
  BY DEF TypeOK, ProcessesOK, Emit, CanAppend
<1> HIDE DEF e
<1>4. Len(trace') = Len(trace) + 1 /\ Len(trace') > 0
  BY <1>2, Grown
<1>5. trace'[Len(trace')] = e
  BY <1>2, Grown
<1>6. loc'[p].seq = Len(trace')
  BY <1>3, <1>4
<1>q. QED BY <1>1, <1>3, <1>4, <1>5, <1>6 DEF Leads

\* Within a step, a process that neither saves nor misses an event keeps what
\* its copy says of the trace's end.
LEMMA WithinStep ==
  ASSUME NEW p \in Procs, FrontLoc(p), pc[p] \in InStep, pc'[p] \in InStep,
         cp' = cp,
         \/ Leads(p)'
         \/ /\ trace' = trace
            /\ loc'[p].seq = loc[p].seq /\ loc'[p].last = loc[p].last
  PROVE  FrontLoc(p)'
<1>1. Leads(p)
  BY DEF FrontLoc, Leading
<1>2. Leads(p)'
  BY <1>1 DEF Leads
<1>q. QED
  BY <1>2 DEF FrontLoc, Starting, Copying, InStep, Deciding, Finishing

\* The fields of the copies that go with an event.
LEMMA RecordedFields ==
  ASSUME ProcessesOK, NEW p \in Procs
  PROVE  /\ Recorded(p) \in Checkpoints
         /\ Recorded(p).rev = loc[p].rev
         /\ Recorded(p).ready = loc[p].ready
         /\ Recorded(p).seq = loc[p].seq + 1
         /\ Recorded(p).last = p
         /\ Recorded(p).status = loc[p].status
         /\ Recorded(p).steps = loc[p].steps
         /\ Recorded(p).pending = loc[p].pending
<1>1. loc[p] \in Checkpoints
  BY DEF ProcessesOK
<1>q. QED BY <1>1, RecordedTyped DEF Recorded, Checkpoints

\* So it is with an event that changes nothing else of p's copy.
LEMMA RecordedLeads ==
  ASSUME TypeOK, NEW p \in Procs, NEW type, NEW n, NEW val,
         Emit(p, type, n, val, Recorded(p))
  PROVE  Leads(p)' /\ loc'[p] = Recorded(p) /\ cp' = cp
<1> DEFINE copy == Recorded(p)
<1>1. copy.seq = loc[p].seq + 1 /\ copy.last = p
  BY RecordedFields DEF TypeOK
<1>2. Emit(p, type, n, val, copy)
  OBVIOUS
<1> HIDE DEF copy
<1>3. Leads(p)' /\ cp' = cp
  BY <1>1, <1>2, EmitLeads
<1>4. loc'[p] = copy
  BY <1>2 DEF Emit, TypeOK, ProcessesOK
<1>q. QED BY <1>3, <1>4 DEF copy

-----------------------------------------------------------------------------
(* The end of the trace                                                    *)

\* The process that goes on keeps what its copy says of the trace's end.
LEMMA DriveFront ==
  ASSUME TypeOK, NEW p \in Procs, Holder(p), FrontLoc(p), FinishInv,
         DriveAction(p)
  PROVE  pc'[p] = "idle" \/ FrontLoc(p)'
<1>1. /\ pc \in [Procs -> Labels]
      /\ loc \in [Procs -> Checkpoints]
      /\ loc[p] \in Checkpoints
      /\ cp \in Checkpoints
      /\ Len(trace) \in Nat
      /\ Recorded(p) \in Checkpoints
  BY RecordedTyped, FieldTyped, InitialTyped, LenProperties
  DEF TypeOK, StoresOK, ProcessesOK
<1>2. ProcessesOK /\ (trace # <<>> => Len(trace) > 0)
  BY EmptySeq DEF TypeOK, StoresOK
<1>3. QED
  <2>1. CASE EmitRunStarted(p)
    <3>1. Leads(p)' /\ loc'[p] = Recorded(p) /\ cp' = cp
      BY <2>1, RecordedLeads DEF EmitRunStarted
    <3>2. pc[p] = "start" /\ pc'[p] = "start_save"
      BY <1>1, <2>1 DEF EmitRunStarted, Goto
    <3>3. loc'[p].status = "running"
      BY <1>2, <3>1, <3>2, RecordedFields DEF FrontLoc, Starting
    <3>q. QED
      BY <3>1, <3>2, <3>3
      DEF FrontLoc, Starting, Copying, InStep, Deciding, Finishing, Leading
  <2>2. CASE SaveStart(p)
    BY <1>1, <2>2
    DEF SaveStart, SaveAndGo, Store, Goto, FrontLoc, Starting, Copying, InStep,
        Deciding, Finishing, Leading, Leads, Checkpoints
  <2>3. CASE RefuseResume(p)
    BY <1>1, <2>3 DEF RefuseResume, Leave, Goto
  <2>4. CASE ReturnUnchanged(p)
    BY <1>1, <2>4 DEF ReturnUnchanged, Leave, Goto
  <2>5. CASE ContinueRun(p)
    BY <1>1, <1>2, <2>5
    DEF ContinueRun, Continues, Resumable, SameFrontier, stores, Goto, FrontLoc,
        Starting, Copying, InStep, Deciding, Finishing, Leading, Leads,
        Checkpoints
  <2>6. CASE CompleteBookkeeping(p)
    BY <1>1, <2>6
    DEF CompleteBookkeeping, stores, Goto, FrontLoc, Starting, Copying, InStep,
        Deciding, Finishing, Leading, Leads, Checkpoints
  <2>7. CASE ClaimBookkeeping(p)
    BY <1>1, <2>7
    DEF ClaimBookkeeping, SaveAndGo, Store, Goto, FrontLoc, Starting, Copying,
        InStep, Deciding, Finishing, Leading, Leads, Checkpoints
  <2>8. CASE EmitMissingFinished(p)
    <3> DEFINE copy == [Recorded(p) EXCEPT !.ready = TRUE]
    <3>1. /\ copy \in Checkpoints /\ copy.seq = loc[p].seq + 1 /\ copy.last = p
          /\ copy.status = loc[p].status /\ copy.steps = loc[p].steps
      BY <1>1, <1>2, RecordedFields DEF Checkpoints
    <3>2. Leads(p)' /\ loc'[p] = copy /\ cp' = cp
      BY <1>1, <1>2, <2>8, <3>1, EmitLeads
      DEF EmitMissingFinished, EventTypes
    <3> HIDE DEF copy
    <3>q. QED
      BY <1>1, <2>8, <3>1, <3>2
      DEF EmitMissingFinished, Goto, FrontLoc, Starting, Copying, InStep,
          Deciding, Finishing, Leading
  <2>9. CASE ClaimStep(p)
    BY <1>1, <2>9
    DEF ClaimStep, SaveAndGo, Store, Goto, FrontLoc, Starting, Copying, InStep,
        Deciding, Finishing, Leading, Leads, Checkpoints
  <2>10. CASE EmitRunFinished(p)
    <3>1. Leads(p)' /\ loc'[p] = Recorded(p) /\ cp' = cp
      BY <2>10, RecordedLeads DEF EmitRunFinished
    <3>2. /\ pc[p] = "finish" /\ pc'[p] = "finish_save"
          /\ loc[p] = cp /\ cp.status \in Terminal
      BY <1>1, <2>10
      DEF EmitRunFinished, Goto, FrontLoc, FinishInv, Copying
    <3>3. loc'[p].status = cp.status /\ loc'[p].steps = cp.steps /\ loc'[p].seq = cp.seq + 1
      BY <1>2, <3>1, <3>2, RecordedFields
    <3>q. QED
      BY <3>1, <3>2, <3>3
      DEF FrontLoc, Starting, Copying, InStep,
          Deciding, Finishing, Leading
  <2>11. CASE SaveFinished(p)
    BY <1>1, <2>11 DEF SaveFinished, Leave, Goto
  <2>q. QED BY <2>1, <2>2, <2>3, <2>4, <2>5, <2>6, <2>7, <2>8, <2>9, <2>10,
              <2>11
           DEF DriveAction

\* The process that goes on keeps what its copy says of the trace's end.
LEMMA StepFront ==
  ASSUME TypeOK, TypeSupport, NEW p \in Procs, Holder(p), FrontLoc(p),
         StepAction(p)
  PROVE  pc'[p] = "idle" \/ FrontLoc(p)'
<1>1. /\ pc \in [Procs -> Labels]
      /\ loc \in [Procs -> Checkpoints]
      /\ loc[p] \in Checkpoints
      /\ cp \in Checkpoints
      /\ Len(trace) \in Nat
      /\ Recorded(p) \in Checkpoints
  BY RecordedTyped, FieldTyped, InitialTyped, LenProperties
  DEF TypeOK, StoresOK, ProcessesOK
<1>2. ProcessesOK
  BY DEF TypeOK
<1>3. QED
  <2>1. CASE TakeUpDecision(p)
    <3>1. \/ loc' = [loc EXCEPT ![p] = [loc[p] EXCEPT !.pending = NoPending]]
          \/ loc' = [loc EXCEPT ![p] = [[loc[p] EXCEPT !.pending = NoPending]
                                        EXCEPT !.status = "timeout"]]
      BY <1>1, <2>1 DEF TakeUpDecision
    <3>2. loc'[p].seq = loc[p].seq /\ loc'[p].last = loc[p].last
      <4>1. CASE loc' = [loc EXCEPT ![p] = [loc[p] EXCEPT !.pending = NoPending]]
        BY <1>1, <4>1 DEF Checkpoints
      <4>2. CASE loc' = [loc EXCEPT ![p] = [[loc[p] EXCEPT !.pending = NoPending]
                                        EXCEPT !.status = "timeout"]]
        BY <1>1, <4>2 DEF Checkpoints
      <4>q. QED BY <3>1, <4>1, <4>2
    <3>3. pc[p] \in InStep /\ pc'[p] \in InStep /\ cp' = cp /\ trace' = trace
      BY <1>1, <2>1 DEF TakeUpDecision, stores, Goto, InStep
    <3>q. QED BY <3>2, <3>3, WithinStep
  <2>2. CASE CheckBudgets(p)
    <3>1. loc' = loc \/ \E s \in Statuses : loc' = [loc EXCEPT ![p].status = s]
      BY <2>2, StatusNames DEF CheckBudgets, EndStep, Raise, Terminal
    <3>2. loc'[p].seq = loc[p].seq /\ loc'[p].last = loc[p].last
      BY <1>1, <3>1 DEF Checkpoints
    <3>3. pc[p] \in InStep /\ pc'[p] \in InStep /\ cp' = cp /\ trace' = trace
      BY <1>1, <2>2 DEF CheckBudgets, EndStep, Raise, stores,
        Goto, InStep
    <3>q. QED BY <3>2, <3>3, WithinStep
  <2>3. CASE EmitModelRequested(p)
    <3> DEFINE copy == [Recorded(p) EXCEPT !.steps = @ + 1]
               n == loc[p].steps + 1
    <3>1. copy.seq = loc[p].seq + 1 /\ copy.last = p
      BY <1>2, RecordedFields DEF Checkpoints
    <3>2. Emit(p, "requested", n, "", copy)
      BY <2>3 DEF EmitModelRequested
    <3> HIDE DEF copy, n
    <3>3. Leads(p)' /\ cp' = cp
      BY <3>1, <3>2, EmitLeads
    <3>4. pc[p] \in InStep /\ pc'[p] \in InStep
      BY <1>1, <2>3 DEF EmitModelRequested, Goto, InStep
    <3>q. QED BY <3>3, <3>4, WithinStep
  <2>4. CASE CallModel(p)
    <3>1. loc' = loc \/ \E s \in Statuses : loc' = [loc EXCEPT ![p].status = s]
      BY <2>4, StatusNames DEF CallModel, EndStep, Raise, Terminal
    <3>2. loc'[p].seq = loc[p].seq /\ loc'[p].last = loc[p].last
      BY <1>1, <3>1 DEF Checkpoints
    <3>3. pc[p] \in InStep /\ pc'[p] \in InStep /\ cp' = cp /\ trace' = trace
      BY <1>1, <2>4 DEF CallModel, EndStep, Raise, stores,
        Goto, InStep
    <3>q. QED BY <3>2, <3>3, WithinStep
  <2>5. CASE EmitModelResponded(p)
    <3>1. PICK s \in Statuses :
            Emit(p, "responded", loc[p].steps, act[p], [Recorded(p) EXCEPT !.status = s])
      BY <2>5, StatusNames DEF EmitModelResponded, Terminal
    <3> DEFINE copy == [Recorded(p) EXCEPT !.status = s]
    <3>2. copy.seq = loc[p].seq + 1 /\ copy.last = p
      BY <1>2, RecordedFields DEF Checkpoints
    <3> HIDE DEF copy
    <3>3. Leads(p)' /\ cp' = cp
      BY <3>1, <3>2, EmitLeads DEF copy
    <3>4. pc[p] \in InStep /\ pc'[p] \in InStep
      BY <1>1, <2>5 DEF EmitModelResponded, Goto, InStep
    <3>q. QED BY <3>3, <3>4, WithinStep
  <2>6. CASE EmitToolCalled(p)
    <3>1. Emit(p, "called", loc[p].steps, "", Recorded(p))
      BY <2>6 DEF EmitToolCalled
    <3>2. Leads(p)' /\ cp' = cp
      BY <3>1, RecordedLeads
    <3>3. pc[p] \in InStep /\ pc'[p] \in InStep
      BY <1>1, <2>6 DEF EmitToolCalled, Goto, InStep
    <3>q. QED BY <3>2, <3>3, WithinStep
  <2>7. CASE EmitToolCalledForApproval(p)
    <3> DEFINE asked == [step |-> loc[p].steps, approved |-> "undecided"]
               copy  == [Recorded(p) EXCEPT !.status = "waiting", !.pending = asked]
    <3>2. copy.seq = loc[p].seq + 1 /\ copy.last = p
      BY <1>2, RecordedFields DEF Checkpoints
    <3>1. Emit(p, "called", loc[p].steps, "", copy)
      BY <2>7 DEF EmitToolCalledForApproval
    <3> HIDE DEF copy
    <3>3. Leads(p)' /\ cp' = cp
      BY <3>1, <3>2, EmitLeads
    <3>4. pc[p] \in InStep /\ pc'[p] \in InStep
      BY <1>1, <2>7 DEF EmitToolCalledForApproval, Goto, InStep
    <3>q. QED BY <3>3, <3>4, WithinStep
  <2>8. CASE EmitApprovalRequested(p)
    <3>1. Emit(p, "approval", loc[p].pending.step, "", Recorded(p))
      BY <2>8 DEF EmitApprovalRequested
    <3>2. Leads(p)' /\ cp' = cp
      BY <3>1, RecordedLeads
    <3>3. pc[p] \in InStep /\ pc'[p] \in InStep
      BY <1>1, <2>8 DEF EmitApprovalRequested, Goto, InStep
    <3>q. QED BY <3>2, <3>3, WithinStep
  <2>9. CASE Execute(p)
    <3>1. /\ pc[p] \in InStep /\ pc'[p] \in InStep
          /\ cp' = cp /\ trace' = trace
          /\ loc'[p].seq = loc[p].seq /\ loc'[p].last = loc[p].last
      BY <1>1, <2>9 DEF Execute, stores, Goto, InStep, Checkpoints
    <3>q. QED BY <3>1, WithinStep
  <2>10. CASE EmitToolEnd(p)
    <3>1. PICK s \in Statuses :
            Emit(p, "tool", loc[p].steps, act[p], [Recorded(p) EXCEPT !.status = s])
      BY <2>10, StatusNames DEF EmitToolEnd, Terminal
    <3> DEFINE copy == [Recorded(p) EXCEPT !.status = s]
    <3>2. copy.seq = loc[p].seq + 1 /\ copy.last = p
      BY <1>2, RecordedFields DEF Checkpoints
    <3> HIDE DEF copy
    <3>3. Leads(p)' /\ cp' = cp
      BY <3>1, <3>2, EmitLeads DEF copy
    <3>4. pc[p] \in InStep /\ pc'[p] \in InStep
      BY <1>1, <2>10 DEF EmitToolEnd, Goto, InStep
    <3>q. QED BY <3>3, <3>4, WithinStep
  <2>11. CASE ProcessOutput(p)
    <3>1. loc' = loc \/ \E s \in Statuses : loc' = [loc EXCEPT ![p].status = s]
      BY <2>11, StatusNames DEF ProcessOutput, EndStep, Raise, Terminal
    <3>2. loc'[p].seq = loc[p].seq /\ loc'[p].last = loc[p].last
      BY <1>1, <3>1 DEF Checkpoints
    <3>3. pc[p] \in InStep /\ pc'[p] \in InStep /\ cp' = cp /\ trace' = trace
      BY <1>1, <2>11 DEF ProcessOutput, EndStep, Raise, stores,
        Goto, InStep
    <3>q. QED BY <3>2, <3>3, WithinStep
  <2>12. CASE Verify(p)
    <3>1. loc' = loc \/ \E s \in Statuses : loc' = [loc EXCEPT ![p].status = s]
      BY <2>12, StatusNames DEF Verify, EndStep, Raise, Terminal
    <3>2. loc'[p].seq = loc[p].seq /\ loc'[p].last = loc[p].last
      BY <1>1, <3>1 DEF Checkpoints
    <3>3. pc[p] \in InStep /\ pc'[p] \in InStep /\ cp' = cp /\ trace' = trace
      BY <1>1, <2>12 DEF Verify, EndStep, Raise, stores,
        Goto, InStep
    <3>q. QED BY <3>2, <3>3, WithinStep
  <2>13. CASE EmitVerificationFinished(p)
    <3>1. PICK s \in Statuses :
            Emit(p, "verified", loc[p].steps, act[p], [Recorded(p) EXCEPT !.status = s])
      BY <2>13, StatusNames DEF EmitVerificationFinished, Terminal
    <3> DEFINE copy == [Recorded(p) EXCEPT !.status = s]
    <3>2. copy.seq = loc[p].seq + 1 /\ copy.last = p
      BY <1>2, RecordedFields DEF Checkpoints
    <3> HIDE DEF copy
    <3>3. Leads(p)' /\ cp' = cp
      BY <3>1, <3>2, EmitLeads DEF copy
    <3>4. pc[p] \in InStep /\ pc'[p] \in InStep
      BY <1>1, <2>13 DEF EmitVerificationFinished, Goto, InStep
    <3>q. QED BY <3>3, <3>4, WithinStep
  <2>14. CASE SettleStep(p)
    BY <1>1, <2>14
    DEF SettleStep, SaveAndGo, Store,
        Goto, FrontLoc, Starting, Copying,
        InStep, Deciding, Finishing, Leading, Leads, Checkpoints
  <2>15. CASE ReturnWaiting(p)
    BY <1>1, <2>15 DEF ReturnWaiting, Leave, Goto
  <2>16. CASE EmitTerminalError(p)
    <3>1. Emit(p, IF loc[p].status = "cancelled" THEN "finished" ELSE "failed",
               loc[p].steps, loc[p].status, Recorded(p))
      BY <2>16 DEF EmitTerminalError
    <3>2. Leads(p)' /\ cp' = cp
      BY <3>1, RecordedLeads
    <3>3. pc[p] \in InStep /\ pc'[p] \in InStep
      BY <1>1, <2>16 DEF EmitTerminalError, Goto, InStep
    <3>q. QED BY <3>2, <3>3, WithinStep
  <2>17. CASE SaveInterrupted(p)
    BY <1>1, <2>17 DEF SaveInterrupted, Leave, Goto
  <2>18. CASE SkipBestEffort(p)
    <3>1. loc' = loc \/ \E s \in Statuses : loc' = [loc EXCEPT ![p].status = s]
      BY <2>18, StatusNames DEF SkipBestEffort, EndStep, Raise, Terminal
    <3>2. loc'[p].seq = loc[p].seq /\ loc'[p].last = loc[p].last
      BY <1>1, <3>1 DEF Checkpoints
    <3>3. pc[p] \in InStep /\ pc'[p] \in InStep /\ cp' = cp /\ trace' = trace
      BY <1>1, <2>18 DEF SkipBestEffort, BestEffort, Raise, stores,
        Goto, InStep
    <3>q. QED BY <3>2, <3>3, WithinStep
  <2>q. QED BY <2>1, <2>2, <2>3, <2>4, <2>5, <2>6, <2>7, <2>8, <2>9, <2>10,
            <2>11, <2>12, <2>13, <2>14, <2>15, <2>16, <2>17, <2>18
           DEF StepAction

\* The process that goes on keeps what its copy says of the trace's end.
LEMMA ApproverFront ==
  ASSUME TypeOK, TypeSupport, NEW p \in Procs, Holder(p), FrontLoc(p),
         ApproverAction(p)
  PROVE  pc'[p] = "idle" \/ FrontLoc(p)'
<1>1. /\ pc \in [Procs -> Labels]
      /\ loc \in [Procs -> Checkpoints]
      /\ loc[p] \in Checkpoints
      /\ cp \in Checkpoints
      /\ Len(trace) \in Nat
      /\ Recorded(p) \in Checkpoints
  BY RecordedTyped, FieldTyped, LenProperties
  DEF TypeOK, StoresOK, ProcessesOK
<1>2. ProcessesOK /\ (trace # <<>> => Len(trace) > 0)
  BY EmptySeq DEF TypeOK, StoresOK
<1>3. QED
  <2>1. CASE ValidateDecision(p)
    BY <1>1, <1>2, <2>1
    DEF ValidateDecision, Undecided, ApprovalRecorded, SameFrontier, stores,
        Goto, FrontLoc, Starting, Copying,
        InStep, Deciding, Finishing, Leading, Leads, Checkpoints
  <2>2. CASE RefuseDecision(p)
    BY <1>1, <2>2 DEF RefuseDecision, Leave, Goto
  <2>3. CASE ClaimDecision(p)
    BY <1>1, <2>3
    DEF ClaimDecision, SaveAndGo, Store,
        Goto, FrontLoc, Starting, Copying,
        InStep, Deciding, Finishing, Leading, Leads, Checkpoints
  <2>4. CASE EmitApprovalResolved(p)
    <3> DEFINE decided == [loc[p].pending EXCEPT !.approved = act[p]]
               copy == [Recorded(p) EXCEPT !.ready = TRUE, !.pending = decided]
    <3>2. copy.seq = loc[p].seq + 1 /\ copy.last = p
      BY <1>2, RecordedFields DEF Checkpoints
    <3>3. Emit(p, "resolved", loc[p].pending.step, act[p], copy)
      BY <1>1, <1>2, <2>4, RecordedFields DEF EmitApprovalResolved, Checkpoints
    <3> HIDE DEF copy
    <3>4. Leads(p)' /\ cp' = cp
      BY <1>2, <3>2, <3>3, EmitLeads
    <3>q. QED
      BY <1>1, <2>4, <3>4
      DEF EmitApprovalResolved, Goto, FrontLoc, Starting, Copying, InStep, Deciding,
          Finishing, Leading
  <2>5. CASE SaveDecision(p)
    BY <1>1, <2>5 DEF SaveDecision, Leave, Goto
  <2>q. QED BY <2>1, <2>2, <2>3, <2>4, <2>5
           DEF ApproverAction

\* p appends an event; once its run is over, that is its RunFinished.
Adds(p) ==
  /\ pc[p] \in Appends
  /\ CanAppend(p)
  /\ cp' = cp
  /\ \E e : /\ trace' = Append(trace, e)
            /\ pc[p] = "finish" =>
                 e = [type |-> "finished", by |-> p, step |-> loc[p].steps,
                      val |-> loc[p].status]

\* What p saves: a settled checkpoint is at the trace's end, and the terminal
\* status of an existing one stays.
Saved(p) ==
  /\ trace' = trace
  /\ cp'.ready => Leads(p) /\ cp'.seq = loc[p].seq /\ cp'.last = loc[p].last
  /\ cp.rev # 0 /\ cp.status \in Terminal =>
       /\ cp'.status = cp.status
       /\ cp'.steps = cp.steps
       /\ cp'.seq >= cp.seq

\* What each step does to the stores, and who gets to record RunFinished.
FrontShape(p) ==
  /\ trace' = trace \/ Adds(p)
  /\ cp' = cp \/ Saved(p)
  /\ pc'[p] = "finish" => loc'[p] = cp' /\ cp'.status \in Terminal

\* A step that writes to neither store.
LEMMA NoWrite ==
  ASSUME NEW p \in Procs, trace' = trace, cp' = cp, pc'[p] # "finish"
  PROVE  FrontShape(p)
  BY DEF FrontShape

\* A step that appends.
LEMMA OneEvent ==
  ASSUME NEW p \in Procs, NEW type, NEW n, NEW val, NEW copy,
         Emit(p, type, n, val, copy), pc[p] \in Appends, pc'[p] # "finish",
         pc[p] = "finish" =>
           type = "finished" /\ n = loc[p].steps /\ val = loc[p].status
  PROVE  FrontShape(p)
  BY DEF Emit, FrontShape, Adds

\* What each of these actions does to the stores.
LEMMA DriveShape ==
  ASSUME TypeOK, StartInv, NEW p \in Procs, Holder(p) => FrontLoc(p),
         DriveAction(p)
  PROVE  FrontShape(p)
<1>1. /\ pc \in [Procs -> Labels]
      /\ loc \in [Procs -> Checkpoints]
      /\ loc[p] \in Checkpoints
      /\ cp \in Checkpoints
  BY DEF TypeOK, StoresOK, ProcessesOK
<1>2. QED
  <2>1. CASE EmitRunStarted(p)
    BY <1>1, <2>1, OneEvent DEF EmitRunStarted, Goto, Appends
  <2>2. CASE SaveStart(p)
    BY <1>1, <2>2
    DEF SaveStart, SaveAndGo, Store, CanSave, Goto, StartInv, Starting, Holder,
        FrontLoc, Leading, FrontShape, Saved, Checkpoints
  <2>3. CASE RefuseResume(p)
    BY <1>1, <2>3, NoWrite DEF RefuseResume, Leave, Goto, stores
  <2>4. CASE ReturnUnchanged(p)
    BY <1>1, <2>4, NoWrite DEF ReturnUnchanged, Leave, Goto, stores
  <2>5. CASE ContinueRun(p)
    BY <1>1, <2>5, NoWrite DEF ContinueRun, Goto, stores
  <2>6. CASE CompleteBookkeeping(p)
    BY <1>1, <2>6, NoWrite DEF CompleteBookkeeping, Goto, stores
  <2>7. CASE ClaimBookkeeping(p)
    BY <1>1, <2>7
    DEF ClaimBookkeeping, SaveAndGo, Store, CanSave, Goto, Holder, FrontLoc,
        Copying, FrontShape, Saved, Checkpoints
  <2>8. CASE EmitMissingFinished(p)
    BY <1>1, <2>8, OneEvent DEF EmitMissingFinished, Goto, Appends
  <2>9. CASE ClaimStep(p)
    BY <1>1, <2>9
    DEF ClaimStep, SaveAndGo, Store, CanSave, Goto, Holder, FrontLoc,
        FrontShape, Saved, Checkpoints, Terminal
  <2>10. CASE EmitRunFinished(p)
    BY <1>1, <2>10, OneEvent DEF EmitRunFinished, Goto, Appends
  <2>11. CASE SaveFinished(p)
    BY <1>1, <2>11
    DEF SaveFinished, Store, CanSave, Leave, Goto, Holder, FrontLoc, Finishing,
        Leading, FrontShape, Saved, Checkpoints
  <2>q. QED BY <2>1, <2>2, <2>3, <2>4, <2>5, <2>6, <2>7, <2>8, <2>9, <2>10,
              <2>11
           DEF DriveAction

\* What each of these actions does to the stores.
LEMMA StepShape ==
  ASSUME TypeOK, NEW p \in Procs, Holder(p) => FrontLoc(p), StepAction(p)
  PROVE  FrontShape(p)
<1>1. /\ pc \in [Procs -> Labels]
      /\ loc \in [Procs -> Checkpoints]
      /\ loc[p] \in Checkpoints
      /\ cp \in Checkpoints
  BY DEF TypeOK, StoresOK, ProcessesOK
<1>2. QED
  <2>1. CASE TakeUpDecision(p)
    BY <1>1, <2>1, NoWrite DEF TakeUpDecision, Goto, stores
  <2>2. CASE CheckBudgets(p)
    BY <1>1, <2>2, NoWrite DEF CheckBudgets, EndStep, Raise, Goto, stores
  <2>3. CASE EmitModelRequested(p)
    BY <1>1, <2>3, OneEvent DEF EmitModelRequested, Goto, Appends
  <2>4. CASE CallModel(p)
    BY <1>1, <2>4, NoWrite DEF CallModel, EndStep, Raise, Goto, stores
  <2>5. CASE EmitModelResponded(p)
    BY <1>1, <2>5, OneEvent DEF EmitModelResponded, Goto, Appends
  <2>6. CASE EmitToolCalled(p)
    BY <1>1, <2>6, OneEvent DEF EmitToolCalled, Goto, Appends
  <2>7. CASE EmitToolCalledForApproval(p)
    BY <1>1, <2>7, OneEvent DEF EmitToolCalledForApproval, Goto, Appends
  <2>8. CASE EmitApprovalRequested(p)
    BY <1>1, <2>8, OneEvent DEF EmitApprovalRequested, Goto, Appends
  <2>9. CASE Execute(p)
    BY <1>1, <2>9, NoWrite DEF Execute, Goto, stores
  <2>10. CASE EmitToolEnd(p)
    BY <1>1, <2>10, OneEvent DEF EmitToolEnd, Goto, Appends
  <2>11. CASE ProcessOutput(p)
    BY <1>1, <2>11, NoWrite DEF ProcessOutput, EndStep, Raise, Goto, stores
  <2>12. CASE Verify(p)
    BY <1>1, <2>12, NoWrite DEF Verify, EndStep, Raise, Goto, stores
  <2>13. CASE EmitVerificationFinished(p)
    BY <1>1, <2>13, OneEvent DEF EmitVerificationFinished, Goto, Appends
  <2>14. CASE SettleStep(p)
    <3>1. /\ Leads(p) /\ cp.status = "running"
      BY <1>1, <2>14
      DEF SettleStep, SaveAndGo, Store, CanSave, Holder, FrontLoc, InStep, Leading
    <3>2. /\ trace' = trace
          /\ cp'.seq = loc[p].seq /\ cp'.last = loc[p].last
      BY <1>1, <2>14 DEF SettleStep, SaveAndGo, Store, Checkpoints
    <3>3. pc'[p] = "finish" => loc'[p] = cp' /\ cp'.status \in Terminal
      BY <1>1, <2>14
      DEF SettleStep, SaveAndGo, Store, Goto, Checkpoints, Statuses
    <3>q. QED BY <3>1, <3>2, <3>3 DEF FrontShape, Saved, Terminal
  <2>15. CASE ReturnWaiting(p)
    <3>1. /\ Leads(p) /\ cp.status = "running"
      BY <1>1, <2>15
      DEF ReturnWaiting, Store, CanSave, Holder, FrontLoc, InStep, Leading
    <3>2. /\ trace' = trace /\ pc'[p] = "idle"
          /\ cp'.seq = loc[p].seq /\ cp'.last = loc[p].last
      BY <1>1, <2>15 DEF ReturnWaiting, Store, Leave, Goto, Checkpoints
    <3>q. QED BY <3>1, <3>2 DEF FrontShape, Saved, Terminal
  <2>16. CASE EmitTerminalError(p)
    BY <1>1, <2>16, OneEvent DEF EmitTerminalError, Goto, Appends
  <2>17. CASE SaveInterrupted(p)
    BY <1>1, <2>17
    DEF SaveInterrupted, Store, CanSave, Leave, Goto, Holder, FrontLoc, InStep,
        FrontShape, Saved, Checkpoints, Terminal
  <2>18. CASE SkipBestEffort(p)
    BY <1>1, <2>18, NoWrite DEF SkipBestEffort, Raise, Goto, stores
  <2>q. QED BY <2>1, <2>2, <2>3, <2>4, <2>5, <2>6, <2>7, <2>8, <2>9, <2>10,
              <2>11, <2>12, <2>13, <2>14, <2>15, <2>16, <2>17, <2>18
           DEF StepAction

\* What each of these actions does to the stores.
LEMMA ApproverShape ==
  ASSUME TypeOK, NEW p \in Procs, Holder(p) => FrontLoc(p), ApproverAction(p)
  PROVE  FrontShape(p)
<1>1. /\ pc \in [Procs -> Labels]
      /\ loc \in [Procs -> Checkpoints]
      /\ loc[p] \in Checkpoints
      /\ cp \in Checkpoints
  BY DEF TypeOK, StoresOK, ProcessesOK
<1>2. QED
  <2>1. CASE ValidateDecision(p)
    BY <1>1, <2>1, NoWrite DEF ValidateDecision, Goto, stores
  <2>2. CASE RefuseDecision(p)
    BY <1>1, <2>2, NoWrite DEF RefuseDecision, Leave, Goto, stores
  <2>3. CASE ClaimDecision(p)
    BY <1>1, <2>3
    DEF ClaimDecision, SaveAndGo, Store, CanSave, Goto, Holder, FrontLoc,
        Deciding, FrontShape, Saved, Checkpoints, Terminal
  <2>4. CASE EmitApprovalResolved(p)
    BY <1>1, <2>4, OneEvent DEF EmitApprovalResolved, Goto, Appends
  <2>5. CASE SaveDecision(p)
    BY <1>1, <2>5
    DEF SaveDecision, Store, CanSave, Leave, Goto, Holder, FrontLoc, Deciding,
        Leading, FrontShape, Saved, Checkpoints, Terminal
  <2>q. QED BY <2>1, <2>2, <2>3, <2>4, <2>5
           DEF ApproverAction

\* The process that goes on keeps what its copy says of the trace's end.
FrontKeeps(p) == Holder(p) /\ FrontLoc(p) => pc'[p] = "idle" \/ FrontLoc(p)'

\* Every step is a stutter or of one of the four kinds.
LEMMA FrontKinds ==
  ASSUME TypeOK, TypeSupport, FrontInv, [Next]_vars
  PROVE  \/ UNCHANGED vars
         \/ \E p \in Procs :
              \/ (Begins(p) \/ Loads(p)) /\ trace' = trace
              \/ (Works(p) \/ Saving(p)) /\ FrontShape(p) /\ FrontKeeps(p)
<1>1. ASSUME NEW p \in Procs, Run(p)
      PROVE  Begins(p) /\ trace' = trace
  BY <1>1 DEF Run, Begins, Others, Goto, stores, history, TypeOK, ProcessesOK
<1>2. ASSUME NEW p \in Procs, Resume(p)
      PROVE  Loads(p) /\ trace' = trace
  BY <1>2 DEF Resume, Loads, Others, Goto, stores, history, TypeOK, ProcessesOK
<1>3. ASSUME NEW p \in Procs, NEW n \in Steps, NEW d \in Decisions,
             Decide(p, n, d)
      PROVE  Loads(p) /\ trace' = trace
  BY <1>3 DEF Decide, Loads, Others, Goto, stores, TypeOK, ProcessesOK
<1>4. ASSUME NEW p \in Procs,
             StoreRefuses(p) \/ Stop(p) \/ StopDuringAppend(p)
      PROVE  Works(p) /\ FrontShape(p) /\ FrontKeeps(p)
  <2>1. Leave(p) /\ UNCHANGED <<cp, trace, begun, calls, effects>>
    BY <1>4 DEF StoreRefuses, Stop, StopDuringAppend, stores, history
  <2>2. pc[p] # "idle"
    BY <1>4 DEF StoreRefuses, Stop, StopDuringAppend, Appends, Saves
  <2>3. pc'[p] = "idle" /\ Works(p)
    BY <2>1, <2>2
    DEF Leave, Goto, Works, Others, Starting, TypeOK, ProcessesOK
  <2>q. QED BY <2>1, <2>3, NoWrite DEF FrontKeeps
<1>5. ASSUME NEW p \in Procs,
             DriveAction(p) \/ StepAction(p) \/ ApproverAction(p)
      PROVE  (Works(p) \/ Saving(p)) /\ FrontShape(p) /\ FrontKeeps(p)
  BY <1>5, DriveKinds, StepKinds, ApproverKinds, DriveShape, StepShape,
     ApproverShape, DriveFront, StepFront, ApproverFront
  DEF FrontKeeps, FrontInv, TypeOK
<1>q. QED
  BY <1>1, <1>2, <1>3, <1>4, <1>5 DEF Next, Procs

\* While p leads, nobody else can append.
LEMMA NoRival ==
  ASSUME TypeOK, OwnershipInv, FrontInv, NEW p \in Procs, NEW q \in Procs,
         Holder(q), pc[q] \in Leading \cup {"start"}, Adds(p)
  PROVE  p = q
<1>1. /\ loc[p].rev \in Nat /\ cp.rev \in Nat /\ cp.seq \in Nat
      /\ FrontLoc(q) /\ pc[p] # "idle" /\ loc[p].rev <= cp.rev
  BY DEF TypeOK, StoresOK, ProcessesOK, Checkpoints, FrontInv, OwnershipInv,
         RevInv, Adds, Appends
<1>2. CASE pc[p] \in Exclusive
  BY <1>2 DEF OwnershipInv, OwnInv, UniqueInv
<1>3. CASE pc[p] = "start"
  <2>1. cp.rev = 0 /\ ~cp.ready
    BY <1>3 DEF FrontInv, StartInv, Starting, OwnershipInv, FreshInv
  <2>2. Holder(p)
    BY <1>1, <2>1 DEF Holder
  <2>q. QED BY <2>1, <2>2 DEF OwnershipInv, UniqueInv
<1>4. CASE pc[p] = "finish"
  <2>1. /\ cp.status \in Terminal /\ loc[p].seq <= cp.seq
        /\ loc[p].seq = Len(trace)
    BY <1>4 DEF FrontInv, FinishInv, Adds, CanAppend
  <2>2. cp.rev # 0
    BY <1>4 DEF OwnershipInv, FreshInv, Starting
  <2>3. pc[q] \notin Starting
    BY <2>2 DEF FrontInv, StartInv
  <2>4. cp.status \notin {"running", "waiting"}
    BY <2>1 DEF Terminal
  <2>5. pc[q] = "finish_save"
    BY <1>1, <2>3, <2>4 DEF FrontLoc, Leading, Starting, Deciding
  <2>6. loc[q].seq = cp.seq + 1 /\ loc[q].seq = Len(trace)
    BY <1>1, <2>5 DEF FrontLoc, Leading, Leads
  <2>q. QED BY <1>1, <2>1, <2>6
<1>q. QED
  BY <1>2, <1>3, <1>4 DEF Adds, Appends, Exclusive, InStep

\* What another process does leaves what q's copy says of the trace's end.
LEMMA FrontOther ==
  ASSUME NEW q \in Procs, FrontLoc(q), cp' = cp,
         pc'[q] = pc[q], loc'[q] = loc[q],
         trace' = trace \/ pc[q] \notin Leading \cup {"start"}
  PROVE  FrontLoc(q)'
<1>1. CASE trace' = trace
  BY <1>1 DEF FrontLoc, Leads
<1>2. CASE pc[q] \notin Leading \cup {"start"}
  BY <1>2 DEF FrontLoc, Leading
<1>q. QED BY <1>1, <1>2

\* Every step keeps the checkpoint at the trace's end.
LEMMA FrontStep ==
  ASSUME IInv, IInv', FrontInv, [Next]_vars
  PROVE  FrontInv'
<1>1. /\ TypeOK /\ TypeSupport /\ OwnershipInv /\ OwnershipInv'
      /\ cp.rev \in Nat /\ cp.seq \in Nat
      /\ \A p \in Procs : loc[p].rev \in Nat /\ loc[p].seq \in Nat
  BY DEF IInv, TypeOK, StoresOK, ProcessesOK, Checkpoints
<1>2. CASE UNCHANGED vars
  BY <1>2
  DEF vars, stores, history, FrontInv, StartInv, FinishInv, Holder, FrontLoc,
      Leads, FrontierNamed, RecordedAt
<1>3. ASSUME NEW p \in Procs, Begins(p), trace' = trace
      PROVE  FrontInv'
  <2>1. /\ cp' = cp /\ cp.rev = 0 /\ ~cp.ready /\ begun' /\ trace = <<>>
        /\ pc'[p] = "start" /\ loc'[p] = [NoCheckpoint EXCEPT !.ready = TRUE]
        /\ \A q \in Procs \ {p} : pc'[q] = "idle"
    BY <1>1, <1>3
    DEF Begins, Others, OwnershipInv, FreshInv, FrontInv, StartInv
  <2>2. loc'[p].seq = 0 /\ loc'[p].status = "running"
    BY <2>1 DEF NoCheckpoint
  <2>3. FrontLoc(p)'
    BY <1>3, <2>1, <2>2
    DEF FrontLoc, Starting, Copying, InStep, Deciding, Finishing, Leading
  <2>q. QED
    BY <1>3, <2>1, <2>3
    DEF FrontInv, StartInv, FinishInv, Starting, Holder, FrontierNamed
<1>4. ASSUME NEW p \in Procs, Loads(p), trace' = trace
      PROVE  FrontInv'
  <2>1. /\ cp' = cp /\ begun /\ begun' /\ loc'[p] = cp
        /\ pc'[p] \in {"validate", "decide_validate"}
        /\ \A q \in Procs \ {p} : pc'[q] = pc[q] /\ loc'[q] = loc[q]
    BY <1>1, <1>4 DEF Loads, Others, OwnershipInv, FreshInv
  <2>2. FrontLoc(p)'
    BY <2>1
    DEF FrontLoc, Starting, Copying, InStep, Deciding, Finishing, Leading
  <2>3. \A q \in Procs \ {p} : Holder(q)' => FrontLoc(q)'
    BY <1>4, <2>1, FrontOther DEF FrontInv, Holder
  <2>4. StartInv' /\ FinishInv'
    BY <2>1 DEF FrontInv, StartInv, FinishInv, Starting
  <2>5. FrontierNamed'
    BY <1>4, <2>1 DEF FrontInv, FrontierNamed, RecordedAt
  <2>q. QED BY <2>2, <2>3, <2>4, <2>5 DEF FrontInv
<1>5. ASSUME NEW p \in Procs, Works(p), FrontShape(p), FrontKeeps(p)
      PROVE  FrontInv'
  <2>1. /\ cp' = cp /\ begun /\ begun' /\ pc[p] # "idle"
        /\ \A q \in Procs \ {p} : pc'[q] = pc[q] /\ loc'[q] = loc[q]
    BY <1>1, <1>5 DEF Works, Others, OwnershipInv, FreshInv
  <2>2. StartInv'
    BY <1>5, <2>1 DEF FrontInv, StartInv, Works, Starting
  <2>3. FinishInv'
    <3>1. pc'[p] = "finish" => loc'[p] = cp' /\ cp'.status \in Terminal
      BY <1>5 DEF FrontShape
    <3>q. QED BY <1>1, <2>1, <3>1 DEF FrontInv, FinishInv
  <2>4. Holder(p)' => FrontLoc(p)'
    BY <1>5, <2>1 DEF Works, FrontKeeps, FrontInv, Holder
  <2>5. \A q \in Procs \ {p} : Holder(q)' => FrontLoc(q)'
    <3> SUFFICES ASSUME NEW q \in Procs \ {p}, Holder(q)'
                 PROVE  FrontLoc(q)'
      OBVIOUS
    <3>1. Holder(q) /\ FrontLoc(q)
      BY <2>1 DEF Holder, FrontInv
    <3>2. trace' = trace \/ pc[q] \notin Leading \cup {"start"}
      BY <1>1, <1>5, <3>1, NoRival DEF FrontShape
    <3>q. QED BY <2>1, <3>1, <3>2, FrontOther
  <2>6. FrontierNamed'
    <3>1. CASE trace' = trace
      BY <2>1, <3>1 DEF FrontInv, FrontierNamed, RecordedAt
    <3>2. CASE Adds(p) /\ cp.ready
      <4>1. pc[p] = "finish"
        <5>1. pc[p] \notin Exclusive
          BY <3>2 DEF IInv, OwnershipInv, OwnInv
        <5>2. pc[p] # "start"
          BY <3>2 DEF IInv, OwnershipInv, FreshInv, FrontInv, StartInv, Starting
        <5>q. QED BY <3>2, <5>1, <5>2 DEF Adds, Appends, Exclusive, InStep
      <4> DEFINE e == [type |-> "finished", by |-> p, step |-> loc[p].steps,
                       val |-> loc[p].status]
      <4>2. /\ trace \in Seq(Events) /\ trace' = Append(trace, e)
            /\ loc[p].seq = Len(trace)
        BY <1>1, <3>2, <4>1 DEF Adds, CanAppend, TypeOK, StoresOK
      <4>3. /\ cp.status \in Terminal
            /\ loc[p].status = cp.status /\ loc[p].steps = cp.steps
            /\ loc[p].seq <= cp.seq
        BY <4>1 DEF FrontInv, FinishInv
      <4>4. /\ e.type = "finished" /\ e.step = cp.steps /\ e.val = cp.status
        BY <4>3
      <4> HIDE DEF e
      <4>5. /\ Len(trace) \in Nat /\ Len(trace') = Len(trace) + 1
            /\ trace'[Len(trace')] = e
            /\ \A i \in 1..Len(trace) : trace'[i] = trace[i]
            /\ DOMAIN trace = 1..Len(trace) /\ DOMAIN trace' = 1..Len(trace) + 1
        BY <4>2, Grown
      <4>6. cp.seq \in 1..Len(trace) /\ trace[cp.seq].by = cp.last
        BY <3>2, <4>5 DEF FrontInv, FrontierNamed
      <4>7. cp.seq = Len(trace)
        BY <1>1, <4>2, <4>3, <4>5, <4>6
      <4>8. cp'.seq \in DOMAIN trace' /\ trace'[cp'.seq].by = cp'.last
        BY <2>1, <4>5, <4>6
      <4>9. /\ Len(trace') = cp'.seq + 1
            /\ cp'.status \in Terminal
            /\ RecordedAt(Len(trace), "finished", cp.steps)'
            /\ trace'[Len(trace')].val = cp'.status
        BY <2>1, <4>3, <4>4, <4>5, <4>7 DEF RecordedAt
      <4>q. QED BY <4>8, <4>9 DEF FrontierNamed
    <3>3. CASE ~cp.ready
      BY <2>1, <3>3 DEF FrontierNamed
    <3>q. QED BY <1>5, <3>1, <3>2, <3>3 DEF FrontShape
  <2>q. QED BY <2>2, <2>3, <2>4, <2>5, <2>6 DEF FrontInv
<1>6. ASSUME NEW p \in Procs, Saving(p), FrontShape(p), FrontKeeps(p)
      PROVE  FrontInv'
  <2>1. /\ cp'.rev = cp.rev + 1 /\ begun /\ begun' /\ Holder(p) /\ FrontLoc(p)
        /\ \A q \in Procs \ {p} : pc'[q] = pc[q] /\ loc'[q] = loc[q]
        /\ pc'[p] \notin Starting
    BY <1>1, <1>6
    DEF Saving, CanSave, Others, OwnershipInv, FreshInv, Holder, FrontInv,
        Starting
  <2>2. Saved(p)
    BY <1>1, <1>6, <2>1 DEF FrontShape
  <2>3. StartInv'
    <3>1. \A q \in Procs \ {p} : pc[q] \notin Starting
      <4> SUFFICES ASSUME NEW q \in Procs \ {p}, pc[q] \in Starting
                   PROVE  FALSE
        OBVIOUS
      <4>1. cp.rev = 0 /\ ~cp.ready
        BY DEF IInv, OwnershipInv, FreshInv, FrontInv, StartInv
      <4>2. Holder(q)
        BY <1>1, <4>1 DEF OwnershipInv, RevInv, Holder, Starting
      <4>q. QED BY <2>1, <4>1, <4>2 DEF IInv, OwnershipInv, UniqueInv
    <3>q. QED BY <2>1, <3>1 DEF StartInv
  <2>4. FinishInv'
    <3>1. pc'[p] = "finish" => loc'[p] = cp' /\ cp'.status \in Terminal
      BY <1>6 DEF FrontShape
    <3>2. ASSUME NEW q \in Procs \ {p}, pc[q] = "finish"
          PROVE  /\ cp'.status \in Terminal
                 /\ loc[q].status = cp'.status
                 /\ loc[q].steps = cp'.steps
                 /\ loc[q].seq <= cp'.seq
      <4>1. /\ cp.status \in Terminal /\ loc[q].status = cp.status
            /\ loc[q].steps = cp.steps /\ loc[q].seq <= cp.seq
        BY <3>2 DEF FrontInv, FinishInv
      <4>2. cp.rev # 0
        BY <3>2 DEF IInv, OwnershipInv, FreshInv, Starting
      <4>3. cp'.status = cp.status /\ cp'.steps = cp.steps /\ cp'.seq >= cp.seq
        BY <2>2, <4>1, <4>2 DEF Saved
      <4>4. cp'.seq \in Nat
        BY DEF IInv, TypeOK, StoresOK, Checkpoints
      <4>q. QED BY <1>1, <4>1, <4>3, <4>4
    <3>3. pc'[p] = "finish" => loc'[p].seq <= cp'.seq
      BY <3>1 DEF IInv, TypeOK, StoresOK, Checkpoints
    <3>q. QED BY <2>1, <3>1, <3>2, <3>3 DEF FinishInv
  <2>5. Holder(p)' => FrontLoc(p)'
    BY <1>6, <2>1 DEF FrontKeeps, Holder
  <2>6. \A q \in Procs \ {p} : ~Holder(q)'
    BY <1>1, <2>1 DEF OwnershipInv, RevInv, Holder
  <2>7. FrontierNamed'
    <3>1. CASE cp'.ready
      <4>1. /\ cp'.seq = Len(trace') /\ Len(trace') > 0
            /\ trace'[cp'.seq].by = cp'.last
        BY <2>2, <3>1 DEF Saved, Leads
      <4>2. DOMAIN trace' = 1..Len(trace') /\ Len(trace') \in Nat
        BY LenProperties DEF IInv, TypeOK, StoresOK
      <4>q. QED BY <4>1, <4>2 DEF FrontierNamed
    <3>q. QED BY <3>1 DEF FrontierNamed
  <2>q. QED BY <2>3, <2>4, <2>5, <2>6, <2>7 DEF FrontInv
<1>q. QED
  BY <1>1, <1>2, <1>3, <1>4, <1>5, <1>6, FrontKinds

-----------------------------------------------------------------------------
(* What an event adds                                                      *)

\* The trace as it was gives what it gave.
LEMMA SameTrace ==
  ASSUME trace' = trace
  PROVE  Answers' = Answers /\ Decided' = Decided /\ Ends' = Ends
  BY DEF Answers, Decided, Ends

\* An event adds what it is about, and takes nothing back.
LEMMA NewEvent ==
  ASSUME TypeOK, NEW e, trace' = Append(trace, e)
  PROVE  /\ Answers' = IF e.type = "responded"
                       THEN Answers \cup {<<e.step, e.val>>} ELSE Answers
         /\ Decided' = IF e.type = "resolved"
                       THEN Decided \cup {<<e.step, e.val>>} ELSE Decided
         /\ Ends' = IF e.type \in {"tool", "verified"}
                    THEN Ends \cup {e.step} ELSE Ends
<1> DEFINE N == Len(trace)
<1>1. /\ N \in Nat
      /\ DOMAIN trace = 1..N /\ DOMAIN trace' = 1..N + 1
      /\ trace'[N + 1] = e
      /\ \A i \in 1..N : trace'[i] = trace[i]
  BY Grown DEF TypeOK, StoresOK
<1>2. DOMAIN trace' = DOMAIN trace \cup {N + 1}
  BY <1>1
<1>3. \A i \in DOMAIN trace : trace'[i] = trace[i]
  BY <1>1
<1> HIDE DEF N
<1>4. Answers' = IF e.type = "responded"
                 THEN Answers \cup {<<e.step, e.val>>} ELSE Answers
  BY <1>1, <1>2, <1>3 DEF Answers
<1>5. Decided' = IF e.type = "resolved"
                 THEN Decided \cup {<<e.step, e.val>>} ELSE Decided
  BY <1>1, <1>2, <1>3 DEF Decided
<1>6. Ends' = IF e.type \in {"tool", "verified"}
              THEN Ends \cup {e.step} ELSE Ends
  BY <1>1, <1>2, <1>3 DEF Ends
<1>q. QED BY <1>4, <1>5, <1>6

\* A step that records no response and no decision, and executes nothing.
Mild ==
  /\ \/ trace' = trace
     \/ \E e : trace' = Append(trace, e) /\ e.type # "resolved"
  /\ Answers' = Answers
  /\ Decided' = Decided
  /\ Ends \subseteq Ends'
  /\ effects' = effects
  /\ given \subseteq given'

\* Such a step leaves what the trace tells.
LEMMA MildKeeps ==
  ASSUME Mild
  PROVE  /\ AnsweredSteps' = AnsweredSteps
         /\ DecidedSteps' = DecidedSteps
         /\ Latest' = Latest
         /\ AccountedTo \subseteq AccountedTo'
         /\ TruePendings \subseteq TruePendings'
         /\ OnlyResponses' = OnlyResponses
<1>1. AnsweredSteps' = AnsweredSteps /\ DecidedSteps' = DecidedSteps
  BY DEF Mild, AnsweredSteps, DecidedSteps
<1>2. Latest' = Latest
  BY DEF Mild, Latest
<1>3. AccountedTo \subseteq AccountedTo'
  BY <1>1 DEF Mild, AccountedTo
<1>4. TruePendings \subseteq TruePendings'
  BY <1>1 DEF Mild, TruePendings
<1>5. OnlyResponses' = OnlyResponses
  BY <1>1 DEF Mild, OnlyResponses
<1>q. QED BY <1>1, <1>2, <1>3, <1>4, <1>5

\* Reads and saves are mild,
LEMMA QuietMild ==
  ASSUME trace' = trace, effects' = effects, given \subseteq given'
  PROVE  Mild
  BY SameTrace DEF Mild

\* and so are most events; the end of an action is recorded.
LEMMA EventMild ==
  ASSUME TypeOK, NEW p \in Procs, NEW type, NEW n, NEW val, NEW copy,
         Emit(p, type, n, val, copy), type \notin {"responded", "resolved"}
  PROVE  /\ Mild
         /\ loc'[p] = copy /\ want' = want /\ acks' = acks
         /\ type \in {"tool", "verified"} => n \in Ends'
<1> DEFINE e == [type |-> type, by |-> p, step |-> n, val |-> val]
<1>1. trace' = Append(trace, e) /\ effects' = effects /\ given' = given
  BY DEF Emit, history
<1>2. loc'[p] = copy /\ want' = want /\ acks' = acks
  BY DEF Emit, history, TypeOK, ProcessesOK
<1>3. e.type = type /\ e.step = n
  OBVIOUS
<1> HIDE DEF e
<1>4. /\ Answers' = Answers /\ Decided' = Decided
      /\ Ends' = IF type \in {"tool", "verified"} THEN Ends \cup {n} ELSE Ends
  BY <1>1, <1>3, NewEvent
<1>q. QED BY <1>1, <1>2, <1>3, <1>4 DEF Mild

\* Responses and decisions are about steps of the run.
LEMMA RecordedSteps ==
  ASSUME TypeOK
  PROVE  \A d \in Answers \cup Decided : d[1] \in 0..MaxSteps
<1>1. trace \in Seq(Events) /\ DOMAIN trace = 1..Len(trace)
  BY LenProperties DEF TypeOK, StoresOK
<1>2. \A i \in DOMAIN trace : trace[i] \in Events
  BY <1>1, ElementOfSeq
<1>3. \A i \in DOMAIN trace : trace[i].step \in 0..MaxSteps
  BY <1>2 DEF Events
<1>q. QED BY <1>3 DEF Answers, Decided

\* Whatever is latest or accounted for stays so.
LEMMA Counting ==
  ASSUME TypeOK
  PROVE  /\ \A j \in Latest, k \in 0..MaxSteps : j <= k => k \in Latest
         /\ \A k \in Steps : k \in AccountedTo =>
              k - 1 \in AccountedTo /\ k \in AnsweredSteps
         /\ \A k \in 0..MaxSteps :
              (/\ k - 1 \in AccountedTo
               /\ k \in AnsweredSteps
               /\ effects[k] = 0 \/ k \in Ends) => k \in AccountedTo
<1>1. MaxSteps \in Nat
  BY LifecycleAssumption DEF LifecycleAssumption
<1>2. ASSUME NEW j \in Latest, NEW k \in 0..MaxSteps, j <= k
      PROVE  k \in Latest
  <2>1. \A d \in Answers \cup Decided : d[1] \in 0..MaxSteps
    BY RecordedSteps
  <2>q. QED BY <1>1, <1>2, <2>1 DEF Latest
<1>3. ASSUME NEW k \in Steps, k \in AccountedTo
      PROVE  k - 1 \in AccountedTo /\ k \in AnsweredSteps
  BY <1>1, <1>3 DEF AccountedTo, Steps
<1>4. ASSUME NEW k \in 0..MaxSteps, k - 1 \in AccountedTo, k \in AnsweredSteps,
             effects[k] = 0 \/ k \in Ends
      PROVE  k \in AccountedTo
  BY <1>1, <1>4 DEF AccountedTo, Steps
<1>q. QED BY <1>2, <1>3, <1>4

-----------------------------------------------------------------------------
(* What is recorded of each step                                           *)

\* The process that goes on keeps what its copy tells of the steps.
LEMMA DriveBody ==
  ASSUME TypeOK, NEW p \in Procs, DriveAction(p)
  PROVE  /\ Mild /\ acks' = acks
         /\ BodyLoc(p) => pc'[p] = "idle" \/ BodyLoc(p)'
<1>1. /\ pc \in [Procs -> Labels]
      /\ loc \in [Procs -> Checkpoints]
      /\ loc[p] \in Checkpoints
      /\ act \in [Procs -> Acts]
      /\ act[p] \in Acts
      /\ want \in [Procs -> 0..MaxSteps]
  BY DEF TypeOK, ProcessesOK
<1>2. ProcessesOK
  BY DEF TypeOK
<1>3. /\ loc[p].steps \in 0..MaxSteps
      /\ NoPending \in TruePendings
  BY <1>1, FieldTyped, InitialTyped DEF TruePendings
<1>4. QED
  <2>1. CASE EmitRunStarted(p)
    <3>1. /\ pc[p] = "start"
          /\ pc' = [pc EXCEPT ![p] = "start_save"]
          /\ \E n, val : Emit(p, "started", n, val, Recorded(p))
          /\ act' = act
      BY <2>1, Zenon DEF EmitRunStarted, Goto
    <3>2. /\ Mild /\ loc'[p] = Recorded(p)
          /\ want'[p] = want[p] /\ acks' = acks
      BY <3>1, EventMild
    <3>3. /\ loc'[p].steps = loc[p].steps
          /\ loc'[p].pending = loc[p].pending
      BY <1>2, <3>2, RecordedFields
    <3>4. pc[p] = "start" /\ pc'[p] = "start_save"
      BY <1>1, <3>1
    <3>q. QED
      BY <1>3, <3>2, <3>3, <3>4, MildKeeps DEF BodyLoc, Balanced
  <2>2. CASE SaveStart(p)
    <3>1. /\ pc[p] = "start_save"
          /\ pc'[p] = "claim"
          /\ loc'[p].steps = loc[p].steps
          /\ loc'[p].pending = loc[p].pending
          /\ loc'[p].ready = loc[p].ready
          /\ act'[p] = act[p]
      BY <1>1, <2>2 DEF SaveStart, SaveAndGo, Store, Goto, Checkpoints
    <3>2. Mild /\ acks' = acks
      BY <2>2, QuietMild DEF SaveStart, SaveAndGo, Store, history
    <3>q. QED
      BY <1>3, <3>1, <3>2, MildKeeps DEF BodyLoc, Balanced, LocInv
  <2>3. CASE RefuseResume(p)
    BY <1>1, <2>3, QuietMild DEF RefuseResume, Leave, Goto, history, stores
  <2>4. CASE ReturnUnchanged(p)
    BY <1>1, <2>4, QuietMild DEF ReturnUnchanged, Leave, Goto, history, stores
  <2>5. CASE ContinueRun(p)
    <3>1. /\ pc[p] = "validate"
          /\ pc'[p] = "claim"
          /\ loc'[p].steps = loc[p].steps
          /\ loc'[p].pending = loc[p].pending
          /\ loc'[p].ready = loc[p].ready
      BY <1>1, <2>5 DEF ContinueRun, Goto, Checkpoints
    <3>2. Mild /\ acks' = acks
      BY <2>5, QuietMild DEF ContinueRun, history, stores
    <3>q. QED
      BY <1>3, <3>1, <3>2, MildKeeps DEF BodyLoc, Balanced, LocInv
  <2>6. CASE CompleteBookkeeping(p)
    <3>1. /\ pc[p] = "validate"
          /\ pc'[p] = "finish_claim"
          /\ loc'[p].steps = loc[p].steps
          /\ loc'[p].pending = loc[p].pending
          /\ loc'[p].ready = loc[p].ready
      BY <1>1, <2>6 DEF CompleteBookkeeping, Goto, Checkpoints
    <3>2. Mild /\ acks' = acks
      BY <2>6, QuietMild DEF CompleteBookkeeping, history, stores
    <3>q. QED
      BY <1>3, <3>1, <3>2, MildKeeps DEF BodyLoc, Balanced, LocInv
  <2>7. CASE ClaimBookkeeping(p)
    <3>1. /\ pc[p] = "finish_claim"
          /\ pc'[p] = "refinish"
          /\ loc'[p].steps = loc[p].steps
          /\ loc'[p].pending = loc[p].pending
      BY <1>1, <2>7 DEF ClaimBookkeeping, SaveAndGo, Store, Goto, Checkpoints
    <3>2. Mild /\ acks' = acks
      BY <2>7, QuietMild DEF ClaimBookkeeping, SaveAndGo, Store, history
    <3>q. QED
      BY <1>3, <3>1, <3>2, MildKeeps DEF BodyLoc, Balanced, LocInv
  <2>8. CASE EmitMissingFinished(p)
    <3>1. Emit(p, "finished", loc[p].steps, loc[p].status,
               [Recorded(p) EXCEPT !.ready = TRUE])
      BY <2>8 DEF EmitMissingFinished
    <3>2. /\ Mild /\ loc'[p] = [Recorded(p) EXCEPT !.ready = TRUE]
          /\ want'[p] = want[p] /\ acks' = acks
      BY <3>1, EventMild
    <3>3. /\ pc[p] = "refinish"
          /\ pc'[p] = "finish_save"
          /\ loc'[p].steps = loc[p].steps
          /\ loc'[p].pending = loc[p].pending
      BY <1>1, <1>2, <2>8, <3>2, RecordedFields DEF EmitMissingFinished, Goto, Checkpoints
    <3>q. QED
      BY <1>3, <3>2, <3>3, MildKeeps DEF BodyLoc, Balanced
  <2>9. CASE ClaimStep(p)
    <3>1. /\ pc[p] = "claim"
          /\ pc'[p] = "step"
          /\ loc'[p].steps = loc[p].steps
          /\ loc'[p].pending = loc[p].pending
      BY <1>1, <2>9 DEF ClaimStep, SaveAndGo, Store, Goto, Checkpoints
    <3>2. Mild /\ acks' = acks
      BY <2>9, QuietMild DEF ClaimStep, SaveAndGo, Store, history
    <3>q. QED
      BY <1>3, <3>1, <3>2, MildKeeps DEF BodyLoc, Balanced, LocInv
  <2>10. CASE EmitRunFinished(p)
    <3>1. Emit(p, "finished", loc[p].steps, loc[p].status, Recorded(p))
      BY <2>10 DEF EmitRunFinished
    <3>2. /\ Mild /\ loc'[p] = Recorded(p)
          /\ want'[p] = want[p] /\ acks' = acks
      BY <3>1, EventMild
    <3>3. /\ pc[p] = "finish"
          /\ pc'[p] = "finish_save"
          /\ loc'[p].steps = loc[p].steps
          /\ loc'[p].pending = loc[p].pending
          /\ loc'[p].ready = loc[p].ready
      BY <1>1, <1>2, <2>10, <3>2, RecordedFields DEF EmitRunFinished, Goto, Checkpoints
    <3>q. QED
      BY <1>3, <3>2, <3>3, MildKeeps DEF BodyLoc, Balanced
  <2>11. CASE SaveFinished(p)
    BY <1>1, <2>11, QuietMild DEF SaveFinished, Leave, Goto, Store, history
  <2>q. QED BY <2>1, <2>2, <2>3, <2>4, <2>5, <2>6, <2>7, <2>8, <2>9, <2>10,
              <2>11
           DEF DriveAction

\* The last step is accounted for once the outcome of its action is recorded.
LEMMA Closing ==
  ASSUME Mild, NEW k \in 0..MaxSteps, k - 1 \in AccountedTo,
         k \in AnsweredSteps, k \in Ends'
  PROVE  k \in AccountedTo'
<1>1. /\ MaxSteps \in Nat /\ AnsweredSteps' = AnsweredSteps
      /\ effects' = effects /\ Ends \subseteq Ends'
  BY LifecycleAssumption, MildKeeps DEF LifecycleAssumption, Mild
<1>2. ASSUME NEW n \in Steps, n <= k
      PROVE  n \in AnsweredSteps' /\ (effects'[n] > 0 => n \in Ends')
  <2>1. CASE n = k
    BY <1>1, <2>1
  <2>2. CASE n # k
    <3>1. n <= k - 1
      BY <1>1, <1>2, <2>2 DEF Steps
    <3>q. QED BY <1>1, <3>1 DEF AccountedTo
  <2>q. QED BY <2>1, <2>2
<1>q. QED BY <1>2 DEF AccountedTo

\* The process that goes on keeps what its copy tells of the steps.
LEMMA StepBody ==
  ASSUME TypeOK, TypeSupport, NEW p \in Procs, LocInv(p), BodyLoc(p), InHand(p),
         StepAction(p), ~EmitModelResponded(p), ~Execute(p), ~Verify(p)
  PROVE  Mild /\ acks' = acks /\ (pc'[p] = "idle" \/ BodyLoc(p)')
<1>1. /\ pc \in [Procs -> Labels]
      /\ loc \in [Procs -> Checkpoints]
      /\ loc[p] \in Checkpoints
      /\ act \in [Procs -> Acts]
      /\ act[p] \in Acts
      /\ want \in [Procs -> 0..MaxSteps]
  BY DEF TypeOK, ProcessesOK
<1>2. ProcessesOK
  BY DEF TypeOK
<1>3. /\ loc[p].steps \in 0..MaxSteps
      /\ NoPending \in TruePendings
  BY <1>1, FieldTyped, InitialTyped DEF TruePendings
<1>4. /\ loc[p].steps \in Steps /\ loc[p].steps \in AccountedTo =>
           loc[p].steps - 1 \in AccountedTo /\ loc[p].steps \in AnsweredSteps
      /\ loc[p].steps < MaxSteps /\ loc[p].steps \in Latest =>
           loc[p].steps + 1 \in Latest
      /\ MaxSteps \in Nat
  BY <1>3, Counting, LifecycleAssumption DEF LifecycleAssumption
<1>5. QED
  <2>1. CASE TakeUpDecision(p)
    <3>1. /\ pc[p] = "step" /\ loc[p].pending # NoPending
          /\ Mild /\ acks' = acks
      BY <2>1, QuietMild DEF TakeUpDecision, history, stores
    <3>2. /\ loc[p].pending.step = loc[p].steps /\ loc[p].steps \in Steps
          /\ loc[p].pending \in TruePendings
          /\ loc[p].steps \in Latest \cap AccountedTo
      BY <3>1 DEF LocInv, Consistent, Untouched, BodyLoc, Balanced
    <3>3. loc'[p].steps = loc[p].steps /\ loc'[p].pending = NoPending
      <4>1. \/ loc' = [loc EXCEPT ![p] = [loc[p] EXCEPT !.pending = NoPending]]
            \/ loc' = [loc EXCEPT ![p] = [[loc[p] EXCEPT !.pending = NoPending]
                                          EXCEPT !.status = "timeout"]]
        BY <1>1, <2>1 DEF TakeUpDecision
      <4>2. CASE loc' = [loc EXCEPT ![p] = [loc[p] EXCEPT !.pending = NoPending]]
        BY <1>1, <4>2 DEF Checkpoints
      <4>3. CASE loc' = [loc EXCEPT ![p] = [[loc[p] EXCEPT !.pending = NoPending]
                                            EXCEPT !.status = "timeout"]]
        BY <1>1, <4>3 DEF Checkpoints
      <4>q. QED BY <4>1, <4>2, <4>3
    <3>4. CASE pc'[p] = "exec"
      <4>1. loc[p].pending.approved = "yes" /\ act'[p] = "approved"
        BY <1>1, <2>1, <3>4 DEF TakeUpDecision, Goto
      <4>2. <<loc[p].steps, "yes">> \in Decided \cap given
        BY <3>1, <3>2, <4>1 DEF TruePendings
      <4>q. QED
        BY <1>3, <3>1, <3>2, <3>3, <3>4, <4>1, <4>2, MildKeeps
        DEF BodyLoc, Balanced, Mild
    <3>5. CASE pc'[p] \in {"toolend", "settle"}
      BY <1>3, <1>4, <3>1, <3>2, <3>3, <3>5, MildKeeps DEF BodyLoc, Balanced
    <3>6. pc'[p] \in {"exec", "toolend", "settle"}
      BY <1>1, <2>1 DEF TakeUpDecision, Goto
    <3>q. QED BY <3>1, <3>4, <3>5, <3>6
  <2>2. CASE CheckBudgets(p)
    <3>1. \/ loc' = loc
          \/ \E s \in Statuses : loc' = [loc EXCEPT ![p].status = s]
      BY <2>2, StatusNames DEF CheckBudgets, EndStep, Raise, Terminal
    <3>2. loc'[p].steps = loc[p].steps /\ loc'[p].pending = loc[p].pending
      BY <1>1, <3>1 DEF Checkpoints
    <3>3. /\ pc[p] \in {"step"}
          /\ pc'[p] \in {"settle", "fail", "request"}
      BY <1>1, <2>2 DEF CheckBudgets, EndStep, Raise, Goto
    <3>4. Mild /\ acks' = acks
      BY <2>2, QuietMild DEF CheckBudgets, EndStep, Raise, history, stores
    <3>q. QED
      BY <1>3, <3>2, <3>3, <3>4, MildKeeps DEF BodyLoc, Balanced
  <2>3. CASE EmitModelRequested(p)
    <3> DEFINE copy == [Recorded(p) EXCEPT !.steps = @ + 1]
    <3>1. /\ copy.steps = loc[p].steps + 1
          /\ copy.pending = loc[p].pending
      BY <1>2, RecordedFields DEF Checkpoints
    <3>2. \E n, val : Emit(p, "requested", n, val, copy)
      BY <2>3, Zenon DEF EmitModelRequested
    <3>3. pc[p] = "request" /\ pc'[p] = "call"
      BY <1>1, <2>3, Zenon DEF EmitModelRequested, Goto
    <3> HIDE DEF copy
    <3>4. Mild /\ loc'[p] = copy /\ acks' = acks
      BY <3>2, EventMild
    <3>5. loc[p].steps < MaxSteps
      BY <3>3 DEF TypeSupport
    <3>6. loc'[p].steps - 1 = loc[p].steps
      BY <1>3, <3>1, <3>4
    <3>q. QED
      BY <1>3, <1>4, <3>1, <3>3, <3>4, <3>5, <3>6, MildKeeps DEF BodyLoc, Balanced
  <2>4. CASE CallModel(p)
    <3>1. \/ loc' = loc
          \/ \E s \in Statuses : loc' = [loc EXCEPT ![p].status = s]
      BY <2>4, StatusNames DEF CallModel, EndStep, Raise, Terminal
    <3>2. loc'[p].steps = loc[p].steps /\ loc'[p].pending = loc[p].pending
      BY <1>1, <3>1 DEF Checkpoints
    <3>3. /\ pc[p] = "call"
          /\ pc'[p] \in {"respond", "settle", "fail"}
          /\ pc'[p] = "settle" => loc'[p].status = "timeout"
      BY <1>1, <2>4 DEF CallModel, EndStep, Raise, Goto, Checkpoints
    <3>4. Mild /\ acks' = acks
      BY <2>4, QuietMild DEF CallModel, stores
    <3>q. QED
      BY <1>3, <3>2, <3>3, <3>4, MildKeeps DEF BodyLoc, Balanced, Settled
  <2>6. CASE EmitToolCalled(p)
    <3>1. \E n, val : Emit(p, "called", n, val,
                    Recorded(p))
      BY <2>6, Zenon DEF EmitToolCalled
    <3>2. /\ Mild /\ loc'[p] = Recorded(p)
          /\ want'[p] = want[p] /\ acks' = acks
      BY <3>1, EventMild
    <3>3. loc'[p].steps = loc[p].steps /\ loc'[p].pending = loc[p].pending
      BY <1>1, <1>2, <3>2, RecordedFields DEF Checkpoints
    <3>4. pc[p] = "toolcall"
      BY <2>6, Zenon DEF EmitToolCalled
    <3>5. /\ pc'[p] \in {"exec", "toolend"}
          /\ pc'[p] = "exec" => act[p] = "allow" /\ act'[p] = "allow"
      BY <1>1, <2>6, Zenon DEF EmitToolCalled, Goto
    <3>6. loc[p].steps \in Steps
      BY <3>4 DEF LocInv, BeforeEffect, Untouched
    <3>q. QED
      BY <1>3, <1>4, <3>6, <3>2, <3>3, <3>4, <3>5, MildKeeps DEF BodyLoc, Balanced
  <2>7. CASE EmitToolCalledForApproval(p)
    <3> DEFINE q == [step |-> loc[p].steps, approved |-> "undecided"]
               copy == [Recorded(p) EXCEPT !.status = "waiting", !.pending = q]
    <3>1. copy.steps = loc[p].steps /\ copy.pending = q
      BY <1>2, RecordedFields DEF Checkpoints
    <3>2. \E n, val : Emit(p, "called", n, val, copy)
      BY <2>7, Zenon DEF EmitToolCalledForApproval
    <3>3. pc[p] = "toolcall" /\ pc'[p] = "ask"
      BY <1>1, <2>7, Zenon DEF EmitToolCalledForApproval, Goto
    <3>4. q \in TruePendings
      <4>1. loc[p].steps \notin DecidedSteps
        BY <3>3 DEF BodyLoc, OnlyResponses
      <4>q. QED BY <1>3, <4>1 DEF TruePendings, Pendings
    <3> HIDE DEF q, copy
    <3>5. Mild /\ loc'[p] = copy /\ acks' = acks
      BY <3>2, EventMild
    <3>q. QED
      BY <1>3, <3>1, <3>3, <3>4, <3>5, MildKeeps DEF BodyLoc, Balanced
  <2>8. CASE EmitApprovalRequested(p)
    <3>1. \E n, val : Emit(p, "approval", n, val,
                    Recorded(p))
      BY <2>8, Zenon DEF EmitApprovalRequested
    <3>2. /\ Mild /\ loc'[p] = Recorded(p)
          /\ want'[p] = want[p] /\ acks' = acks
      BY <3>1, EventMild
    <3>3. loc'[p].steps = loc[p].steps /\ loc'[p].pending = loc[p].pending
      BY <1>1, <1>2, <3>2, RecordedFields DEF Checkpoints
    <3>4. pc[p] = "ask"
      BY <2>8, Zenon DEF EmitApprovalRequested
    <3>5. /\ pc'[p] = "settle"
      BY <1>1, <2>8, Zenon DEF EmitApprovalRequested, Goto
    <3>q. QED
      BY <1>3, <3>2, <3>3, <3>4, <3>5, MildKeeps DEF BodyLoc, Balanced
  <2>10. CASE EmitToolEnd(p)
    <3>1. PICK s \in {"running", "timeout", "failed", "cancelled"} :
            \E val : Emit(p, "tool", loc[p].steps, val,
                         [Recorded(p) EXCEPT !.status = s])
      BY <2>10, Zenon DEF EmitToolEnd
    <3> DEFINE copy == [Recorded(p) EXCEPT !.status = s]
    <3>2. /\ copy.steps = loc[p].steps
          /\ copy.pending = loc[p].pending
          /\ copy.status = s
      BY <1>2, RecordedFields DEF Checkpoints
    <3> HIDE DEF copy
    <3>3. Mild /\ loc'[p] = copy /\ acks' = acks /\ loc[p].steps \in Ends'
      BY <3>1, EventMild DEF copy
    <3>4. pc[p] = "toolend"
      BY <2>10, Zenon DEF EmitToolEnd
    <3>5. /\ pc'[p] \in {"output", "settle", "fail"}
      BY <1>1, <2>10, Zenon DEF EmitToolEnd, Goto
    <3>6. loc[p].steps \in AccountedTo'
      BY <1>3, <3>3, <3>4, Closing DEF BodyLoc
    <3>q. QED
      BY <1>3, <3>2, <3>3, <3>4, <3>5, <3>6, MildKeeps DEF BodyLoc, Balanced
  <2>11. CASE ProcessOutput(p)
    <3>1. \/ loc' = loc
          \/ \E s \in Statuses : loc' = [loc EXCEPT ![p].status = s]
      BY <2>11, StatusNames DEF ProcessOutput, EndStep, Raise, Terminal
    <3>2. loc'[p].steps = loc[p].steps /\ loc'[p].pending = loc[p].pending
      BY <1>1, <3>1 DEF Checkpoints
    <3>3. /\ pc[p] \in {"output"}
          /\ pc'[p] \in {"settle", "fail"}
      BY <1>1, <2>11 DEF ProcessOutput, EndStep, Raise, Goto
    <3>4. Mild /\ acks' = acks
      BY <2>11, QuietMild DEF ProcessOutput, EndStep, Raise, history, stores
    <3>q. QED
      BY <1>3, <3>2, <3>3, <3>4, MildKeeps DEF BodyLoc, Balanced
  <2>13. CASE EmitVerificationFinished(p)
    <3>1. PICK s \in {"completed", "running", "verification_failed"} :
            \E val : Emit(p, "verified", loc[p].steps, val,
                         [Recorded(p) EXCEPT !.status = s])
      BY <2>13, Zenon DEF EmitVerificationFinished
    <3> DEFINE copy == [Recorded(p) EXCEPT !.status = s]
    <3>2. /\ copy.steps = loc[p].steps
          /\ copy.pending = loc[p].pending
          /\ copy.status = s
      BY <1>2, RecordedFields DEF Checkpoints
    <3> HIDE DEF copy
    <3>3. Mild /\ loc'[p] = copy /\ acks' = acks /\ loc[p].steps \in Ends'
      BY <3>1, EventMild DEF copy
    <3>4. pc[p] = "verified"
      BY <2>13, Zenon DEF EmitVerificationFinished
    <3>5. pc'[p] = "settle"
      BY <1>1, <2>13, Zenon DEF EmitVerificationFinished, Goto
    <3>6. loc[p].steps \in AccountedTo'
      BY <1>3, <3>3, <3>4, Closing DEF BodyLoc
    <3>q. QED
      BY <1>3, <3>2, <3>3, <3>4, <3>5, <3>6, MildKeeps DEF BodyLoc, Balanced
  <2>14. CASE SettleStep(p)
    <3>1. /\ pc[p] = "settle"
          /\ pc'[p] = IF loc[p].status = "running" THEN "claim" ELSE "finish"
          /\ loc'[p].steps = loc[p].steps
          /\ loc'[p].pending = loc[p].pending
          /\ loc'[p].ready = AtBoundary(p)
      BY <1>1, <2>14 DEF SettleStep, SaveAndGo, Store, Goto, Checkpoints
    <3>2. Mild /\ acks' = acks
      BY <2>14, QuietMild DEF SettleStep, SaveAndGo, Store, history
    <3>3. AtBoundary(p) => loc[p].steps \in AccountedTo
      BY <3>1 DEF AtBoundary, BodyLoc
    <3>4. loc[p].status = "running" => AtBoundary(p)
      BY DEF AtBoundary, Settled, InHand
    <3>q. QED
      BY <1>3, <3>1, <3>2, <3>3, <3>4, MildKeeps DEF BodyLoc, Balanced
  <2>15. CASE ReturnWaiting(p)
    BY <1>1, <2>15, QuietMild DEF ReturnWaiting, Store, Leave, Goto, history
  <2>16. CASE EmitTerminalError(p)
    <3>1. \E t \in {"finished", "failed"} : \E n, val :
            Emit(p, t, n, val, Recorded(p))
      BY <2>16, Zenon DEF EmitTerminalError
    <3>2. Mild /\ loc'[p] = Recorded(p) /\ acks' = acks
      BY <3>1, EventMild
    <3>3. loc'[p].steps = loc[p].steps /\ loc'[p].pending = loc[p].pending
      BY <1>2, <3>2, RecordedFields
    <3>4. pc[p] = "fail" /\ pc'[p] = "fail_save"
      BY <1>1, <2>16, Zenon DEF EmitTerminalError, Goto
    <3>q. QED
      BY <1>3, <3>2, <3>3, <3>4, MildKeeps DEF BodyLoc, Balanced
  <2>17. CASE SaveInterrupted(p)
    BY <1>1, <2>17, QuietMild DEF SaveInterrupted, Store, Leave, Goto, history
  <2>18. CASE SkipBestEffort(p)
    <3>1. \/ loc' = loc
          \/ \E s \in Statuses : loc' = [loc EXCEPT ![p].status = s]
      BY <2>18, StatusNames DEF SkipBestEffort, Raise, Terminal
    <3>2. loc'[p].steps = loc[p].steps /\ loc'[p].pending = loc[p].pending
      BY <1>1, <3>1 DEF Checkpoints
    <3>3. /\ pc[p] \in {"toolend", "fail"}
          /\ pc'[p] \in {"fail", "fail_save"}
      BY <1>1, <2>18 DEF SkipBestEffort, BestEffort, Raise, Goto
    <3>4. Mild /\ acks' = acks
      BY <2>18, QuietMild DEF SkipBestEffort, Raise, history, stores
    <3>q. QED
      BY <1>3, <3>2, <3>3, <3>4, MildKeeps DEF BodyLoc, Balanced
  <2>q. QED BY <2>1, <2>2, <2>3, <2>4, <2>6, <2>7, <2>8, <2>10, <2>11, <2>13,
              <2>14, <2>15, <2>16, <2>17, <2>18
           DEF StepAction

\* What the history tells of the recorded decisions.
LedgerInv == ResolvedOnce /\ AcksInv /\ ConsentInv

\* An event that is no second decision about a step leaves one for each.
LEMMA OnceKept ==
  ASSUME TypeOK, ResolvedOnce, NEW e, trace' = Append(trace, e),
         e.type = "resolved" => e.step \notin DecidedSteps
  PROVE  ResolvedOnce'
<1> DEFINE N == Len(trace)
<1>1. /\ N \in Nat
      /\ DOMAIN trace = 1..N /\ DOMAIN trace' = 1..N + 1
      /\ trace'[N + 1] = e
      /\ \A i \in 1..N : trace'[i] = trace[i]
  BY Grown DEF TypeOK, StoresOK
<1>2. /\ DOMAIN trace' = DOMAIN trace \cup {N + 1}
      /\ \A i \in DOMAIN trace : trace'[i] = trace[i]
  BY <1>1
<1>3. \A i \in DOMAIN trace : trace[i].type = "resolved" =>
        trace[i].step \in DecidedSteps
  <2> SUFFICES ASSUME NEW i \in DOMAIN trace, trace[i].type = "resolved"
               PROVE  trace[i].step \in DecidedSteps
    OBVIOUS
  <2> DEFINE d == <<trace[i].step, trace[i].val>>
  <2>1. d \in Decided
    BY DEF Decided
  <2>2. d[1] = trace[i].step
    OBVIOUS
  <2> HIDE DEF d
  <2>q. QED BY <2>1, <2>2 DEF DecidedSteps
<1> HIDE DEF N
<1> SUFFICES ASSUME NEW i \in DOMAIN trace', NEW j \in DOMAIN trace',
                    trace'[i].type = "resolved", trace'[j].type = "resolved",
                    trace'[i].step = trace'[j].step
             PROVE  i = j
  BY DEF ResolvedOnce
<1>4. CASE i \in DOMAIN trace /\ j \in DOMAIN trace
  BY <1>2, <1>4 DEF ResolvedOnce
<1>5. CASE i \in DOMAIN trace /\ j = N + 1
  BY <1>1, <1>2, <1>3, <1>5
<1>6. CASE i = N + 1 /\ j \in DOMAIN trace
  BY <1>1, <1>2, <1>3, <1>6
<1>7. CASE i = N + 1 /\ j = N + 1
  BY <1>7
<1>q. QED BY <1>2, <1>4, <1>5, <1>6, <1>7

\* A mild step that confirms nothing leaves the ledger.
LEMMA MildLedger ==
  ASSUME TypeOK, Mild, acks' = acks, LedgerInv
  PROVE  LedgerInv'
<1>1. ResolvedOnce'
  <2>1. CASE trace' = trace
    BY <2>1 DEF LedgerInv, ResolvedOnce
  <2>q. QED BY <2>1, OnceKept DEF Mild, LedgerInv
<1>2. AcksInv'
  BY DEF Mild, LedgerInv, AcksInv
<1>3. ConsentInv'
  BY DEF Mild, LedgerInv, ConsentInv
<1>q. QED BY <1>1, <1>2, <1>3 DEF LedgerInv

\* One decision is recorded for each step, whatever it is.
LEMMA OneValue ==
  ASSUME ResolvedOnce, NEW n, NEW v, NEW w, <<n, v>> \in Decided, <<n, w>> \in Decided
  PROVE  v = w
<1>1. PICK i \in DOMAIN trace :
        trace[i].type = "resolved" /\ trace[i].step = n /\ trace[i].val = v
  BY DEF Decided
<1>2. PICK j \in DOMAIN trace :
        trace[j].type = "resolved" /\ trace[j].step = n /\ trace[j].val = w
  BY DEF Decided
<1>q. QED BY <1>1, <1>2 DEF ResolvedOnce

\* What was confirmed was recorded.
LEMMA AcksDecided ==
  ASSUME AcksInv
  PROVE  \A d \in acks : d[2] \in DecidedSteps
<1> SUFFICES ASSUME NEW d \in acks PROVE d[2] \in DecidedSteps
  OBVIOUS
<1> DEFINE c == <<d[2], d[3]>>
<1>1. c \in Decided /\ c[1] = d[2]
  BY DEF AcksInv
<1> HIDE DEF c
<1>q. QED BY <1>1 DEF DecidedSteps

\* A response is recorded once, for a step whose action is yet to come.
LEMMA RespondBody ==
  ASSUME TypeOK, NEW p \in Procs, LocInv(p), BodyLoc(p), LedgerInv,
         EmitModelResponded(p)
  PROVE  BodyLoc(p)' /\ LedgerInv' /\ given' = given
<1> DEFINE k == loc[p].steps
<1>1. /\ loc[p] \in Checkpoints
      /\ act[p] \in Acts
      /\ k \in 0..MaxSteps
      /\ MaxSteps \in Nat
      /\ NoPending \in TruePendings
      /\ ProcessesOK
  BY FieldTyped, InitialTyped, LifecycleAssumption
  DEF TypeOK, ProcessesOK, TruePendings, LifecycleAssumption
<1>2. PICK s \in {"running", "completed", "failed", "timeout"} :
        Emit(p, "responded", loc[p].steps, act[p], [Recorded(p) EXCEPT !.status = s])
  BY Zenon DEF EmitModelResponded
<1>3. /\ pc[p] = "respond"
      /\ act' = act
      /\ pc' \in {[pc EXCEPT ![p] = "fail"], [pc EXCEPT ![p] = "verify"],
                  [pc EXCEPT ![p] = "settle"], [pc EXCEPT ![p] = "toolcall"]}
      /\ pc' = [pc EXCEPT ![p] = "verify"] => act[p] = "final"
  <2>1. /\ pc[p] = "respond" /\ act' = act
    BY Zenon DEF EmitModelResponded
  <2>2. \/ Goto(p, "fail")
        \/ Goto(p, "verify") /\ act[p] = "final"
        \/ Goto(p, "settle")
        \/ Goto(p, "toolcall")
    BY DEF EmitModelResponded
  <2>q. QED BY <2>1, <2>2 DEF Goto, TypeOK, ProcessesOK
<1>4. /\ pc'[p] \in {"fail", "verify", "settle", "toolcall"}
      /\ pc'[p] = "verify" => act'[p] = "final"
      /\ act'[p] = act[p]
  BY <1>3 DEF TypeOK, ProcessesOK
<1>5. /\ k \in Steps /\ effects[k] = 0
      /\ loc[p].pending = NoPending
      /\ k - 1 \in Latest \cap AccountedTo
  BY <1>3 DEF LocInv, BeforeEffect, Untouched, NonePending, InStep, BodyLoc
<1> DEFINE e == [type |-> "responded", by |-> p, step |-> k, val |-> act[p]]
           copy == [Recorded(p) EXCEPT !.status = s]
<1>6. /\ trace' = Append(trace, e) /\ effects' = effects /\ given' = given
      /\ acks' = acks /\ loc'[p] = copy /\ e.type = "responded"
      /\ e.step = k /\ e.val = act[p]
  BY <1>2 DEF Emit, history, TypeOK, ProcessesOK
<1>7. copy.steps = k /\ copy.pending = NoPending
  BY <1>1, <1>5, RecordedFields DEF Checkpoints
<1> HIDE DEF e, copy
<1>8. /\ Answers' = Answers \cup {<<k, act[p]>>}
      /\ Decided' = Decided
      /\ Ends' = Ends
  BY <1>6, NewEvent
<1> HIDE DEF k
<1>9. \A d \in Answers \cup Decided : d[1] <= k - 1
  BY <1>5 DEF Latest
<1>10. k \in Latest'
  <2>1. \A d \in Answers \cup Decided : d[1] <= k
    <3>1. \A d \in Answers \cup Decided : d[1] \in 0..MaxSteps
      BY RecordedSteps
    <3>q. QED BY <1>1, <1>9, <3>1
  <2>2. \A d \in Answers' \cup Decided' : d[1] <= k
    BY <1>1, <1>8, <2>1
  <2>q. QED BY <1>1, <2>2 DEF Latest
<1>11. /\ DecidedSteps' = DecidedSteps
       /\ AnsweredSteps' = AnsweredSteps \cup {k}
  <2> DEFINE d == <<k, act[p]>>
  <2>1. d[1] = k /\ Answers' = Answers \cup {d}
    BY <1>8
  <2> HIDE DEF d
  <2>2. AnsweredSteps' = AnsweredSteps \cup {k}
    BY <2>1 DEF AnsweredSteps
  <2>3. DecidedSteps' = DecidedSteps
    BY <1>8 DEF DecidedSteps
  <2>q. QED BY <2>2, <2>3
<1>12. k \in AccountedTo'
  <2>1. ASSUME NEW n \in Steps, n <= k
        PROVE  n \in AnsweredSteps' /\ (effects'[n] > 0 => n \in Ends')
    <3>1. CASE n = k
      BY <1>5, <1>6, <1>11, <3>1
    <3>2. CASE n # k
      <4>1. n <= k - 1
        BY <1>1, <2>1, <3>2 DEF Steps
      <4>q. QED BY <1>5, <1>6, <1>8, <1>11, <4>1 DEF AccountedTo
    <3>q. QED BY <3>1, <3>2
  <2>q. QED BY <1>1, <2>1 DEF AccountedTo
<1>13. <<k, act[p]>> \in OnlyResponses'
  <2>1. \A d \in Answers : d[1] # k
    BY <1>1, <1>9
  <2>2. k \notin DecidedSteps
    BY <1>1, <1>9 DEF DecidedSteps
  <2>3. \A d \in Answers' : d[1] = k => d = <<k, act[p]>>
    BY <1>8, <2>1
  <2>q. QED BY <1>1, <1>11, <2>2, <2>3 DEF OnlyResponses
<1>14. NoPending \in TruePendings'
  BY <1>1 DEF TruePendings
<1>15. BodyLoc(p)'
  BY <1>4, <1>6, <1>7, <1>10, <1>12, <1>13, <1>14 DEF BodyLoc, Balanced
<1>16. LedgerInv'
  <2>1. ResolvedOnce'
    BY <1>6, OnceKept DEF LedgerInv
  <2>2. AcksInv'
    BY <1>6, <1>8 DEF LedgerInv, AcksInv
  <2>3. ConsentInv'
    BY <1>5, <1>6, <1>8 DEF LedgerInv, ConsentInv
  <2>q. QED BY <2>1, <2>2, <2>3 DEF LedgerInv
<1>q. QED BY <1>6, <1>15, <1>16

\* Executing an action leaves the trace, and is accounted for up to it.
LEMMA Executing ==
  ASSUME trace' = trace, NEW k \in Steps, k - 1 \in AccountedTo,
         TypeOK, effects' = [effects EXCEPT ![k] = @ + 1]
  PROVE  k - 1 \in AccountedTo'
<1>1. /\ Answers' = Answers /\ Ends' = Ends /\ AnsweredSteps' = AnsweredSteps
      /\ k \in Nat
  BY SameTrace, LifecycleAssumption
  DEF AnsweredSteps, LifecycleAssumption, Steps
<1>2. ASSUME NEW n \in Steps, n <= k - 1
      PROVE  effects'[n] = effects[n]
  BY <1>1, <1>2 DEF TypeOK, HistoryOK, Steps
<1>q. QED BY <1>1, <1>2 DEF AccountedTo

\* An action is executed with what the policy or a human decided about it.
LEMMA ConsentKept ==
  ASSUME TypeOK, LedgerInv, trace' = trace, given' = given, acks' = acks,
         NEW k \in Steps, effects' = [effects EXCEPT ![k] = @ + 1],
         \/ \E r \in Acts \ {"ask"} : <<k, r>> \in OnlyResponses
         \/ <<k, "yes">> \in Decided \cap given
  PROVE  LedgerInv'
<1>1. Answers' = Answers /\ Decided' = Decided
  BY SameTrace
<1>2. ResolvedOnce' /\ AcksInv'
  BY <1>1 DEF LedgerInv, ResolvedOnce, AcksInv
<1>3. /\ <<k, "ask">> \in Answers => <<k, "yes">> \in Decided \cap given
      /\ \A d \in acks : <<d[2], d[3]>> # <<k, "no">>
  <2>1. CASE <<k, "yes">> \in Decided \cap given
    <3>1. \A d \in acks : <<d[2], d[3]>> # <<k, "no">>
      <4> SUFFICES ASSUME NEW d \in acks, <<d[2], d[3]>> = <<k, "no">>
                   PROVE  FALSE
        OBVIOUS
      <4>1. <<k, "no">> \in Decided
        BY DEF LedgerInv, AcksInv
      <4>2. "yes" = "no"
        BY <2>1, <4>1, OneValue DEF LedgerInv
      <4>q. QED BY <4>2
    <3>q. QED BY <2>1, <3>1
  <2>2. ASSUME NEW r \in Acts \ {"ask"}, <<k, r>> \in OnlyResponses
        PROVE  /\ <<k, "ask">> \notin Answers
               /\ \A d \in acks : d[2] # k
    <3> DEFINE a == <<k, r>>
               b == <<k, "ask">>
    <3>1. /\ a[1] = k /\ b[1] = k /\ a # b
      BY <2>2
    <3>2. a \in OnlyResponses
      BY <2>2
    <3> HIDE DEF a, b
    <3>3. k \notin DecidedSteps /\ b \notin Answers
      BY <3>1, <3>2 DEF OnlyResponses
    <3>4. \A d \in acks : d[2] \in DecidedSteps
      BY AcksDecided DEF LedgerInv
    <3>q. QED BY <3>3, <3>4 DEF b
  <2>q. QED BY <2>1, <2>2
<1>4. ConsentInv'
  <2> SUFFICES ASSUME NEW n \in Steps, effects'[n] > 0
               PROVE  /\ <<n, "ask">> \in Answers => <<n, "yes">> \in Decided \cap given
                      /\ \A d \in acks : <<d[2], d[3]>> # <<n, "no">>
    BY <1>1 DEF ConsentInv
  <2>1. CASE n = k
    BY <1>3, <2>1
  <2>2. CASE n # k
    <3>1. effects[n] > 0
      BY <2>2 DEF TypeOK, HistoryOK
    <3>q. QED BY <3>1 DEF LedgerInv, ConsentInv
  <2>q. QED BY <2>1, <2>2
<1>q. QED BY <1>2, <1>4 DEF LedgerInv

\* What the executing process knows of the step it is in.
LEMMA BeforeExecuting ==
  ASSUME TypeOK, NEW p \in Procs, LocInv(p), BodyLoc(p), pc[p] \in {"exec", "verify"}
  PROVE  /\ loc[p].steps \in Steps
         /\ loc[p].steps - 1 \in AccountedTo
         /\ loc[p].steps \in AnsweredSteps
         /\ \/ \E r \in Acts \ {"ask"} : <<loc[p].steps, r>> \in OnlyResponses
            \/ <<loc[p].steps, "yes">> \in Decided \cap given
<1>1. loc[p].steps \in Steps /\ loc[p].steps \in AccountedTo
  BY DEF LocInv, BeforeEffect, Untouched, BodyLoc, Balanced
<1>2. loc[p].steps - 1 \in AccountedTo /\ loc[p].steps \in AnsweredSteps
  BY <1>1, Counting
<1>3. CASE pc[p] = "exec" /\ act[p] # "allow"
  BY <1>1, <1>2, <1>3 DEF BodyLoc
<1>4. CASE pc[p] = "verify" \/ act[p] = "allow"
  <2>1. act[p] \in Acts \ {"ask"}
    BY <1>4 DEF BodyLoc, Acts, Responses
  <2>2. <<loc[p].steps, act[p]>> \in OnlyResponses
    BY <1>4 DEF BodyLoc
  <2>q. QED BY <1>1, <1>2, <2>1, <2>2
<1>q. QED BY <1>3, <1>4

\* The tool, or the suite, runs with what was decided about it.
LEMMA ExecuteBody ==
  ASSUME TypeOK, NEW p \in Procs, LocInv(p), BodyLoc(p), LedgerInv,
         Execute(p) \/ Verify(p)
  PROVE  BodyLoc(p)' /\ LedgerInv' /\ given' = given
<1> DEFINE k == loc[p].steps
<1>1. /\ pc \in [Procs -> Labels]
      /\ loc \in [Procs -> Checkpoints]
      /\ loc[p] \in Checkpoints
      /\ act \in [Procs -> Acts]
      /\ k \in 0..MaxSteps
      /\ NoPending \in TruePendings
  BY FieldTyped, InitialTyped DEF TypeOK, ProcessesOK, TruePendings
<1>2. /\ pc[p] \in {"exec", "verify"}
      /\ effects' = [effects EXCEPT ![k] = @ + 1]
      /\ trace' = trace /\ given' = given /\ acks' = acks
  BY DEF Execute, Verify, stores
<1>3. /\ k \in Steps
      /\ k - 1 \in AccountedTo
      /\ k \in AnsweredSteps
      /\ \/ \E r \in Acts \ {"ask"} : <<k, r>> \in OnlyResponses
         \/ <<k, "yes">> \in Decided \cap given
  BY <1>2, BeforeExecuting
<1>4. /\ Answers' = Answers /\ Decided' = Decided
      /\ AnsweredSteps' = AnsweredSteps /\ DecidedSteps' = DecidedSteps
      /\ Latest' = Latest /\ TruePendings' = TruePendings
  BY <1>2, SameTrace DEF AnsweredSteps, DecidedSteps, Latest, TruePendings
<1>5. k - 1 \in AccountedTo'
  BY <1>2, <1>3, Executing
<1>6. /\ loc' = loc \/ \E s \in Statuses : loc' = [loc EXCEPT ![p].status = s]
  BY StatusNames DEF Execute, Verify, EndStep, Raise, Terminal
<1>7. loc'[p].steps = k /\ loc'[p].pending = loc[p].pending
  BY <1>1, <1>6 DEF Checkpoints
<1>8. /\ pc'[p] \in {"toolend", "verified", "settle", "fail"}
      /\ pc'[p] = "settle" => \/ loc'[p].status = "timeout"
                              \/ act'[p] = "interrupted"
  <2>1. CASE Execute(p)
    BY <1>1, <2>1 DEF Execute, Goto
  <2>2. CASE Verify(p)
    BY <1>1, <2>2 DEF Verify, EndStep, Raise, Goto, Checkpoints
  <2>q. QED BY <2>1, <2>2
<1>9. loc[p].steps \in Latest /\ loc[p].pending \in TruePendings
  BY DEF BodyLoc
<1>10. LedgerInv'
  BY <1>2, <1>3, ConsentKept
<1> HIDE DEF k
<1>11. BodyLoc(p)'
  BY <1>3, <1>4, <1>5, <1>7, <1>8, <1>9 DEF BodyLoc, Balanced, Settled, k
<1>q. QED BY <1>2, <1>10, <1>11

\* The decision that is validated and claimed is about the pending action.
LEMMA DecideBody ==
  ASSUME TypeOK, NEW p \in Procs,
         ValidateDecision(p) \/ RefuseDecision(p) \/ ClaimDecision(p)
  PROVE  /\ Mild /\ acks' = acks
         /\ BodyLoc(p) => pc'[p] = "idle" \/ BodyLoc(p)'
<1>1. /\ pc \in [Procs -> Labels]
      /\ loc \in [Procs -> Checkpoints]
      /\ loc[p] \in Checkpoints
  BY DEF TypeOK, ProcessesOK
<1>2. CASE ValidateDecision(p)
  <2>1. /\ pc[p] = "decide_validate" /\ pc'[p] = "decide_claim"
        /\ loc' = loc /\ want' = want /\ act' = act
        /\ loc[p].pending = [step |-> want[p], approved |-> "undecided"]
    BY <1>1, <1>2 DEF ValidateDecision, Undecided, Goto
  <2>2. Mild /\ acks' = acks
    BY <1>2, QuietMild DEF ValidateDecision, stores, history
  <2>q. QED BY <2>1, <2>2, MildKeeps DEF BodyLoc, Balanced
<1>3. CASE RefuseDecision(p)
  BY <1>1, <1>3, QuietMild DEF RefuseDecision, Leave, Goto, stores, history
<1>4. CASE ClaimDecision(p)
  <2>1. /\ pc[p] = "decide_claim" /\ pc'[p] = "resolve"
        /\ loc'[p].steps = loc[p].steps /\ loc'[p].pending = loc[p].pending
        /\ want' = want /\ act' = act
    BY <1>1, <1>4
    DEF ClaimDecision, SaveAndGo, Store, Goto, Checkpoints
  <2>2. Mild /\ acks' = acks
    BY <1>4, QuietMild DEF ClaimDecision, SaveAndGo, Store, history
  <2>q. QED BY <2>1, <2>2, MildKeeps DEF BodyLoc, Balanced
<1>q. QED BY <1>2, <1>3, <1>4

\* A decision is recorded once, as the human made it.
LEMMA ResolveBody ==
  ASSUME TypeOK, TypeSupport, NEW p \in Procs, LocInv(p), BodyLoc(p), InHand(p),
         LedgerInv, EmitApprovalResolved(p)
  PROVE  BodyLoc(p)' /\ LedgerInv' /\ given' = given
<1> DEFINE k == want[p]
           v == act[p]
           q == [step |-> k, approved |-> "undecided"]
           copy == [Recorded(p) EXCEPT !.ready = TRUE, !.pending.approved = v]
           e == [type |-> "resolved", by |-> p, step |-> k, val |-> v]
<1>1. /\ pc \in [Procs -> Labels]
      /\ loc[p] \in Checkpoints
      /\ loc \in [Procs -> Checkpoints]
      /\ loc[p].steps \in 0..MaxSteps
      /\ k \in 0..MaxSteps
      /\ MaxSteps \in Nat
      /\ ProcessesOK
  BY FieldTyped, LifecycleAssumption
  DEF TypeOK, ProcessesOK, LifecycleAssumption
<1>2. /\ pc[p] = "resolve" /\ pc'[p] = "decide_save"
      /\ act' = act
  BY <1>1, Zenon DEF EmitApprovalResolved, Goto
<1>3. /\ loc[p].pending = q
      /\ <<k, v>> \in given
      /\ v \in Decisions
      /\ loc[p].pending.step = loc[p].steps
      /\ loc[p].steps \in Latest \cap AccountedTo
      /\ loc[p].pending \in TruePendings
  BY <1>2 DEF BodyLoc, InHand, TypeSupport, LocInv, Consistent, Balanced
<1>4. k = loc[p].steps /\ q # NoPending /\ q.step = k /\ q.approved = "undecided"
  <2>1. q.step = k /\ q.approved = "undecided"
    OBVIOUS
  <2>2. loc[p].pending # NoPending
    BY <1>2 DEF LocInv
  <2> HIDE DEF q
  <2>q. QED BY <1>3, <2>1, <2>2
<1>5. k \notin DecidedSteps
  <2> HIDE DEF q
  <2>q. QED BY <1>3, <1>4 DEF TruePendings
<1>6. Emit(p, "resolved", loc[p].pending.step, v, copy)
  BY Zenon DEF EmitApprovalResolved
<1>7. /\ trace' = Append(trace, e) /\ loc'[p] = copy
      /\ effects' = effects /\ given' = given /\ acks' = acks /\ want' = want
  <2>1. loc[p].pending.step = k
    BY <1>3, <1>4
  <2>q. QED BY <1>1, <1>6, <2>1 DEF Emit, history
<1>8. e.type = "resolved" /\ e.step = k /\ e.val = v
  OBVIOUS
<1>9. /\ copy.steps = loc[p].steps
      /\ copy.pending = [step |-> k, approved |-> v]
  <2>1. /\ Recorded(p) \in Checkpoints
        /\ Recorded(p).steps = loc[p].steps
        /\ Recorded(p).pending = q
    BY <1>1, <1>3, RecordedFields
  <2>q. QED BY <2>1 DEF Checkpoints
<1> HIDE DEF e, copy, q
<1>10. /\ Answers' = Answers /\ Ends' = Ends
       /\ Decided' = Decided \cup {<<k, v>>}
  BY <1>7, <1>8, NewEvent
<1>11. LedgerInv'
  <2>1. ResolvedOnce'
    BY <1>5, <1>7, <1>8, OnceKept DEF LedgerInv
  <2>2. AcksInv'
    BY <1>7, <1>10 DEF LedgerInv, AcksInv
  <2>3. ConsentInv'
    BY <1>7, <1>10 DEF LedgerInv, ConsentInv
  <2>q. QED BY <2>1, <2>2, <2>3 DEF LedgerInv
<1>12. loc[p].steps \in Latest' \cap AccountedTo'
  <2>1. loc[p].steps \in AccountedTo'
    BY <1>3, <1>7, <1>10 DEF AccountedTo, AnsweredSteps
  <2>2. \A d \in Answers \cup Decided : d[1] <= loc[p].steps
    BY <1>3 DEF Latest
  <2>3. \A d \in Answers' \cup Decided' : d[1] <= loc[p].steps
    <3> DEFINE d == <<k, v>>
    <3>1. d[1] <= loc[p].steps /\ Decided' = Decided \cup {d}
      BY <1>1, <1>4, <1>10
    <3> HIDE DEF d
    <3>q. QED BY <1>10, <2>2, <3>1
  <2>4. loc[p].steps \in Latest'
    BY <1>1, <2>3 DEF Latest
  <2>q. QED BY <2>1, <2>4
<1>13. [step |-> k, approved |-> v] \in TruePendings'
  <2>1. [step |-> k, approved |-> v] \in Pendings
    BY <1>1, <1>3 DEF Pendings
  <2>2. v # "undecided" /\ <<k, v>> \in Decided' \cap given'
    BY <1>3, <1>7, <1>10 DEF Decisions
  <2>q. QED BY <2>1, <2>2 DEF TruePendings
<1>14. \A d \in acks : d[2] # k
  BY <1>5, AcksDecided DEF LedgerInv
<1>15. want'[p] = k /\ act'[p] = v
  BY <1>2, <1>7
<1>16. BodyLoc(p)'
  BY <1>2, <1>7, <1>9, <1>12, <1>13, <1>14, <1>15 DEF BodyLoc, Balanced
<1>q. QED BY <1>7, <1>11, <1>16

\* The decision that was saved is confirmed once, as it was recorded.
LEMMA ConfirmBody ==
  ASSUME TypeOK, TypeSupport, NEW p \in Procs, LocInv(p), BodyLoc(p), LedgerInv,
         SaveDecision(p)
  PROVE  pc'[p] = "idle" /\ Mild /\ LedgerInv'
<1> DEFINE k == want[p]
           v == act[p]
           q == [step |-> k, approved |-> v]
<1>1. /\ pc \in [Procs -> Labels]
      /\ pc[p] = "decide_save" /\ pc'[p] = "idle"
      /\ trace' = trace /\ effects' = effects /\ given' = given
      /\ acks' = acks \cup {<<p, loc[p].pending.step, v>>}
  BY DEF SaveDecision, Store, Leave, Goto, TypeOK, ProcessesOK
<1>2. Mild
  BY <1>1, QuietMild
<1>3. /\ loc[p].pending = q
      /\ q \in TruePendings
      /\ \A d \in acks : d[2] # k
      /\ v \in Decisions
      /\ loc[p].pending # NoPending =>
           loc[p].pending.step = loc[p].steps /\ Untouched(loc[p].steps)
  BY <1>1 DEF BodyLoc, TypeSupport, LocInv, Consistent
<1>4. q.step = k /\ q.approved = v
  OBVIOUS
<1> HIDE DEF q
<1>5. q # NoPending /\ v # "undecided"
  BY <1>3, <1>4 DEF NoPending, Decisions
<1>6. <<k, v>> \in Decided
  BY <1>3, <1>4, <1>5 DEF TruePendings
<1>7. effects[k] = 0
  BY <1>3, <1>4, <1>5 DEF Untouched
<1> DEFINE a == <<p, k, v>>
<1>8. /\ a[2] = k /\ a[3] = v
      /\ acks' = acks \cup {a}
  BY <1>1, <1>3, <1>4
<1> HIDE DEF a, k, v
<1>9. Answers' = Answers /\ Decided' = Decided
  BY <1>2 DEF Mild
<1>10. ResolvedOnce'
  BY <1>1 DEF LedgerInv, ResolvedOnce
<1>11. AcksInv'
  <2>1. \A d \in acks' : <<d[2], d[3]>> \in Decided'
    BY <1>6, <1>8, <1>9 DEF LedgerInv, AcksInv
  <2>2. \A d, f \in acks' : d[2] = f[2] => d = f
    BY <1>3, <1>8 DEF LedgerInv, AcksInv, k
  <2>q. QED BY <2>1, <2>2 DEF AcksInv
<1>12. ConsentInv'
  <2> SUFFICES ASSUME NEW n \in Steps, effects[n] > 0
               PROVE  /\ <<n, "ask">> \in Answers => <<n, "yes">> \in Decided \cap given
                      /\ \A d \in acks' : <<d[2], d[3]>> # <<n, "no">>
    BY <1>1, <1>9 DEF ConsentInv
  <2>1. n # k
    BY <1>7
  <2>q. QED BY <1>8, <2>1 DEF LedgerInv, ConsentInv
<1>q. QED BY <1>1, <1>2, <1>10, <1>11, <1>12 DEF LedgerInv

-----------------------------------------------------------------------------
(* What is saved, and what a process has in hand                           *)

\* A checkpoint that is saved as ready accounts for the steps it counts.
SavesAccount(p) == cp' = cp \/ (cp'.ready => loc[p].steps \in AccountedTo)

\* What each of these actions saves.
LEMMA DriveSaves ==
  ASSUME TypeOK, NEW p \in Procs, BodyLoc(p), DriveAction(p)
  PROVE  SavesAccount(p)
<1>1. loc[p] \in Checkpoints
  BY DEF TypeOK, ProcessesOK
<1>2. CASE SaveStart(p)
  BY <1>1, <1>2 DEF SaveStart, SavesAccount, BodyLoc, Balanced
<1>3. CASE ClaimBookkeeping(p)
  BY <1>1, <1>3
  DEF ClaimBookkeeping, SaveAndGo, Store, SavesAccount, Checkpoints
<1>4. CASE ClaimStep(p)
  BY <1>1, <1>4 DEF ClaimStep, SaveAndGo, Store, SavesAccount, Checkpoints
<1>5. CASE SaveFinished(p)
  BY <1>1, <1>5 DEF SaveFinished, Store, SavesAccount, BodyLoc, Checkpoints
<1>6. CASE ~(SaveStart(p) \/ ClaimBookkeeping(p) \/ ClaimStep(p) \/ SaveFinished(p))
  BY <1>6
  DEF DriveAction, EmitRunStarted, RefuseResume, ReturnUnchanged, ContinueRun,
      CompleteBookkeeping, EmitMissingFinished, EmitRunFinished, Emit, stores,
      SavesAccount
<1>q. QED BY <1>2, <1>3, <1>4, <1>5, <1>6

\* What each of these actions saves.
LEMMA StepSaves ==
  ASSUME TypeOK, NEW p \in Procs, BodyLoc(p), StepAction(p)
  PROVE  SavesAccount(p)
<1>1. loc[p] \in Checkpoints
  BY DEF TypeOK, ProcessesOK
<1>2. ASSUME pc[p] = "settle", AtBoundary(p)
      PROVE  loc[p].steps \in AccountedTo
  BY <1>2 DEF AtBoundary, BodyLoc
<1>3. CASE SettleStep(p)
  BY <1>1, <1>2, <1>3 DEF SettleStep, SaveAndGo, Store, SavesAccount, Checkpoints
<1>4. CASE ReturnWaiting(p)
  BY <1>1, <1>2, <1>4 DEF ReturnWaiting, Store, SavesAccount, Checkpoints
<1>5. CASE SaveInterrupted(p)
  BY <1>1, <1>5 DEF SaveInterrupted, Store, SavesAccount, Checkpoints
<1>6. CASE ~(SettleStep(p) \/ ReturnWaiting(p) \/ SaveInterrupted(p))
  BY <1>6
  DEF StepAction, TakeUpDecision, CheckBudgets, EmitModelRequested, CallModel,
      EmitModelResponded, EmitToolCalled, EmitToolCalledForApproval,
      EmitApprovalRequested, Execute, EmitToolEnd, ProcessOutput, Verify,
      EmitVerificationFinished, EmitTerminalError, SkipBestEffort, Emit, stores,
      SavesAccount
<1>q. QED BY <1>3, <1>4, <1>5, <1>6

\* What each of these actions saves.
LEMMA ApproverSaves ==
  ASSUME TypeOK, NEW p \in Procs, BodyLoc(p), ApproverAction(p)
  PROVE  SavesAccount(p)
<1>1. loc[p] \in Checkpoints
  BY DEF TypeOK, ProcessesOK
<1>2. CASE ClaimDecision(p)
  BY <1>1, <1>2 DEF ClaimDecision, SaveAndGo, Store, SavesAccount, Checkpoints
<1>3. CASE SaveDecision(p)
  BY <1>1, <1>3 DEF SaveDecision, SavesAccount, BodyLoc, Balanced
<1>4. CASE ~(ClaimDecision(p) \/ SaveDecision(p))
  BY <1>4
  DEF ApproverAction, ValidateDecision, RefuseDecision, EmitApprovalResolved,
      Emit, stores, SavesAccount
<1>q. QED BY <1>2, <1>3, <1>4

\* Nobody but an approver comes to have a decision in hand.
LEMMA HandKept ==
  ASSUME NEW p \in Procs,
         pc'[p] \notin {"decide_validate", "decide_claim", "resolve", "decide_save"},
         act'[p] # "interrupted"
  PROVE  InHand(p)'
  BY DEF InHand

\* A process has in hand what it had, or what its step gave it.
LEMMA DriveHand ==
  ASSUME TypeOK, NEW p \in Procs, InHand(p), DriveAction(p)
  PROVE  InHand(p)'
<1>1. pc \in [Procs -> Labels] /\ act \in [Procs -> Acts]
  BY DEF TypeOK, ProcessesOK
<1>2. /\ pc[p] \in {"start", "start_save", "validate", "finish_claim", "refinish",
                    "claim", "finish", "finish_save"}
      /\ pc'[p] \in {"start_save", "claim", "idle", "finish_claim", "refinish",
                     "finish_save", "step"}
      /\ act' = act \/ act' = [act EXCEPT ![p] = "none"]
  BY <1>1, Zenon
  DEF DriveAction, EmitRunStarted, SaveStart, RefuseResume, ReturnUnchanged,
      ContinueRun, CompleteBookkeeping, ClaimBookkeeping, EmitMissingFinished,
      ClaimStep, EmitRunFinished, SaveFinished, SaveAndGo, Leave, Goto
<1>3. act[p] # "interrupted"
  BY <1>2 DEF InHand
<1>4. act'[p] # "interrupted"
  BY <1>1, <1>2, <1>3
<1>q. QED BY <1>2, <1>4, HandKept

\* A process has in hand what it had, or what its step gave it.
LEMMA StepHand ==
  ASSUME TypeOK, NEW p \in Procs, InHand(p), StepAction(p)
  PROVE  InHand(p)'
<1>1. /\ pc \in [Procs -> Labels] /\ act \in [Procs -> Acts]
      /\ loc \in [Procs -> Checkpoints] /\ loc[p] \in Checkpoints
  BY DEF TypeOK, ProcessesOK
<1>2. QED
  <2>1. CASE TakeUpDecision(p)
    <3>1. /\ pc[p] \in {"step"}
          /\ pc'[p] \in {"exec", "toolend", "settle"}
          /\ act'[p] \in {act[p], "approved", "result"}
      BY <1>1, <2>1 DEF TakeUpDecision, Goto
    <3>q. QED BY <3>1 DEF InHand
  <2>2. CASE CheckBudgets(p)
    <3>1. /\ pc[p] \in {"step"}
          /\ pc'[p] \in {"settle", "fail", "request"}
          /\ act'[p] = act[p]
      BY <1>1, <2>2 DEF CheckBudgets, EndStep, Raise, Goto
    <3>q. QED BY <3>1 DEF InHand
  <2>3. CASE EmitModelRequested(p)
    <3>1. /\ pc[p] \in {"request"}
          /\ pc'[p] \in {"call"}
          /\ act'[p] = act[p]
      BY <1>1, <2>3, Zenon DEF EmitModelRequested, Goto
    <3>q. QED BY <3>1 DEF InHand
  <2>4. CASE CallModel(p)
    <3>1. /\ pc[p] \in {"call"}
          /\ pc'[p] \in {"respond", "settle", "fail"}
          /\ act'[p] \in Responses \cup {act[p]}
      BY <1>1, <2>4 DEF CallModel, EndStep, Raise, Goto, Responses
    <3>q. QED BY <3>1 DEF InHand, Responses
  <2>5. CASE EmitModelResponded(p)
    <3>1. /\ pc[p] \in {"respond"}
          /\ pc'[p] \in {"fail", "verify", "settle", "toolcall"}
          /\ act'[p] = act[p]
      BY <1>1, <2>5, Zenon DEF EmitModelResponded, Goto
    <3>q. QED BY <3>1 DEF InHand
  <2>6. CASE EmitToolCalled(p)
    <3>1. /\ pc[p] = "toolcall"
          /\ Goto(p, IF act[p] = "allow" THEN "exec" ELSE "toolend")
          /\ act' = [act EXCEPT ![p] = IF @ = "deny" THEN "result" ELSE @]
      BY <2>6, Zenon DEF EmitToolCalled
    <3>2. pc'[p] \in {"exec", "toolend"} /\ act'[p] \in {act[p], "result"}
      BY <1>1, <3>1 DEF Goto
    <3>q. QED BY <3>1, <3>2 DEF InHand
  <2>7. CASE EmitToolCalledForApproval(p)
    <3>1. /\ pc[p] \in {"toolcall"}
          /\ pc'[p] \in {"ask"}
          /\ act'[p] = act[p]
      BY <1>1, <2>7, Zenon DEF EmitToolCalledForApproval, Goto
    <3>q. QED BY <3>1 DEF InHand
  <2>8. CASE EmitApprovalRequested(p)
    <3>1. /\ pc[p] \in {"ask"}
          /\ pc'[p] \in {"settle"}
          /\ act'[p] = act[p]
      BY <1>1, <2>8, Zenon DEF EmitApprovalRequested, Goto
    <3>q. QED BY <3>1 DEF InHand
  <2>9. CASE Execute(p)
    <3>1. /\ pc[p] \in {"exec"}
          /\ pc'[p] \in {"toolend"}
          /\ act'[p] \in {"result", "timeout", "raised"}
      BY <1>1, <2>9 DEF Execute, Goto
    <3>q. QED BY <3>1 DEF InHand
  <2>10. CASE EmitToolEnd(p)
    <3>1. /\ pc[p] \in {"toolend"}
          /\ pc'[p] \in {"output", "settle", "fail"}
          /\ act'[p] = act[p]
      BY <1>1, <2>10, Zenon DEF EmitToolEnd, Goto
    <3>q. QED BY <3>1 DEF InHand
  <2>11. CASE ProcessOutput(p)
    <3>1. /\ pc[p] \in {"output"}
          /\ pc'[p] \in {"settle", "fail"}
          /\ act'[p] = act[p]
      BY <1>1, <2>11 DEF ProcessOutput, EndStep, Raise, Goto
    <3>q. QED BY <3>1 DEF InHand
  <2>12. CASE Verify(p)
    <3>1. /\ pc[p] = "verify"
          /\ pc'[p] \in {"verified", "settle", "fail", "toolend"}
          /\ \/ act'[p] \in {act[p], "passed", "rejected", "raised"}
             \/ pc'[p] = "settle" /\ loc'[p].status = "exhausted"
      BY <1>1, <2>12 DEF Verify, EndStep, Raise, Goto, Checkpoints
    <3>q. QED BY <3>1 DEF InHand
  <2>13. CASE EmitVerificationFinished(p)
    <3>1. /\ pc[p] \in {"verified"}
          /\ pc'[p] \in {"settle"}
          /\ act'[p] = act[p]
      BY <1>1, <2>13, Zenon DEF EmitVerificationFinished, Goto
    <3>q. QED BY <3>1 DEF InHand
  <2>14. CASE SettleStep(p)
    <3>1. pc'[p] \in {"claim", "finish"} /\ act'[p] = "none"
      BY <1>1, <2>14 DEF SettleStep, SaveAndGo, Goto
    <3>q. QED BY <3>1, HandKept
  <2>15. CASE ReturnWaiting(p)
    <3>1. pc'[p] \in {"idle"} /\ act'[p] = "none"
      BY <1>1, <2>15 DEF ReturnWaiting, Leave, Goto
    <3>q. QED BY <3>1, HandKept
  <2>16. CASE EmitTerminalError(p)
    <3>1. /\ pc[p] \in {"fail"}
          /\ pc'[p] \in {"fail_save"}
          /\ act'[p] = act[p]
      BY <1>1, <2>16, Zenon DEF EmitTerminalError, Goto
    <3>q. QED BY <3>1 DEF InHand
  <2>17. CASE SaveInterrupted(p)
    <3>1. /\ pc[p] \in {"fail_save"}
          /\ pc'[p] \in {"idle"}
          /\ act'[p] = "none"
      BY <1>1, <2>17 DEF SaveInterrupted, Leave, Goto
    <3>q. QED BY <3>1 DEF InHand
  <2>18. CASE SkipBestEffort(p)
    <3>1. /\ pc[p] \in {"fail", "toolend"}
          /\ pc'[p] \in {"fail", "fail_save"}
          /\ act'[p] = act[p]
      BY <1>1, <2>18 DEF SkipBestEffort, BestEffort, Raise, Goto
    <3>q. QED BY <3>1 DEF InHand
  <2>q. QED BY <2>1, <2>2, <2>3, <2>4, <2>5, <2>6, <2>7, <2>8, <2>9, <2>10,
              <2>11, <2>12, <2>13, <2>14, <2>15, <2>16, <2>17, <2>18
           DEF StepAction

\* A process has in hand what it had, or what its step gave it.
LEMMA ApproverHand ==
  ASSUME TypeOK, NEW p \in Procs, InHand(p), ApproverAction(p)
  PROVE  InHand(p)'
<1>1. /\ pc \in [Procs -> Labels] /\ act \in [Procs -> Acts]
      /\ want \in [Procs -> 0..MaxSteps]
  BY DEF TypeOK, ProcessesOK
<1>2. CASE ValidateDecision(p) \/ ClaimDecision(p)
  <2>1. /\ pc[p] \in {"decide_validate", "decide_claim"}
        /\ pc'[p] \in {"decide_claim", "resolve"}
        /\ act' = act /\ want' = want /\ given' = given
    BY <1>1, <1>2
    DEF ValidateDecision, ClaimDecision, SaveAndGo, Goto, history
  <2>q. QED BY <2>1 DEF InHand
<1>3. CASE EmitApprovalResolved(p)
  <2>1. /\ pc[p] = "resolve" /\ pc'[p] = "decide_save"
        /\ act' = act /\ want' = want /\ given' = given
    BY <1>1, <1>3, Zenon DEF EmitApprovalResolved, Emit, Goto, history
  <2>q. QED BY <2>1 DEF InHand
<1>4. CASE RefuseDecision(p) \/ SaveDecision(p)
  <2>1. pc'[p] = "idle" /\ act'[p] = "none"
    BY <1>1, <1>4 DEF RefuseDecision, SaveDecision, Leave, Goto
  <2>q. QED BY <2>1, HandKept
<1>q. QED BY <1>2, <1>3, <1>4 DEF ApproverAction

-----------------------------------------------------------------------------
(* Every step                                                              *)

\* Creating or loading the run changes nothing that was recorded or done.
BodyQuiet(p) ==
  /\ trace' = trace /\ acks' = acks
  /\ given \subseteq given'
  /\ InHand(p)'

\* The process that goes on keeps what its copy tells of the steps.
BodyKeeps(p) ==
  /\ Holder(p) => pc'[p] = "idle" \/ BodyLoc(p)'
  /\ Saving(p) => Mild /\ SavesAccount(p)
  /\ (Mild /\ acks' = acks) \/ pc[p] \in Exclusive
  /\ LedgerInv'
  /\ given \subseteq given'
  /\ InHand(p)'

\* Every step is a stutter or of one of the four kinds.
LEMMA BodyKinds ==
  ASSUME IInv, BodyInv, [Next]_vars
  PROVE  \/ UNCHANGED vars
         \/ \E p \in Procs :
              \/ (Begins(p) \/ Loads(p)) /\ BodyQuiet(p)
              \/ (Works(p) \/ Saving(p)) /\ BodyKeeps(p)
<1>1. /\ TypeOK /\ TypeSupport /\ LedgerInv /\ OwnInv
      /\ pc \in [Procs -> Labels] /\ act \in [Procs -> Acts]
      /\ want \in [Procs -> 0..MaxSteps]
      /\ \A p \in Procs : InHand(p)
      /\ \A p \in Procs : Holder(p) => BodyLoc(p) /\ LocInv(p)
  BY DEF IInv, OwnershipInv, DataInv, HolderInv, BodyInv, LedgerInv, TypeOK,
         ProcessesOK
<1>2. ASSUME NEW p \in Procs, Run(p) \/ Resume(p)
      PROVE  (Begins(p) \/ Loads(p)) /\ BodyQuiet(p)
  <2>1. /\ pc[p] = "idle" /\ pc'[p] \in {"start", "validate"}
        /\ act' = act
        /\ trace' = trace /\ acks' = acks /\ given' = given
    BY <1>1, <1>2 DEF Run, Resume, Goto, stores, history
  <2>2. InHand(p)'
    BY <1>1, <2>1 DEF InHand
  <2>3. Begins(p) \/ Loads(p)
    BY <1>1, <1>2
    DEF Run, Resume, Begins, Loads, Others, Goto, stores, history, TypeOK,
        ProcessesOK
  <2>q. QED BY <2>1, <2>2, <2>3 DEF BodyQuiet
<1>3. ASSUME NEW p \in Procs, NEW n \in Steps, NEW d \in Decisions,
             Decide(p, n, d)
      PROVE  Loads(p) /\ BodyQuiet(p)
  <2>1. Loads(p)
    BY <1>1, <1>3 DEF Decide, Loads, Others, Goto, stores, TypeOK, ProcessesOK
  <2>2. /\ trace' = trace /\ acks' = acks /\ given \subseteq given'
        /\ <<n, d>> \in given'
        /\ want'[p] = n /\ act'[p] = d /\ d # "interrupted"
    BY <1>1, <1>3 DEF Decide, stores, Decisions
  <2>3. InHand(p)'
    BY <2>2 DEF InHand
  <2>q. QED BY <2>1, <2>2, <2>3 DEF BodyQuiet
<1>4. ASSUME NEW p \in Procs,
             StoreRefuses(p) \/ Stop(p) \/ StopDuringAppend(p)
      PROVE  Works(p) /\ BodyKeeps(p)
  <2>1. Leave(p) /\ UNCHANGED <<cp, trace, begun, history>>
    BY <1>4 DEF StoreRefuses, Stop, StopDuringAppend, stores
  <2>2. pc[p] # "idle"
    BY <1>4 DEF StoreRefuses, Stop, StopDuringAppend, Appends, Saves
  <2>3. pc'[p] = "idle" /\ act'[p] = "none" /\ Works(p)
    BY <1>1, <2>1, <2>2
    DEF Leave, Goto, Works, Others, Starting, TypeOK, ProcessesOK, history
  <2>4. Mild /\ acks' = acks /\ given \subseteq given'
    BY <2>1, QuietMild DEF history
  <2>5. LedgerInv'
    BY <1>1, <2>4, MildLedger
  <2>6. InHand(p)'
    BY <2>3, HandKept
  <2>7. SavesAccount(p)
    BY <2>1 DEF SavesAccount
  <2>q. QED BY <2>3, <2>4, <2>5, <2>6, <2>7 DEF BodyKeeps
<1>5. ASSUME NEW p \in Procs, DriveAction(p)
      PROVE  (Works(p) \/ Saving(p)) /\ BodyKeeps(p)
  <2>1. Works(p) \/ Saving(p)
    BY <1>1, <1>5, DriveKinds DEF TypeOK
  <2>2. /\ Mild /\ acks' = acks
        /\ BodyLoc(p) => pc'[p] = "idle" \/ BodyLoc(p)'
    BY <1>1, <1>5, DriveBody
  <2>3. LedgerInv'
    BY <1>1, <2>2, MildLedger
  <2>4. InHand(p)'
    BY <1>1, <1>5, DriveHand
  <2>5. Saving(p) => SavesAccount(p)
    BY <1>1, <1>5, DriveSaves DEF Saving, CanSave, Holder
  <2>6. given \subseteq given'
    BY <2>2 DEF Mild
  <2>q. QED BY <1>1, <2>1, <2>2, <2>3, <2>4, <2>5, <2>6 DEF BodyKeeps
<1>6. ASSUME NEW p \in Procs, StepAction(p)
      PROVE  (Works(p) \/ Saving(p)) /\ BodyKeeps(p)
  <2>1. Works(p) \/ Saving(p)
    BY <1>1, <1>6, StepKinds DEF TypeOK
  <2>2. pc[p] \in Exclusive
    BY <1>6, Zenon
    DEF StepAction, TakeUpDecision, CheckBudgets, EmitModelRequested, CallModel,
        EmitModelResponded, EmitToolCalled, EmitToolCalledForApproval,
        EmitApprovalRequested, Execute, EmitToolEnd, ProcessOutput, Verify,
        EmitVerificationFinished, SettleStep, ReturnWaiting, EmitTerminalError,
        SaveInterrupted, SkipBestEffort, BestEffort, Exclusive, InStep
  <2>3. BodyLoc(p) /\ LocInv(p)
    BY <1>1, <2>2 DEF OwnInv
  <2>4. CASE EmitModelResponded(p) \/ Execute(p) \/ Verify(p)
    <3>1. BodyLoc(p)' /\ LedgerInv' /\ given' = given
      BY <1>1, <2>3, <2>4, RespondBody, ExecuteBody
    <3>2. cp' = cp
      BY <2>4 DEF EmitModelResponded, Execute, Verify, Emit, stores
    <3>3. ~Saving(p)
      BY <1>1, <3>2 DEF Saving, TypeOK, StoresOK, Checkpoints
    <3>4. InHand(p)'
      BY <1>1, <1>6, StepHand
    <3>q. QED BY <2>1, <2>2, <3>1, <3>3, <3>4 DEF BodyKeeps
  <2>5. CASE ~(EmitModelResponded(p) \/ Execute(p) \/ Verify(p))
    <3>1. Mild /\ acks' = acks /\ (pc'[p] = "idle" \/ BodyLoc(p)')
      BY <1>1, <1>6, <2>3, <2>5, StepBody
    <3>2. LedgerInv' /\ given \subseteq given'
      BY <1>1, <3>1, MildLedger DEF Mild
    <3>3. InHand(p)'
      BY <1>1, <1>6, StepHand
    <3>4. SavesAccount(p)
      BY <1>1, <1>6, <2>3, StepSaves
    <3>q. QED BY <2>1, <3>1, <3>2, <3>3, <3>4 DEF BodyKeeps
  <2>q. QED BY <2>4, <2>5
<1>7. ASSUME NEW p \in Procs, ApproverAction(p)
      PROVE  (Works(p) \/ Saving(p)) /\ BodyKeeps(p)
  <2>1. Works(p) \/ Saving(p)
    BY <1>1, <1>7, ApproverKinds DEF TypeOK
  <2>2. InHand(p)'
    BY <1>1, <1>7, ApproverHand
  <2>3. Saving(p) => SavesAccount(p)
    BY <1>1, <1>7, ApproverSaves DEF Saving, CanSave, Holder
  <2>4. CASE EmitApprovalResolved(p)
    <3>1. pc[p] \in Exclusive
      BY <2>4, Zenon DEF EmitApprovalResolved, Exclusive
    <3>2. BodyLoc(p)' /\ LedgerInv' /\ given' = given
      BY <1>1, <2>4, <3>1, ResolveBody DEF OwnInv
    <3>3. cp' = cp
      BY <2>4 DEF EmitApprovalResolved, Emit
    <3>4. ~Saving(p)
      BY <1>1, <3>3 DEF Saving, TypeOK, StoresOK, Checkpoints
    <3>q. QED BY <2>1, <2>2, <3>1, <3>2, <3>4 DEF BodyKeeps
  <2>5. CASE SaveDecision(p)
    <3>1. pc[p] \in Exclusive
      BY <2>5 DEF SaveDecision, Exclusive
    <3>2. pc'[p] = "idle" /\ Mild /\ LedgerInv'
      BY <1>1, <2>5, <3>1, ConfirmBody DEF OwnInv
    <3>q. QED BY <2>1, <2>2, <2>3, <3>1, <3>2 DEF BodyKeeps, Mild
  <2>6. CASE ValidateDecision(p) \/ RefuseDecision(p) \/ ClaimDecision(p)
    <3>1. /\ Mild /\ acks' = acks
          /\ BodyLoc(p) => pc'[p] = "idle" \/ BodyLoc(p)'
      BY <1>1, <2>6, DecideBody
    <3>2. LedgerInv' /\ given \subseteq given'
      BY <1>1, <3>1, MildLedger DEF Mild
    <3>q. QED BY <1>1, <2>1, <2>2, <2>3, <3>1, <3>2 DEF BodyKeeps
  <2>q. QED BY <1>7, <2>4, <2>5, <2>6 DEF ApproverAction
<1>q. QED
  BY <1>2, <1>3, <1>4, <1>5, <1>6, <1>7 DEF Next, Procs

\* What another process does leaves what q has in hand,
LEMMA HandOther ==
  ASSUME NEW q \in Procs, InHand(q), pc'[q] = pc[q], loc'[q] = loc[q],
         act'[q] = act[q], want'[q] = want[q], given \subseteq given'
  PROVE  InHand(q)'
  BY DEF InHand

\* and, if it is mild, what q's copy tells of the steps.
LEMMA BodyOther ==
  ASSUME NEW q \in Procs, BodyLoc(q), pc'[q] = pc[q], loc'[q] = loc[q],
         act'[q] = act[q], want'[q] = want[q], Mild, acks' = acks
  PROVE  BodyLoc(q)'
<1>1. /\ Latest' = Latest /\ AnsweredSteps' = AnsweredSteps
      /\ AccountedTo \subseteq AccountedTo'
      /\ TruePendings \subseteq TruePendings'
      /\ OnlyResponses' = OnlyResponses
      /\ Decided' = Decided /\ given \subseteq given'
  BY MildKeeps DEF Mild
<1>q. QED BY <1>1 DEF BodyLoc

\* Every step keeps what the trace tells of each step.
LEMMA BodyStep ==
  ASSUME IInv, IInv', TraceInv, [Next]_vars
  PROVE  BodyInv'
<1>1. /\ TypeOK /\ TypeOK' /\ OwnershipInv /\ OwnershipInv'
      /\ FrontInv /\ BodyInv /\ LedgerInv
      /\ cp.rev \in Nat
      /\ \A p \in Procs : loc[p].rev \in Nat
  BY DEF IInv, TraceInv, BodyInv, LedgerInv, TypeOK, StoresOK, ProcessesOK,
         Checkpoints
<1>2. CASE UNCHANGED vars
  <2>1. /\ trace' = trace /\ cp' = cp /\ effects' = effects /\ given' = given
        /\ acks' = acks /\ pc' = pc /\ loc' = loc /\ act' = act /\ want' = want
    BY <1>2 DEF vars, stores, history
  <2>2. Mild /\ acks' = acks
    BY <2>1, QuietMild
  <2>3. LedgerInv'
    BY <1>1, <2>2, MildLedger
  <2>4. \A q \in Procs : InHand(q)'
    BY <1>1, <2>1, HandOther DEF BodyInv
  <2>5. BodyReady'
    BY <1>1, <2>1, <2>2, MildKeeps DEF BodyInv, BodyReady
  <2>6. \A q \in Procs : Holder(q)' => BodyLoc(q)'
    BY <1>1, <2>1, <2>2, BodyOther DEF BodyInv, Holder
  <2>q. QED BY <2>3, <2>4, <2>5, <2>6 DEF BodyInv, LedgerInv
<1>3. ASSUME NEW p \in Procs, Begins(p) \/ Loads(p), BodyQuiet(p)
      PROVE  BodyInv'
  <2>1. /\ cp' = cp /\ effects' = effects
        /\ \A q \in Procs \ {p} : /\ pc'[q] = pc[q] /\ loc'[q] = loc[q]
                                  /\ act'[q] = act[q] /\ want'[q] = want[q]
    BY <1>3 DEF Begins, Loads, Others
  <2>2. Mild /\ acks' = acks /\ given \subseteq given'
    BY <1>3, <2>1, QuietMild DEF BodyQuiet
  <2>3. LedgerInv'
    BY <1>1, <2>2, MildLedger
  <2>4. \A q \in Procs : InHand(q)'
    BY <1>1, <1>3, <2>1, <2>2, HandOther DEF BodyQuiet, BodyInv
  <2>5. BodyReady'
    BY <1>1, <2>1, <2>2, MildKeeps DEF BodyInv, BodyReady
  <2>6. BodyLoc(p)'
    <3>1. CASE Begins(p)
      <4>1. /\ trace' = <<>> /\ pc'[p] = "start"
            /\ loc'[p] = [NoCheckpoint EXCEPT !.ready = TRUE]
        BY <1>1, <1>3, <3>1 DEF Begins, FrontInv, StartInv, BodyQuiet
      <4>2. /\ loc'[p].steps = 0 /\ loc'[p].pending = NoPending
        BY <4>1 DEF NoCheckpoint
      <4>3. Answers' = {} /\ Decided' = {}
        <5>1. DOMAIN trace' = {}
          BY <4>1
        <5>q. QED BY <5>1 DEF Answers, Decided
      <4>4. 0 \in Latest' /\ 0 \in AccountedTo' /\ NoPending \in TruePendings'
        BY <4>3, InitialTyped DEF Latest, AccountedTo, TruePendings, Steps
      <4>q. QED BY <4>1, <4>2, <4>4 DEF BodyLoc, Balanced
    <3>2. CASE Loads(p)
      <4>1. /\ pc'[p] \in {"validate", "decide_validate"}
            /\ loc'[p] = cp' /\ cp'.ready
        BY <2>1, <3>2 DEF Loads
      <4>q. QED BY <2>5, <4>1 DEF BodyReady, BodyLoc, Balanced
    <3>q. QED BY <1>3, <3>1, <3>2
  <2>7. \A q \in Procs \ {p} : Holder(q)' => BodyLoc(q)'
    BY <1>1, <2>1, <2>2, BodyOther DEF BodyInv, Holder
  <2>q. QED BY <2>3, <2>4, <2>5, <2>6, <2>7 DEF BodyInv, LedgerInv
<1>4. ASSUME NEW p \in Procs, Works(p), BodyKeeps(p)
      PROVE  BodyInv'
  <2>1. /\ cp' = cp
        /\ \A q \in Procs \ {p} : /\ pc'[q] = pc[q] /\ loc'[q] = loc[q]
                                  /\ act'[q] = act[q] /\ want'[q] = want[q]
    BY <1>4 DEF Works, Others
  <2>2. LedgerInv' /\ given \subseteq given'
    BY <1>4 DEF BodyKeeps
  <2>3. \A q \in Procs : InHand(q)'
    BY <1>1, <1>4, <2>1, <2>2, HandOther DEF BodyKeeps, BodyInv
  <2>4. Holder(p)' => BodyLoc(p)'
    BY <1>4, <2>1 DEF Works, BodyKeeps, Holder
  <2>5. CASE Mild /\ acks' = acks
    <3>1. BodyReady'
      BY <1>1, <2>1, <2>5, MildKeeps DEF BodyInv, BodyReady
    <3>2. \A q \in Procs \ {p} : Holder(q)' => BodyLoc(q)'
      BY <1>1, <2>1, <2>5, BodyOther DEF BodyInv, Holder
    <3>q. QED BY <2>2, <2>3, <2>4, <3>1, <3>2 DEF BodyInv, LedgerInv
  <2>6. CASE pc[p] \in Exclusive
    <3>1. Holder(p) /\ ~cp.ready
      BY <1>1, <2>6 DEF OwnershipInv, OwnInv
    <3>2. BodyReady'
      BY <2>1, <3>1 DEF BodyReady
    <3>3. \A q \in Procs \ {p} : ~Holder(q)'
      BY <1>1, <2>1, <3>1 DEF OwnershipInv, UniqueInv, Holder
    <3>q. QED BY <2>2, <2>3, <2>4, <3>2, <3>3 DEF BodyInv, LedgerInv
  <2>q. QED BY <1>4, <2>5, <2>6 DEF BodyKeeps
<1>5. ASSUME NEW p \in Procs, Saving(p), BodyKeeps(p)
      PROVE  BodyInv'
  <2>1. /\ cp'.rev = cp.rev + 1 /\ Holder(p)
        /\ cp'.steps = loc[p].steps /\ cp'.pending = loc[p].pending
        /\ \A q \in Procs \ {p} : /\ pc'[q] = pc[q] /\ loc'[q] = loc[q]
                                  /\ act'[q] = act[q] /\ want'[q] = want[q]
    BY <1>5 DEF Saving, Others, CanSave, Holder
  <2>2. LedgerInv' /\ given \subseteq given' /\ Mild /\ SavesAccount(p)
    BY <1>5 DEF BodyKeeps
  <2>3. \A q \in Procs : InHand(q)'
    BY <1>1, <1>5, <2>1, <2>2, HandOther DEF BodyKeeps, BodyInv
  <2>4. Holder(p)' => BodyLoc(p)'
    BY <1>5, <2>1 DEF BodyKeeps, Holder
  <2>5. \A q \in Procs \ {p} : ~Holder(q)'
    BY <1>1, <2>1 DEF OwnershipInv, RevInv, Holder
  <2>6. BodyReady'
    <3>1. cp'.ready => loc[p].steps \in AccountedTo
      BY <1>1, <2>1, <2>2 DEF SavesAccount
    <3>2. loc[p].steps \in Latest /\ loc[p].pending \in TruePendings
      BY <1>1, <2>1 DEF BodyInv, BodyLoc
    <3>q. QED BY <2>1, <2>2, <3>1, <3>2, MildKeeps DEF BodyReady
  <2>q. QED BY <2>2, <2>3, <2>4, <2>5, <2>6 DEF BodyInv, LedgerInv
<1>q. QED
  BY <1>1, <1>2, <1>3, <1>4, <1>5, BodyKinds

-----------------------------------------------------------------------------
(* Theorems                                                                *)

\* Nothing is recorded, and nobody works on the run.
LEMMA InitTraceInv == Init => TraceInv
<1> SUFFICES ASSUME Init PROVE TraceInv
  OBVIOUS
<1>1. /\ trace = <<>> /\ ~cp.ready /\ acks = {} /\ DOMAIN trace = {}
      /\ \A p \in Procs : pc[p] = "idle" /\ act[p] = "none"
      /\ \A n \in Steps : effects[n] = 0
  BY DEF Init, NoCheckpoint
<1>2. FrontInv
  BY <1>1 DEF FrontInv, StartInv, FinishInv, Starting, Holder, FrontierNamed
<1>3. BodyReady /\ (\A p \in Procs : InHand(p)) /\ \A p \in Procs : ~Holder(p)
  BY <1>1 DEF BodyReady, InHand, Holder
<1>4. ResolvedOnce /\ AcksInv /\ ConsentInv
  BY <1>1 DEF ResolvedOnce, AcksInv, ConsentInv
<1>q. QED BY <1>2, <1>3, <1>4 DEF TraceInv, BodyInv

\* The invariant of the trace holds in every state.
THEOREM TraceInvariant == Spec => [](IInv /\ TraceInv)
<1>1. Init => IInv /\ TraceInv
  BY InitIInv, InitTraceInv
<1>2. (IInv /\ TraceInv) /\ [Next]_vars => (IInv /\ TraceInv)'
  <2> SUFFICES ASSUME IInv, TraceInv, [Next]_vars
               PROVE  IInv' /\ TraceInv'
    OBVIOUS
  <2>1. IInv'
    BY NextIInv
  <2>2. FrontInv'
    BY <2>1, FrontStep DEF TraceInv
  <2>3. BodyInv'
    BY <2>1, BodyStep
  <2>q. QED BY <2>1, <2>2, <2>3 DEF TraceInv
<1>q. QED BY <1>1, <1>2, PTL DEF Spec

\* A recorded answer or decision, as the properties name it.
LEMMA Recording ==
  ASSUME NEW n, NEW v
  PROVE  /\ HasAnswer("responded", n, v) <=> <<n, v>> \in Answers
         /\ HasAnswer("resolved", n, v) <=> <<n, v>> \in Decided
  BY DEF HasAnswer, RecordedAt, Answers, Decided

\* Whatever dies and whoever decides, no action that the policy asks about is
\* executed without the recorded consent of a human, and none whose rejection
\* was confirmed.
THEOREM Consent == Spec => []ConsentBeforeEffect
<1>1. ConsentInv => ConsentBeforeEffect
  <2> SUFFICES ASSUME ConsentInv, NEW n \in Steps, effects[n] > 0
               PROVE  /\ HasAnswer("responded", n, "ask") =>
                           HasAnswer("resolved", n, "yes") /\ <<n, "yes">> \in given
                      /\ \A a \in Approvers : <<a, n, "no">> \notin acks
    BY DEF ConsentBeforeEffect
  <2>1. /\ <<n, "ask">> \in Answers => <<n, "yes">> \in Decided \cap given
        /\ \A d \in acks : <<d[2], d[3]>> # <<n, "no">>
    BY DEF ConsentInv
  <2>2. \A a \in Approvers : <<a, n, "no">> \notin acks
    <3> SUFFICES ASSUME NEW a \in Approvers, <<a, n, "no">> \in acks
                 PROVE  FALSE
      OBVIOUS
    <3> DEFINE d == <<a, n, "no">>
    <3>1. d \in acks /\ d[2] = n /\ d[3] = "no"
      OBVIOUS
    <3> HIDE DEF d
    <3>q. QED BY <2>1, <3>1
  <2>q. QED BY <2>1, <2>2, Recording
<1>2. TraceInv => ConsentBeforeEffect
  BY <1>1 DEF TraceInv, BodyInv
<1>q. QED BY <1>2, TraceInvariant, PTL

\* Whoever decides at the same time, one decision is recorded for each action,
\* and resolve_approval confirms none but that one.
THEOREM SingleDecision == Spec => []OneDecision
<1>1. ResolvedOnce /\ AcksInv => OneDecision
  BY Recording DEF ResolvedOnce, AcksInv, OneDecision, RecordedAt
<1>2. TraceInv => OneDecision
  BY <1>1 DEF TraceInv, BodyInv
<1>q. QED BY <1>2, TraceInvariant, PTL

\* A checkpoint that may be resumed accounts for every model call and every
\* effect there has been, and the event of each is before its frontier.
THEOREM Accounting == Spec => []EffectsAccounted
<1>1. IInv /\ TraceInv => EffectsAccounted
  <2> SUFFICES ASSUME IInv, TraceInv, cp.ready, NEW n \in Steps
               PROVE  /\ calls[n] > 0 <=> n <= cp.steps
                      /\ calls[n] > 0 =>
                           \E i \in 1..cp.seq : RecordedAt(i, "responded", n)
                      /\ effects[n] > 0 =>
                           \E i \in 1..cp.seq : \/ RecordedAt(i, "tool", n)
                                                \/ RecordedAt(i, "verified", n)
    BY DEF EffectsAccounted
  <2>1. /\ Asked(cp.steps) /\ QuietAfter(cp.steps)
        /\ cp.steps \in AccountedTo
        /\ cp.steps \in Nat /\ n \in Nat
        /\ effects[n] \in Nat
    BY LifecycleAssumption
    DEF IInv, DataInv, ReadyInv, Consistent, TraceInv, BodyInv, BodyReady,
        TypeOK, StoresOK, HistoryOK, Checkpoints, Steps, LifecycleAssumption
  <2>2. calls[n] > 0 <=> n <= cp.steps
    BY <2>1 DEF Asked
  <2>3. effects[n] > 0 => n <= cp.steps
    BY <2>1 DEF QuietAfter
  <2>4. \A i \in DOMAIN trace : trace[i].type # "finished" => i \in 1..cp.seq
    <3>1. /\ cp.seq \in DOMAIN trace
          /\ \/ Len(trace) = cp.seq
             \/ /\ Len(trace) = cp.seq + 1
                /\ trace[Len(trace)].type = "finished"
      BY DEF TraceInv, FrontInv, FrontierNamed, RecordedAt
    <3>2. DOMAIN trace = 1..Len(trace) /\ Len(trace) \in Nat
      BY LenProperties DEF IInv, TypeOK, StoresOK
    <3>q. QED BY <3>1, <3>2
  <2>5. n <= cp.steps => n \in AnsweredSteps /\ (effects[n] > 0 => n \in Ends)
    BY <2>1 DEF AccountedTo
  <2>6. ASSUME n \in AnsweredSteps
        PROVE  \E i \in 1..cp.seq : RecordedAt(i, "responded", n)
    <3>1. PICK d \in Answers : d[1] = n
      BY <2>6 DEF AnsweredSteps
    <3>2. PICK i \in DOMAIN trace : /\ trace[i].type = "responded"
                                    /\ d = <<trace[i].step, trace[i].val>>
      BY DEF Answers
    <3>3. trace[i].step = n
      BY <3>1, <3>2
    <3>q. QED BY <2>4, <3>2, <3>3 DEF RecordedAt
  <2>7. ASSUME n \in Ends
        PROVE  \E i \in 1..cp.seq : \/ RecordedAt(i, "tool", n)
                                     \/ RecordedAt(i, "verified", n)
    BY <2>4, <2>7 DEF Ends, RecordedAt
  <2>q. QED BY <2>2, <2>3, <2>5, <2>6, <2>7
<1>q. QED BY <1>1, TraceInvariant, PTL


-----------------------------------------------------------------------------
(* The order of the trace                                                  *)

\* The events of one step, in the order of its protocol: a tool's end and a
\* suite's are alternatives, and so are the two ends of a run.
Rank(type) ==
  CASE type = "started"   -> 0
    [] type = "requested" -> 1
    [] type = "responded" -> 2
    [] type = "called"    -> 3
    [] type = "approval"  -> 4
    [] type = "resolved"  -> 5
    [] type \in {"tool", "verified"}   -> 6
    [] type \in {"finished", "failed"} -> 7

\* Where an event belongs in the trace of a run.
Place(e) == 8 * e.step + Rank(e.type)

\* Of each step each event is recorded at most once, in the protocol's order,
\* and before every event of a later step, although the processes that append
\* come late, die and take over from each other.
TraceInOrder ==
  \A i, j \in DOMAIN trace : i < j => Place(trace[i]) < Place(trace[j])

\* The first k events of t belong before the events of step n past rank r, and
\* none of them ends the run.
UpTo(t, k, n, r) ==
  \A i \in 1..k : t[i].type \notin Ending /\ Place(t[i]) <= 8 * n + r

\* What was recorded last of a step at its boundary: its end, or how far its
\* pending action came.
Room(pending) ==
  IF pending = NoPending THEN 6
  ELSE IF pending.approved = "undecided" THEN 4 ELSE 5

\* The pending action of c is its step's.
PendingHere(c) == c.pending # NoPending => c.pending.step = c.steps

\* c stands where its events end, or is that of a run whose end is recorded.
Boundary(t, c) ==
  /\ c.seq \in 1..Len(t)
  /\ PendingHere(c)
  /\ \/ UpTo(t, c.seq, c.steps, Room(c.pending))
     \/ c.status \in Terminal /\ t[c.seq].type = "finished"

AtBoundaries == {"start_save", "claim", "step", "settle", "finish_claim",
                 "refinish", "finish", "decide_claim", "resolve", "decide_save"}

\* What the copy of a process at this point of its control says of the events
\* it has seen.
OrderAt(t, label, c) ==
  /\ c.seq <= Len(t)
  /\ label = "start" => c.seq = 0 /\ c.steps = 0
  /\ label \notin {"idle", "start"} => c.seq >= 1
  /\ label \in {"start", "start_save"} \cup NonePending => c.pending = NoPending
  /\ label \in {"validate", "decide_validate"} => Boundary(t, c)
  /\ label \in AtBoundaries =>
       PendingHere(c) /\ UpTo(t, c.seq, c.steps, Room(c.pending))
  /\ label \in {"request", "output", "fail"} => UpTo(t, c.seq, c.steps, 6)
  /\ label \in {"exec", "toolend"} => UpTo(t, c.seq, c.steps, 5)
  /\ label = "ask" => /\ c.pending = [step |-> c.steps, approved |-> "undecided"]
                      /\ UpTo(t, c.seq, c.steps, 3)
  /\ label \in {"toolcall", "verify", "verified"} => UpTo(t, c.seq, c.steps, 2)
  /\ label \in {"call", "respond"} => UpTo(t, c.seq, c.steps, 1)
  /\ label \in {"decide_claim", "resolve"} =>
       c.pending # NoPending /\ c.pending.approved = "undecided"
  /\ label \in Finishing \cup {"finish"} => c.status \in Terminal
  /\ label = "finish_save" => t[c.seq].type = "finished" /\ PendingHere(c)

OrderInv ==
  /\ TraceInOrder
  /\ EndIsLast
  /\ cp.ready => Boundary(trace, cp)
  /\ \A p \in Procs : OrderAt(trace, pc[p], loc[p])

\* An event has a place.
LEMMA Placed ==
  ASSUME NEW e \in Events
  PROVE  Place(e) \in Int /\ e.step \in Nat /\ Rank(e.type) \in 0..7
<1>1. e.step \in Nat /\ e.type \in EventTypes
  <2>1. e.step \in 0..MaxSteps /\ e.type \in EventTypes
    BY DEF Events
  <2>q. QED BY <2>1, LifecycleAssumption DEF LifecycleAssumption
<1>2. Rank(e.type) \in 0..7
  BY <1>1 DEF EventTypes, Rank
<1>q. QED BY <1>1, <1>2 DEF Place

\* What belongs before an event of a step belongs before its later ones.
LEMMA Wider ==
  ASSUME NEW t \in Seq(Events), NEW k \in Nat, k <= Len(t),
         NEW n \in Nat, NEW r \in Int, NEW s \in Int, r <= s, UpTo(t, k, n, r)
  PROVE  UpTo(t, k, n, s)
<1> SUFFICES ASSUME NEW i \in 1..k
             PROVE  t[i].type \notin Ending /\ Place(t[i]) <= 8 * n + s
  BY DEF UpTo
<1>1. t[i].type \notin Ending /\ Place(t[i]) <= 8 * n + r
  BY DEF UpTo
<1>2. t[i] \in Events
  BY LenProperties
<1>q. QED BY <1>1, <1>2, Placed

\* What a copy says of the events it has seen stays true as the trace grows.
LEMMA Grows ==
  ASSUME NEW t, NEW u, Len(t) \in Nat, Len(u) \in Nat, Len(t) <= Len(u),
         \A i \in 1..Len(t) : u[i] = t[i], NEW c \in Checkpoints
  PROVE  /\ Boundary(t, c) => Boundary(u, c)
         /\ \A label : OrderAt(t, label, c) => OrderAt(u, label, c)
<1>1. c.seq \in Nat
  BY DEF Checkpoints
<1>2. \A n, r : c.seq <= Len(t) /\ UpTo(t, c.seq, n, r) => UpTo(u, c.seq, n, r)
  BY <1>1 DEF UpTo
<1>3. Boundary(t, c) => Boundary(u, c)
  BY <1>1, <1>2 DEF Boundary
<1>4. ASSUME NEW label, OrderAt(t, label, c)
      PROVE  OrderAt(u, label, c)
  BY <1>1, <1>2, <1>3, <1>4 DEF OrderAt
<1>q. QED BY <1>3, <1>4

\* The new event belongs after all the others, and none of them ends the run.
InPlace ==
  \E e : /\ trace' = Append(trace, e)
         /\ \A i \in DOMAIN trace : /\ trace[i].type \notin Ending
                                    /\ Place(trace[i]) < Place(e)

\* p's copy has come to an earlier event of step n, or to an earlier step.
Ahead(p, type, n) ==
  \/ loc[p].seq = 0
  \/ \E r \in Int : r < Rank(type) /\ UpTo(trace, loc[p].seq, n, r)
  \/ \E m \in Nat : m < n /\ UpTo(trace, loc[p].seq, m, 6)

\* Later ranks and later steps are farther on.
LEMMA Farther ==
  ASSUME NEW a \in Int, NEW n \in Nat, NEW k \in 0..7
  PROVE  /\ \A r \in Int : r < k /\ a <= 8 * n + r => a < 8 * n + k
         /\ \A m \in Nat : m < n /\ a <= 8 * m + 6 => a < 8 * n + k
  OBVIOUS

\* An event past the place that its process's copy has come to is in order.
LEMMA EmitPlace ==
  ASSUME TypeOK, NEW p \in Procs, NEW type \in EventTypes, NEW n \in 0..MaxSteps,
         NEW val, NEW copy, Emit(p, type, n, val, copy),
         copy.seq = loc[p].seq + 1, Ahead(p, type, n)
  PROVE  /\ InPlace /\ cp' = cp /\ loc'[p] = copy
         /\ copy.seq = Len(trace') /\ copy.seq >= 1
         /\ trace'[copy.seq].type = type
         /\ type \notin Ending => UpTo(trace', copy.seq, n, Rank(type))
<1> DEFINE e == [type |-> type, by |-> p, step |-> n, val |-> val]
<1>1. e.type = type /\ e.step = n /\ Place(e) = 8 * n + Rank(type)
  BY DEF Place
<1>2. trace' = Append(trace, e) /\ loc[p].seq = Len(trace)
  BY DEF Emit, CanAppend
<1>3. trace \in Seq(Events) /\ cp' = cp /\ loc'[p] = copy
  BY DEF Emit, TypeOK, StoresOK, ProcessesOK
<1> HIDE DEF e
<1>4. /\ Len(trace) \in Nat /\ Len(trace') = Len(trace) + 1
      /\ trace'[Len(trace) + 1] = e
      /\ \A i \in 1..Len(trace) : trace'[i] = trace[i]
      /\ DOMAIN trace = 1..Len(trace)
  BY <1>2, <1>3, Grown
<1>5. /\ n \in Nat /\ Rank(type) \in 0..7
  BY LifecycleAssumption DEF EventTypes, Rank, LifecycleAssumption
<1>6. \A i \in 1..Len(trace) : /\ trace[i].type \notin Ending
                               /\ Place(trace[i]) < 8 * n + Rank(type)
  <2> SUFFICES ASSUME NEW i \in 1..Len(trace)
               PROVE  /\ trace[i].type \notin Ending
                      /\ Place(trace[i]) < 8 * n + Rank(type)
    OBVIOUS
  <2>1. Place(trace[i]) \in Int
    BY <1>3, <1>4, LenProperties, Placed
  <2>2. ASSUME NEW r \in Int, r < Rank(type), UpTo(trace, loc[p].seq, n, r)
        PROVE  /\ trace[i].type \notin Ending
               /\ Place(trace[i]) < 8 * n + Rank(type)
    <3>1. trace[i].type \notin Ending /\ Place(trace[i]) <= 8 * n + r
      BY <1>2, <2>2 DEF UpTo
    <3>q. QED BY <1>5, <2>1, <2>2, <3>1, Farther
  <2>3. ASSUME NEW m \in Nat, m < n, UpTo(trace, loc[p].seq, m, 6)
        PROVE  /\ trace[i].type \notin Ending
               /\ Place(trace[i]) < 8 * n + Rank(type)
    <3>1. trace[i].type \notin Ending /\ Place(trace[i]) <= 8 * m + 6
      BY <1>2, <2>3 DEF UpTo
    <3>q. QED BY <1>5, <2>1, <2>3, <3>1, Farther
  <2>q. QED BY <1>2, <1>4, <2>2, <2>3 DEF Ahead
<1>7. InPlace
  BY <1>1, <1>2, <1>4, <1>6 DEF InPlace
<1>8. type \notin Ending => UpTo(trace', Len(trace) + 1, n, Rank(type))
  <2> SUFFICES ASSUME type \notin Ending, NEW i \in 1..Len(trace) + 1
               PROVE  /\ trace'[i].type \notin Ending
                      /\ Place(trace'[i]) <= 8 * n + Rank(type)
    BY DEF UpTo
  <2>1. CASE i = Len(trace) + 1
    BY <1>1, <1>4, <1>5, <2>1
  <2>2. CASE i \in 1..Len(trace)
    <3>1. Place(trace[i]) \in Int
      BY <1>3, <1>4, <2>2, LenProperties, Placed
    <3>q. QED BY <1>4, <1>5, <1>6, <2>2, <3>1
  <2>q. QED BY <1>4, <2>1, <2>2
<1>q. QED BY <1>1, <1>2, <1>3, <1>4, <1>7, <1>8

\* What a step of p does to the order: it appends in order, and what p's copy
\* and a saved checkpoint say of the trace is true.
OrderShape(p) ==
  /\ trace' = trace \/ InPlace
  /\ OrderAt(trace', pc'[p], loc'[p])
  /\ cp' = cp \/ (cp'.ready => Boundary(trace', cp'))

\* What every step of p starts from.
LEMMA Typed ==
  ASSUME TypeOK, TypeOK', NEW p \in Procs
  PROVE  /\ pc \in [Procs -> Labels] /\ loc \in [Procs -> Checkpoints]
         /\ loc[p] \in Checkpoints /\ loc'[p] \in Checkpoints
         /\ cp \in Checkpoints /\ cp' \in Checkpoints
         /\ trace \in Seq(Events) /\ trace' \in Seq(Events)
         /\ Len(trace) \in Nat /\ Len(trace') \in Nat
         /\ DOMAIN trace = 1..Len(trace)
  BY LenProperties DEF TypeOK, StoresOK, ProcessesOK

\* Nothing is said of a process that is not working.
LEMMA AtRest ==
  ASSUME NEW t, Len(t) \in Nat
  PROVE  OrderAt(t, "idle", NoCheckpoint)
<1>1. NoCheckpoint.seq = 0
  BY DEF NoCheckpoint
<1>q. QED
  BY <1>1 DEF OrderAt, NonePending, InStep, AtBoundaries, Finishing

\* A process that stands at the boundary of a step.
LEMMA BetweenSteps ==
  ASSUME NEW t, NEW c, NEW label \in {"claim", "step", "finish"},
         PendingHere(c), UpTo(t, c.seq, c.steps, Room(c.pending)),
         c.seq >= 1, c.seq <= Len(t), label = "finish" => c.status \in Terminal
  PROVE  OrderAt(t, label, c)
  BY DEF OrderAt, NonePending, InStep, AtBoundaries, Finishing

\* A process that is at the call of its step.
LEMMA Underway ==
  ASSUME NEW t, NEW c, NEW label,
         c.pending = NoPending, c.seq >= 1, c.seq <= Len(t),
         \/ /\ label \in {"toolcall", "verify", "verified"}
            /\ UpTo(t, c.seq, c.steps, 2)
         \/ /\ label \in {"exec", "toolend"}
            /\ UpTo(t, c.seq, c.steps, 5)
  PROVE  OrderAt(t, label, c)
  BY DEF OrderAt, NonePending, InStep, AtBoundaries, Finishing

\* A process that goes on within its step, or ends it, with nothing pending.
LEMMA Onward ==
  ASSUME NEW t, NEW c, NEW label \in {"request", "output", "fail", "settle"},
         c.pending = NoPending, UpTo(t, c.seq, c.steps, 6),
         c.seq >= 1, c.seq <= Len(t)
  PROVE  OrderAt(t, label, c)
  BY DEF OrderAt, NonePending, InStep, AtBoundaries, Finishing, PendingHere,
         Room

\* A process that leaves has seen nothing.
LEMMA LeaveOrder ==
  ASSUME TypeOK, TypeOK', NEW p \in Procs, Leave(p), trace' = trace, cp' = cp
  PROVE  OrderShape(p)
<1>1. pc'[p] = "idle" /\ loc'[p] = NoCheckpoint /\ Len(trace') \in Nat
  BY Typed DEF Leave, Goto
<1>q. QED BY <1>1, AtRest DEF OrderShape

\* Each of these actions keeps the order.
LEMMA DriveOrder ==
  ASSUME TypeOK, TypeOK', NEW p \in Procs, OrderAt(trace, pc[p], loc[p]),
         DriveAction(p)
  PROVE  OrderShape(p)
<1> DEFINE c == loc[p]
           d == loc'[p]
<1>1. /\ pc \in [Procs -> Labels] /\ loc \in [Procs -> Checkpoints]
      /\ loc[p] \in Checkpoints /\ loc'[p] \in Checkpoints
      /\ cp \in Checkpoints /\ cp' \in Checkpoints
      /\ trace \in Seq(Events) /\ trace' \in Seq(Events)
      /\ Len(trace) \in Nat /\ Len(trace') \in Nat
  BY Typed
<1>2. c.seq \in Nat /\ c.steps \in Nat /\ c.steps \in 0..MaxSteps
  BY <1>1, LifecycleAssumption DEF Checkpoints, LifecycleAssumption
<1>3. /\ Recorded(p).seq = c.seq + 1 /\ Recorded(p).status = c.status
      /\ Recorded(p).steps = c.steps /\ Recorded(p).pending = c.pending
      /\ Recorded(p) \in Checkpoints
  BY RecordedFields DEF TypeOK
<1>4. CASE EmitRunStarted(p)
  <2>1. /\ c.seq = 0 /\ c.steps = 0
        /\ c.pending = NoPending /\ pc'[p] = "start_save"
    BY <1>1, <1>4 DEF EmitRunStarted, Goto, OrderAt
  <2>2. Ahead(p, "started", c.steps)
    BY <2>1 DEF Ahead
  <2>3. PICK copy, val :
          /\ Emit(p, "started", c.steps, val, copy)
          /\ copy.seq = c.seq + 1
          /\ copy.steps = c.steps /\ copy.pending = c.pending
    BY <1>3, <1>4, <2>1 DEF EmitRunStarted
  <2>4. /\ "started" \in EventTypes /\ "started" \notin Ending
        /\ Rank("started") \in Int /\ Rank("started") <= 6
    BY DEF EventTypes, Ending, Rank
  <2>5. /\ InPlace /\ cp' = cp /\ d = copy /\ copy.seq = Len(trace')
        /\ copy.seq >= 1
        /\ UpTo(trace', copy.seq, c.steps, Rank("started"))
    BY <1>2, <2>2, <2>3, <2>4, EmitPlace
  <2>6. UpTo(trace', copy.seq, c.steps, 6)
    BY <1>1, <1>2, <2>4, <2>5, Wider
  <2>q. QED
    BY <1>1, <2>1, <2>3, <2>5, <2>6
    DEF OrderShape, OrderAt, NonePending, InStep, AtBoundaries, Finishing,
        PendingHere, Room
<1>5. CASE SaveStart(p)
  <2>1. /\ pc[p] = "start_save" /\ pc'[p] = "claim" /\ trace' = trace
        /\ d.seq = c.seq /\ d.steps = c.steps /\ d.pending = c.pending
        /\ cp'.seq = c.seq /\ cp'.steps = c.steps /\ cp'.pending = c.pending
    BY <1>1, <1>5 DEF SaveStart, SaveAndGo, Store, Goto, Checkpoints
  <2>q. QED
    BY <1>1, <1>2, <2>1
    DEF OrderShape, OrderAt, NonePending, InStep, AtBoundaries, Finishing,
        PendingHere, Boundary

<1>6. CASE RefuseResume(p) \/ ReturnUnchanged(p)
  BY <1>6, LeaveOrder DEF RefuseResume, ReturnUnchanged, stores
<1>7. CASE ContinueRun(p)
  <2>1. /\ pc[p] = "validate" /\ pc'[p] = "claim" /\ trace' = trace /\ cp' = cp
        /\ d.seq = c.seq /\ d.steps = c.steps /\ d.pending = c.pending
        /\ c.status \notin Terminal
    BY <1>1, <1>7
    DEF ContinueRun, Continues, stores, Goto, Checkpoints, Terminal
  <2>q. QED
    BY <1>1, <1>2, <2>1
    DEF OrderShape, OrderAt, NonePending, InStep, AtBoundaries, Finishing,
        PendingHere, Boundary
<1>8. CASE CompleteBookkeeping(p)
  <2>1. /\ pc[p] = "validate" /\ pc'[p] = "finish_claim" /\ trace' = trace
        /\ cp' = cp /\ d = c /\ c.status \in Terminal
        /\ trace[c.seq].type # "finished"
    BY <1>1, <1>8
    DEF CompleteBookkeeping, Resumable, SameFrontier, stores, Goto
  <2>2. /\ c.seq <= Len(trace) /\ c.seq >= 1 /\ PendingHere(c)
        /\ UpTo(trace, c.seq, c.steps, Room(c.pending))
    BY <1>2, <2>1 DEF OrderAt, Boundary
  <2>q. QED
    BY <2>1, <2>2
    DEF OrderShape, OrderAt, NonePending, InStep, AtBoundaries, Finishing
<1>9. CASE ClaimBookkeeping(p) \/ ClaimStep(p)
  <2>1. /\ \/ pc[p] = "finish_claim" /\ pc'[p] = "refinish"
           \/ pc[p] = "claim" /\ pc'[p] = "step"
        /\ trace' = trace
    BY <1>1, <1>9 DEF ClaimBookkeeping, ClaimStep, SaveAndGo, Store, Goto
  <2>2. /\ ~cp'.ready
        /\ d.seq = c.seq /\ d.steps = c.steps /\ d.pending = c.pending
        /\ d.status = c.status
    <3>1. SaveAndGo(p, [c EXCEPT !.ready = FALSE], pc'[p])
      BY <1>9, <2>1 DEF ClaimBookkeeping, ClaimStep
    <3>q. QED BY <1>1, <3>1 DEF SaveAndGo, Store, Checkpoints
  <2>3. /\ c.seq <= Len(trace) /\ c.seq >= 1 /\ PendingHere(c)
        /\ UpTo(trace, c.seq, c.steps, Room(c.pending))
        /\ pc[p] = "finish_claim" => c.status \in Terminal
    BY <2>1 DEF OrderAt, AtBoundaries, Finishing
  <2>q. QED
    BY <2>1, <2>2, <2>3
    DEF OrderShape, OrderAt, NonePending, InStep, AtBoundaries, Finishing,
        PendingHere
<1>10. CASE EmitMissingFinished(p) \/ EmitRunFinished(p)
  <2>1. PICK copy : /\ Emit(p, "finished", c.steps, c.status, copy)
                    /\ copy.seq = c.seq + 1 /\ copy.status = c.status
                    /\ copy.steps = c.steps /\ copy.pending = c.pending
    <3>1. [Recorded(p) EXCEPT !.ready = TRUE].seq = c.seq + 1
      BY <1>3 DEF Checkpoints
    <3>2. /\ [Recorded(p) EXCEPT !.ready = TRUE].status = c.status
          /\ [Recorded(p) EXCEPT !.ready = TRUE].steps = c.steps
          /\ [Recorded(p) EXCEPT !.ready = TRUE].pending = c.pending
      BY <1>3 DEF Checkpoints
    <3>q. QED
      BY <1>3, <1>10, <3>1, <3>2 DEF EmitMissingFinished, EmitRunFinished
  <2>2. pc[p] \in {"refinish", "finish"} /\ pc'[p] = "finish_save"
    BY <1>1, <1>10 DEF EmitMissingFinished, EmitRunFinished, Goto
  <2>3. /\ c.status \in Terminal /\ PendingHere(c)
        /\ UpTo(trace, c.seq, c.steps, Room(c.pending))
    BY <2>2 DEF OrderAt, AtBoundaries, Finishing
  <2>4. Rank("finished") = 7 /\ "finished" \in EventTypes
    BY DEF Rank, EventTypes
  <2>5. Ahead(p, "finished", c.steps)
    <3>1. Room(c.pending) \in Int /\ Room(c.pending) < 7
      BY DEF Room
    <3>q. QED BY <2>3, <2>4, <3>1 DEF Ahead
  <2>6. /\ InPlace /\ cp' = cp /\ d = copy /\ copy.seq = Len(trace')
        /\ copy.seq >= 1 /\ trace'[copy.seq].type = "finished"
    BY <1>2, <2>1, <2>4, <2>5, EmitPlace
  <2>q. QED
    BY <1>1, <2>1, <2>2, <2>3, <2>6
    DEF OrderShape, OrderAt, NonePending, InStep, AtBoundaries, Finishing,
        PendingHere
<1>11. CASE SaveFinished(p)
  <2>1. /\ pc[p] = "finish_save" /\ trace' = trace
        /\ pc'[p] = "idle" /\ d = NoCheckpoint
        /\ cp'.seq = c.seq /\ cp'.steps = c.steps /\ cp'.pending = c.pending
        /\ cp'.status = c.status
    BY <1>1, <1>11 DEF SaveFinished, Store, Leave, Goto, Checkpoints
  <2>2. d.seq = 0
    BY <2>1 DEF NoCheckpoint
  <2>q. QED
    BY <1>1, <1>2, <2>1, <2>2
    DEF OrderShape, OrderAt, NonePending, InStep, AtBoundaries, Finishing,
        PendingHere, Boundary
<1>q. QED
  BY <1>4, <1>5, <1>6, <1>7, <1>8, <1>9, <1>10, <1>11 DEF DriveAction

\* The fields of what EmitModelResponded, EmitToolEnd and
\* EmitVerificationFinished leave in memory.
LEMMA WithStatus ==
  ASSUME TypeOK, NEW p \in Procs, NEW status
  PROVE  LET copy == [Recorded(p) EXCEPT !.status = status]
         IN  /\ copy.seq = loc[p].seq + 1 /\ copy.steps = loc[p].steps
             /\ copy.pending = loc[p].pending
<1>1. ProcessesOK
  BY DEF TypeOK
<1>q. QED BY <1>1, RecordedFields DEF Checkpoints

\* Each of these actions keeps the order.
LEMMA StepOrder ==
  ASSUME TypeOK, TypeOK', NEW p \in Procs, OrderAt(trace, pc[p], loc[p]),
         StepAction(p)
  PROVE  OrderShape(p)
<1> DEFINE c == loc[p]
           d == loc'[p]
<1>1. /\ pc \in [Procs -> Labels] /\ loc \in [Procs -> Checkpoints]
      /\ loc[p] \in Checkpoints /\ loc'[p] \in Checkpoints
      /\ cp \in Checkpoints /\ cp' \in Checkpoints
      /\ trace \in Seq(Events) /\ trace' \in Seq(Events)
      /\ Len(trace) \in Nat /\ Len(trace') \in Nat
  BY Typed
<1>2. c.seq \in Nat /\ c.steps \in Nat /\ c.steps \in 0..MaxSteps
  BY <1>1, LifecycleAssumption DEF Checkpoints, LifecycleAssumption
<1>3. /\ Recorded(p).seq = c.seq + 1 /\ Recorded(p).status = c.status
      /\ Recorded(p).steps = c.steps /\ Recorded(p).pending = c.pending
      /\ Recorded(p) \in Checkpoints
  BY RecordedFields DEF TypeOK
<1>4. pc[p] \in InStep => c.seq >= 1 /\ c.seq <= Len(trace)
  BY DEF OrderAt, InStep
<1>5. CASE TakeUpDecision(p)
  <2>1. /\ pc[p] = "step" /\ trace' = trace /\ cp' = cp
        /\ d.seq = c.seq /\ d.steps = c.steps /\ d.pending = NoPending
    BY <1>1, <1>5 DEF TakeUpDecision, stores, Checkpoints
  <2>2. \/ pc'[p] \in {"exec", "toolend"} /\ Room(c.pending) = 5
        \/ pc'[p] = "settle"
    BY <1>1, <1>5 DEF TakeUpDecision, Goto, Room
  <2>3. UpTo(trace, c.seq, c.steps, Room(c.pending)) /\ c.seq >= 1
    BY <1>4, <2>1 DEF OrderAt, AtBoundaries, InStep
  <2>4. CASE pc'[p] = "settle"
    <3>1. Room(c.pending) \in Int /\ Room(c.pending) <= 6
      BY DEF Room
    <3>2. UpTo(trace', d.seq, d.steps, 6) /\ d.seq >= 1 /\ d.seq <= Len(trace')
      BY <1>1, <1>2, <1>4, <2>1, <2>3, <3>1, Wider DEF InStep
    <3>3. OrderAt(trace', pc'[p], loc'[p])
      BY <2>1, <2>4, <3>2, Onward
    <3>q. QED BY <2>1, <3>3 DEF OrderShape
  <2>5. CASE pc'[p] \in {"exec", "toolend"} /\ Room(c.pending) = 5
    <3>1. UpTo(trace', d.seq, d.steps, 5) /\ d.seq >= 1 /\ d.seq <= Len(trace')
      BY <1>4, <2>1, <2>3, <2>5 DEF InStep
    <3>2. OrderAt(trace', pc'[p], loc'[p])
      BY <2>1, <2>5, <3>1, Underway
    <3>q. QED BY <2>1, <3>2 DEF OrderShape
  <2>q. QED BY <2>2, <2>4, <2>5
<1>6. CASE CheckBudgets(p)
  <2>1. /\ pc[p] = "step" /\ trace' = trace /\ cp' = cp
        /\ d.seq = c.seq /\ d.steps = c.steps /\ d.pending = NoPending
        /\ c.pending = NoPending /\ pc'[p] \in {"settle", "fail", "request"}
    <3>1. /\ pc[p] = "step" /\ trace' = trace /\ cp' = cp
          /\ c.pending = NoPending /\ pc'[p] \in {"settle", "fail", "request"}
      BY <1>1, <1>6 DEF CheckBudgets, EndStep, Raise, Goto, stores
    <3>2. d = c \/ \E status : d = [c EXCEPT !.status = status]
      BY <1>1, <1>6 DEF CheckBudgets, EndStep, Raise
    <3>3. d.seq = c.seq /\ d.steps = c.steps /\ d.pending = c.pending
      BY <1>1, <3>2 DEF Checkpoints
    <3>q. QED BY <3>1, <3>3
  <2>2. UpTo(trace, c.seq, c.steps, 6) /\ c.seq >= 1 /\ c.seq <= Len(trace)
    BY <1>4, <2>1 DEF OrderAt, AtBoundaries, InStep, Room
  <2>3. UpTo(trace', d.seq, d.steps, 6) /\ d.seq >= 1 /\ d.seq <= Len(trace')
    BY <2>1, <2>2
  <2>4. OrderAt(trace', pc'[p], loc'[p])
    BY <2>1, <2>3, Onward
  <2>q. QED BY <2>1, <2>4 DEF OrderShape
<1>7. CASE EmitModelRequested(p)
  <2>1. pc[p] = "request" /\ pc'[p] = "call"
    BY <1>1, <1>7 DEF EmitModelRequested, Goto
  <2>2. c.pending = NoPending /\ UpTo(trace, c.seq, c.steps, 6)
    BY <2>1 DEF OrderAt, NonePending, InStep
  <2>3. PICK copy, val :
          /\ Emit(p, "requested", c.steps + 1, val, copy)
          /\ copy.seq = c.seq + 1
          /\ copy.steps = c.steps + 1 /\ copy.pending = c.pending
    <3>1. /\ [Recorded(p) EXCEPT !.steps = @ + 1].seq = c.seq + 1
          /\ [Recorded(p) EXCEPT !.steps = @ + 1].steps = c.steps + 1
          /\ [Recorded(p) EXCEPT !.steps = @ + 1].pending = c.pending
      BY <1>3 DEF Checkpoints
    <3>q. QED BY <1>7, <3>1 DEF EmitModelRequested
  <2>4. d = copy /\ c.steps + 1 \in 0..MaxSteps
    <3>1. d = copy
      BY <1>1, <2>3 DEF Emit
    <3>q. QED BY <1>1, <2>3, <3>1 DEF Checkpoints
  <2>5. Ahead(p, "requested", c.steps + 1)
    BY <1>2, <2>2 DEF Ahead
  <2>6. "requested" \in EventTypes /\ "requested" \notin Ending
    BY DEF EventTypes, Ending
  <2>7. /\ InPlace /\ cp' = cp /\ copy.seq = Len(trace') /\ copy.seq >= 1
        /\ UpTo(trace', copy.seq, c.steps + 1, Rank("requested"))
    BY <2>3, <2>4, <2>5, <2>6, EmitPlace
  <2>8. UpTo(trace', d.seq, d.steps, 1) /\ d.pending = NoPending
    <3>1. Rank("requested") = 1
      BY DEF Rank
    <3>q. QED BY <2>2, <2>3, <2>4, <2>7, <3>1
  <2>9. d.seq = Len(trace') /\ d.seq >= 1
    BY <2>4, <2>7
  <2>q. QED
    BY <1>1, <2>1, <2>7, <2>8, <2>9
    DEF OrderShape, OrderAt, NonePending, InStep, AtBoundaries, Finishing
<1>8. CASE CallModel(p)
  <2>1. /\ pc[p] = "call" /\ trace' = trace /\ cp' = cp
        /\ d.seq = c.seq /\ d.steps = c.steps /\ d.pending = c.pending
        /\ pc'[p] \in {"respond", "settle", "fail"}
    BY <1>1, <1>8
    DEF CallModel, EndStep, Raise, Goto, stores, Checkpoints
  <2>2. /\ UpTo(trace, c.seq, c.steps, 1) /\ c.pending = NoPending
        /\ c.seq >= 1 /\ c.seq <= Len(trace)
    BY <1>4, <2>1 DEF OrderAt, NonePending, InStep
  <2>3. CASE pc'[p] = "respond"
    BY <2>1, <2>2, <2>3
    DEF OrderShape, OrderAt, NonePending, InStep, AtBoundaries, Finishing
  <2>4. CASE pc'[p] \in {"settle", "fail"}
    <3>1. UpTo(trace', d.seq, d.steps, 6) /\ d.seq >= 1 /\ d.seq <= Len(trace')
      BY <1>1, <1>2, <2>1, <2>2, Wider
    <3>2. OrderAt(trace', pc'[p], loc'[p])
      BY <2>1, <2>2, <2>4, <3>1, Onward
    <3>q. QED BY <2>1, <3>2 DEF OrderShape
  <2>q. QED BY <2>1, <2>3, <2>4
<1>9. CASE EmitModelResponded(p)
  <2>1. pc[p] = "respond" /\ pc'[p] \in {"fail", "verify", "settle", "toolcall"}
    BY <1>1, <1>9 DEF EmitModelResponded, Goto
  <2>2. c.pending = NoPending /\ UpTo(trace, c.seq, c.steps, 1)
    BY <2>1 DEF OrderAt, NonePending, InStep
  <2>3. PICK copy, val :
          /\ Emit(p, "responded", c.steps, val, copy)
          /\ copy.seq = c.seq + 1
          /\ copy.steps = c.steps /\ copy.pending = c.pending
    BY <1>9, WithStatus DEF EmitModelResponded
  <2>4. "responded" \in EventTypes /\ "responded" \notin Ending
    BY DEF EventTypes, Ending
  <2>5. Rank("responded") = 2
    BY DEF Rank
  <2>6. Ahead(p, "responded", c.steps)
    BY <2>2, <2>5 DEF Ahead
  <2>7. /\ InPlace /\ cp' = cp /\ d = copy /\ d.seq = Len(trace') /\ d.seq >= 1
        /\ UpTo(trace', d.seq, d.steps, 2) /\ d.pending = NoPending
    BY <1>2, <2>2, <2>3, <2>4, <2>5, <2>6, EmitPlace
  <2>8. d.seq <= Len(trace')
    BY <1>1, <2>7
  <2>9. CASE pc'[p] \in {"verify", "toolcall"}
    <3>1. OrderAt(trace', pc'[p], loc'[p])
      BY <2>7, <2>8, <2>9, Underway
    <3>q. QED BY <2>7, <3>1 DEF OrderShape
  <2>10. CASE pc'[p] \in {"fail", "settle"}
    <3>1. UpTo(trace', d.seq, d.steps, 6)
      BY <1>1, <1>2, <2>3, <2>7, <2>8, Wider
    <3>2. OrderAt(trace', pc'[p], loc'[p])
      BY <2>7, <2>8, <2>10, <3>1, Onward
    <3>q. QED BY <2>7, <3>2 DEF OrderShape
  <2>q. QED BY <2>1, <2>9, <2>10
<1>10. CASE EmitToolCalled(p)
  <2>1. pc[p] = "toolcall" /\ pc'[p] \in {"exec", "toolend"}
    BY <1>1, <1>10 DEF EmitToolCalled, Goto
  <2>2. c.pending = NoPending /\ UpTo(trace, c.seq, c.steps, 2)
    BY <2>1 DEF OrderAt, NonePending, InStep
  <2>3. PICK copy, val :
          /\ Emit(p, "called", c.steps, val, copy)
          /\ copy.seq = c.seq + 1
          /\ copy.steps = c.steps /\ copy.pending = c.pending
    BY <1>3, <1>10 DEF EmitToolCalled
  <2>4. "called" \in EventTypes /\ "called" \notin Ending
    BY DEF EventTypes, Ending
  <2>5. Rank("called") = 3
    BY DEF Rank
  <2>6. Ahead(p, "called", c.steps)
    BY <2>2, <2>5 DEF Ahead
  <2>7. /\ InPlace /\ cp' = cp /\ d = copy /\ d.seq = Len(trace') /\ d.seq >= 1
        /\ UpTo(trace', d.seq, d.steps, 3) /\ d.pending = NoPending
    BY <1>2, <2>2, <2>3, <2>4, <2>5, <2>6, EmitPlace
  <2>8. UpTo(trace', d.seq, d.steps, 5)
    BY <1>1, <1>2, <2>3, <2>7, Wider
  <2>q. QED
    BY <1>1, <2>1, <2>7, <2>8
    DEF OrderShape, OrderAt, NonePending, InStep, AtBoundaries, Finishing
<1>11. CASE EmitToolCalledForApproval(p)
  <2> DEFINE asked == [step |-> c.steps, approved |-> "undecided"]
  <2>1. pc[p] = "toolcall" /\ pc'[p] = "ask"
    BY <1>1, <1>11 DEF EmitToolCalledForApproval, Goto
  <2>2. UpTo(trace, c.seq, c.steps, 2)
    BY <2>1 DEF OrderAt
  <2>3. PICK copy, val :
          /\ Emit(p, "called", c.steps, val, copy)
          /\ copy.seq = c.seq + 1
          /\ copy.steps = c.steps /\ copy.pending = asked
    <3> DEFINE waits == [Recorded(p) EXCEPT !.status = "waiting", !.pending = asked]
    <3>1. waits.seq = c.seq + 1 /\ waits.steps = c.steps /\ waits.pending = asked
      BY <1>3 DEF Checkpoints
    <3>2. \E val : Emit(p, "called", c.steps, val, waits)
      BY <1>11 DEF EmitToolCalledForApproval
    <3> HIDE DEF waits
    <3>q. QED BY <3>1, <3>2
  <2>4. "called" \in EventTypes /\ "called" \notin Ending
    BY DEF EventTypes, Ending
  <2>5. Rank("called") = 3
    BY DEF Rank
  <2>6. Ahead(p, "called", c.steps)
    BY <2>2, <2>5 DEF Ahead
  <2>7. /\ InPlace /\ cp' = cp /\ d = copy /\ d.seq = Len(trace') /\ d.seq >= 1
        /\ UpTo(trace', d.seq, d.steps, 3) /\ d.steps = c.steps
    BY <1>2, <2>3, <2>4, <2>5, <2>6, EmitPlace
  <2>8. d.pending = [step |-> d.steps, approved |-> "undecided"]
    BY <2>3, <2>7
  <2>q. QED
    BY <1>1, <2>1, <2>7, <2>8
    DEF OrderShape, OrderAt, NonePending, InStep, AtBoundaries, Finishing
<1>12. CASE EmitApprovalRequested(p)
  <2>1. pc[p] = "ask" /\ pc'[p] = "settle"
    BY <1>1, <1>12 DEF EmitApprovalRequested, Goto
  <2>2. /\ c.pending = [step |-> c.steps, approved |-> "undecided"]
        /\ UpTo(trace, c.seq, c.steps, 3)
    BY <2>1 DEF OrderAt
  <2>3. c.pending.step = c.steps /\ c.pending.approved = "undecided"
    BY <2>2
  <2>4. PICK copy, val :
          /\ Emit(p, "approval", c.steps, val, copy)
          /\ copy.seq = c.seq + 1
          /\ copy.steps = c.steps /\ copy.pending = c.pending
    BY <1>3, <1>12, <2>3 DEF EmitApprovalRequested
  <2>5. "approval" \in EventTypes /\ "approval" \notin Ending
    BY DEF EventTypes, Ending
  <2>6. Rank("approval") = 4
    BY DEF Rank
  <2>7. Ahead(p, "approval", c.steps)
    BY <2>2, <2>6 DEF Ahead
  <2>8. /\ InPlace /\ cp' = cp /\ d = copy /\ d.seq = Len(trace') /\ d.seq >= 1
        /\ UpTo(trace', d.seq, d.steps, 4)
    BY <1>2, <2>4, <2>5, <2>6, <2>7, EmitPlace
  <2>9. PendingHere(d) /\ UpTo(trace', d.seq, d.steps, Room(d.pending))
    <3>1. d.pending.step = d.steps /\ d.pending.approved = "undecided"
      BY <2>3, <2>4, <2>8
    <3>2. UpTo(trace', d.seq, d.steps, 6)
      BY <1>1, <1>2, <2>4, <2>8, Wider
    <3>q. QED BY <2>8, <3>1, <3>2 DEF PendingHere, Room
  <2>q. QED
    BY <1>1, <2>1, <2>8, <2>9
    DEF OrderShape, OrderAt, NonePending, InStep, AtBoundaries, Finishing
<1>13. CASE Execute(p)
  <2>1. /\ pc[p] = "exec" /\ pc'[p] = "toolend" /\ trace' = trace /\ cp' = cp
        /\ d = c
    BY <1>1, <1>13 DEF Execute, Goto, stores
  <2>2. /\ c.pending = NoPending /\ UpTo(trace, c.seq, c.steps, 5)
        /\ c.seq >= 1 /\ c.seq <= Len(trace)
    BY <1>4, <2>1 DEF OrderAt, NonePending, InStep
  <2>q. QED
    BY <2>1, <2>2
    DEF OrderShape, OrderAt, NonePending, InStep, AtBoundaries, Finishing
<1>14. CASE EmitToolEnd(p)
  <2>1. pc[p] = "toolend" /\ pc'[p] \in {"output", "settle", "fail"}
    BY <1>1, <1>14 DEF EmitToolEnd, Goto
  <2>2. c.pending = NoPending /\ UpTo(trace, c.seq, c.steps, 5)
    BY <2>1 DEF OrderAt, NonePending, InStep
  <2>3. PICK copy, val :
          /\ Emit(p, "tool", c.steps, val, copy)
          /\ copy.seq = c.seq + 1
          /\ copy.steps = c.steps /\ copy.pending = c.pending
    BY <1>14, WithStatus DEF EmitToolEnd
  <2>4. "tool" \in EventTypes /\ "tool" \notin Ending
    BY DEF EventTypes, Ending
  <2>5. Rank("tool") = 6
    BY DEF Rank
  <2>6. Ahead(p, "tool", c.steps)
    BY <2>2, <2>5 DEF Ahead
  <2>7. /\ InPlace /\ cp' = cp /\ d = copy /\ d.seq = Len(trace') /\ d.seq >= 1
        /\ UpTo(trace', d.seq, d.steps, 6) /\ d.pending = NoPending
    BY <1>2, <2>2, <2>3, <2>4, <2>5, <2>6, EmitPlace
  <2>8. d.seq <= Len(trace')
    BY <1>1, <2>7
  <2>9. OrderAt(trace', pc'[p], loc'[p])
    BY <2>1, <2>7, <2>8, Onward
  <2>q. QED BY <2>7, <2>9 DEF OrderShape
<1>15. CASE ProcessOutput(p)
  <2>1. /\ pc[p] = "output" /\ trace' = trace /\ cp' = cp
        /\ d.seq = c.seq /\ d.steps = c.steps /\ d.pending = c.pending
        /\ pc'[p] \in {"settle", "fail"}
    BY <1>1, <1>15
    DEF ProcessOutput, EndStep, Raise, Goto, stores, Checkpoints
  <2>2. /\ UpTo(trace, c.seq, c.steps, 6) /\ c.pending = NoPending
        /\ c.seq >= 1 /\ c.seq <= Len(trace)
    BY <1>4, <2>1 DEF OrderAt, NonePending, InStep
  <2>3. /\ UpTo(trace', d.seq, d.steps, 6) /\ d.pending = NoPending
        /\ d.seq >= 1 /\ d.seq <= Len(trace')
    BY <2>1, <2>2
  <2>4. OrderAt(trace', pc'[p], loc'[p])
    BY <2>1, <2>3, Onward
  <2>q. QED BY <2>1, <2>4 DEF OrderShape
<1>16. CASE Verify(p)
  <2>1. /\ pc[p] = "verify" /\ trace' = trace /\ cp' = cp
        /\ d.seq = c.seq /\ d.steps = c.steps /\ d.pending = c.pending
        /\ pc'[p] \in {"verified", "toolend", "settle", "fail"}
    <3>1. /\ pc[p] = "verify" /\ trace' = trace /\ cp' = cp
          /\ pc'[p] \in {"verified", "toolend", "settle", "fail"}
      BY <1>1, <1>16 DEF Verify, EndStep, Raise, Goto, stores
    <3>2. loc' = loc \/ \E status : loc' = [loc EXCEPT ![p].status = status]
      BY <1>16 DEF Verify, EndStep, Raise
    <3>3. d.seq = c.seq /\ d.steps = c.steps /\ d.pending = c.pending
      BY <1>1, <3>2 DEF Checkpoints
    <3>q. QED BY <3>1, <3>3
  <2>2. /\ UpTo(trace, c.seq, c.steps, 2) /\ c.pending = NoPending
        /\ c.seq >= 1 /\ c.seq <= Len(trace)
    BY <1>4, <2>1 DEF OrderAt, NonePending, InStep
  <2>3. /\ UpTo(trace', d.seq, d.steps, 2) /\ d.pending = NoPending
        /\ d.seq >= 1 /\ d.seq <= Len(trace')
    BY <2>1, <2>2
  <2>4. CASE pc'[p] \in {"verified", "toolend"}
    <3>1. UpTo(trace', d.seq, d.steps, 5)
      BY <1>1, <1>2, <2>1, <2>3, Wider
    <3>2. OrderAt(trace', pc'[p], loc'[p])
      BY <2>3, <2>4, <3>1, Underway
    <3>q. QED BY <2>1, <3>2 DEF OrderShape
  <2>5. CASE pc'[p] \in {"settle", "fail"}
    <3>1. UpTo(trace', d.seq, d.steps, 6)
      BY <1>1, <1>2, <2>1, <2>3, Wider
    <3>2. OrderAt(trace', pc'[p], loc'[p])
      BY <2>3, <2>5, <3>1, Onward
    <3>q. QED BY <2>1, <3>2 DEF OrderShape
  <2>q. QED BY <2>1, <2>4, <2>5
<1>17. CASE EmitVerificationFinished(p)
  <2>1. pc[p] = "verified" /\ pc'[p] = "settle"
    BY <1>1, <1>17 DEF EmitVerificationFinished, Goto
  <2>2. c.pending = NoPending /\ UpTo(trace, c.seq, c.steps, 2)
    BY <2>1 DEF OrderAt, NonePending, InStep
  <2>3. PICK copy, val :
          /\ Emit(p, "verified", c.steps, val, copy)
          /\ copy.seq = c.seq + 1
          /\ copy.steps = c.steps /\ copy.pending = c.pending
    BY <1>17, WithStatus DEF EmitVerificationFinished
  <2>4. "verified" \in EventTypes /\ "verified" \notin Ending
    BY DEF EventTypes, Ending
  <2>5. Rank("verified") = 6
    BY DEF Rank
  <2>6. Ahead(p, "verified", c.steps)
    BY <2>2, <2>5 DEF Ahead
  <2>7. /\ InPlace /\ cp' = cp /\ d = copy /\ d.seq = Len(trace') /\ d.seq >= 1
        /\ UpTo(trace', d.seq, d.steps, 6) /\ d.pending = NoPending
    BY <1>2, <2>2, <2>3, <2>4, <2>5, <2>6, EmitPlace
  <2>8. d.seq <= Len(trace')
    BY <1>1, <2>7
  <2>9. OrderAt(trace', pc'[p], loc'[p])
    BY <2>1, <2>7, <2>8, Onward
  <2>q. QED BY <2>7, <2>9 DEF OrderShape
<1>18. CASE SettleStep(p) \/ ReturnWaiting(p)
  <2>1. pc[p] = "settle" /\ trace' = trace
    BY <1>18 DEF SettleStep, ReturnWaiting, SaveAndGo, Store
  <2>2. /\ cp'.seq = c.seq /\ cp'.steps = c.steps /\ cp'.pending = c.pending
        /\ cp'.status = c.status
    BY <1>1, <1>18 DEF SettleStep, ReturnWaiting, SaveAndGo, Store, Checkpoints
  <2>3. \/ pc'[p] = "idle" /\ d = NoCheckpoint
        \/ /\ d = cp'
           /\ pc'[p] = IF c.status = "running" THEN "claim" ELSE "finish"
           /\ c.status # "waiting"
    BY <1>1, <1>18 DEF SettleStep, ReturnWaiting, SaveAndGo, Store, Leave, Goto
  <2>4. /\ PendingHere(c) /\ UpTo(trace, c.seq, c.steps, Room(c.pending))
        /\ c.seq >= 1 /\ c.seq <= Len(trace)
    BY <1>4, <2>1 DEF OrderAt, AtBoundaries, InStep
  <2>5. /\ PendingHere(cp') /\ UpTo(trace', cp'.seq, cp'.steps, Room(cp'.pending))
        /\ cp'.seq >= 1 /\ cp'.seq <= Len(trace')
    BY <2>1, <2>2, <2>4 DEF PendingHere
  <2>6. Boundary(trace', cp')
    BY <1>1, <2>5 DEF Boundary, Checkpoints
  <2>7. CASE pc'[p] = "idle" /\ d = NoCheckpoint
    BY <1>1, <2>1, <2>6, <2>7, AtRest DEF OrderShape
  <2>8. CASE d = cp' /\ pc'[p] \in {"claim", "finish"}
    <3>1. pc'[p] = "finish" => cp'.status \in Terminal
      <4>1. c.status \in Statuses
        BY <1>1 DEF Checkpoints
      <4>q. QED BY <2>2, <2>3, <2>8, <4>1 DEF Statuses
    <3>2. OrderAt(trace', pc'[p], loc'[p])
      BY <2>5, <2>8, <3>1, BetweenSteps
    <3>q. QED BY <2>1, <2>6, <3>2 DEF OrderShape
  <2>q. QED BY <2>3, <2>7, <2>8
<1>19. CASE EmitTerminalError(p)
  <2>1. pc[p] = "fail" /\ pc'[p] = "fail_save"
    BY <1>1, <1>19 DEF EmitTerminalError, Goto
  <2>2. c.pending = NoPending /\ UpTo(trace, c.seq, c.steps, 6)
    BY <2>1 DEF OrderAt, NonePending, InStep
  <2>3. PICK type, copy, val :
          /\ type \in Ending
          /\ Emit(p, type, c.steps, val, copy)
          /\ copy.seq = c.seq + 1
          /\ copy.steps = c.steps /\ copy.pending = c.pending
    BY <1>3, <1>19 DEF EmitTerminalError, Ending
  <2>4. type \in EventTypes /\ Rank(type) = 7
    BY <2>3 DEF EventTypes, Rank, Ending
  <2>5. Ahead(p, type, c.steps)
    BY <2>2, <2>4 DEF Ahead
  <2>6. /\ InPlace /\ cp' = cp /\ d = copy /\ d.seq = Len(trace') /\ d.seq >= 1
        /\ d.pending = NoPending
    BY <1>2, <2>2, <2>3, <2>4, <2>5, EmitPlace
  <2>q. QED
    BY <1>1, <2>1, <2>6
    DEF OrderShape, OrderAt, NonePending, InStep, AtBoundaries, Finishing
<1>20. CASE SaveInterrupted(p)
  <2>1. trace' = trace /\ ~cp'.ready /\ pc'[p] = "idle" /\ d = NoCheckpoint
    BY <1>1, <1>20 DEF SaveInterrupted, Store, Leave, Goto, Checkpoints
  <2>q. QED BY <1>1, <2>1, AtRest DEF OrderShape
<1>21. CASE SkipBestEffort(p)
  <2>1. /\ trace' = trace /\ cp' = cp
        /\ d.seq = c.seq /\ d.steps = c.steps /\ d.pending = c.pending
        /\ \/ pc[p] = "toolend" /\ pc'[p] = "fail"
           \/ pc[p] = "fail" /\ pc'[p] = "fail_save"
    BY <1>1, <1>21
    DEF SkipBestEffort, BestEffort, Raise, Goto, stores, Checkpoints
  <2>2. c.pending = NoPending /\ c.seq >= 1 /\ c.seq <= Len(trace)
    BY <1>4, <2>1 DEF OrderAt, NonePending, InStep
  <2>3. CASE pc[p] = "toolend" /\ pc'[p] = "fail"
    <3>1. UpTo(trace, c.seq, c.steps, 5)
      BY <2>3 DEF OrderAt
    <3>2. UpTo(trace', d.seq, d.steps, 6)
      BY <1>1, <1>2, <2>1, <2>2, <3>1, Wider
    <3>3. d.pending = NoPending /\ d.seq >= 1 /\ d.seq <= Len(trace')
      BY <2>1, <2>2
    <3>4. OrderAt(trace', pc'[p], loc'[p])
      BY <2>3, <3>2, <3>3, Onward
    <3>q. QED BY <2>1, <3>4 DEF OrderShape
  <2>4. CASE pc'[p] = "fail_save"
    BY <2>1, <2>2, <2>4
    DEF OrderShape, OrderAt, NonePending, InStep, AtBoundaries, Finishing
  <2>q. QED BY <2>1, <2>3, <2>4
<1>q. QED
  BY <1>5, <1>6, <1>7, <1>8, <1>9, <1>10, <1>11, <1>12, <1>13, <1>14, <1>15,
     <1>16, <1>17, <1>18, <1>19, <1>20, <1>21 DEF StepAction

\* Each of these actions keeps the order.
LEMMA ApproverOrder ==
  ASSUME TypeOK, TypeOK', TypeSupport, NEW p \in Procs,
         OrderAt(trace, pc[p], loc[p]), ApproverAction(p)
  PROVE  OrderShape(p)
<1> DEFINE c == loc[p]
           d == loc'[p]
<1>1. /\ pc \in [Procs -> Labels] /\ loc \in [Procs -> Checkpoints]
      /\ loc[p] \in Checkpoints /\ loc'[p] \in Checkpoints
      /\ cp \in Checkpoints /\ cp' \in Checkpoints
      /\ trace \in Seq(Events) /\ trace' \in Seq(Events)
      /\ Len(trace) \in Nat /\ Len(trace') \in Nat
  BY Typed
<1>2. c.seq \in Nat /\ c.steps \in Nat /\ c.steps \in 0..MaxSteps
  BY <1>1, LifecycleAssumption DEF Checkpoints, LifecycleAssumption
<1>3. /\ Recorded(p).seq = c.seq + 1 /\ Recorded(p).steps = c.steps
      /\ Recorded(p).pending = c.pending /\ Recorded(p) \in Checkpoints
  BY RecordedFields DEF TypeOK
<1>4. pc[p] \notin {"idle", "start"} => c.seq >= 1 /\ c.seq <= Len(trace)
  BY DEF OrderAt
<1>5. CASE ValidateDecision(p)
  <2>1. /\ pc[p] = "decide_validate" /\ pc'[p] = "decide_claim"
        /\ trace' = trace /\ cp' = cp /\ d = c
        /\ c.status = "waiting"
        /\ c.pending = [step |-> want[p], approved |-> "undecided"]
    BY <1>1, <1>5
    DEF ValidateDecision, Undecided, ApprovalRecorded, stores, Goto
  <2>2. c.pending # NoPending /\ c.pending.approved = "undecided"
    <3>1. want[p] \in Nat /\ want[p] # 0
      BY <2>1, LifecycleAssumption DEF TypeSupport, Steps, LifecycleAssumption
    <3>q. QED BY <2>1, <3>1 DEF NoPending
  <2>3. PendingHere(c) /\ UpTo(trace, c.seq, c.steps, Room(c.pending))
    BY <2>1 DEF OrderAt, Boundary, Terminal
  <2>q. QED
    BY <1>4, <2>1, <2>2, <2>3
    DEF OrderShape, OrderAt, NonePending, InStep, AtBoundaries, Finishing
<1>6. CASE RefuseDecision(p)
  BY <1>6, LeaveOrder DEF RefuseDecision, stores
<1>7. CASE ClaimDecision(p)
  <2>1. /\ pc[p] = "decide_claim" /\ pc'[p] = "resolve"
        /\ trace' = trace /\ ~cp'.ready
        /\ d.seq = c.seq /\ d.steps = c.steps /\ d.pending = c.pending
    BY <1>1, <1>7 DEF ClaimDecision, SaveAndGo, Store, Goto, Checkpoints
  <2>2. /\ PendingHere(c) /\ UpTo(trace, c.seq, c.steps, Room(c.pending))
        /\ c.pending # NoPending /\ c.pending.approved = "undecided"
    BY <2>1 DEF OrderAt, AtBoundaries
  <2>q. QED
    BY <1>4, <2>1, <2>2
    DEF OrderShape, OrderAt, NonePending, InStep, AtBoundaries, Finishing,
        PendingHere
<1>8. CASE EmitApprovalResolved(p)
  <2>1. pc[p] = "resolve" /\ pc'[p] = "decide_save" /\ act[p] \in Decisions
    BY <1>1, <1>8 DEF EmitApprovalResolved, Goto, TypeSupport
  <2>2. /\ c.pending.step = c.steps /\ Room(c.pending) = 4
        /\ UpTo(trace, c.seq, c.steps, Room(c.pending))
    BY <2>1 DEF OrderAt, AtBoundaries, PendingHere, Room
  <2>3. PICK copy, val :
          /\ Emit(p, "resolved", c.steps, val, copy)
          /\ copy.seq = c.seq + 1 /\ copy.steps = c.steps
          /\ copy.pending = [c.pending EXCEPT !.approved = act[p]]
    <3> DEFINE decided == [c.pending EXCEPT !.approved = act[p]]
               settled == [Recorded(p) EXCEPT !.ready = TRUE, !.pending = decided]
    <3>1. /\ settled.seq = c.seq + 1 /\ settled.steps = c.steps
          /\ settled.pending = decided
      BY <1>3 DEF Checkpoints
    <3>2. Emit(p, "resolved", c.steps, act[p], settled)
      BY <1>3, <1>8, <2>2 DEF EmitApprovalResolved, Checkpoints
    <3> HIDE DEF settled
    <3>q. QED BY <3>1, <3>2
  <2>4. "resolved" \in EventTypes /\ "resolved" \notin Ending
    BY DEF EventTypes, Ending
  <2>5. Rank("resolved") = 5
    BY DEF Rank
  <2>6. Ahead(p, "resolved", c.steps)
    BY <2>2, <2>5 DEF Ahead
  <2>7. /\ InPlace /\ cp' = cp /\ d = copy /\ d.seq = Len(trace') /\ d.seq >= 1
        /\ UpTo(trace', d.seq, d.steps, 5)
    BY <1>2, <2>3, <2>4, <2>5, <2>6, EmitPlace
  <2>8. d.pending.step = d.steps /\ d.pending.approved = act[p]
    <3>1. c.pending \in Pendings
      BY <1>1 DEF Checkpoints
    <3>q. QED BY <2>2, <2>3, <2>7, <3>1 DEF Pendings
  <2>9. PendingHere(d) /\ Room(d.pending) = 5
    <3>1. d.pending # NoPending
      BY <2>1, <2>8 DEF NoPending, Decisions
    <3>q. QED BY <2>1, <2>8, <3>1 DEF PendingHere, Room, Decisions
  <2>q. QED
    BY <1>1, <2>1, <2>7, <2>9
    DEF OrderShape, OrderAt, NonePending, InStep, AtBoundaries, Finishing
<1>9. CASE SaveDecision(p)
  <2>1. /\ pc[p] = "decide_save" /\ trace' = trace
        /\ pc'[p] = "idle" /\ d = NoCheckpoint
        /\ cp'.seq = c.seq /\ cp'.steps = c.steps /\ cp'.pending = c.pending
    BY <1>1, <1>9 DEF SaveDecision, Store, Leave, Goto, Checkpoints
  <2>2. PendingHere(c) /\ UpTo(trace, c.seq, c.steps, Room(c.pending))
    BY <2>1 DEF OrderAt, AtBoundaries
  <2>3. Boundary(trace', cp')
    BY <1>1, <1>2, <1>4, <2>1, <2>2 DEF Boundary, PendingHere
  <2>q. QED BY <1>1, <2>1, <2>3, AtRest DEF OrderShape
<1>q. QED BY <1>5, <1>6, <1>7, <1>8, <1>9 DEF ApproverAction

\* A process that loads a ready checkpoint knows what that says.
LEMMA LoadOrder ==
  ASSUME TypeOK, TypeOK', NEW p \in Procs, Loads(p), trace' = trace,
         cp.ready => Boundary(trace, cp)
  PROVE  OrderShape(p)
<1>1. /\ cp' = cp /\ loc'[p] = cp /\ pc'[p] \in {"validate", "decide_validate"}
      /\ Boundary(trace, cp)
  BY DEF Loads
<1>2. cp.seq >= 1 /\ cp.seq <= Len(trace)
  BY <1>1, Typed DEF Boundary
<1>q. QED
  BY <1>1, <1>2
  DEF OrderShape, OrderAt, NonePending, InStep, AtBoundaries, Finishing

\* What one process does in order leaves all in order.
LEMMA OrderKept ==
  ASSUME TypeOK, TypeOK', OrderInv, NEW p \in Procs, Others(p), OrderShape(p)
  PROVE  OrderInv'
<1>1. /\ trace \in Seq(Events) /\ Len(trace) \in Nat /\ Len(trace') \in Nat
      /\ cp \in Checkpoints /\ DOMAIN trace = 1..Len(trace)
  BY Typed
<1>2. /\ Len(trace) <= Len(trace')
      /\ \A i \in 1..Len(trace) : trace'[i] = trace[i]
  BY <1>1, Grown DEF OrderShape, InPlace
<1>3. TraceInOrder' /\ EndIsLast'
  <2>1. CASE trace' = trace
    BY <2>1 DEF OrderInv, TraceInOrder, EndIsLast
  <2>2. CASE InPlace
    <3>1. PICK e : /\ trace' = Append(trace, e)
                   /\ \A i \in DOMAIN trace : /\ trace[i].type \notin Ending
                                              /\ Place(trace[i]) < Place(e)
      BY <2>2 DEF InPlace
    <3>2. /\ DOMAIN trace' = 1..Len(trace) + 1 /\ Len(trace') = Len(trace) + 1
          /\ trace'[Len(trace) + 1] = e
      BY <1>1, <3>1, Grown
    <3>3. TraceInOrder'
      <4> SUFFICES ASSUME NEW i \in DOMAIN trace', NEW j \in DOMAIN trace', i < j
                   PROVE  Place(trace'[i]) < Place(trace'[j])
        BY DEF TraceInOrder
      <4>1. i \in 1..Len(trace)
        BY <1>1, <3>2
      <4>2. CASE j = Len(trace) + 1
        BY <1>1, <1>2, <3>1, <3>2, <4>1, <4>2
      <4>3. CASE j \in 1..Len(trace)
        BY <1>1, <1>2, <4>1, <4>3 DEF OrderInv, TraceInOrder
      <4>q. QED BY <1>1, <3>2, <4>2, <4>3
    <3>4. EndIsLast'
      <4> SUFFICES ASSUME NEW i \in DOMAIN trace', trace'[i].type \in Ending
                   PROVE  i = Len(trace')
        BY DEF EndIsLast
      <4>1. i \notin 1..Len(trace)
        BY <1>1, <1>2, <3>1
      <4>q. QED BY <1>1, <3>2, <4>1
    <3>q. QED BY <3>3, <3>4
  <2>q. QED BY <2>1, <2>2 DEF OrderShape
<1>4. cp'.ready => Boundary(trace', cp')
  <2>1. CASE cp' = cp
    BY <1>1, <1>2, <2>1, Grows DEF OrderInv
  <2>q. QED BY <2>1 DEF OrderShape
<1>5. ASSUME NEW q \in Procs
      PROVE  OrderAt(trace', pc'[q], loc'[q])
  <2>1. CASE q = p
    BY <2>1 DEF OrderShape
  <2>2. CASE q # p
    <3>1. pc'[q] = pc[q] /\ loc'[q] = loc[q] /\ loc[q] \in Checkpoints
      BY <2>2, Typed DEF Others
    <3>2. OrderAt(trace, pc[q], loc[q])
      BY DEF OrderInv
    <3>q. QED BY <1>1, <1>2, <3>1, <3>2, Grows
  <2>q. QED BY <2>1, <2>2
<1>q. QED BY <1>3, <1>4, <1>5 DEF OrderInv

\* Every step keeps the order.
LEMMA OrderStep ==
  ASSUME IInv, IInv', OrderInv, [Next]_vars
  PROVE  OrderInv'
<1>1. TypeOK /\ TypeOK' /\ TypeSupport /\ ProcessesOK
  BY DEF IInv, TypeOK
<1>2. CASE UNCHANGED vars
  BY <1>2 DEF vars, stores, OrderInv, TraceInOrder, EndIsLast
<1>3. ASSUME NEW p \in Procs, Run(p)
      PROVE  OrderInv'
  <2>1. /\ Begins(p) /\ Others(p) /\ trace' = trace /\ cp' = cp
        /\ pc'[p] = "start" /\ loc'[p] = [NoCheckpoint EXCEPT !.ready = TRUE]
    BY <1>1, <1>3
    DEF Run, Begins, Others, Goto, stores, history, ProcessesOK
  <2>2. /\ loc'[p].seq = 0 /\ loc'[p].steps = 0 /\ loc'[p].pending = NoPending
        /\ Len(trace') \in Nat
    BY <1>1, <2>1, Typed DEF NoCheckpoint
  <2>3. OrderShape(p)
    BY <2>1, <2>2
    DEF OrderShape, OrderAt, NonePending, InStep, AtBoundaries, Finishing
  <2>q. QED BY <1>1, <2>1, <2>3, OrderKept
<1>4. ASSUME NEW p \in Procs,
             \/ Resume(p)
             \/ \E n \in Steps, d \in Decisions : Decide(p, n, d)
      PROVE  OrderInv'
  <2>1. Loads(p) /\ Others(p) /\ trace' = trace
    BY <1>1, <1>4 DEF Resume, Decide, Loads, Others, Goto, stores, history,
                      ProcessesOK
  <2>2. OrderShape(p)
    BY <1>1, <2>1, LoadOrder DEF OrderInv
  <2>q. QED BY <1>1, <2>1, <2>2, OrderKept
<1>5. ASSUME NEW p \in Procs,
             StoreRefuses(p) \/ Stop(p) \/ StopDuringAppend(p)
      PROVE  OrderInv'
  <2>1. Leave(p) /\ trace' = trace /\ cp' = cp
    BY <1>5 DEF StoreRefuses, Stop, StopDuringAppend, stores
  <2>2. Others(p)
    BY <1>1, <2>1 DEF Leave, Goto, Others, ProcessesOK
  <2>q. QED BY <1>1, <2>1, <2>2, LeaveOrder, OrderKept
<1>6. ASSUME NEW p \in Procs,
             DriveAction(p) \/ StepAction(p) \/ ApproverAction(p)
      PROVE  OrderInv'
  <2>1. OrderAt(trace, pc[p], loc[p])
    BY DEF OrderInv
  <2>2. Others(p)
    BY <1>1, <1>6, DriveOthers, StepOthers, ApproverOthers
  <2>3. OrderShape(p)
    BY <1>1, <1>6, <2>1, DriveOrder, StepOrder, ApproverOrder
  <2>q. QED BY <1>1, <2>2, <2>3, OrderKept
<1>q. QED
  BY <1>2, <1>3, <1>4, <1>5, <1>6 DEF Next, Procs

\* Nothing is recorded yet.
LEMMA InitOrder == Init => OrderInv
<1> SUFFICES ASSUME Init PROVE OrderInv
  OBVIOUS
<1>1. /\ trace = <<>> /\ DOMAIN trace = {} /\ Len(trace) = 0 /\ ~cp.ready
      /\ \A p \in Procs : pc[p] = "idle" /\ loc[p] = NoCheckpoint
  BY DEF Init, NoCheckpoint
<1>q. QED BY <1>1, AtRest DEF OrderInv, TraceInOrder, EndIsLast

\* Whoever resumes, decides, dies or comes late: each event of each step is
\* recorded at most once and in the protocol's order, and nothing follows the
\* end of the run.
THEOREM Ordered == Spec => [](TraceInOrder /\ EndIsLast)
<1>1. Init => IInv /\ OrderInv
  BY InitIInv, InitOrder
<1>2. (IInv /\ OrderInv) /\ [Next]_vars => (IInv /\ OrderInv)'
  BY NextIInv, OrderStep
<1>3. OrderInv => TraceInOrder /\ EndIsLast
  BY DEF OrderInv
<1>q. QED BY <1>1, <1>2, <1>3, PTL DEF Spec

\* A ready checkpoint names the event the trace ends in, but for the
\* RunFinished of its own terminal status, and nothing follows the recorded
\* end of a run.
THEOREM FrontierSettled == Spec => []SettledFrontier
<1>1. TraceInv => FrontierNamed
  BY DEF TraceInv, FrontInv
<1>2. FrontierNamed /\ EndIsLast => SettledFrontier
  BY DEF SettledFrontier
<1>q. QED BY <1>1, <1>2, TraceInvariant, Ordered, PTL

-----------------------------------------------------------------------------
(* The outcome of the run                                                  *)

\* Only a process within a step asks the model or executes an action.
LEMMA StillOutside ==
  ASSUME [Next]_vars, \A p \in Procs : pc[p] \notin InStep
  PROVE  UNCHANGED <<calls, effects>>
<1>1. CASE UNCHANGED vars
  BY <1>1 DEF vars, history
<1>2. ASSUME NEW p \in Procs,
             \/ Run(p) \/ Resume(p)
             \/ \E n \in Steps, d \in Decisions : Decide(p, n, d)
      PROVE  UNCHANGED <<calls, effects>>
  BY <1>2 DEF Run, Resume, Decide, history
<1>3. ASSUME NEW p \in Procs, DriveAction(p)
      PROVE  UNCHANGED <<calls, effects>>
  BY <1>3
  DEF DriveAction, EmitRunStarted, SaveStart, RefuseResume, ReturnUnchanged,
      ContinueRun, CompleteBookkeeping, ClaimBookkeeping, EmitMissingFinished,
      ClaimStep, EmitRunFinished, SaveFinished, Emit, SaveAndGo, history
<1>4. ASSUME NEW p \in Procs, StepAction(p)
      PROVE  FALSE
  <2>1. pc[p] \in {"step", "request", "call", "respond", "toolcall", "ask",
                   "exec", "toolend", "output", "verify", "verified", "settle",
                   "fail", "fail_save"}
    BY <1>4
    DEF StepAction, TakeUpDecision, CheckBudgets, EmitModelRequested, CallModel,
        EmitModelResponded, EmitToolCalled, EmitToolCalledForApproval,
        EmitApprovalRequested, Execute, EmitToolEnd, ProcessOutput, Verify,
        EmitVerificationFinished, SettleStep, ReturnWaiting, EmitTerminalError,
        SaveInterrupted, SkipBestEffort, BestEffort
  <2>q. QED BY <2>1 DEF InStep
<1>5. ASSUME NEW p \in Procs, ApproverAction(p)
      PROVE  UNCHANGED <<calls, effects>>
  BY <1>5
  DEF ApproverAction, ValidateDecision, RefuseDecision, ClaimDecision,
      EmitApprovalResolved, SaveDecision, SaveAndGo, Emit, history
<1>6. ASSUME NEW p \in Procs, StoreRefuses(p) \/ Stop(p) \/ StopDuringAppend(p)
      PROVE  UNCHANGED <<calls, effects>>
  BY <1>6 DEF StoreRefuses, Stop, StopDuringAppend, history
<1>q. QED
  BY <1>1, <1>2, <1>3, <1>4, <1>5, <1>6 DEF Next, Procs

\* What a step may never do once a terminal status is stored: replace it, or
\* count, ask or execute anything more.
OutcomeStays ==
  cp.rev # 0 /\ cp.status \in Terminal =>
    /\ cp'.status = cp.status
    /\ cp'.steps = cp.steps
    /\ UNCHANGED <<calls, effects>>

\* A stored terminal status is final: no resume, late process or decision
\* replaces it, and the model and the tools are not called again.
THEOREM OutcomeFinal == Spec => [][OutcomeStays]_vars
<1>1. IInv /\ TraceInv /\ [Next]_vars => [OutcomeStays]_vars
  <2> SUFFICES ASSUME IInv, TraceInv, [Next]_vars,
                      cp.rev # 0, cp.status \in Terminal
               PROVE  \/ UNCHANGED vars
                      \/ /\ cp'.status = cp.status
                         /\ cp'.steps = cp.steps
                         /\ UNCHANGED <<calls, effects>>
    BY DEF OutcomeStays
  <2>1. TypeOK /\ TypeSupport /\ FrontInv /\ OwnershipInv
    BY DEF IInv, TraceInv
  <2>2. \A p \in Procs : pc[p] \notin InStep
    <3> SUFFICES ASSUME NEW p \in Procs, pc[p] \in InStep
                 PROVE  FALSE
      OBVIOUS
    <3>1. Holder(p)
      BY <2>1 DEF OwnershipInv, OwnInv, Exclusive
    <3>2. cp.status = "running"
      BY <2>1, <3>1 DEF FrontInv, FrontLoc
    <3>q. QED BY <3>2 DEF Terminal
  <2>3. UNCHANGED <<calls, effects>>
    BY <2>2, StillOutside
  <2>4. ASSUME NEW p \in Procs, Begins(p) \/ Loads(p)
        PROVE  cp' = cp
    BY <2>4 DEF Begins, Loads
  <2>5. ASSUME NEW p \in Procs, Works(p) \/ Saving(p), FrontShape(p)
        PROVE  cp'.status = cp.status /\ cp'.steps = cp.steps
    BY <2>5 DEF FrontShape, Saved
  <2>q. QED BY <2>1, <2>3, <2>4, <2>5, FrontKinds
<1>q. QED BY <1>1, TraceInvariant, PTL DEF Spec

=============================================================================
