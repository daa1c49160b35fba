-------------------------- MODULE AgentStepProofs --------------------------
(***************************************************************************)
(* For every value of the limits, every suite and every set of charges:    *)
(* the types, the limits, the validity of every checkpoint, the agreement  *)
(* of checkpoint and trace that resume relies on, and what completion      *)
(* means.  IInv is the inductive invariant; each of its parts has a lemma  *)
(* with one step per action.                                               *)
(***************************************************************************)
EXTENDS AgentStep, TLAPS

-----------------------------------------------------------------------------
(* The inductive invariant                                                 *)

\* The part of a step before the outcome is known: the run is running.
InStep == Acting \cup {"step", "prepared", "explore"}

\* An attempt's command counts, and how many commands it has run.
SuiteInv ==
  /\ control = "command" => suite.run < checks
  /\ suite.passes <= suite.run
  /\ ~suite.failed => suite.passes = suite.run

TypeInv == TypeOK /\ SuiteInv

\* Where a request or a call is under way that was checked before it began,
\* the meters it will move are still below their limits.
LimitInv ==
  /\ SpentWithin(used)
  /\ SpentWithin(saved.used)
  /\ MainRequestReserved
  /\ control \in {"model", "called"} => ~Reached(ToolsSpent(used), limits.tools)
  /\ control \in {"summary", "model", "explorer_model"} =>
       ~Reached(used["cost"], limits.cost) /\ ~Reached(used["tokens"], limits.tokens)

\* What the status is, place by place, and that a run in a step is claimed.
StatusInv ==
  /\ control \in InStep \cup {"new"} => status = "running"
  /\ control = "output" =>
       status \in {"running", "max_cost", "max_tokens", "max_steps", "timeout"}
  /\ control \in {"raised", "save_error"} => status \in {"failed", "cancelled"}
  /\ control \in {"finish", "refinish"} => status \notin {"running", "waiting"}
  /\ control \in InStep \cup {"new", "output", "settle", "raised", "save_error", "refinish"} =>
       ~saved.ready
  /\ control \notin {"settle", "loop", "finish", "returned"} => ~interrupted
  /\ interrupted => status = "max_steps"
  /\ control \in {"loop", "finish"} /\ boundary => AtBoundary
  /\ control = "refinish" => AtBoundary

\* The last call has no result exactly while one is due.
Matched == (status = "waiting" <=> pending # NoCall) /\ (open <=> pending # NoCall)

HistoryInv ==
  /\ control \in {"called", "tool", "explore", "explorer_model", "explorer_call",
                  "output"} => open /\ pending = NoCall
  /\ control \in {"new", "prepared", "summary", "model", "final", "suite", "command"} =>
       ~open /\ pending = NoCall
  /\ control = "step" => (open <=> pending # NoCall)
  /\ control = "loop" /\ status = "running" => (open <=> pending # NoCall)
  /\ control = "settle" /\ AtBoundary => Matched
  /\ control = "loop" /\ boundary /\ status # "running" => Matched
  /\ control = "finish" /\ boundary => Matched
  /\ control = "refinish" => Matched

\* The counters that validate_boundary compares, of one accounting.
CountsAgree(u, p, s) ==
  /\ IF checks = 0
     THEN u["attempts"] = 0 /\ u["commands"] = 0 /\ p = "none"
     ELSE /\ p # "none" => u["attempts"] > 0
          /\ u["attempts"] <= MaxAttempts
          /\ u["commands"] <= u["attempts"] * checks
          /\ s = "completed" => p = "yes"
  /\ u["xtools"] <= u["xsteps"]
  /\ u["steps"] + u["xsteps"] <= u["calls"]
  /\ u["tools"] <= u["steps"]

CountInv ==
  /\ CountsAgree(used, passed, status)
  /\ control \in {"model", "called"} => used["tools"] < used["steps"]
  /\ control \in {"explorer_model", "explorer_call"} => used["xtools"] < used["xsteps"]
  /\ control \in {"suite", "command"} => checks > 0 /\ used["attempts"] > 0
  /\ control = "suite" =>
       used["commands"] + checks <= used["attempts"] * checks + suite.run
  /\ control = "command" =>
       used["commands"] + checks <= used["attempts"] * checks + suite.run + 1

\* The verdict in the trace is the one in the state, unless an attempt is
\* under way or was cut short.
Judged == passed = verdict.passed /\ verdict.attempt = used["attempts"]

AccountInv ==
  /\ recorded = used
  /\ /\ control \notin {"suite", "command", "returned"}
     /\ status \in Settled
     /\ ~interrupted
     => Judged
  /\ control \notin {"finish", "save_error", "returned"} => ended = "none"
  /\ control = "finish" => ended = status
  /\ ended \notin {"running", "waiting"}
  /\ saved.ready /\ ~ahead => Consistent
  /\ AttemptsJudged

\* What completion rests on, for the state and for the checkpoint.
DoneInv ==
  /\ CompletedVerified
  /\ saved.status = "completed" =>
       /\ control \in {"loop", "finish", "refinish", "returned"}
       /\ control = "loop" => status = "completed"
       /\ checks > 0 =>
            /\ suite.passes = checks
            /\ saved.passed = "yes"
            /\ verdict = [attempt |-> saved.used["attempts"], passed |-> "yes"]

IInv ==
  /\ TypeInv /\ LimitInv /\ StatusInv /\ HistoryInv /\ CountInv
  /\ SnapshotsValid /\ AccountInv /\ DoneInv


-----------------------------------------------------------------------------
(* Types                                                                   *)

\* evaluate returns one of the four statuses of a limit, or none.
LEMMA ExceededStatus ==
  Exceeded \in {"none", "timeout", "max_cost", "max_tokens", "max_steps"}
  BY DEF Exceeded

\* after_model refuses with one of three of them, or not at all.
LEMMA UsageStatus ==
  \A now : UsageExceeded(now) \in {"none", "timeout", "max_cost", "max_tokens"}
  BY DEF UsageExceeded

\* What save_checkpoint writes is a snapshot of the state.
LEMMA SaveTyped ==
  ASSUME TypeOK, NEW ready \in BOOLEAN, Save(ready)
  PROVE  saved' \in Snapshots
<1>1. late \in BOOLEAN /\ status \in Statuses /\ used \in Accounts /\ passed \in Results
      /\ open \in BOOLEAN /\ pending \in Pendings
  BY DEF TypeOK
<1>2. saved' = [ready |-> ready, late |-> late, status |-> status, used |-> used,
                passed |-> passed, open |-> open, pending |-> pending]
  BY DEF Save
<1> QED BY <1>1, <1>2 DEF Snapshots

\* add_usage leaves natural numbers in every counter.
LEMMA ChargeTyped ==
  ASSUME TypeOK, NEW usage \in Charges, Charge(usage)
  PROVE  used' \in Accounts
<1>1. usage.cost \in Nat /\ usage.tokens \in Nat
  BY StepAssumption
<1>2. used \in [Counters -> Nat]
  BY DEF TypeOK, Accounts
<1>3. used' = [used EXCEPT !["cost"] = @ + usage.cost, !["tokens"] = @ + usage.tokens]
  BY DEF Charge
<1> QED BY <1>1, <1>2, <1>3 DEF Accounts, Counters

\* The fields of the stored checkpoint.
LEMMA SavedTyped ==
  ASSUME TypeOK
  PROVE  /\ saved.ready \in BOOLEAN /\ saved.late \in BOOLEAN /\ saved.status \in Statuses
         /\ saved.used \in Accounts /\ saved.passed \in Results
         /\ saved.open \in BOOLEAN /\ saved.pending \in Pendings
BY DEF TypeOK, Snapshots

\* A command that returns is counted once, and passes only if it passed.
LEMMA SuiteTyped ==
  ASSUME TypeInv, CommandReturns
  PROVE  /\ suite' \in [run: 0..checks, passes: 0..checks, failed: BOOLEAN]
         /\ suite'.passes <= suite'.run
         /\ ~suite'.failed => suite'.passes = suite'.run
<1>1. PICK ok \in BOOLEAN :
        suite' = [run |-> suite.run + 1, passes |-> suite.passes + IF ok THEN 1 ELSE 0,
                  failed |-> AnyFailed(ok)]
  BY DEF CommandReturns
<1>2. /\ suite.run \in Nat /\ suite.passes \in Nat /\ suite.failed \in BOOLEAN
      /\ suite.run < checks /\ suite.passes <= suite.run
      /\ ~suite.failed => suite.passes = suite.run
      /\ checks \in Nat
  BY StepAssumption DEF CommandReturns, TypeInv, TypeOK, SuiteInv
<1>3. suite.run + 1 \in 0..checks
  BY <1>2, StepAssumption
<1>4. CASE ok
  <2>1. suite' = [run |-> suite.run + 1, passes |-> suite.passes + 1, failed |-> AnyFailed(ok)]
    BY <1>1, <1>4
  <2>2. suite.passes + 1 \in 0..checks
    BY <1>2, StepAssumption
  <2>3. AnyFailed(ok) \in BOOLEAN /\ (~AnyFailed(ok) => ~suite.failed)
    BY <1>2 DEF AnyFailed
  <2> QED BY <1>2, <1>3, <2>1, <2>2, <2>3
<1>5. CASE ~ok
  <2>1. suite' = [run |-> suite.run + 1, passes |-> suite.passes, failed |-> AnyFailed(ok)]
    BY <1>1, <1>2, <1>5
  <2>2. suite.passes \in 0..checks
    BY <1>2, StepAssumption
  <2>3. AnyFailed(ok) \in BOOLEAN /\ AnyFailed(ok)
    BY <1>2, <1>5 DEF AnyFailed
  <2> QED BY <1>2, <1>3, <2>1, <2>2, <2>3
<1> QED BY <1>4, <1>5

\* Every step keeps the types, and counts a suite's commands up to its length.
LEMMA TypeStep ==
  ASSUME TypeInv, Step, UNCHANGED setup
  PROVE  TypeInv'
<1> USE DEF TypeInv, TypeOK, SuiteInv, setup
<1>1. CASE Start
  <2>1. saved' \in Snapshots
    BY <1>1, SaveTyped DEF Start
  <2>2. /\ UNCHANGED <<status, used, passed, open, pending, call, child, suite>>
        /\ UNCHANGED <<late, recorded, verdict, ended>>
        /\ boundary' \in BOOLEAN /\ interrupted' \in BOOLEAN /\ ahead' \in BOOLEAN
        /\ control' \in Labels /\ control' # "command"
    BY <1>1 DEF Start, Save, Goto, agent, local, local, Labels
  <2> QED BY <2>1, <2>2
<1>2. CASE ClaimStep
  <2>1. saved' \in Snapshots
    BY <1>2, SaveTyped DEF ClaimStep
  <2>2. /\ UNCHANGED <<status, used, passed, open, pending, call, child, suite>>
        /\ UNCHANGED <<late, recorded, verdict, ended>>
        /\ boundary' \in BOOLEAN /\ interrupted' \in BOOLEAN /\ ahead' \in BOOLEAN
        /\ control' \in Labels /\ control' # "command"
    BY <1>2 DEF ClaimStep, Save, Goto, agent, local, Labels
  <2> QED BY <2>1, <2>2
<1>3. CASE TakeUpDecision
  BY <1>3, StepAssumption DEF TakeUpDecision, Perform, EndWith, Fail, Goto, trace, Labels,
       Accounts, Results, Pendings, Calls, Settled, Statuses, NoCall, Counters, Snapshots
<1>4. CASE StopAtLimit
  BY <1>4, ExceededStatus DEF StopAtLimit, EndWith, Goto, local, trace, Labels, Settled,
       Statuses
<1>5. CASE PrepareContext
  BY <1>5, StepAssumption DEF PrepareContext, Goto, agent, local, trace, Labels, Accounts,
       Results, Pendings, Calls, Settled, Statuses, NoCall, Counters, Snapshots
<1>6. CASE RequestSummary
  BY <1>6, StepAssumption DEF RequestSummary, Spend, Goto, local, Labels, Accounts, Results,
       Pendings, Calls, Settled, Statuses, NoCall, Counters, Snapshots
<1>7. CASE SummaryResponds
  BY <1>7, StepAssumption DEF SummaryResponds, Charge, Fail, Goto, local, Labels, Accounts,
       Results, Pendings, Calls, Settled, Statuses, NoCall, Counters, Snapshots
<1>8. CASE RequestModel
  BY <1>8, StepAssumption DEF RequestModel, Spend, Goto, local, Labels, Accounts, Results,
       Pendings, Calls, Settled, Statuses, NoCall, Counters, Snapshots
<1>9. CASE ModelResponds
  <2>1. used' \in Accounts /\ recorded' \in Accounts
    BY <1>9, ChargeTyped DEF ModelResponds, Charge
  <2>2. /\ UNCHANGED <<passed, pending, child, suite, interrupted, boundary, late, saved, verdict,
                        ended>>
        /\ ahead' \in BOOLEAN /\ open' \in BOOLEAN /\ call' \in Calls
        /\ status' \in Statuses /\ control' \in Labels /\ control' # "command"
    BY <1>9 DEF ModelResponds, Charge, Fail, Goto, Statuses, Labels
  <2> QED BY <2>1, <2>2
<1>10. CASE DenyCall
  BY <1>10, StepAssumption DEF DenyCall, Spend, Goto, local, Labels, Accounts, Results,
       Pendings, Calls, Settled, Statuses, NoCall, Counters, Snapshots
<1>11. CASE AskApproval
  BY <1>11, StepAssumption DEF AskApproval, Spend, EndWith, Goto, local, Labels, Accounts,
       Results, Pendings, Calls, Settled, Statuses, NoCall, Counters, Snapshots
<1>12. CASE RunCall
  BY <1>12, StepAssumption DEF RunCall, Spend, Perform, Fail, Goto, Labels, Accounts,
       Results, Pendings, Calls, Settled, Statuses, NoCall, Counters, Snapshots
<1>13. CASE ToolReturns
  BY <1>13, StepAssumption DEF ToolReturns, Goto, agent, local, trace, Labels, Accounts,
       Results, Pendings, Calls, Settled, Statuses, NoCall, Counters, Snapshots
<1>14. CASE ProcessOutput
  BY <1>14 DEF ProcessOutput, Goto, local, trace, Labels
<1>15. CASE RefuseExplorer
  BY <1>15, ExceededStatus DEF RefuseExplorer, Refuse, Goto, local, trace, Labels, Settled,
       Statuses
<1>16. CASE RequestExplorer
  BY <1>16, StepAssumption DEF RequestExplorer, Spend, ChildMayGoOn, Goto, Labels, Accounts,
       Results, Pendings, Calls, Settled, Statuses, NoCall, Counters, Snapshots
<1>17. CASE ExplorerResponds
  <2>1. used' \in Accounts /\ recorded' \in Accounts
    BY <1>17, ChargeTyped DEF ExplorerResponds, Charge
  <2> QED BY <1>17, <2>1, UsageStatus DEF ExplorerResponds, Charge, Refuse, Goto, local,
       Labels, Calls, Settled, Statuses
<1>18. CASE RunExplorerCall
  BY <1>18, StepAssumption DEF RunExplorerCall, Spend, Goto, local, Labels, Accounts,
       Results, Pendings, Calls, Settled, Statuses, NoCall, Counters, Snapshots
<1>19. CASE EndExplorer
  BY <1>19, StepAssumption DEF EndExplorer, Goto, agent, local, trace, Labels, Accounts,
       Results, Pendings, Calls, Settled, Statuses, NoCall, Counters, Snapshots
<1>20. CASE Complete
  BY <1>20, StepAssumption DEF Complete, EndWith, Goto, local, trace, Labels, Accounts,
       Results, Pendings, Calls, Settled, Statuses, NoCall, Counters, Snapshots
<1>21. CASE BeginAttempt
  <2>1. /\ used' \in Accounts /\ recorded' \in Accounts
        /\ UNCHANGED <<verdict, ended>> /\ ahead' \in BOOLEAN
    <3>1. used \in Accounts /\ recorded \in Accounts /\ ahead \in BOOLEAN
      OBVIOUS
    <3>2. CASE AttemptsLeft
      <4>1. Spend({"attempts"})
        BY <1>21, <3>2 DEF BeginAttempt
      <4> QED BY <3>1, <4>1 DEF Spend, Accounts, Counters
    <3>3. CASE ~AttemptsLeft
      BY <1>21, <3>1, <3>3 DEF BeginAttempt, trace
    <3> QED BY <3>2, <3>3
  <2>2. suite' = suite \/ suite' = [run |-> 0, passes |-> 0, failed |-> FALSE]
    BY <1>21 DEF BeginAttempt
  <2>3. suite' \in [run: 0..checks, passes: 0..checks, failed: BOOLEAN]
    <3>1. suite \in [run: 0..checks, passes: 0..checks, failed: BOOLEAN]
      OBVIOUS
    <3>2. [run |-> 0, passes |-> 0, failed |-> FALSE]
              \in [run: 0..checks, passes: 0..checks, failed: BOOLEAN]
      BY StepAssumption
    <3> QED BY <2>2, <3>1, <3>2
  <2>4. suite'.passes <= suite'.run /\ (~suite'.failed => suite'.passes = suite'.run)
    BY <2>2
  <2>5. /\ UNCHANGED <<open, pending, call, child, interrupted, boundary, late, saved>>
        /\ passed' \in Results /\ status' \in Statuses
        /\ control' \in Labels /\ control' # "command"
    BY <1>21 DEF BeginAttempt, EndWith, Goto, Results, Settled, Statuses, Labels
  <2> QED BY <2>1, <2>3, <2>4, <2>5
<1>22. CASE InterruptSuite
  BY <1>22, StepAssumption DEF InterruptSuite, EndWith, Goto, trace, Labels, Accounts,
       Results, Pendings, Calls, Settled, Statuses, NoCall, Counters, Snapshots
<1>23. CASE BeginCommand
  BY <1>23, StepAssumption DEF BeginCommand, Spend, Goto, local, Labels, Accounts, Results,
       Pendings, Calls, Settled, Statuses, NoCall, Counters, Snapshots
<1>24. CASE CommandReturns
  <2>1. /\ UNCHANGED <<agent, call, child, interrupted, boundary, late, trace, saved>>
        /\ control' \in Labels /\ control' # "command"
    BY <1>24 DEF CommandReturns, Goto, Labels
  <2> QED BY <1>24, <2>1, SuiteTyped DEF agent, trace
<1>25. CASE JudgeSuite
  BY <1>25, StepAssumption DEF JudgeSuite, Verdict, EndWith, Goto, local, Labels, Accounts,
       Results, Pendings, Calls, Settled, Statuses, NoCall, Counters, Snapshots
<1>26. CASE SettleStep
  <2>1. saved' \in Snapshots
    BY <1>26, SaveTyped DEF SettleStep, AtBoundary
  <2>2. /\ UNCHANGED <<status, used, passed, open, pending, call, child, suite>>
        /\ UNCHANGED <<late, recorded, verdict, ended>>
        /\ boundary' \in BOOLEAN /\ interrupted' \in BOOLEAN /\ ahead' \in BOOLEAN
        /\ control' \in Labels /\ control' # "command"
    BY <1>26 DEF SettleStep, AtBoundary, Save, Goto, agent, local, Labels
  <2> QED BY <2>1, <2>2
<1>27. CASE ReturnWaiting
  BY <1>27, StepAssumption DEF ReturnWaiting, Goto, agent, local, trace, Labels, Accounts,
       Results, Pendings, Calls, Settled, Statuses, NoCall, Counters, Snapshots
<1>28. CASE FinishRun
  BY <1>28, StepAssumption DEF FinishRun, RecordEnd, Goto, agent, local, Labels, Accounts,
       Results, Pendings, Calls, Settled, Statuses, NoCall, Counters, Snapshots
<1>29. CASE SaveFinished
  <2>1. saved' \in Snapshots
    BY <1>29, SaveTyped DEF SaveFinished
  <2>2. /\ UNCHANGED <<status, used, passed, open, pending, call, child, suite>>
        /\ UNCHANGED <<late, recorded, verdict, ended>>
        /\ boundary' \in BOOLEAN /\ interrupted' \in BOOLEAN /\ ahead' \in BOOLEAN
        /\ control' \in Labels /\ control' # "command"
    BY <1>29 DEF SaveFinished, Save, Goto, agent, local, local, Labels
  <2> QED BY <2>1, <2>2
<1>30. CASE RecordMissingEnd
  BY <1>30, StepAssumption DEF RecordMissingEnd, RecordEnd, Goto, agent, Labels, Accounts,
       Results, Pendings, Calls, Settled, Statuses, NoCall, Counters, Snapshots
<1>31. CASE TimeOut
  BY <1>31, StepAssumption DEF TimeOut, Exploring, EndWith, Goto, local, trace, Labels,
       Accounts, Results, Pendings, Calls, Settled, Statuses, NoCall, Counters, Snapshots
<1>32. CASE Raise
  BY <1>32, StepAssumption DEF Raise, Exploring, Fail, Goto, local, trace, Labels, Accounts,
       Results, Pendings, Calls, Settled, Statuses, NoCall, Counters, Snapshots
<1>33. CASE RecordError
  BY <1>33, StepAssumption DEF RecordError, Goto, agent, local, Labels, Accounts, Results,
       Pendings, Calls, Settled, Statuses, NoCall, Counters, Snapshots
<1>34. CASE SaveInterrupted
  <2>1. saved' \in Snapshots
    BY <1>34, SaveTyped DEF SaveInterrupted
  <2>2. /\ UNCHANGED <<status, used, passed, open, pending, call, child, suite>>
        /\ UNCHANGED <<late, recorded, verdict, ended>>
        /\ boundary' \in BOOLEAN /\ interrupted' \in BOOLEAN /\ ahead' \in BOOLEAN
        /\ control' \in Labels /\ control' # "command"
    BY <1>34 DEF SaveInterrupted, Save, Goto, agent, local, Labels
  <2> QED BY <2>1, <2>2
<1>35. CASE PassDeadline
  BY <1>35, StepAssumption DEF PassDeadline, agent, local, trace, Labels, Accounts, Results,
       Pendings, Calls, Settled, Statuses, NoCall, Counters, Snapshots
<1>36. CASE Stop
  BY <1>36, StepAssumption DEF Stop, Goto, agent, local, trace, Labels, Accounts, Results,
       Pendings, Calls, Settled, Statuses, NoCall, Counters, Snapshots
<1>37. CASE Decide
  BY <1>37, StepAssumption DEF Decide, agent, local, trace, Labels, Accounts, Results,
       Pendings, Calls, Settled, Statuses, NoCall, Counters, Snapshots
<1>38. CASE ResumeRun
  <2>1. used' \in Accounts /\ passed' \in Results /\ open' \in BOOLEAN
        /\ pending' \in Pendings /\ late' \in BOOLEAN
    BY <1>38, SavedTyped DEF ResumeRun, Load, Loaded
  <2>2. /\ UNCHANGED <<call, child, suite, trace, saved>>
        /\ control' = "loop" /\ status' = "running" /\ boundary' = TRUE /\ interrupted' = FALSE
    BY <1>38 DEF ResumeRun, Load, Goto
  <2>3. control' \in Labels /\ control' # "command" /\ status' \in Statuses
    BY <2>2 DEF Labels, Settled, Statuses
  <2> QED BY <2>1, <2>2, <2>3 DEF trace
<1>39. CASE CompleteBookkeeping
  <2>1. used' \in Accounts /\ passed' \in Results /\ open' \in BOOLEAN
        /\ pending' \in Pendings /\ late' \in BOOLEAN
    BY <1>39, SavedTyped DEF CompleteBookkeeping, Load, Loaded
  <2> QED BY <1>39, <2>1, SavedTyped DEF CompleteBookkeeping, Load, Goto, trace, Labels,
       Settled, Statuses, Snapshots
<1> QED BY <1>1, <1>2, <1>3, <1>4, <1>5, <1>6, <1>7, <1>8, <1>9, <1>10, <1>11, <1>12, <1>13,
     <1>14, <1>15, <1>16, <1>17, <1>18, <1>19, <1>20, <1>21, <1>22, <1>23, <1>24, <1>25,
          <1>26, <1>27, <1>28, <1>29, <1>30, <1>31, <1>32, <1>33, <1>34, <1>35, <1>36, <1>37,
               <1>38, <1>39 DEF Step, Work, Head, Tool, Explorer, Verification, Tail


-----------------------------------------------------------------------------
(* One lemma per part of the invariant                                     *)

\* Whoever spends checked the limits before: no step passes one.
LEMMA LimitStep ==
  ASSUME TypeInv, LimitInv, Step, UNCHANGED setup
  PROVE  LimitInv'
<1> USE DEF TypeInv, TypeOK, LimitInv, SpentWithin, Within, CostWithin, TokensWithin,
     StepsSpent, ToolsSpent, Reached, Accounts, Counters, MainRequestReserved, setup
<1>0. /\ limits.steps \in (Nat \ {0}) \cup {NoLimit}
      /\ limits.calls \in (Nat \ {0}) \cup {NoLimit}
      /\ limits.tools \in (Nat \ {0}) \cup {NoLimit}
      /\ limits.cost \in (Nat \ {0}) \cup {NoLimit}
      /\ limits.tokens \in (Nat \ {0}) \cup {NoLimit}
      /\ NoLimit \notin Nat
      /\ Charges \subseteq [cost: Nat, tokens: Nat]
      /\ limits' = limits
  BY StepAssumption DEF BudgetLimits, Limits
<1> USE <1>0
<1>1. CASE Start
  BY <1>1 DEF Start, Save, Goto, agent, local
<1>2. CASE ClaimStep
  BY <1>2 DEF ClaimStep, Save, Goto, agent
<1>3. CASE TakeUpDecision
  BY <1>3 DEF TakeUpDecision, Perform, EndWith, Fail, Goto, trace
<1>4. CASE StopAtLimit
  BY <1>4 DEF StopAtLimit, EndWith, Goto, local, trace, Exceeded
<1>5. CASE PrepareContext
  BY <1>5 DEF PrepareContext, Goto, agent, local, trace, Exceeded
<1>6. CASE RequestSummary
  BY <1>6 DEF RequestSummary, Spend, Goto, local, CanSummarize, Exceeded
<1>7. CASE SummaryResponds
  BY <1>7 DEF SummaryResponds, Charge, Fail, Goto, local
<1>8. CASE RequestModel
  BY <1>8 DEF RequestModel, Spend, Goto, local, Exceeded
<1>9. CASE ModelResponds
  BY <1>9 DEF ModelResponds, Charge, Fail, Goto
<1>10. CASE DenyCall
  BY <1>10 DEF DenyCall, Spend, Goto, local
<1>11. CASE AskApproval
  BY <1>11 DEF AskApproval, Spend, EndWith, Goto, local
<1>12. CASE RunCall
  BY <1>12 DEF RunCall, Spend, Perform, Fail, Goto
<1>13. CASE ToolReturns
  BY <1>13 DEF ToolReturns, Goto, agent, local, trace
<1>14. CASE ProcessOutput
  BY <1>14 DEF ProcessOutput, Goto, local, trace
<1>15. CASE RefuseExplorer
  BY <1>15 DEF RefuseExplorer, Refuse, Goto, local, trace, Exceeded
<1>16. CASE RequestExplorer
  BY <1>16 DEF RequestExplorer, Spend, ChildMayGoOn, Goto, Exceeded
<1>17. CASE ExplorerResponds
  BY <1>17 DEF ExplorerResponds, Charge, Refuse, Goto, local
<1>18. CASE RunExplorerCall
  BY <1>18 DEF RunExplorerCall, Spend, Goto, local, Exceeded
<1>19. CASE EndExplorer
  BY <1>19 DEF EndExplorer, Goto, agent, local, trace
<1>20. CASE Complete
  BY <1>20 DEF Complete, EndWith, Goto, local, trace
<1>21. CASE BeginAttempt
  BY <1>21 DEF BeginAttempt, Spend, EndWith, Goto, trace
<1>22. CASE InterruptSuite
  BY <1>22 DEF InterruptSuite, EndWith, Goto, trace
<1>23. CASE BeginCommand
  BY <1>23 DEF BeginCommand, Spend, Goto, local
<1>24. CASE CommandReturns
  BY <1>24 DEF CommandReturns, AnyFailed, Goto, agent, trace
<1>25. CASE JudgeSuite
  BY <1>25 DEF JudgeSuite, Verdict, EndWith, Goto, local
<1>26. CASE SettleStep
  BY <1>26 DEF SettleStep, Save, Goto, agent
<1>27. CASE ReturnWaiting
  BY <1>27 DEF ReturnWaiting, Goto, agent, local, trace
<1>28. CASE FinishRun
  BY <1>28 DEF FinishRun, RecordEnd, Goto, agent, local
<1>29. CASE SaveFinished
  BY <1>29 DEF SaveFinished, Save, Goto, agent, local
<1>30. CASE RecordMissingEnd
  BY <1>30 DEF RecordMissingEnd, RecordEnd, Goto, agent
<1>31. CASE TimeOut
  BY <1>31 DEF TimeOut, Exploring, EndWith, Goto, local, trace
<1>32. CASE Raise
  BY <1>32 DEF Raise, Exploring, Fail, Goto, local, trace
<1>33. CASE RecordError
  BY <1>33 DEF RecordError, Goto, agent, local
<1>34. CASE SaveInterrupted
  BY <1>34 DEF SaveInterrupted, Save, Goto, agent
<1>35. CASE PassDeadline
  BY <1>35 DEF PassDeadline, agent, local, trace
<1>36. CASE Stop
  BY <1>36 DEF Stop, Goto, agent, local, trace
<1>37. CASE Decide
  BY <1>37 DEF Decide, agent, local, trace
<1>38. CASE ResumeRun
  BY <1>38 DEF ResumeRun, Load, Loaded, Goto, trace
<1>39. CASE CompleteBookkeeping
  BY <1>39 DEF CompleteBookkeeping, Load, Loaded, Goto, trace
<1> QED BY <1>1, <1>2, <1>3, <1>4, <1>5, <1>6, <1>7, <1>8, <1>9, <1>10, <1>11, <1>12, <1>13,
     <1>14, <1>15, <1>16, <1>17, <1>18, <1>19, <1>20, <1>21, <1>22, <1>23, <1>24, <1>25,
          <1>26, <1>27, <1>28, <1>29, <1>30, <1>31, <1>32, <1>33, <1>34, <1>35, <1>36, <1>37,
               <1>38, <1>39 DEF Step, Work, Head, Tool, Explorer, Verification, Tail

\* The status is what the place in the code requires, and a run in a step has
\* an unready checkpoint.
LEMMA StatusStep ==
  ASSUME StatusInv, Step, UNCHANGED setup
  PROVE  StatusInv'
<1> USE ExceededStatus, UsageStatus DEF StatusInv, InStep, Acting, AtBoundary, Settled, setup
<1>1. CASE Start
  BY <1>1 DEF Start, Save, Goto, agent, local
<1>2. CASE ClaimStep
  BY <1>2 DEF ClaimStep, Save, Goto, agent
<1>3. CASE TakeUpDecision
  BY <1>3 DEF TakeUpDecision, Perform, EndWith, Fail, Goto, trace
<1>4. CASE StopAtLimit
  BY <1>4 DEF StopAtLimit, EndWith, Goto, local, trace
<1>5. CASE PrepareContext
  BY <1>5 DEF PrepareContext, Goto, agent, local, trace
<1>6. CASE RequestSummary
  BY <1>6 DEF RequestSummary, Spend, Goto, local
<1>7. CASE SummaryResponds
  BY <1>7 DEF SummaryResponds, Charge, Fail, Goto, local
<1>8. CASE RequestModel
  BY <1>8 DEF RequestModel, Spend, Goto, local
<1>9. CASE ModelResponds
  BY <1>9 DEF ModelResponds, Charge, Fail, Goto
<1>10. CASE DenyCall
  BY <1>10 DEF DenyCall, Spend, Goto, local
<1>11. CASE AskApproval
  BY <1>11 DEF AskApproval, Spend, EndWith, Goto, local
<1>12. CASE RunCall
  BY <1>12 DEF RunCall, Spend, Perform, Fail, Goto
<1>13. CASE ToolReturns
  BY <1>13 DEF ToolReturns, Goto, agent, local, trace
<1>14. CASE ProcessOutput
  BY <1>14 DEF ProcessOutput, Goto, local, trace
<1>15. CASE RefuseExplorer
  BY <1>15 DEF RefuseExplorer, Refuse, Goto, local, trace
<1>16. CASE RequestExplorer
  BY <1>16 DEF RequestExplorer, Spend, ChildMayGoOn, Goto
<1>17. CASE ExplorerResponds
  BY <1>17 DEF ExplorerResponds, Charge, Refuse, Goto, local
<1>18. CASE RunExplorerCall
  BY <1>18 DEF RunExplorerCall, Spend, Goto, local
<1>19. CASE EndExplorer
  BY <1>19 DEF EndExplorer, Goto, agent, local, trace
<1>20. CASE Complete
  BY <1>20 DEF Complete, EndWith, Goto, local, trace
<1>21. CASE BeginAttempt
  BY <1>21 DEF BeginAttempt, Spend, EndWith, Goto, trace
<1>22. CASE InterruptSuite
  BY <1>22 DEF InterruptSuite, EndWith, Goto, trace
<1>23. CASE BeginCommand
  BY <1>23 DEF BeginCommand, Spend, Goto, local
<1>24. CASE CommandReturns
  BY <1>24 DEF CommandReturns, AnyFailed, Goto, agent, trace
<1>25. CASE JudgeSuite
  BY <1>25 DEF JudgeSuite, Verdict, EndWith, Goto, local
<1>26. CASE SettleStep
  BY <1>26 DEF SettleStep, Save, Goto, agent
<1>27. CASE ReturnWaiting
  BY <1>27 DEF ReturnWaiting, Goto, agent, local, trace
<1>28. CASE FinishRun
  BY <1>28 DEF FinishRun, RecordEnd, Goto, agent, local
<1>29. CASE SaveFinished
  BY <1>29 DEF SaveFinished, Save, Goto, agent, local
<1>30. CASE RecordMissingEnd
  BY <1>30 DEF RecordMissingEnd, RecordEnd, Goto, agent
<1>31. CASE TimeOut
  BY <1>31 DEF TimeOut, Exploring, EndWith, Goto, local, trace
<1>32. CASE Raise
  BY <1>32 DEF Raise, Exploring, Fail, Goto, local, trace
<1>33. CASE RecordError
  BY <1>33 DEF RecordError, Goto, agent, local
<1>34. CASE SaveInterrupted
  BY <1>34 DEF SaveInterrupted, Save, Goto, agent
<1>35. CASE PassDeadline
  BY <1>35 DEF PassDeadline, agent, local, trace
<1>36. CASE Stop
  BY <1>36 DEF Stop, Goto, agent, local, trace
<1>37. CASE Decide
  BY <1>37 DEF Decide, agent, local, trace
<1>38. CASE ResumeRun
  BY <1>38 DEF ResumeRun, Load, Loaded, Goto, trace, Resumable
<1>39. CASE CompleteBookkeeping
  BY <1>39 DEF CompleteBookkeeping, Load, Loaded, Goto, trace, Resumable
<1> QED BY <1>1, <1>2, <1>3, <1>4, <1>5, <1>6, <1>7, <1>8, <1>9, <1>10, <1>11, <1>12, <1>13,
     <1>14, <1>15, <1>16, <1>17, <1>18, <1>19, <1>20, <1>21, <1>22, <1>23, <1>24, <1>25,
          <1>26, <1>27, <1>28, <1>29, <1>30, <1>31, <1>32, <1>33, <1>34, <1>35, <1>36, <1>37,
               <1>38, <1>39 DEF Step, Work, Head, Tool, Explorer, Verification, Tail

\* A call stays without its result only while it runs, waits, or was cut off.
LEMMA HistoryStep ==
  ASSUME TypeInv, StatusInv, SnapshotsValid, HistoryInv, Step, UNCHANGED setup
  PROVE  HistoryInv'
<1> USE ExceededStatus DEF StatusInv, InStep, Acting, HistoryInv, Matched, SnapshotsValid,
     ValidBoundary, NoCall, AtBoundary, Settled, setup
<1>1. CASE Start
  BY <1>1 DEF Start, Save, Goto, agent, local
<1>2. CASE ClaimStep
  BY <1>2 DEF ClaimStep, Save, Goto, agent
<1>3. CASE TakeUpDecision
  BY <1>3 DEF TakeUpDecision, Perform, EndWith, Fail, Goto, trace
<1>4. CASE StopAtLimit
  BY <1>4 DEF StopAtLimit, EndWith, Goto, local, trace
<1>5. CASE PrepareContext
  BY <1>5 DEF PrepareContext, Goto, agent, local, trace
<1>6. CASE RequestSummary
  BY <1>6 DEF RequestSummary, Spend, Goto, local
<1>7. CASE SummaryResponds
  BY <1>7 DEF SummaryResponds, Charge, Fail, Goto, local
<1>8. CASE RequestModel
  BY <1>8 DEF RequestModel, Spend, Goto, local
<1>9. CASE ModelResponds
  BY <1>9 DEF ModelResponds, Charge, Fail, Goto
<1>10. CASE DenyCall
  BY <1>10 DEF DenyCall, Spend, Goto, local
<1>11. CASE AskApproval
  <2>1. pending' # NoCall
    BY <1>11 DEF AskApproval, TypeInv, TypeOK, Calls
  <2> QED BY <1>11, <2>1 DEF AskApproval, Spend, EndWith, Goto, local
<1>12. CASE RunCall
  BY <1>12 DEF RunCall, Spend, Perform, Fail, Goto
<1>13. CASE ToolReturns
  BY <1>13 DEF ToolReturns, Goto, agent, local, trace
<1>14. CASE ProcessOutput
  BY <1>14 DEF ProcessOutput, Goto, local, trace
<1>15. CASE RefuseExplorer
  BY <1>15 DEF RefuseExplorer, Refuse, Goto, local, trace
<1>16. CASE RequestExplorer
  BY <1>16 DEF RequestExplorer, Spend, ChildMayGoOn, Goto
<1>17. CASE ExplorerResponds
  BY <1>17 DEF ExplorerResponds, Charge, Refuse, Goto, local
<1>18. CASE RunExplorerCall
  BY <1>18 DEF RunExplorerCall, Spend, Goto, local
<1>19. CASE EndExplorer
  BY <1>19 DEF EndExplorer, Goto, agent, local, trace
<1>20. CASE Complete
  BY <1>20 DEF Complete, EndWith, Goto, local, trace
<1>21. CASE BeginAttempt
  BY <1>21 DEF BeginAttempt, Spend, EndWith, Goto, trace
<1>22. CASE InterruptSuite
  BY <1>22 DEF InterruptSuite, EndWith, Goto, trace
<1>23. CASE BeginCommand
  BY <1>23 DEF BeginCommand, Spend, Goto, local
<1>24. CASE CommandReturns
  BY <1>24 DEF CommandReturns, AnyFailed, Goto, agent, trace
<1>25. CASE JudgeSuite
  BY <1>25 DEF JudgeSuite, Verdict, EndWith, Goto, local
<1>26. CASE SettleStep
  BY <1>26 DEF SettleStep, Save, Goto, agent, AtBoundary, Settled
<1>27. CASE ReturnWaiting
  BY <1>27 DEF ReturnWaiting, Goto, agent, local, trace
<1>28. CASE FinishRun
  BY <1>28 DEF FinishRun, RecordEnd, Goto, agent, local
<1>29. CASE SaveFinished
  BY <1>29 DEF SaveFinished, Save, Goto, agent, local
<1>30. CASE RecordMissingEnd
  BY <1>30 DEF RecordMissingEnd, RecordEnd, Goto, agent
<1>31. CASE TimeOut
  BY <1>31 DEF TimeOut, Exploring, EndWith, Goto, local, trace
<1>32. CASE Raise
  BY <1>32 DEF Raise, Exploring, Fail, Goto, local, trace
<1>33. CASE RecordError
  BY <1>33 DEF RecordError, Goto, agent, local
<1>34. CASE SaveInterrupted
  BY <1>34 DEF SaveInterrupted, Save, Goto, agent
<1>35. CASE PassDeadline
  BY <1>35 DEF PassDeadline, agent, local, trace
<1>36. CASE Stop
  BY <1>36 DEF Stop, Goto, agent, local, trace
<1>37. CASE Decide
  BY <1>37 DEF Decide, agent, local, trace
<1>38. CASE ResumeRun
  <2>1. Resumable /\ Load /\ control' = "loop" /\ status' = "running"
    BY <1>38 DEF ResumeRun, Goto
  <2>2. saved.open <=> saved.pending # NoCall
    BY <2>1 DEF Resumable
  <2>3. open' = saved.open /\ pending' = saved.pending
    BY <2>1 DEF Load
  <2>4. saved.open \in BOOLEAN
    BY SavedTyped DEF TypeInv
  <2>5. open' <=> pending' # NoCall
    BY <2>2, <2>3, <2>4
  <2> QED BY <2>1, <2>5
<1>39. CASE CompleteBookkeeping
  <2>1. Resumable /\ Load /\ control' = "refinish" /\ status' = saved.status
    BY <1>39 DEF CompleteBookkeeping, Goto
  <2>2. /\ saved.open <=> saved.pending # NoCall
        /\ saved.status = "waiting" <=> saved.pending # NoCall
    BY <2>1 DEF Resumable
  <2>3. open' = saved.open /\ pending' = saved.pending
    BY <2>1 DEF Load
  <2>4. saved.open \in BOOLEAN
    BY SavedTyped DEF TypeInv
  <2>5. Matched'
    BY <2>1, <2>2, <2>3, <2>4
  <2> QED BY <2>1, <2>5
<1> QED BY <1>1, <1>2, <1>3, <1>4, <1>5, <1>6, <1>7, <1>8, <1>9, <1>10, <1>11, <1>12, <1>13,
     <1>14, <1>15, <1>16, <1>17, <1>18, <1>19, <1>20, <1>21, <1>22, <1>23, <1>24, <1>25,
          <1>26, <1>27, <1>28, <1>29, <1>30, <1>31, <1>32, <1>33, <1>34, <1>35, <1>36, <1>37,
               <1>38, <1>39 DEF Step, Work, Head, Tool, Explorer, Verification, Tail

\* The counters keep the relations that validate_boundary compares.
LEMMA CountStep ==
  ASSUME TypeInv, StatusInv, SnapshotsValid, CountInv, Step, UNCHANGED setup
  PROVE  CountInv'
<1> USE StepAssumption, ExceededStatus, UsageStatus DEF TypeInv, TypeOK, SuiteInv, StatusInv,
     InStep, Acting, SnapshotsValid, ValidBoundary, CountInv, CountsAgree, Accounts,
          Counters, AttemptsLeft, setup
<1>1. CASE Start
  BY <1>1 DEF Start, Save, Goto, agent, local
<1>2. CASE ClaimStep
  BY <1>2 DEF ClaimStep, Save, Goto, agent
<1>3. CASE TakeUpDecision
  BY <1>3 DEF TakeUpDecision, Perform, EndWith, Fail, Goto, trace
<1>4. CASE StopAtLimit
  BY <1>4 DEF StopAtLimit, EndWith, Goto, local, trace
<1>5. CASE PrepareContext
  BY <1>5 DEF PrepareContext, Goto, agent, local, trace
<1>6. CASE RequestSummary
  BY <1>6 DEF RequestSummary, Spend, Goto, local
<1>7. CASE SummaryResponds
  BY <1>7 DEF SummaryResponds, Charge, Fail, Goto, local
<1>8. CASE RequestModel
  BY <1>8 DEF RequestModel, Spend, Goto, local
<1>9. CASE ModelResponds
  BY <1>9 DEF ModelResponds, Charge, Fail, Goto
<1>10. CASE DenyCall
  BY <1>10 DEF DenyCall, Spend, Goto, local
<1>11. CASE AskApproval
  BY <1>11 DEF AskApproval, Spend, EndWith, Goto, local
<1>12. CASE RunCall
  BY <1>12 DEF RunCall, Spend, Perform, Fail, Goto
<1>13. CASE ToolReturns
  BY <1>13 DEF ToolReturns, Goto, agent, local, trace
<1>14. CASE ProcessOutput
  BY <1>14 DEF ProcessOutput, Goto, local, trace
<1>15. CASE RefuseExplorer
  BY <1>15 DEF RefuseExplorer, Refuse, Goto, local, trace
<1>16. CASE RequestExplorer
  BY <1>16 DEF RequestExplorer, Spend, ChildMayGoOn, Goto
<1>17. CASE ExplorerResponds
  BY <1>17 DEF ExplorerResponds, Charge, Refuse, Goto, local
<1>18. CASE RunExplorerCall
  BY <1>18 DEF RunExplorerCall, Spend, Goto, local
<1>19. CASE EndExplorer
  BY <1>19 DEF EndExplorer, Goto, agent, local, trace
<1>20. CASE Complete
  BY <1>20 DEF Complete, EndWith, Goto, local, trace
<1>21. CASE BeginAttempt
  BY <1>21 DEF BeginAttempt, Spend, EndWith, Goto, trace
<1>22. CASE InterruptSuite
  BY <1>22 DEF InterruptSuite, EndWith, Goto, trace
<1>23. CASE BeginCommand
  BY <1>23 DEF BeginCommand, Spend, Goto, local
<1>24. CASE CommandReturns
  BY <1>24 DEF CommandReturns, AnyFailed, Goto, agent, trace
<1>25. CASE JudgeSuite
  <2>1. /\ UNCHANGED <<used, suite, saved>> /\ control' = "settle" /\ checks > 0
        /\ passed' = Verdict /\ control = "suite"
        /\ status' \in {"completed", "running", "verification_failed"}
        /\ status' = "completed" => ~suite.failed
    BY <1>25 DEF JudgeSuite, EndWith, Goto, local
  <2>2. used["attempts"] > 0
    BY <2>1
  <2> QED BY <2>1, <2>2 DEF Verdict
<1>26. CASE SettleStep
  BY <1>26 DEF SettleStep, Save, Goto, agent
<1>27. CASE ReturnWaiting
  BY <1>27 DEF ReturnWaiting, Goto, agent, local, trace
<1>28. CASE FinishRun
  BY <1>28 DEF FinishRun, RecordEnd, Goto, agent, local
<1>29. CASE SaveFinished
  BY <1>29 DEF SaveFinished, Save, Goto, agent, local
<1>30. CASE RecordMissingEnd
  BY <1>30 DEF RecordMissingEnd, RecordEnd, Goto, agent
<1>31. CASE TimeOut
  BY <1>31 DEF TimeOut, Exploring, EndWith, Goto, local, trace
<1>32. CASE Raise
  BY <1>32 DEF Raise, Exploring, Fail, Goto, local, trace
<1>33. CASE RecordError
  BY <1>33 DEF RecordError, Goto, agent, local
<1>34. CASE SaveInterrupted
  BY <1>34 DEF SaveInterrupted, Save, Goto, agent
<1>35. CASE PassDeadline
  BY <1>35 DEF PassDeadline, agent, local, trace
<1>36. CASE Stop
  BY <1>36 DEF Stop, Goto, agent, local, trace
<1>37. CASE Decide
  BY <1>37 DEF Decide, agent, local, trace
<1>38. CASE ResumeRun
  BY <1>38 DEF ResumeRun, Load, Loaded, Goto, trace
<1>39. CASE CompleteBookkeeping
  BY <1>39 DEF CompleteBookkeeping, Load, Loaded, Goto, trace
<1> QED BY <1>1, <1>2, <1>3, <1>4, <1>5, <1>6, <1>7, <1>8, <1>9, <1>10, <1>11, <1>12, <1>13,
     <1>14, <1>15, <1>16, <1>17, <1>18, <1>19, <1>20, <1>21, <1>22, <1>23, <1>24, <1>25,
          <1>26, <1>27, <1>28, <1>29, <1>30, <1>31, <1>32, <1>33, <1>34, <1>35, <1>36, <1>37,
               <1>38, <1>39 DEF Step, Work, Head, Tool, Explorer, Verification, Tail

\* Every checkpoint that is written passes validate_boundary.
LEMMA SnapshotStep ==
  ASSUME TypeInv, StatusInv, HistoryInv, CountInv, SnapshotsValid, Step, UNCHANGED setup
  PROVE  SnapshotsValid'
<1> USE DEF StatusInv, InStep, Acting, HistoryInv, Matched, CountInv, CountsAgree,
     SnapshotsValid, ValidBoundary, setup
<1>1. CASE Start
  BY <1>1 DEF Start, Save, Goto, agent, local
<1>2. CASE ClaimStep
  BY <1>2 DEF ClaimStep, Save, Goto, agent
<1>3. CASE TakeUpDecision
  BY <1>3 DEF TakeUpDecision, Perform, EndWith, Fail, Goto, trace
<1>4. CASE StopAtLimit
  BY <1>4 DEF StopAtLimit, EndWith, Goto, local, trace
<1>5. CASE PrepareContext
  BY <1>5 DEF PrepareContext, Goto, agent, local, trace
<1>6. CASE RequestSummary
  BY <1>6 DEF RequestSummary, Spend, Goto, local
<1>7. CASE SummaryResponds
  BY <1>7 DEF SummaryResponds, Charge, Fail, Goto, local
<1>8. CASE RequestModel
  BY <1>8 DEF RequestModel, Spend, Goto, local
<1>9. CASE ModelResponds
  BY <1>9 DEF ModelResponds, Charge, Fail, Goto
<1>10. CASE DenyCall
  BY <1>10 DEF DenyCall, Spend, Goto, local
<1>11. CASE AskApproval
  BY <1>11 DEF AskApproval, Spend, EndWith, Goto, local
<1>12. CASE RunCall
  BY <1>12 DEF RunCall, Spend, Perform, Fail, Goto
<1>13. CASE ToolReturns
  BY <1>13 DEF ToolReturns, Goto, agent, local, trace
<1>14. CASE ProcessOutput
  BY <1>14 DEF ProcessOutput, Goto, local, trace
<1>15. CASE RefuseExplorer
  BY <1>15 DEF RefuseExplorer, Refuse, Goto, local, trace
<1>16. CASE RequestExplorer
  BY <1>16 DEF RequestExplorer, Spend, ChildMayGoOn, Goto
<1>17. CASE ExplorerResponds
  BY <1>17 DEF ExplorerResponds, Charge, Refuse, Goto, local
<1>18. CASE RunExplorerCall
  BY <1>18 DEF RunExplorerCall, Spend, Goto, local
<1>19. CASE EndExplorer
  BY <1>19 DEF EndExplorer, Goto, agent, local, trace
<1>20. CASE Complete
  BY <1>20 DEF Complete, EndWith, Goto, local, trace
<1>21. CASE BeginAttempt
  BY <1>21 DEF BeginAttempt, Spend, EndWith, Goto, trace
<1>22. CASE InterruptSuite
  BY <1>22 DEF InterruptSuite, EndWith, Goto, trace
<1>23. CASE BeginCommand
  BY <1>23 DEF BeginCommand, Spend, Goto, local
<1>24. CASE CommandReturns
  BY <1>24 DEF CommandReturns, AnyFailed, Goto, agent, trace
<1>25. CASE JudgeSuite
  BY <1>25 DEF JudgeSuite, Verdict, EndWith, Goto, local
<1>26. CASE SettleStep
  BY <1>26 DEF SettleStep, Save, Goto, agent, AtBoundary, Settled
<1>27. CASE ReturnWaiting
  BY <1>27 DEF ReturnWaiting, Goto, agent, local, trace
<1>28. CASE FinishRun
  BY <1>28 DEF FinishRun, RecordEnd, Goto, agent, local
<1>29. CASE SaveFinished
  BY <1>29 DEF SaveFinished, Save, Goto, agent, local
<1>30. CASE RecordMissingEnd
  BY <1>30 DEF RecordMissingEnd, RecordEnd, Goto, agent
<1>31. CASE TimeOut
  BY <1>31 DEF TimeOut, Exploring, EndWith, Goto, local, trace
<1>32. CASE Raise
  BY <1>32 DEF Raise, Exploring, Fail, Goto, local, trace
<1>33. CASE RecordError
  BY <1>33 DEF RecordError, Goto, agent, local
<1>34. CASE SaveInterrupted
  BY <1>34 DEF SaveInterrupted, Save, Goto, agent
<1>35. CASE PassDeadline
  BY <1>35 DEF PassDeadline, agent, local, trace
<1>36. CASE Stop
  BY <1>36 DEF Stop, Goto, agent, local, trace
<1>37. CASE Decide
  <2>1. PICK decision \in {"yes", "no"} :
          saved' = [saved EXCEPT !.pending = [@ EXCEPT !.approved = decision]]
    BY <1>37 DEF Decide
  <2>2. saved \in Snapshots /\ saved.pending \in Pendings /\ saved.pending # NoCall
    BY <1>37, SavedTyped DEF Decide, TypeInv, TypeOK
  <2>3. saved'.pending = [saved.pending EXCEPT !.approved = decision]
    BY <2>1, <2>2 DEF Snapshots
  <2>4. saved'.pending # NoCall
    BY <2>2, <2>3 DEF Pendings, NoCall
  <2>5. /\ saved'.ready = saved.ready /\ saved'.status = saved.status /\ saved'.open = saved.open
        /\ saved'.used = saved.used /\ saved'.passed = saved.passed
    BY <2>1, <2>2 DEF Snapshots
  <2> QED BY <2>2, <2>4, <2>5
<1>38. CASE ResumeRun
  BY <1>38 DEF ResumeRun, Load, Loaded, Goto, trace
<1>39. CASE CompleteBookkeeping
  BY <1>39 DEF CompleteBookkeeping, Load, Loaded, Goto, trace
<1> QED BY <1>1, <1>2, <1>3, <1>4, <1>5, <1>6, <1>7, <1>8, <1>9, <1>10, <1>11, <1>12, <1>13,
     <1>14, <1>15, <1>16, <1>17, <1>18, <1>19, <1>20, <1>21, <1>22, <1>23, <1>24, <1>25,
          <1>26, <1>27, <1>28, <1>29, <1>30, <1>31, <1>32, <1>33, <1>34, <1>35, <1>36, <1>37,
               <1>38, <1>39 DEF Step, Work, Head, Tool, Explorer, Verification, Tail

\* Whatever is spent is reported, and a ready checkpoint agrees with the trace.
LEMMA AccountStep ==
  ASSUME TypeInv, StatusInv, AccountInv, Step, UNCHANGED setup
  PROVE  AccountInv'
<1> USE ExceededStatus, UsageStatus DEF StatusInv, InStep, Acting, AccountInv, Judged,
     Consistent, AttemptsJudged, Settled, NoVerdict, setup
<1>1. CASE Start
  BY <1>1 DEF Start, Save, Goto, agent, local
<1>2. CASE ClaimStep
  BY <1>2 DEF ClaimStep, Save, Goto, agent
<1>3. CASE TakeUpDecision
  BY <1>3 DEF TakeUpDecision, Perform, EndWith, Fail, Goto, trace
<1>4. CASE StopAtLimit
  BY <1>4 DEF StopAtLimit, EndWith, Goto, local, trace
<1>5. CASE PrepareContext
  BY <1>5 DEF PrepareContext, Goto, agent, local, trace
<1>6. CASE RequestSummary
  BY <1>6 DEF RequestSummary, Spend, Goto, local, TypeInv, TypeOK, Accounts, Counters
<1>7. CASE SummaryResponds
  BY <1>7 DEF SummaryResponds, Charge, Fail, Goto, local, TypeInv, TypeOK, Accounts, Counters
<1>8. CASE RequestModel
  BY <1>8 DEF RequestModel, Spend, Goto, local, TypeInv, TypeOK, Accounts, Counters
<1>9. CASE ModelResponds
  BY <1>9 DEF ModelResponds, Charge, Fail, Goto, TypeInv, TypeOK, Accounts, Counters
<1>10. CASE DenyCall
  BY <1>10 DEF DenyCall, Spend, Goto, local, TypeInv, TypeOK, Accounts, Counters
<1>11. CASE AskApproval
  BY <1>11 DEF AskApproval, Spend, EndWith, Goto, local, TypeInv, TypeOK, Accounts, Counters
<1>12. CASE RunCall
  BY <1>12 DEF RunCall, Spend, Perform, Fail, Goto, TypeInv, TypeOK, Accounts, Counters
<1>13. CASE ToolReturns
  BY <1>13 DEF ToolReturns, Goto, agent, local, trace
<1>14. CASE ProcessOutput
  BY <1>14 DEF ProcessOutput, Goto, local, trace
<1>15. CASE RefuseExplorer
  BY <1>15 DEF RefuseExplorer, Refuse, Goto, local, trace
<1>16. CASE RequestExplorer
  BY <1>16 DEF RequestExplorer, Spend, ChildMayGoOn, Goto, TypeInv, TypeOK, Accounts, Counters
<1>17. CASE ExplorerResponds
  BY <1>17 DEF ExplorerResponds, Charge, Refuse, Goto, local, TypeInv, TypeOK, Accounts,
       Counters
<1>18. CASE RunExplorerCall
  BY <1>18 DEF RunExplorerCall, Spend, Goto, local, TypeInv, TypeOK, Accounts, Counters
<1>19. CASE EndExplorer
  BY <1>19 DEF EndExplorer, Goto, agent, local, trace
<1>20. CASE Complete
  BY <1>20 DEF Complete, EndWith, Goto, local, trace
<1>21. CASE BeginAttempt
  BY <1>21 DEF BeginAttempt, Spend, EndWith, Goto, trace, TypeInv, TypeOK, Accounts, Counters
<1>22. CASE InterruptSuite
  BY <1>22 DEF InterruptSuite, EndWith, Goto, trace
<1>23. CASE BeginCommand
  BY <1>23 DEF BeginCommand, Spend, Goto, local
<1>24. CASE CommandReturns
  BY <1>24 DEF CommandReturns, AnyFailed, Goto, agent, trace
<1>25. CASE JudgeSuite
  BY <1>25 DEF JudgeSuite, Verdict, EndWith, Goto, local, TypeInv, TypeOK
<1>26. CASE SettleStep
  BY <1>26 DEF SettleStep, Save, Goto, agent, AtBoundary, Settled
<1>27. CASE ReturnWaiting
  BY <1>27 DEF ReturnWaiting, Goto, agent, local, trace
<1>28. CASE FinishRun
  BY <1>28 DEF FinishRun, RecordEnd, Goto, agent, local
<1>29. CASE SaveFinished
  <2>1. /\ control = "finish" /\ control' = "returned"
        /\ UNCHANGED <<status, used, passed, recorded, verdict, ended, interrupted>>
        /\ saved'.ready = boundary /\ saved'.status = status /\ saved'.used = used
        /\ saved'.passed = passed
    BY <1>29 DEF SaveFinished, Save, Goto, agent, local
  <2>2. boundary => Judged
    BY <2>1 DEF AtBoundary
  <2> QED BY <2>1, <2>2
<1>30. CASE RecordMissingEnd
  BY <1>30 DEF RecordMissingEnd, RecordEnd, Goto, agent
<1>31. CASE TimeOut
  BY <1>31 DEF TimeOut, Exploring, EndWith, Goto, local, trace
<1>32. CASE Raise
  BY <1>32 DEF Raise, Exploring, Fail, Goto, local, trace
<1>33. CASE RecordError
  BY <1>33 DEF RecordError, Goto, agent, local
<1>34. CASE SaveInterrupted
  BY <1>34 DEF SaveInterrupted, Save, Goto, agent
<1>35. CASE PassDeadline
  BY <1>35 DEF PassDeadline, agent, local, trace
<1>36. CASE Stop
  BY <1>36 DEF Stop, Goto, agent, local, trace
<1>37. CASE Decide
  BY <1>37 DEF Decide, agent, local, trace
<1>38. CASE ResumeRun
  BY <1>38 DEF ResumeRun, Load, Loaded, Goto, trace, Resumable
<1>39. CASE CompleteBookkeeping
  BY <1>39 DEF CompleteBookkeeping, Load, Loaded, Goto, trace, Resumable
<1> QED BY <1>1, <1>2, <1>3, <1>4, <1>5, <1>6, <1>7, <1>8, <1>9, <1>10, <1>11, <1>12, <1>13,
     <1>14, <1>15, <1>16, <1>17, <1>18, <1>19, <1>20, <1>21, <1>22, <1>23, <1>24, <1>25,
          <1>26, <1>27, <1>28, <1>29, <1>30, <1>31, <1>32, <1>33, <1>34, <1>35, <1>36, <1>37,
               <1>38, <1>39 DEF Step, Work, Head, Tool, Explorer, Verification, Tail

\* A run becomes completed only by a suite that passed as a whole.
LEMMA DoneStep ==
  ASSUME TypeInv, StatusInv, AccountInv, DoneInv, Step, UNCHANGED setup
  PROVE  DoneInv'
<1> USE ExceededStatus, UsageStatus DEF TypeInv, SuiteInv, StatusInv, InStep, Acting,
     AccountInv, Judged, DoneInv, CompletedVerified, setup
<1>1. CASE Start
  BY <1>1 DEF Start, Save, Goto, agent, local
<1>2. CASE ClaimStep
  BY <1>2 DEF ClaimStep, Save, Goto, agent
<1>3. CASE TakeUpDecision
  BY <1>3 DEF TakeUpDecision, Perform, EndWith, Fail, Goto, trace
<1>4. CASE StopAtLimit
  BY <1>4 DEF StopAtLimit, EndWith, Goto, local, trace
<1>5. CASE PrepareContext
  BY <1>5 DEF PrepareContext, Goto, agent, local, trace
<1>6. CASE RequestSummary
  BY <1>6 DEF RequestSummary, Spend, Goto, local
<1>7. CASE SummaryResponds
  BY <1>7 DEF SummaryResponds, Charge, Fail, Goto, local
<1>8. CASE RequestModel
  BY <1>8 DEF RequestModel, Spend, Goto, local
<1>9. CASE ModelResponds
  BY <1>9 DEF ModelResponds, Charge, Fail, Goto
<1>10. CASE DenyCall
  BY <1>10 DEF DenyCall, Spend, Goto, local
<1>11. CASE AskApproval
  BY <1>11 DEF AskApproval, Spend, EndWith, Goto, local
<1>12. CASE RunCall
  BY <1>12 DEF RunCall, Spend, Perform, Fail, Goto
<1>13. CASE ToolReturns
  BY <1>13 DEF ToolReturns, Goto, agent, local, trace
<1>14. CASE ProcessOutput
  BY <1>14 DEF ProcessOutput, Goto, local, trace
<1>15. CASE RefuseExplorer
  BY <1>15 DEF RefuseExplorer, Refuse, Goto, local, trace
<1>16. CASE RequestExplorer
  BY <1>16 DEF RequestExplorer, Spend, ChildMayGoOn, Goto
<1>17. CASE ExplorerResponds
  BY <1>17 DEF ExplorerResponds, Charge, Refuse, Goto, local
<1>18. CASE RunExplorerCall
  BY <1>18 DEF RunExplorerCall, Spend, Goto, local
<1>19. CASE EndExplorer
  BY <1>19 DEF EndExplorer, Goto, agent, local, trace
<1>20. CASE Complete
  BY <1>20 DEF Complete, EndWith, Goto, local, trace
<1>21. CASE BeginAttempt
  BY <1>21 DEF BeginAttempt, Spend, EndWith, Goto, trace
<1>22. CASE InterruptSuite
  BY <1>22 DEF InterruptSuite, EndWith, Goto, trace
<1>23. CASE BeginCommand
  BY <1>23 DEF BeginCommand, Spend, Goto, local
<1>24. CASE CommandReturns
  BY <1>24 DEF CommandReturns, AnyFailed, Goto, agent, trace
<1>25. CASE JudgeSuite
  BY <1>25 DEF JudgeSuite, Verdict, EndWith, Goto, local, Settled, AtBoundary
<1>26. CASE SettleStep
  BY <1>26 DEF SettleStep, Save, Goto, agent
<1>27. CASE ReturnWaiting
  BY <1>27 DEF ReturnWaiting, Goto, agent, local, trace
<1>28. CASE FinishRun
  BY <1>28 DEF FinishRun, RecordEnd, Goto, agent, local
<1>29. CASE SaveFinished
  BY <1>29 DEF SaveFinished, Save, Goto, agent, local
<1>30. CASE RecordMissingEnd
  BY <1>30 DEF RecordMissingEnd, RecordEnd, Goto, agent
<1>31. CASE TimeOut
  BY <1>31 DEF TimeOut, Exploring, EndWith, Goto, local, trace
<1>32. CASE Raise
  BY <1>32 DEF Raise, Exploring, Fail, Goto, local, trace
<1>33. CASE RecordError
  BY <1>33 DEF RecordError, Goto, agent, local
<1>34. CASE SaveInterrupted
  BY <1>34 DEF SaveInterrupted, Save, Goto, agent
<1>35. CASE PassDeadline
  BY <1>35 DEF PassDeadline, agent, local, trace
<1>36. CASE Stop
  BY <1>36 DEF Stop, Goto, agent, local, trace
<1>37. CASE Decide
  BY <1>37 DEF Decide, agent, local, trace
<1>38. CASE ResumeRun
  BY <1>38 DEF ResumeRun, Load, Loaded, Goto, trace, Resumable, Consistent
<1>39. CASE CompleteBookkeeping
  BY <1>39 DEF CompleteBookkeeping, Load, Loaded, Goto, trace, Resumable, Consistent
<1> QED BY <1>1, <1>2, <1>3, <1>4, <1>5, <1>6, <1>7, <1>8, <1>9, <1>10, <1>11, <1>12, <1>13,
     <1>14, <1>15, <1>16, <1>17, <1>18, <1>19, <1>20, <1>21, <1>22, <1>23, <1>24, <1>25,
          <1>26, <1>27, <1>28, <1>29, <1>30, <1>31, <1>32, <1>33, <1>34, <1>35, <1>36, <1>37,
               <1>38, <1>39 DEF Step, Work, Head, Tool, Explorer, Verification, Tail

-----------------------------------------------------------------------------
(* The invariant, and the theorems                                         *)

\* A new run satisfies the invariant.
LEMMA InitInv == Init => IInv
<1> SUFFICES ASSUME Init PROVE IInv
  OBVIOUS
<1>1. NoReport \in Accounts /\ NoSave \in Snapshots /\ NoCall \in Pendings
      /\ NoVerdict \in [attempt: Nat, passed: Results]
  BY DEF NoReport, NoSave, NoCall, NoVerdict, Accounts, Counters, Snapshots, Pendings,
         Results, Statuses, Settled
<1>2. TypeInv
  <2>1. suite \in [run: 0..checks, passes: 0..checks, failed: BOOLEAN] /\ child \in 0..ChildSteps
    BY StepAssumption DEF Init
  <2>2. /\ control \in Labels /\ status \in Statuses /\ passed \in Results
        /\ ended \in Statuses \cup {"none"} /\ call \in Calls
    BY DEF Init, Labels, Statuses, Settled, Results, Calls
  <2>3. /\ boundary \in BOOLEAN /\ open \in BOOLEAN /\ interrupted \in BOOLEAN
        /\ late \in BOOLEAN /\ ahead \in BOOLEAN
    BY DEF Init
  <2>4. SuiteInv
    BY DEF Init, SuiteInv
  <2>6. checks \in Suites /\ limits \in Budgets
    BY DEF Init
  <2>5. /\ used \in Accounts /\ recorded \in Accounts /\ pending \in Pendings
        /\ saved \in Snapshots /\ verdict \in [attempt: Nat, passed: Results]
    BY <1>1 DEF Init
  <2> QED BY <2>1, <2>2, <2>3, <2>4, <2>5, <2>6 DEF TypeInv, TypeOK
<1>3. LimitInv
  <2>1. limits \in [steps: Limits, calls: Limits, tools: Limits, cost: Limits, tokens: Limits]
    BY StepAssumption DEF Init, BudgetLimits
  <2> QED BY <2>1 DEF Init, LimitInv, SpentWithin, Within, CostWithin, TokensWithin,
        StepsSpent, ToolsSpent, MainRequestReserved, NoReport, NoSave, Counters, Limits
<1>4. StatusInv /\ HistoryInv
  BY DEF Init, StatusInv, HistoryInv, InStep, Acting, NoSave
<1>5. CountInv /\ SnapshotsValid
  BY StepAssumption DEF Init, CountInv, CountsAgree, SnapshotsValid, ValidBoundary, NoReport,
     NoSave, Counters
<1>6. AccountInv /\ DoneInv
  BY DEF Init, AccountInv, Judged, AttemptsJudged, DoneInv, CompletedVerified, NoReport,
     NoSave, NoVerdict, Counters
<1> QED BY <1>2, <1>3, <1>4, <1>5, <1>6 DEF IInv

\* The invariant speaks of the variables only.
LEMMA StutterInv == IInv /\ UNCHANGED vars => IInv'
<1> SUFFICES ASSUME IInv, UNCHANGED vars PROVE IInv'
  OBVIOUS
<1> USE DEF vars, agent, local, trace, setup
<1>1. TypeInv'
  BY DEF IInv, TypeInv, TypeOK, SuiteInv
<1>2. LimitInv'
  BY DEF IInv, LimitInv, SpentWithin, CostWithin, TokensWithin, StepsSpent, ToolsSpent,
     MainRequestReserved
<1>3. StatusInv' /\ HistoryInv'
  BY DEF IInv, StatusInv, AtBoundary, HistoryInv, Matched
<1>4. CountInv' /\ SnapshotsValid'
  BY DEF IInv, CountInv, CountsAgree, SnapshotsValid, ValidBoundary
<1>5. AccountInv' /\ DoneInv'
  BY DEF IInv, AccountInv, Judged, Consistent, AttemptsJudged, DoneInv, CompletedVerified
<1> QED BY <1>1, <1>2, <1>3, <1>4, <1>5 DEF IInv

\* No step leaves the invariant.
LEMMA NextInv == IInv /\ [Next]_vars => IInv'
<1> SUFFICES ASSUME IInv, [Next]_vars PROVE IInv'
  OBVIOUS
<1>1. CASE Next
  BY <1>1, TypeStep, LimitStep, StatusStep, HistoryStep, CountStep, SnapshotStep,
     AccountStep, DoneStep DEF IInv, Next
<1>2. CASE UNCHANGED vars
  BY <1>2, StutterInv
<1> QED BY <1>1, <1>2

\* IInv holds in every reachable state.
THEOREM InductiveInvariant == Spec => []IInv
BY InitInv, NextInv, PTL DEF Spec

\* Every part of the state keeps its type.
THEOREM TypeCorrect == Spec => []TypeOK
<1>1. IInv => TypeOK
  BY DEF IInv, TypeInv
<1> QED BY <1>1, InductiveInvariant, PTL

\* Whatever the limits are, and whoever spends (the steps, summaries, the
\* explorer, the verification commands, in this process or after a resume),
\* the sums stay within them, a meter is overshot by one response at most, and a
\* summary leaves the main request its call.
THEOREM LimitsHold == Spec => []WithinLimits
<1>1. IInv => WithinLimits
  BY DEF IInv, LimitInv, WithinLimits
<1> QED BY <1>1, InductiveInvariant, PTL

\* Checkpoint.validate_boundary accepts every snapshot the program takes.
THEOREM SnapshotsAccepted == Spec => []SnapshotsValid
<1>1. IInv => SnapshotsValid
  BY DEF IInv
<1> QED BY <1>1, InductiveInvariant, PTL

\* resume never finds a settled checkpoint at odds with its trace.
THEOREM SettledResumes == Spec => []ResumeConsistent
<1>1. IInv => ResumeConsistent
  BY DEF IInv, AccountInv, ResumeConsistent
<1> QED BY <1>1, InductiveInvariant, PTL

\* No ready checkpoint counts a verification attempt that was not judged.
THEOREM NoAttemptReplayed == Spec => []AttemptsJudged
<1>1. IInv => AttemptsJudged
  BY DEF IInv, AccountInv
<1> QED BY <1>1, InductiveInvariant, PTL

\* Nothing is requested or executed once a check or a callback ended the run.
THEOREM StopsAtOnce == Spec => []ActsWhileRunning
<1>1. IInv => ActsWhileRunning
  BY DEF IInv, StatusInv, InStep, ActsWhileRunning
<1> QED BY <1>1, InductiveInvariant, PTL

\* With a policy, completed means that every command passed in one attempt.
THEOREM CompletionVerified == Spec => []CompletedVerified
<1>1. IInv => CompletedVerified
  BY DEF IInv, DoneInv
<1> QED BY <1>1, InductiveInvariant, PTL

\* A resume loads the counters that were reported last, so nothing is refunded.
LEMMA StepRefundsNothing ==
  ASSUME IInv, Step, UNCHANGED setup
  PROVE  \A c \in Counters : used'[c] >= used[c]
<1>1. used \in [Counters -> Nat]
  BY DEF IInv, TypeInv, TypeOK, Accounts
<1>2. ASSUME NEW counters, Spend(counters)
      PROVE  \A c \in Counters : used'[c] >= used[c]
  BY <1>1, <1>2 DEF Spend
<1>3. ASSUME NEW usage \in Charges, Charge(usage)
      PROVE  \A c \in Counters : used'[c] >= used[c]
  <2>1. usage.cost \in Nat /\ usage.tokens \in Nat
    BY StepAssumption
  <2> QED BY <1>1, <1>3, <2>1 DEF Charge
<1>4. ASSUME Resumable, Load
      PROVE  used' = used
  BY <1>4 DEF Resumable, Consistent, Load, Loaded, IInv, AccountInv
<1>5. ASSUME used' = used
      PROVE  \A c \in Counters : used'[c] >= used[c]
  BY <1>1, <1>5
<1>6. \/ \E counters : Spend(counters)
      \/ \E usage \in Charges : Charge(usage)
      \/ Resumable /\ Load
      \/ used' = used
  <2>1. CASE Head
    BY <2>1 DEF Head, ClaimStep, TakeUpDecision, StopAtLimit, PrepareContext, RequestSummary,
       SummaryResponds, RequestModel, ModelResponds, agent
  <2>2. CASE Tool
    BY <2>2 DEF Tool, DenyCall, AskApproval, RunCall, ToolReturns, ProcessOutput, agent
  <2>3. CASE Explorer
    BY <2>3 DEF Explorer, RefuseExplorer, RequestExplorer, ExplorerResponds, RunExplorerCall,
       EndExplorer, agent
  <2>4. CASE Verification
    BY <2>4 DEF Verification, Complete, BeginAttempt, InterruptSuite, BeginCommand,
       CommandReturns, JudgeSuite, agent
  <2>5. CASE Tail
    BY <2>5 DEF Tail, SettleStep, ReturnWaiting, FinishRun, SaveFinished, RecordMissingEnd,
       RecordEnd, TimeOut, Raise, RecordError, SaveInterrupted, agent
  <2>6. CASE Start \/ PassDeadline \/ Stop \/ Decide
    BY <2>6 DEF Start, PassDeadline, Stop, Decide, agent
  <2>7. CASE ResumeRun \/ CompleteBookkeeping
    BY <2>7 DEF ResumeRun, CompleteBookkeeping
  <2> QED BY <2>1, <2>2, <2>3, <2>4, <2>5, <2>6, <2>7 DEF Step, Work
<1> QED BY <1>2, <1>3, <1>4, <1>5, <1>6

\* What a run has spent is never refunded, by whatever stops and resumes it.
THEOREM SpendingStands == Spec => NeverRefunded
<1>1. IInv /\ [Next]_vars => [\A c \in Counters : used'[c] >= used[c]]_used
  BY StepRefundsNothing DEF Next, vars, agent
<1> QED BY <1>1, InductiveInvariant, PTL DEF Spec, NeverRefunded

=============================================================================
