--------------------------- MODULE ExclusiveSteps ---------------------------
(***************************************************************************)
(* What a persistent run promises, without processes, checkpoints or       *)
(* traces: it is settled or claimed; only while it is claimed is the model *)
(* asked or an action executed; steps are asked in order, each at most     *)
(* once, and the action of a step is executed at most once.  A claim that  *)
(* is never settled stands for ever: the run does nothing more.            *)
(***************************************************************************)
EXTENDS Integers

CONSTANT Steps      \* 1..n for the step budget n

VARIABLES
  phase,   \* "absent", "settled" or "claimed"
  asked,   \* how often the model was asked for each step
  acted    \* how often the action of each step was executed

vars == <<phase, asked, acted>>

Init ==
  /\ phase = "absent"
  /\ asked = [n \in Steps |-> 0]
  /\ acted = [n \in Steps |-> 0]

Move(from, to) ==
  /\ phase = from
  /\ phase' = to
  /\ UNCHANGED <<asked, acted>>

Create == Move("absent", "settled")
Claim  == Move("settled", "claimed")
Settle == Move("claimed", "settled")

Ask(n) ==
  /\ phase = "claimed"
  /\ asked[n] = 0
  /\ \A m \in Steps : m < n => asked[m] = 1
  /\ asked' = [asked EXCEPT ![n] = 1]
  /\ UNCHANGED <<phase, acted>>

Act(n) ==
  /\ phase = "claimed"
  /\ asked[n] = 1
  /\ acted[n] = 0
  /\ acted' = [acted EXCEPT ![n] = 1]
  /\ UNCHANGED <<phase, asked>>

Next == Create \/ Claim \/ Settle \/ \E n \in Steps : Ask(n) \/ Act(n)

Spec == Init /\ [][Next]_vars

=============================================================================
