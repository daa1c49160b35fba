----------------------------- MODULE MCAgentStep ----------------------------
(* Instances of AgentStep for TLC.                                         *)
EXTENDS AgentStep

\* A response costs two units of money or one of tokens.
Usages == {[cost |-> 2, tokens |-> 0], [cost |-> 0, tokens |-> 1]}

\* Every limit is set, or max_steps alone.
Full       == [steps |-> 4, calls |-> 5, tools |-> 4, cost |-> 5, tokens |-> 4]
StepsAlone == [steps |-> 3, calls |-> NoLimit, tools |-> NoLimit, cost |-> NoLimit,
               tokens |-> NoLimit]
FullOrSteps == {Full, StepsAlone}

=============================================================================
