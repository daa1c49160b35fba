---------------------------- MODULE ActionPolicy ----------------------------
(***************************************************************************)
(* ActionPolicy.assess: what the policy of a run says of one call, before  *)
(* anything is executed.  A command is the sequence of what it is made of: *)
(* the words that shlex.split finds, and, wherever they stand, the marks   *)
(* that the policy refuses.                                                *)
(***************************************************************************)
EXTENDS Integers, Sequences, SequencesExt

CONSTANTS
  Tools,     \* the names of tools, "shell" among them
  Words,     \* words of commands
  Marks,     \* heredocs, line breaks, operators, expansions, comments, escapes,
             \* also within quotes, and quotes that are not closed
  Basename   \* a word without what comes before its last slash

ASSUME PolicyAssumption ==
  /\ "shell" \in Tools
  /\ Words \cap Marks = {}
  /\ Basename \in [Words -> Words]

Risks   == 0..3   \* LOW, MEDIUM and HIGH are 1, 2 and 3
Unknown == 0

Rules    == [prefix: Seq(Words) \ {<<>>}, risk: Risks, deny: BOOLEAN]
Policies == [mode: {"always", "never", "risky"}, pause: BOOLEAN, threshold: Risks \ {Unknown},
             confirm_unknown: BOOLEAN, tool_risks: [Tools -> Risks],
             denied_tools: SUBSET Tools, rules: Seq(Rules)]
Commands == Seq(Words \cup Marks)

MutNormalized(words) == words

\* Denied executables cannot be disguised with a path.
Normalized(words) == [words EXCEPT ![1] = Basename[words[1]]]

MutDenies(rule, words) == rule.deny /\ IsPrefix(rule.prefix, words)

\* A rule of two words also denies the second further on: git -C dir push.
Denies(rule, words) ==
  /\ rule.deny
  /\ \/ IsPrefix(rule.prefix, words)
     \/ /\ Len(rule.prefix) = 2 /\ words[1] = rule.prefix[1]
        /\ \E i \in 2..Len(words) : words[i] = rule.prefix[2]

\* The positions of the rules that know the command.
Matching(rules, words) == {i \in DOMAIN rules : IsPrefix(rules[i].prefix, words)}

\* max by the length of the prefix: of several the first.
Longest(rules, matching) ==
  rules[CHOOSE i \in matching : \A j \in matching :
          \/ Len(rules[j].prefix) < Len(rules[i].prefix)
          \/ Len(rules[j].prefix) = Len(rules[i].prefix) /\ i <= j]

\* Whether anything in the command is no word.
Compound(command) == \E i \in DOMAIN command : command[i] \in Marks

\* _shell: the risk of a command, and whether it is denied.  A blank one is
\* left to the tool.  The risk of a denied command is not used.
Shell(rules, command) ==
  LET matching == Matching(rules, command)
  IN CASE command = <<>>    -> [risk |-> Unknown, denied |-> FALSE]
       [] Compound(command) -> [risk |-> Unknown, denied |-> TRUE]
       [] OTHER ->
            IF \E i \in DOMAIN rules : Denies(rules[i], Normalized(command))
            THEN [risk |-> Unknown, denied |-> TRUE]
            ELSE IF matching = {} THEN [risk |-> Unknown, denied |-> FALSE]
            ELSE [risk   |-> Longest(rules, matching).risk,
                  denied |-> Longest(rules, matching).deny]

Judgement(policy, tool, command) ==
  IF tool = "shell" THEN Shell(policy.rules, command)
  ELSE [risk |-> policy.tool_risks[tool], denied |-> FALSE]

Confirms(policy, risk) ==
  IF risk = Unknown THEN policy.confirm_unknown ELSE risk >= policy.threshold

Assess(policy, tool, command) ==
  LET judgement == Judgement(policy, tool, command)
  IN CASE tool \in policy.denied_tools \/ judgement.denied -> "deny"
       [] OTHER ->
            IF \/ policy.mode = "always"
               \/ policy.mode = "risky" /\ Confirms(policy, judgement.risk)
            THEN "require_approval" ELSE "allow"

=============================================================================
