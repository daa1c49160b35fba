---------------------------- MODULE MCToolCalls ----------------------------
(* The constants of the instance of ToolCalls.                             *)
EXTENDS ToolCalls

CONSTANTS src, env, key, lnk, art, short, huge

\* "path" stands for rm with a directory before it.
BasenameOf == [w \in {"git", "-C", "reset", "soft", "path", "rm", "ls"} |-> IF w = "path" THEN "rm" ELSE w]

ArtifactOf == [t \in {huge} |-> art]

ToolNames == {"read_file", "list_directory", "search_files", "write_file", "edit_file", "shell"}

Rule(prefix, risk, deny) == [prefix |-> prefix, risk |-> risk, deny |-> deny]

\* reset is denied, although a longer rule knows a kind of it as harmless; two
\* rules are about ls, of which the first counts; and rm is denied.
SomeRules == <<Rule(<<"git", "reset">>, 3, TRUE), Rule(<<"git", "reset", "soft">>, 1, FALSE),
               Rule(<<"rm">>, 3, TRUE), Rule(<<"ls">>, 1, FALSE), Rule(<<"ls">>, 3, FALSE)>>

RisksOf == [t \in ToolNames |-> IF t \in {"write_file", "edit_file"} THEN 2 ELSE 1]

Policy(mode, pause, denied) ==
  [mode |-> mode, pause |-> pause, threshold |-> 3, confirm_unknown |-> TRUE,
   tool_risks |-> RisksOf, denied_tools |-> denied, rules |-> SomeRules]

\* Every mode, with and without somebody to ask, and a tool that is denied.
SomePolicies == {Policy("always", TRUE, {"edit_file"}), Policy("never", TRUE, {}),
                 Policy("risky", TRUE, {}), Policy("risky", FALSE, {"edit_file"})}

\* "&&" stands for every mark.
SomeCommands == {<<>>, <<"ls", "&&", "path">>, <<"ls">>, <<"path">>, <<"git", "-C", "reset">>,
                 <<"git", "reset", "soft">>, <<"git">>, <<"soft">>}

=============================================================================
