------------------------------ MODULE ToolCalls ------------------------------
(***************************************************************************)
(* One tool call after the other, from the request to the result that its  *)
(* requester gets: the action policy, the approval, the file tools with    *)
(* their access rules, the shell, and the artifact that keeps an output    *)
(* too long for the history.  Calls are the agent's, its explorer's, or    *)
(* commands of the verification policy.                                    *)
(*                                                                         *)
(* A workspace is reduced to the entries of one directory, some of which   *)
(* may be symbolic links.  Commands change it as they like, while the      *)
(* agent waits for them; nothing else runs beside a file tool.             *)
(***************************************************************************)
EXTENDS ActionPolicy, FiniteSets

CONSTANTS
  Names,       \* the entries of the workspace
  Protected,   \* those that match FileSystemConfig.protected_patterns
  Denied,      \* and denied_patterns
  Allowed,     \* and allowed_patterns, or all when there are none
  Hidden,      \* those whose name begins with a dot
  Aliases,     \* bound: the entries that commands may make links
  Scratch,     \* bound: the entries whose content commands may change
  Executables, \* ShellConfig.denied_commands
  Texts,       \* file contents and outputs
  Huge,        \* the outputs at the spill threshold
  Artifact,    \* where each of them is kept
  Torn,        \* what a write that failed leaves
  Absent, Outside, None,
  Setups,      \* the policies a run may have
  Inputs       \* the commands a call may have

ReadTools == {"read_file", "list_directory", "search_files"}
FileTools == ReadTools \cup {"write_file", "edit_file"}

ASSUME ToolAssumption ==
  /\ Tools = FileTools \cup {"shell"}
  /\ Protected \cup Denied \cup Allowed \cup Hidden \cup Aliases \cup Scratch \subseteq Names
  /\ Huge \subseteq Texts
  /\ Artifact \in [Huge -> Names \ Protected]
  /\ \A a, b \in Huge : Artifact[a] = Artifact[b] => a = b
  /\ Absent \notin Texts /\ Torn \notin Texts /\ Absent # Torn
  /\ None \notin Names \cup Texts /\ Outside \notin Names
  /\ Setups \subseteq Policies /\ Inputs \subseteq Commands

VARIABLES
  files,    \* what each entry that is no link holds
  links,    \* where each entry that is a link points
  policy,   \* the run's ActionPolicy
  control,  \* where the call is
  call,     \* who asks for which tool on what
  approved, \* whether a person approved it
  result    \* ToolResult: an error, the entries it tells of, its text, and
            \* whether it has a retrieval hint

workspace == <<files, links>>
vars      == <<workspace, policy, control, call, approved, result>>

Reads    == [by: {"agent", "explorer"}, tool: {"read_file"}, path: Names, text: {None},
             command: {None}]
Lists    == [by: {"agent", "explorer"}, tool: {"list_directory", "search_files"},
             path: {None}, text: {None}, command: {None}]
Writes   == [by: {"agent", "explorer"}, tool: {"write_file", "edit_file"}, path: Names,
             text: Texts, command: {None}]
Shells   == {c \in [by: {"agent", "explorer", "verification"}, tool: {"shell"}, path: {None},
                    text: {None}, command: Inputs] :
               c.by = "verification" => c.command # <<>>}
Calls    == Reads \cup Lists \cup Writes \cup Shells
NoCall   == [by |-> "agent", tool |-> "list_directory", path |-> None, text |-> None,
             command |-> None]
NoResult == [error |-> FALSE, shows |-> {}, text |-> None, hint |-> FALSE]
Failure  == [NoResult EXCEPT !.error = TRUE]

Goto(label) == control' = label

\* The call is over, with or without a result.
Over == Goto("idle") /\ call' = NoCall /\ approved' = FALSE /\ result' = NoResult

Init ==
  /\ files = [n \in Names |-> IF n \in Protected \cup Denied THEN CHOOSE t \in Texts : TRUE
                                                           ELSE Absent]
  /\ links = [n \in Names |-> None]
  /\ policy \in Setups
  /\ control = "idle" /\ call = NoCall /\ approved = FALSE /\ result = NoResult

-----------------------------------------------------------------------------
(* LocalWorkspace                                                          *)

\* Path.resolve: a chain of links, to its end or into a loop.
EndOf(pointers, n) ==
  LET hop[k \in 0..Cardinality(Names)] ==
        IF k = 0 THEN n
        ELSE IF hop[k - 1] \notin Names \/ pointers[hop[k - 1]] = None THEN hop[k - 1]
        ELSE pointers[hop[k - 1]]
  IN hop[Cardinality(Names)]

Canonical(n) == EndOf(links, n)

\* _workspace_path: the end is inside, and is no link itself.
Resolves(n) == Canonical(n) \in Names /\ links[Canonical(n)] = None

Exists(n) == Resolves(n) /\ files[Canonical(n)] # Absent

-----------------------------------------------------------------------------
(* FileSystemConfig                                                        *)

ReadOnly == call.by = "explorer"

\* authorize, of a canonical path.
Authorized(n, write) ==
  /\ write => ~ReadOnly /\ n \notin Protected
  /\ n \notin Denied /\ n \in Allowed

-----------------------------------------------------------------------------
(* From the request to the tool                                            *)

Verdict == Assess(policy, call.tool, call.command)

\* The model chooses its calls, the verification policy has commands.
Request(c) ==
  /\ control = "idle"
  /\ call' = c /\ approved' = FALSE /\ result' = NoResult
  /\ Goto("assess")
  /\ UNCHANGED <<workspace, policy>>

\* ShellTool.validate_arguments, before the policy is asked: the run fails.
Malformed == call.by = "agent" /\ call.tool = "shell" /\ call.command = <<>>

RejectCall ==
  /\ control = "assess" /\ Malformed
  /\ Over
  /\ UNCHANGED <<workspace, policy>>

\* Whether the requester may go on without a person.
Permitted ==
  CASE call.by = "agent"    -> Verdict = "allow" \/ (Verdict = "require_approval" /\ approved)
    [] call.by = "explorer" -> Verdict = "allow" /\ call.tool \in ReadTools
    [] OTHER                -> Verdict # "deny"

\* Only the agent can wait for an approval, and only where there is one.
Askable == call.by = "agent" /\ Verdict = "require_approval" /\ policy.pause

DenyCall ==
  /\ control = "assess" /\ ~Malformed
  /\ ~Permitted /\ ~Askable
  /\ result' = Failure
  /\ Goto("output")
  /\ UNCHANGED <<workspace, policy, call, approved>>

AskApproval ==
  /\ control = "assess" /\ ~Malformed
  /\ ~Permitted /\ Askable
  /\ Goto("waiting")
  /\ UNCHANGED <<workspace, policy, call, approved, result>>

\* An approved call is assessed again.
Approve ==
  /\ control = "waiting"
  /\ approved' = TRUE
  /\ Goto("assess")
  /\ UNCHANGED <<workspace, policy, call, result>>

Reject ==
  /\ control = "waiting"
  /\ result' = Failure
  /\ Goto("output")
  /\ UNCHANGED <<workspace, policy, call, approved>>

ExecuteCall ==
  /\ control = "assess" /\ ~Malformed
  /\ Permitted
  /\ Goto(IF call.tool = "shell" THEN "command" ELSE "inspect")
  /\ UNCHANGED <<workspace, policy, call, approved, result>>

-----------------------------------------------------------------------------
(* The file tools                                                          *)

\* Arguments, limits, binary content, text that is not found once: an error.
RefuseFile ==
  /\ control \in {"inspect", "act", "edit"}
  /\ result' = Failure
  /\ Goto("output")
  /\ UNCHANGED <<workspace, policy, call, approved>>

MutInspectRequested ==
  /\ control = "inspect"
  /\ Authorized(call.path, call.tool \in {"write_file", "edit_file"})
  /\ Resolves(call.path)
  /\ call.tool \in {"read_file", "edit_file"} => Exists(call.path)
  /\ Goto("act")
  /\ UNCHANGED <<workspace, policy, call, approved, result>>

MutInspectAnything ==
  /\ control = "inspect"
  /\ call.tool \in {"read_file", "write_file", "edit_file"} =>
       /\ Resolves(call.path)
       /\ Authorized(Canonical(call.path), call.tool \in {"write_file", "edit_file"})
  /\ Goto("act")
  /\ UNCHANGED <<workspace, policy, call, approved, result>>

\* inspect_path, then authorize with its canonical path.  Of a directory only
\* the denied patterns are asked for, and the workspace's own is not denied.
Inspect ==
  /\ control = "inspect"
  /\ call.tool \in {"read_file", "write_file", "edit_file"} =>
       /\ Resolves(call.path)
       /\ Authorized(Canonical(call.path), call.tool \in {"write_file", "edit_file"})
  /\ call.tool \in {"read_file", "edit_file"} => Exists(call.path)
  /\ Goto("act")
  /\ UNCHANGED <<workspace, policy, call, approved, result>>

ReadFile ==
  /\ control = "act" /\ call.tool = "read_file"
  /\ result' = [NoResult EXCEPT !.shows = {Canonical(call.path)},
                                !.text = files[Canonical(call.path)]]
  /\ Goto("output")
  /\ UNCHANGED <<workspace, policy, call, approved>>

MutListed == {n \in Names : Exists(n) /\ n \notin Hidden /\ Authorized(n, FALSE)}

\* Entries are visible by the name they have here, and accessible by the path
\* they lead to.
Listed == {n \in Names : Exists(n) /\ n \notin Hidden /\ Authorized(Canonical(n), FALSE)}

\* list_directory, and search_files, which reads the files of the listing by
\* their names and shows those that match.
ShowEntries ==
  /\ control = "act" /\ call.tool \in {"list_directory", "search_files"}
  /\ \E some \in SUBSET Listed :
       /\ call.tool = "list_directory" => some = Listed
       /\ result' = [NoResult EXCEPT !.shows = {Canonical(n) : n \in some}]
  /\ Goto("output")
  /\ UNCHANGED <<workspace, policy, call, approved>>

\* edit_file reads first; the new content is what the call says.
ReadForEdit ==
  /\ control = "act" /\ call.tool = "edit_file"
  /\ Goto("edit")
  /\ UNCHANGED <<workspace, policy, call, approved, result>>

Writing == (control = "act" /\ call.tool = "write_file") \/ control = "edit"

WriteFile ==
  /\ Writing
  /\ files' = [files EXCEPT ![Canonical(call.path)] = call.text]
  /\ result' = NoResult
  /\ Goto("output")
  /\ UNCHANGED <<links, policy, call, approved>>

\* The disk is full, or the process dies: the run fails, with a part written.
WriteBreaks ==
  /\ Writing
  /\ files' = [files EXCEPT ![Canonical(call.path)] = Torn]
  /\ Over
  /\ UNCHANGED <<links, policy>>

-----------------------------------------------------------------------------
(* The shell                                                               *)

\* validate_command.
RefuseCommand ==
  /\ control = "command"
  /\ call.command[1] \in Executables
  /\ result' = Failure
  /\ Goto("output")
  /\ UNCHANGED <<workspace, policy, call, approved>>

\* A command changes one entry or none, and has an output.
RunCommand ==
  /\ control = "command"
  /\ call.command[1] \notin Executables
  /\ \/ UNCHANGED workspace
     \/ \E n \in Scratch, t \in Texts \cup {Absent} :
          files' = [files EXCEPT ![n] = t] /\ links' = [links EXCEPT ![n] = None]
     \/ \E n \in Aliases, target \in Names \cup {Outside} :
          files' = [files EXCEPT ![n] = Absent] /\ links' = [links EXCEPT ![n] = target]
  /\ \E t \in Texts : result' = [NoResult EXCEPT !.text = t]
  /\ Goto("output")
  /\ UNCHANGED <<policy, call, approved>>

-----------------------------------------------------------------------------
(* ToolOutputManager                                                       *)

\* The explorer compacts in memory; and what is short enough is kept.
KeepOutput ==
  /\ control = "output"
  /\ call.by = "explorer" \/ result.text \notin Huge
  /\ Goto("reply")
  /\ UNCHANGED <<workspace, policy, call, approved, result>>

Place == Artifact[result.text]

MutDiffers == FALSE

\* A file under the digest of the output that is not the output.
Differs == files[Place] # result.text

Spilling == control = "output" /\ call.by # "explorer" /\ result.text \in Huge

\* An alias, or what an earlier write left there: no hint.
RefuseSpill ==
  /\ Spilling
  /\ links[Place] # None \/ (files[Place] # Absent /\ Differs)
  /\ Goto("reply")
  /\ UNCHANGED <<workspace, policy, call, approved, result>>

ReuseArtifact ==
  /\ Spilling
  /\ links[Place] = None /\ files[Place] # Absent /\ ~Differs
  /\ result' = [result EXCEPT !.hint = TRUE]
  /\ Goto("reply")
  /\ UNCHANGED <<workspace, policy, call, approved>>

WriteArtifact ==
  /\ Spilling
  /\ links[Place] = None /\ files[Place] = Absent
  /\ files' = [files EXCEPT ![Place] = result.text]
  /\ result' = [result EXCEPT !.hint = TRUE]
  /\ Goto("reply")
  /\ UNCHANGED <<links, policy, call, approved>>

\* The write fails, which is told, or the process dies or is cancelled in it.
SpillBreaks ==
  /\ Spilling
  /\ links[Place] = None /\ files[Place] = Absent
  /\ files' = [files EXCEPT ![Place] = Torn]
  /\ Over \/ (Goto("reply") /\ UNCHANGED <<call, approved, result>>)
  /\ UNCHANGED <<links, policy>>

\* The result enters the history.
Return ==
  /\ control = "reply"
  /\ Over
  /\ UNCHANGED <<workspace, policy>>

\* The process dies; a later one resumes the run.
Die ==
  /\ control # "idle"
  /\ Over
  /\ UNCHANGED <<workspace, policy>>

-----------------------------------------------------------------------------

Next ==
  \/ \E c \in Calls : Request(c)
  \/ RejectCall \/ DenyCall \/ AskApproval \/ Approve \/ Reject \/ ExecuteCall
  \/ RefuseFile \/ Inspect \/ ReadFile \/ ShowEntries \/ ReadForEdit \/ WriteFile \/ WriteBreaks
  \/ RefuseCommand \/ RunCommand
  \/ KeepOutput \/ RefuseSpill \/ ReuseArtifact \/ WriteArtifact \/ SpillBreaks
  \/ Return \/ Die

Spec == Init /\ [][Next]_vars

-----------------------------------------------------------------------------
(* Properties                                                              *)

Labels  == {"idle", "assess", "waiting", "inspect", "act", "edit", "command", "output", "reply"}
Results == [error: BOOLEAN, shows: SUBSET Names, text: Texts \cup {Torn, None}, hint: BOOLEAN]

\* Every part of the state keeps its type.
TypeOK ==
  /\ files \in [Names -> Texts \cup {Absent, Torn}]
  /\ links \in [Names -> Names \cup {Outside, None}]
  /\ policy \in Setups /\ control \in Labels
  /\ call \in Calls \cup {NoCall} /\ approved \in BOOLEAN /\ result \in Results

\* Whatever names links give it, a protected entry changes only while a command
\* runs; and nothing the explorer does changes any entry, "even for oversized
\* output".
WritesGuarded ==
  [][\A n \in Names : files'[n] # files[n] =>
       control = "command" \/ (n \notin Protected /\ call.by # "explorer")]_workspace

\* What a file tool tells of is accessible by the path it leads to, whatever
\* name it was asked for or is listed under.
ShowsAccessible == control = "reply" => result.shows \cap Denied = {} /\ result.shows \subseteq Allowed

\* "Deny wins in every mode", "deny cannot be disguised with a path", "compound
\* shell syntax is refused": a command about to run is made of words alone, and
\* no rule that denies is about its program and what follows it, nor, if it has
\* two words, about any later argument, however specific a rule allows the
\* command and whoever approved it; and in mode "always" somebody approved the
\* agent's.
CommandsJudged ==
  control = "command" =>
    /\ \A i \in DOMAIN call.command : call.command[i] \in Words
    /\ \A r \in DOMAIN policy.rules : policy.rules[r].deny =>
         LET prefix == policy.rules[r].prefix
             words  == [call.command EXCEPT ![1] = Basename[@]]
         IN /\ ~IsPrefix(prefix, words)
            /\ ~(Len(prefix) = 2 /\ words[1] = prefix[1]
                 /\ \E i \in 2..Len(words) : words[i] = prefix[2])
    /\ call.by # "explorer"
    /\ policy.mode = "always" /\ call.by = "agent" => approved

\* "Never a false retrieval hint": a hint leads to the whole output, also when
\* earlier writes failed half-way or commands and tools changed the artifact.
HintHonest ==
  control = "reply" /\ result.hint =>
    /\ result.text \in Huge
    /\ links[Artifact[result.text]] = None
    /\ files[Artifact[result.text]] = result.text

=============================================================================
