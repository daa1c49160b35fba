---------------------------- MODULE HistoryTurns ----------------------------
(***************************************************************************)
(* How a history of messages is divided into turns: the system messages    *)
(* and the first user message are pinned, and the rest is grouped so that  *)
(* a tool call is never parted from its results.                           *)
(*                                                                         *)
(* A message has a role, the sequence of ids of its tool calls, and the id *)
(* that it answers, or "none".                                             *)
(***************************************************************************)
EXTENDS Integers, Sequences, SequencesExt

\* Whether _turns accepts message m where no result is due.
Acceptable(m) ==
  /\ m.answers = "none" /\ m.role # "tool"
  /\ m.calls # <<>> => m.role = "assistant" /\ IsInjective(m.calls)

\* Whether m is a result that is due.
Answers(m, due) == m.role = "tool" /\ m.calls = <<>> /\ m.answers \in due

Close(s) == [s EXCEPT !.turns = Append(@, s.pending), !.pending = {}]

\* A result that is due joins the turn, and the last one ends it.
Take(s, i, m) ==
  LET taken == [s EXCEPT !.due = @ \ {m.answers}, !.pending = @ \cup {i}]
  IN IF ~Answers(m, s.due) THEN [s EXCEPT !.ok = FALSE]
     ELSE IF taken.due = {} THEN Close(taken) ELSE taken

\* Any other message is pinned, waits for the next assistant message, or is one.
Enter(s, i, m) ==
  LET entered == [s EXCEPT !.pending = @ \cup {i}, !.due = Range(m.calls)]
  IN CASE ~Acceptable(m) -> [s EXCEPT !.ok = FALSE]
       [] Acceptable(m) /\ m.role = "system" -> s
       [] Acceptable(m) /\ m.role = "user" /\ ~s.task -> [s EXCEPT !.task = TRUE]
       [] Acceptable(m) /\ m.role = "user" /\ s.task -> entered
       [] Acceptable(m) /\ m.role = "assistant" ->
            IF m.calls = <<>> THEN Close(entered) ELSE entered

Step(messages, s, i) ==
  IF ~s.ok THEN s
  ELSE IF s.due # {} THEN Take(s, i, messages[i])
  ELSE Enter(s, i, messages[i])

Start == [turns |-> <<>>, pending |-> {}, due |-> {}, task |-> FALSE, ok |-> TRUE]

Scan(messages) ==
  LET scan[n \in 0..Len(messages)] ==
        IF n = 0 THEN Start ELSE Step(messages, scan[n - 1], n)
  IN  scan[Len(messages)]

\* _turns raises ContextHistoryError.
Malformed(messages) == ~Scan(messages).ok \/ Scan(messages).due # {}

\* The turns, as sets of positions; what is left over is a pending turn.
Turns(messages) ==
  LET s == Scan(messages)
  IN IF s.pending = {} THEN s.turns ELSE Append(s.turns, s.pending)

=============================================================================
