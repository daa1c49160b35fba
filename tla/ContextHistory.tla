--------------------------- MODULE ContextHistory ---------------------------
(***************************************************************************)
(* The message history of a run, and how each request to the model is cut  *)
(* to a budget of tokens: old results are cleared, then old turns removed, *)
(* or a summary takes the place of the old turns.  What is cut for one     *)
(* request stays cut, since the prepared history replaces the history.     *)
(*                                                                         *)
(* A message also has a size and a kind, and says which exchanges it is    *)
(* about: the n-th answer of the model and what follows from it is         *)
(* exchange n, and a summary is about all exchanges it was made from.      *)
(***************************************************************************)
EXTENDS HistoryTurns, FiniteSets

CONSTANTS
  MaxTokens,     \* what a request may hold, beside the tool definitions
  KeepRecent,    \* keep_recent_turns
  MaxMessage,    \* what a message of the model may hold
  ClearedSize,   \* the size of a result that was cleared
  Ids,           \* call ids, which a model may repeat
  Sizes,         \* sizes of answers and results
  ReminderSizes, \* sizes of the budget reminder
  SummarySizes,  \* sizes of a summary
  MaxExchanges   \* bounds the run

ASSUME HistoryAssumption ==
  /\ KeepRecent \in Nat \ {0} /\ MaxMessage \in Nat /\ ClearedSize \in Nat
  /\ MaxExchanges \in Nat
  /\ Sizes \cup ReminderSizes \cup SummarySizes \subseteq Nat
  /\ "none" \notin Ids

VARIABLES
  messages,  \* state.messages
  request,   \* _request_messages
  phase,     \* what comes next: "ready" to ask, "asked", a result "owed", or the end:
             \* "done", "failed" (nothing fits, or no summary), "broken" (a history error)
  count      \* how many exchanges there were

vars == <<messages, request, phase, count>>

Message(kind, role, calls, answers, size, about) ==
  [kind |-> kind, role |-> role, calls |-> calls, answers |-> answers, size |-> size, about |-> about]

System  == Message("system", "system", <<>>, "none", 1, {})
Task    == Message("task", "user", <<>>, "none", 1, {})
Summary(size, about) == Message("summary", "assistant", <<>>, "none", size, about)

\* The budget reminder, and the reminder of the plan when there is one.
Reminders ==
  LET reminder(kind, size) == Message(kind, "user", <<>>, "none", size, {})
  IN {<<reminder("reminder", size)>> : size \in ReminderSizes}
     \cup {<<reminder("reminder", size), reminder("plan", 1)>> : size \in ReminderSizes}

Init ==
  /\ messages = <<System, Task>>
  /\ request = <<>> /\ phase = "ready" /\ count = 0

-----------------------------------------------------------------------------
(* Preparing a request                                                     *)

Total(history) ==
  LET sum[n \in 0..Len(history)] == IF n = 0 THEN 0 ELSE sum[n - 1] + history[n].size
  IN  sum[Len(history)]

Fits(history) == Total(history) <= MaxTokens

\* A mutant: the results are clamped in place of the answers.
MutClamped(history) ==
  [i \in 1..Len(history) |->
     IF history[i].role = "tool"
     THEN [history[i] EXCEPT !.size = Min({@, MaxMessage})]
     ELSE history[i]]

\* clamp_history
Clamped(history) ==
  [i \in 1..Len(history) |->
     IF history[i].role = "assistant"
     THEN [history[i] EXCEPT !.size = Min({@, MaxMessage})]
     ELSE history[i]]

\* All but the newest turns, of which the reminders are the last.
OldTurns(history) ==
  LET turns == Turns(history) IN SubSeq(turns, 1, Len(turns) - KeepRecent)

\* A mutant: the newest of the old turns go first.
MutPositions(turns, k) == UNION {turns[t] : t \in (Len(turns) - k + 1)..Len(turns)}

Positions(turns, k) == UNION {turns[t] : t \in 1..k}

\* A mutant: the assistant message goes, and the result stays.
MutWithout(history, positions) ==
  LET goes == {i \in positions : history[i].role # "tool"}
      kept[n \in 0..Len(history)] ==
        IF n = 0 THEN <<>>
        ELSE IF n \in goes THEN kept[n - 1]
        ELSE Append(kept[n - 1], history[n])
  IN  kept[Len(history)]

\* The messages that stand elsewhere, in their order.
Without(history, positions) ==
  LET kept[n \in 0..Len(history)] ==
        IF n = 0 THEN <<>>
        ELSE IF n \in positions THEN kept[n - 1]
        ELSE Append(kept[n - 1], history[n])
  IN  kept[Len(history)]

\* Results lose their content, when that makes them smaller.
Cleared(history, positions) ==
  [i \in 1..Len(history) |->
     IF i \in positions /\ history[i].role = "tool" /\ history[i].size > ClearedSize
     THEN [history[i] EXCEPT !.kind = "cleared", !.size = ClearedSize, !.about = {}]
     ELSE history[i]]

\* The attempts of prepare: first the results of the old turns are cleared one
\* turn after the other, and then the turns are removed one after the other.
Candidate(history, old, k) ==
  IF k <= Len(old) THEN Cleared(history, Positions(old, k))
  ELSE Without(Cleared(history, Positions(old, Len(old))), Positions(old, k - Len(old)))

Fitting(history) ==
  LET clamped == Clamped(history)
      old == OldTurns(history)
  IN {k \in 0..(2 * Len(old)) : Fits(Candidate(clamped, old, k))}

Fail(how) == phase' = how /\ UNCHANGED <<messages, request, count>>

\* _set_prepared: the reminders are at the end, and not part of the history.
SetPrepared(prepared, reminders) ==
  IF IsSuffix(reminders, prepared)
  THEN /\ request' = prepared
       /\ messages' = SubSeq(prepared, 1, Len(prepared) - Len(reminders))
       /\ phase' = "asked"
       /\ UNCHANGED count
  ELSE Fail("broken")

\* prepare returns the first candidate that fits.
Prepare(history, reminders) ==
  LET fitting == Fitting(history)
  IN IF Malformed(history) THEN Fail("broken")
     ELSE IF fitting = {} THEN Fail("failed")
     ELSE SetPrepared(Candidate(Clamped(history), OldTurns(history), Min(fitting)), reminders)

PrepareRequest ==
  /\ phase = "ready"
  /\ count < MaxExchanges
  /\ \E reminders \in Reminders : Prepare(messages \o reminders, reminders)

-----------------------------------------------------------------------------
(* Summaries                                                               *)

SummaryDue(history) == ~Fits(Clamped(history)) /\ OldTurns(history) # <<>>

OldPositions(history) == Positions(OldTurns(history), Len(OldTurns(history)))

About(history) == UNION {history[i].about : i \in 1..Len(history)}

Retained(history) == Without(Clamped(history), OldPositions(history))

\* A mutant: a summary is made from old exchanges and not from an earlier summary.
MutSource(history) ==
  Without(Clamped(history),
          {i \in 1..Len(history) : i \notin OldPositions(history) \/ history[i].kind = "summary"})

\* What the summarizer is given, beside the pinned messages.
Source(history) == Without(Clamped(history), 1..Len(history) \ OldPositions(history))

\* insertion_index: the first place of an old turn.
Insertion(history) == Min(OldPositions(history)) - 1

Summarized(history, size) ==
  InsertAt(Retained(history), Insertion(history) + 1, Summary(size, About(Source(history))))

\* apply_summary accepts it.
Shrinks(history, summarized) ==
  Fits(summarized) /\ Total(summarized) < Total(history)

\* Planning, the summarizer's answer and its validation; any of them may fail.
\* A request is prepared without it when the manager does not summarize, or has
\* no call left for it.
\* The budget reminder is made anew, and may have grown.
Summarize ==
  /\ phase = "ready"
  /\ count < MaxExchanges
  /\ \E reminders \in Reminders :
       LET history == messages \o reminders
       IN /\ ~Malformed(history) /\ SummaryDue(history)
          /\ \/ Fail("failed")
             \/ /\ Total(Retained(history)) < MaxTokens
                /\ \E size \in SummarySizes, renewed \in Reminders :
                     LET summarized == Summarized(history, size)
                         kept == SubSeq(summarized, 1, Len(summarized) - Len(reminders))
                     IN /\ Shrinks(history, summarized) /\ Tail(renewed) = Tail(reminders)
                        /\ IF Malformed(summarized) \/ ~IsSuffix(reminders, summarized)
                           THEN Fail("broken")
                           ELSE Prepare(kept \o renewed, renewed)

-----------------------------------------------------------------------------
(* The run                                                                 *)

\* The model calls a tool.
RespondWithCall ==
  /\ phase = "asked"
  /\ \E id \in Ids, size \in Sizes :
       messages' = Append(messages, Message("answer", "assistant", <<id>>, "none", size, {count + 1}))
  /\ count' = count + 1
  /\ phase' = "owed"
  /\ UNCHANGED request

\* The result of the call, or of its denial, becomes part of the history; when
\* an approval is waited for, that is the next thing that happens.
AppendResult ==
  /\ phase = "owed"
  /\ \E size \in Sizes :
       messages' = Append(messages,
         Message("result", "tool", <<>>, Last(messages).calls[1], size, {count}))
  /\ phase' = "ready"
  /\ UNCHANGED <<request, count>>

\* The model ends; with feedback, if the verification fails.
RespondFinally ==
  /\ phase = "asked"
  /\ \E size \in Sizes :
       LET answer == Message("answer", "assistant", <<>>, "none", size, {count + 1})
           feedback == Message("feedback", "user", <<>>, "none", 2, {count + 1})
       IN \/ messages' = Append(messages, answer) /\ phase' = "done"
          \/ messages' = messages \o <<answer, feedback>> /\ phase' = "ready"
  /\ count' = count + 1
  /\ UNCHANGED request

Next ==
  PrepareRequest \/ Summarize \/ RespondWithCall \/ AppendResult \/ RespondFinally

Spec == Init /\ [][Next]_vars

-----------------------------------------------------------------------------
(* Properties                                                              *)

TypeOK ==
  /\ \A history \in {messages, request} : \A i \in 1..Len(history) :
       /\ history[i].kind \in {"system", "task", "summary", "reminder", "plan", "answer", "result",
                               "cleared", "feedback"}
       /\ history[i].size \in Nat
       /\ history[i].about \subseteq 1..MaxExchanges
  /\ \A i \in 1..Len(request) : request[i].role = "assistant" => request[i].size <= MaxMessage
  /\ phase \in {"ready", "asked", "owed", "done", "failed", "broken"}
  /\ count \in 0..MaxExchanges

\* No sequence of answers, cuts and summaries brings the history into a form
\* that _turns refuses, and the reminders survive every cut ("Context manager
\* must preserve the current plan reminder and budget reminder").
NeverBroken == phase # "broken"

\* The history is about the newest exchanges without a gap: what is forgotten
\* is older than all that is kept, and a summary is not older than its place.
NewestKept ==
  \A e \in About(messages) : e..count \subseteq About(messages)

\* A later summary carries what an earlier one was about (the same test), and
\* nothing is forgotten while there is a summary: it is the first thing to go.
SummaryCarries ==
  [][phase = "ready" /\ phase' = "asked" /\ (\E i \in 1..Len(messages') : messages'[i].kind = "summary")
       => About(messages) \subseteq About(messages')]_vars

=============================================================================
