-------------------------- MODULE MCContextHistory --------------------------
(***************************************************************************)
(* Values for ContextHistory: an answer or a result is small, or so large  *)
(* that an answer is clamped and a result worth clearing; a reminder is    *)
(* short or long, and a summary short.  All calls have the same id, since  *)
(* a model may repeat it from one exchange to the next.                    *)
(***************************************************************************)
EXTENDS ContextHistory

RepeatedId == {"a"}
SmallOrLarge == {1, 4}
Short == {1}
ShortOrLong == {1, 2}

=============================================================================
