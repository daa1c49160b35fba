--------------------------- MODULE AppendOnlyTrace ---------------------------
(***************************************************************************)
(* What the event store promises of one run's trace, without files, locks  *)
(* or writers: events are recorded at the end, in sequence, and never      *)
(* rewritten; an incomplete record may stand at the end, and then nothing  *)
(* is recorded after it; only what was never made stable can be lost.      *)
(***************************************************************************)
EXTENDS Integers, Sequences

CONSTANT Events      \* records with a sequence number

VARIABLES
  trace,   \* the events a reader is given
  torn,    \* whether a reader is warned of the end of the trace
  stable   \* how many events survive a power failure

vars == <<trace, torn, stable>>

Init == trace = <<>> /\ torn = FALSE /\ stable = 0

\* The event may be readable although the end of its line is missing.
Record(e) ==
  /\ ~torn
  /\ e.sequence = Len(trace) + 1
  /\ trace' = Append(trace, e)
  /\ torn' \in BOOLEAN
  /\ UNCHANGED stable

Tear == ~torn /\ torn' = TRUE /\ UNCHANGED <<trace, stable>>

\* The writer of the incomplete record completes it after all.
Complete ==
  /\ torn
  /\ \/ trace' = trace
     \/ \E e \in Events : e.sequence = Len(trace) + 1 /\ trace' = Append(trace, e)
  /\ torn' \in BOOLEAN
  /\ UNCHANGED stable

Stabilize ==
  /\ stable' \in stable..Len(trace)
  /\ UNCHANGED <<trace, torn>>

Lose ==
  /\ \E k \in stable..Len(trace) : trace' = SubSeq(trace, 1, k)
  /\ torn' \in BOOLEAN
  /\ stable' \in stable..Len(trace')

Next == (\E e \in Events : Record(e)) \/ Tear \/ Complete \/ Stabilize \/ Lose

Spec == Init /\ [][Next]_vars

=============================================================================
