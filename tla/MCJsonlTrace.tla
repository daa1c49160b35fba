---------------------------- MODULE MCJsonlTrace ----------------------------
(* The constants of the instances of JsonlTrace.                           *)
EXTENDS JsonlTrace, TLC

CONSTANTS w1, w2, e1, e2, e3

OneWriter  == {w1}
TwoWriters == {w1, w2}
TwoIds     == {e1, e2}
ThreeIds   == {e1, e2, e3}

\* Writers are alike, and so are ids.
Alike == Permutations(TwoWriters) \cup Permutations(ThreeIds)

=============================================================================
