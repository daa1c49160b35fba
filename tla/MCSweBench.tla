----------------------------- MODULE MCSweBench -----------------------------
(* The constants of the instance of SweBench.                              *)
EXTENDS SweBench

CONSTANTS d1, d2, c1, c2

\* One conversion asks for both instances, another for one of them.
Selections == [d \in {d1, d2} |-> IF d = d1 THEN <<1, 2>> ELSE <<2>>]

=============================================================================
