--------------------------- MODULE MCOneTimeTokens ---------------------------
(* A small instance of OneTimeTokens for TLC.                               *)
EXTENDS OneTimeTokens

CONSTANTS u1, s1, g1, g2, g3, v1, v2, p1

OneUser      == {u1}
OneResend    == {s1}
ThreeForgots == {g1, g2, g3}
TwoVerifies  == {v1, v2}
OneRedeem    == {p1}

\* Keys are random: which link comes first says nothing about its age.
Keys == [t \in Link |-> CASE t = s1 -> 1 [] t = g1 -> 3 [] t = g2 -> 2 [] t = g3 -> 4]
=============================================================================
