--------------------------- MODULE MCAccessTokens ---------------------------
(* A small instance of AccessTokens for TLC.                                *)
EXTENDS AccessTokens, TLC

CONSTANTS a1, a2, q1, o1, o2

TwoTokens  == {a1, a2}
OneUse     == {q1}
TwoLogouts == {o1, o2}

Symmetry == Permutations(Token) \cup Permutations(Logout)
=============================================================================
