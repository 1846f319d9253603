------------------------------ MODULE MCAccounts ------------------------------
(* A small instance of Accounts for TLC: two spellings of one address, and  *)
(* two Google identities that have it, one of which may change its own.     *)
EXTENDS Accounts, TLC

CONSTANTS s1, g1, g2, g3, j1, j2, plain, upper, i1, i2

OneSignup      == {s1}
ThreeCallbacks == {g1, g2, g3}
TwoJoins       == {j1, j2}
None           == {}
TwoSpellings   == {plain, upper}
ToPlain        == [e \in TwoSpellings |-> plain]
TwoIdentities  == {i1, i2}
OneOfThem      == {i1}

Symmetry == Permutations(Callback) \cup Permutations(Join)
=============================================================================
