----------------------------- MODULE MCWorkspaces -----------------------------
(* Small instances of Workspaces for TLC.                                   *)
EXTENDS Workspaces, TLC

CONSTANTS u1, u2, c1, c2, c3, b1, d1, f1

OneUser      == {u1}
TwoUsers     == {u1, u2}
TwoCreates   == {c1, c2}
ThreeCreates == {c1, c2, c3}
OneBrowse    == {b1}
OneLook      == {d1}
OneFetch     == {f1}
None         == {}

Symmetry == Permutations(User) \cup Permutations(Create)
=============================================================================
