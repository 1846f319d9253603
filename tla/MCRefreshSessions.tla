------------------------- MODULE MCRefreshSessions -------------------------
(* Small instances of RefreshSessions for TLC.                              *)
EXTENDS RefreshSessions, TLC

CONSTANTS u1, u2, l1, l2, f1, f2, f3, o1, p1, p2

OneUser   == {u1}
TwoUsers  == {u1, u2}
OneLogin  == {l1}
TwoLogins == {l1, l2}
OneRefresh == {f1}
TwoRefreshes == {f1, f2}
ThreeRefreshes == {f1, f2, f3}
OneLogout == {o1}
OneReset  == {p1}
TwoResets == {p1, p2}
None == {}

\* Requests of one kind are interchangeable, and so are users.
Symmetry == Permutations(User) \cup Permutations(Login)
            \cup Permutations(Refresh) \cup Permutations(Reset)
=============================================================================
