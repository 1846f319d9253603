CONSTANTS
    a1 = a1 a2 = a2 q1 = q1 o1 = o1 o2 = o2
    Nil = Nil
    Token <- TwoTokens
    Use <- OneUse
    Logout <- TwoLogouts
    Grain = 2
    Lifetime = 2
    Horizon = 7
SPECIFICATION Spec
SYMMETRY Symmetry
INVARIANTS TypeOK BlacklistedAfterCommit
PROPERTY RejectedUntilExp
