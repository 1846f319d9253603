CONSTANTS
    s1 = s1 g1 = g1 g2 = g2 g3 = g3 j1 = j1 j2 = j2
    plain = plain upper = upper i1 = i1 i2 = i2
    Nil = Nil
    Signup <- OneSignup
    Callback <- ThreeCallbacks
    Join <- TwoJoins
    Subscribe <- None
    Email <- TwoSpellings
    Normal <- ToPlain
    Identity <- TwoIdentities
    Movable <- OneOfThem
SPECIFICATION Spec
SYMMETRY Symmetry
INVARIANTS TypeOK OwnAccount IdentityFindsAccount SignupHasLink TurnedAwayForAReason OnWaitlistOnce
