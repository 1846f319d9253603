CONSTANTS
    u1 = u1 s1 = s1 g1 = g1 g2 = g2 g3 = g3 v1 = v1 v2 = v2 p1 = p1
    Nil = Nil
    User <- OneUser
    Resend <- OneResend
    Forgot <- ThreeForgots
    Verify <- TwoVerifies
    Redeem <- OneRedeem
    Key <- Keys
SPECIFICATION Spec
INVARIANTS TypeOK InvalidatedIsReplaced LockOrder
PROPERTIES NoReuseAfterAnswer ImplementsRegister
