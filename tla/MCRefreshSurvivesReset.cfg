CONSTANTS
    u1 = u1 u2 = u2 l1 = l1 l2 = l2 f1 = f1 f2 = f2 f3 = f3 o1 = o1 p1 = p1 p2 = p2
    Nil = Nil
    User <- OneUser
    Login <- OneLogin
    Refresh <- OneRefresh
    Logout <- None
    Reset <- OneReset
SPECIFICATION Spec
INVARIANT ResetEndsEverySession
