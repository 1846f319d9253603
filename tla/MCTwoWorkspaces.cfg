CONSTANTS
    u1 = u1 u2 = u2 c1 = c1 c2 = c2 c3 = c3 b1 = b1 d1 = d1 f1 = f1
    Nil = Nil
    User <- OneUser
    Create <- TwoCreates
    Browse <- None
    Look <- None
    Fetch <- None
    PageSize = 2
SPECIFICATION Spec
SYMMETRY Symmetry
INVARIANT OneWorkspacePerUser
