CONSTANTS
    b1 = b1
    b2 = b2
    b3 = b3
    p1 = p1
    p2 = p2
    p3 = p3
    p4 = p4
    u1 = u1
    u2 = u2
    Nil = Nil
    Body <- MCBody
    Ptr <- MCPtr
    Url <- MCUrl
    MaxPages = 2
    MaxRedirects = 1
SYMMETRY Symmetry
SPECIFICATION Spec
INVARIANTS
    TypeOK
    Ownership
PROPERTY
    ImplementsPages
