CONSTANTS
    b1 = b1
    b2 = b2
    b3 = b3
    b4 = b4
    b5 = b5
    Nil = Nil
    Block <- MCBlock
    MaxDocs = 4
    MaxRange = 1
SYMMETRY Symmetry
SPECIFICATION NumberedSpec
INVARIANT
    NumbersAgree
PROPERTY
    NumberSelectsListed
