CONSTANTS
    b1 = b1
    b2 = b2
    b3 = b3
    b4 = b4
    b5 = b5
    Nil = Nil
    Block <- MCBlock
    MaxDocs = 4
    MaxRange = 2
SYMMETRY Symmetry
SPECIFICATION Spec
INVARIANTS
    TypeOK
    ParentsValid
    BlocksOwned
    CurrentIndexValid
    DocumentsKept
PROPERTY
    CommandsKeepPromises
