CONSTANTS
    Scripts <- MCScripts
    MaxLines = 3
    Nodes = 2
SPECIFICATION Spec
INVARIANTS
    TypeOK
    EachDone
    NothingTwice
    OutputsArrive
ACTION_CONSTRAINT
    SeveralAreFew
CHECK_DEADLOCK FALSE
