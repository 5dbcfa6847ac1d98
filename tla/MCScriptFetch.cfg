CONSTANTS
    Pages <- MCPages
SPECIFICATION Spec
INVARIANTS
    TypeOK
    WritesLand
    FailuresSettled
PROPERTY
    InterruptEndsLoop
