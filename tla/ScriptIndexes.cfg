CONSTANTS
    Pages <- MCPages
SPECIFICATION Spec
INVARIANT
    IndexesMatch
