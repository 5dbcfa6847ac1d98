CONSTANTS
    Session = {1, 2}
    Url = {"u1", "u2", "u3"}
    NameOf <- MCNameOf
    MarkupIds <- MCMarkupIds
    MarkupNames <- MCMarkupNames
    Pieces = 4
    HeaderLen = 3
    Plans <- MCPlans
SPECIFICATION Spec
INVARIANTS
    TypeOK
    BookmarksKept
    HistoryKept
PROPERTY
    SavedAsTold
CHECK_DEADLOCK FALSE
