CONSTANTS
    Char = {x, sp}
    Blanks = {sp}
    Nul = nul
    Junk = junk
    Grow = 2
    Radix = 2
    MaxMove = 4
    Cols = 6
    MaxLine = 6
    MaxEntry = 2
    MaxHistory = 2
    Size = 16
    Windows = {3, 4, 5}
    Width = 2
    MaxText = 6
    Msgs <- Messages
SPECIFICATION Spec
INVARIANTS
    TypeOK
    RowShowsLine
    PagesGood
PROPERTIES
    ActsAsZipper
    ScrollReaches
ACTION_CONSTRAINT
    LongWithFewLines
