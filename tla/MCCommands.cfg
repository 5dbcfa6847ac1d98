CONSTANTS
    X = X
    Y = Y
    Lead = Lead
    Cont = Cont
    Sp = Sp
    Nl = Nl
    Esc = Esc
    Nul = Nul
    SizeMod = 2000000
    IntMod = 32
    DigitOf <- MCDigitOf
    LetterOf <- MCLetterOf
    ByteOf <- MCByteOf
    Documents <- MCDocuments
    Lines <- MCLines
    Widths = {3}
SPECIFICATION Spec
INVARIANTS TypeOK FitKeepsText RangesNameRight OutputRight OneCommandPerWord
CHECK_DEADLOCK FALSE
