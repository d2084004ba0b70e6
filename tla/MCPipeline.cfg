SPECIFICATION Spec
CONSTANTS
    A = A
    B = B
    W = W
    R = R
    x = x
    y = y
    s = s
    xy = xy
    Ax = Ax
    U = U
    NULL = NULL
    NUL = NUL
    GARBAGE = GARBAGE
    OLD = OLD
    UNTOUCHED = UNTOUCHED
    Names <- MCNames
    Char <- MCChar
    spelling <- MCSpelling
    rendering <- MCRendering
    numeral <- MCNumeral
    Schemas <- MCSchemas
    CAPACITY = 4
    TEMP_SIZE = 3
    MaxLexemes = 3
INVARIANTS
    TypeOK
    TokensOwnedOnce
    CommentsSilent
    AcceptedWhole
    TextIntact
    LabelReadsAsCondition
    NodesToldApart
    EdgesMeetNodes
    KeysUnderlined
    IdentifyingIffWeak
    ReleasedOnce
    UsedWhileLive
PROPERTIES
    ImplementsCompilation
    MainReturns
CHECK_DEADLOCK FALSE
