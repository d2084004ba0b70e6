SPECIFICATION Spec
CONSTANTS
    A = A
    B = B
    W = W
    R = R
    x = x
    y = y
    s = s
    xy = xy
    Ax = Ax
    U = U
    NULL = NULL
    NUL = NUL
    GARBAGE = GARBAGE
    OLD = OLD
    UNTOUCHED = UNTOUCHED
    Names <- MCNames
    Char <- MCChar
    spelling <- MCSpelling
    rendering <- MCRendering
    numeral <- MCNumeral
    Schemas <- LabelSchemas
    CAPACITY = 4
    TEMP_SIZE = 3
    MaxLexemes = 1
INVARIANT DotWellFormed
CHECK_DEADLOCK FALSE
