SPECIFICATION Spec
CONSTANTS
    n = n
    d = d
    b = b
    u = u
    NULL = NULL
    Names <- MCNames
    MaxShape = 8
    MaxTyping = 6
    Vocabularies <- MCVocabularies
    Scope <- MCScope
INVARIANTS
    NodesOwnedOnce
    YieldIsInput
    PrecedenceRespected
    RejectionsExplained
    OperandOrderIrrelevant
    ErrorsMaskedOnlyByComparison
