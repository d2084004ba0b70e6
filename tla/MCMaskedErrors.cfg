SPECIFICATION Spec
CONSTANTS
    A = A
    B = B
    C = C
    W = W
    R = R
    U = U
    x = x
    y = y
    NULL = NULL
    Names <- MCNames
    Schemas <- MaskedSchemas
    text <- MCText
    LABEL_SIZE = 4
    MAX_PRIMARY_KEY_ATTRIBUTES = 3
    MAX_RELATIONSHIP_PARTICIPANTS = 2
    MAX_WEAK_ENTITY_REFERENCES = 3
    MAX_INHERITANCE_DEPTH = 2
INVARIANTS
    AcceptedTypesSound
