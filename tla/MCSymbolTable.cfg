SPECIFICATION Spec
CONSTANTS
    e1 = e1
    e2 = e2
    NULL = NULL
    Names <- MCNames
    Decls <- MCDecls
    HASH_TABLE_SIZE <- MCSize
    hash <- MCHash
INVARIANTS
    TypeOK
    ChainsWellFormed
PROPERTIES
    NeverRebound
    ImplementsMap
SYMMETRY DeclSymmetry
