SPECIFICATION Spec
CONSTANTS
    Terminals <- MCTerminals
    Openings <- MCOpenings
    MaxTokens = 6
INVARIANTS DestructorsExecuted
CHECK_DEADLOCK FALSE
