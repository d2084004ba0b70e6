SPECIFICATION Spec
CONSTANTS
    Terminals <- MCTerminals
    Openings <- MCOpenings
    MaxTokens = 6
INVARIANTS TypeOK OwnedOnce FreedOnce InSourceOrder HandsOverSchema
PROPERTIES ImplementsPushParser
CHECK_DEADLOCK FALSE
