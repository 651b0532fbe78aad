SPECIFICATION Spec
CONSTANTS
    Programs <- UnreadPrograms
    MaxActivations = 3
    MaxTokens = 1
    MaxTraversals <- MCTraversals
INVARIANTS
    ReadsAreSequential
CHECK_DEADLOCK FALSE
