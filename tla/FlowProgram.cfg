SPECIFICATION Spec
CONSTANTS
    Programs <- MCPrograms
    MaxActivations = 3
    MaxTokens = 1
    MaxTraversals <- MCTraversals
INVARIANTS
    ReadsAreSequential NothingFails
PROPERTIES
    TraversalsFinish
CHECK_DEADLOCK FALSE
