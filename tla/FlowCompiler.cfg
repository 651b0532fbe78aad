SPECIFICATION Spec
CONSTANTS
    MaxResources = 3
    MaxOps = 5
    MaxAccesses = 2
    MaxDepth = 2
    Modes = {"read", "write", "consume"}
    Calls = {"resource", "external", "phi", "project", "overlap", "construct", "op", "serialize", "effect", "cutoff", "discard", "acquire", "yield", "if", "while"}
    Limits = {1, 2}
    NestProjections = FALSE
    Sizes <- MCSizes
    Alignments <- MCAlignments
INVARIANTS
    TypeOK ValidRecordingsCompile ConflictsOrdered StorageExclusive JobsKeepOrder InitializationClosed EmittedInOrder ControlRunsBodyOnce
ACTION_CONSTRAINT Shapes
CHECK_DEADLOCK FALSE
