SPECIFICATION Spec
CONSTANTS
    MaxResources = 3
    MaxOps = 3
    MaxAccesses = 2
    MaxDepth = 2
    Modes = {"write"}
    Calls = {"resource", "project", "construct", "op"}
    Limits = {1}
    NestProjections = TRUE
    Sizes <- MCSizes
    Alignments <- MCAlignments
INVARIANTS
    ConflictsOrdered
ACTION_CONSTRAINT NestedShape
CHECK_DEADLOCK FALSE
