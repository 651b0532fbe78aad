SPECIFICATION Spec
CONSTANTS
    Jobs = {j1, j2}
    N = 3
    MaxSteal = 6
INVARIANTS
    LiveCountsWork
    NobodyLeavesEarly
    JobInOnePlace
PROPERTIES
    SubmittedIsExecuted
    JoinReturns
