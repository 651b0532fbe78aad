SPECIFICATION SchedSpec
CONSTANTS
    Slots = {s1, s2}
    Workers = {w1, w2}
    MaxAdds = 1
    MaxGen = 3
    MaxKids = 1
SYMMETRY Symmetry
INVARIANTS
    LiveExact
    NoStrayInvocation
    SlotInOnePlace
    AcquiredSlotIsQuiet
    UnpinnableIsFinished
    WaitReturnsAfterCompletion
