SPECIFICATION SchedSpec
CONSTANTS
    Slots = {s1, s2}
    Workers = {w1}
    MaxAdds = 1
    MaxGen = 3
    MaxKids = 1
PROPERTIES
    WaitReturns
    AcquireReturns
    JobsComplete
CHECK_DEADLOCK FALSE
