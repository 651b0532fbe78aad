SPECIFICATION Spec
CONSTANTS
    Slots = {s1, s2}
    Locations = {l1, l2}
    MaxOps = 3
    MaxAllocs = 2
    MaxAccesses = 2
INVARIANTS
    SynchronizesWith
    NoFalseDependency
    LocationInOnePlace
PROPERTIES
    FenceWaits
    CallsReturn
ACTION_CONSTRAINT
    FreshInOrder
CHECK_DEADLOCK FALSE
