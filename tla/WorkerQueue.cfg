SPECIFICATION Spec
CONSTANTS
    Jobs = {j1, j2, j3, j4}
    Items = {i1, i2}
    Thieves = {t1}
    Capacity = 2
INVARIANT
    ItemsInOnePlace
PROPERTIES
    ImplementsJobBag
    EventuallyTaken
