SPECIFICATION Spec
CONSTANTS
    Slots = {s1, s2, s3}
    MaxAdds = 2
    MaxGen = 2
SYMMETRY SlotSymmetry
INVARIANTS
    PendingExact
    StartAfterSources
    NotStranded
PROPERTIES
    NodesUnlinkedWhenReused
    ImplementsTaskGraph
