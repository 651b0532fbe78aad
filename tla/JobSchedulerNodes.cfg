SPECIFICATION SchedSpec
CONSTANTS
    Slots = {s1, s2}
    Workers = {w1, w2}
    MaxAdds = 2
    MaxGen = 3
    MaxKids = 0
SYMMETRY Symmetry
INVARIANT
    NodeArraySuffices
