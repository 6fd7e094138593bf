\* Two overlapping resyncs of two items, one at a time; the third failure of an
\* aoid overflows.
CONSTANTS
    Items = {i1, i2}
    Syncs = {s1, s2}
    Count = 1
    MaxDelay = 2
    LargestDelay = 2
SYMMETRY Symmetry
SPECIFICATION Spec
INVARIANTS TypeOK AutoTrackedKept
