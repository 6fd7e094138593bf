\* Two overlapping subscribe calls of one player whose limit is one.
CONSTANTS
    Players = {p1}
    Items = {i1, i2}
    Workers = {w1, w2}
    MaxSubs = 1
    CanCrash = FALSE
    Nobody = Nobody
SYMMETRY Symmetry
SPECIFICATION Spec
INVARIANT LimitExact
