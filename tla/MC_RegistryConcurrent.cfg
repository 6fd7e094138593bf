\* Two overlapping calls of two players on three items, limit one.
CONSTANTS
    Players = {p1, p2}
    Items = {i1, i2, i3}
    Workers = {w1, w2}
    MaxSubs = 1
    CanCrash = TRUE
    Nobody = Nobody
SYMMETRY Symmetry
SPECIFICATION Spec
INVARIANTS
    TypeOK
    SubsHaveRows
    LimitOvershoot
    
PROPERTIES
    SubscriptionsEndByOwner
    ImplementsWatching
