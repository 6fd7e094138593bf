\* Registry calls made one at a time with crashes, and one editor of filters.
CONSTANTS
    Players = {p1}
    Items = {i1, i2}
    Workers = {w1}
    MaxSubs = 1
    CanCrash = TRUE
    Nobody = Nobody
    Editors = {e1}
    Specs <- SomeSpecs
    Thousand = 4
    MaxStored = 3
    None = None
    Junk = Junk
SPECIFICATION FilterSpec
INVARIANTS
    FilterTypeOK
    LimitOvershoot
    SerialCallsMeetNoConstraint
    FilterPassesSome
    MatchIsContainment
PROPERTIES
    CallsEnd
    
