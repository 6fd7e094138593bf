\* One resync of one item; delays 1, 2 and 4, capped at 2, overflow at 8.
CONSTANTS
    Items = {i1}
    Syncs = {s1}
    Count = 1
    MaxDelay = 2
    LargestDelay = 4
SPECIFICATION Spec
PROPERTY EveryFailureBacksOff
