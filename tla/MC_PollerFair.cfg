\* One poller of one item, two subscribers with different filters, one fault.
CONSTANTS
    p1 = p1
    o1 = o1
    Players = {p1, p2}
    Items = {i1}
    Orders = {o1, o2}
    Pollers = {c1}
    BatchSize = 1
    Wants <- OneFiltered
    MayEmpty = FALSE
    MaxFaults = 1
    NoItem = NoItem
SPECIFICATION FairSpec
INVARIANT ToldOnce
PROPERTIES
    OwedIsSettled
