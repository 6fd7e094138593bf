SPECIFICATION Spec
CONSTANTS
    p1 = p1
    Players = {p1, p2}
    Keys = {k1, k2, k3}
    Readers = {c1}
    Requests = {r1, r2}
    Owner = p1
    Nobody = Nobody
SYMMETRY Symmetry
INVARIANTS TypeOK OneActiveKey OnlyNewestWorks HoldersRegistered
PROPERTIES  ImplementsIssuing
CHECK_DEADLOCK FALSE
