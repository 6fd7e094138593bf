\* The server sends one packet of a type the client has no schema for.
CONSTANTS
    Names = {n1}
    Callers = {c1}
    Nobody = Nobody
    MaxInbox = 2
    MaxUnlisted = 1
    CanBreak = FALSE
SPECIFICATION Spec
INVARIANT ReaderStays
CHECK_DEADLOCK FALSE
