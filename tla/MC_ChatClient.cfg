\* Two callers that look up one character; the connection may break.
CONSTANTS
    Names = {n1}
    Callers = {c1, c2}
    Nobody = Nobody
    MaxInbox = 2
    MaxUnlisted = 1
    CanBreak = TRUE
SPECIFICATION Spec
INVARIANTS
    TypeOK
    WaitersWait
PROPERTIES
    
    CallsEnd
    TellsAnswered
CHECK_DEADLOCK FALSE
