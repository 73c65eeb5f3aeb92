\* One id that is taken over by a second page, one call at each end of each
\* connection, two changes, a post that throws.
SPECIFICATION Spec
CONSTANTS
    Ids = {ui}
    MaxPorts = 2
    MaxCalls = 1
    MaxRevision = 2
    MaxSendFails = 1
INVARIANTS
    PagesConverge
    AnswersReachTheirCall
    NothingWaitsOnClosed
    OpenConnectionsAreCurrent
CHECK_DEADLOCK FALSE
