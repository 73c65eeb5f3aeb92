\* A turn that may have two calls under way, one restart per window, one crash; a
\* worker may also hang while it starts.
SPECIFICATION FairSpec
CONSTANTS
    Turns = {t1}
    MaxCalls = 2
    MaxRestarts = 1
    MaxWindows = 1
    MaxCrashes = 1
    MaxRevision = 1
INVARIANTS
    TurnsAreNotReplayed
    SettledTurnsHoldNoCalls
    LedgerFollowsStore
PROPERTIES
    TurnsSettle
    WorkersRecover
CHECK_DEADLOCK FALSE
