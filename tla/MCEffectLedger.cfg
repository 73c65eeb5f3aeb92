SPECIFICATION LedgerSpec
CONSTANTS
    Executors = {e1, e2}
    Recoverers = {r1}
    Deliverers = {d1}
    Transactions = {t1}
    Identities <- OwnIdentities
    ExpiresAt <- NeverExpires
    Time <- TwoInstants
    MaxCrashes = 1
    Faults = {"storage", "trust", "early"}
INVARIANTS
    AdmissionsAreBound
PROPERTIES
    OutcomeIsFrozen
    LedgerKeepsOneShotPromise
CHECK_DEADLOCK FALSE
