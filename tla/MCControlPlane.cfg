SPECIFICATION Spec
CONSTANTS
    Processes = {p1, p2}
    Recoverers = {r1}
    Transactions = {t1}
    Nonces <- OwnNonces
    PermitIds <- OwnIds
    ReceiptIds <- OwnIds
    AdmittedAt <- Late
    ExpiresAt <- Late
    Time <- MCTime
    MaxCrashes = 1
    Faults = {"clock", "storage"}
SYMMETRY Symmetry
INVARIANTS
    RecordsStayValid
    CallsAreRecordedFirst
PROPERTIES
    TerminalIsFrozen
    StartsUnderLivePermit
    KeepsOneShotPromise
