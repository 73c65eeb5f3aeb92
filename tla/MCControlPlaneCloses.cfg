SPECIFICATION FairSpec
CONSTANTS
    Processes = {p1}
    Recoverers = {r1}
    Transactions = {"u1", "u2", "u3"}
    Nonces <- PairedNonces
    PermitIds <- PairedIds
    ReceiptIds <- PairedIds
    AdmittedAt <- Early
    ExpiresAt <- Early
    Time <- OneInstant
    MaxCrashes = 1
    Faults = {}
INVARIANTS
    OneEffectPerPermit
PROPERTIES
    PreparedTransactionsClose
