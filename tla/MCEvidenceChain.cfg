SPECIFICATION EvidenceSpec
CONSTANTS
    Ledgers = {l1, l2}
    Calls = {k1, k2}
    Attestations = {"a1", "a2", "a3", "a4"}
    Identities <- MCIdentities
    Signers = {"s1", "s2"}
    SignerOf <- MCSignerOf
    MaximumRecords = 2
    MaxRestores = 2
    Faults = {"port"}
SYMMETRY Symmetry
INVARIANTS
    OneEvidenceHistory
PROPERTIES
    CommitsUnderTrust
CHECK_DEADLOCK FALSE
