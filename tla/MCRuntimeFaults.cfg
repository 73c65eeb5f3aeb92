SPECIFICATION RuntimeSpec
CONSTANTS
    VerifiedContracts <- MCVerifiedContracts
    Registrations <- MCRegistrations
    CasExpectations <- MCCasExpectations
    Time <- MCTime
    NoHash = "none"
    MaxSafeInteger = 3
    Executions = {e1, e2}
    ContractOf <- MCContractOf
    RequestOf <- MCRequestOf
    ObjectOf <- MCObjectOf
    ChargeOf <- MCChargeOf
    TicketTtl = 1
    Observations <- MCObservations
    Faults = {"clock", "kernel-port", "evidence-sink"}
INVARIANTS
    RuntimeTypeOK
    AttestationsAreTruthful
    SuccessIsComplete
    ReportsAreTruthful
PROPERTIES
    KeepsOneShotPromise
    EffectsStartUnderLiveAuthority
SYMMETRY Symmetry
CHECK_DEADLOCK FALSE
