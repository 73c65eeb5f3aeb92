SPECIFICATION RuntimeSpec
CONSTANTS
    VerifiedContracts <- MCVerifiedContracts
    Registrations <- MCRegistrations
    CasExpectations <- MCCasExpectations
    Time <- MCTime
    NoHash = "none"
    MaxSafeInteger = 3
    Executions = {e1}
    ContractOf <- MCContractOf
    RequestOf <- MCRequestOf
    ObjectOf <- MCObjectOf
    ChargeOf <- MCChargeOf
    TicketTtl = 1
    Observations <- MCObservations
    Faults = {}
INVARIANTS
    PostPermitFailuresClose
CHECK_DEADLOCK FALSE
