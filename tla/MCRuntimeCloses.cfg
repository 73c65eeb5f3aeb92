SPECIFICATION FairRuntimeSpec
CONSTANTS
    VerifiedContracts <- MCVerifiedContracts
    Registrations <- MCRegistrations
    CasExpectations <- MCCasExpectations
    Time <- MCTime
    NoHash = "none"
    MaxSafeInteger = 3
    Executions = {e1, e2}
    ContractOf <- MCContractOf
    RequestOf <- MCRequestOf
    ObjectOf <- MCObjectOf
    ChargeOf <- MCChargeOf
    TicketTtl = 1
    Observations <- MCAttestable
    Faults = {"evidence-sink"}
PROPERTIES
    ExecutionsClose
CHECK_DEADLOCK FALSE
