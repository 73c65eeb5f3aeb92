SPECIFICATION Spec
CONSTANTS
    VerifiedContracts <- MCVerifiedContracts
    Registrations <- MCRegistrations
    CasExpectations <- MCCasExpectations
    Time = {0, 1, 2}
    NoHash = "none"
    MaxSafeInteger = 3
INVARIANTS
    LineageChain
    RegisteredTicketsPermittable
    IdentitiesConsumedOnce
    BudgetAccountsEveryReservation
PROPERTIES
    PermitUnderLiveAuthority
    TicketsAreOneShot
CHECK_DEADLOCK FALSE
