SPECIFICATION Spec
CONSTANTS
    c1 = c1
    c2 = c2
    c3 = c3
    m1 = m1
    CallIds <- MCCalls
    Servers <- MCServers
    Reusables <- MCReusables
    MaxDenied = 2
    Scenarios <- MCScenarios
SYMMETRY Interchangeable
CHECK_DEADLOCK FALSE
INVARIANTS
    SecretFloorHolds
    DerivedStaysGated
    ForeignStaysGated
    GrantOnce
    ProviderAskSurvives
    FloorsNotDelegable
    DeniedRunLocksDown
PROPERTIES
    LeaseOnlyWhenClean
