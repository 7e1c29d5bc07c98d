SPECIFICATION Spec
CONSTANTS
    Profiles <- MCBoth
    RequestSet <- MCRequests
INVARIANTS
    SecretStaysIn
    DefaultLeaseParity
    AdviceOnlyAsks
