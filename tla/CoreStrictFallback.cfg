SPECIFICATION Spec
CONSTANTS
    Profiles <- MCStrict
    RequestSet <- MCRequests
INVARIANTS
    NoLooserThanOracle
