SPECIFICATION Spec
CONSTANTS
    Servers <- MCServers
    Explicit = {"p"}
    Launchers = {"q"}
    Files = 1
    FileOf <- MCFileOf
    Versions = {1, 2}
    Strict = TRUE
    Reuse = TRUE
    Quiet = {"p"}
    Commands = 2
    Ops <- MCOps
    MaxCalls = 2
    MaxEdits = 2
    Systems = {"darwin", "linux", "other"}
    MaxWrites = 2
    MaxSignals = 3
INVARIANTS
    ExplicitNeedsApproval
    NoUnseenSwap
    WrappedOnce
    StderrScanned
PROPERTIES
    SecondInterruptEnds
CHECK_DEADLOCK FALSE
