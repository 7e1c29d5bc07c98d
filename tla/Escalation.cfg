SPECIFICATION Spec
CONSTANTS
    Servers <- MCServers
    Explicit = {"p"}
    Launchers = {"q"}
    Files = 1
    FileOf <- MCFileOf
    Versions = {1, 2}
    Strict = TRUE
    Reuse = TRUE
    Quiet = {"p"}
    Commands = 1
    Ops <- MCOps
    MaxCalls = 0
    MaxEdits = 0
    Systems = {"darwin", "linux", "other"}
    MaxWrites = 1
    MaxSignals = 2
INVARIANTS
    EscalationKillsGroup
CHECK_DEADLOCK FALSE
