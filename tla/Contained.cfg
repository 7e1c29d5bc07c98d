CONSTANTS
    r1 = r1
    r2 = r2
    c1 = c1
    c2 = c2
    Names <- MCNames
    Loopback <- MCLoopback
    Addresses <- MCAddresses
    Subpaths <- MCSubpaths
    Literals <- MCLiterals
    Worlds <- MCWorlds
    MaxWrites = 2
SPECIFICATION Spec
INVARIANTS
    LiveShadowKept
    NoGhostBoundary
    GuardsHold
    FloorStopsNewEgress
    PinsHold
PROPERTY
    FloorTearsDown
CHECK_DEADLOCK FALSE
