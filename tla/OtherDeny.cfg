CONSTANTS
    p1 = p1
    p2 = p2
    claude = claude
    gemini = gemini
    config = config
    Sir <- MCSir
    Worlds <- LockedElsewhere
SPECIFICATION Spec
INVARIANT OtherDenyPreserved
CHECK_DEADLOCK FALSE
