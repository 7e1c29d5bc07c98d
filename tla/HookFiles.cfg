CONSTANTS
    p1 = p1
    p2 = p2
    claude = claude
    gemini = gemini
    config = config
    Sir <- MCSir
    Worlds <- MCWorlds
SPECIFICATION Spec
INVARIANTS
    UndoneIsAnswered
    NoFalseAlarm
PROPERTIES
    SweepNeverBlesses
    DeveloperHooksKept
CHECK_DEADLOCK FALSE
