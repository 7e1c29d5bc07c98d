SPECIFICATION Spec
CONSTANTS
    h1 = h1
    h2 = h2
    c1 = c1
    d1 = d1
    e1 = e1
    e2 = e2
    NoProc = NoProc
    Hooks <- MCHooks2
    Clis <- MCClis
    Doctors = {}
    Entries <- MCEntry
    Foreigners <- MCBaselineFiles
INVARIANTS
    NoSpuriousLockdown
PROPERTIES
    AtomicUpdates
    LockdownSticky
SYMMETRY MCSymmetry
