SPECIFICATION Spec
CONSTANTS
    h1 = h1
    h2 = h2
    c1 = c1
    d1 = d1
    e1 = e1
    e2 = e2
    NoProc = NoProc
    Hooks <- MCHooks1
    Clis = {}
    Doctors <- MCDoctors
    Entries <- MCEntry
    Foreigners <- MCSessionFile
PROPERTY LockedSaveKeeps
