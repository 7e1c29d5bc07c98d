SPECIFICATION Spec
CONSTANTS
    p1 = p1
    p2 = p2
    c1 = c1
    NoProc = NoProc
    Procs <- MCProcs
    Contents <- MCContents
    MaxLines = 3
SYMMETRY Symmetry
CHECK_DEADLOCK FALSE
INVARIANTS AckedDurable TamperEvident ReaderVerdictSound
