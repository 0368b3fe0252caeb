CONSTANTS
    Proc = {p1, p2}
    Buf = {b1, b2}
    NoProc = NoProc
    NoBuf = NoBuf
    Block = {0, 1, 2}
    Call <- CallsContents
    Total <- TotalAmple
    IoResult = {TRUE}
SPECIFICATION Spec
SYMMETRY Symmetry
INVARIANTS
    CachedOnce
