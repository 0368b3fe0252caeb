\* Every instance of MCBufferCache, in one run.
CONSTANTS
    Proc = {p1, p2}
    Buf = {b1, b2}
    NoProc = NoProc
    NoBuf = NoBuf
    Block = {0, 1, 2}
    Call <- CallsEvery
    Total <- TotalAmple
    IoResult = {TRUE, FALSE}
SPECIFICATION AnySpec
SYMMETRY Symmetry
INVARIANTS Ownership NoLostWakeup CountsAddUp ReadsRight NothingLost FlushedOut
