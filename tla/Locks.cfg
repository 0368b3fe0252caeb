\* Record locks: every shape of range, sleepers, and processes that wait for each other.
SPECIFICATION MCSpec
CONSTANTS
    Proc = {p1, p2, p3}
    None = NoProc
    MaxEnd = 2
    Recs = 6
    Requests <- OneByte
    q1 = q1
    q2 = q2
INVARIANTS ListRight SleepersFound Acyclic
PROPERTIES RangesAreTable WaitEnds
