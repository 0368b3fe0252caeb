\* Three ticks of 11 microseconds in a second, slews of one and of ten; and
\* callouts of up to four ticks; and a server that may never answer.
SPECIFICATION AnySpec
CONSTANTS
    HZ = 3
    TICK = 11
    TICKADJ = 1
    BIGADJ = 20
    Deltas <- SomeDeltas
    Times = {0, 1}
    MaxTicks = 20
    Fun = {f1, f2}
    ncallout = 3
    Ticks = {0, 2, 4}
    MaxLate = 2
    f1 = f1
    f2 = f2
    p1 = p1
    p2 = p2
CHECK_DEADLOCK FALSE
INVARIANTS TypeOK CalloutList
PROPERTIES Slews Called CallEnds
