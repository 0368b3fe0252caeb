\* A resource map of three segments and six units; a pipe of three bytes with
\* writes of two bytes and of more than it holds.
SPECIFICATION MCSpec
CONSTANTS
    Slots = 3
    Base = 1
    Units = 6
    None = None
    Proc = {p1, p2}
    PIPE_SIZE = 3
    Writes = {2, 5}
    Reads = {2}
    Delays = {TRUE, FALSE}
    ulimit = 5
    Faults = {"read", "write"}
    Events = {"in", "out"}
SYMMETRY Perms
INVARIANTS WellFormed Partition NeverBad PipeSleepers PipeKept
PROPERTIES ImplementsPool ImplementsQueue
