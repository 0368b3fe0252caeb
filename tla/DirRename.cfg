\* The source of a rename to another directory is unlinked meanwhile.
SPECIFICATION Spec
CONSTANTS
    Proc = {p1, p2}
    Dir = {d1, d2}
    File = {f1}
    Name = {a}
    NSlots = 1
    MAXLINK = 3
    NcSize = 2
    Ops = {"creat", "unlink", "rename"}
    Alone = {}
    None = None
CHECK_DEADLOCK FALSE
SYMMETRY Perms
INVARIANTS EntriesLive
