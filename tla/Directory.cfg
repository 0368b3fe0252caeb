\* Directories with the name cache.
SPECIFICATION Spec
CONSTANTS
    p1 = p1
    p2 = p2
    p3 = p3
    d1 = d1
    d2 = d2
    f1 = f1
    f2 = f2
    a = a
    b = b
    None = None
CHECK_DEADLOCK FALSE
SYMMETRY Perms
INVARIANTS NamesRight CacheRight NoDeadlock
