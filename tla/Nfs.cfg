\* RPC calls with one handle and with two; one daemon and two.
SPECIFICATION MCSpec
CONSTANTS
    Proc = {p1, p2}
    Hard = {}
    MAXCLIENTS = 1
    retrys = 2
    RECVTRIES = 2
    Faults = {"send", "encode", "denied", "unavail"}
    MaxXid = 3
    QMax = 2
    h1 = h1
    h2 = h2
    s1 = s1
    n1 = n1
    n2 = n2
    n3 = n3
    Nfsd = {n1}
    Ops = {"create", "write", "remove", "link", "mkdir", "rmdir"}
    MAXDUPREQS = 2
    Late = FALSE
    Reboots = 0
    MaxCalls = 4
    MaxCopies = 2
    None = None
CHECK_DEADLOCK FALSE
SYMMETRY Perms
INVARIANTS CallIntact NobodyForgotten InstancesRight AckedKept NoFalseError
