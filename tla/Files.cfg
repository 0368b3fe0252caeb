\* The inode table and the mount list.
SPECIFICATION MCSpec
CONSTANTS
    Proc = {m1, m2}
    ninode = 5
    Files = {f1, f2}
    Others = {f3}
    Root = Root
    Cov = Cov
    Anon = Anon
    None = None
    Cwd = m2
    Nfs = FALSE
    Reach = {f1, f2, f3}
    Umounter = m1
    MaxRefs = 4
    m1 = m1
    m2 = m2
    p1 = p1
    p2 = p2
    p3 = p3
    f1 = f1
    f2 = f2
    f3 = f3
    s1 = s1
    s2 = s2
    s3 = s3
    v1 = v1
    v2 = v2
    v3 = v3
    d1 = d1
    d2 = d2
    d3 = d3
CHECK_DEADLOCK FALSE
SYMMETRY Perms
INVARIANTS InodesRight NoOrphans TablesRight
