------------------------------ MODULE MCFiles ------------------------------
(***************************************************************************)
(* InodeCache, a second instance of it and MountList for TLC.  use says    *)
(* which one a behaviour is of; the variables of the instances stay 0      *)
(* where they are not needed.  InodeCache itself, with the constants of    *)
(* the configuration, is the one where the file system is unmounted when a *)
(* process has left it, with inodes of it in the cache.                    *)
(***************************************************************************)
EXTENDS InodeCache, TLC

CONSTANTS m1, m2, p1, p2, p3, f1, f2, f3,   \* processes, files
          s1, s2, s3, v1, v2, v3,           \* mount structures and devices
          d1, d2, d3                        \* directories

Two   == {m1, m2}
Three == {p1, p2, p3}
Perms == Permutations(Three)

VARIABLES
    use, opr,
    tino, tfree, tmnt, tcwd,
    mount, mem, mnton, upd, todo

tabVars == <<tino, tfree, tmnt, tcwd>>
mntVars == <<mount, mem, mnton, upd, todo>>

NoTab == tino = 0 /\ tfree = 0 /\ tmnt = 0 /\ tcwd = 0
NoMnt == mount = 0 /\ mem = 0 /\ mnton = 0 /\ upd = 0 /\ todo = 0

\* Three processes use an inode table that is too small for them.
Crowded == INSTANCE InodeCache WITH Proc <- Three, ninode <- 4, Files <- {f1, f2}, Others <- {f3},
    Cwd <- None, Nfs <- TRUE, Reach <- {Cov, f1, f2, f3}, Umounter <- None, MaxRefs <- 4,
    ino <- tino, free <- tfree, mnt <- tmnt, cwd <- tcwd, pr <- opr

\* File systems are mounted and synced at any time; unmounting is alone.
Mounts == INSTANCE MountList WITH Proc <- Two, Struct <- {s1, s2, s3}, Dev <- {v1, v2, v3},
    Dir <- {d1, d2, d3}, Null <- None, Alias <- FALSE, Serial <- TRUE, pr <- opr

ASSUME InstanceConstants ==
    /\ InodeCacheConstants
    /\ Crowded!InodeCacheConstants
    /\ Mounts!MountListConstants

MCInit ==
    /\ Init
    /\ \/ use = "umount" /\ opr = 0      /\ NoTab /\ NoMnt
       \/ use = "table"  /\ Crowded!Init /\ NoMnt
       \/ use = "mounts" /\ Mounts!Init  /\ NoTab
    /\ use # "umount" => cwd = 3

MCNext ==
    /\ UNCHANGED use
    /\ \/ use = "umount" /\ Next         /\ UNCHANGED <<opr, tabVars, mntVars>>
       \/ use = "table"  /\ Crowded!Next /\ UNCHANGED <<vars, mntVars>>
       \/ use = "mounts" /\ Mounts!Next  /\ UNCHANGED <<vars, tabVars>>

MCSpec == MCInit /\ [][MCNext]_<<use, opr, vars, tabVars, mntVars>>

----------------------------------------------------------------------------
(* Properties, with InodesRight and NoOrphans of InodeCache.  The modules   *)
(* say what their parts are about.                                          *)

\* The inode table is right when it is too small, too.  The mount list has what is
\* mounted and nothing else, each device once, and a covered directory leads to the
\* file system that is mounted on it; update() comes to every file system that was
\* mounted when it began.
TablesRight ==
    /\ use = "table"  => Crowded!InodesRight
    /\ use = "mounts" => /\ Mounts!TypeOK /\ Mounts!ListRight /\ Mounts!OneMount
                         /\ Mounts!CoversRight /\ Mounts!SyncAll
============================================================================
