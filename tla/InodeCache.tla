----------------------------- MODULE InodeCache -----------------------------
(***************************************************************************)
(* The inode table: iget, getinode, ialloc, iput, iunuse, iuncache, iflush *)
(* and the inode lock (src/sys/sys/fs_inode.c, src/sys/h/inode.h), with    *)
(* the part of mount and umount that uses it (src/sys/sys/fs_mount.c,      *)
(* src/sys/efs/efs_mount.c).                                               *)
(*                                                                         *)
(* A step is what a process does from one sleep to the next.  FS_IREAD and *)
(* the FS_IPUT of a last reference sleep; the FS_IPUT of a cached inode    *)
(* only frees memory.  The lock of a hash bucket is thus never held across *)
(* a sleep and has no state here.  One file system, with the root Root and *)
(* the files Files, is mounted on the directory Cov of another one; Others *)
(* are files of the latter.  A process has one inode at a time; the one in *)
(* Cwd begins with its current directory in the mounted file system.  The  *)
(* files of that are looked up from there, or by file handles (Nfs).       *)
(***************************************************************************)
EXTENDS Integers, FiniteSets, FiniteSetsExt, Sequences, SequencesExt

CONSTANTS
    Proc,       \* processes
    ninode,     \* size of the inode table
    Files,      \* inodes of the mounted file system, without its root
    Others,     \* inodes of the other one, without the covered directory
    Root, Cov,  \* the root of the mounted file system, the covered directory
    Anon,       \* what a checked-out inode is
    None,       \* no inode number, no process
    Cwd,        \* the process with its directory in the file system, or None
    Nfs,        \* is the file system exported
    Reach,      \* the inodes that processes look up
    Umounter,   \* the process that unmounts the file system, or None
    MaxRefs     \* bound: references of an inode

Ids == Files \cup Others \cup {Root, Cov}
Inode == 1 .. ninode
Mounted == Files \cup {Root}

\* What the constants have to satisfy; the MC modules assume it of theirs.
InodeCacheConstants ==
    /\ IsFiniteSet(Proc) /\ ninode \in Nat /\ ninode >= 2 /\ Reach \subseteq Ids /\ {Umounter, Cwd} \subseteq Proc \cup {None}
    /\ Nfs \in BOOLEAN /\ (Cwd # None => ninode > 2 /\ Files # {})
    /\ None \notin Proc \cup Ids /\ Anon \notin Ids \cup {None} /\ MaxRefs \in Nat \ {0}
    /\ Root # Cov /\ {Root, Cov} \cap (Files \cup Others) = {} /\ Files \cap Others = {}

VARIABLES
    ino,        \* the inode table
    free,       \* the free list, the next one to be used first
    mnt,        \* is the file system in the mount list
    cwd,        \* the current directory of Cwd, 0 when it has left
    pr          \* the processes

vars == <<ino, free, mnt, cwd, pr>>

\* The inodes of a mount: m_mount and m_inodp.
RootIp == 1
CovIp == 2
CwdFile == CHOOSE f \in Files : TRUE

FreeInode == [id |-> None, hash |-> "none", valid |-> FALSE, locked |-> FALSE, want |-> FALSE,
              error |-> FALSE, mount |-> FALSE, count |-> 0]
Busy(id) == [FreeInode EXCEPT !.id = id, !.hash = "on", !.count = 1]

\* REM_FREE: the free list F without inode i.
Off(F, i) == LET n == CHOOSE k \in DOMAIN F : F[k] = i
             IN  [k \in 1 .. Len(F) - 1 |-> IF k < n THEN F[k] ELSE F[k + 1]]

\* The file system has just been mounted: mountfs() keeps a reference to the
\* root and mount_insert() one to the covered directory.
Init ==
    /\ cwd \in (IF Cwd = None THEN {0} ELSE 3 .. ninode)
    /\ ino = [i \in Inode |-> IF i = RootIp THEN Busy(Root)
                              ELSE IF i = CovIp THEN [Busy(Cov) EXCEPT !.mount = TRUE]
                              ELSE IF i = cwd THEN Busy(CwdFile)
                              ELSE FreeInode]
    /\ LET all == [k \in 1 .. ninode - 2 |-> k + 2]
       IN  free = IF cwd = 0 THEN all ELSE Off(all, cwd)
    /\ mnt = TRUE
    /\ pr = [p \in Proc |-> [pc |-> "idle", i |-> 0, id |-> None, then |-> "held", um |-> "no"]]

----------------------------------------------------------------------------
(* The table.  These work on T, a record of the inodes and the free list. *)

Table == [ino |-> ino, free |-> free]

MutIuncache(T, i) == [ino |-> [T.ino EXCEPT ![i] = FreeInode], free |-> <<i>> \o T.free]

\* iuncache(): off its hash chain, to the head of the free list.
iuncache(T, i) ==
    [ino |-> [T.ino EXCEPT ![i] = FreeInode],
     free |-> <<i>> \o (IF T.ino[i].valid THEN Off(T.free, i) ELSE T.free)]

MutIalloc(T, id, h) ==
    [ino |-> [T.ino EXCEPT ![Head(T.free)] = [Busy(id) EXCEPT !.hash = h]], free |-> Tail(T.free)]

\* ialloc(): the inode at the head of the free list, whatever it was.
ialloc(T, id, h) ==
    [ino |-> [T.ino EXCEPT ![Head(T.free)] = [Busy(id) EXCEPT !.hash = h, !.locked = TRUE]],
     free |-> Tail(T.free)]

\* iput() after FS_IPUT: cached at the tail of the free list, or thrown out when
\* its type is not cached or it had an error.
Released(T, i) ==
    LET e == [T.ino[i] EXCEPT !.locked = FALSE, !.want = FALSE, !.count = 0]
        kept == [ino |-> [T.ino EXCEPT ![i] = [e EXCEPT !.valid = TRUE]],
                 free |-> Append(T.free, i)]
    IN  IF e.id = Anon THEN iuncache([T EXCEPT !.ino[i] = e], i)
        ELSE IF e.error THEN iuncache(kept, i)
        ELSE kept

SetTable(T) == ino' = T.ino /\ free' = T.free

MutWoken(P, i) == P

\* wakeup() by who unlocks inode i.  A sleeper in iget() has no reference.
Woken(P, i) ==
    [q \in Proc |-> IF P[q].i # i THEN P[q]
                    ELSE IF P[q].pc = "igetwait" THEN [P[q] EXCEPT !.pc = "iget"]
                    ELSE IF P[q].pc = "lockwait" THEN [P[q] EXCEPT !.pc = "lock"]
                    ELSE P[q]]

Unlocked(e) == [e EXCEPT !.locked = FALSE, !.want = FALSE]
Unref(e) == [e EXCEPT !.locked = FALSE, !.want = FALSE, !.count = @ - 1]

----------------------------------------------------------------------------
(* iget() and getinode() *)

MutHashed(id) == {i \in Inode : ino[i].hash = "on" /\ ino[i].id = id /\ ~ino[i].locked}

\* The search of a hash chain finds locked inodes as well.
Hashed(id) == {i \in Inode : ino[i].hash = "on" /\ ino[i].id = id}

\* ILOCK by p of inode i in T, to go on with what pr[p].then says.
Locks(T, p, i) ==
    IF T.ino[i].locked
    THEN SetTable([T EXCEPT !.ino[i].want = TRUE])
         /\ pr' = [pr EXCEPT ![p].pc = "lockwait", ![p].i = i, ![p].id = T.ino[i].id,
                             ![p].then = "held"]
    ELSE SetTable([T EXCEPT !.ino[i].locked = TRUE])
         /\ pr' = [pr EXCEPT ![p].pc = "held", ![p].i = i, ![p].id = T.ino[i].id]

\* A miss: FS_IREAD reads the new inode, which is locked.
IgetMiss(p, id) ==
    /\ Hashed(id) = {}
    /\ \/ /\ free = <<>> /\ pr[p].pc = "iget" /\ UNCHANGED <<ino, free>>
          /\ pr' = [pr EXCEPT ![p].pc = "idle", ![p].i = 0, ![p].id = None]
       \/ /\ free # <<>> /\ SetTable(ialloc(Table, id, "on"))
          /\ pr' = [pr EXCEPT ![p].pc = "reading", ![p].i = Head(free), ![p].id = id]

MutTakenFree(i) == [Table EXCEPT !.ino[i].valid = FALSE]

\* A cached inode leaves the free list.
TakenFree(i) ==
    IF ino[i].valid THEN [ino |-> [ino EXCEPT ![i].valid = FALSE], free |-> Off(free, i)]
    ELSE Table

\* A hit: wait for the lock and look again, go on to the root of what is mounted
\* here, or take it.
IgetHit(p, id) ==
    \E i \in Hashed(id) :
        LET T == TakenFree(i)
        IN  \/ /\ ino[i].locked /\ SetTable([T EXCEPT !.ino[i].want = TRUE])
               /\ pr' = [pr EXCEPT ![p].pc = "igetwait", ![p].i = i, ![p].id = id]
            \/ /\ ~ino[i].locked /\ ino[i].mount /\ ino[RootIp].count < MaxRefs
               /\ Locks([T EXCEPT !.ino[RootIp].count = @ + 1], p, RootIp)
            \/ /\ ~ino[i].locked /\ ~ino[i].mount /\ ino[i].count < MaxRefs
               /\ Locks([T EXCEPT !.ino[i].count = @ + 1], p, i)

\* What a process can look up: inodes of the file system from its directory
\* there, or by a file handle while the mount list has it.
Known(p, id) == id \in Reach /\ (id \in Mounted => (Nfs /\ mnt) \/ (p = Cwd /\ cwd # 0))

iget(p, id) ==
    /\ \/ pr[p].pc = "idle" /\ Known(p, id)
       \/ pr[p].pc = "iget" /\ id = pr[p].id
    /\ (IgetMiss(p, id) \/ IgetHit(p, id)) /\ UNCHANGED <<mnt, cwd>>

getinode(p) ==
    /\ pr[p].pc = "idle" /\ free # <<>> /\ SetTable(ialloc(Table, Anon, "null"))
    /\ pr' = [pr EXCEPT ![p].pc = "held", ![p].i = Head(free), ![p].id = Anon]
    /\ UNCHANGED <<mnt, cwd>>

----------------------------------------------------------------------------
(* ilock(), iunlock(), iput() and umount *)

\* What a process does when its iput() returns.  efs_umount() throws the root
\* out; mount_remove() has the mount off the list.
Returned(T, P, p) ==
    IF P[p].um = "root"
    THEN /\ SetTable(iuncache(T, RootIp)) /\ UNCHANGED mnt
         /\ pr' = [P EXCEPT ![p].pc = "closing", ![p].i = 0, ![p].id = None]
    ELSE /\ SetTable(T) /\ mnt' = (mnt /\ P[p].um # "covered")
         /\ pr' = [P EXCEPT ![p].pc = "idle", ![p].i = 0, ![p].id = None, ![p].um = "no"]

MutLast(e) == e.count > 0

\* Is this the last reference?
Last1(e) == e.count = 1

\* iput() by p, who has the lock of inode i.
iput(T, p, i) ==
    IF Last1(T.ino[i])
    THEN SetTable(T) /\ pr' = [pr EXCEPT ![p].pc = "putting", ![p].i = i] /\ UNCHANGED mnt
    ELSE Returned([T EXCEPT !.ino[i] = Unref(@)], Woken(pr, i), p)

\* FS_IPUT of the last reference is done.  No sleep from here to the end.
IputDone(p) ==
    /\ pr[p].pc = "putting"
    /\ Returned(Released(Table, pr[p].i), Woken(pr, pr[p].i), p) /\ UNCHANGED cwd

\* FS_IREAD is done; after an error the inode is put away.
IreadDone(p) ==
    /\ pr[p].pc = "reading"
    /\ \/ pr' = [pr EXCEPT ![p].pc = "held"] /\ UNCHANGED <<ino, free, mnt>>
       \/ iput([Table EXCEPT !.ino[pr[p].i].error = TRUE], p, pr[p].i)
    /\ UNCHANGED cwd

Put(p) == pr[p].pc = "held" /\ iput(Table, p, pr[p].i) /\ UNCHANGED cwd

iunlock(p) ==
    /\ pr[p].pc = "held" /\ ino' = [ino EXCEPT ![pr[p].i] = Unlocked(@)]
    /\ pr' = [Woken(pr, pr[p].i) EXCEPT ![p].pc = "used"] /\ UNCHANGED <<free, mnt, cwd>>

\* ILOCK: of a reference that is kept, or by iunuse() to put it away.
LockFor(p, i, then, um) ==
    IF ino[i].locked
    THEN /\ ino' = [ino EXCEPT ![i].want = TRUE] /\ UNCHANGED <<free, mnt>>
         /\ pr' = [pr EXCEPT ![p].pc = "lockwait", ![p].i = i, ![p].then = then, ![p].um = um]
    ELSE IF then = "held"
    THEN /\ ino' = [ino EXCEPT ![i].locked = TRUE] /\ UNCHANGED <<free, mnt>>
         /\ pr' = [pr EXCEPT ![p].pc = "held"]
    ELSE iput([Table EXCEPT !.ino[i].locked = TRUE], p, i)

ilock(p) == pr[p].pc = "used" /\ LockFor(p, pr[p].i, "held", "no") /\ UNCHANGED cwd
iunuse(p) == pr[p].pc = "used" /\ LockFor(p, pr[p].i, "put", "no") /\ UNCHANGED cwd
LockAgain(p) == pr[p].pc = "lock" /\ LockFor(p, pr[p].i, pr[p].then, pr[p].um) /\ UNCHANGED cwd

\* Cwd goes to another directory, and has yet to iunuse() the old one.
Chdir(p) ==
    /\ p = Cwd /\ pr[p].pc = "idle" /\ cwd # 0 /\ cwd' = 0
    /\ pr' = [pr EXCEPT ![p].pc = "used", ![p].i = cwd, ![p].id = CwdFile]
    /\ UNCHANGED <<ino, free, mnt>>

\* iflush(): the cached inodes before the first active one are thrown out.
Active(i) == ino[i].id \in Mounted /\ ~(i = RootIp /\ ino[i].count = 1)
             /\ (ino[i].count # 0 \/ ino[i].locked)
MutPurged == {}
Purged == {i \in Inode : /\ ino[i].id \in Mounted /\ ~Active(i) /\ i # RootIp
                         /\ \A j \in Inode : Active(j) => i < j}
Flushed == LET upto[n \in 0 .. ninode] ==
                 IF n = 0 THEN Table
                 ELSE IF n \in Purged THEN iuncache(upto[n - 1], n) ELSE upto[n - 1]
           IN  upto[ninode]

\* efs_umount(): EBUSY, or the reference to the root is put away.  Nobody has the
\* root locked who has not a reference, so that ilock() does not wait.
Umount(p) ==
    /\ p = Umounter /\ pr[p].pc = "idle" /\ mnt
    /\ IF \E i \in Inode : Active(i)
       THEN Purged # {} /\ SetTable(Flushed) /\ UNCHANGED pr
       ELSE /\ SetTable([Flushed EXCEPT !.ino[RootIp].locked = TRUE])
            /\ pr' = [pr EXCEPT ![p].pc = "putting", ![p].i = RootIp, ![p].id = Root, ![p].um = "root"]
    /\ UNCHANGED <<mnt, cwd>>

\* The device is closed; mount_remove() uncovers the directory.
MountRemove(p) ==
    LET T == [Table EXCEPT !.ino[CovIp].mount = FALSE]
    IN  /\ pr[p].pc = "closing" /\ UNCHANGED cwd
        /\ IF ino[CovIp].locked
           THEN /\ SetTable([T EXCEPT !.ino[CovIp].want = TRUE]) /\ UNCHANGED mnt
                /\ pr' = [pr EXCEPT ![p].pc = "lockwait", ![p].i = CovIp, ![p].id = Cov, ![p].then = "put",
                                    ![p].um = "covered"]
           ELSE IF Last1(ino[CovIp])
           THEN /\ SetTable([T EXCEPT !.ino[CovIp].locked = TRUE]) /\ UNCHANGED mnt
                /\ pr' = [pr EXCEPT ![p].pc = "putting", ![p].i = CovIp, ![p].id = Cov,
                                    ![p].um = "covered"]
           ELSE Returned([T EXCEPT !.ino[CovIp].count = @ - 1],
                         [pr EXCEPT ![p].um = "covered"], p)

Next ==
    \E p \in Proc :
        \/ \E id \in Ids : iget(p, id)
        \/ getinode(p) \/ IreadDone(p) \/ IputDone(p) \/ Put(p) \/ iunlock(p) \/ ilock(p)
        \/ iunuse(p) \/ LockAgain(p) \/ Chdir(p) \/ Umount(p) \/ MountRemove(p)

Spec == Init /\ [][Next]_vars

----------------------------------------------------------------------------
(* Properties *)

LockPcs == {"reading", "held", "putting"}
RefPcs == LockPcs \cup {"used", "lockwait", "lock"}

TypeOK ==
    /\ ino \in [Inode -> [id : Ids \cup {None, Anon}, hash : {"none", "null", "on"},
                          valid : BOOLEAN, locked : BOOLEAN, want : BOOLEAN, error : BOOLEAN,
                          mount : BOOLEAN, count : 0 .. MaxRefs]]
    /\ free \in Seq(Inode) /\ IsInjective(free) /\ mnt \in BOOLEAN /\ cwd \in 0 .. ninode
    /\ pr \in [Proc -> [pc : RefPcs \cup {"idle", "iget", "igetwait", "closing"}, i : 0 .. ninode,
                        id : Ids \cup {None, Anon}, then : {"held", "put"},
                        um : {"no", "root", "covered"}]]

\* "Between public operations an inode may be in only one of the following
\* states": free, checked-out, busy, cached (the comment of fs_inode.c).
InodeStates ==
    \A i \in Inode :
        LET e == ino[i]
            onfree == i \in ToSet(free)
        IN  \/ onfree /\ e = FreeInode
            \/ ~onfree /\ e.hash = "null" /\ e.count > 0
            \/ ~onfree /\ e.hash = "on" /\ e.id # None /\ ~e.valid /\ e.count > 0
            \/ onfree /\ e.hash = "on" /\ e.id # None /\ e.valid /\ e.count = 0

\* A file has one inode in the table, although several processes may miss it and
\* sleep while it is read.
OneInode ==
    \A i, j \in Inode :
        ino[i].hash = "on" /\ ino[j].hash = "on" /\ ino[i].id = ino[j].id => i = j

Umounting == Umounter # None /\ pr[Umounter].um # "no"
MountRefs(i) == (IF i = RootIp /\ mnt /\ ~Umounting THEN 1 ELSE 0)
                + (IF i = CovIp /\ mnt /\ ~(Umounting /\ pr[Umounter].um = "covered") THEN 1 ELSE 0)

\* i_count is the number of those who have the inode.
CountRefs ==
    \A i \in Inode :
        ino[i].count = MountRefs(i) + (IF i = cwd THEN 1 ELSE 0)
                       + Cardinality({p \in Proc : pr[p].i = i /\ pr[p].pc \in RefPcs})

\* Who has an inode keeps it: it is not reused for another file while he sleeps,
\* and one process at a time has it locked.
HeldKept ==
    /\ \A p \in Proc : pr[p].pc \in RefPcs => ino[pr[p].i].id = pr[p].id
    /\ \A i \in Inode :
         Cardinality({p \in Proc : pr[p].i = i /\ pr[p].pc \in LockPcs})
         = (IF ino[i].locked THEN 1 ELSE 0)

\* Who sleeps on an inode will be woken: somebody has it locked and knows.
NobodyForgotten ==
    \A p \in Proc : pr[p].pc \in {"igetwait", "lockwait"} =>
        ino[pr[p].i].locked /\ ino[pr[p].i].want

\* The table is right: an inode is free, checked-out, busy or cached, a file has
\* one, counts and locks are those of the processes, and no sleeper is forgotten.
InodesRight ==
    TypeOK /\ InodeStates /\ OneInode /\ CountRefs /\ HeldKept /\ NobodyForgotten

\* umount() fails when a file of the file system is busy: when it has succeeded,
\* no inode is left that refers to the mount structure, which has been freed.
NoOrphans == ~mnt => \A i \in Inode : ino[i].id \notin Mounted
=============================================================================
