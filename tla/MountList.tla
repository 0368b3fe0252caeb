----------------------------- MODULE MountList -----------------------------
(***************************************************************************)
(* The list of mounted file systems (src/sys/sys/fs_mount.c) and update(), *)
(* the inside of sync, which goes through it (src/sys/sys/fs_subr.c).      *)
(*                                                                         *)
(* FS_MOUNT, FS_UMOUNT, FS_UPDATE and the iunuse() of a covered directory  *)
(* sleep; the steps of the model lie between them.  A mount structure that *)
(* is freed keeps its contents until calloc() gives it out again, and a    *)
(* null pointer that is followed ends the behaviour.  Two processes do not *)
(* unmount the same device at once.                                        *)
(***************************************************************************)
EXTENDS FiniteSets, Naturals

CONSTANTS
    Proc,       \* processes that mount and unmount
    Struct,     \* the places where malloc() puts a mount structure
    Dev, Dir,   \* devices, directories to mount them on
    Null,       \* the null pointer
    Alias,      \* has a device two special files
    Serial      \* does unmounting wait until nobody mounts, unmounts or syncs

\* What the constants have to satisfy; the MC modules assume it of theirs.
MountListConstants == Alias \in BOOLEAN /\ Serial \in BOOLEAN /\ Null \notin Struct \cup Dir

VARIABLES
    mount,      \* the head of the list
    mem,        \* the mount structures: m_dev, m_next, m_inodp and what they are
    mnton,      \* i_mnton of the directories
    pr,         \* the processes
    upd,        \* where update() is, "no" when it does not run
    todo        \* what update() has yet to see: mounted when it began, and since

vars == <<mount, mem, mnton, pr, upd, todo>>

Init ==
    /\ mount = Null /\ mnton = [d \in Dir |-> Null] /\ upd = "no" /\ todo = {}
    /\ mem = [s \in Struct |-> [dev |-> Null, next |-> Null, inodp |-> Null, st |-> "free"]]
    /\ pr = [p \in Proc |-> [pc |-> "idle", mp |-> Null, dir |-> Null, mpp |-> Null, rm |-> Null]]

----------------------------------------------------------------------------
(* The list.  A pointer to a link, mpp, is "head" or the structure it is in. *)

Deref(mpp) == IF mpp = "head" THEN mount ELSE mem[mpp].next

\* The structures that a walk from s meets; the walk of a broken list may not end.
From(s) ==
    LET step[k \in 0 .. Cardinality(Struct), S \in SUBSET Struct] ==
          IF k = 0 THEN S
          ELSE step[k - 1, S \cup {mem[x].next : x \in {y \in S : mem[y].next # Null}}]
    IN  IF s = Null THEN {} ELSE step[Cardinality(Struct), {s}]

MutMountFind(dev) == {mpp \in {"head"} : Deref(mpp) # Null /\ mem[Deref(mpp)].dev = dev}

\* mount_find(): the link that leads to the device, if any.
mount_find(dev) ==
    {mpp \in {"head"} \cup From(mount) : Deref(mpp) # Null /\ mem[Deref(mpp)].dev = dev}

Idle(p) == pr[p].pc = "idle"
Nobody(pcs) == \A p \in Proc : pr[p].pc \notin pcs
Finish(p) == pr' = [pr EXCEPT ![p] = [pc |-> "idle", mp |-> Null, dir |-> Null, mpp |-> Null, rm |-> Null]]

----------------------------------------------------------------------------
(* mount *)

\* smount() and mountfs() up to FS_MOUNT.  namei() gives the special file and the
\* directory locked; a directory with another reference is busy.
mountfs(p, dev, dir) ==
    /\ Idle(p) /\ mnton[dir] = Null /\ \A q \in Proc : pr[q].dir # dir
    /\ ~Alias => \A q \in Proc : pr[q].pc = "mounting" => mem[pr[q].mp].dev # dev
    /\ Serial => Nobody({"umounting", "removing"})
    /\ mount_find(dev) = {}
    /\ \E s \in Struct :
          /\ mem[s].st = "free"
          /\ mem' = [mem EXCEPT ![s] = [dev |-> dev, next |-> Null, inodp |-> Null, st |-> "new"]]
          /\ pr' = [pr EXCEPT ![p].pc = "mounting", ![p].mp = s, ![p].dir = dir]
    /\ UNCHANGED <<mount, mnton, upd, todo>>

\* No file system on the device.
MountFails(p) ==
    /\ pr[p].pc = "mounting" /\ mem' = [mem EXCEPT ![pr[p].mp].st = "free"] /\ Finish(p)
    /\ UNCHANGED <<mount, mnton, upd, todo>>

mount_insert(p) ==
    LET s == pr[p].mp IN
    /\ pr[p].pc = "mounting" /\ mount' = s
    /\ mem' = [mem EXCEPT ![s].inodp = pr[p].dir, ![s].next = mount, ![s].st = "listed"]
    /\ mnton' = [mnton EXCEPT ![pr[p].dir] = s] /\ Finish(p) /\ UNCHANGED <<upd, todo>>

----------------------------------------------------------------------------
(* umount *)

\* sumount() and umount() up to FS_UMOUNT.
sumount(p, dev) ==
    /\ Idle(p)
    /\ Serial => Nobody({"mounting", "umounting", "removing"}) /\ upd = "no"
    /\ \E mpp \in mount_find(dev) :
          /\ \A q \in Proc : pr[q].pc \in {"umounting", "removing"} => pr[q].mp # Deref(mpp)
          /\ pr' = [pr EXCEPT ![p].pc = "umounting", ![p].mpp = mpp, ![p].mp = Deref(mpp)]
    /\ UNCHANGED <<mount, mem, mnton, upd, todo>>

MutUmountFails(p) ==
    /\ pr[p].pc = "umounting" /\ pr' = [pr EXCEPT ![p].pc = "idle"]
    /\ UNCHANGED <<mount, mem, mnton, upd, todo>>

\* A file is busy.
UmountFails(p) ==
    /\ pr[p].pc = "umounting" /\ Finish(p) /\ UNCHANGED <<mount, mem, mnton, upd, todo>>

MutRemove(p) ==
    /\ pr[p].pc = "umounting" /\ Deref(pr[p].mpp) # Null
    /\ pr' = [pr EXCEPT ![p].pc = "removing", ![p].rm = Deref(pr[p].mpp)]
    /\ UNCHANGED <<mount, mem, mnton, upd, todo>>

\* mount_remove() of what the link leads to now, up to iunuse().
mount_remove(p) ==
    /\ pr[p].pc = "umounting"
    /\ LET s == Deref(pr[p].mpp) IN
       /\ s # Null
       /\ mnton' = [d \in Dir |-> IF d = mem[s].inodp THEN Null ELSE mnton[d]]
       /\ pr' = [pr EXCEPT ![p].pc = "removing", ![p].rm = s, ![p].dir = mem[s].inodp]
    /\ UNCHANGED <<mount, mem, upd, todo>>

MutUnlink(p) ==
    /\ pr[p].pc = "removing" /\ mount' = mem[pr[p].rm].next
    /\ mem' = [mem EXCEPT ![pr[p].mp].st = "free"]
    /\ todo' = todo \ {pr[p].mp} /\ Finish(p) /\ UNCHANGED <<mnton, upd>>

\* The end of mount_remove(), and free() of the structure umount() began with.
Unlink(p) ==
    LET n == mem[pr[p].rm].next
        m == [mem EXCEPT ![pr[p].mp].st = "free"]
    IN  /\ pr[p].pc = "removing"
        /\ IF pr[p].mpp = "head" THEN mount' = n /\ mem' = m
           ELSE mount' = mount /\ mem' = [m EXCEPT ![pr[p].mpp].next = n]
        /\ todo' = todo \ {pr[p].mp} /\ Finish(p) /\ UNCHANGED <<mnton, upd>>

----------------------------------------------------------------------------
(* update() *)

\* FS_UPDATE of the first file system begins.
update ==
    /\ upd = "no" /\ Serial => Nobody({"umounting", "removing"})
    /\ upd' = mount /\ todo' = From(mount) /\ UNCHANGED <<mount, mem, mnton, pr>>

MutUpdateNext ==
    /\ upd \in Struct /\ todo' = todo \ {upd} /\ UNCHANGED <<mount, mem, mnton, pr>>
    /\ upd' = (IF mem[upd].next = Null THEN Null ELSE mem[mem[upd].next].next)

UpdateNext ==
    /\ upd \in Struct /\ upd' = mem[upd].next /\ todo' = todo \ {upd}
    /\ UNCHANGED <<mount, mem, mnton, pr>>

UpdateEnds == upd = Null /\ upd' = "no" /\ UNCHANGED <<mount, mem, mnton, pr, todo>>

Next ==
    \/ \E p \in Proc :
         \/ \E dev \in Dev, dir \in Dir : mountfs(p, dev, dir)
         \/ \E dev \in Dev : sumount(p, dev)
         \/ MountFails(p) \/ mount_insert(p) \/ UmountFails(p) \/ mount_remove(p) \/ Unlink(p)
    \/ update \/ UpdateNext \/ UpdateEnds

Spec == Init /\ [][Next]_vars

----------------------------------------------------------------------------
(* Properties *)

Ptr == Struct \cup {Null}

TypeOK ==
    /\ mount \in Ptr /\ mnton \in [Dir -> Ptr] /\ upd \in Ptr \cup {"no"} /\ todo \subseteq Struct
    /\ mem \in [Struct -> [dev : Dev \cup {Null}, next : Ptr, inodp : Dir \cup {Null},
                           st : {"free", "new", "listed"}]]
    /\ pr \in [Proc -> [pc : {"idle", "mounting", "umounting", "removing"}, mp : Ptr, rm : Ptr,
                        dir : Dir \cup {Null}, mpp : Struct \cup {"head", Null}]]
    /\ \A p \in Proc : pr[p].mpp # Null <=> pr[p].pc \in {"umounting", "removing"}

\* umount() unlinks the structure of the file system that is unmounted, and frees
\* it: the list has what has been mounted and not unmounted, and nothing else.
ListRight == From(mount) = {s \in Struct : mem[s].st = "listed"}

\* A device is not mounted twice: mountfs() looks for it in the list first.
OneMount ==
    \A s, t \in Struct : mem[s].st = "listed" /\ mem[t].st = "listed" /\ mem[s].dev = mem[t].dev => s = t

\* A covered directory leads to a file system that is mounted on it.
CoversRight ==
    /\ \A d \in Dir : mnton[d] # Null => mem[mnton[d]].st = "listed" /\ mem[mnton[d]].inodp = d
    /\ \A s \in Struct :
          /\ mem[s].st = "listed"
          /\ \A p \in Proc : pr[p].pc = "removing" => pr[p].mp # s
          => mnton[mem[s].inodp] = s

\* update() goes through the mount table: it works on mounted file systems only.
SyncMounted == upd \in Struct => mem[upd].st = "listed"

\* update() comes to every file system that was mounted when it began, whatever is
\* mounted while it sleeps.
SyncAll == upd # "no" => todo \subseteq From(upd)
=============================================================================
