----------------------------- MODULE Directory -----------------------------
(***************************************************************************)
(* Names: looking up, creating, unlinking, linking and renaming the files  *)
(* of existing directories (src/sys/com/com_nami.c, com_dir.c), with the   *)
(* directory blocks (src/sys/bfs/bfs_dir.c), the pathname component cache  *)
(* (src/sys/com/com_pncc.c) and ilock2() (src/sys/sys/fs_inode.c).         *)
(*                                                                         *)
(* Directories are written only by who has them locked, but rename() reads *)
(* one that it has not.  A step ends where the code may sleep while that   *)
(* shows: before a lock, and between the cache and the directory block.    *)
(* A lock is waited for by not being able to go on; InodeCache has the     *)
(* sleeping and waking.  A directory has one block of a few slots, and     *)
(* which entry the cache discards when it is full is left open.            *)
(***************************************************************************)
EXTENDS Naturals, Sequences, SequencesExt, FiniteSets

CONSTANTS
    Proc,       \* processes
    Dir, File,  \* the inodes
    Name,       \* names of files
    NSlots,     \* bound: slots of a directory
    MAXLINK,    \* the most links of a file
    NcSize,     \* pncc_size, the entries of the cache
    Ops,        \* the system calls that are made
    Alone,      \* those of them that are made while no other is under way
    None        \* no process, no inode, no name

\* What the constants have to satisfy; the MC modules assume it of theirs.
DirectoryConstants ==
    /\ {NSlots, MAXLINK, NcSize} \subseteq Nat \ {0} /\ Dir \cap File = {}
    /\ None \notin Proc \cup Dir \cup File \cup Name
    /\ Ops \subseteq {"lookup", "creat", "unlink", "link", "rename"}

VARIABLES
    slot,       \* the directory blocks
    nlink,      \* i_nlink of the files
    lk,         \* who has an inode locked
    cache,      \* the name cache, latest entry first
    pr          \* the processes

vars == <<slot, nlink, lk, cache, pr>>

Slot == 1 .. NSlots
Empty == [name |-> None, ino |-> None]

\* struct entry: what a lookup has found (e_inum, e_offset, e_ncstat, nce_cap).
NoEntry == [ino |-> None, off |-> 0, hit |-> FALSE, cap |-> 0]

\* A process: its call, the directory and name it is about (d, n), those of the
\* source of a link or rename (fd, fn), entries e and fe found there, the inodes
\* f (source or new file) and t (found under n).  src: the source is looked up.
IdleProc == [pc |-> "idle", op |-> "lookup", src |-> FALSE, d |-> None, n |-> None, fd |-> None,
             fn |-> None, e |-> NoEntry, fe |-> NoEntry, f |-> None, t |-> None]

Init ==
    /\ slot = [d \in Dir |-> [k \in Slot |-> Empty]] /\ nlink = [f \in File |-> 0]
    /\ lk = [i \in Dir \cup File |-> None] /\ cache = <<>>
    /\ pr = [p \in Proc |-> IdleProc]

----------------------------------------------------------------------------
(* The name cache.  C is a cache. *)

MaxCap == NcSize + 2 * Cardinality(Proc)
UsedCaps == {cache[k].cap : k \in DOMAIN cache} \cup {pr[p].e.cap : p \in Proc}
            \cup {pr[p].fe.cap : p \in Proc}

\* pncc_newcap(): one that nobody has.
NewCap == CHOOSE c \in 1 .. MaxCap : c \notin UsedCaps

Hits(d, n) == {k \in DOMAIN cache : cache[k].d = d /\ cache[k].n = n}

\* pncc_lookup(): the entry nearest to the head of its chain, or a miss.
pncc_lookup(d, n) ==
    IF Hits(d, n) = {} THEN NoEntry
    ELSE LET k == CHOOSE k \in Hits(d, n) : \A j \in Hits(d, n) : k <= j
         IN  [ino |-> cache[k].ino, off |-> cache[k].off, hit |-> TRUE, cap |-> cache[k].cap]

\* pncc_enter(): the caches that it may leave.
pncc_enter(d, n, e) ==
    LET new == [d |-> d, n |-> n, ino |-> e.ino, off |-> e.off, cap |-> e.cap]
    IN  IF Len(cache) < NcSize THEN {<<new>> \o cache}
        ELSE {<<new>> \o RemoveAt(cache, k) : k \in DOMAIN cache}

MutNcRemove(C, e) == C

\* pncc_remove(), of an entry that came from the cache.
pncc_remove(C, e) == IF e.hit THEN SelectSeq(C, LAMBDA c : c.cap # e.cap) ELSE C

----------------------------------------------------------------------------
(* The directory block *)

At(d, n) == {k \in Slot : slot[d][k].ino # None /\ slot[d][k].name = n}
FreeSlots(d) == {k \in Slot : slot[d][k].ino = None}
First(S) == CHOOSE k \in S : \A j \in S : k <= j

MutNoFree(d, n) ==
    IF At(d, n) # {} THEN [NoEntry EXCEPT !.ino = slot[d][First(At(d, n))].ino, !.off = First(At(d, n))]
    ELSE [NoEntry EXCEPT !.off = 1]

MutStopsAtFree(d, n) ==
    LET free == First(FreeSlots(d) \cup {NSlots + 1})
        at == {k \in At(d, n) : k < free}
    IN  IF at # {} THEN [NoEntry EXCEPT !.ino = slot[d][First(at)].ino, !.off = First(at)]
        ELSE [NoEntry EXCEPT !.off = free]

\* DIR_LOOKUP: the entry of the name, or inode 0 at the first free slot, which is
\* after the last one when the directory has to grow.
bell_lookup(d, n) ==
    IF At(d, n) # {} THEN [NoEntry EXCEPT !.ino = slot[d][First(At(d, n))].ino, !.off = First(At(d, n))]
    ELSE [NoEntry EXCEPT !.off = First(FreeSlots(d) \cup {NSlots + 1})]

\* DIR_ENTER: is the slot free, or has it the name?
MayEnter(d, n, e) == e.off \in Slot /\ slot[d][e.off].name \in {None, n}

\* DIR_REMOVE: is this still the entry?  An offset behind the last slot makes the
\* directory grow by a cleared slot, which inode 0 matches, unless the disk is full.
MayRemove(d, e) ==
    IF e.off \in Slot THEN {slot[d][e.off].ino = e.ino} ELSE {FALSE, e.ino = None}

----------------------------------------------------------------------------
(* Processes *)

Go(p, pc) == pr' = [pr EXCEPT ![p].pc = pc]
End(p) == pr' = [pr EXCEPT ![p] = IdleProc]
FreeLk(i) == lk[i] = None
Locks(p, i) == lk' = [lk EXCEPT ![i] = p]
Unlocks(S) == lk' = [i \in DOMAIN lk |-> IF i \in S THEN None ELSE lk[i]]

Idle == \A p \in Proc : pr[p].pc = "idle"
CurDir(r) == IF r.src THEN r.fd ELSE r.d
CurName(r) == IF r.src THEN r.fn ELSE r.n

\* A call begins: link() and rename() look up their source first.
Begin(p, op, d, n, fd, fn) ==
    /\ pr[p].pc = "idle" /\ op \in Ops
    /\ op \in Alone => Idle
    /\ \A q \in Proc : pr[q].pc # "idle" => pr[q].op \notin Alone
    /\ op \in {"link", "rename"} \/ (fd = d /\ fn = n)
    /\ pr' = [pr EXCEPT ![p] = [IdleProc EXCEPT !.pc = "dir", !.op = op, !.d = d, !.n = n, !.fd = fd,
                                                !.fn = fn, !.src = op \in {"link", "rename"}]]
    /\ UNCHANGED <<slot, nlink, lk, cache>>

MutFound(d, n) == bell_lookup(d, n)

\* dirlookup() up to iget(): the cache, then the directory.
Found(d, n) == IF Hits(d, n) # {} THEN pncc_lookup(d, n) ELSE bell_lookup(d, n)

\* com_namei() has the directory.  Without the name, there is nothing to look up
\* or unlink; creat goes on to make a file, link and rename to link the source.
dirlookup(p) ==
    LET r == pr[p]
        e == Found(CurDir(r), CurName(r))
        next == IF r.op = "creat" THEN "ialloc" ELSE IF r.op = "link" THEN "ilock2" ELSE "source"
    IN  /\ r.pc = "dir" /\ FreeLk(CurDir(r)) /\ UNCHANGED <<slot, nlink, cache>>
        /\ \/ /\ e.ino # None /\ Locks(p, CurDir(r))
              /\ pr' = [pr EXCEPT ![p].pc = "iget", ![p].e = e]
           \/ /\ e.ino = None /\ ~r.src /\ r.op \notin {"lookup", "unlink"} /\ Locks(p, r.d)
              /\ pr' = [pr EXCEPT ![p].pc = next, ![p].e = e]
           \/ e.ino = None /\ (r.src \/ r.op \in {"lookup", "unlink"}) /\ End(p) /\ UNCHANGED lk

\* The rest of dirlookup(): a name that was not cached is entered.  The source of
\* a link or rename is left unlocked, the file that lookup or creat has found is
\* returned locked.  An inode without links shows that the directory is corrupted.
Iget(p) ==
    LET r == pr[p]
        f == r.e.ino
        e == IF r.e.hit THEN r.e ELSE [r.e EXCEPT !.hit = TRUE, !.cap = NewCap]
        new == [r EXCEPT !.e = e, !.t = f]
    IN  /\ r.pc = "iget" /\ FreeLk(f) /\ UNCHANGED <<slot, nlink>>
        /\ IF r.e.hit \/ nlink[f] = 0 THEN UNCHANGED cache
           ELSE cache' \in pncc_enter(CurDir(r), CurName(r), e)
        /\ IF nlink[f] = 0 THEN Unlocks({CurDir(r)}) /\ End(p)
           ELSE \/ /\ r.src /\ Unlocks({r.fd})
                   /\ pr' = [pr EXCEPT ![p] = [r EXCEPT !.pc = "dir", !.src = FALSE, !.f = f, !.e = NoEntry]]
                \/ /\ ~r.src /\ r.op \in {"lookup", "creat"} /\ lk' = [lk EXCEPT ![r.d] = None, ![f] = p]
                   /\ pr' = [pr EXCEPT ![p] = [new EXCEPT !.pc = "have"]]
                \/ ~r.src /\ (r.op = "link" \/ (r.op = "rename" /\ r.f = f)) /\ Unlocks({r.d}) /\ End(p)
                \/ /\ r.op = "unlink" /\ Locks(p, f)
                   /\ pr' = [pr EXCEPT ![p] = [new EXCEPT !.pc = "uncache"]]
                \/ /\ ~r.src /\ r.op = "rename" /\ r.f # f /\ Locks(p, f)
                   /\ pr' = [pr EXCEPT ![p] = [new EXCEPT !.pc = "source"]]

\* The caller of namei() is done with the file.
Release(p) ==
    pr[p].pc = "have" /\ Unlocks({pr[p].t}) /\ End(p) /\ UNCHANGED <<slot, nlink, cache>>

\* FS_IALLOC: an inode that is free.
Ialloc(p) ==
    /\ pr[p].pc = "ialloc"
    /\ \E f \in File :
          /\ nlink[f] = 0 /\ FreeLk(f) /\ \A q \in Proc : f \notin {pr[q].f, pr[q].t}
          /\ nlink' = [nlink EXCEPT ![f] = 1] /\ Locks(p, f)
          /\ pr' = [pr EXCEPT ![p].pc = "enter", ![p].f = f]
    /\ UNCHANGED <<slot, cache>>

MutIlock2(p) ==
    LET r == pr[p]
        f == r.f
    IN  /\ UNCHANGED <<slot, nlink, cache>>
        /\ \/ /\ r.pc = "ilock2" /\ FreeLk(f) /\ Locks(p, f) /\ Go(p, "enter")
           \/ /\ r.pc = "ilock2" /\ ~FreeLk(f) /\ Unlocks({r.d}) /\ Go(p, "l2file")
           \/ /\ r.pc = "l2file" /\ FreeLk(f) /\ Locks(p, f) /\ Go(p, "l2dir")
           \/ /\ r.pc = "l2dir" /\ FreeLk(r.d) /\ Locks(p, r.d) /\ Go(p, "enter")

\* ilock2(): to lock the source file, who has the directory locked.
ilock2(p) ==
    LET r == pr[p]
        f == r.f
    IN  /\ UNCHANGED <<slot, nlink, cache>>
        /\ \/ /\ r.pc = "ilock2" /\ FreeLk(f) /\ Locks(p, f) /\ Go(p, "enter")
           \/ /\ r.pc = "ilock2" /\ ~FreeLk(f) /\ Unlocks({r.d}) /\ Go(p, "l2file")
           \/ /\ r.pc = "l2file" /\ FreeLk(f) /\ FreeLk(r.d)
              /\ lk' = [lk EXCEPT ![f] = p, ![r.d] = p] /\ Go(p, "enter")
           \/ /\ r.pc = "l2file" /\ FreeLk(f) /\ ~FreeLk(r.d) /\ Go(p, "l2dir") /\ UNCHANGED lk
           \/ /\ r.pc = "l2dir" /\ FreeLk(r.d) /\ FreeLk(f)
              /\ lk' = [lk EXCEPT ![f] = p, ![r.d] = p] /\ Go(p, "enter")
           \/ /\ r.pc = "l2dir" /\ FreeLk(r.d) /\ ~FreeLk(f) /\ Go(p, "l2file") /\ UNCHANGED lk

\* dorename() takes the name of an old target out of the cache.
Purged(C, r) == IF r.t = None THEN C ELSE pncc_remove(C, r.e)

MutSourceHit(p) ==
    LET r == pr[p] IN
    /\ r.pc = "source" /\ Hits(r.fd, r.fn) # {}
    /\ pr' = [pr EXCEPT ![p].pc = "ilock2", ![p].fe = pncc_lookup(r.fd, r.fn)]
    /\ IF r.t = None THEN UNCHANGED <<slot, nlink>>
       ELSE slot' = [slot EXCEPT ![r.d][r.e.off] = Empty] /\ nlink' = [nlink EXCEPT ![r.t] = @ - 1]
    /\ cache' = Purged(cache, r) /\ UNCHANGED lk

\* com_rename() looks the source up again, whose directory it need not have
\* locked: in the cache, or in the directory, which takes a while.
SourceHit(p) ==
    LET r == pr[p] IN
    /\ r.pc = "source" /\ Hits(r.fd, r.fn) # {}
    /\ pr' = [pr EXCEPT ![p].pc = "ilock2", ![p].fe = pncc_lookup(r.fd, r.fn)]
    /\ cache' = Purged(cache, r) /\ UNCHANGED <<slot, nlink, lk>>

SourceMiss(p) ==
    /\ pr[p].pc = "source" /\ Hits(pr[p].fd, pr[p].fn) = {} /\ Go(p, "scan")
    /\ UNCHANGED <<slot, nlink, lk, cache>>

\* A name that has been found is entered in the cache.
Scan(p) ==
    LET r == pr[p]
        s == bell_lookup(r.fd, r.fn)
        fe == IF s.ino = None THEN s ELSE [s EXCEPT !.hit = TRUE, !.cap = NewCap]
    IN  /\ r.pc = "scan" /\ pr' = [pr EXCEPT ![p].pc = "ilock2", ![p].fe = fe]
        /\ cache' \in {Purged(C, r) : C \in IF s.ino = None THEN {cache} ELSE pncc_enter(r.fd, r.fn, fe)}
        /\ UNCHANGED <<slot, nlink, lk>>

MutCanEnter(r) == MayEnter(r.d, r.n, r.e)

\* com_link() and DIR_ENTER: not too many links, and no other entry there.
CanEnter(r) == (r.op = "creat" \/ nlink[r.f] < MAXLINK) /\ MayEnter(r.d, r.n, r.e)

\* direnter() up to the end of DIR_ENTER, with the slot that was found above.
direnter(p) ==
    LET r == pr[p] IN
    /\ r.pc = "enter" /\ CanEnter(r)
    /\ slot' = [slot EXCEPT ![r.d][r.e.off] = [name |-> r.n, ino |-> r.f]] /\ Go(p, "entered")
    /\ UNCHANGED <<nlink, lk, cache>>

\* There is another entry, or no room.  A new inode is given up.
EnterFails(p) ==
    LET r == pr[p] IN
    /\ r.pc = "enter" /\ ~CanEnter(r)
    /\ nlink' = (IF r.op = "creat" THEN [nlink EXCEPT ![r.f] = 0] ELSE nlink)
    /\ Unlocks({r.d, r.f, r.t}) /\ End(p) /\ UNCHANGED <<slot, cache>>

MutEntered(p) ==
    LET r == pr[p] IN
    /\ r.pc = "entered" /\ UNCHANGED <<slot, cache>>
    /\ nlink' = (IF r.op = "creat" THEN nlink ELSE [nlink EXCEPT ![r.f] = @ + 1])
    /\ Unlocks({r.d, r.f, r.t})
    /\ IF r.op = "rename" THEN Go(p, "fdir") ELSE End(p)

\* The name is cached, and the links are counted: of the source, and of the file
\* whose entry rename() has overwritten.
Entered(p) ==
    LET r == pr[p]
        e == [r.e EXCEPT !.ino = r.f, !.hit = TRUE, !.cap = NewCap]
    IN  /\ r.pc = "entered" /\ UNCHANGED slot
        /\ IF r.e.hit THEN UNCHANGED cache ELSE cache' \in pncc_enter(r.d, r.n, e)
        /\ nlink' = [f \in File |-> nlink[f] + (IF f = r.f /\ r.op # "creat" THEN 1 ELSE 0)
                                             - (IF f = r.t THEN 1 ELSE 0)]
        /\ IF r.op = "creat" THEN Unlocks({r.d}) ELSE Unlocks({r.d, r.f, r.t})
        /\ \/ r.op = "creat" /\ pr' = [pr EXCEPT ![p].pc = "have", ![p].t = r.f]
           \/ r.op = "link" /\ End(p)
           \/ r.op = "rename" /\ Go(p, "fdir")

\* dorename() takes the source away: its directory, then the file.
LockFrom(p) ==
    LET r == pr[p] IN
    /\ UNCHANGED <<slot, nlink, cache>>
    /\ \/ r.pc = "fdir" /\ FreeLk(r.fd) /\ Locks(p, r.fd) /\ Go(p, "ffile")
       \/ r.pc = "ffile" /\ FreeLk(r.f) /\ Locks(p, r.f) /\ Go(p, "uncache")

DelDir(r) == IF r.op = "unlink" THEN r.d ELSE r.fd
DelEntry(r) == IF r.op = "unlink" THEN r.e ELSE r.fe
DelFile(r) == IF r.op = "unlink" THEN r.t ELSE r.f

\* com_del(): dirremove() up to DIR_REMOVE.
dirremove(p) ==
    /\ pr[p].pc = "uncache" /\ cache' = pncc_remove(cache, DelEntry(pr[p])) /\ Go(p, "remove")
    /\ UNCHANGED <<slot, nlink, lk>>

\* DIR_REMOVE and the end of com_del(); an entry that has changed is left alone.
com_del(p) ==
    LET r == pr[p]
        d == DelDir(r)
        f == DelFile(r)
        off == DelEntry(r).off
    IN  /\ r.pc = "remove" /\ Unlocks({d, f}) /\ UNCHANGED cache
        /\ \E ok \in MayRemove(d, DelEntry(r)) :
            /\ slot' = (IF ok /\ off \in Slot THEN [slot EXCEPT ![d][off] = Empty] ELSE slot)
            /\ nlink' = (IF ok THEN [nlink EXCEPT ![f] = @ - 1] ELSE nlink)
        /\ IF r.op = "rename" /\ r.t # None THEN Go(p, "tdir") ELSE End(p)

\* dorename() locks the target again, for its callers to release.
Relock(p) ==
    LET r == pr[p] IN
    /\ UNCHANGED <<slot, nlink, cache>>
    /\ \/ r.pc = "tdir" /\ FreeLk(r.d) /\ Locks(p, r.d) /\ Go(p, "tfile")
       \/ r.pc = "tfile" /\ FreeLk(r.t) /\ Unlocks({r.d}) /\ End(p)

Next ==
    \E p \in Proc :
        \/ \E op \in Ops, d, fd \in Dir, n, fn \in Name : Begin(p, op, d, n, fd, fn)
        \/ dirlookup(p) \/ Iget(p) \/ Release(p) \/ Ialloc(p) \/ ilock2(p)
        \/ SourceHit(p) \/ SourceMiss(p) \/ Scan(p) \/ direnter(p) \/ EnterFails(p)
        \/ Entered(p) \/ LockFrom(p) \/ dirremove(p) \/ com_del(p) \/ Relock(p)

Spec == Init /\ [][Next]_vars

----------------------------------------------------------------------------
(* Properties *)

Ino == Dir \cup File
Entry == [ino : File \cup {None}, off : 0 .. NSlots + 1, hit : BOOLEAN, cap : 0 .. MaxCap]
Pcs == {"idle", "dir", "iget", "have", "ialloc", "ilock2", "l2file", "l2dir", "source", "scan",
        "enter", "entered", "fdir", "ffile", "uncache", "remove", "tdir", "tfile"}

TypeOK ==
    /\ slot \in [Dir -> [Slot -> [name : Name \cup {None}, ino : File \cup {None}]]]
    /\ nlink \in [File -> 0 .. MAXLINK]
    /\ lk \in [Ino -> Proc \cup {None}]
    /\ cache \in Seq([d : Dir, n : Name, ino : File, off : Slot, cap : 1 .. MaxCap]) /\ Len(cache) <= NcSize
    /\ pr \in [Proc -> [pc : Pcs, op : {"lookup", "creat", "unlink", "link", "rename"}, src : BOOLEAN,
                        d : Dir \cup {None}, n : Name \cup {None}, fd : Dir \cup {None},
                        fn : Name \cup {None}, e : Entry, fe : Entry, f : File \cup {None},
                        t : File \cup {None}]]

\* A directory has a name once.
NamesUnique == \A d \in Dir, n \in Name : Cardinality(At(d, n)) <= 1

\* i_nlink is the number of entries of the file, except for calls that have just
\* written an entry and not yet the count, or the other way round.
LinkCount ==
    \A f \in File :
        nlink[f] + Cardinality({p \in Proc : pr[p].pc = "entered" /\ pr[p].op # "creat" /\ pr[p].f = f})
        = Cardinality({<<d, k>> \in Dir \X Slot : slot[d][k].ino = f})
          + Cardinality({p \in Proc : pr[p].pc = "enter" /\ pr[p].op = "creat" /\ pr[p].f = f})
          + Cardinality({p \in Proc : pr[p].pc = "entered" /\ pr[p].t = f})

\* A file that has a name has links, and is not thrown away.
EntriesLive ==
    \A d \in Dir, k \in Slot : slot[d][k].ino # None /\ nlink[slot[d][k].ino] = 0 =>
        \E p \in Proc : pr[p].pc = "entered" /\ pr[p].f = slot[d][k].ino

\* "Upon a cache hit, the user may call iget()": what the cache has is in the
\* directory, at every moment.
CacheTrue ==
    \A k \in DOMAIN cache : slot[cache[k].d][cache[k].off] = [name |-> cache[k].n, ino |-> cache[k].ino]

\* A name is in the cache once, so that removing the entry a lookup found removes it.
CacheOnce == \A d \in Dir, n \in Name : Cardinality(Hits(d, n)) <= 1

\* "DIR_LOOKUP had set ep->e_dlres to describe empty space for a new entry": who is
\* about to enter a name has an empty slot, or in rename() the one of its target.
EnterEmpty ==
    \A p \in Proc : pr[p].pc = "enter" /\ pr[p].e.off \in Slot =>
        slot[pr[p].d][pr[p].e.off].ino \in {None, pr[p].t}

Wants(p) ==
    LET r == pr[p] IN
    CASE r.pc = "dir" -> {CurDir(r)}
      [] r.pc = "iget" -> {r.e.ino}
      [] r.pc \in {"l2file", "ffile"} -> {r.f}
      [] r.pc \in {"l2dir", "tdir"} -> {r.d}
      [] r.pc = "fdir" -> {r.fd}
      [] r.pc = "tfile" -> {r.t}
      [] OTHER -> {}

\* ilock2() locks "without deadlocking": there is no set of processes that all wait
\* for locks of each other.
NoDeadlock ==
    \A S \in (SUBSET Proc) \ {{}} :
        \E p \in S : Wants(p) = {} \/ \E i \in Wants(p) : lk[i] \notin S

\* rename() "guarantees that an instance of to will always exist, even if the system
\* should crash in the middle".
ToExists == \A p \in Proc : pr[p].op = "rename" /\ pr[p].t # None => At(pr[p].d, pr[p].n) # {}
=============================================================================
