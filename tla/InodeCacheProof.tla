--------------------------- MODULE InodeCacheProof ---------------------------
(***************************************************************************)
(* The inode table: for any number of processes, inodes and files, it is   *)
(* right and umount() leaves no inode behind, whoever sleeps where, as     *)
(* long as nobody reaches the root of a file system that is unmounted by   *)
(* its covered directory or a file handle (NoRace).                        *)
(***************************************************************************)
EXTENDS InodeCache, FiniteSetTheorems, SequenceTheorems, WellFoundedInduction, TLAPS

-----------------------------------------------------------------------------
(* The inductive invariant. *)

\* No file system is unmounted while its root can be reached from outside: by the
\* covered directory, or by file handles.
NoRace == Umounter # None => Cov \notin Reach /\ ~Nfs

\* An inode of the table, and what its count, hash and flags say of each other.
Entry == [id : Ids \cup {None, Anon}, hash : {"none", "null", "on"},
          valid : BOOLEAN, locked : BOOLEAN, want : BOOLEAN, error : BOOLEAN,
          mount : BOOLEAN, count : 0 .. MaxRefs]

EntryOK(e) ==
    /\ e.count = 0 => e = FreeInode \/ (e.hash = "on" /\ e.valid)
    /\ e.count > 0 => e.hash \in {"null", "on"} /\ ~e.valid
    /\ e.hash = "on" <=> e.id \in Ids
    /\ e.hash = "null" <=> e.id = Anon

\* The inodes that are not in use.
Idle0 == {i \in Inode : ino[i].count = 0}

\* The list s has each of S once, and nothing else.
Lists(s, S) ==
    /\ s \in Seq(Inode)
    /\ \A i, j \in DOMAIN s : s[i] = s[j] => i = j
    /\ \A b \in S : \E i \in DOMAIN s : s[i] = b
    /\ \A i \in DOMAIN s : s[i] \in S

\* Who has inode i, and what the mount and the current directory have of it.
Refs(i) == {p \in Proc : pr[p].i = i /\ pr[p].pc \in RefPcs}
Pins(i) == MountRefs(i) + (IF i = cwd THEN 1 ELSE 0)

\* What process p counts on, at the place where it is.
ProcOK(p) ==
    LET e == ino[pr[p].i] IN
    /\ pr[p].pc \in RefPcs \cup {"igetwait"} => pr[p].i \in Inode
    /\ pr[p].pc \in RefPcs => e.id = pr[p].id
    /\ pr[p].pc \in LockPcs => e.locked
    /\ pr[p].pc \in {"reading", "putting"} => e.count = 1
    /\ pr[p].pc \in {"igetwait", "lockwait"} => e.locked /\ e.want
    /\ pr[p].pc \in {"iget", "igetwait"} =>
          /\ pr[p].id \in Reach
          /\ pr[p].id \in Mounted => Nfs \/ (p = Cwd /\ cwd # 0)

\* Only the unmounting process unmounts: first the root, then the covered directory.
UmOK(p) ==
    /\ pr[p].um # "no" => p = Umounter
    /\ pr[p].um = "root" => (pr[p].pc = "putting" /\ pr[p].i = RootIp) \/ pr[p].pc = "closing"
    /\ pr[p].um = "covered" => /\ pr[p].pc \in {"lockwait", "lock", "putting"} /\ pr[p].i = CovIp
                               /\ pr[p].pc # "putting" => pr[p].then = "put"
    /\ pr[p].pc = "closing" => pr[p].um = "root"

\* A locked inode has one locker.
LockOK(i) ==
    /\ ino[i].locked => \E p \in Proc : pr[p].i = i /\ pr[p].pc \in LockPcs
    /\ \A p, q \in Proc : pr[p].i = i /\ pr[p].pc \in LockPcs /\ pr[q].i = i /\ pr[q].pc \in LockPcs => p = q

\* How far the unmount has come.
Um == IF Umounter = None THEN "no" ELSE pr[Umounter].um
RootThere == mnt /\ (Um = "no" \/ (Um = "root" /\ pr[Umounter].pc = "putting"))
\* What is in the table of the file system and its mount, at each stage of the unmount.
PhaseOK ==
    /\ RootThere => ino[RootIp].id = Root /\ ~ino[RootIp].error
    /\ ~RootThere => \A i \in Inode : ino[i].id \notin Mounted
    /\ Um = "root" => mnt /\ \A i \in Inode \ {RootIp} : ino[i].id \notin Mounted
    /\ mnt /\ Um # "covered" => ino[CovIp].id = Cov
    /\ ~(mnt /\ Um # "covered") => ~ino[CovIp].mount
    /\ Um = "covered" \/ Umounter = None => mnt
    /\ \A i \in Inode \ {CovIp} : ~ino[i].mount
    /\ cwd # 0 => /\ Cwd # None /\ cwd \in Inode /\ mnt /\ Um = "no" /\ ino[cwd].id = CwdFile

\* The inductive invariant.
Inv ==
    /\ InodeCacheConstants /\ NoRace
    /\ ino \in [Inode -> Entry] /\ mnt \in BOOLEAN /\ cwd \in 0 .. ninode
    /\ pr \in [Proc -> [pc : RefPcs \cup {"idle", "iget", "igetwait", "closing"}, i : 0 .. ninode,
                        id : Ids \cup {None, Anon}, then : {"held", "put"},
                        um : {"no", "root", "covered"}]]
    /\ Lists(free, Idle0)
    /\ \A i \in Inode : EntryOK(ino[i]) /\ LockOK(i)
    /\ \A i \in Inode : ino[i].count = Pins(i) + Cardinality(Refs(i))
    /\ \A p \in Proc : ProcOK(p) /\ UmOK(p)
    /\ OneInode
    /\ PhaseOK

-----------------------------------------------------------------------------
(* The free list. *)

LEMMA OffLists ==
    ASSUME NEW F, NEW S, NEW b \in S, Lists(F, S)
    PROVE  Lists(Off(F, b), S \ {b})
<1> DEFINE k == CHOOSE i \in DOMAIN F : F[i] = b
           n == Len(F)
           w == Off(F, b)
<1>1. k \in 1 .. n /\ F[k] = b /\ n \in Nat /\ DOMAIN F = 1 .. n
    BY DEF Lists
<1>2. w = [i \in 1 .. n - 1 |-> IF i < k THEN F[i] ELSE F[i + 1]]
    BY DEF Off
<1> HIDE DEF k, n, w
<1>3. w \in Seq(Inode) /\ DOMAIN w = 1 .. n - 1
    <2>1. \A i \in 1 .. n - 1 : w[i] \in Inode
        BY <1>1, <1>2 DEF Lists
    <2>2. w \in [1 .. n - 1 -> Inode] /\ n - 1 \in Nat
        BY <1>1, <1>2, <2>1
    <2> QED BY <2>2
<1>4. \A i \in 1 .. n - 1 : \/ i < k /\ i \in 1 .. n /\ w[i] = F[i]
                            \/ i >= k /\ i + 1 \in 1 .. n /\ w[i] = F[i + 1]
    BY <1>1, <1>2
<1>5. \A i, j \in 1 .. n : F[i] = F[j] => i = j
    BY <1>1 DEF Lists
<1>6. \A i, j \in DOMAIN w : w[i] = w[j] => i = j
    <2> SUFFICES ASSUME NEW i \in 1 .. n - 1, NEW j \in 1 .. n - 1, w[i] = w[j] PROVE i = j
        BY <1>3
    <2> QED BY <1>1, <1>4, <1>5
<1>7. \A i \in DOMAIN w : w[i] \in S \ {b}
    <2> SUFFICES ASSUME NEW i \in 1 .. n - 1 PROVE w[i] \in S \ {b}
        BY <1>3
    <2>1. PICK j \in 1 .. n : j # k /\ w[i] = F[j]
        BY <1>1, <1>4
    <2>2. F[j] \in S
        BY <1>1 DEF Lists
    <2> QED BY <1>1, <1>5, <2>1, <2>2
<1>8. \A c \in S \ {b} : \E i \in DOMAIN w : w[i] = c
    <2> SUFFICES ASSUME NEW c \in S \ {b} PROVE \E i \in DOMAIN w : w[i] = c
        OBVIOUS
    <2>1. PICK i \in 1 .. n : F[i] = c
        BY <1>1 DEF Lists
    <2>2. i # k
        BY <1>1, <2>1
    <2>3. CASE i < k
        <3>1. i \in DOMAIN w /\ w[i] = c
            BY <1>1, <1>2, <1>3, <2>1, <2>3
        <3> QED BY <3>1
    <2>4. CASE i > k
        <3>1. i - 1 \in DOMAIN w /\ w[i - 1] = c
            BY <1>1, <1>2, <1>3, <2>1, <2>4
        <3> QED BY <3>1
    <2> QED BY <1>1, <2>2, <2>3, <2>4
<1> QED BY <1>3, <1>6, <1>7, <1>8 DEF Lists, w

LEMMA TailLists ==
    ASSUME NEW F, NEW S, Lists(F, S), F # <<>>
    PROVE  Lists(Tail(F), S \ {Head(F)}) /\ Head(F) \in S /\ Head(F) \in Inode
<1> DEFINE n == Len(F)
           w == Tail(F)
<1>1. F \in Seq(Inode) /\ n \in Nat /\ n > 0 /\ DOMAIN F = 1 .. n /\ Head(F) = F[1]
    BY DEF Lists
<1>2. w \in Seq(Inode) /\ DOMAIN w = 1 .. n - 1 /\ \A i \in 1 .. n - 1 : w[i] = F[i + 1]
    BY <1>1
<1> HIDE DEF n, w
<1>3. \A i, j \in 1 .. n : F[i] = F[j] => i = j
    BY <1>1 DEF Lists
<1>4. \A i, j \in DOMAIN w : w[i] = w[j] => i = j
    <2> SUFFICES ASSUME NEW i \in 1 .. n - 1, NEW j \in 1 .. n - 1, w[i] = w[j] PROVE i = j
        BY <1>2
    <2> QED BY <1>1, <1>2, <1>3
<1>5. \A i \in DOMAIN w : w[i] \in S \ {Head(F)}
    <2> SUFFICES ASSUME NEW i \in 1 .. n - 1 PROVE w[i] \in S \ {Head(F)}
        BY <1>2
    <2>1. i + 1 \in 1 .. n /\ 1 \in 1 .. n /\ i + 1 # 1 /\ w[i] = F[i + 1]
        BY <1>1, <1>2
    <2>2. F[i + 1] \in S
        BY <1>1, <2>1 DEF Lists
    <2> QED BY <1>1, <1>3, <2>1, <2>2
<1>6. \A c \in S \ {Head(F)} : \E i \in DOMAIN w : w[i] = c
    <2> SUFFICES ASSUME NEW c \in S \ {Head(F)} PROVE \E i \in DOMAIN w : w[i] = c
        OBVIOUS
    <2>1. PICK i \in 1 .. n : F[i] = c
        BY <1>1 DEF Lists
    <2>2. i - 1 \in DOMAIN w /\ w[i - 1] = c
        BY <1>1, <1>2, <2>1
    <2> QED BY <2>2
<1>7. Head(F) \in S /\ Head(F) \in Inode
    BY <1>1 DEF Lists
<1> QED BY <1>2, <1>4, <1>5, <1>6, <1>7 DEF Lists, w

LEMMA ConsLists ==
    ASSUME NEW F, NEW S, NEW b \in Inode, b \notin S, Lists(F, S)
    PROVE  Lists(<<b>> \o F, S \cup {b})
<1> DEFINE n == Len(F)
           w == <<b>> \o F
<1>1. F \in Seq(Inode) /\ n \in Nat /\ DOMAIN F = 1 .. n
    BY DEF Lists
<1>2. w \in Seq(Inode) /\ DOMAIN w = 1 .. n + 1 /\ w[1] = b /\ \A i \in 2 .. n + 1 : w[i] = F[i - 1]
    BY <1>1
<1> HIDE DEF n, w
<1>3. \A i, j \in 1 .. n : F[i] = F[j] => i = j
    BY <1>1 DEF Lists
<1>4. \A i \in 2 .. n + 1 : i - 1 \in 1 .. n /\ w[i] = F[i - 1] /\ w[i] \in S /\ w[i] # b
    <2>1. \A k \in 1 .. n : F[k] \in S /\ F[k] # b
        BY <1>1 DEF Lists
    <2>2. \A i \in 2 .. n + 1 : i - 1 \in 1 .. n
        BY <1>1
    <2> QED BY <1>2, <2>1, <2>2
<1>5. \A i \in DOMAIN w : i = 1 \/ i \in 2 .. n + 1
    BY <1>1, <1>2
<1>6. \A i, j \in DOMAIN w : w[i] = w[j] => i = j
    <2> SUFFICES ASSUME NEW i \in DOMAIN w, NEW j \in DOMAIN w, w[i] = w[j] PROVE i = j
        OBVIOUS
    <2>1. CASE i \in 2 .. n + 1 /\ j \in 2 .. n + 1
        BY <1>1, <1>3, <1>4, <2>1
    <2> QED BY <1>2, <1>4, <1>5, <2>1
<1>7. \A i \in DOMAIN w : w[i] \in S \cup {b}
    BY <1>2, <1>4, <1>5
<1>8. \A c \in S \cup {b} : \E i \in DOMAIN w : w[i] = c
    <2> SUFFICES ASSUME NEW c \in S \cup {b} PROVE \E i \in DOMAIN w : w[i] = c
        OBVIOUS
    <2>1. CASE c = b
        BY <1>1, <1>2, <2>1
    <2>2. CASE c \in S
        <3>1. PICK i \in 1 .. n : F[i] = c
            BY <1>1, <2>2 DEF Lists
        <3>2. i + 1 \in DOMAIN w /\ w[i + 1] = c
            BY <1>1, <1>2, <3>1
        <3> QED BY <3>2
    <2> QED BY <2>1, <2>2
<1> QED BY <1>2, <1>6, <1>7, <1>8 DEF Lists, w

LEMMA AppendLists ==
    ASSUME NEW F, NEW S, NEW b \in Inode, b \notin S, Lists(F, S)
    PROVE  Lists(Append(F, b), S \cup {b})
<1> DEFINE n == Len(F)
           w == Append(F, b)
<1>1. F \in Seq(Inode) /\ n \in Nat /\ DOMAIN F = 1 .. n
    BY DEF Lists
<1>2. w \in Seq(Inode) /\ DOMAIN w = 1 .. n + 1 /\ w[n + 1] = b /\ \A i \in 1 .. n : w[i] = F[i]
    BY <1>1
<1> HIDE DEF n, w
<1>3. \A i, j \in 1 .. n : F[i] = F[j] => i = j
    BY <1>1 DEF Lists
<1>4. \A i \in 1 .. n : w[i] = F[i] /\ w[i] \in S /\ w[i] # b
    BY <1>1, <1>2 DEF Lists
<1>5. \A i \in DOMAIN w : i = n + 1 \/ i \in 1 .. n
    BY <1>1, <1>2
<1>6. \A i, j \in DOMAIN w : w[i] = w[j] => i = j
    <2> SUFFICES ASSUME NEW i \in DOMAIN w, NEW j \in DOMAIN w, w[i] = w[j] PROVE i = j
        OBVIOUS
    <2>1. CASE i \in 1 .. n /\ j \in 1 .. n
        BY <1>3, <1>4, <2>1
    <2> QED BY <1>2, <1>4, <1>5, <2>1
<1>7. \A i \in DOMAIN w : w[i] \in S \cup {b}
    BY <1>2, <1>4, <1>5
<1>8. \A c \in S \cup {b} : \E i \in DOMAIN w : w[i] = c
    <2> SUFFICES ASSUME NEW c \in S \cup {b} PROVE \E i \in DOMAIN w : w[i] = c
        OBVIOUS
    <2>1. CASE c = b
        <3>1. n + 1 \in DOMAIN w
            BY <1>1, <1>2
        <3> QED BY <1>2, <2>1, <3>1
    <2>2. CASE c \in S
        <3>1. PICK i \in 1 .. n : F[i] = c
            BY <1>1, <2>2 DEF Lists
        <3>2. i \in DOMAIN w /\ w[i] = c
            BY <1>1, <1>2, <3>1
        <3> QED BY <3>2
    <2> QED BY <2>1, <2>2
<1> QED BY <1>2, <1>6, <1>7, <1>8 DEF Lists, w

-----------------------------------------------------------------------------
(* What the invariant says. *)

LEMMA InvRight == ASSUME Inv PROVE InodesRight
<1>1. TypeOK
    <2>1. IsInjective(free)
        BY DEF Inv, Lists, IsInjective
    <2> QED BY <2>1 DEF Inv, Lists, TypeOK, Entry
<1>2. InodeStates
    <2> SUFFICES ASSUME NEW i \in Inode
                 PROVE  LET e == ino[i]
                            onfree == i \in ToSet(free)
                        IN  \/ onfree /\ e = FreeInode
                            \/ ~onfree /\ e.hash = "null" /\ e.count > 0
                            \/ ~onfree /\ e.hash = "on" /\ e.id # None /\ ~e.valid /\ e.count > 0
                            \/ onfree /\ e.hash = "on" /\ e.id # None /\ e.valid /\ e.count = 0
        BY DEF InodeStates
    <2>1. i \in ToSet(free) <=> ino[i].count = 0
        BY DEF Inv, Lists, ToSet, Idle0
    <2>2. EntryOK(ino[i]) /\ ino[i] \in Entry /\ None \notin Ids
        BY DEF Inv, InodeCacheConstants
    <2>3. ino[i].count = 0 \/ ino[i].count > 0
        BY <2>2 DEF Entry
    <2> QED BY <2>1, <2>2, <2>3 DEF EntryOK
<1>3. CountRefs
    BY DEF Inv, CountRefs, Pins, Refs
<1>4. HeldKept
    <2>1. \A p \in Proc : pr[p].pc \in RefPcs => ino[pr[p].i].id = pr[p].id
        BY DEF Inv, ProcOK
    <2>2. ASSUME NEW i \in Inode
          PROVE  Cardinality({p \in Proc : pr[p].i = i /\ pr[p].pc \in LockPcs})
                 = (IF ino[i].locked THEN 1 ELSE 0)
        <3> DEFINE S == {p \in Proc : pr[p].i = i /\ pr[p].pc \in LockPcs}
        <3>1. LockOK(i)
            BY DEF Inv
        <3>2. CASE ino[i].locked
            <4>1. PICK p \in Proc : pr[p].i = i /\ pr[p].pc \in LockPcs
                BY <3>1, <3>2 DEF LockOK
            <4>2. S = {p}
                BY <3>1, <4>1 DEF LockOK
            <4> QED BY <3>2, <4>2, FS_Singleton
        <3>3. CASE ~ino[i].locked
            <4>1. S = {}
                BY <3>3 DEF Inv, ProcOK
            <4> QED BY <3>3, <4>1, FS_EmptySet
        <3> QED BY <3>2, <3>3
    <2> QED BY <2>1, <2>2 DEF HeldKept
<1>5. NobodyForgotten
    BY DEF Inv, ProcOK, NobodyForgotten
<1> QED BY <1>1, <1>2, <1>3, <1>4, <1>5 DEF InodesRight, Inv

LEMMA InvNoOrphans == ASSUME Inv PROVE NoOrphans
BY DEF Inv, PhaseOK, RootThere, NoOrphans

\* What is known of a process.
PrType == [pc : RefPcs \cup {"idle", "iget", "igetwait", "closing"}, i : 0 .. ninode,
           id : Ids \cup {None, Anon}, then : {"held", "put"}, um : {"no", "root", "covered"}]

\* Whether r, what is known of a process, counts as a reference to i, or locks it.
Rf(r, i) == IF r.i = i /\ r.pc \in RefPcs THEN 1 ELSE 0
Lk(r, i) == r.i = i /\ r.pc \in LockPcs

\* The step is p's: the others stay where they are, but who sleeps on W wakes.
Moved(p, W) == \A q \in Proc \ {p} :
    /\ pr'[q].i = pr[q].i /\ pr'[q].id = pr[q].id /\ pr'[q].then = pr[q].then /\ pr'[q].um = pr[q].um
    /\ pr'[q].pc = IF pr[q].i \in W /\ pr[q].pc = "igetwait" THEN "iget"
                   ELSE IF pr[q].i \in W /\ pr[q].pc = "lockwait" THEN "lock"
                   ELSE pr[q].pc

LEMMA PcSets ==
    /\ RefPcs = {"reading", "held", "putting", "used", "lockwait", "lock"}
    /\ LockPcs = {"reading", "held", "putting"} /\ LockPcs \subseteq RefPcs
BY DEF RefPcs, LockPcs

LEMMA InodeFacts ==
    ASSUME Inv
    PROVE  /\ ninode \in Nat /\ ninode >= 2 /\ RootIp \in Inode /\ CovIp \in Inode /\ RootIp # CovIp
           /\ 0 \notin Inode /\ Inode \subseteq 0 .. ninode /\ IsFiniteSet(Proc)
           /\ \A i \in Inode : /\ ino[i] \in Entry /\ ino[i].count \in Nat /\ ino[i].count \in 0 .. MaxRefs
                               /\ ino[i].locked \in BOOLEAN /\ ino[i].want \in BOOLEAN
                               /\ ino[i].valid \in BOOLEAN
           /\ MaxRefs \in Nat
BY DEF Inv, InodeCacheConstants, Inode, RootIp, CovIp, Entry

LEMMA RefsFinite ==
    ASSUME Inv, NEW i
    PROVE  IsFiniteSet(Refs(i)) /\ Cardinality(Refs(i)) \in Nat /\ Pins(i) \in Nat
<1>1. IsFiniteSet(Refs(i))
    BY FS_Subset, InodeFacts DEF Refs
<1> QED BY <1>1, FS_CardinalityType DEF Pins, MountRefs

LEMMA RefsChange ==
    ASSUME Inv, NEW p \in Proc, NEW W, Moved(p, W), NEW i
    PROVE  Cardinality(Refs(i)') = Cardinality(Refs(i)) - Rf(pr[p], i) + Rf(pr'[p], i)
<1> DEFINE S == Refs(i) \ {p}
<1>1. \A q \in Proc \ {p} : (pr'[q].i = i /\ pr'[q].pc \in RefPcs) <=> (pr[q].i = i /\ pr[q].pc \in RefPcs)
    BY PcSets DEF Moved
<1>2. Refs(i) = (IF Rf(pr[p], i) = 1 THEN S \cup {p} ELSE S)
    BY DEF Refs, Rf
<1>3. Refs(i)' = (IF Rf(pr'[p], i) = 1 THEN S \cup {p} ELSE S)
    BY <1>1 DEF Refs, Rf
<1>4. IsFiniteSet(S) /\ p \notin S /\ Cardinality(S) \in Nat
    BY RefsFinite, FS_Subset, FS_CardinalityType
<1> HIDE DEF S
<1>5. Cardinality(S \cup {p}) = Cardinality(S) + 1
    BY <1>4, FS_AddElement
<1>6. /\ Rf(pr[p], i) \in {0, 1} /\ Rf(pr'[p], i) \in {0, 1}
    BY DEF Rf
<1> QED BY <1>2, <1>3, <1>4, <1>5, <1>6

\* Counts of references.
LEMMA CountOf ==
    ASSUME Inv, NEW i \in Inode
    PROVE  ino[i].count = Pins(i) + Cardinality(Refs(i))
BY DEF Inv

LEMMA HasRef ==
    ASSUME Inv, NEW q \in Proc, NEW i \in Inode, pr[q].i = i, pr[q].pc \in RefPcs
    PROVE  ino[i].count > Pins(i) /\ ino[i].count > 0
<1>1. q \in Refs(i)
    BY DEF Refs
<1>2. Cardinality(Refs(i)) # 0 /\ Cardinality(Refs(i)) \in Nat /\ Pins(i) \in Nat
    BY <1>1, RefsFinite, FS_EmptySet
<1> QED BY <1>2, CountOf

LEMMA OnlyRef ==
    ASSUME Inv, NEW p \in Proc, NEW q \in Proc, NEW i \in Inode, ino[i].count = 1,
           pr[p].i = i, pr[p].pc \in RefPcs, pr[q].i = i, pr[q].pc \in RefPcs
    PROVE  p = q
<1>1. p \in Refs(i) /\ q \in Refs(i)
    BY DEF Refs
<1>2. IsFiniteSet(Refs(i)) /\ Cardinality(Refs(i)) \in Nat /\ Pins(i) \in Nat
    BY RefsFinite
<1>3. Cardinality(Refs(i)) = 1
    BY <1>2, CountOf, HasRef
<1>4. PICK x : Refs(i) = {x}
    BY <1>2, <1>3, FS_Singleton
<1> QED BY <1>1, <1>4

LEMMA LockedHas ==
    ASSUME Inv, NEW i \in Inode, ino[i].locked
    PROVE  ino[i].count > 0
<1>1. PICK p \in Proc : pr[p].i = i /\ pr[p].pc \in LockPcs
    BY DEF Inv, LockOK
<1> QED BY <1>1, HasRef, PcSets

\* Nobody has an inode that is not counted.
LEMMA NoRefs ==
    ASSUME Inv, NEW i \in Inode, ino[i].count = 0
    PROVE  /\ ~ino[i].locked /\ Pins(i) = 0
           /\ \A q \in Proc : pr[q].i = i => pr[q].pc \notin RefPcs \cup {"igetwait"}
<1>1. ~ino[i].locked
    BY LockedHas, InodeFacts
<1>2. \A q \in Proc : pr[q].i = i => pr[q].pc \notin RefPcs
    BY HasRef, InodeFacts
<1>3. \A q \in Proc : pr[q].i = i => pr[q].pc # "igetwait"
    BY <1>1 DEF Inv, ProcOK
<1>4. Pins(i) = 0
    BY RefsFinite, CountOf
<1> QED BY <1>1, <1>2, <1>3, <1>4

\* The inodes of the mount and of the current directory are in use.
LEMMA Pinned ==
    ASSUME Inv
    PROVE  /\ RootThere => ino[RootIp].count > 0
           /\ mnt /\ Um # "covered" => ino[CovIp].count > 0
           /\ cwd # 0 => cwd \in Inode /\ ino[cwd].count > 0
<1>1. ASSUME NEW i \in Inode, Pins(i) > 0 PROVE ino[i].count > 0
    BY <1>1, RefsFinite, CountOf
<1>2. Um # "no" => Umounter # None /\ Um = pr[Umounter].um
    BY DEF Um
<1>3. ASSUME RootThere PROVE ino[RootIp].count > 0
    <2>1. CASE Um = "no"
        <3>1. MountRefs(RootIp) = 1
            BY <1>3, <2>1 DEF RootThere, MountRefs, Umounting, Um, RootIp, CovIp
        <3>2. Pins(RootIp) > 0
            BY <3>1 DEF Pins
        <3> QED BY <1>1, <3>2, InodeFacts
    <2>2. CASE Um # "no"
        <3>1. Umounter \in Proc /\ pr[Umounter].pc = "putting" /\ pr[Umounter].um = "root"
            BY <1>2, <1>3, <2>2 DEF RootThere, Inv, InodeCacheConstants
        <3>2. pr[Umounter].i = RootIp
            BY <3>1 DEF Inv, UmOK
        <3> QED BY <3>1, <3>2, HasRef, InodeFacts, PcSets
    <2> QED BY <2>1, <2>2
<1>4. ASSUME mnt, Um # "covered" PROVE ino[CovIp].count > 0
    <2>1. MountRefs(CovIp) = 1
        BY <1>4 DEF MountRefs, Umounting, Um, RootIp, CovIp
    <2>2. Pins(CovIp) > 0
        BY <2>1 DEF Pins
    <2> QED BY <1>1, <2>2, InodeFacts
<1>5. ASSUME cwd # 0 PROVE cwd \in Inode /\ ino[cwd].count > 0
    <2>1. cwd \in Inode
        BY <1>5 DEF Inv, PhaseOK
    <2>2. Pins(cwd) > 0
        BY DEF Pins, MountRefs
    <2> QED BY <1>1, <2>1, <2>2
<1> QED BY <1>3, <1>4, <1>5

-----------------------------------------------------------------------------
(* What a step on inode j leaves to the others. *)

LEMMA OthersStep ==
    ASSUME Inv, NEW p \in Proc, NEW W, Moved(p, W), NEW j \in Inode, NEW e,
           ino' = [ino EXCEPT ![j] = e], cwd' = cwd \/ p = Cwd,
           \A q \in Proc \ {p} : pr[q].i = j /\ pr[q].pc \in RefPcs => e.id = ino[j].id,
           \A q \in Proc \ {p} : Lk(pr[q], j) => e.locked,
           \A q \in Proc \ {p} : pr[q].i = j /\ pr[q].pc \in {"reading", "putting"} => e.count = 1,
           \A q \in Proc \ {p} : pr[q].i = j /\ j \notin W /\ pr[q].pc \in {"igetwait", "lockwait"} =>
               e.locked /\ e.want
    PROVE  \A q \in Proc \ {p} : ProcOK(q)' /\ UmOK(q)'
<1> SUFFICES ASSUME NEW q \in Proc, q # p PROVE ProcOK(q)' /\ UmOK(q)'
    OBVIOUS
<1> USE PcSets
<1>1. /\ pr'[q].i = pr[q].i /\ pr'[q].id = pr[q].id /\ pr'[q].then = pr[q].then /\ pr'[q].um = pr[q].um
      /\ pr'[q].pc = IF pr[q].i \in W /\ pr[q].pc = "igetwait" THEN "iget"
                     ELSE IF pr[q].i \in W /\ pr[q].pc = "lockwait" THEN "lock"
                     ELSE pr[q].pc
    BY DEF Moved
<1>2. ProcOK(q) /\ UmOK(q)
    BY DEF Inv
<1>3. UmOK(q)'
    BY <1>1, <1>2 DEF UmOK
<1>4. pr[q].i \in Inode => ino'[pr[q].i] = IF pr[q].i = j THEN e ELSE ino[pr[q].i]
    BY DEF Inv
<1>5. /\ pr'[q].pc \in RefPcs \cup {"igetwait"} => pr'[q].i \in Inode
      /\ pr'[q].pc \in {"iget", "igetwait"} =>
          /\ pr'[q].id \in Reach
          /\ pr'[q].id \in Mounted => Nfs \/ (q = Cwd /\ cwd' # 0)
    BY <1>1, <1>2 DEF ProcOK
<1>6. CASE pr[q].i # j
    <2>1. pr[q].pc \in RefPcs \cup {"igetwait"} => ino'[pr[q].i] = ino[pr[q].i]
        BY <1>2, <1>4, <1>6 DEF ProcOK
    <2> QED BY <1>1, <1>2, <1>3, <1>5, <2>1 DEF ProcOK
<1>7. CASE pr[q].i = j
    <2>1. ino'[j] = e
        BY <1>4, <1>7
    <2>2. pr'[q].pc \in RefPcs => e.id = pr[q].id
        BY <1>1, <1>2, <1>7 DEF ProcOK
    <2>3. pr'[q].pc \in LockPcs => e.locked /\ (pr[q].pc \in {"reading", "putting"} => e.count = 1)
        BY <1>1, <1>2, <1>7 DEF Lk
    <2>4. pr'[q].pc \in {"igetwait", "lockwait"} => e.locked /\ e.want
        BY <1>1, <1>2, <1>7 DEF ProcOK
    <2> QED BY <1>1, <1>3, <1>5, <1>7, <2>1, <2>2, <2>3, <2>4 DEF ProcOK
<1> QED BY <1>6, <1>7

LEMMA LocksStep ==
    ASSUME Inv, NEW p \in Proc, NEW W, Moved(p, W), NEW j \in Inode, NEW e,
           ino' = [ino EXCEPT ![j] = e],
           \A i \in Inode \ {j} : Lk(pr'[p], i) <=> Lk(pr[p], i),
           Lk(pr'[p], j) => \A q \in Proc \ {p} : ~Lk(pr[q], j),
           e.locked => Lk(pr'[p], j) \/ \E q \in Proc \ {p} : Lk(pr[q], j)
    PROVE  \A i \in Inode : LockOK(i)'
<1> USE PcSets
<1>1. \A q \in Proc \ {p}, i \in Inode : Lk(pr'[q], i) <=> Lk(pr[q], i)
    BY DEF Moved, Lk
<1> SUFFICES ASSUME NEW i \in Inode PROVE LockOK(i)'
    OBVIOUS
<1>2. LockOK(i) /\ ino'[i] = IF i = j THEN e ELSE ino[i]
    BY DEF Inv
<1>3. /\ ino[i].locked => \E q \in Proc : Lk(pr[q], i)
      /\ \A x, y \in Proc : Lk(pr[x], i) /\ Lk(pr[y], i) => x = y
    BY <1>2 DEF LockOK, Lk
<1>4. ino'[i].locked => \E q \in Proc : Lk(pr'[q], i)
    <2>1. CASE i = j
        BY <1>1, <1>2, <2>1
    <2>2. CASE i # j
        BY <1>1, <1>2, <1>3, <2>2
    <2> QED BY <2>1, <2>2
<1>5. \A x, y \in Proc : Lk(pr'[x], i) /\ Lk(pr'[y], i) => x = y
    <2>1. CASE i = j
        BY <1>1, <1>3, <2>1
    <2>2. CASE i # j
        BY <1>1, <1>3, <2>2
    <2> QED BY <2>1, <2>2
<1> QED BY <1>4, <1>5 DEF LockOK, Lk

\* What the mount and the current directory hold on to.
Fixed(i) == \/ i = RootIp /\ RootThere
            \/ i = CovIp /\ mnt /\ Um # "covered"
            \/ i = cwd

\* A step does what the invariant asks of inode j, of process p and of the phase.
LEMMA CountsStep ==
    ASSUME Inv, NEW p \in Proc, NEW W, Moved(p, W),
           \A i \in Inode : ino'[i].count - ino[i].count =
                               Pins(i)' - Pins(i) + Rf(pr'[p], i) - Rf(pr[p], i),
           \A i \in Inode : ino'[i].count \in Nat /\ Pins(i)' \in Nat
    PROVE  \A i \in Inode : ino'[i].count = Pins(i)' + Cardinality(Refs(i)')
<1> SUFFICES ASSUME NEW i \in Inode PROVE ino'[i].count = Pins(i)' + Cardinality(Refs(i)')
    OBVIOUS
<1>1. Cardinality(Refs(i)') = Cardinality(Refs(i)) - Rf(pr[p], i) + Rf(pr'[p], i)
    BY RefsChange
<1>2. ino[i].count = Pins(i) + Cardinality(Refs(i)) /\ Cardinality(Refs(i)) \in Nat /\ Pins(i) \in Nat
    BY CountOf, RefsFinite
<1>3. Rf(pr[p], i) \in {0, 1} /\ Rf(pr'[p], i) \in {0, 1}
    BY DEF Rf
<1>4. /\ ino'[i].count - ino[i].count = Pins(i)' - Pins(i) + Rf(pr'[p], i) - Rf(pr[p], i)
      /\ ino'[i].count \in Nat /\ Pins(i)' \in Nat
    OBVIOUS
<1> QED BY <1>1, <1>2, <1>3, <1>4

LEMMA OneStep ==
    ASSUME Inv, NEW j \in Inode, NEW e, ino' = [ino EXCEPT ![j] = e],
           e.hash = "on" => (ino[j].hash = "on" /\ e.id = ino[j].id) \/ Hashed(e.id) = {}
    PROVE  OneInode'
<1>1. \A i \in Inode : ino'[i] = IF i = j THEN e ELSE ino[i]
    BY DEF Inv
<1>2. \A i, k \in Inode : ino[i].hash = "on" /\ ino[k].hash = "on" /\ ino[i].id = ino[k].id => i = k
    BY DEF Inv, OneInode
<1>3. \A i \in Inode \ {j} : e.hash = "on" => ~(ino[i].hash = "on" /\ ino[i].id = e.id)
    BY <1>2 DEF Hashed
<1>4. ASSUME NEW i \in Inode, NEW k \in Inode, ino'[i].hash = "on", ino'[k].hash = "on",
             ino'[i].id = ino'[k].id
      PROVE  i = k
    <2>1. CASE i = j /\ k # j
        BY <1>1, <1>3, <1>4, <2>1
    <2>2. CASE i # j /\ k = j
        BY <1>1, <1>3, <1>4, <2>2
    <2>3. CASE i # j /\ k # j
        BY <1>1, <1>2, <1>4, <2>3
    <2> QED BY <2>1, <2>2, <2>3
<1> QED BY <1>4 DEF OneInode

LEMMA UmSame ==
    ASSUME Inv, NEW p \in Proc, NEW W, Moved(p, W), pr'[p].um = pr[p].um, pr[p].um # "root",
           UNCHANGED mnt
    PROVE  Um' = Um /\ (RootThere' <=> RootThere) /\ (\A i : MountRefs(i)' = MountRefs(i))
<1>1. Umounter # None => Umounter \in Proc
    BY DEF Inv, InodeCacheConstants
<1>2. Um' = Um
    BY <1>1 DEF Um, Moved
<1>3. Um = "root" => Umounter # p /\ Umounter \in Proc
    BY <1>1 DEF Um
<1>4. Um = "root" => (pr'[Umounter].pc = "putting" <=> pr[Umounter].pc = "putting")
    BY <1>3 DEF Moved
<1>5. Umounter # None => pr'[Umounter].um = pr[Umounter].um
    BY <1>1 DEF Moved
<1> QED BY <1>2, <1>4, <1>5 DEF RootThere, MountRefs, Umounting

LEMMA PhaseStep ==
    ASSUME Inv, NEW j \in Inode, NEW e, ino' = [ino EXCEPT ![j] = e],
           Um' = Um, RootThere' <=> RootThere, UNCHANGED <<mnt, cwd>>,
           Fixed(j) => e.id = ino[j].id /\ e.error = ino[j].error,
           e.id \in Mounted => e.id = ino[j].id \/ (RootThere /\ Um = "no"),
           e.mount => ino[j].mount
    PROVE  PhaseOK'
<1>1. PhaseOK /\ ino \in [Inode -> Entry]
    BY DEF Inv
<1>2. \A i \in Inode : ino'[i] = IF i = j THEN e ELSE ino[i]
    BY <1>1
<1>3. RootIp \in Inode /\ CovIp \in Inode /\ 0 \notin Inode
    BY InodeFacts
<1>4. RootThere => ino'[RootIp].id = Root /\ ~ino'[RootIp].error
    BY <1>1, <1>2, <1>3 DEF PhaseOK, Fixed
<1>5. ~RootThere => \A i \in Inode : ino'[i].id \notin Mounted
    BY <1>1, <1>2 DEF PhaseOK
<1>6. Um = "root" => mnt /\ \A i \in Inode \ {RootIp} : ino'[i].id \notin Mounted
    BY <1>1, <1>2 DEF PhaseOK
<1>7. mnt /\ Um # "covered" => ino'[CovIp].id = Cov
    BY <1>1, <1>2, <1>3 DEF PhaseOK, Fixed
<1>8. ~(mnt /\ Um # "covered") => ~ino'[CovIp].mount
    BY <1>1, <1>2, <1>3 DEF PhaseOK
<1>9. \A i \in Inode \ {CovIp} : ~ino'[i].mount
    BY <1>1, <1>2 DEF PhaseOK
<1>10. cwd # 0 => /\ Cwd # None /\ cwd \in Inode /\ mnt /\ Um = "no" /\ ino'[cwd].id = CwdFile
    BY <1>1, <1>2 DEF PhaseOK, Fixed
<1>11. Um = "covered" \/ Umounter = None => mnt
    BY <1>1 DEF PhaseOK
<1> QED BY <1>4, <1>5, <1>6, <1>7, <1>8, <1>9, <1>10, <1>11 DEF PhaseOK

\* What a step makes of inode j.
NewEntry(j, e) ==
    /\ e \in Entry /\ EntryOK(e) /\ ino' = [ino EXCEPT ![j] = e] /\ Lists(free', Idle0')
    /\ e.hash = "on" => (ino[j].hash = "on" /\ e.id = ino[j].id) \/ Hashed(e.id) = {}

\* The mount and the current directory keep their inodes.
KeepsFixed(j, e) ==
    /\ Fixed(j) => e.id = ino[j].id /\ e.error = ino[j].error
    /\ e.id \in Mounted => e.id = ino[j].id \/ (RootThere /\ Um = "no")
    /\ e.mount => ino[j].mount

\* So do the other processes.
KeepsOthers(p, W, j, e) ==
    /\ \A q \in Proc \ {p} : pr[q].i = j /\ pr[q].pc \in RefPcs => e.id = ino[j].id
    /\ \A q \in Proc \ {p} : Lk(pr[q], j) => e.locked
    /\ \A q \in Proc \ {p} : pr[q].i = j /\ pr[q].pc \in {"reading", "putting"} => e.count = 1
    /\ \A q \in Proc \ {p} : pr[q].i = j /\ j \notin W /\ pr[q].pc \in {"igetwait", "lockwait"} =>
           e.locked /\ e.want

\* What p has and has locked changes for j alone.
LocksOnly(p, j, e) ==
    /\ \A i \in Inode \ {j} : Lk(pr'[p], i) <=> Lk(pr[p], i)
    /\ Lk(pr'[p], j) => \A q \in Proc \ {p} : ~Lk(pr[q], j)
    /\ e.locked => Lk(pr'[p], j) \/ \E q \in Proc \ {p} : Lk(pr[q], j)

CountsOnly(p, j, e) ==
    /\ \A i \in Inode \ {j} : Rf(pr'[p], i) = Rf(pr[p], i)
    /\ e.count - ino[j].count = Rf(pr'[p], j) - Rf(pr[p], j)

NewProc(p, W) ==
    /\ pr' \in [Proc -> PrType] /\ Moved(p, W) /\ ProcOK(p)' /\ UmOK(p)'

\* A step that neither mounts nor goes on with an unmount.
LEMMA CalmStep ==
    ASSUME Inv, NEW p \in Proc, NEW W, NEW j \in Inode, NEW e, NewProc(p, W), NewEntry(j, e),
           KeepsFixed(j, e), KeepsOthers(p, W, j, e), LocksOnly(p, j, e), CountsOnly(p, j, e),
           UNCHANGED <<mnt, cwd>>, pr'[p].um = pr[p].um, pr[p].um # "root"
    PROVE  Inv'
<1> USE DEF NewProc, NewEntry, KeepsFixed, KeepsOthers, LocksOnly, CountsOnly
<1>1. ino \in [Inode -> Entry]
    BY DEF Inv
<1>2. ino' \in [Inode -> Entry] /\ \A i \in Inode : ino'[i] = IF i = j THEN e ELSE ino[i]
    BY <1>1
<1>3. \A i \in Inode : EntryOK(ino'[i])
    BY <1>2 DEF Inv
<1>4. \A i \in Inode : LockOK(i)'
    BY LocksStep
<1>5. Um' = Um /\ (RootThere' <=> RootThere) /\ (\A i : MountRefs(i)' = MountRefs(i))
    BY UmSame
<1>6. \A i \in Inode : ino'[i].count = Pins(i)' + Cardinality(Refs(i)')
    <2>1. \A i \in Inode : Pins(i)' = Pins(i) /\ Pins(i) \in Nat
        BY <1>5, RefsFinite DEF Pins
    <2>2. \A i \in Inode : ino'[i].count \in Nat /\ ino[i].count \in Nat
        BY <1>1, <1>2, InodeFacts DEF Entry
    <2>3. ASSUME NEW i \in Inode
          PROVE  ino'[i].count - ino[i].count = Pins(i)' - Pins(i) + Rf(pr'[p], i) - Rf(pr[p], i)
        <3>1. Rf(pr[p], i) \in {0, 1} /\ Rf(pr'[p], i) \in {0, 1}
            BY DEF Rf
        <3>2. Pins(i)' - Pins(i) = 0
            BY <2>1
        <3>3. CASE i = j
            BY <1>2, <2>1, <2>2, <3>1, <3>2, <3>3
        <3>4. CASE i # j
            <4>1. ino'[i].count = ino[i].count /\ Rf(pr'[p], i) = Rf(pr[p], i)
                BY <1>2, <3>4
            <4> QED BY <2>1, <2>2, <3>1, <3>2, <4>1
        <3> QED BY <3>3, <3>4
    <2>4. \A i \in Inode : ino'[i].count \in Nat /\ Pins(i)' \in Nat
        BY <2>1, <2>2
    <2> QED BY <2>3, <2>4, CountsStep
<1>7. \A q \in Proc : ProcOK(q)' /\ UmOK(q)'
    <2>1. \A q \in Proc \ {p} : ProcOK(q)' /\ UmOK(q)'
        BY OthersStep
    <2> QED BY <2>1
<1>8. OneInode'
    BY OneStep
<1>9. PhaseOK'
    BY <1>5, PhaseStep
<1>10. InodeCacheConstants /\ NoRace /\ mnt' \in BOOLEAN /\ cwd' \in 0 .. ninode
    BY DEF Inv
<1>11. pr' \in [Proc -> [pc : RefPcs \cup {"idle", "iget", "igetwait", "closing"}, i : 0 .. ninode,
                        id : Ids \cup {None, Anon}, then : {"held", "put"},
                        um : {"no", "root", "covered"}]]
    BY DEF PrType
<1> QED BY <1>2, <1>3, <1>4, <1>6, <1>7, <1>8, <1>9, <1>10, <1>11 DEF Inv

-----------------------------------------------------------------------------
(* The file system has just been mounted. *)

LEMMA FreeFacts ==
    ASSUME InodeCacheConstants
    PROVE  FreeInode \in Entry /\ EntryOK(FreeInode) /\ None \notin Ids \cup {Anon} /\ Anon \notin Ids
<1>1. MaxRefs \in Nat /\ None \notin Ids /\ Anon \notin Ids /\ None # Anon
    BY DEF InodeCacheConstants
<1>2. FreeInode \in Entry
    BY <1>1 DEF FreeInode, Entry
<1>3. EntryOK(FreeInode)
    BY <1>1 DEF FreeInode, EntryOK
<1> QED BY <1>1, <1>2, <1>3

LEMMA BusyFacts ==
    ASSUME InodeCacheConstants, NEW id \in Ids \cup {Anon}
    PROVE  /\ Busy(id) \in Entry
           /\ Busy(id).id = id /\ Busy(id).hash = "on" /\ ~Busy(id).valid /\ ~Busy(id).locked
           /\ ~Busy(id).want /\ ~Busy(id).error /\ ~Busy(id).mount /\ Busy(id).count = 1
<1>1. 1 \in 0 .. MaxRefs /\ FreeInode \in Entry
    BY FreeFacts DEF InodeCacheConstants
<1>2. \A r \in Entry : [r EXCEPT !.id = id, !.hash = "on", !.count = 1] \in Entry
    BY <1>1 DEF Entry
<1>3. Busy(id) \in Entry
    BY <1>1, <1>2 DEF Busy
<1> QED BY <1>3 DEF Busy, FreeInode

LEMMA InvInit == ASSUME InodeCacheConstants, NoRace, Init PROVE Inv
<1> DEFINE all == [k \in 1 .. ninode - 2 |-> k + 2]
<1>1. /\ ninode \in Nat /\ ninode >= 2 /\ Inode = 1 .. ninode /\ RootIp = 1 /\ CovIp = 2
      /\ MaxRefs \in Nat /\ MaxRefs >= 1 /\ Root \in Ids /\ Cov \in Ids /\ Root # Cov
      /\ None \notin Ids /\ Anon \notin Ids /\ None # Anon /\ Cov \notin Mounted
    BY DEF InodeCacheConstants, Inode, RootIp, CovIp, Ids, Mounted
<1>2. cwd = 0 \/ (cwd \in 3 .. ninode /\ Cwd # None /\ CwdFile \in Files)
    <2>1. Cwd = None => cwd = 0
        BY DEF Init
    <2>2. Cwd # None => cwd \in 3 .. ninode /\ CwdFile \in Files
        BY DEF Init, InodeCacheConstants, CwdFile
    <2> QED BY <2>1, <2>2
<1>3. CwdFile \in Files => CwdFile \in Mounted /\ CwdFile # Root /\ CwdFile # Cov /\ CwdFile \in Ids
    BY DEF InodeCacheConstants, Mounted, Ids
<1> DEFINE covered == [Busy(Cov) EXCEPT !.mount = TRUE]
<1>4. ASSUME NEW i \in Inode
      PROVE  /\ i = 1 => ino[i] = Busy(Root)
             /\ i = 2 => ino[i] = covered
             /\ i \notin {1, 2} /\ i = cwd => ino[i] = Busy(CwdFile)
             /\ i \notin {1, 2, cwd} => ino[i] = FreeInode
    <2>1. ino[i] = IF i = RootIp THEN Busy(Root) ELSE IF i = CovIp THEN covered
                   ELSE IF i = cwd THEN Busy(CwdFile) ELSE FreeInode
        BY Zenon DEF Init
    <2> HIDE DEF covered
    <2> QED BY <1>1, <2>1
<1>5. \A i \in Inode :
        /\ ino[i] \in Entry /\ EntryOK(ino[i]) /\ ~ino[i].locked /\ ~ino[i].error
        /\ ino[i].count = IF i \in {1, 2, cwd} THEN 1 ELSE 0
        /\ ino[i].id = IF i = 1 THEN Root ELSE IF i = 2 THEN Cov ELSE IF i = cwd THEN CwdFile ELSE None
        /\ ino[i].hash = IF i \in {1, 2, cwd} THEN "on" ELSE "none"
        /\ ino[i].mount <=> i = 2
    <2> SUFFICES ASSUME NEW i \in Inode
                 PROVE  /\ ino[i] \in Entry /\ EntryOK(ino[i]) /\ ~ino[i].locked /\ ~ino[i].error
                        /\ ino[i].count = IF i \in {1, 2, cwd} THEN 1 ELSE 0
                        /\ ino[i].id = IF i = 1 THEN Root ELSE IF i = 2 THEN Cov ELSE IF i = cwd THEN CwdFile ELSE None
                        /\ ino[i].hash = IF i \in {1, 2, cwd} THEN "on" ELSE "none"
                        /\ ino[i].mount <=> i = 2
        OBVIOUS
    <2>1. CASE i = 1
        <3>1. ino[i] = Busy(Root)
            BY <1>4, <2>1
        <3>2. /\ ino[i] \in Entry /\ ino[i].id = Root /\ ino[i].hash = "on" /\ ~ino[i].valid
              /\ ~ino[i].locked /\ ~ino[i].error /\ ~ino[i].mount /\ ino[i].count = 1
            BY <1>1, <3>1, BusyFacts
        <3>3. EntryOK(ino[i]) /\ ino[i].mount = FALSE
            BY <1>1, <3>2 DEF EntryOK, Entry
        <3> QED BY <2>1, <3>2, <3>3
    <2>2. CASE i = 2
        <3> DEFINE b == Busy(Cov)
        <3>1. /\ b \in Entry /\ b.id = Cov /\ b.hash = "on" /\ ~b.valid /\ ~b.locked
              /\ ~b.want /\ ~b.error /\ b.count = 1
            BY <1>1, BusyFacts
        <3>2. ino[i] = [b EXCEPT !.mount = TRUE]
            BY <1>4, <2>2
        <3> HIDE DEF b
        <3>3. ino[i] \in Entry
            BY <3>1, <3>2 DEF Entry
        <3>4. /\ ino[i].id = Cov /\ ino[i].hash = "on" /\ ~ino[i].valid /\ ~ino[i].locked
              /\ ~ino[i].error /\ ino[i].count = 1 /\ ino[i].mount = TRUE
            BY <3>1, <3>2 DEF Entry
        <3>5. EntryOK(ino[i])
            BY <1>1, <3>4 DEF EntryOK
        <3> QED BY <2>2, <3>3, <3>4, <3>5
    <2>3. CASE i \notin {1, 2} /\ i = cwd
        <3>1. ino[i] = Busy(CwdFile) /\ CwdFile \in Ids
            BY <1>1, <1>2, <1>3, <1>4, <2>3
        <3>2. /\ ino[i] \in Entry /\ ino[i].id = CwdFile /\ ino[i].hash = "on" /\ ~ino[i].valid
              /\ ~ino[i].locked /\ ~ino[i].error /\ ~ino[i].mount /\ ino[i].count = 1
            BY <1>1, <3>1, BusyFacts
        <3>3. EntryOK(ino[i]) /\ ino[i].mount = FALSE
            BY <1>1, <3>1, <3>2 DEF EntryOK, Entry
        <3> QED BY <2>3, <3>2, <3>3
    <2>4. CASE i \notin {1, 2, cwd}
        <3>1. ino[i] = FreeInode
            BY <1>4, <2>4
        <3>2. /\ FreeInode.id = None /\ FreeInode.hash = "none" /\ FreeInode.locked = FALSE
              /\ FreeInode.error = FALSE /\ FreeInode.mount = FALSE /\ FreeInode.count = 0
            BY DEF FreeInode
        <3>3. /\ ino[i] \in Entry /\ EntryOK(ino[i]) /\ ~ino[i].locked /\ ~ino[i].error
              /\ ino[i].count = 0 /\ ino[i].id = None /\ ino[i].hash = "none" /\ ino[i].mount = FALSE
            BY <3>1, <3>2, FreeFacts
        <3> QED BY <2>4, <3>3
    <2> QED BY <2>1, <2>2, <2>3, <2>4
<1>6. ino \in [Inode -> Entry]
    BY <1>5 DEF Init
<1>7. \A p \in Proc : pr[p] = [pc |-> "idle", i |-> 0, id |-> None, then |-> "held", um |-> "no"]
    BY DEF Init
<1>8. pr \in [Proc -> [pc : RefPcs \cup {"idle", "iget", "igetwait", "closing"}, i : 0 .. ninode,
                        id : Ids \cup {None, Anon}, then : {"held", "put"},
                        um : {"no", "root", "covered"}]]
    BY <1>1 DEF Init
<1>9. Umounter # None => Umounter \in Proc
    BY DEF InodeCacheConstants
<1>10. ~Umounting /\ Um = "no" /\ mnt = TRUE
    BY <1>7, <1>9 DEF Umounting, Um, Init
<1>11. Lists(free, Idle0)
    <2>1. Idle0 = (3 .. ninode) \ {cwd}
        BY <1>1, <1>2, <1>5 DEF Idle0
    <2>2. Lists(all, 3 .. ninode)
        <3>1. DOMAIN all = 1 .. ninode - 2 /\ \A k \in 1 .. ninode - 2 : all[k] = k + 2 /\ all[k] \in Inode
            BY <1>1
        <3>2. all \in Seq(Inode)
            <4>1. all \in [1 .. ninode - 2 -> Inode] /\ ninode - 2 \in Nat
                BY <1>1, <3>1
            <4> QED BY <4>1
        <3> HIDE DEF all
        <3>3. \A i, j \in DOMAIN all : all[i] = all[j] => i = j
            BY <1>1, <3>1
        <3>4. \A i \in DOMAIN all : all[i] \in 3 .. ninode
            BY <1>1, <3>1
        <3>5. ASSUME NEW b \in 3 .. ninode PROVE \E i \in DOMAIN all : all[i] = b
            <4>1. b - 2 \in DOMAIN all /\ all[b - 2] = b
                BY <1>1, <3>1
            <4> QED BY <4>1
        <3> QED BY <3>2, <3>3, <3>4, <3>5 DEF Lists
    <2>3. CASE cwd = 0
        <3>1. Idle0 = 3 .. ninode
            BY <1>1, <2>1, <2>3
        <3>2. free = all
            BY <2>3 DEF Init
        <3> QED BY <2>2, <3>1, <3>2
    <2>4. CASE cwd # 0
        <3>1. free = Off(all, cwd) /\ cwd \in 3 .. ninode
            BY <1>2, <2>4 DEF Init
        <3> HIDE DEF all
        <3> QED BY <2>1, <2>2, <3>1, OffLists
    <2> QED BY <2>3, <2>4
<1>12. \A i \in Inode : LockOK(i)
    BY <1>5, <1>7 DEF LockOK, LockPcs
<1>13. \A i \in Inode : ino[i].count = Pins(i) + Cardinality(Refs(i))
    <2> SUFFICES ASSUME NEW i \in Inode PROVE ino[i].count = Pins(i) + Cardinality(Refs(i))
        OBVIOUS
    <2>1. Refs(i) = {}
        BY <1>7 DEF Refs, RefPcs, LockPcs
    <2>2. Cardinality(Refs(i)) = 0
        BY <2>1, FS_EmptySet
    <2>3. MountRefs(i) = IF i \in {1, 2} THEN 1 ELSE 0
        BY <1>1, <1>10 DEF MountRefs
    <2>4. Pins(i) = IF i \in {1, 2, cwd} THEN 1 ELSE 0
        BY <1>1, <1>2, <2>3 DEF Pins
    <2> QED BY <1>5, <2>2, <2>4
<1>14. \A p \in Proc : ProcOK(p) /\ UmOK(p)
    BY <1>7 DEF ProcOK, UmOK, RefPcs, LockPcs
<1>15. OneInode
    <2> SUFFICES ASSUME NEW i \in Inode, NEW j \in Inode, ino[i].hash = "on", ino[j].hash = "on",
                        ino[i].id = ino[j].id
                 PROVE  i = j
        BY DEF OneInode
    <2>1. i \in {1, 2, cwd} /\ j \in {1, 2, cwd}
        BY <1>5
    <2> QED BY <1>1, <1>2, <1>3, <1>5, <2>1
<1>16. PhaseOK
    <2>1. RootThere /\ RootIp \in Inode /\ CovIp \in Inode /\ RootIp # CovIp
        BY <1>1, <1>10 DEF RootThere
    <2>2. ino[RootIp].id = Root /\ ~ino[RootIp].error /\ ino[CovIp].id = Cov
        BY <1>1, <1>5
    <2>3. \A i \in Inode \ {CovIp} : ~ino[i].mount
        BY <1>1, <1>5
    <2>4. cwd # 0 => Cwd # None /\ cwd \in Inode /\ ino[cwd].id = CwdFile
        BY <1>1, <1>2, <1>5
    <2> QED BY <1>10, <2>1, <2>2, <2>3, <2>4 DEF PhaseOK
<1>17. cwd \in 0 .. ninode
    BY <1>1, <1>2
<1> QED BY <1>5, <1>6, <1>8, <1>10, <1>11, <1>12, <1>13, <1>14, <1>15, <1>16, <1>17 DEF Inv

-----------------------------------------------------------------------------
(* Any step that changes one inode. *)

LEMMA AnyStep ==
    ASSUME Inv, NEW p \in Proc, NEW W, NEW j \in Inode, NEW e, NewProc(p, W), NewEntry(j, e),
           KeepsOthers(p, W, j, e), LocksOnly(p, j, e),
           mnt' \in BOOLEAN, cwd' \in 0 .. ninode, cwd' = cwd \/ p = Cwd,
           \A i \in Inode : ino'[i].count - ino[i].count =
                               Pins(i)' - Pins(i) + Rf(pr'[p], i) - Rf(pr[p], i),
           PhaseOK'
    PROVE  Inv'
<1> USE DEF NewProc, NewEntry, KeepsOthers, LocksOnly
<1>1. ino \in [Inode -> Entry]
    BY DEF Inv
<1>2. ino' \in [Inode -> Entry] /\ \A i \in Inode : ino'[i] = IF i = j THEN e ELSE ino[i]
    BY <1>1
<1>3. \A i \in Inode : EntryOK(ino'[i])
    BY <1>2 DEF Inv
<1>4. \A i \in Inode : LockOK(i)'
    BY LocksStep
<1>5. \A i \in Inode : ino'[i].count = Pins(i)' + Cardinality(Refs(i)')
    <2>1. \A i \in Inode : ino'[i].count \in Nat /\ Pins(i)' \in Nat
        <3>1. \A i \in Inode : ino'[i].count \in 0 .. MaxRefs
            BY <1>2 DEF Entry
        <3>2. MaxRefs \in Nat
            BY InodeFacts
        <3> QED BY <3>1, <3>2 DEF Pins, MountRefs
    <2> QED BY <2>1, CountsStep
<1>6. \A q \in Proc : ProcOK(q)' /\ UmOK(q)'
    <2>1. \A q \in Proc \ {p} : ProcOK(q)' /\ UmOK(q)'
        BY OthersStep
    <2> QED BY <2>1
<1>7. OneInode'
    BY OneStep
<1>8. InodeCacheConstants /\ NoRace
    BY DEF Inv
<1>9. pr' \in [Proc -> [pc : RefPcs \cup {"idle", "iget", "igetwait", "closing"}, i : 0 .. ninode,
                        id : Ids \cup {None, Anon}, then : {"held", "put"},
                        um : {"no", "root", "covered"}]]
    BY DEF PrType
<1> QED BY <1>2, <1>3, <1>4, <1>5, <1>6, <1>7, <1>8, <1>9 DEF Inv

\* A step of p alone: it has what it had.
LEMMA AloneStep ==
    ASSUME Inv, NEW p \in Proc, Moved(p, {}), UNCHANGED <<ino, free, mnt, cwd>>,
           pr' \in [Proc -> PrType], pr'[p].um = pr[p].um, pr[p].um # "root",
           ProcOK(p)', UmOK(p)',
           \A i \in Inode : (Lk(pr'[p], i) <=> Lk(pr[p], i)) /\ Rf(pr'[p], i) = Rf(pr[p], i)
    PROVE  Inv'
<1>a. PICK j \in Inode : TRUE
    BY InodeFacts
<1>0. PICK e : e = ino[j]
    OBVIOUS
<1>1. j \in Inode /\ e \in Entry /\ e.count \in Nat /\ e.locked \in BOOLEAN
    BY <1>a, <1>0, InodeFacts
<1>2. ino' = [ino EXCEPT ![j] = e]
    BY <1>0 DEF Inv
<1>3. EntryOK(e) /\ Lists(free', Idle0')
    BY <1>0, <1>1 DEF Inv, Idle0
<1>4. \A q \in Proc : ProcOK(q)
    BY DEF Inv
<1>5. /\ \A q \in Proc \ {p} : Lk(pr[q], j) => e.locked
      /\ \A q \in Proc \ {p} : pr[q].i = j /\ pr[q].pc \in {"reading", "putting"} => e.count = 1
    BY <1>0, <1>4 DEF ProcOK, Lk
<1>6. \A q \in Proc \ {p} : pr[q].i = j /\ pr[q].pc \in {"igetwait", "lockwait"} => e.locked /\ e.want
    BY <1>0, <1>4 DEF ProcOK
<1>7. LockOK(j)
    BY <1>1 DEF Inv
<1>8. Lk(pr'[p], j) => \A q \in Proc \ {p} : ~Lk(pr[q], j)
    BY <1>1, <1>7 DEF LockOK, Lk
<1>9. e.locked => Lk(pr'[p], j) \/ \E q \in Proc \ {p} : Lk(pr[q], j)
    BY <1>0, <1>1, <1>7 DEF LockOK, Lk
<1>10. e.count - ino[j].count = Rf(pr'[p], j) - Rf(pr[p], j)
    <2>1. Rf(pr'[p], j) = Rf(pr[p], j) /\ Rf(pr[p], j) \in {0, 1}
        BY <1>1 DEF Rf
    <2> QED BY <1>0, <1>1, <2>1
<1>11. /\ \A q \in Proc \ {p} : pr[q].i = j /\ pr[q].pc \in RefPcs => e.id = ino[j].id
       /\ e.hash = "on" => (ino[j].hash = "on" /\ e.id = ino[j].id) \/ Hashed(e.id) = {}
       /\ Fixed(j) => e.id = ino[j].id /\ e.error = ino[j].error
       /\ e.id \in Mounted => e.id = ino[j].id \/ (RootThere /\ Um = "no")
       /\ e.mount => ino[j].mount
    BY <1>0
<1>12. PICK W : W = {}
    OBVIOUS
<1>13. /\ Moved(p, W) /\ UNCHANGED <<mnt, cwd>>
       /\ \A i \in Inode \ {j} : Lk(pr'[p], i) <=> Lk(pr[p], i)
       /\ \A i \in Inode \ {j} : Rf(pr'[p], i) = Rf(pr[p], i)
       /\ \A q \in Proc \ {p} : pr[q].i = j /\ j \notin W /\ pr[q].pc \in {"igetwait", "lockwait"} =>
               e.locked /\ e.want
    BY <1>6, <1>12
<1>14. NewProc(p, W) /\ NewEntry(j, e)
    BY <1>1, <1>2, <1>3, <1>11, <1>13 DEF NewProc, NewEntry
<1>15. KeepsFixed(j, e) /\ KeepsOthers(p, W, j, e)
    BY <1>5, <1>11, <1>13 DEF KeepsFixed, KeepsOthers
<1>16. LocksOnly(p, j, e) /\ CountsOnly(p, j, e)
    BY <1>8, <1>9, <1>10, <1>13 DEF LocksOnly, CountsOnly
<1> QED BY <1>13, <1>14, <1>15, <1>16, CalmStep

-----------------------------------------------------------------------------
(* Processes. *)

LEMMA ProcFacts ==
    ASSUME Inv, NEW p \in Proc
    PROVE  /\ pr[p] \in PrType /\ pr \in [Proc -> PrType] /\ ProcOK(p) /\ UmOK(p)
           /\ pr[p].pc \in {"idle", "iget", "igetwait", "reading", "held", "used"} => pr[p].um = "no"
           /\ pr[p].pc = "closing" => pr[p].um = "root"
           /\ pr[p].pc \in {"lockwait", "lock"} => pr[p].um \in {"no", "covered"}
           /\ pr[p].um # "no" => p = Umounter /\ Um = pr[p].um
<1>1. pr \in [Proc -> PrType] /\ ProcOK(p) /\ UmOK(p)
    BY DEF Inv, PrType
<1>2. pr[p] \in PrType /\ pr[p].um \in {"no", "root", "covered"}
    BY <1>1 DEF PrType
<1>3. None \notin Proc
    BY DEF Inv, InodeCacheConstants
<1> QED BY <1>1, <1>2, <1>3 DEF UmOK, Um

\* Who has the only reference of an inode: nothing else holds on to that.
LEMMA NotFixed ==
    ASSUME Inv, NEW p \in Proc, NEW i \in Inode, ino[i].count = 1, pr[p].i = i, pr[p].pc \in RefPcs
    PROVE  /\ Pins(i) = 0 /\ (pr[p].um # "root" => ~Fixed(i))
           /\ \A q \in Proc \ {p} : ~(pr[q].i = i /\ pr[q].pc \in RefPcs)
<1>1. Pins(i) = 0
    BY HasRef, RefsFinite
<1>2. \A q \in Proc \ {p} : ~(pr[q].i = i /\ pr[q].pc \in RefPcs)
    BY OnlyRef
<1>3. i # cwd /\ MountRefs(i) = 0
    <2>1. MountRefs(i) \in Nat
        BY DEF MountRefs
    <2> QED BY <1>1, <2>1 DEF Pins
<1>4. ASSUME pr[p].um # "root", i = RootIp, RootThere PROVE FALSE
    <2>1. CASE Um = "no"
        <3>1. MountRefs(i) = 1
            BY <1>4, <2>1 DEF RootThere, MountRefs, Umounting, Um, RootIp, CovIp
        <3> QED BY <1>3, <3>1
    <2>2. CASE Um # "no"
        <3>1. Umounter \in Proc /\ pr[Umounter].pc = "putting" /\ pr[Umounter].um = "root"
            BY <1>4, <2>2 DEF RootThere, Um, Inv, InodeCacheConstants
        <3>2. pr[Umounter].i = RootIp /\ Umounter # p
            BY <1>4, <3>1 DEF Inv, UmOK
        <3> QED BY <1>2, <1>4, <3>1, <3>2, PcSets
    <2> QED BY <2>1, <2>2
<1>5. i = CovIp /\ mnt => Um = "covered"
    <2>1. ASSUME i = CovIp, mnt, Um # "covered" PROVE MountRefs(i) = 1
        BY <2>1 DEF MountRefs, Umounting, Um, RootIp, CovIp
    <2> QED BY <1>3, <2>1
<1> QED BY <1>1, <1>2, <1>3, <1>4, <1>5 DEF Fixed

LEMMA WokenFacts ==
    ASSUME Inv, NEW i \in Inode
    PROVE  /\ Woken(pr, i) \in [Proc -> PrType]
           /\ \A q \in Proc :
                LET w == Woken(pr, i)[q]
                IN  /\ w.i = pr[q].i /\ w.id = pr[q].id /\ w.then = pr[q].then /\ w.um = pr[q].um
                    /\ w.pc = IF pr[q].i = i /\ pr[q].pc = "igetwait" THEN "iget"
                              ELSE IF pr[q].i = i /\ pr[q].pc = "lockwait" THEN "lock" ELSE pr[q].pc
<1> DEFINE w == Woken(pr, i)
<1>1. ASSUME NEW q \in Proc
      PROVE  w[q] = IF pr[q].i # i THEN pr[q]
                    ELSE IF pr[q].pc = "igetwait" THEN [pr[q] EXCEPT !.pc = "iget"]
                    ELSE IF pr[q].pc = "lockwait" THEN [pr[q] EXCEPT !.pc = "lock"] ELSE pr[q]
    BY DEF Woken
<1>2. DOMAIN w = Proc /\ w = [q \in Proc |-> w[q]]
    BY DEF Woken
<1> HIDE DEF w
<1>3. \A q \in Proc : pr[q] \in PrType
    BY ProcFacts
<1>4. ASSUME NEW q \in Proc
      PROVE  /\ w[q] \in PrType
             /\ w[q].i = pr[q].i /\ w[q].id = pr[q].id /\ w[q].then = pr[q].then /\ w[q].um = pr[q].um
             /\ w[q].pc = IF pr[q].i = i /\ pr[q].pc = "igetwait" THEN "iget"
                          ELSE IF pr[q].i = i /\ pr[q].pc = "lockwait" THEN "lock" ELSE pr[q].pc
    <2>1. pr[q] \in PrType
        BY <1>3
    <2>2. CASE pr[q].i # i \/ pr[q].pc \notin {"igetwait", "lockwait"}
        BY <1>1, <2>1, <2>2
    <2>3. CASE pr[q].i = i /\ pr[q].pc = "igetwait"
        <3>1. w[q] = [pr[q] EXCEPT !.pc = "iget"]
            BY <1>1, <2>3
        <3>2. w[q] \in PrType
            BY <2>1, <3>1 DEF PrType
        <3> QED BY <2>1, <2>3, <3>1, <3>2 DEF PrType
    <2>4. CASE pr[q].i = i /\ pr[q].pc = "lockwait"
        <3>1. w[q] = [pr[q] EXCEPT !.pc = "lock"]
            BY <1>1, <2>4
        <3>2. w[q] \in PrType
            BY <2>1, <3>1, PcSets DEF PrType
        <3> QED BY <2>1, <2>4, <3>1, <3>2 DEF PrType
    <2> QED BY <2>2, <2>3, <2>4
<1>5. w \in [Proc -> PrType]
    BY <1>2, <1>4
<1> QED BY <1>4, <1>5 DEF w

LEMMA IdleStep ==
    ASSUME Inv, NEW j \in Inode, NEW e \in Entry, ino' = [ino EXCEPT ![j] = e]
    PROVE  /\ Idle0' = IF e.count = 0 THEN Idle0 \cup {j} ELSE Idle0 \ {j}
           /\ \A i \in Inode : ino'[i] = IF i = j THEN e ELSE ino[i]
<1>1. \A i \in Inode : ino'[i] = IF i = j THEN e ELSE ino[i]
    BY DEF Inv
<1> QED BY <1>1 DEF Idle0

LEMMA UmNo ==
    ASSUME Inv, NEW p \in Proc, pr'[p].um = "no", pr'[p].pc # "closing"
    PROVE  UmOK(p)'
BY DEF UmOK

-----------------------------------------------------------------------------
(* iget() and getinode() *)

\* The step takes p to pc a with inode b, which is c; W are the inodes whose sleepers wake.
Goes(p, W, a, b, c) ==
    /\ pr' \in [Proc -> PrType] /\ Moved(p, W)
    /\ pr'[p].pc = a /\ pr'[p].i = b /\ pr'[p].id = c

LEMMA MovedSame ==
    ASSUME NEW p \in Proc, \A q \in Proc \ {p} : pr'[q] = pr[q]
    PROVE  Moved(p, {})
BY DEF Moved

LEMMA GoesPlain ==
    ASSUME Inv, NEW p \in Proc, NEW a \in RefPcs \cup {"idle", "iget", "igetwait", "closing"},
           NEW b \in 0 .. ninode, NEW c \in Ids \cup {None, Anon},
           pr' = [pr EXCEPT ![p].pc = a, ![p].i = b, ![p].id = c]
    PROVE  Goes(p, {}, a, b, c) /\ pr'[p].um = pr[p].um /\ pr'[p].then = pr[p].then
<1>1. pr \in [Proc -> PrType] /\ pr[p] \in PrType
    BY ProcFacts
<1>2. pr'[p] = [pr[p] EXCEPT !.pc = a, !.i = b, !.id = c] /\ \A q \in Proc \ {p} : pr'[q] = pr[q]
    BY <1>1
<1>3. pr'[p] \in PrType
    BY <1>1, <1>2 DEF PrType
<1>4. DOMAIN pr' = Proc /\ pr' = [q \in Proc |-> pr'[q]]
    BY <1>1
<1>5. pr' \in [Proc -> PrType]
    BY <1>1, <1>2, <1>3, <1>4
<1>6. /\ pr'[p].pc = a /\ pr'[p].i = b /\ pr'[p].id = c
      /\ pr'[p].um = pr[p].um /\ pr'[p].then = pr[p].then
    BY <1>1, <1>2 DEF PrType
<1>7. Moved(p, {})
    BY <1>2, MovedSame
<1> QED BY <1>5, <1>6, <1>7 DEF Goes

LEMMA GoesPc ==
    ASSUME Inv, NEW p \in Proc, NEW a \in RefPcs \cup {"idle", "iget", "igetwait", "closing"},
           pr' = [pr EXCEPT ![p].pc = a]
    PROVE  Goes(p, {}, a, pr[p].i, pr[p].id) /\ pr'[p].um = pr[p].um /\ pr'[p].then = pr[p].then
<1>1. pr \in [Proc -> PrType] /\ pr[p] \in PrType
    BY ProcFacts
<1>2. pr'[p] = [pr[p] EXCEPT !.pc = a] /\ \A q \in Proc \ {p} : pr'[q] = pr[q]
    BY <1>1
<1>3. pr'[p] \in PrType
    BY <1>1, <1>2 DEF PrType
<1>4. DOMAIN pr' = Proc /\ pr' = [q \in Proc |-> pr'[q]]
    BY <1>1
<1>5. pr' \in [Proc -> PrType]
    BY <1>1, <1>2, <1>3, <1>4
<1>6. /\ pr'[p].pc = a /\ pr'[p].i = pr[p].i /\ pr'[p].id = pr[p].id
      /\ pr'[p].um = pr[p].um /\ pr'[p].then = pr[p].then
    BY <1>1, <1>2 DEF PrType
<1>7. Moved(p, {})
    BY <1>2, MovedSame
<1> QED BY <1>5, <1>6, <1>7 DEF Goes

\* The new inode of ialloc().
Fresh(id, h) == [Busy(id) EXCEPT !.hash = h, !.locked = TRUE]

\* iget() makes an inode of a file that has none, getinode() one of no file.
Kind(id, h) == (id \in Ids /\ h = "on" /\ Hashed(id) = {}) \/ (id = Anon /\ h = "null")

\* The inode e is new.
NewInode(e, id, h) ==
    /\ e \in Entry /\ e.id = id /\ e.hash = h /\ ~e.valid /\ e.locked
    /\ ~e.error /\ ~e.mount /\ e.count = 1 /\ EntryOK(e)

LEMMA Allocated ==
    ASSUME Inv, NEW id, NEW h, NEW e, e = Fresh(id, h),
           Kind(id, h)
    PROVE  NewInode(e, id, h)
<1>1. InodeCacheConstants
    BY DEF Inv
<1>2. PICK b : b = Busy(id)
    OBVIOUS
<1> USE DEF Kind
<1>3. /\ b \in Entry /\ b.id = id /\ b.hash = "on" /\ ~b.valid /\ ~b.locked
      /\ ~b.want /\ ~b.error /\ ~b.mount /\ b.count = 1
    BY <1>1, <1>2, BusyFacts
<1>4. e = [b EXCEPT !.hash = h, !.locked = TRUE]
    BY <1>2 DEF Fresh
<1>5. e \in Entry
    BY <1>3, <1>4 DEF Entry
<1>6. /\ e.id = id /\ e.hash = h /\ ~e.valid /\ e.locked
      /\ ~e.error /\ ~e.mount /\ e.count = 1
    BY <1>3, <1>4 DEF Entry
<1>7. EntryOK(e)
    BY <1>1, <1>6, FreeFacts DEF EntryOK
<1> QED BY <1>5, <1>6, <1>7 DEF NewInode

LEMMA Ialloc ==
    ASSUME Inv, NEW p \in Proc, pr[p].pc \in {"idle", "iget"}, free # <<>>, NEW id, NEW h,
           Kind(id, h), id \in Mounted => RootThere /\ Um = "no",
           SetTable(ialloc(Table, id, h)), NEW pcn \in {"reading", "held"},
           Goes(p, {}, pcn, Head(free), id), pr'[p].um = pr[p].um, UNCHANGED <<mnt, cwd>>
    PROVE  Inv'
<1> USE PcSets
<1>0. PICK j, e : j = Head(free) /\ e = Fresh(id, h)
    OBVIOUS
<1>1. /\ e \in Entry /\ e.id = id /\ e.hash = h /\ ~e.valid /\ e.locked
      /\ ~e.error /\ ~e.mount /\ e.count = 1 /\ EntryOK(e)
    <2>1. NewInode(e, id, h)
        BY <1>0, Allocated
    <2> QED BY <2>1 DEF NewInode
<1>2. Lists(Tail(free), Idle0 \ {j}) /\ j \in Inode /\ j \in Idle0
    BY <1>0, TailLists DEF Inv
<1>3. ino[j].count = 0
    BY <1>2 DEF Idle0
<1>4. ino' = [ino EXCEPT ![j] = e] /\ free' = Tail(free)
    BY <1>0 DEF SetTable, ialloc, Table, Fresh
<1>5. Idle0' = Idle0 \ {j} /\ ino'[j] = e
    <2>1. /\ Idle0' = IF e.count = 0 THEN Idle0 \cup {j} ELSE Idle0 \ {j}
          /\ \A i \in Inode : ino'[i] = IF i = j THEN e ELSE ino[i]
        BY <1>1, <1>2, <1>4, IdleStep
    <2> QED BY <1>1, <1>2, <2>1
<1>6. Lists(free', Idle0')
    BY <1>2, <1>4, <1>5
<1>7. /\ ino[j].locked = FALSE
      /\ \A q \in Proc : pr[q].i = j => pr[q].pc \notin RefPcs \cup {"igetwait"}
    BY <1>2, <1>3, NoRefs, InodeFacts
<1>8. ~Fixed(j)
    <2>1. ~(ino[j].count > 0)
        BY <1>3
    <2>2. CASE j = RootIp /\ RootThere
        BY <2>1, <2>2, Pinned
    <2>3. CASE j = CovIp /\ mnt /\ Um # "covered"
        BY <2>1, <2>3, Pinned
    <2>4. CASE j = cwd
        BY <1>2, <2>1, <2>4, Pinned, InodeFacts
    <2> QED BY <2>2, <2>3, <2>4 DEF Fixed
<1>9. pr[p].um = "no"
    BY ProcFacts
<1>10. pr' \in [Proc -> PrType] /\ pr'[p].pc = pcn /\ pr'[p].i = j /\ pr'[p].id = id /\ Moved(p, {})
    BY <1>0 DEF Goes
<1>11. ProcOK(p)'
    BY <1>1, <1>2, <1>5, <1>10 DEF ProcOK
<1>12. UmOK(p)'
    BY <1>9, <1>10, UmNo
<1>13. /\ \A i \in Inode \ {j} : Lk(pr'[p], i) <=> Lk(pr[p], i)
       /\ \A i \in Inode \ {j} : Rf(pr'[p], i) = Rf(pr[p], i)
       /\ Lk(pr'[p], j) /\ \A q \in Proc \ {p} : ~Lk(pr[q], j)
       /\ Rf(pr'[p], j) = 1 /\ Rf(pr[p], j) = 0
    BY <1>7, <1>10 DEF Lk, Rf
<1>14. /\ e.count - ino[j].count = Rf(pr'[p], j) - Rf(pr[p], j)
       /\ e.hash = "on" => (ino[j].hash = "on" /\ e.id = ino[j].id) \/ Hashed(e.id) = {}
       /\ e.id \in Mounted => e.id = ino[j].id \/ (RootThere /\ Um = "no")
       /\ e.mount => ino[j].mount
       /\ e \in Entry /\ EntryOK(e)
    BY <1>1, <1>3, <1>13 DEF Kind
<1>15. NewProc(p, {}) /\ NewEntry(j, e)
    BY <1>4, <1>6, <1>10, <1>11, <1>12, <1>14 DEF NewProc, NewEntry
<1>16. KeepsFixed(j, e) /\ KeepsOthers(p, {}, j, e)
    BY <1>1, <1>7, <1>8, <1>13, <1>14 DEF KeepsFixed, KeepsOthers
<1>17. LocksOnly(p, j, e) /\ CountsOnly(p, j, e)
    BY <1>13, <1>14 DEF LocksOnly, CountsOnly
<1> QED BY <1>2, <1>9, <1>15, <1>16, <1>17, CalmStep

-----------------------------------------------------------------------------
(* The table as a record. *)

\* The tables that the operators on T work on.
Tables == [ino : [Inode -> Entry], free : Seq(Inode)]

LEMMA TableType ==
    ASSUME Inv
    PROVE  Table \in Tables /\ Table.ino = ino /\ Table.free = free
BY DEF Tables, Inv, Table, Lists

\* The lock and the sleepers aside, an entry is as it was.
EntrySame(e, t) ==
    /\ e.id = t.id /\ e.hash = t.hash /\ e.valid = t.valid /\ e.error = t.error
    /\ e.mount = t.mount /\ e.count = t.count

LEMMA EntryFields ==
    ASSUME NEW e \in Entry
    PROVE  /\ \E f \in Entry : f = [e EXCEPT !.want = TRUE] /\ EntrySame(f, e) /\ f.locked = e.locked /\ f.want
           /\ \E f \in Entry : f = [e EXCEPT !.locked = TRUE] /\ EntrySame(f, e) /\ f.locked /\ f.want = e.want
<1>1. ASSUME NEW f, f = [e EXCEPT !.want = TRUE]
      PROVE  f \in Entry /\ EntrySame(f, e) /\ f.locked = e.locked /\ f.want
    BY <1>1 DEF Entry, EntrySame
<1>2. ASSUME NEW f, f = [e EXCEPT !.locked = TRUE]
      PROVE  f \in Entry /\ EntrySame(f, e) /\ f.locked /\ f.want = e.want
    BY <1>2 DEF Entry, EntrySame
<1> QED BY <1>1, <1>2

TableWant(T, j) == SetTable([T EXCEPT !.ino[j].want = TRUE])
TableLock(T, j) == SetTable([T EXCEPT !.ino[j].locked = TRUE])

LEMMA TableSets ==
    ASSUME NEW T \in Tables, NEW j \in Inode
    PROVE  /\ TableWant(T, j) =>
                /\ free' = T.free
                /\ \E e \in Entry : /\ ino' = [T.ino EXCEPT ![j] = e] /\ EntrySame(e, T.ino[j])
                                    /\ e.locked = T.ino[j].locked /\ e.want
           /\ TableLock(T, j) =>
                /\ free' = T.free
                /\ \E e \in Entry : /\ ino' = [T.ino EXCEPT ![j] = e] /\ EntrySame(e, T.ino[j])
                                    /\ e.locked /\ e.want = T.ino[j].want
<1>0. T.ino[j] \in Entry
    BY DEF Tables
<1>1. ASSUME TableWant(T, j)
      PROVE  ino' = [T.ino EXCEPT ![j] = [T.ino[j] EXCEPT !.want = TRUE]] /\ free' = T.free
    BY <1>1 DEF TableWant, SetTable, Tables
<1>2. ASSUME TableLock(T, j)
      PROVE  ino' = [T.ino EXCEPT ![j] = [T.ino[j] EXCEPT !.locked = TRUE]] /\ free' = T.free
    BY <1>2 DEF TableLock, SetTable, Tables
<1>3. PICK e \in Entry : /\ e = [T.ino[j] EXCEPT !.want = TRUE] /\ EntrySame(e, T.ino[j])
                        /\ e.locked = T.ino[j].locked /\ e.want
    BY <1>0, EntryFields
<1>4. PICK f \in Entry : /\ f = [T.ino[j] EXCEPT !.locked = TRUE] /\ EntrySame(f, T.ino[j])
                        /\ f.locked /\ f.want = T.ino[j].want
    BY <1>0, EntryFields
<1>5. TableWant(T, j) => ino' = [T.ino EXCEPT ![j] = e] /\ free' = T.free
    BY <1>1, <1>3
<1>6. TableLock(T, j) => ino' = [T.ino EXCEPT ![j] = f] /\ free' = T.free
    BY <1>2, <1>4
<1> QED BY <1>3, <1>4, <1>5, <1>6

\* Both updates of one inode.
LEMMA TwiceSet ==
    ASSUME Inv, NEW j \in Inode, NEW t, NEW e, NEW f, f = [ino EXCEPT ![j] = t]
    PROVE  [f EXCEPT ![j] = e] = [ino EXCEPT ![j] = e] /\ f[j] = t
BY DEF Inv

-----------------------------------------------------------------------------
(* A reference to inode j is taken: that becomes t. *)

NewRef(T, j, t) ==
    /\ T \in Tables /\ T.ino = [ino EXCEPT ![j] = t] /\ t \in Entry
    /\ t.id = ino[j].id /\ t.hash = ino[j].hash /\ ~t.valid /\ t.locked = ino[j].locked
    /\ t.error = ino[j].error /\ t.mount = ino[j].mount
    /\ t.count = ino[j].count + 1
    /\ Lists(T.free, Idle0 \ {j})

LEMMA GoesWaiting ==
    ASSUME Inv, NEW p \in Proc, NEW b \in 0 .. ninode, NEW c \in Ids \cup {None, Anon},
           pr' = [pr EXCEPT ![p].pc = "lockwait", ![p].i = b, ![p].id = c, ![p].then = "held"]
    PROVE  Goes(p, {}, "lockwait", b, c) /\ pr'[p].um = pr[p].um
<1>1. pr \in [Proc -> PrType] /\ pr[p] \in PrType
    BY ProcFacts
<1>2. /\ pr'[p] = [pr[p] EXCEPT !.pc = "lockwait", !.i = b, !.id = c, !.then = "held"]
      /\ \A q \in Proc \ {p} : pr'[q] = pr[q]
    BY <1>1
<1>3. pr'[p] \in PrType
    BY <1>1, <1>2, PcSets DEF PrType
<1>4. DOMAIN pr' = Proc /\ pr' = [q \in Proc |-> pr'[q]]
    BY <1>1
<1>5. pr' \in [Proc -> PrType]
    BY <1>1, <1>2, <1>3, <1>4
<1>6. pr'[p].pc = "lockwait" /\ pr'[p].i = b /\ pr'[p].id = c /\ pr'[p].um = pr[p].um
    BY <1>1, <1>2 DEF PrType
<1>7. Moved(p, {})
    BY <1>2, MovedSame
<1> QED BY <1>5, <1>6, <1>7 DEF Goes

\* The reference has been counted, and the inode e is locked for p, or p waits for it.
LEMMA HasNew ==
    ASSUME Inv, NEW p \in Proc, pr[p].pc \in {"idle", "iget"}, NEW j \in Inode, ino[j].hash = "on",
           ino[j].locked => Fixed(j) /\ Umounter = None,
           NEW T, NEW t, NewRef(T, j, t), NEW e \in Entry, NEW pcn,
           ino' = [ino EXCEPT ![j] = e], free' = T.free,
           EntrySame(e, t), e.locked,
           (pcn = "lockwait" /\ t.locked /\ e.want) \/ (pcn = "held" /\ ~t.locked),
           Goes(p, {}, pcn, j, t.id), pr'[p].um = pr[p].um, UNCHANGED <<mnt, cwd>>
    PROVE  Inv'
<1> USE PcSets
<1>1. /\ e.id = ino[j].id /\ e.hash = "on" /\ ~e.valid /\ e.error = ino[j].error
      /\ e.mount = ino[j].mount /\ e.count = ino[j].count + 1 /\ t.locked = ino[j].locked
    BY DEF NewRef, EntrySame
<1>2. EntryOK(ino[j]) /\ ino[j].count \in Nat
    BY InodeFacts DEF Inv
<1>3. EntryOK(e)
    BY <1>1, <1>2 DEF EntryOK
<1>4. Idle0' = Idle0 \ {j} /\ ino'[j] = e
    <2>1. /\ Idle0' = IF e.count = 0 THEN Idle0 \cup {j} ELSE Idle0 \ {j}
          /\ \A i \in Inode : ino'[i] = IF i = j THEN e ELSE ino[i]
        BY IdleStep
    <2> QED BY <1>1, <1>2, <2>1
<1>5. NewEntry(j, e)
    <2>1. Lists(free', Idle0')
        BY <1>4 DEF NewRef
    <2> QED BY <1>1, <1>3, <2>1 DEF NewEntry
<1>6. pr' \in [Proc -> PrType] /\ Moved(p, {}) /\ pr'[p].pc = pcn /\ pr'[p].i = j /\ pr'[p].id = e.id
    BY DEF Goes, EntrySame
<1>7. pr[p].um = "no"
    BY ProcFacts
<1>8. ProcOK(p)'
    BY <1>4, <1>6 DEF ProcOK
<1>9. UmOK(p)'
    BY <1>6, <1>7, UmNo
<1>10. NewProc(p, {})
    BY <1>6, <1>8, <1>9 DEF NewProc
<1>11. \A q \in Proc : ProcOK(q)
    BY DEF Inv
<1>12. \A q \in Proc : pr[q].i = j => pr[q].pc \notin {"reading", "putting"}
    <2> SUFFICES ASSUME NEW q \in Proc, pr[q].i = j, pr[q].pc \in {"reading", "putting"} PROVE FALSE
        OBVIOUS
    <2>1. ino[j].locked /\ ino[j].count = 1
        BY <1>11 DEF ProcOK
    <2>2. pr[q].um # "root"
        BY <2>1, ProcFacts DEF Inv, InodeCacheConstants
    <2> QED BY <2>1, <2>2, NotFixed
<1>13. KeepsOthers(p, {}, j, e)
    <2>1. \A q \in Proc \ {p} : pr[q].i = j /\ pr[q].pc \in {"igetwait", "lockwait"} => ino[j].locked /\ ino[j].want
        BY <1>11 DEF ProcOK
    <2>2. ASSUME ino[j].locked, ino[j].want PROVE e.want
        BY <1>1, <2>2
    <2> QED BY <1>1, <1>12, <2>1, <2>2 DEF KeepsOthers
<1>14. KeepsFixed(j, e)
    BY <1>1 DEF KeepsFixed
<1>15. LockOK(j)
    BY DEF Inv
<1>16. LocksOnly(p, j, e)
    <2>1. \A i \in Inode \ {j} : Lk(pr'[p], i) <=> Lk(pr[p], i)
        BY <1>6 DEF Lk
    <2>2. pcn = "held" => \A q \in Proc : ~Lk(pr[q], j)
        BY <1>1, <1>11 DEF Lk, ProcOK
    <2>3. pcn = "held" => Lk(pr'[p], j)
        BY <1>6 DEF Lk
    <2>4. pcn = "lockwait" => ~Lk(pr'[p], j) /\ ~Lk(pr[p], j) /\ ino[j].locked
        BY <1>1, <1>6 DEF Lk
    <2>5. ino[j].locked => \E q \in Proc : Lk(pr[q], j)
        BY <1>15 DEF LockOK, Lk
    <2> QED BY <2>1, <2>2, <2>3, <2>4, <2>5 DEF LocksOnly
<1>17. CountsOnly(p, j, e)
    <2>1. \A i \in Inode \ {j} : Rf(pr'[p], i) = Rf(pr[p], i)
        BY <1>6 DEF Rf
    <2>2. Rf(pr'[p], j) = 1 /\ Rf(pr[p], j) = 0
        BY <1>6 DEF Rf
    <2> QED BY <1>1, <1>2, <2>1, <2>2 DEF CountsOnly
<1> QED BY <1>5, <1>7, <1>10, <1>13, <1>14, <1>16, <1>17, CalmStep

LEMMA Takes ==
    ASSUME Inv, NEW p \in Proc, pr[p].pc \in {"idle", "iget"}, NEW j \in Inode, ino[j].hash = "on",
           ino[j].locked => Fixed(j) /\ Umounter = None,
           NEW T, NEW t, NewRef(T, j, t), Locks(T, p, j), UNCHANGED <<mnt, cwd>>
    PROVE  Inv'
<1>1. T \in Tables /\ T.ino = [ino EXCEPT ![j] = t] /\ t \in Entry /\ T.ino[j] = t
    BY TwiceSet DEF NewRef
<1>2. j \in 0 .. ninode /\ t.id \in Ids \cup {None, Anon}
    BY <1>1, InodeFacts DEF Entry
<1>3. CASE t.locked
    <2>1. TableWant(T, j)
        BY <1>1, <1>3 DEF Locks, TableWant
    <2>2. PICK e \in Entry : /\ ino' = [T.ino EXCEPT ![j] = e] /\ EntrySame(e, T.ino[j])
                            /\ e.locked = T.ino[j].locked /\ e.want
        BY <1>1, <2>1, TableSets
    <2>3. ino' = [ino EXCEPT ![j] = e] /\ free' = T.free
        BY <1>1, <2>1, <2>2, TwiceSet, TableSets
    <2>5. pr' = [pr EXCEPT ![p].pc = "lockwait", ![p].i = j, ![p].id = t.id, ![p].then = "held"]
        BY <1>1, <1>3 DEF Locks
    <2>6. Goes(p, {}, "lockwait", j, t.id) /\ pr'[p].um = pr[p].um
        BY <1>2, <2>5, GoesWaiting
    <2>7. PICK pcn : pcn = "lockwait"
        OBVIOUS
    <2> QED BY <1>1, <1>3, <2>2, <2>3, <2>6, <2>7, HasNew
<1>4. CASE ~t.locked
    <2>1. TableLock(T, j)
        BY <1>1, <1>4 DEF Locks, TableLock
    <2>2. PICK e \in Entry : /\ ino' = [T.ino EXCEPT ![j] = e] /\ EntrySame(e, T.ino[j]) /\ e.locked
        BY <1>1, <2>1, TableSets
    <2>3. ino' = [ino EXCEPT ![j] = e] /\ free' = T.free
        BY <1>1, <2>1, <2>2, TwiceSet, TableSets
    <2>5. pr' = [pr EXCEPT ![p].pc = "held", ![p].i = j, ![p].id = t.id]
        BY <1>1, <1>4 DEF Locks
    <2>6. Goes(p, {}, "held", j, t.id) /\ pr'[p].um = pr[p].um
        BY <1>2, <2>5, GoesPlain, PcSets
    <2> QED BY <1>1, <1>4, <2>2, <2>3, <2>6, HasNew
<1> QED BY <1>3, <1>4

\* The inode as it was, but not on the free list.
Unfree(s, e) ==
    /\ s \in Entry /\ s.id = e.id /\ s.hash = e.hash /\ ~s.valid /\ s.locked = e.locked
    /\ s.want = e.want /\ s.error = e.error /\ s.mount = e.mount /\ s.count = e.count

LEMMA Counted ==
    ASSUME Inv, NEW T \in Tables, NEW j \in Inode, NEW s, Unfree(s, ino[j]),
           T.ino = [ino EXCEPT ![j] = s], Lists(T.free, Idle0 \ {j}), ino[j].count < MaxRefs
    PROVE  \E t : NewRef([T EXCEPT !.ino[j].count = @ + 1], j, t)
<1>1. T.ino[j] = s /\ ino[j].count \in Nat /\ MaxRefs \in Nat /\ T.ino \in [Inode -> Entry]
    BY InodeFacts DEF Inv, Tables
<1>2. PICK t : t = [s EXCEPT !.count = @ + 1]
    OBVIOUS
<1>3. PICK U : U = [T EXCEPT !.ino[j].count = @ + 1]
    OBVIOUS
<1>4. ino[j].count + 1 \in 0 .. MaxRefs
    BY <1>1
<1>5. t \in Entry
    <2>1. s \in Entry /\ s.count = ino[j].count
        BY DEF Unfree
    <2>2. PICK n \in 0 .. MaxRefs : n = s.count + 1
        BY <1>4, <2>1
    <2>3. t = [s EXCEPT !.count = n]
        BY <1>2, <2>2
    <2> QED BY <2>1, <2>3 DEF Entry
<1>6. U.ino = [T.ino EXCEPT ![j] = t] /\ U.free = T.free /\ DOMAIN U = {"ino", "free"}
    BY <1>1, <1>2, <1>3 DEF Tables
<1>7. U.ino = [ino EXCEPT ![j] = t]
    BY <1>6, TwiceSet
<1>8. U \in Tables
    <2>1. PICK x : x = [T.ino EXCEPT ![j] = t]
        OBVIOUS
    <2>2. x \in [Inode -> Entry]
        BY <1>1, <1>5, <2>1
    <2>3. U = [T EXCEPT !.ino = x]
        BY <1>1, <1>2, <1>3, <2>1 DEF Tables
    <2> QED BY <2>2, <2>3 DEF Tables
<1>9. t.id = s.id /\ t.hash = s.hash /\ t.valid = s.valid /\ t.locked = s.locked
      /\ t.error = s.error /\ t.mount = s.mount /\ t.count = s.count + 1
    BY <1>2 DEF Unfree, Entry
<1>10. NewRef(U, j, t)
    BY <1>5, <1>6, <1>7, <1>8, <1>9 DEF NewRef, Unfree
<1> QED BY <1>3, <1>10

\* Inodes of hash chains that are not cached are in use.
LEMMA InUse ==
    ASSUME Inv, NEW i \in Inode, ino[i].hash = "on"
    PROVE  (ino[i].valid <=> ino[i].count = 0) /\ (ino[i].valid => ~ino[i].locked)
<1>1. EntryOK(ino[i]) /\ ino[i].count \in Nat
    BY InodeFacts DEF Inv
<1>2. ino[i].hash # FreeInode.hash
    BY DEF FreeInode
<1> QED BY <1>1, <1>2, LockedHas DEF EntryOK

LEMMA TakenFacts ==
    ASSUME Inv, NEW i \in Inode, ino[i].hash = "on"
    PROVE  /\ TakenFree(i) \in Tables /\ Lists(TakenFree(i).free, Idle0 \ {i})
           /\ \E s : Unfree(s, ino[i]) /\ TakenFree(i).ino = [ino EXCEPT ![i] = s]
           /\ ~ino[i].valid => TakenFree(i) = Table
<1>1. ino[i] \in Entry /\ Lists(free, Idle0) /\ ino[i].count \in Nat /\ ino \in [Inode -> Entry]
    BY InodeFacts DEF Inv
<1>2. CASE ino[i].valid
    <2>1. PICK s : s = [ino[i] EXCEPT !.valid = FALSE]
        OBVIOUS
    <2>2. Unfree(s, ino[i])
        BY <1>1, <2>1 DEF Unfree, Entry
    <2>3. TakenFree(i) = [ino |-> [ino EXCEPT ![i].valid = FALSE], free |-> Off(free, i)]
        BY <1>2 DEF TakenFree
    <2>4. TakenFree(i).ino = [ino EXCEPT ![i] = s] /\ TakenFree(i).free = Off(free, i)
        BY <1>1, <2>1, <2>3
    <2>5. i \in Idle0
        BY <1>2, InUse DEF Idle0
    <2>6. Lists(Off(free, i), Idle0 \ {i})
        BY <1>1, <2>5, OffLists
    <2>7. [ino EXCEPT ![i] = s] \in [Inode -> Entry]
        BY <1>1, <2>2 DEF Unfree
    <2>8. TakenFree(i) \in Tables
        <3>1. Off(free, i) \in Seq(Inode)
            BY <2>6 DEF Lists
        <3>2. PICK x : x = [ino EXCEPT ![i].valid = FALSE]
            OBVIOUS
        <3>3. TakenFree(i) = [ino |-> x, free |-> Off(free, i)]
            BY <2>3, <3>2
        <3>4. x \in [Inode -> Entry]
            BY <2>4, <2>7, <3>3
        <3> QED BY <3>1, <3>3, <3>4 DEF Tables
    <2> QED BY <1>2, <2>2, <2>4, <2>6, <2>8
<1>3. CASE ~ino[i].valid
    <2>1. TakenFree(i) = Table
        BY <1>3 DEF TakenFree
    <2>2. i \notin Idle0
        BY <1>3, InUse DEF Idle0
    <2>3. Idle0 \ {i} = Idle0
        BY <2>2
    <2>4. Unfree(ino[i], ino[i]) /\ ino = [ino EXCEPT ![i] = ino[i]]
        BY <1>1, <1>3 DEF Unfree
    <2> QED BY <1>1, <2>1, <2>3, <2>4, TableType
<1> QED BY <1>2, <1>3

-----------------------------------------------------------------------------
(* The branches of iget() *)

LEMMA IgetFails ==
    ASSUME Inv, NEW p \in Proc, pr[p].pc = "iget",
           Goes(p, {}, "idle", 0, None), pr'[p].um = pr[p].um, UNCHANGED <<ino, free, mnt, cwd>>
    PROVE  Inv'
<1> USE PcSets
<1>1. pr[p].um = "no"
    BY ProcFacts
<1>2. /\ pr' \in [Proc -> PrType] /\ Moved(p, {}) /\ pr'[p].pc = "idle"
    BY DEF Goes
<1>3. ProcOK(p)' /\ UmOK(p)'
    BY <1>1, <1>2, UmNo DEF ProcOK
<1>4. \A i \in Inode : (Lk(pr'[p], i) <=> Lk(pr[p], i)) /\ Rf(pr'[p], i) = Rf(pr[p], i)
    BY <1>2 DEF Lk, Rf
<1> QED BY <1>1, <1>2, <1>3, <1>4, AloneStep

LEMMA IgetWaits ==
    ASSUME Inv, NEW p \in Proc, pr[p].pc \in {"idle", "iget"}, NEW i \in Inode, ino[i].locked,
           NEW id \in Reach, id \in Mounted => Nfs \/ (p = Cwd /\ cwd # 0),
           TableWant(Table, i),
           Goes(p, {}, "igetwait", i, id), pr'[p].um = pr[p].um, UNCHANGED <<mnt, cwd>>
    PROVE  Inv'
<1> USE PcSets
<1>1. pr[p].um = "no"
    BY ProcFacts
<1>2. PICK e \in Entry : /\ ino' = [ino EXCEPT ![i] = e] /\ EntrySame(e, ino[i])
                         /\ e.locked = ino[i].locked /\ e.want
    BY TableSets, TableType
<1>3. free' = free
    BY TableSets, TableType
<1>4. ino[i].count > 0 /\ ino[i].count \in Nat /\ EntryOK(ino[i]) /\ Lists(free, Idle0)
    BY LockedHas, InodeFacts DEF Inv
<1>5. EntryOK(e)
    BY <1>2, <1>4 DEF EntryOK, EntrySame
<1>6. Idle0' = Idle0 /\ ino'[i] = e
    <2>1. /\ Idle0' = IF e.count = 0 THEN Idle0 \cup {i} ELSE Idle0 \ {i}
          /\ \A k \in Inode : ino'[k] = IF k = i THEN e ELSE ino[k]
        BY <1>2, IdleStep
    <2>2. i \notin Idle0 /\ e.count # 0
        BY <1>2, <1>4 DEF Idle0, EntrySame
    <2> QED BY <2>1, <2>2
<1>7. NewEntry(i, e)
    BY <1>2, <1>3, <1>4, <1>5, <1>6 DEF NewEntry, EntrySame
<1>8. pr' \in [Proc -> PrType] /\ Moved(p, {}) /\ pr'[p].pc = "igetwait" /\ pr'[p].i = i /\ pr'[p].id = id
    BY DEF Goes
<1>9. ProcOK(p)' /\ UmOK(p)'
    BY <1>1, <1>2, <1>6, <1>8, UmNo DEF ProcOK
<1>10. NewProc(p, {})
    BY <1>8, <1>9 DEF NewProc
<1>11. \A q \in Proc : ProcOK(q)
    BY DEF Inv
<1>12. KeepsOthers(p, {}, i, e) /\ KeepsFixed(i, e)
    BY <1>2, <1>11 DEF KeepsOthers, KeepsFixed, EntrySame, ProcOK, Lk
<1>13. \A k \in Inode : ~Lk(pr'[p], k) /\ ~Lk(pr[p], k) /\ Rf(pr'[p], k) = 0 /\ Rf(pr[p], k) = 0
    BY <1>8 DEF Lk, Rf
<1>14. LockOK(i)
    BY DEF Inv
<1>15. LocksOnly(p, i, e)
    BY <1>13, <1>14 DEF LocksOnly, LockOK, Lk
<1>16. CountsOnly(p, i, e)
    BY <1>2, <1>4, <1>13 DEF CountsOnly, EntrySame
<1> QED BY <1>1, <1>7, <1>10, <1>12, <1>15, <1>16, CalmStep

LEMMA IgetStep ==
    ASSUME Inv, NEW p \in Proc, NEW id \in Ids, iget(p, id)
    PROVE  Inv'
<1> USE PcSets
<1>1. /\ pr[p].pc \in {"idle", "iget"} /\ UNCHANGED <<mnt, cwd>> /\ id \in Reach
      /\ id \in Mounted => Nfs \/ (p = Cwd /\ cwd # 0)
    BY ProcFacts DEF iget, Known, ProcOK
<1>2. id \in Mounted => RootThere /\ Um = "no"
    <2>1. cwd # 0 => mnt /\ Um = "no"
        BY DEF Inv, PhaseOK
    <2>2. Nfs => Umounter = None /\ mnt /\ Um = "no"
        BY DEF Inv, NoRace, PhaseOK, Um
    <2> QED BY <1>1, <2>1, <2>2 DEF RootThere
<1>3. ASSUME IgetMiss(p, id) PROVE Inv'
    <2>1. Hashed(id) = {}
        BY <1>3 DEF IgetMiss
    <2>2. ASSUME pr[p].pc = "iget", UNCHANGED <<ino, free>>,
                 pr' = [pr EXCEPT ![p].pc = "idle", ![p].i = 0, ![p].id = None]
          PROVE  Inv'
        <3>1. Goes(p, {}, "idle", 0, None) /\ pr'[p].um = pr[p].um
            <4>1. PICK b \in 0 .. ninode : b = 0
                BY InodeFacts
            <4>2. pr' = [pr EXCEPT ![p].pc = "idle", ![p].i = b, ![p].id = None]
                BY <2>2, <4>1
            <4>3. Goes(p, {}, "idle", b, None) /\ pr'[p].um = pr[p].um
                BY <4>2, GoesPlain
            <4> QED BY <4>1, <4>3
        <3> QED BY <1>1, <2>2, <3>1, IgetFails
    <2>3. ASSUME free # <<>>, SetTable(ialloc(Table, id, "on")),
                 pr' = [pr EXCEPT ![p].pc = "reading", ![p].i = Head(free), ![p].id = id]
          PROVE  Inv'
        <3>1. Head(free) \in 0 .. ninode
            BY <2>3, TailLists, InodeFacts DEF Inv
        <3>2. Goes(p, {}, "reading", Head(free), id) /\ pr'[p].um = pr[p].um
            BY <2>3, <3>1, GoesPlain
        <3>3. PICK h, pcn : h = "on" /\ pcn = "reading"
            OBVIOUS
        <3>4. Kind(id, h)
            BY <2>1, <3>3 DEF Kind
        <3>5. SetTable(ialloc(Table, id, h)) /\ Goes(p, {}, pcn, Head(free), id)
            BY <2>3, <3>2, <3>3
        <3> QED BY <1>1, <1>2, <2>3, <3>2, <3>3, <3>4, <3>5, Ialloc
    <2> QED BY <1>3, <2>2, <2>3 DEF IgetMiss
<1>4. ASSUME IgetHit(p, id) PROVE Inv'
    <2>1. PICK i \in Hashed(id) :
        \/ /\ ino[i].locked /\ SetTable([TakenFree(i) EXCEPT !.ino[i].want = TRUE])
           /\ pr' = [pr EXCEPT ![p].pc = "igetwait", ![p].i = i, ![p].id = id]
        \/ /\ ~ino[i].locked /\ ino[i].mount /\ ino[RootIp].count < MaxRefs
           /\ Locks([TakenFree(i) EXCEPT !.ino[RootIp].count = @ + 1], p, RootIp)
        \/ /\ ~ino[i].locked /\ ~ino[i].mount /\ ino[i].count < MaxRefs
           /\ Locks([TakenFree(i) EXCEPT !.ino[i].count = @ + 1], p, i)
        BY <1>4, Zenon DEF IgetHit
    <2>2. i \in Inode /\ ino[i].hash = "on" /\ ino[i].id = id
        BY DEF Hashed
    <2>3. /\ TakenFree(i) \in Tables /\ Lists(TakenFree(i).free, Idle0 \ {i})
          /\ \E s : Unfree(s, ino[i]) /\ TakenFree(i).ino = [ino EXCEPT ![i] = s]
          /\ ~ino[i].valid => TakenFree(i) = Table
        BY <2>2, TakenFacts
    <2>4. ASSUME ino[i].locked, SetTable([TakenFree(i) EXCEPT !.ino[i].want = TRUE]),
                 pr' = [pr EXCEPT ![p].pc = "igetwait", ![p].i = i, ![p].id = id]
          PROVE  Inv'
        <3>1. TableWant(Table, i)
            <4>1. TakenFree(i) = Table
                BY <2>2, <2>3, <2>4, InUse
            <4> QED BY <2>4, <4>1, Zenon DEF TableWant
        <3>2. Goes(p, {}, "igetwait", i, id) /\ pr'[p].um = pr[p].um
            BY <2>2, <2>4, GoesPlain, InodeFacts
        <3> QED BY <1>1, <2>2, <2>4, <3>1, <3>2, IgetWaits
    <2>5. ASSUME ~ino[i].locked, ino[i].mount, ino[RootIp].count < MaxRefs,
                 Locks([TakenFree(i) EXCEPT !.ino[RootIp].count = @ + 1], p, RootIp)
          PROVE  Inv'
        <3>1. i = CovIp /\ mnt /\ Um # "covered" /\ ino[CovIp].id = Cov
            BY <2>2, <2>5 DEF Inv, PhaseOK
        <3>2. Umounter = None /\ Um = "no" /\ RootThere
            BY <1>1, <2>2, <3>1 DEF Inv, NoRace, Um, RootThere
        <3>3. RootIp \in Inode /\ Fixed(RootIp) /\ ino[RootIp].id = Root /\ EntryOK(ino[RootIp])
            BY <3>2, InodeFacts DEF Fixed, Inv, PhaseOK
        <3>4. ino[RootIp].hash = "on" /\ ino[RootIp].count > 0
            BY <3>2, <3>3, Pinned DEF EntryOK, Ids
        <3>5. ino[CovIp].count > 0 /\ ino[CovIp].count \in Nat
            BY <3>1, Pinned, InodeFacts
        <3>6. TakenFree(i) = Table
            BY <2>2, <2>3, <3>1, <3>5, InUse
        <3>7. RootIp \notin Idle0 /\ ~ino[RootIp].valid
            BY <3>3, <3>4, InUse, InodeFacts DEF Idle0
        <3>8. PICK T : T = Table
            OBVIOUS
        <3>9. T \in Tables /\ T.ino = [ino EXCEPT ![RootIp] = ino[RootIp]] /\ Lists(T.free, Idle0 \ {RootIp})
            <4>1. Idle0 \ {RootIp} = Idle0
                BY <3>7
            <4>2. Lists(free, Idle0) /\ ino = [ino EXCEPT ![RootIp] = ino[RootIp]]
                BY DEF Inv
            <4> QED BY <3>8, <4>1, <4>2, TableType
        <3>10. PICK s : s = ino[RootIp]
            OBVIOUS
        <3>11. Unfree(s, ino[RootIp])
            BY <3>3, <3>7, <3>10, InodeFacts DEF Unfree
        <3>12. PICK t : NewRef([T EXCEPT !.ino[RootIp].count = @ + 1], RootIp, t)
            BY <2>5, <3>3, <3>9, <3>10, <3>11, Counted
        <3>13. Locks([T EXCEPT !.ino[RootIp].count = @ + 1], p, RootIp)
            BY <2>5, <3>6, <3>8, Zenon
        <3>14. PICK U : U = [T EXCEPT !.ino[RootIp].count = @ + 1]
            OBVIOUS
        <3>15. NewRef(U, RootIp, t) /\ Locks(U, p, RootIp)
            BY <3>12, <3>13, <3>14
        <3> QED BY <1>1, <3>2, <3>3, <3>4, <3>15, Takes
    <2>6. ASSUME ~ino[i].locked, ~ino[i].mount, ino[i].count < MaxRefs,
                 Locks([TakenFree(i) EXCEPT !.ino[i].count = @ + 1], p, i)
          PROVE  Inv'
        <3>1. PICK T : T = TakenFree(i)
            OBVIOUS
        <3>2. PICK s : Unfree(s, ino[i]) /\ T.ino = [ino EXCEPT ![i] = s]
            BY <2>3, <3>1
        <3>3. PICK t : NewRef([T EXCEPT !.ino[i].count = @ + 1], i, t)
            BY <2>2, <2>3, <2>6, <3>1, <3>2, Counted
        <3>4. PICK U : U = [T EXCEPT !.ino[i].count = @ + 1]
            OBVIOUS
        <3>5. NewRef(U, i, t) /\ Locks(U, p, i)
            BY <2>6, <3>1, <3>3, <3>4
        <3> QED BY <1>1, <2>2, <2>6, <3>5, Takes
    <2> QED BY <2>1, <2>4, <2>5, <2>6
<1> QED BY <1>3, <1>4 DEF iget

LEMMA GetinodeStep ==
    ASSUME Inv, NEW p \in Proc, getinode(p)
    PROVE  Inv'
<1>1. /\ pr[p].pc = "idle" /\ free # <<>> /\ SetTable(ialloc(Table, Anon, "null"))
      /\ pr' = [pr EXCEPT ![p].pc = "held", ![p].i = Head(free), ![p].id = Anon] /\ UNCHANGED <<mnt, cwd>>
    BY DEF getinode
<1>2. Head(free) \in 0 .. ninode
    BY <1>1, TailLists, InodeFacts DEF Inv
<1>3. Goes(p, {}, "held", Head(free), Anon) /\ pr'[p].um = pr[p].um
    BY <1>1, <1>2, GoesPlain, PcSets
<1>4. PICK h, pcn : h = "null" /\ pcn = "held"
    OBVIOUS
<1>5. Kind(Anon, h)
    BY <1>4 DEF Kind
<1>6. SetTable(ialloc(Table, Anon, h)) /\ Goes(p, {}, pcn, Head(free), Anon)
    BY <1>1, <1>3, <1>4
<1>7. Anon \notin Mounted
    BY DEF Inv, InodeCacheConstants, Ids, Mounted
<1> QED BY <1>1, <1>3, <1>4, <1>5, <1>6, <1>7, Ialloc

-----------------------------------------------------------------------------
(* Processes that go on after waking others. *)

Idled(r, z) == [r EXCEPT !.pc = "idle", !.i = z, !.id = None, !.um = "no"]

LEMMA IdleFields ==
    ASSUME NEW r \in PrType, NEW f, NEW z \in 0 .. ninode, f = Idled(r, z)
    PROVE  f \in PrType /\ f.pc = "idle" /\ f.i = z /\ f.id = None /\ f.um = "no"
BY DEF PrType, Idled

LEMMA WokenMoves ==
    ASSUME Inv, NEW p \in Proc, NEW i \in Inode, \A q \in Proc \ {p} : pr'[q] = Woken(pr, i)[q]
    PROVE  Moved(p, {i})
<1>1. PICK w : w = Woken(pr, i)
    OBVIOUS
<1>2. \A q \in Proc : /\ w[q].i = pr[q].i /\ w[q].id = pr[q].id /\ w[q].then = pr[q].then /\ w[q].um = pr[q].um
                      /\ w[q].pc = IF pr[q].i = i /\ pr[q].pc = "igetwait" THEN "iget"
                                   ELSE IF pr[q].i = i /\ pr[q].pc = "lockwait" THEN "lock" ELSE pr[q].pc
    BY <1>1, WokenFacts
<1>3. \A q \in Proc \ {p} : pr'[q] = w[q]
    BY <1>1
<1> QED BY <1>2, <1>3 DEF Moved

LEMMA GoesWoken ==
    ASSUME Inv, NEW p \in Proc, pr[p].pc \notin {"igetwait", "lockwait"}, NEW i \in Inode,
           NEW a \in RefPcs \cup {"idle", "iget", "igetwait", "closing"},
           pr' = [Woken(pr, i) EXCEPT ![p].pc = a]
    PROVE  Goes(p, {i}, a, pr[p].i, pr[p].id) /\ pr'[p].um = pr[p].um
<1>1. PICK w : w = Woken(pr, i)
    OBVIOUS
<1>2. /\ w \in [Proc -> PrType]
      /\ \A q \in Proc : /\ w[q].i = pr[q].i /\ w[q].id = pr[q].id /\ w[q].then = pr[q].then /\ w[q].um = pr[q].um
                         /\ w[q].pc = IF pr[q].i = i /\ pr[q].pc = "igetwait" THEN "iget"
                                      ELSE IF pr[q].i = i /\ pr[q].pc = "lockwait" THEN "lock" ELSE pr[q].pc
    BY <1>1, WokenFacts
<1>3. pr' = [w EXCEPT ![p].pc = a]
    BY <1>1
<1>4. pr'[p] = [w[p] EXCEPT !.pc = a] /\ \A q \in Proc \ {p} : pr'[q] = w[q]
    BY <1>2, <1>3
<1>5. w[p] \in PrType
    BY <1>2
<1>6. pr'[p] \in PrType
    BY <1>4, <1>5 DEF PrType
<1>7. DOMAIN pr' = Proc /\ pr' = [q \in Proc |-> pr'[q]]
    BY <1>2, <1>3
<1>8. pr' \in [Proc -> PrType]
    BY <1>2, <1>4, <1>6, <1>7
<1>9. pr'[p].pc = a /\ pr'[p].i = pr[p].i /\ pr'[p].id = pr[p].id /\ pr'[p].um = pr[p].um
    BY <1>2, <1>4, <1>5 DEF PrType
<1>10. Moved(p, {i})
    BY <1>2, <1>4 DEF Moved
<1> QED BY <1>8, <1>9, <1>10 DEF Goes

\* A call returns, with those who slept on i awake.
LEMMA GoesIdle ==
    ASSUME Inv, NEW p \in Proc, pr[p].pc \notin {"igetwait", "lockwait"}, NEW i \in Inode,
           pr' = [Woken(pr, i) EXCEPT ![p].pc = "idle", ![p].i = 0, ![p].id = None, ![p].um = "no"]
    PROVE  Goes(p, {i}, "idle", 0, None) /\ pr'[p].um = "no"
<1>1. PICK w, z : w = Woken(pr, i) /\ z = 0
    OBVIOUS
<1>2. /\ w \in [Proc -> PrType]
      /\ \A q \in Proc : /\ w[q].i = pr[q].i /\ w[q].id = pr[q].id /\ w[q].then = pr[q].then /\ w[q].um = pr[q].um
                         /\ w[q].pc = IF pr[q].i = i /\ pr[q].pc = "igetwait" THEN "iget"
                                      ELSE IF pr[q].i = i /\ pr[q].pc = "lockwait" THEN "lock" ELSE pr[q].pc
    BY <1>1, WokenFacts
<1>3. pr' = [w EXCEPT ![p].pc = "idle", ![p].i = z, ![p].id = None, ![p].um = "no"]
    BY <1>1
<1>4. pr'[p] = Idled(w[p], z) /\ \A q \in Proc \ {p} : pr'[q] = w[q]
    BY <1>2, <1>3 DEF Idled
<1>5. w[p] \in PrType /\ z \in 0 .. ninode
    BY <1>1, <1>2, InodeFacts
<1>6. pr'[p] \in PrType /\ pr'[p].pc = "idle" /\ pr'[p].i = z /\ pr'[p].id = None /\ pr'[p].um = "no"
    <2>1. PICK r, f : r = w[p] /\ f = pr'[p]
        OBVIOUS
    <2>2. r \in PrType /\ f = Idled(r, z)
        BY <1>4, <1>5, <2>1
    <2>3. f \in PrType /\ f.pc = "idle" /\ f.i = z /\ f.id = None /\ f.um = "no"
        BY <1>5, <2>2, IdleFields
    <2> QED BY <2>1, <2>3
<1>7. DOMAIN pr' = Proc /\ pr' = [q \in Proc |-> pr'[q]]
    BY <1>2, <1>3
<1>8. pr' \in [Proc -> PrType]
    BY <1>2, <1>4, <1>6, <1>7
<1>9. Moved(p, {i})
    BY <1>1, <1>4, WokenMoves
<1> QED BY <1>1, <1>6, <1>8, <1>9 DEF Goes

-----------------------------------------------------------------------------
(* FS_IREAD, iunlock() and iput() *)

LEMMA IreadFinds ==
    ASSUME Inv, NEW p \in Proc, pr[p].pc = "reading", pr' = [pr EXCEPT ![p].pc = "held"],
           UNCHANGED <<ino, free, mnt, cwd>>
    PROVE  Inv'
<1> USE PcSets
<1>1. pr[p].um = "no" /\ ProcOK(p)
    BY ProcFacts
<1>2. /\ pr' \in [Proc -> PrType] /\ Moved(p, {}) /\ pr'[p].pc = "held" /\ pr'[p].i = pr[p].i
      /\ pr'[p].id = pr[p].id /\ pr'[p].um = pr[p].um
    BY GoesPc DEF Goes
<1>3. ProcOK(p)' /\ UmOK(p)'
    BY <1>1, <1>2, UmNo DEF ProcOK
<1>4. \A i \in Inode : (Lk(pr'[p], i) <=> Lk(pr[p], i)) /\ Rf(pr'[p], i) = Rf(pr[p], i)
    BY <1>2 DEF Lk, Rf
<1> QED BY <1>1, <1>2, <1>3, <1>4, AloneStep

\* Nobody else has inode i locked when p has, or when it is not.
LEMMA OnlyLocker ==
    ASSUME Inv, NEW p \in Proc, NEW i \in Inode, Lk(pr[p], i) \/ ~ino[i].locked
    PROVE  \A q \in Proc \ {p} : ~Lk(pr[q], i)
<1>1. LockOK(i) /\ \A q \in Proc : ProcOK(q)
    BY DEF Inv
<1> QED BY <1>1 DEF LockOK, ProcOK, Lk

\* An entry after it has been unlocked.
Unlocks(e, t) ==
    /\ e \in Entry /\ e.id = t.id /\ e.hash = t.hash /\ e.valid = t.valid /\ e.error = t.error
    /\ e.mount = t.mount /\ ~e.locked

\* p unlocks i and wakes those who sleep on it; it keeps its reference or not.
LEMMA UnlockEntry ==
    ASSUME Inv, NEW p \in Proc, NEW i \in Inode, ino[i].count > 0,
           NEW e, Unlocks(e, ino[i]), e.count > 0,
           ino' = [ino EXCEPT ![i] = e], free' = free,
           Lk(pr[p], i) \/ ~ino[i].locked
    PROVE  NewEntry(i, e) /\ KeepsFixed(i, e) /\ KeepsOthers(p, {i}, i, e) /\ ino'[i] = e
<1>1. EntryOK(ino[i]) /\ ino[i].count \in Nat /\ e.count \in Nat /\ Lists(free, Idle0)
    BY InodeFacts DEF Inv, Unlocks, Entry
<1>2. EntryOK(e)
    BY <1>1 DEF EntryOK, Unlocks
<1>3. Idle0' = Idle0 /\ ino'[i] = e
    <2>1. /\ Idle0' = IF e.count = 0 THEN Idle0 \cup {i} ELSE Idle0 \ {i}
          /\ \A k \in Inode : ino'[k] = IF k = i THEN e ELSE ino[k]
        BY IdleStep DEF Unlocks
    <2>2. i \notin Idle0 /\ e.count # 0
        BY <1>1 DEF Idle0
    <2> QED BY <2>1, <2>2
<1>4. NewEntry(i, e)
    BY <1>1, <1>2, <1>3 DEF NewEntry, Unlocks
<1>5. \A q \in Proc \ {p} : ~Lk(pr[q], i)
    BY OnlyLocker
<1>6. KeepsOthers(p, {i}, i, e)
    BY <1>5, PcSets DEF KeepsOthers, Unlocks, Lk
<1>7. KeepsFixed(i, e)
    BY DEF KeepsFixed, Unlocks
<1> QED BY <1>3, <1>4, <1>6, <1>7

LEMMA UnlockFields ==
    ASSUME Inv, NEW i \in Inode
    PROVE  \E e : /\ Unlocks(e, ino[i]) /\ e.count = ino[i].count
                  /\ [ino EXCEPT ![i] = Unlocked(@)] = [ino EXCEPT ![i] = e]
<1>1. ino[i] \in Entry /\ ino \in [Inode -> Entry]
    BY DEF Inv
<1>2. PICK e : e = [ino[i] EXCEPT !.locked = FALSE, !.want = FALSE]
    OBVIOUS
<1>3. Unlocks(e, ino[i]) /\ e.count = ino[i].count
    BY <1>1, <1>2 DEF Unlocks, Entry
<1>4. e = Unlocked(ino[i])
    BY <1>2 DEF Unlocked
<1>5. [ino EXCEPT ![i] = Unlocked(@)] = [ino EXCEPT ![i] = e]
    BY <1>1, <1>4
<1> QED BY <1>3, <1>5

LEMMA IunlockStep ==
    ASSUME Inv, NEW p \in Proc, iunlock(p)
    PROVE  Inv'
<1> USE PcSets
<1>0. PICK i : i = pr[p].i
    OBVIOUS
<1>1. /\ pr[p].pc = "held" /\ ino' = [ino EXCEPT ![i] = Unlocked(@)]
      /\ pr' = [Woken(pr, i) EXCEPT ![p].pc = "used"] /\ UNCHANGED <<free, mnt, cwd>>
    BY <1>0 DEF iunlock
<1>2. ProcOK(p) /\ pr[p].um = "no"
    BY <1>1, ProcFacts
<1>3. i \in Inode /\ ino[i].locked /\ ino[i].id = pr[p].id /\ Lk(pr[p], i)
    BY <1>0, <1>1, <1>2 DEF ProcOK, Lk
<1>4. ino[i].count > 0 /\ ino[i].count \in Nat
    BY <1>3, LockedHas, InodeFacts
<1>5. PICK e : /\ Unlocks(e, ino[i]) /\ e.count = ino[i].count
               /\ [ino EXCEPT ![i] = Unlocked(@)] = [ino EXCEPT ![i] = e]
    BY <1>3, UnlockFields
<1>6. ino' = [ino EXCEPT ![i] = e]
    BY <1>1, <1>5
<1>7. NewEntry(i, e) /\ KeepsFixed(i, e) /\ KeepsOthers(p, {i}, i, e) /\ ino'[i] = e
    BY <1>1, <1>3, <1>4, <1>5, <1>6, UnlockEntry
<1>8. /\ pr' \in [Proc -> PrType] /\ Moved(p, {i}) /\ pr'[p].pc = "used" /\ pr'[p].i = i
      /\ pr'[p].id = pr[p].id /\ pr'[p].um = pr[p].um
    <2>1. Goes(p, {i}, "used", pr[p].i, pr[p].id) /\ pr'[p].um = pr[p].um
        BY <1>1, <1>3, GoesWoken
    <2> QED BY <1>0, <2>1 DEF Goes
<1>9. ProcOK(p)' /\ UmOK(p)'
    BY <1>2, <1>3, <1>5, <1>7, <1>8, UmNo DEF ProcOK, Unlocks
<1>10. NewProc(p, {i})
    BY <1>8, <1>9 DEF NewProc
<1>11. LocksOnly(p, i, e)
    BY <1>0, <1>5, <1>8 DEF LocksOnly, Lk, Unlocks
<1>12. CountsOnly(p, i, e)
    <2>1. \A k \in Inode : Rf(pr'[p], k) = Rf(pr[p], k) /\ Rf(pr[p], k) \in {0, 1}
        BY <1>0, <1>1, <1>8 DEF Rf
    <2> QED BY <1>3, <1>4, <1>5, <2>1 DEF CountsOnly
<1> QED BY <1>1, <1>2, <1>3, <1>7, <1>8, <1>10, <1>11, <1>12, CalmStep

\* The last reference is put away: FS_IPUT begins, with the inode locked.
LEMMA PutLast ==
    ASSUME Inv, NEW p \in Proc, pr[p].pc \in {"reading", "held", "used", "lock"}, NEW i \in Inode,
           i = pr[p].i, ino[i].count = 1, Lk(pr[p], i) \/ ~ino[i].locked,
           NEW e \in Entry, ino' = [ino EXCEPT ![i] = e], free' = free, UNCHANGED <<mnt, cwd>>,
           e.id = ino[i].id, e.hash = ino[i].hash, e.valid = ino[i].valid, e.want = ino[i].want,
           e.mount = ino[i].mount, e.count = ino[i].count, e.locked,
           Goes(p, {}, "putting", i, pr[p].id), pr'[p].um = pr[p].um
    PROVE  Inv'
<1> USE PcSets
<1>1. ProcOK(p) /\ UmOK(p) /\ pr[p].um \in {"no", "covered"}
    BY ProcFacts
<1>2. ~Fixed(i) /\ \A q \in Proc \ {p} : ~(pr[q].i = i /\ pr[q].pc \in RefPcs)
    BY <1>1, NotFixed
<1>3. EntryOK(ino[i]) /\ Lists(free, Idle0)
    BY DEF Inv
<1>4. EntryOK(e)
    BY <1>3 DEF EntryOK
<1>5. Idle0' = Idle0 /\ ino'[i] = e
    <2>1. /\ Idle0' = IF e.count = 0 THEN Idle0 \cup {i} ELSE Idle0 \ {i}
          /\ \A k \in Inode : ino'[k] = IF k = i THEN e ELSE ino[k]
        BY IdleStep
    <2>2. i \notin Idle0 /\ e.count # 0
        BY DEF Idle0
    <2> QED BY <2>1, <2>2
<1>6. NewEntry(i, e)
    BY <1>3, <1>4, <1>5 DEF NewEntry
<1>7. KeepsFixed(i, e)
    BY <1>2 DEF KeepsFixed
<1>8. \A q \in Proc : ProcOK(q)
    BY DEF Inv
<1>9. KeepsOthers(p, {}, i, e)
    <2>1. \A q \in Proc : pr[q].i = i /\ pr[q].pc \in {"igetwait", "lockwait"} => ino[i].want
        BY <1>8 DEF ProcOK
    <2> QED BY <1>2, <2>1 DEF KeepsOthers, Lk
<1>10. /\ pr' \in [Proc -> PrType] /\ Moved(p, {}) /\ pr'[p].pc = "putting" /\ pr'[p].i = i
       /\ pr'[p].id = pr[p].id
    BY DEF Goes
<1>11. ProcOK(p)'
    BY <1>1, <1>5, <1>10 DEF ProcOK
<1>12. UmOK(p)'
    BY <1>1, <1>10 DEF UmOK
<1>13. NewProc(p, {})
    BY <1>10, <1>11, <1>12 DEF NewProc
<1>14. LocksOnly(p, i, e)
    BY <1>2, <1>10 DEF LocksOnly, Lk
<1>15. CountsOnly(p, i, e)
    <2>1. \A k \in Inode : Rf(pr'[p], k) = Rf(pr[p], k) /\ Rf(pr[p], k) \in {0, 1}
        BY <1>10 DEF Rf
    <2> QED BY <2>1 DEF CountsOnly
<1> QED BY <1>1, <1>6, <1>7, <1>9, <1>13, <1>14, <1>15, CalmStep

\* A reference that is not the last one is put away.
LEMMA PutBack ==
    ASSUME Inv, NEW p \in Proc, pr[p].pc \in {"held", "used", "lock"}, NEW i \in Inode,
           i = pr[p].i, ino[i].count # 1, Lk(pr[p], i) \/ ~ino[i].locked, pr[p].um = "no",
           NEW e, Unlocks(e, ino[i]), e.count = ino[i].count - 1,
           ino' = [ino EXCEPT ![i] = e], free' = free, UNCHANGED <<mnt, cwd>>,
           Goes(p, {i}, "idle", 0, None), pr'[p].um = "no"
    PROVE  Inv'
<1> USE PcSets
<1>1. ino[i].count > 0 /\ ino[i].count \in Nat
    BY HasRef, InodeFacts
<1>2. NewEntry(i, e) /\ KeepsFixed(i, e) /\ KeepsOthers(p, {i}, i, e)
    <2>1. e.count > 0
        BY <1>1
    <2> QED BY <1>1, <2>1, UnlockEntry
<1>3. pr' \in [Proc -> PrType] /\ Moved(p, {i}) /\ pr'[p].pc = "idle"
    BY DEF Goes
<1>4. ProcOK(p)' /\ UmOK(p)'
    BY <1>3, UmNo DEF ProcOK
<1>5. NewProc(p, {i})
    BY <1>3, <1>4 DEF NewProc
<1>6. LocksOnly(p, i, e)
    BY <1>3 DEF LocksOnly, Lk, Unlocks
<1>7. CountsOnly(p, i, e)
    <2>1. /\ \A k \in Inode \ {i} : Rf(pr'[p], k) = 0 /\ Rf(pr[p], k) = 0
          /\ Rf(pr'[p], i) = 0 /\ Rf(pr[p], i) = 1
        BY <1>3 DEF Rf
    <2> QED BY <1>1, <2>1 DEF CountsOnly
<1> QED BY <1>2, <1>5, <1>6, <1>7, CalmStep

\* mount_remove() has uncovered the directory, and puts it away.
LEMMA UncoverStep ==
    ASSUME Inv, NEW p \in Proc, pr[p].um = "covered", NEW W, NEW e, NewProc(p, W),
           NewEntry(CovIp, e), KeepsOthers(p, W, CovIp, e), LocksOnly(p, CovIp, e),
           CountsOnly(p, CovIp, e), mnt' = FALSE, cwd' = cwd, pr'[p].um = "no",
           e.id \notin Mounted, ~e.mount
    PROVE  Inv'
<1>1. /\ ninode \in Nat /\ RootIp \in Inode /\ CovIp \in Inode /\ RootIp # CovIp
      /\ \A i \in Inode : ino[i] \in Entry /\ ino[i].count \in Nat
    BY InodeFacts
<1>2. p = Umounter /\ Um = "covered" /\ Umounter # None
    BY ProcFacts DEF Um, Inv, InodeCacheConstants
<1>3. mnt /\ cwd = 0 /\ PhaseOK
    BY <1>2 DEF Inv, PhaseOK
<1>4. Um' = "no" /\ ~RootThere' /\ ~RootThere
    BY <1>2 DEF Um, RootThere
<1>5. \A i \in Inode : ino'[i] = IF i = CovIp THEN e ELSE ino[i]
    BY <1>1 DEF NewEntry, Inv
<1>6. PhaseOK'
    <2>1. \A i \in Inode : ino'[i].id \notin Mounted
        BY <1>3, <1>4, <1>5 DEF PhaseOK
    <2>2. \A i \in Inode : ~ino'[i].mount
        BY <1>3, <1>5 DEF PhaseOK
    <2> QED BY <1>1, <1>2, <1>3, <1>4, <2>1, <2>2 DEF PhaseOK
<1>7. \A i \in Inode : ino'[i].count - ino[i].count =
                               Pins(i)' - Pins(i) + Rf(pr'[p], i) - Rf(pr[p], i)
    <2>1. \A i \in Inode : MountRefs(i) = 0 /\ MountRefs(i)' = 0
        BY <1>2 DEF MountRefs, Umounting
    <2>2. \A i \in Inode : Pins(i)' = Pins(i) /\ Pins(i) \in Nat
        BY <2>1 DEF Pins
    <2>3. \A i \in Inode : Rf(pr'[p], i) \in {0, 1} /\ Rf(pr[p], i) \in {0, 1}
        BY DEF Rf
    <2>4. e.count \in Nat
        BY <1>5, InodeFacts DEF NewEntry, Entry
    <2> QED BY <1>1, <1>5, <2>2, <2>3, <2>4 DEF CountsOnly
<1>8. mnt' \in BOOLEAN /\ cwd' \in 0 .. ninode
    BY DEF Inv
<1>9. PICK j : j = CovIp
    OBVIOUS
<1>10. j \in Inode /\ NewEntry(j, e) /\ KeepsOthers(p, W, j, e) /\ LocksOnly(p, j, e)
    BY <1>1, <1>9
<1> QED BY <1>6, <1>7, <1>8, <1>10, AnyStep

\* The entry of an inode that p unlocks, giving up one of several references.
Putting(e, t) == Unlocks(e, t) /\ e.count = t.count - 1

OneLess(T, i) == [T EXCEPT !.ino[i] = Unref(@)]

LEMMA PutFields ==
    ASSUME Inv, NEW T \in Tables, NEW i \in Inode, T.ino[i].count > 1, SetTable(OneLess(T, i))
    PROVE  /\ \E e : Putting(e, T.ino[i]) /\ ino' = [T.ino EXCEPT ![i] = e]
           /\ free' = T.free
<1>1. T.ino[i] \in Entry /\ T.ino[i].count \in Nat /\ T.ino[i].count \in 0 .. MaxRefs /\ MaxRefs \in Nat
    BY InodeFacts DEF Tables, Entry
<1>2. PICK n \in 0 .. MaxRefs : n = T.ino[i].count - 1
    BY <1>1
<1>3. PICK e : e = Unref(T.ino[i])
    OBVIOUS
<1>4. e = [T.ino[i] EXCEPT !.locked = FALSE, !.want = FALSE, !.count = n]
    BY <1>2, <1>3 DEF Unref
<1>5. Putting(e, T.ino[i])
    BY <1>1, <1>2, <1>4 DEF Putting, Unlocks, Entry
<1>6. PICK U : U = OneLess(T, i)
    OBVIOUS
<1>7. U.ino = [T.ino EXCEPT ![i] = e] /\ U.free = T.free
    BY <1>3, <1>6 DEF OneLess, Tables
<1> QED BY <1>5, <1>6, <1>7 DEF SetTable

LEMMA PutUncovered ==
    ASSUME Inv, NEW p \in Proc, pr[p].pc = "lock", NEW i \in Inode,
           i = pr[p].i, ino[i].count # 1, ~ino[i].locked, pr[p].um = "covered",
           NEW e, Unlocks(e, ino[i]), e.count = ino[i].count - 1,
           ino' = [ino EXCEPT ![i] = e], free' = free, mnt' = FALSE, cwd' = cwd,
           Goes(p, {i}, "idle", 0, None), pr'[p].um = "no"
    PROVE  Inv'
<1> USE PcSets
<1>1. ino[i].count > 0 /\ ino[i].count \in Nat
    BY HasRef, InodeFacts
<1>2. NewEntry(i, e) /\ KeepsOthers(p, {i}, i, e)
    <2>1. e.count > 0
        BY <1>1
    <2> QED BY <1>1, <2>1, UnlockEntry
<1>3. pr' \in [Proc -> PrType] /\ Moved(p, {i}) /\ pr'[p].pc = "idle"
    BY DEF Goes
<1>4. ProcOK(p)' /\ UmOK(p)'
    BY <1>3, UmNo DEF ProcOK
<1>5. NewProc(p, {i})
    BY <1>3, <1>4 DEF NewProc
<1>6. LocksOnly(p, i, e)
    BY <1>3 DEF LocksOnly, Lk, Unlocks
<1>7. CountsOnly(p, i, e)
    <2>1. /\ \A k \in Inode \ {i} : Rf(pr'[p], k) = 0 /\ Rf(pr[p], k) = 0
          /\ Rf(pr'[p], i) = 0 /\ Rf(pr[p], i) = 1
        BY <1>3 DEF Rf
    <2> QED BY <1>1, <2>1 DEF CountsOnly
<1>8. i = CovIp /\ e.id \notin Mounted /\ ~e.mount
    <2>1. i = CovIp /\ Um = "covered"
        BY ProcFacts DEF UmOK
    <2>2. ino[i].id \notin Mounted /\ ~ino[i].mount
        BY <2>1 DEF Inv, PhaseOK, RootThere
    <2> QED BY <2>1, <2>2 DEF Unlocks
<1>9. PICK W : W = {i}
    OBVIOUS
<1>10. /\ NewProc(p, W) /\ NewEntry(CovIp, e) /\ KeepsOthers(p, W, CovIp, e)
       /\ LocksOnly(p, CovIp, e) /\ CountsOnly(p, CovIp, e)
    BY <1>2, <1>5, <1>6, <1>7, <1>8, <1>9
<1> QED BY <1>8, <1>10, UncoverStep

\* iput() of inode i, which T has locked for p.
Ready(T, p, i, t) ==
    /\ T \in Tables /\ T.free = free /\ T.ino = [ino EXCEPT ![i] = t] /\ t \in Entry
    /\ t.id = ino[i].id /\ t.hash = ino[i].hash /\ t.valid = ino[i].valid /\ t.want = ino[i].want
    /\ t.mount = ino[i].mount /\ t.count = ino[i].count /\ t.locked
    /\ t.error = ino[i].error \/ ino[i].count = 1
    /\ i = pr[p].i /\ (Lk(pr[p], i) \/ ~ino[i].locked)

LEMMA IputStep ==
    ASSUME Inv, NEW p \in Proc, pr[p].pc \in {"reading", "held", "used", "lock"}, NEW i \in Inode,
           NEW T, NEW t, Ready(T, p, i, t), iput(T, p, i), cwd' = cwd
    PROVE  Inv'
<1> USE PcSets
<1>1. T.ino[i] = t /\ T \in Tables /\ T.free = free /\ t.count = ino[i].count /\ i = pr[p].i
    BY TwiceSet DEF Ready
<1>2. CASE t.count = 1
    <2>1. /\ SetTable(T) /\ UNCHANGED mnt /\ pr' = [pr EXCEPT ![p].pc = "putting", ![p].i = i]
        BY <1>1, <1>2 DEF iput, Last1
    <2>2. ino' = [ino EXCEPT ![i] = t] /\ free' = free
        BY <1>1, <2>1 DEF SetTable, Ready
    <2>3. pr' = [pr EXCEPT ![p].pc = "putting"]
        <3>1. pr \in [Proc -> PrType] /\ pr[p] \in PrType
            BY ProcFacts
        <3>2. [pr[p] EXCEPT !.pc = "putting", !.i = i] = [pr[p] EXCEPT !.pc = "putting"]
            BY <1>1, <3>1 DEF PrType
        <3> QED BY <2>1, <3>1, <3>2
    <2>4. Goes(p, {}, "putting", i, pr[p].id) /\ pr'[p].um = pr[p].um
        BY <1>1, <2>3, GoesPc
    <2> QED BY <1>1, <1>2, <2>1, <2>2, <2>4, PutLast DEF Ready
<1>3. CASE t.count # 1
    <2>1. Returned(OneLess(T, i), Woken(pr, i), p)
        BY <1>1, <1>3, Zenon DEF iput, Last1, OneLess
    <2>2. pr[p].um \in {"no", "covered"} /\ Woken(pr, i)[p].um = pr[p].um
        BY ProcFacts, WokenFacts
    <2>3. /\ SetTable(OneLess(T, i))
          /\ mnt' = (mnt /\ pr[p].um # "covered")
          /\ pr' = [Woken(pr, i) EXCEPT ![p].pc = "idle", ![p].i = 0, ![p].id = None, ![p].um = "no"]
        BY <2>1, <2>2 DEF Returned
    <2>4. Goes(p, {i}, "idle", 0, None) /\ pr'[p].um = "no"
        BY <2>3, GoesIdle
    <2>5. ino[i].count > 0 /\ ino[i].count \in Nat /\ pr[p].pc # "reading"
        BY <1>1, <1>3, HasRef, InodeFacts DEF Inv, ProcOK
    <2>6. PICK e : Putting(e, T.ino[i]) /\ ino' = [T.ino EXCEPT ![i] = e] /\ free' = T.free
        BY <1>1, <1>3, <2>3, <2>5, PutFields
    <2>7. ino' = [ino EXCEPT ![i] = e] /\ free' = free
        BY <1>1, <2>6, TwiceSet DEF Ready
    <2>8. Unlocks(e, ino[i]) /\ e.count = ino[i].count - 1
        <3>1. Unlocks(e, t) /\ e.count = t.count - 1
            BY <1>1, <2>6 DEF Putting
        <3> QED BY <1>1, <1>3, <3>1 DEF Unlocks, Ready
    <2>9. CASE pr[p].um = "no"
        <3>1. mnt' = mnt
            BY <2>3, <2>9 DEF Inv
        <3> QED BY <1>1, <1>3, <2>4, <2>5, <2>7, <2>8, <2>9, <3>1, PutBack DEF Ready
    <2>10. CASE pr[p].um = "covered"
        <3>1. mnt' = FALSE
            BY <2>3, <2>10
        <3>2. pr[p].pc = "lock"
            BY <2>10, ProcFacts
        <3>3. ~ino[i].locked
            BY <3>2 DEF Ready, Lk
        <3> QED BY <1>1, <1>3, <2>4, <2>7, <2>8, <2>10, <3>1, <3>2, <3>3, PutUncovered
    <2> QED BY <2>2, <2>9, <2>10
<1> QED BY <1>2, <1>3

LEMMA FlagTables ==
    ASSUME NEW T \in Tables, NEW i \in Inode
    PROVE  [T EXCEPT !.ino[i].error = TRUE] \in Tables /\ [T EXCEPT !.ino[i].locked = TRUE] \in Tables
<1>1. [T EXCEPT !.ino[i].error = TRUE] \in Tables
    <2>1. PICK x : x = [T.ino EXCEPT ![i].error = TRUE]
        OBVIOUS
    <2>2. x \in [Inode -> Entry]
        BY <2>1 DEF Tables, Entry
    <2>3. \A X \in Tables, y \in [Inode -> Entry] : [X EXCEPT !.ino = y] \in Tables
        BY DEF Tables
    <2> QED BY <2>1, <2>2, <2>3
<1>2. [T EXCEPT !.ino[i].locked = TRUE] \in Tables
    <2>1. PICK x : x = [T.ino EXCEPT ![i].locked = TRUE]
        OBVIOUS
    <2>2. x \in [Inode -> Entry]
        BY <2>1 DEF Tables, Entry
    <2>3. \A X \in Tables, y \in [Inode -> Entry] : [X EXCEPT !.ino = y] \in Tables
        BY DEF Tables
    <2> QED BY <2>1, <2>2, <2>3
<1> QED BY <1>1, <1>2

\* What a table is after one flag of an inode is set.
LEMMA ReadyTables ==
    ASSUME Inv, NEW i \in Inode
    PROVE  /\ \E t \in Entry : /\ [Table EXCEPT !.ino[i].error = TRUE].ino = [ino EXCEPT ![i] = t]
                               /\ t.id = ino[i].id /\ t.hash = ino[i].hash /\ t.valid = ino[i].valid
                               /\ t.want = ino[i].want /\ t.locked = ino[i].locked
                               /\ t.mount = ino[i].mount /\ t.count = ino[i].count
           /\ \E t \in Entry : /\ [Table EXCEPT !.ino[i].locked = TRUE].ino = [ino EXCEPT ![i] = t]
                               /\ t.id = ino[i].id /\ t.hash = ino[i].hash /\ t.valid = ino[i].valid
                               /\ t.want = ino[i].want /\ t.locked /\ t.error = ino[i].error
                               /\ t.mount = ino[i].mount /\ t.count = ino[i].count
           /\ [Table EXCEPT !.ino[i].error = TRUE] \in Tables
           /\ [Table EXCEPT !.ino[i].locked = TRUE] \in Tables
           /\ [Table EXCEPT !.ino[i].error = TRUE].free = free
           /\ [Table EXCEPT !.ino[i].locked = TRUE].free = free
<1>1. PICK T \in Tables : T = Table /\ T.ino = ino /\ T.free = free
    BY TableType
<1>2. ino[i] \in Entry
    BY InodeFacts
<1>3. PICK U : U = [T EXCEPT !.ino[i].error = TRUE]
    OBVIOUS
<1>4. PICK V : V = [T EXCEPT !.ino[i].locked = TRUE]
    OBVIOUS
<1>5. U \in Tables /\ U.free = free /\ U.ino = [ino EXCEPT ![i] = [ino[i] EXCEPT !.error = TRUE]]
    <2>1. U \in Tables
        BY <1>3, FlagTables
    <2>2. U.free = T.free /\ U.ino = [T.ino EXCEPT ![i] = [T.ino[i] EXCEPT !.error = TRUE]]
        BY <1>3 DEF Tables
    <2> QED BY <1>1, <2>1, <2>2
<1>6. V \in Tables /\ V.free = free /\ V.ino = [ino EXCEPT ![i] = [ino[i] EXCEPT !.locked = TRUE]]
    <2>1. V \in Tables
        BY <1>4, FlagTables
    <2>2. V.free = T.free /\ V.ino = [T.ino EXCEPT ![i] = [T.ino[i] EXCEPT !.locked = TRUE]]
        BY <1>4 DEF Tables
    <2> QED BY <1>1, <2>1, <2>2
<1>7. \E t \in Entry : /\ U.ino = [ino EXCEPT ![i] = t]
                       /\ t.id = ino[i].id /\ t.hash = ino[i].hash /\ t.valid = ino[i].valid
                       /\ t.want = ino[i].want /\ t.locked = ino[i].locked
                       /\ t.mount = ino[i].mount /\ t.count = ino[i].count
    <2>1. PICK t : t = [ino[i] EXCEPT !.error = TRUE]
        OBVIOUS
    <2>2. /\ t \in Entry /\ t.id = ino[i].id /\ t.hash = ino[i].hash /\ t.valid = ino[i].valid
          /\ t.want = ino[i].want /\ t.locked = ino[i].locked
          /\ t.mount = ino[i].mount /\ t.count = ino[i].count
        BY <1>2, <2>1 DEF Entry
    <2>3. U.ino = [ino EXCEPT ![i] = t]
        BY <1>5, <2>1
    <2> QED BY <2>2, <2>3
<1>8. \E t \in Entry : /\ V.ino = [ino EXCEPT ![i] = t]
                       /\ t.id = ino[i].id /\ t.hash = ino[i].hash /\ t.valid = ino[i].valid
                       /\ t.want = ino[i].want /\ t.locked /\ t.error = ino[i].error
                       /\ t.mount = ino[i].mount /\ t.count = ino[i].count
    <2>1. PICK t : t = [ino[i] EXCEPT !.locked = TRUE]
        OBVIOUS
    <2>2. /\ t \in Entry /\ t.id = ino[i].id /\ t.hash = ino[i].hash /\ t.valid = ino[i].valid
          /\ t.want = ino[i].want /\ t.locked /\ t.error = ino[i].error
          /\ t.mount = ino[i].mount /\ t.count = ino[i].count
        BY <1>2, <2>1 DEF Entry
    <2>3. V.ino = [ino EXCEPT ![i] = t]
        BY <1>6, <2>1
    <2> QED BY <2>2, <2>3
<1>9. U = [Table EXCEPT !.ino[i].error = TRUE] /\ V = [Table EXCEPT !.ino[i].locked = TRUE]
    BY <1>1, <1>3, <1>4
<1> QED BY <1>5, <1>6, <1>7, <1>8, <1>9

LEMMA PutStep ==
    ASSUME Inv, NEW p \in Proc, Put(p)
    PROVE  Inv'
<1> USE PcSets
<1>1. PICK i, T, t : i = pr[p].i /\ T = Table /\ t = ino[i]
    OBVIOUS
<1>2. pr[p].pc = "held" /\ iput(T, p, i) /\ cwd' = cwd
    BY <1>1 DEF Put
<1>3. i \in Inode /\ ino[i].locked /\ Lk(pr[p], i)
    BY <1>1, <1>2, ProcFacts DEF ProcOK, Lk
<1>4. T \in Tables /\ T.ino = ino /\ T.free = free /\ t \in Entry /\ ino = [ino EXCEPT ![i] = t]
    BY <1>1, <1>3, TableType, InodeFacts DEF Inv
<1>5. Ready(T, p, i, t)
    BY <1>1, <1>3, <1>4 DEF Ready
<1> QED BY <1>2, <1>3, <1>5, IputStep

LEMMA IreadStep ==
    ASSUME Inv, NEW p \in Proc, IreadDone(p)
    PROVE  Inv'
<1> USE PcSets
<1>1. CASE pr' = [pr EXCEPT ![p].pc = "held"] /\ UNCHANGED <<ino, free, mnt>>
    BY <1>1, IreadFinds DEF IreadDone
<1>2. ASSUME iput([Table EXCEPT !.ino[pr[p].i].error = TRUE], p, pr[p].i) PROVE Inv'
    <2>1. PICK i : i = pr[p].i
        OBVIOUS
    <2>2. PICK T : T = [Table EXCEPT !.ino[i].error = TRUE]
        OBVIOUS
    <2>3. pr[p].pc = "reading" /\ cwd' = cwd /\ iput(T, p, i)
        BY <1>2, <2>1, <2>2 DEF IreadDone
    <2>4. i \in Inode /\ ino[i].locked /\ Lk(pr[p], i) /\ ino[i].count = 1
        BY <2>1, <2>3, ProcFacts DEF ProcOK, Lk
    <2>5. PICK t \in Entry : /\ T.ino = [ino EXCEPT ![i] = t]
                             /\ t.id = ino[i].id /\ t.hash = ino[i].hash /\ t.valid = ino[i].valid
                             /\ t.want = ino[i].want /\ t.locked = ino[i].locked
                             /\ t.mount = ino[i].mount /\ t.count = ino[i].count
        BY <2>2, <2>4, ReadyTables
    <2>6. T \in Tables /\ T.free = free
        BY <2>2, <2>4, ReadyTables
    <2>7. Ready(T, p, i, t)
        BY <2>1, <2>4, <2>5, <2>6 DEF Ready
    <2> QED BY <2>3, <2>4, <2>7, IputStep
<1> QED BY <1>1, <1>2 DEF IreadDone

-----------------------------------------------------------------------------
(* ILOCK *)

\* The count and the holders of an inode stay; it is locked for p, or p waits for that.
LEMMA LockStep ==
    ASSUME Inv, NEW p \in Proc, pr[p].pc \in {"used", "lock"}, NEW i \in Inode, i = pr[p].i,
           NEW e \in Entry, ino' = [ino EXCEPT ![i] = e], UNCHANGED <<free, mnt, cwd>>,
           EntrySame(e, ino[i]), e.locked, ino[i].want => e.want,
           pr' \in [Proc -> PrType], Moved(p, {}), pr'[p].i = i, pr'[p].id = pr[p].id,
           pr'[p].um = pr[p].um, UmOK(p)',
           \/ pr'[p].pc = "held" /\ ~ino[i].locked
           \/ pr'[p].pc = "lockwait" /\ ino[i].locked /\ e.want
    PROVE  Inv'
<1> USE PcSets
<1>1. ProcOK(p) /\ pr[p].um # "root"
    BY ProcFacts
<1>2. ino[i].count > 0 /\ ino[i].count \in Nat /\ EntryOK(ino[i]) /\ Lists(free, Idle0) /\ LockOK(i)
    BY HasRef, InodeFacts DEF Inv
<1>3. EntryOK(e)
    BY <1>2 DEF EntryOK, EntrySame
<1>4. Idle0' = Idle0 /\ ino'[i] = e
    <2>1. /\ Idle0' = IF e.count = 0 THEN Idle0 \cup {i} ELSE Idle0 \ {i}
          /\ \A k \in Inode : ino'[k] = IF k = i THEN e ELSE ino[k]
        BY IdleStep
    <2>2. i \notin Idle0 /\ e.count # 0
        BY <1>2 DEF Idle0, EntrySame
    <2> QED BY <2>1, <2>2
<1>5. NewEntry(i, e)
    BY <1>2, <1>3, <1>4 DEF NewEntry, EntrySame
<1>6. ProcOK(p)'
    BY <1>1, <1>4 DEF ProcOK, EntrySame
<1>7. NewProc(p, {})
    BY <1>6 DEF NewProc
<1>8. \A q \in Proc : ProcOK(q)
    BY DEF Inv
<1>9. KeepsOthers(p, {}, i, e) /\ KeepsFixed(i, e)
    <2>1. \A q \in Proc : pr[q].i = i /\ pr[q].pc \in {"igetwait", "lockwait"} => ino[i].want
        BY <1>8 DEF ProcOK
    <2>2. \A q \in Proc : pr[q].i = i /\ pr[q].pc \in {"reading", "putting"} => ino[i].count = 1
        BY <1>8 DEF ProcOK
    <2> QED BY <2>1, <2>2 DEF KeepsOthers, KeepsFixed, EntrySame
<1>10. LocksOnly(p, i, e)
    <2>1. \A k \in Inode : ~Lk(pr[p], k)
        BY DEF Lk
    <2>2. Lk(pr'[p], i) <=> pr'[p].pc = "held"
        BY DEF Lk
    <2>3. \A k \in Inode \ {i} : ~Lk(pr'[p], k)
        BY DEF Lk
    <2>4. ~ino[i].locked => \A q \in Proc : ~Lk(pr[q], i)
        BY <1>8 DEF Lk, ProcOK
    <2>5. ino[i].locked => \E q \in Proc \ {p} : Lk(pr[q], i)
        BY <1>2, <2>1 DEF LockOK, Lk
    <2> QED BY <2>1, <2>2, <2>3, <2>4, <2>5 DEF LocksOnly
<1>11. CountsOnly(p, i, e)
    <2>1. \A k \in Inode : Rf(pr'[p], k) = Rf(pr[p], k) /\ Rf(pr[p], k) \in {0, 1}
        BY DEF Rf
    <2> QED BY <1>2, <2>1 DEF CountsOnly, EntrySame
<1> QED BY <1>1, <1>5, <1>7, <1>9, <1>10, <1>11, CalmStep

LEMMA LockForStep ==
    ASSUME Inv, NEW p \in Proc, pr[p].pc \in {"used", "lock"}, NEW then \in {"held", "put"},
           NEW um, um = pr[p].um, um = "covered" => then = "put",
           LockFor(p, pr[p].i, then, um), cwd' = cwd
    PROVE  Inv'
<1> USE PcSets
<1>1. PICK i : i = pr[p].i
    OBVIOUS
<1>2. /\ ProcOK(p) /\ UmOK(p) /\ pr \in [Proc -> PrType] /\ pr[p] \in PrType
      /\ um \in {"no", "covered"}
    BY ProcFacts
<1>3. i \in Inode /\ ino \in [Inode -> Entry] /\ ino[i] \in Entry
    BY <1>1, <1>2, InodeFacts DEF ProcOK, Inv
<1>4. CASE ino[i].locked
    <2>1. /\ ino' = [ino EXCEPT ![i].want = TRUE] /\ UNCHANGED <<free, mnt>>
          /\ pr' = [pr EXCEPT ![p].pc = "lockwait", ![p].i = i, ![p].then = then, ![p].um = um]
        BY <1>1, <1>4 DEF LockFor
    <2>2. PICK e \in Entry : /\ e = [ino[i] EXCEPT !.want = TRUE] /\ EntrySame(e, ino[i])
                             /\ e.locked = ino[i].locked /\ e.want
        BY <1>3, EntryFields
    <2>3. ino' = [ino EXCEPT ![i] = e]
        BY <1>3, <2>1, <2>2
    <2>4. /\ pr'[p] = [pr[p] EXCEPT !.pc = "lockwait", !.i = i, !.then = then, !.um = um]
          /\ \A q \in Proc \ {p} : pr'[q] = pr[q]
        BY <1>2, <2>1
    <2>5. pr'[p] \in PrType
        BY <1>1, <1>2, <2>4 DEF PrType
    <2>6. /\ pr'[p].pc = "lockwait" /\ pr'[p].i = i /\ pr'[p].then = then /\ pr'[p].um = um
          /\ pr'[p].id = pr[p].id
        BY <1>2, <2>4 DEF PrType
    <2>7. pr' \in [Proc -> PrType] /\ Moved(p, {})
        <3>1. DOMAIN pr' = Proc /\ pr' = [q \in Proc |-> pr'[q]]
            BY <1>2, <2>1
        <3>2. pr' \in [Proc -> PrType]
            BY <1>2, <2>4, <2>5, <3>1
        <3> QED BY <2>4, <3>2, MovedSame
    <2>8. UmOK(p)'
        BY <1>1, <1>2, <2>6 DEF UmOK
    <2> QED BY <1>1, <1>3, <1>4, <2>1, <2>2, <2>3, <2>6, <2>7, <2>8, LockStep
<1>5. CASE ~ino[i].locked /\ then = "held"
    <2>1. /\ ino' = [ino EXCEPT ![i].locked = TRUE] /\ UNCHANGED <<free, mnt>>
          /\ pr' = [pr EXCEPT ![p].pc = "held"]
        BY <1>1, <1>5 DEF LockFor
    <2>2. PICK e \in Entry : /\ e = [ino[i] EXCEPT !.locked = TRUE] /\ EntrySame(e, ino[i])
                             /\ e.locked /\ e.want = ino[i].want
        BY <1>3, EntryFields
    <2>3. ino' = [ino EXCEPT ![i] = e]
        BY <1>3, <2>1, <2>2
    <2>4. /\ pr' \in [Proc -> PrType] /\ Moved(p, {}) /\ pr'[p].pc = "held" /\ pr'[p].i = i
          /\ pr'[p].id = pr[p].id /\ pr'[p].um = pr[p].um
        BY <1>1, <2>1, GoesPc DEF Goes
    <2>5. UmOK(p)'
        BY <1>2, <1>5, <2>4, UmNo
    <2> QED BY <1>1, <1>3, <1>5, <2>1, <2>2, <2>3, <2>4, <2>5, LockStep
<1>6. CASE ~ino[i].locked /\ then # "held"
    <2>1. PICK T : T = [Table EXCEPT !.ino[i].locked = TRUE]
        OBVIOUS
    <2>2. iput(T, p, i)
        BY <1>1, <1>6, <2>1 DEF LockFor
    <2>3. PICK t \in Entry : /\ T.ino = [ino EXCEPT ![i] = t]
                             /\ t.id = ino[i].id /\ t.hash = ino[i].hash /\ t.valid = ino[i].valid
                             /\ t.want = ino[i].want /\ t.locked /\ t.error = ino[i].error
                             /\ t.mount = ino[i].mount /\ t.count = ino[i].count
        BY <1>3, <2>1, ReadyTables
    <2>4. T \in Tables /\ T.free = free
        BY <1>3, <2>1, ReadyTables
    <2>5. Ready(T, p, i, t)
        BY <1>1, <1>6, <2>3, <2>4 DEF Ready
    <2> QED BY <1>3, <2>2, <2>5, IputStep
<1> QED BY <1>4, <1>5, <1>6

LEMMA LockSteps ==
    ASSUME Inv, NEW p \in Proc, ilock(p) \/ iunuse(p) \/ LockAgain(p)
    PROVE  Inv'
<1>1. CASE ilock(p)
    <2>1. PICK then, um : then = "held" /\ um = "no"
        OBVIOUS
    <2>2. pr[p].pc = "used" /\ LockFor(p, pr[p].i, then, um) /\ cwd' = cwd
        BY <1>1, <2>1 DEF ilock
    <2>3. um = pr[p].um
        BY <2>1, <2>2, ProcFacts
    <2> QED BY <2>1, <2>2, <2>3, LockForStep
<1>2. CASE iunuse(p)
    <2>1. PICK then, um : then = "put" /\ um = "no"
        OBVIOUS
    <2>2. pr[p].pc = "used" /\ LockFor(p, pr[p].i, then, um) /\ cwd' = cwd
        BY <1>2, <2>1 DEF iunuse
    <2>3. um = pr[p].um
        BY <2>1, <2>2, ProcFacts
    <2> QED BY <2>1, <2>2, <2>3, LockForStep
<1>3. CASE LockAgain(p)
    <2>1. PICK then, um : then = pr[p].then /\ um = pr[p].um
        OBVIOUS
    <2>2. pr[p].pc = "lock" /\ LockFor(p, pr[p].i, then, um) /\ cwd' = cwd
        BY <1>3, <2>1 DEF LockAgain
    <2>3. then \in {"held", "put"} /\ (um = "covered" => then = "put")
        <3>1. UmOK(p) /\ pr[p] \in PrType
            BY ProcFacts
        <3> QED BY <2>1, <2>2, <3>1 DEF UmOK, PrType
    <2> QED BY <2>1, <2>2, <2>3, LockForStep
<1> QED BY <1>1, <1>2, <1>3

-----------------------------------------------------------------------------
(* FS_IPUT is done *)

\* The table X, with e for inode i, after iuncache() of that.
LEMMA Iuncached ==
    ASSUME Inv, NEW i \in Inode, i \notin Idle0, NEW X, NEW e, X.ino = [ino EXCEPT ![i] = e],
           \/ e.valid /\ Lists(X.free, Idle0 \cup {i})
           \/ ~e.valid /\ Lists(X.free, Idle0)
    PROVE  /\ iuncache(X, i).ino = [ino EXCEPT ![i] = FreeInode]
           /\ Lists(iuncache(X, i).free, Idle0 \cup {i})
<1>1. X.ino[i] = e
    BY TwiceSet
<1>2. iuncache(X, i).ino = [ino EXCEPT ![i] = FreeInode]
    BY TwiceSet DEF iuncache
<1>3. PICK F : F = IF e.valid THEN Off(X.free, i) ELSE X.free
    OBVIOUS
<1>4. iuncache(X, i).free = <<i>> \o F
    BY <1>1, <1>3 DEF iuncache
<1>5. Lists(F, Idle0)
    <2>1. CASE e.valid
        <3>1. Lists(Off(X.free, i), (Idle0 \cup {i}) \ {i})
            <4>1. PICK S : S = Idle0 \cup {i}
                OBVIOUS
            <4>2. i \in S /\ Lists(X.free, S)
                BY <2>1, <4>1
            <4>3. Lists(Off(X.free, i), S \ {i})
                BY <4>2, OffLists
            <4> QED BY <4>1, <4>3
        <3>2. (Idle0 \cup {i}) \ {i} = Idle0
            OBVIOUS
        <3> QED BY <1>3, <2>1, <3>1, <3>2
    <2>2. CASE ~e.valid
        BY <1>3, <2>2
    <2> QED BY <2>1, <2>2
<1>6. Lists(<<i>> \o F, Idle0 \cup {i})
    BY <1>5, ConsLists
<1> QED BY <1>2, <1>4, <1>6

\* What an inode is when its last reference is gone.
Put0(e, t) ==
    /\ e \in Entry /\ EntryOK(e) /\ e.count = 0 /\ ~e.locked
    /\ e.hash = "on" => t.hash = "on" /\ e.id = t.id
    /\ e.id = t.id \/ e.id = None
    /\ e.mount => t.mount

LEMMA FreePut0 ==
    ASSUME Inv, NEW t
    PROVE  Put0(FreeInode, t)
<1>1. InodeCacheConstants
    BY DEF Inv
<1>2. FreeInode.count = 0 /\ ~FreeInode.locked /\ FreeInode.hash # "on" /\ FreeInode.id = None /\ ~FreeInode.mount
    BY DEF FreeInode
<1> QED BY <1>1, <1>2, FreeFacts DEF Put0

LEMMA KeptPut0 ==
    ASSUME Inv, NEW i \in Inode, ino[i].count = 1, ino[i].id # Anon, NEW e, NEW k,
           e = [ino[i] EXCEPT !.locked = FALSE, !.want = FALSE, !.count = 0],
           k = [e EXCEPT !.valid = TRUE]
    PROVE  Put0(k, ino[i]) /\ k.valid /\ k.id = ino[i].id
<1>1. PICK t : t = ino[i]
    OBVIOUS
<1>2. t \in Entry /\ EntryOK(t) /\ t.count = 1 /\ t.id # Anon /\ MaxRefs \in Nat
    BY <1>1, InodeFacts DEF Inv
<1>3. e = [t EXCEPT !.locked = FALSE, !.want = FALSE, !.count = 0]
    BY <1>1
<1>4. 0 \in 0 .. MaxRefs
    BY <1>2
<1>5. e \in Entry
    BY <1>2, <1>3, <1>4 DEF Entry
<1>6. ~e.locked /\ e.count = 0 /\ e.id = t.id /\ e.hash = t.hash /\ e.mount = t.mount
    BY <1>2, <1>3 DEF Entry
<1>7. k \in Entry
    BY <1>5 DEF Entry
<1>8. ~k.locked /\ k.count = 0 /\ k.id = t.id /\ k.hash = t.hash /\ k.mount = t.mount /\ k.valid
    BY <1>5, <1>6 DEF Entry
<1>9. EntryOK(k)
    BY <1>2, <1>8 DEF EntryOK
<1> QED BY <1>1, <1>7, <1>8, <1>9 DEF Put0

LEMMA ReleasedFacts ==
    ASSUME Inv, NEW i \in Inode, ino[i].count = 1
    PROVE  \E e : /\ Put0(e, ino[i]) /\ Released(Table, i).ino = [ino EXCEPT ![i] = e]
                  /\ Lists(Released(Table, i).free, Idle0 \cup {i})
                  /\ ino[i].id # Anon /\ ~ino[i].error => e.valid
<1>1. PICK T : T = Table
    OBVIOUS
<1>2. T.ino = ino /\ T.free = free /\ T \in Tables /\ Lists(free, Idle0) /\ EntryOK(ino[i]) /\ ino[i] \in Entry
    BY <1>1, TableType, InodeFacts DEF Inv
<1>3. i \notin Idle0
    BY DEF Idle0
<1>4. PICK e : e = [ino[i] EXCEPT !.locked = FALSE, !.want = FALSE, !.count = 0]
    OBVIOUS
<1>5. PICK k : k = [e EXCEPT !.valid = TRUE]
    OBVIOUS
<1>6. PICK kept : kept = [ino |-> [T.ino EXCEPT ![i] = k], free |-> Append(T.free, i)]
    OBVIOUS
<1>7. PICK X : X = [T EXCEPT !.ino[i] = e]
    OBVIOUS
<1>8. Released(T, i) = IF e.id = Anon THEN iuncache(X, i) ELSE IF e.error THEN iuncache(kept, i) ELSE kept
    BY <1>2, <1>4, <1>5, <1>6, <1>7 DEF Released
<1>9. e.id = ino[i].id /\ e.valid = ino[i].valid /\ e.error = ino[i].error
    BY <1>2, <1>4 DEF Entry
<1>10. CASE e.id = Anon
    <2>1. ~e.valid
        BY <1>2, <1>9 DEF EntryOK
    <2>2. X.ino = [ino EXCEPT ![i] = e] /\ X.free = free
        BY <1>2, <1>7 DEF Tables
    <2>3. /\ iuncache(X, i).ino = [ino EXCEPT ![i] = FreeInode]
          /\ Lists(iuncache(X, i).free, Idle0 \cup {i})
        BY <1>2, <1>3, <2>1, <2>2, Iuncached
    <2> QED BY <1>1, <1>8, <1>9, <1>10, <2>3, FreePut0
<1>11. CASE e.id # Anon
    <2>1. Put0(k, ino[i]) /\ k.valid
        BY <1>4, <1>5, <1>9, <1>11, KeptPut0
    <2>2. kept.ino = [ino EXCEPT ![i] = k] /\ kept.free = Append(free, i)
        BY <1>2, <1>6
    <2>3. Lists(kept.free, Idle0 \cup {i})
        BY <1>2, <1>3, <2>2, AppendLists
    <2>4. CASE e.error
        <3>1. /\ iuncache(kept, i).ino = [ino EXCEPT ![i] = FreeInode]
              /\ Lists(iuncache(kept, i).free, Idle0 \cup {i})
            BY <1>3, <2>1, <2>2, <2>3, Iuncached
        <3> QED BY <1>1, <1>8, <1>9, <1>11, <2>4, <3>1, FreePut0
    <2>5. CASE ~e.error
        BY <1>1, <1>8, <1>11, <2>1, <2>2, <2>3, <2>5
    <2> QED BY <2>4, <2>5
<1> QED BY <1>10, <1>11

\* p, who has the last reference of i, is done with it.
LEMMA Gone ==
    ASSUME Inv, NEW p \in Proc, pr[p].pc = "putting", NEW i \in Inode, i = pr[p].i,
           NEW e, Put0(e, ino[i]), ino' = [ino EXCEPT ![i] = e], Lists(free', Idle0 \cup {i}),
           pr'[p].pc \notin RefPcs
    PROVE  /\ NewEntry(i, e) /\ KeepsOthers(p, {i}, i, e) /\ LocksOnly(p, i, e) /\ CountsOnly(p, i, e)
           /\ pr[p].um # "root" => KeepsFixed(i, e)
           /\ ino'[i] = e
<1> USE PcSets
<1>1. ino[i].count = 1
    BY ProcFacts DEF ProcOK
<1>2. (pr[p].um # "root" => ~Fixed(i)) /\ \A q \in Proc \ {p} : ~(pr[q].i = i /\ pr[q].pc \in RefPcs)
    BY <1>1, NotFixed
<1>3. Idle0' = Idle0 \cup {i} /\ ino'[i] = e
    <2>1. /\ Idle0' = IF e.count = 0 THEN Idle0 \cup {i} ELSE Idle0 \ {i}
          /\ \A k \in Inode : ino'[k] = IF k = i THEN e ELSE ino[k]
        BY IdleStep DEF Put0
    <2> QED BY <2>1 DEF Put0
<1>4. NewEntry(i, e)
    BY <1>3 DEF NewEntry, Put0
<1>5. KeepsOthers(p, {i}, i, e)
    BY <1>2 DEF KeepsOthers, Lk
<1>6. LocksOnly(p, i, e)
    BY DEF LocksOnly, Lk, Put0
<1>7. CountsOnly(p, i, e)
    <2>1. /\ \A k \in Inode \ {i} : Rf(pr'[p], k) = 0 /\ Rf(pr[p], k) = 0
          /\ Rf(pr'[p], i) = 0 /\ Rf(pr[p], i) = 1
        BY DEF Rf
    <2> QED BY <1>1, <2>1 DEF CountsOnly, Put0
<1>8. None \notin Mounted
    BY DEF Inv, InodeCacheConstants, Ids, Mounted
<1> QED BY <1>2, <1>3, <1>4, <1>5, <1>6, <1>7, <1>8 DEF KeepsFixed, Put0

\* It is done with the root.
ToClosing(r, z) == [r EXCEPT !.pc = "closing", !.i = z, !.id = None]

LEMMA ClosingFields ==
    ASSUME NEW r \in PrType, NEW f, NEW z \in 0 .. ninode, f = ToClosing(r, z)
    PROVE  f \in PrType /\ f.pc = "closing" /\ f.i = z /\ f.id = None /\ f.um = r.um
BY DEF PrType, ToClosing

LEMMA GoesClosing ==
    ASSUME Inv, NEW p \in Proc, pr[p].pc \notin {"igetwait", "lockwait"}, NEW i \in Inode,
           pr' = [Woken(pr, i) EXCEPT ![p].pc = "closing", ![p].i = 0, ![p].id = None]
    PROVE  Goes(p, {i}, "closing", 0, None) /\ pr'[p].um = pr[p].um
<1>1. PICK w, z : w = Woken(pr, i) /\ z = 0
    OBVIOUS
<1>2. w \in [Proc -> PrType] /\ w[p].um = pr[p].um
    BY <1>1, WokenFacts
<1>3. pr' = [w EXCEPT ![p].pc = "closing", ![p].i = z, ![p].id = None]
    BY <1>1
<1>4. pr'[p] = ToClosing(w[p], z) /\ \A q \in Proc \ {p} : pr'[q] = w[q]
    BY <1>2, <1>3 DEF ToClosing
<1>5. w[p] \in PrType /\ z \in 0 .. ninode
    BY <1>1, <1>2, InodeFacts
<1>6. pr'[p] \in PrType /\ pr'[p].pc = "closing" /\ pr'[p].i = z /\ pr'[p].id = None /\ pr'[p].um = pr[p].um
    <2>1. PICK r, f : r = w[p] /\ f = pr'[p]
        OBVIOUS
    <2>2. r \in PrType /\ f = ToClosing(r, z)
        BY <1>4, <1>5, <2>1
    <2>3. f \in PrType /\ f.pc = "closing" /\ f.i = z /\ f.id = None /\ f.um = r.um
        BY <1>5, <2>2, ClosingFields
    <2> QED BY <1>2, <2>1, <2>3
<1>7. DOMAIN pr' = Proc /\ pr' = [q \in Proc |-> pr'[q]]
    BY <1>2, <1>3
<1>8. pr' \in [Proc -> PrType]
    BY <1>2, <1>4, <1>6, <1>7
<1>9. Moved(p, {i})
    BY <1>1, <1>4, WokenMoves
<1> QED BY <1>1, <1>6, <1>8, <1>9 DEF Goes

\* The root is thrown out: efs_umount() has the last inode of the file system.
LEMMA RootGone ==
    ASSUME Inv, NEW p \in Proc, pr[p].pc = "putting", pr[p].um = "root", NEW W, NEW e,
           NewProc(p, W), NewEntry(RootIp, e), KeepsOthers(p, W, RootIp, e), LocksOnly(p, RootIp, e),
           CountsOnly(p, RootIp, e), UNCHANGED <<mnt, cwd>>, pr'[p].um = "root", pr'[p].pc = "closing",
           e.id \notin Mounted, ~e.mount
    PROVE  Inv'
<1>1. /\ ninode \in Nat /\ RootIp \in Inode /\ CovIp \in Inode /\ RootIp # CovIp
      /\ \A i \in Inode : ino[i] \in Entry /\ ino[i].count \in Nat
    BY InodeFacts
<1>2. p = Umounter /\ Um = "root" /\ Umounter # None
    BY ProcFacts DEF Um, Inv, InodeCacheConstants
<1>3. mnt /\ cwd = 0 /\ PhaseOK
    BY <1>2 DEF Inv, PhaseOK
<1>4. Um' = "root" /\ ~RootThere'
    BY <1>2 DEF Um, RootThere
<1>5. \A i \in Inode : ino'[i] = IF i = RootIp THEN e ELSE ino[i]
    BY <1>1 DEF NewEntry, Inv
<1>6. PhaseOK'
    <2>1. \A i \in Inode : ino'[i].id \notin Mounted
        BY <1>2, <1>3, <1>5 DEF PhaseOK
    <2>2. \A i \in Inode \ {CovIp} : ~ino'[i].mount
        BY <1>3, <1>5 DEF PhaseOK
    <2>3. ino'[CovIp].id = Cov
        BY <1>1, <1>2, <1>3, <1>5 DEF PhaseOK
    <2> QED BY <1>1, <1>2, <1>3, <1>4, <2>1, <2>2, <2>3 DEF PhaseOK
<1>7. \A i \in Inode : ino'[i].count - ino[i].count =
                               Pins(i)' - Pins(i) + Rf(pr'[p], i) - Rf(pr[p], i)
    <2>1. \A i \in Inode : MountRefs(i)' = MountRefs(i)
        BY <1>2 DEF MountRefs, Umounting
    <2>2. \A i \in Inode : Pins(i)' = Pins(i) /\ Pins(i) \in Nat
        BY <2>1, RefsFinite DEF Pins
    <2>3. \A i \in Inode : Rf(pr'[p], i) \in {0, 1} /\ Rf(pr[p], i) \in {0, 1}
        BY DEF Rf
    <2>4. e.count \in Nat
        BY <1>5, InodeFacts DEF NewEntry, Entry
    <2> QED BY <1>1, <1>5, <2>2, <2>3, <2>4 DEF CountsOnly
<1>8. mnt' \in BOOLEAN /\ cwd' \in 0 .. ninode /\ cwd' = cwd
    BY DEF Inv
<1>9. PICK j : j = RootIp
    OBVIOUS
<1>10. j \in Inode /\ NewEntry(j, e) /\ KeepsOthers(p, W, j, e) /\ LocksOnly(p, j, e)
    BY <1>1, <1>9
<1> QED BY <1>6, <1>7, <1>8, <1>10, AnyStep

LEMMA IputDoneStep ==
    ASSUME Inv, NEW p \in Proc, IputDone(p)
    PROVE  Inv'
<1> USE PcSets
<1>0. PICK i, W : i = pr[p].i /\ W = {i}
    OBVIOUS
<1>1. pr[p].pc = "putting" /\ cwd' = cwd /\ Returned(Released(Table, i), Woken(pr, i), p)
    BY <1>0 DEF IputDone
<1>2. ProcOK(p) /\ UmOK(p) /\ pr[p].um \in {"no", "covered", "root"}
    BY ProcFacts DEF PrType
<1>3. i \in Inode /\ ino[i].count = 1 /\ ino[i].locked /\ ino[i].id = pr[p].id
    BY <1>0, <1>1, <1>2 DEF ProcOK
<1>4. Woken(pr, i)[p].um = pr[p].um
    BY <1>3, WokenFacts
<1>5. PICK e : /\ Put0(e, ino[i]) /\ Released(Table, i).ino = [ino EXCEPT ![i] = e]
               /\ Lists(Released(Table, i).free, Idle0 \cup {i})
               /\ ino[i].id # Anon /\ ~ino[i].error => e.valid
    BY <1>3, ReleasedFacts
<1>6. CASE pr[p].um = "root"
    <2>1. i = RootIp /\ p = Umounter /\ Um = "root" /\ mnt
        BY <1>0, <1>1, <1>2, <1>6, ProcFacts DEF UmOK, Inv, PhaseOK
    <2>2. RootThere
        BY <1>1, <2>1 DEF RootThere
    <2>3. ino[i].id = Root /\ ~ino[i].error /\ Root # Anon
        BY <2>1, <2>2 DEF Inv, PhaseOK, InodeCacheConstants, Ids
    <2>4. e.valid
        BY <1>5, <2>3
    <2>5. PICK X : X = Released(Table, i)
        OBVIOUS
    <2>6. /\ SetTable(iuncache(X, RootIp)) /\ mnt' = mnt
          /\ pr' = [Woken(pr, i) EXCEPT ![p].pc = "closing", ![p].i = 0, ![p].id = None]
        BY <1>1, <1>4, <1>6, <2>5 DEF Returned
    <2>7. i \notin Idle0
        BY <1>3 DEF Idle0
    <2>8. /\ iuncache(X, i).ino = [ino EXCEPT ![i] = FreeInode]
          /\ Lists(iuncache(X, i).free, Idle0 \cup {i})
        BY <1>3, <1>5, <2>4, <2>5, <2>7, Iuncached
    <2>9. ino' = [ino EXCEPT ![i] = FreeInode] /\ Lists(free', Idle0 \cup {i})
        BY <2>1, <2>6, <2>8 DEF SetTable
    <2>10. Goes(p, {i}, "closing", 0, None) /\ pr'[p].um = pr[p].um
        BY <1>1, <1>3, <2>6, GoesClosing
    <2>11. /\ pr' \in [Proc -> PrType] /\ Moved(p, W) /\ pr'[p].pc = "closing" /\ pr'[p].um = "root"
        BY <1>0, <1>6, <2>10 DEF Goes
    <2>12. NewProc(p, W)
        <3>1. ProcOK(p)'
            BY <2>11 DEF ProcOK
        <3>2. UmOK(p)'
            BY <2>1, <2>11 DEF UmOK
        <3> QED BY <2>11, <3>1, <3>2 DEF NewProc
    <2>13. PICK f : f = FreeInode
        OBVIOUS
    <2>14. NewEntry(i, f) /\ KeepsOthers(p, {i}, i, f) /\ LocksOnly(p, i, f) /\ CountsOnly(p, i, f)
        <3>1. Put0(f, ino[i]) /\ ino' = [ino EXCEPT ![i] = f]
            BY <2>9, <2>13, FreePut0
        <3>2. pr'[p].pc \notin RefPcs
            BY <2>11
        <3> QED BY <1>0, <1>1, <1>3, <2>9, <3>1, <3>2, Gone
    <2>15. f.id \notin Mounted /\ ~f.mount
        BY <2>13 DEF FreeInode, Inv, InodeCacheConstants, Ids, Mounted
    <2>16. /\ NewEntry(RootIp, f) /\ KeepsOthers(p, W, RootIp, f) /\ LocksOnly(p, RootIp, f)
           /\ CountsOnly(p, RootIp, f)
        BY <1>0, <2>1, <2>14
    <2> QED BY <1>1, <1>6, <2>6, <2>11, <2>12, <2>15, <2>16, RootGone
<1>7. ASSUME pr[p].um # "root" PROVE Inv'
    <2>1. /\ SetTable(Released(Table, i)) /\ mnt' = (mnt /\ pr[p].um # "covered")
          /\ pr' = [Woken(pr, i) EXCEPT ![p].pc = "idle", ![p].i = 0, ![p].id = None, ![p].um = "no"]
        BY <1>1, <1>4, <1>7 DEF Returned
    <2>2. ino' = [ino EXCEPT ![i] = e] /\ Lists(free', Idle0 \cup {i})
        BY <1>5, <2>1 DEF SetTable
    <2>3. Goes(p, {i}, "idle", 0, None) /\ pr'[p].um = "no"
        BY <1>1, <1>3, <2>1, GoesIdle
    <2>4. pr' \in [Proc -> PrType] /\ Moved(p, W) /\ pr'[p].pc = "idle" /\ pr'[p].um = "no"
        BY <1>0, <2>3 DEF Goes
    <2>5. NewProc(p, W)
        BY <2>4, UmNo DEF NewProc, ProcOK
    <2>6. /\ NewEntry(i, e) /\ KeepsOthers(p, {i}, i, e) /\ LocksOnly(p, i, e) /\ CountsOnly(p, i, e)
          /\ KeepsFixed(i, e)
        <3>1. pr'[p].pc \notin RefPcs
            BY <2>4
        <3> QED BY <1>0, <1>1, <1>3, <1>5, <1>7, <2>2, <3>1, Gone
    <2>7. KeepsOthers(p, W, i, e)
        BY <1>0, <2>6
    <2>8. CASE pr[p].um = "no"
        <3>1. mnt' = mnt
            BY <2>1, <2>8 DEF Inv
        <3> QED BY <1>1, <1>3, <2>4, <2>5, <2>6, <2>7, <2>8, <3>1, CalmStep
    <2>9. CASE pr[p].um = "covered"
        <3>1. i = CovIp /\ Um = "covered"
            BY <1>0, <2>9, ProcFacts DEF UmOK
        <3>2. ino[i].id \notin Mounted /\ ~ino[i].mount /\ None \notin Mounted
            BY <1>3, <3>1 DEF Inv, PhaseOK, RootThere, InodeCacheConstants, Mounted, Ids
        <3>3. e.id \notin Mounted /\ ~e.mount
            BY <1>5, <3>2 DEF Put0
        <3>4. mnt' = FALSE
            BY <2>1, <2>9
        <3>5. /\ NewEntry(CovIp, e) /\ KeepsOthers(p, W, CovIp, e) /\ LocksOnly(p, CovIp, e)
              /\ CountsOnly(p, CovIp, e)
            BY <2>6, <2>7, <3>1
        <3> QED BY <1>1, <2>4, <2>5, <2>9, <3>3, <3>4, <3>5, UncoverStep
    <2> QED BY <1>2, <1>7, <2>8, <2>9
<1> QED BY <1>6, <1>7

-----------------------------------------------------------------------------
(* Chdir *)

\* Cwd has what the current directory had.
LEMMA ChdirStep ==
    ASSUME Inv, NEW p \in Proc, Chdir(p)
    PROVE  Inv'
<1> USE PcSets
<1>1. PICK j, e, W, a, f : j = cwd /\ e = ino[j] /\ W = {} /\ a = "used" /\ f = CwdFile
    OBVIOUS
<1>2. /\ p = Cwd /\ pr[p].pc = "idle" /\ cwd # 0 /\ cwd' = 0 /\ UNCHANGED <<ino, free, mnt>>
      /\ pr' = [pr EXCEPT ![p].pc = a, ![p].i = j, ![p].id = f]
    BY <1>1 DEF Chdir
<1>3. /\ j \in Inode /\ e \in Entry /\ e.id = f /\ mnt /\ Um = "no" /\ j \in 0 .. ninode
      /\ f \in Ids \cup {None, Anon} /\ PhaseOK
    <2>1. PhaseOK /\ ino \in [Inode -> Entry]
        BY DEF Inv
    <2>2. j \in Inode /\ e.id = f /\ mnt /\ Um = "no"
        BY <1>1, <1>2, <2>1 DEF PhaseOK
    <2> QED BY <1>1, <2>1, <2>2, InodeFacts DEF Entry
<1>4. /\ pr' \in [Proc -> PrType] /\ Moved(p, W) /\ pr'[p].pc = a /\ pr'[p].i = j /\ pr'[p].id = f
      /\ pr'[p].um = pr[p].um
    <2>1. Goes(p, {}, a, j, f) /\ pr'[p].um = pr[p].um
        BY <1>1, <1>2, <1>3, GoesPlain
    <2> QED BY <1>1, <2>1 DEF Goes
<1>5. pr[p].um = "no" /\ \A q \in Proc : ProcOK(q)
    BY <1>2, ProcFacts
<1>6. ProcOK(p)' /\ UmOK(p)'
    <2>1. ProcOK(p)'
        BY <1>1, <1>2, <1>3, <1>4 DEF ProcOK
    <2> QED BY <1>1, <1>4, <1>5, <2>1, UmNo
<1>7. NewProc(p, W)
    BY <1>4, <1>6 DEF NewProc
<1>8. NewEntry(j, e)
    <2>1. ino' = [ino EXCEPT ![j] = e] /\ EntryOK(e) /\ Lists(free, Idle0)
        BY <1>1, <1>2, <1>3 DEF Inv
    <2>2. Idle0' = Idle0
        BY <1>2 DEF Idle0
    <2> QED BY <1>1, <1>2, <1>3, <2>1, <2>2 DEF NewEntry
<1>9. KeepsOthers(p, W, j, e)
    BY <1>1, <1>5 DEF KeepsOthers, ProcOK, Lk
<1>10. LocksOnly(p, j, e)
    <2>1. LockOK(j)
        BY <1>3 DEF Inv
    <2>2. \A i \in Inode : ~Lk(pr'[p], i) /\ ~Lk(pr[p], i)
        BY <1>1, <1>2, <1>4 DEF Lk
    <2>3. e.locked => \E q \in Proc \ {p} : Lk(pr[q], j)
        BY <1>1, <1>3, <2>1, <2>2 DEF LockOK, Lk
    <2> QED BY <1>3, <2>2, <2>3 DEF LocksOnly
<1>11. Um' = Um /\ (RootThere' <=> RootThere) /\ (\A i : MountRefs(i)' = MountRefs(i))
    <2>1. pr[p].um # "root" /\ UNCHANGED mnt
        BY <1>2, <1>5
    <2> QED BY <1>4, <2>1, UmSame
<1>12. \A i \in Inode : ino'[i].count - ino[i].count =
                               Pins(i)' - Pins(i) + Rf(pr'[p], i) - Rf(pr[p], i)
    <2> SUFFICES ASSUME NEW i \in Inode
                 PROVE  ino'[i].count - ino[i].count = Pins(i)' - Pins(i) + Rf(pr'[p], i) - Rf(pr[p], i)
        OBVIOUS
    <2>1. MountRefs(i) \in Nat /\ MountRefs(i)' = MountRefs(i)
        BY <1>11 DEF MountRefs
    <2>2. Pins(i) = MountRefs(i) + (IF i = j THEN 1 ELSE 0)
        BY <1>1 DEF Pins
    <2>3. Pins(i)' = MountRefs(i)
        BY <1>2, <2>1, InodeFacts DEF Pins
    <2>4. Rf(pr'[p], i) = (IF i = j THEN 1 ELSE 0) /\ Rf(pr[p], i) = 0
        BY <1>1, <1>2, <1>4 DEF Rf
    <2>5. ino'[i].count = ino[i].count /\ ino[i].count \in Nat
        BY <1>2, InodeFacts
    <2> QED BY <2>1, <2>2, <2>3, <2>4, <2>5
<1>13. PhaseOK'
    BY <1>2, <1>3, <1>11 DEF PhaseOK
<1>14. mnt' \in BOOLEAN /\ cwd' \in 0 .. ninode /\ (cwd' = cwd \/ p = Cwd)
    BY <1>2, InodeFacts DEF Inv
<1> QED BY <1>3, <1>7, <1>8, <1>9, <1>10, <1>12, <1>13, <1>14, AnyStep

-----------------------------------------------------------------------------
(* mount_remove() *)

LEMMA GoesTo ==
    ASSUME Inv, NEW p \in Proc, NEW r \in PrType, pr' = [pr EXCEPT ![p] = r]
    PROVE  pr' \in [Proc -> PrType] /\ Moved(p, {}) /\ pr'[p] = r
<1>1. pr \in [Proc -> PrType]
    BY ProcFacts
<1>2. pr' \in [Proc -> PrType] /\ pr'[p] = r /\ \A q \in Proc \ {p} : pr'[q] = pr[q]
    BY <1>1
<1> QED BY <1>2, MovedSame

\* p takes the mount off the covered directory, with the reference of the mount.
Uncovers(p, e) ==
    /\ e.id = Cov /\ e.mount = FALSE /\ cwd' = cwd
    /\ \/ pr'[p].um = "covered" /\ mnt' = mnt
       \/ pr'[p].um = "no" /\ mnt' = FALSE
    /\ \A i \in Inode \ {CovIp} : Rf(pr'[p], i) = 0
    /\ e.count = ino[CovIp].count - 1 + Rf(pr'[p], CovIp)

LEMMA ClosingFacts ==
    ASSUME Inv, NEW p \in Proc, pr[p].pc = "closing"
    PROVE  /\ p = Umounter /\ Um = "root" /\ Umounter # None /\ ~RootThere /\ mnt /\ cwd = 0 /\ PhaseOK
           /\ ino[CovIp].id = Cov /\ ino[CovIp].count > 0 /\ CovIp \in Inode /\ CovIp # RootIp
           /\ Cov \notin Mounted /\ Cov \in Ids /\ Cov # Anon
           /\ \A i \in Inode : Rf(pr[p], i) = 0 /\ ~Lk(pr[p], i)
           /\ \A i \in Inode : ino[i].id \notin Mounted
<1>1. p = Umounter /\ Um = "root" /\ Umounter # None
    BY ProcFacts DEF Um, Inv, InodeCacheConstants
<1>2. ~RootThere
    BY <1>1 DEF RootThere
<1>3. PhaseOK /\ InodeCacheConstants
    BY DEF Inv
<1>4. mnt /\ cwd = 0 /\ ino[CovIp].id = Cov
    BY <1>1, <1>3 DEF PhaseOK
<1>5. ino[CovIp].count > 0
    BY <1>1, <1>4, Pinned
<1>6. Cov \notin Mounted /\ Cov \in Ids /\ Cov # Anon
    BY <1>3 DEF InodeCacheConstants, Mounted, Ids
<1>7. \A i \in Inode : Rf(pr[p], i) = 0 /\ ~Lk(pr[p], i)
    BY PcSets DEF Rf, Lk
<1>8. \A i \in Inode : ino[i].id \notin Mounted
    BY <1>2, <1>3 DEF PhaseOK
<1> QED BY <1>1, <1>2, <1>3, <1>4, <1>5, <1>6, <1>7, <1>8, InodeFacts

LEMMA UncoversStep ==
    ASSUME Inv, NEW p \in Proc, pr[p].pc = "closing", NEW W, NEW e, NewProc(p, W),
           NewEntry(CovIp, e), KeepsOthers(p, W, CovIp, e), LocksOnly(p, CovIp, e),
           Uncovers(p, e)
    PROVE  Inv'
<1>1. /\ ninode \in Nat /\ RootIp \in Inode /\ CovIp \in Inode /\ RootIp # CovIp
      /\ \A i \in Inode : ino[i] \in Entry /\ ino[i].count \in Nat
    BY InodeFacts
<1>2. /\ p = Umounter /\ Um = "root" /\ Umounter # None /\ mnt /\ cwd = 0 /\ PhaseOK
      /\ Cov \notin Mounted
      /\ \A i \in Inode : ino[i].id \notin Mounted /\ Rf(pr[p], i) = 0
    BY ClosingFacts
<1>3. \/ pr'[p].um = "covered" /\ mnt' = TRUE
      \/ pr'[p].um = "no" /\ mnt' = FALSE
    BY <1>2 DEF Uncovers, Inv
<1>4. Um' = pr'[p].um /\ ~RootThere' /\ cwd' = 0
    BY <1>2, <1>3 DEF Um, RootThere, Uncovers
<1>5. \A i \in Inode : ino'[i] = IF i = CovIp THEN e ELSE ino[i]
    BY <1>1 DEF NewEntry, Inv
<1>6. PhaseOK'
    <2>1. \A i \in Inode : ino'[i].id \notin Mounted
        BY <1>2, <1>5 DEF Uncovers
    <2>2. \A i \in Inode : ~ino'[i].mount
        BY <1>2, <1>5 DEF PhaseOK, Uncovers
    <2>3. (Um' = "covered" /\ mnt' = TRUE) \/ (Um' = "no" /\ mnt' = FALSE)
        BY <1>3, <1>4
    <2> QED BY <1>1, <1>2, <1>4, <2>1, <2>2, <2>3 DEF PhaseOK
<1>7. \A i \in Inode : ino'[i].count - ino[i].count =
                               Pins(i)' - Pins(i) + Rf(pr'[p], i) - Rf(pr[p], i)
    <2> SUFFICES ASSUME NEW i \in Inode
                 PROVE  ino'[i].count - ino[i].count = Pins(i)' - Pins(i) + Rf(pr'[p], i) - Rf(pr[p], i)
        OBVIOUS
    <2>1. MountRefs(i) = (IF i = CovIp THEN 1 ELSE 0) /\ MountRefs(i)' = 0
        BY <1>1, <1>2, <1>3 DEF MountRefs, Umounting, Um
    <2>2. Pins(i) = (IF i = CovIp THEN 1 ELSE 0) /\ Pins(i)' = 0
        BY <1>2, <1>4, <2>1, InodeFacts DEF Pins
    <2>3. Rf(pr'[p], i) \in {0, 1} /\ Rf(pr[p], i) = 0 /\ (i # CovIp => Rf(pr'[p], i) = 0)
        BY <1>2 DEF Rf, Uncovers
    <2>4. ino[i].count \in Nat /\ ino'[i].count = IF i = CovIp THEN ino[i].count - 1 + Rf(pr'[p], i) ELSE ino[i].count
        BY <1>1, <1>5 DEF Uncovers
    <2> QED BY <2>2, <2>3, <2>4
<1>8. mnt' \in BOOLEAN /\ cwd' \in 0 .. ninode /\ cwd' = cwd
    <2>1. mnt' \in BOOLEAN
        BY <1>3, Zenon
    <2>2. cwd' \in 0 .. ninode /\ cwd' = cwd
        BY <1>1, <1>2, <1>4
    <2> QED BY <2>1, <2>2
<1>9. PICK j : j = CovIp
    OBVIOUS
<1>10. j \in Inode /\ NewEntry(j, e) /\ KeepsOthers(p, W, j, e) /\ LocksOnly(p, j, e)
    BY <1>1, <1>9
<1> QED BY <1>6, <1>7, <1>8, <1>10, AnyStep

LEMMA CovStep ==
    ASSUME Inv, NEW p \in Proc, pr[p].pc = "closing", NEW e \in Entry,
           ino' = [ino EXCEPT ![CovIp] = e], free' = free,
           e.hash = ino[CovIp].hash, e.valid = ino[CovIp].valid, e.count > 0,
           ino[CovIp].locked => e.locked /\ e.want /\ e.count = ino[CovIp].count,
           e.locked => ino[CovIp].locked \/ Lk(pr'[p], CovIp),
           Lk(pr'[p], CovIp) => ~ino[CovIp].locked,
           \A i \in Inode \ {CovIp} : ~Lk(pr'[p], i),
           NewProc(p, {}), Uncovers(p, e)
    PROVE  Inv'
<1> USE PcSets
<1>1. PICK j, W : j = CovIp /\ W = {}
    OBVIOUS
<1>2. /\ ino[j].id = Cov /\ ino[j].count > 0 /\ j \in Inode /\ e.id = ino[j].id
      /\ \A i \in Inode : ~Lk(pr[p], i)
    BY <1>1, ClosingFacts DEF Uncovers
<1>3. EntryOK(ino[j]) /\ LockOK(j) /\ Lists(free, Idle0) /\ \A q \in Proc : ProcOK(q)
    BY <1>2 DEF Inv
<1>4. EntryOK(e)
    <2>1. ino[j].count \in Nat /\ e.count # 0 /\ ino[j].count # 0
        BY <1>2, InodeFacts
    <2> QED BY <1>1, <1>2, <1>3, <2>1 DEF EntryOK
<1>5. NewEntry(j, e)
    <2>1. Idle0' = Idle0
        <3>1. Idle0' = IF e.count = 0 THEN Idle0 \cup {j} ELSE Idle0 \ {j}
            BY <1>1, <1>2, IdleStep
        <3>2. e.count # 0 /\ j \notin Idle0
            BY <1>2, InodeFacts DEF Idle0
        <3> QED BY <3>1, <3>2
    <2> QED BY <1>1, <1>2, <1>3, <1>4, <2>1 DEF NewEntry
<1>6. KeepsOthers(p, W, j, e)
    <2>1. CASE ino[j].locked
        BY <1>1, <1>2, <1>3, <2>1 DEF KeepsOthers, ProcOK, Lk
    <2>2. CASE ~ino[j].locked
        <3>1. \A q \in Proc : pr[q].i = j => pr[q].pc \notin {"reading", "held", "putting", "igetwait", "lockwait"}
            BY <1>3, <2>2 DEF ProcOK
        <3> QED BY <1>2, <3>1 DEF KeepsOthers, Lk
    <2> QED BY <2>1, <2>2
<1>7. LocksOnly(p, j, e)
    <2>1. ino[j].locked => \E q \in Proc \ {p} : Lk(pr[q], j)
        BY <1>2, <1>3 DEF LockOK, Lk
    <2>2. ~ino[j].locked => \A q \in Proc : ~Lk(pr[q], j)
        BY <1>3 DEF ProcOK, Lk
    <2> QED BY <1>1, <1>2, <2>1, <2>2 DEF LocksOnly
<1>8. NewProc(p, W) /\ NewEntry(CovIp, e) /\ KeepsOthers(p, W, CovIp, e) /\ LocksOnly(p, CovIp, e)
    BY <1>1, <1>5, <1>6, <1>7
<1> QED BY <1>8, UncoversStep

\* What of the covered directory stays when mount_remove() marks it.
Bared(e) == /\ e \in Entry /\ e.id = ino[CovIp].id /\ e.hash = ino[CovIp].hash
            /\ e.valid = ino[CovIp].valid /\ e.mount = FALSE

LEMMA BaredTable ==
    ASSUME Inv
    PROVE  LET T == [Table EXCEPT !.ino[CovIp].mount = FALSE]
           IN  /\ T \in Tables /\ T.free = free
               /\ \E t : /\ T.ino = [ino EXCEPT ![CovIp] = t] /\ Bared(t) /\ t.locked = ino[CovIp].locked
                         /\ t.want = ino[CovIp].want /\ t.count = ino[CovIp].count
<1>1. PICK j : j = CovIp
    OBVIOUS
<1>2. PICK T \in Tables : T = Table /\ T.ino = ino /\ T.free = free
    BY TableType
<1>3. PICK U : U = [T EXCEPT !.ino[j].mount = FALSE]
    OBVIOUS
<1>4. j \in Inode /\ ino[j] \in Entry /\ ino \in [Inode -> Entry]
    BY <1>1, InodeFacts DEF Inv
<1>5. PICK t : t = [ino[j] EXCEPT !.mount = FALSE]
    OBVIOUS
<1>6. PICK x : x = [ino EXCEPT ![j] = t]
    OBVIOUS
<1>7. Bared(t) /\ t.locked = ino[j].locked /\ t.want = ino[j].want /\ t.count = ino[j].count
    BY <1>1, <1>4, <1>5 DEF Bared, Entry
<1>8. U.free = T.free /\ U.ino = x
    <2>1. U.free = T.free /\ U.ino = [T.ino EXCEPT ![j] = [T.ino[j] EXCEPT !.mount = FALSE]]
        BY <1>3 DEF Tables
    <2> QED BY <1>2, <1>5, <1>6, <2>1
<1>9. U \in Tables
    <2>1. x \in [Inode -> Entry]
        BY <1>4, <1>6, <1>7 DEF Bared
    <2>2. U = [T EXCEPT !.ino = x]
        <3>1. x = [T.ino EXCEPT ![j].mount = FALSE]
            BY <1>2, <1>5, <1>6
        <3> QED BY <1>3, <3>1
    <2>3. \A X \in Tables, y \in [Inode -> Entry] : [X EXCEPT !.ino = y] \in Tables
        BY DEF Tables
    <2> QED BY <2>1, <2>2, <2>3
<1>10. U = [Table EXCEPT !.ino[CovIp].mount = FALSE]
    BY <1>1, <1>2, <1>3
<1> QED BY <1>1, <1>2, <1>6, <1>7, <1>8, <1>9, <1>10

Minus1(T, i) == [T EXCEPT !.ino[i].count = @ - 1]

LEMMA MinusOne ==
    ASSUME Inv, NEW T \in Tables, NEW i \in Inode, T.ino[i].count > 0, SetTable(Minus1(T, i))
    PROVE  /\ \E e \in Entry : /\ ino' = [T.ino EXCEPT ![i] = e] /\ e.count = T.ino[i].count - 1
                               /\ e.id = T.ino[i].id /\ e.hash = T.ino[i].hash /\ e.valid = T.ino[i].valid
                               /\ e.mount = T.ino[i].mount /\ e.locked = T.ino[i].locked
           /\ free' = T.free
<1>1. T.ino[i] \in Entry /\ T.ino[i].count \in Nat /\ T.ino[i].count \in 0 .. MaxRefs /\ MaxRefs \in Nat
    BY InodeFacts DEF Tables, Entry
<1>2. PICK n \in 0 .. MaxRefs : n = T.ino[i].count - 1
    BY <1>1
<1>3. PICK e : e = [T.ino[i] EXCEPT !.count = n]
    OBVIOUS
<1>4. /\ e \in Entry /\ e.count = T.ino[i].count - 1
      /\ e.id = T.ino[i].id /\ e.hash = T.ino[i].hash /\ e.valid = T.ino[i].valid
      /\ e.mount = T.ino[i].mount /\ e.locked = T.ino[i].locked
    BY <1>1, <1>2, <1>3 DEF Entry
<1>5. PICK U : U = Minus1(T, i)
    OBVIOUS
<1>6. U.ino = [T.ino EXCEPT ![i] = e] /\ U.free = T.free
    BY <1>2, <1>3, <1>5 DEF Tables, Minus1
<1>7. SetTable(U)
    BY <1>5
<1> QED BY <1>4, <1>6, <1>7 DEF SetTable

\* What the process that runs mount_remove() does next.
Waits(r, z) == [r EXCEPT !.pc = "lockwait", !.i = z, !.id = Cov, !.then = "put", !.um = "covered"]
Puts(r, z) == [r EXCEPT !.pc = "putting", !.i = z, !.id = Cov, !.um = "covered"]
Ends(r, z) == [r EXCEPT !.pc = "idle", !.i = z, !.id = None, !.um = "no"]

LEMMA RemoverFields ==
    ASSUME NEW r \in PrType, NEW z \in 0 .. ninode, Cov \in Ids
    PROVE  /\ Waits(r, z) \in PrType /\ Waits(r, z).pc = "lockwait" /\ Waits(r, z).i = z
           /\ Waits(r, z).id = Cov /\ Waits(r, z).then = "put" /\ Waits(r, z).um = "covered"
           /\ Puts(r, z) \in PrType /\ Puts(r, z).pc = "putting" /\ Puts(r, z).i = z
           /\ Puts(r, z).id = Cov /\ Puts(r, z).um = "covered"
           /\ Ends(r, z) \in PrType /\ Ends(r, z).pc = "idle" /\ Ends(r, z).i = z
           /\ Ends(r, z).um = "no"
<1> USE PcSets
<1>1. ASSUME NEW f, f = Waits(r, z)
      PROVE  f \in PrType /\ f.pc = "lockwait" /\ f.i = z /\ f.id = Cov /\ f.then = "put" /\ f.um = "covered"
    BY <1>1 DEF PrType, Waits
<1>2. ASSUME NEW f, f = Puts(r, z)
      PROVE  f \in PrType /\ f.pc = "putting" /\ f.i = z /\ f.id = Cov /\ f.um = "covered"
    BY <1>2 DEF PrType, Puts
<1>3. ASSUME NEW f, f = Ends(r, z)
      PROVE  f \in PrType /\ f.pc = "idle" /\ f.i = z /\ f.um = "no"
    BY <1>3 DEF PrType, Ends
<1> QED BY <1>1, <1>2, <1>3

\* The covered directory is locked, and p waits to put it away.
LEMMA RemoveWaits ==
    ASSUME Inv, NEW p \in Proc, pr[p].pc = "closing", ino[CovIp].locked, NEW e \in Entry,
           ino' = [ino EXCEPT ![CovIp] = e], free' = free, Bared(e), e.locked, e.want,
           e.count = ino[CovIp].count, pr' = [pr EXCEPT ![p] = Waits(pr[p], CovIp)],
           mnt' = mnt, cwd' = cwd
    PROVE  Inv'
<1> USE PcSets
<1>1. PICK r, j : r = pr'[p] /\ j = CovIp
    OBVIOUS
<1>2. /\ p = Umounter /\ ino[j].id = Cov /\ ino[j].count > 0 /\ j \in Inode /\ Cov \in Ids
      /\ ino[j].count \in Nat /\ j \in 0 .. ninode
    BY <1>1, ClosingFacts, InodeFacts
<1>3. pr[p] \in PrType
    BY ProcFacts
<1>4. /\ pr' \in [Proc -> PrType] /\ Moved(p, {}) /\ r.pc = "lockwait" /\ r.i = j /\ r.id = Cov
      /\ r.then = "put" /\ r.um = "covered"
    <2>1. PICK w : w = Waits(pr[p], CovIp)
        OBVIOUS
    <2>2. w \in PrType /\ w.pc = "lockwait" /\ w.i = j /\ w.id = Cov /\ w.then = "put" /\ w.um = "covered"
        BY <1>1, <1>2, <1>3, <2>1, RemoverFields
    <2>3. pr' \in [Proc -> PrType] /\ Moved(p, {}) /\ pr'[p] = w
        BY <2>1, <2>2, GoesTo
    <2> QED BY <1>1, <2>2, <2>3
<1>5. ino'[j] = e
    BY <1>1, <1>2 DEF Inv
<1>6. ProcOK(p)' /\ UmOK(p)'
    <2>1. ProcOK(p)'
        BY <1>1, <1>2, <1>4, <1>5 DEF ProcOK, Bared
    <2>2. UmOK(p)'
        BY <1>1, <1>2, <1>4 DEF UmOK
    <2> QED BY <2>1, <2>2
<1>7. NewProc(p, {})
    BY <1>4, <1>6 DEF NewProc
<1>8. \A i \in Inode : Rf(pr'[p], i) = (IF i = j THEN 1 ELSE 0) /\ ~Lk(pr'[p], i)
    BY <1>1, <1>4 DEF Rf, Lk
<1>9. Uncovers(p, e)
    BY <1>1, <1>2, <1>4, <1>8 DEF Uncovers, Bared
<1> QED BY <1>1, <1>2, <1>7, <1>8, <1>9, CovStep DEF Bared

\* The reference of the mount is the last one.
LEMMA RemovePuts ==
    ASSUME Inv, NEW p \in Proc, pr[p].pc = "closing", ~ino[CovIp].locked, NEW e \in Entry,
           ino' = [ino EXCEPT ![CovIp] = e], free' = free, Bared(e), e.locked, ino[CovIp].count = 1,
           e.count = ino[CovIp].count, pr' = [pr EXCEPT ![p] = Puts(pr[p], CovIp)],
           mnt' = mnt, cwd' = cwd
    PROVE  Inv'
<1> USE PcSets
<1>1. PICK r, j : r = pr'[p] /\ j = CovIp
    OBVIOUS
<1>2. /\ p = Umounter /\ ino[j].id = Cov /\ ino[j].count > 0 /\ j \in Inode /\ Cov \in Ids
      /\ ino[j].count \in Nat /\ j \in 0 .. ninode
    BY <1>1, ClosingFacts, InodeFacts
<1>3. pr[p] \in PrType
    BY ProcFacts
<1>4. /\ pr' \in [Proc -> PrType] /\ Moved(p, {}) /\ r.pc = "putting" /\ r.i = j /\ r.id = Cov
      /\ r.um = "covered"
    <2>1. PICK w : w = Puts(pr[p], CovIp)
        OBVIOUS
    <2>2. w \in PrType /\ w.pc = "putting" /\ w.i = j /\ w.id = Cov /\ w.um = "covered"
        BY <1>1, <1>2, <1>3, <2>1, RemoverFields
    <2>3. pr' \in [Proc -> PrType] /\ Moved(p, {}) /\ pr'[p] = w
        BY <2>1, <2>2, GoesTo
    <2> QED BY <1>1, <2>2, <2>3
<1>5. ino'[j] = e
    BY <1>1, <1>2 DEF Inv
<1>6. ProcOK(p)' /\ UmOK(p)'
    <2>1. ProcOK(p)'
        BY <1>1, <1>2, <1>4, <1>5 DEF ProcOK, Bared
    <2>2. UmOK(p)'
        BY <1>1, <1>2, <1>4 DEF UmOK
    <2> QED BY <2>1, <2>2
<1>7. NewProc(p, {})
    BY <1>4, <1>6 DEF NewProc
<1>8. \A i \in Inode : Rf(pr'[p], i) = (IF i = j THEN 1 ELSE 0) /\ (Lk(pr'[p], i) <=> i = j)
    BY <1>1, <1>4 DEF Rf, Lk
<1>9. Uncovers(p, e)
    BY <1>1, <1>2, <1>4, <1>8 DEF Uncovers, Bared
<1> QED BY <1>1, <1>2, <1>7, <1>8, <1>9, CovStep DEF Bared

\* Others have the covered directory.
LEMMA RemoveEnds ==
    ASSUME Inv, NEW p \in Proc, pr[p].pc = "closing", ~ino[CovIp].locked, NEW e \in Entry,
           ino' = [ino EXCEPT ![CovIp] = e], free' = free, Bared(e), ~e.locked, ino[CovIp].count # 1,
           e.count = ino[CovIp].count - 1, pr' = [pr EXCEPT ![p] = Ends(pr[p], 0)],
           mnt' = FALSE, cwd' = cwd
    PROVE  Inv'
<1> USE PcSets
<1>1. PICK r, j, z : r = pr'[p] /\ j = CovIp /\ z = 0
    OBVIOUS
<1>2. /\ p = Umounter /\ ino[j].id = Cov /\ ino[j].count > 0 /\ j \in Inode /\ Cov \in Ids
      /\ ino[j].count \in Nat /\ z \in 0 .. ninode
    BY <1>1, ClosingFacts, InodeFacts
<1>3. pr[p] \in PrType
    BY ProcFacts
<1>4. /\ pr' \in [Proc -> PrType] /\ Moved(p, {}) /\ r.pc = "idle" /\ r.um = "no"
    <2>1. PICK w : w = Ends(pr[p], 0)
        OBVIOUS
    <2>2. w \in PrType /\ w.pc = "idle" /\ w.um = "no"
        BY <1>1, <1>2, <1>3, <2>1, RemoverFields
    <2>3. pr' \in [Proc -> PrType] /\ Moved(p, {}) /\ pr'[p] = w
        BY <2>1, <2>2, GoesTo
    <2> QED BY <1>1, <2>2, <2>3
<1>5. ProcOK(p)' /\ UmOK(p)'
    BY <1>1, <1>4, UmNo DEF ProcOK
<1>6. NewProc(p, {})
    BY <1>4, <1>5 DEF NewProc
<1>7. \A i \in Inode : Rf(pr'[p], i) = 0 /\ ~Lk(pr'[p], i)
    BY <1>1, <1>4 DEF Rf, Lk
<1>8. Uncovers(p, e)
    BY <1>1, <1>2, <1>4, <1>7 DEF Uncovers, Bared
<1>9. e.count > 0
    BY <1>1, <1>2
<1>10. /\ e.hash = ino[CovIp].hash /\ e.valid = ino[CovIp].valid
       /\ \A i \in Inode \ {CovIp} : ~Lk(pr'[p], i)
       /\ ~Lk(pr'[p], CovIp)
    BY <1>1, <1>2, <1>7 DEF Bared
<1> QED BY <1>6, <1>8, <1>9, <1>10, CovStep

LEMMA MountRemoveStep ==
    ASSUME Inv, NEW p \in Proc, MountRemove(p)
    PROVE  Inv'
<1>1. PICK T : T = [Table EXCEPT !.ino[CovIp].mount = FALSE]
    OBVIOUS
<1>2. pr[p].pc = "closing" /\ cwd' = cwd
    BY DEF MountRemove
<1>3. PICK t : /\ T \in Tables /\ T.free = free
               /\ T.ino = [ino EXCEPT ![CovIp] = t] /\ Bared(t) /\ t.locked = ino[CovIp].locked
               /\ t.want = ino[CovIp].want /\ t.count = ino[CovIp].count
    BY <1>1, BaredTable
<1>4. CovIp \in Inode /\ ino[CovIp].count > 0 /\ T.ino[CovIp] = t
    <2>1. CovIp \in Inode /\ ino[CovIp].count > 0
        BY <1>2, ClosingFacts
    <2> QED BY <1>3, <2>1 DEF Inv
<1>5. pr \in [Proc -> PrType]
    BY ProcFacts
<1>6. CASE ino[CovIp].locked
    <2>1. /\ TableWant(T, CovIp) /\ mnt' = mnt
          /\ pr' = [pr EXCEPT ![p].pc = "lockwait", ![p].i = CovIp, ![p].id = Cov, ![p].then = "put",
                              ![p].um = "covered"]
        BY <1>1, <1>6 DEF MountRemove, TableWant
    <2>2. pr' = [pr EXCEPT ![p] = Waits(pr[p], CovIp)]
        BY <1>5, <2>1 DEF Waits
    <2>3. PICK e \in Entry : /\ ino' = [T.ino EXCEPT ![CovIp] = e] /\ EntrySame(e, T.ino[CovIp])
                             /\ e.locked = T.ino[CovIp].locked /\ e.want
        BY <1>3, <1>4, <2>1, TableSets
    <2>4. free' = free /\ ino' = [ino EXCEPT ![CovIp] = e]
        BY <1>3, <1>4, <2>1, <2>3, TableSets, TwiceSet
    <2>5. Bared(e) /\ e.locked /\ e.count = ino[CovIp].count
        BY <1>3, <1>4, <1>6, <2>3 DEF EntrySame, Bared
    <2> QED BY <1>2, <1>6, <2>1, <2>2, <2>3, <2>4, <2>5, RemoveWaits
<1>7. CASE ~ino[CovIp].locked /\ ino[CovIp].count = 1
    <2>1. /\ TableLock(T, CovIp) /\ mnt' = mnt
          /\ pr' = [pr EXCEPT ![p].pc = "putting", ![p].i = CovIp, ![p].id = Cov, ![p].um = "covered"]
        BY <1>1, <1>7 DEF MountRemove, TableLock, Last1
    <2>2. pr' = [pr EXCEPT ![p] = Puts(pr[p], CovIp)]
        BY <1>5, <2>1 DEF Puts
    <2>3. PICK e \in Entry : /\ ino' = [T.ino EXCEPT ![CovIp] = e] /\ EntrySame(e, T.ino[CovIp])
                             /\ e.locked /\ e.want = T.ino[CovIp].want
        BY <1>3, <1>4, <2>1, TableSets
    <2>4. free' = free /\ ino' = [ino EXCEPT ![CovIp] = e]
        BY <1>3, <1>4, <2>1, <2>3, TableSets, TwiceSet
    <2>5. Bared(e) /\ e.count = ino[CovIp].count
        BY <1>3, <1>4, <2>3 DEF EntrySame, Bared
    <2> QED BY <1>2, <1>7, <2>1, <2>2, <2>3, <2>4, <2>5, RemovePuts
<1>8. CASE ~ino[CovIp].locked /\ ino[CovIp].count # 1
    <2>1. PICK U, P : U = [T EXCEPT !.ino[CovIp].count = @ - 1] /\ P = [pr EXCEPT ![p].um = "covered"]
        OBVIOUS
    <2>2. Returned(U, P, p)
        BY <1>1, <1>8, <2>1 DEF MountRemove, Last1
    <2>3. P[p].um = "covered"
        <3>1. P[p] = [pr[p] EXCEPT !.um = "covered"] /\ pr[p] \in PrType
            BY <1>5, <2>1
        <3> QED BY <3>1 DEF PrType
    <2>4. /\ SetTable(U) /\ mnt' = FALSE
          /\ pr' = [P EXCEPT ![p].pc = "idle", ![p].i = 0, ![p].id = None, ![p].um = "no"]
        BY <2>2, <2>3 DEF Returned
    <2>5. pr' = [pr EXCEPT ![p] = Ends(pr[p], 0)]
        BY <1>5, <2>1, <2>4 DEF Ends
    <2>6. T.ino[CovIp].count > 0 /\ SetTable(Minus1(T, CovIp))
        BY <1>3, <1>4, <2>1, <2>4 DEF Minus1
    <2>7. PICK e \in Entry : /\ ino' = [ino EXCEPT ![CovIp] = e] /\ e.count = t.count - 1
                             /\ e.id = t.id /\ e.hash = t.hash /\ e.valid = t.valid
                             /\ e.mount = t.mount /\ e.locked = t.locked /\ free' = free
        <3>1. PICK j : j = CovIp
            OBVIOUS
        <3>2. j \in Inode /\ T \in Tables /\ T.ino[j].count > 0 /\ SetTable(Minus1(T, j))
            BY <1>3, <1>4, <2>6, <3>1
        <3>3. PICK e \in Entry : /\ ino' = [T.ino EXCEPT ![j] = e] /\ e.count = T.ino[j].count - 1
                                 /\ e.id = T.ino[j].id /\ e.hash = T.ino[j].hash /\ e.valid = T.ino[j].valid
                                 /\ e.mount = T.ino[j].mount /\ e.locked = T.ino[j].locked
            BY <3>2, MinusOne
        <3>4. free' = free /\ ino' = [ino EXCEPT ![CovIp] = e]
            BY <1>3, <3>1, <3>2, <3>3, MinusOne, TwiceSet
        <3> QED BY <1>4, <3>1, <3>3, <3>4
    <2>9. Bared(e) /\ ~e.locked /\ e.count = ino[CovIp].count - 1
        BY <1>3, <1>4, <1>8, <2>7 DEF Bared
    <2> QED BY <1>2, <1>8, <2>4, <2>5, <2>7, <2>9, RemoveEnds
<1> QED BY <1>6, <1>7, <1>8

-----------------------------------------------------------------------------
(* iflush() *)

\* A non-empty set of naturals has a least element.
LEMMA Smallest ==
    ASSUME NEW T \in SUBSET Nat, T # {}
    PROVE  \E n \in T : \A m \in T : n <= m
<1> DEFINE R == OpToRel(<, Nat)
<1>1. IsWellFoundedOn(R, Nat)
    BY NatLessThanWellFounded, Zenon
<1>2. PICK n \in T : \A m \in T : <<m, n>> \notin R
    <2> HIDE DEF R
    <2> QED BY <1>1, WFMin, Zenon
<1>3. \A m \in T : ~(m < n)
    BY <1>2 DEF OpToRel
<1> QED BY <1>3

\* One turn of the loop of iflush().
FlushOne(T, n) == IF n \in Purged THEN iuncache(T, n) ELSE T

LEMMA LoopOf ==
    ASSUME NEW N \in Nat, NEW T
    PROVE  \A n \in 0 .. N : \E f : f = [m \in 0 .. n |-> IF m = 0 THEN T ELSE FlushOne(f[m - 1], m)]
<1> DEFINE Eq(f, n) == f = [m \in 0 .. n |-> IF m = 0 THEN T ELSE FlushOne(f[m - 1], m)]
           S == {n \in 0 .. N : ~\E f : Eq(f, n)}
<1>1. CASE S # {}
    <2>1. PICK n \in S : \A m \in S : n <= m
        <3>1. S \in SUBSET Nat
            OBVIOUS
        <3> HIDE DEF S
        <3> QED BY <1>1, <3>1, Smallest
    <2>2. n \in 0 .. N /\ ~\E f : Eq(f, n)
        OBVIOUS
    <2>3. n # 0
        <3>1. ASSUME n = 0 PROVE FALSE
            <4>1. PICK f : f = [m \in 0 .. 0 |-> T]
                OBVIOUS
            <4>2. \A m \in 0 .. 0 : m = 0
                OBVIOUS
            <4>3. f = [m \in 0 .. 0 |-> IF m = 0 THEN T ELSE FlushOne(f[m - 1], m)]
                BY <4>1, <4>2
            <4> QED BY <2>2, <3>1, <4>3
        <3> QED BY <3>1
    <2>4. n - 1 \in 0 .. N /\ n - 1 \notin S
        <3>1. n - 1 \in 0 .. N /\ ~(n <= n - 1)
            BY <2>2, <2>3
        <3> HIDE DEF S
        <3> QED BY <2>1, <3>1
    <2>5. PICK f : Eq(f, n - 1)
        BY <2>4
    <2>6. PICK g : g = [m \in 0 .. n |-> IF m < n THEN f[m] ELSE FlushOne(f[n - 1], n)]
        OBVIOUS
    <2>7. \A m \in 0 .. n - 1 : f[m] = IF m = 0 THEN T ELSE FlushOne(f[m - 1], m)
        BY <2>5, Zenon
    <2>8. \A m \in 0 .. n - 1 : g[m] = f[m]
        BY <2>2, <2>6
    <2>9. g[n] = FlushOne(f[n - 1], n) /\ g[n - 1] = f[n - 1]
        BY <2>2, <2>3, <2>6
    <2>10. \A m \in 0 .. n : g[m] = IF m = 0 THEN T ELSE FlushOne(g[m - 1], m)
        <3> SUFFICES ASSUME NEW m \in 0 .. n PROVE g[m] = IF m = 0 THEN T ELSE FlushOne(g[m - 1], m)
            OBVIOUS
        <3>1. CASE m = n
            BY <2>3, <2>9, <3>1
        <3>2. CASE m # n
            <4>1. m \in 0 .. n - 1 /\ (m # 0 => m - 1 \in 0 .. n - 1)
                BY <2>2, <3>2
            <4>2. g[m] = IF m = 0 THEN T ELSE FlushOne(f[m - 1], m)
                BY <2>7, <2>8, <4>1
            <4>3. m # 0 => g[m - 1] = f[m - 1]
                BY <2>8, <4>1
            <4> QED BY <4>2, <4>3
        <3> QED BY <3>1, <3>2
    <2>11. g = [m \in 0 .. n |-> g[m]]
        BY <2>6
    <2>12. Eq(g, n)
        BY <2>10, <2>11
    <2> QED BY <2>2, <2>12
<1> QED BY <1>1

LEMMA FlushedLoop ==
    ASSUME Inv
    PROVE  \E u : /\ Flushed = u[ninode] /\ u[0] = Table
                  /\ \A n \in 1 .. ninode : u[n] = FlushOne(u[n - 1], n)
<1> DEFINE Eq(f) == f = [m \in 0 .. ninode |-> IF m = 0 THEN Table ELSE FlushOne(f[m - 1], m)]
<1>1. ninode \in Nat
    BY InodeFacts
<1>2. PICK u : u = CHOOSE f : Eq(f)
    OBVIOUS
<1>3. Flushed = u[ninode]
    BY <1>2, Zenon DEF Flushed, FlushOne
<1>4. \E f : Eq(f)
    <2>1. ninode \in 0 .. ninode
        BY <1>1
    <2>2. PICK T : T = Table
        OBVIOUS
    <2>3. \A n \in 0 .. ninode : \E f : f = [m \in 0 .. n |-> IF m = 0 THEN T ELSE FlushOne(f[m - 1], m)]
        BY <1>1, LoopOf
    <2>4. \E f : f = [m \in 0 .. ninode |-> IF m = 0 THEN T ELSE FlushOne(f[m - 1], m)]
        BY <2>1, <2>3
    <2> QED BY <2>2, <2>4
<1>5. Eq(u)
    <2> HIDE DEF Eq
    <2> QED BY <1>2, <1>4, Zenon
<1>6. \A m \in 0 .. ninode : u[m] = IF m = 0 THEN Table ELSE FlushOne(u[m - 1], m)
    BY <1>5, Zenon
<1>7. u[0] = Table /\ \A n \in 1 .. ninode : u[n] = FlushOne(u[n - 1], n)
    BY <1>1, <1>6
<1> QED BY <1>3, <1>7

\* The table when iflush() has been through the first n inodes.
Wiped(n) == [i \in Inode |-> IF i \in Purged /\ i <= n THEN FreeInode ELSE ino[i]]

LEMMA PurgedFacts ==
    ASSUME Inv, NEW i \in Purged
    PROVE  i \in Inode /\ i # RootIp /\ ino[i].id \in Mounted /\ ino[i].count = 0 /\ ~ino[i].locked /\ i \in Idle0
           /\ ino[i].valid /\ ino[i].hash = "on" /\ i # CovIp
<1>1. i \in Inode /\ i # RootIp /\ ino[i].id \in Mounted /\ ino[i].count = 0 /\ ~ino[i].locked /\ i \in Idle0
    BY DEF Purged, Active, Idle0
<1>2. None \notin Mounted /\ Cov \notin Mounted
    BY DEF Inv, InodeCacheConstants, Ids, Mounted
<1>3. EntryOK(ino[i])
    BY <1>1 DEF Inv
<1>4. ino[i] # FreeInode
    BY <1>1, <1>2 DEF FreeInode
<1>5. i # CovIp
    <2>1. ASSUME i = CovIp PROVE FALSE
        <3>1. RootThere
            BY <1>1 DEF Inv, PhaseOK
        <3>2. ino[CovIp].id = Cov
            BY <3>1 DEF Inv, PhaseOK, RootThere
        <3> QED BY <1>1, <1>2, <2>1, <3>2
    <2> QED BY <2>1
<1> QED BY <1>1, <1>3, <1>4, <1>5 DEF EntryOK

LEMMA FlushTurn ==
    ASSUME Inv, NEW n \in Inode, NEW X \in Tables, X.ino = Wiped(n - 1), Lists(X.free, Idle0)
    PROVE  /\ FlushOne(X, n).ino = Wiped(n) /\ Lists(FlushOne(X, n).free, Idle0)
           /\ FlushOne(X, n) \in Tables
<1>1. n \in 1 .. ninode /\ ninode \in Nat /\ Inode = 1 .. ninode
    BY InodeFacts DEF Inode
<1>2. CASE n \notin Purged
    <2>1. \A i \in Inode : i \in Purged => (i <= n <=> i <= n - 1)
        BY <1>1, <1>2
    <2>2. Wiped(n) = Wiped(n - 1)
        BY <2>1 DEF Wiped
    <2> QED BY <1>2, <2>2 DEF FlushOne
<1>3. CASE n \in Purged
    <2>1. X.ino[n] = ino[n]
        BY <1>1 DEF Wiped
    <2>2. ino[n].valid /\ n \in Idle0
        BY <1>3, PurgedFacts
    <2>3. FlushOne(X, n) = [ino |-> [X.ino EXCEPT ![n] = FreeInode], free |-> <<n>> \o Off(X.free, n)]
        BY <1>3, <2>1, <2>2 DEF FlushOne, iuncache
    <2>4. [X.ino EXCEPT ![n] = FreeInode] = Wiped(n)
        <3>1. PICK f : f = FreeInode
            OBVIOUS
        <3>2. \A i \in Inode : i # n => (i <= n <=> i <= n - 1)
            BY <1>1
        <3> QED BY <1>1, <1>3, <3>1, <3>2 DEF Wiped
    <2>5. Lists(Off(X.free, n), Idle0 \ {n})
        BY <2>2, OffLists
    <2>6. Lists(<<n>> \o Off(X.free, n), Idle0)
        <3>1. Lists(<<n>> \o Off(X.free, n), (Idle0 \ {n}) \cup {n})
            <4>1. PICK S : S = Idle0 \ {n}
                OBVIOUS
            <4>2. n \notin S /\ Lists(Off(X.free, n), S)
                BY <2>5, <4>1
            <4> QED BY <4>1, <4>2, ConsLists
        <3>2. (Idle0 \ {n}) \cup {n} = Idle0
            BY <2>2
        <3> QED BY <3>1, <3>2
    <2>7. Wiped(n) \in [Inode -> Entry] /\ <<n>> \o Off(X.free, n) \in Seq(Inode)
        <3>1. \A i \in Inode : ino[i] \in Entry
            BY InodeFacts
        <3>2. FreeInode \in Entry
            BY FreeFacts DEF Inv
        <3> QED BY <2>6, <3>1, <3>2 DEF Wiped, Lists
    <2>8. \A f \in [Inode -> Entry], s \in Seq(Inode) : [ino |-> f, free |-> s] \in Tables
        BY DEF Tables
    <2>9. FlushOne(X, n) \in Tables
        <3>1. PICK f, F : f = Wiped(n) /\ F = <<n>> \o Off(X.free, n)
            OBVIOUS
        <3>2. f \in [Inode -> Entry] /\ F \in Seq(Inode) /\ FlushOne(X, n) = [ino |-> f, free |-> F]
            BY <2>3, <2>4, <2>7, <3>1
        <3> QED BY <2>8, <3>2
    <2> QED BY <2>3, <2>4, <2>6, <2>9
<1> QED BY <1>2, <1>3

\* iflush() throws out the inodes Purged; the free list has the same ones, in another order.
LEMMA FlushedIs ==
    ASSUME Inv
    PROVE  /\ Flushed.ino = [i \in Inode |-> IF i \in Purged THEN FreeInode ELSE ino[i]]
           /\ Lists(Flushed.free, Idle0) /\ Flushed \in Tables
<1>1. PICK u : /\ Flushed = u[ninode] /\ u[0] = Table
               /\ \A n \in 1 .. ninode : u[n] = FlushOne(u[n - 1], n)
    BY FlushedLoop
<1>2. ninode \in Nat /\ Inode = 1 .. ninode
    BY InodeFacts DEF Inode
<1> DEFINE Right(n) == u[n] \in Tables /\ u[n].ino = Wiped(n) /\ Lists(u[n].free, Idle0)
           S == {n \in 0 .. ninode : ~Right(n)}
<1>3. Right(0)
    <2>1. u[0].ino = ino /\ u[0].free = free
        BY <1>1 DEF Table
    <2>2. ino = Wiped(0)
        BY <1>2 DEF Inv, Wiped
    <2>3. u[0] \in Tables
        BY <1>1, TableType
    <2> QED BY <2>1, <2>2, <2>3 DEF Inv
<1>4. ASSUME NEW n \in 1 .. ninode, Right(n - 1) PROVE Right(n)
    BY <1>1, <1>2, <1>4, FlushTurn
<1> HIDE DEF Right
<1>5. ASSUME S # {} PROVE FALSE
    <2>1. S \in SUBSET Nat
        BY <1>2
    <2>2. PICK n \in S : \A m \in S : n <= m
        <3> HIDE DEF S
        <3> QED BY <1>5, <2>1, Smallest
    <2>3. n # 0 /\ n \in 0 .. ninode
        BY <1>3, <2>2
    <2>4. n - 1 \in 0 .. ninode /\ n - 1 \notin S /\ n \in 1 .. ninode
        BY <1>2, <2>2, <2>3
    <2> QED BY <1>4, <2>2, <2>4
<1>6. Right(ninode)
    <2>1. ninode \in 0 .. ninode
        BY <1>2
    <2>2. ninode \notin S
        <3> HIDE DEF S
        <3> QED BY <1>5
    <2> QED BY <2>1, <2>2
<1>7. Wiped(ninode) = [i \in Inode |-> IF i \in Purged THEN FreeInode ELSE ino[i]]
    BY <1>2 DEF Wiped
<1> QED BY <1>1, <1>6, <1>7 DEF Right

-----------------------------------------------------------------------------
(* efs_umount() *)

\* The table after iflush(), with e for the root.
Flushes(e) ==
    /\ ino' = [i \in Inode |-> IF i \in Purged THEN FreeInode ELSE IF i = RootIp THEN e ELSE ino[i]]
    /\ e \in Entry /\ EntrySame(e, ino[RootIp]) /\ e.want = ino[RootIp].want
    /\ ino[RootIp].locked => e.locked
    /\ e = ino[RootIp] \/ e.count > 0
    /\ Lists(free', Idle0)

LEMMA FlushEntries ==
    ASSUME Inv, NEW e, Flushes(e)
    PROVE  /\ ino' \in [Inode -> Entry] /\ Lists(free', Idle0') /\ \A i \in Inode : EntryOK(ino'[i])
           /\ \A i \in Inode : ino'[i].count = ino[i].count
           /\ \A i \in Inode \ {RootIp} : ino'[i].locked <=> ino[i].locked
           /\ \A i \in Inode \ Purged : /\ ino'[i].id = ino[i].id /\ ino'[i].want = ino[i].want
                                        /\ ino'[i].error = ino[i].error
                                        /\ ino[i].locked => ino'[i].locked
           /\ \A i \in Purged : ino'[i].id \notin Mounted
           /\ \A i \in Inode : ino'[i].mount => ino[i].mount
           /\ OneInode'
<1>1. /\ RootIp \in Inode /\ RootIp \notin Purged
      /\ \A i \in Inode : ino[i] \in Entry
      /\ \A i \in Purged : i \in Inode /\ ino[i].count = 0 /\ ~ino[i].locked /\ i # RootIp
    BY InodeFacts, PurgedFacts
<1>2. /\ FreeInode \in Entry /\ EntryOK(FreeInode) /\ FreeInode.id = None /\ FreeInode.count = 0
      /\ ~FreeInode.locked /\ FreeInode.hash # "on" /\ ~FreeInode.mount
    <2>1. InodeCacheConstants
        BY DEF Inv
    <2>2. /\ FreeInode.id = None /\ FreeInode.count = 0
          /\ ~FreeInode.locked /\ FreeInode.hash # "on" /\ ~FreeInode.mount
        BY DEF FreeInode
    <2> QED BY <2>1, <2>2, FreeFacts
<1>3. None \notin Mounted
    BY DEF Inv, InodeCacheConstants, Ids, Mounted
<1>4. PICK f : f = FreeInode
    OBVIOUS
<1>5. \A i \in Inode : ino'[i] = IF i \in Purged THEN f ELSE IF i = RootIp THEN e ELSE ino[i]
    BY <1>4, Zenon DEF Flushes
<1>6. EntryOK(e)
    <2>1. EntryOK(ino[RootIp])
        BY <1>1 DEF Inv
    <2>2. CASE e = ino[RootIp]
        BY <2>1, <2>2
    <2>3. CASE e.count > 0
        <3>1. e.count # 0 /\ ino[RootIp].count = e.count
            BY <2>3, InodeFacts DEF Flushes, EntrySame
        <3> QED BY <2>1, <3>1 DEF EntryOK, EntrySame, Flushes
    <2> QED BY <2>2, <2>3 DEF Flushes
<1>7. ASSUME NEW i \in Inode
      PROVE  /\ ino'[i] \in Entry /\ EntryOK(ino'[i]) /\ ino'[i].count = ino[i].count
             /\ i # RootIp => (ino'[i].locked <=> ino[i].locked)
             /\ i \notin Purged => /\ ino'[i].id = ino[i].id /\ ino'[i].want = ino[i].want
                                   /\ ino'[i].error = ino[i].error
                                   /\ ino[i].locked => ino'[i].locked
             /\ i \in Purged => ino'[i].id \notin Mounted
             /\ ino'[i].mount => ino[i].mount
             /\ ino'[i].hash = "on" => i \notin Purged /\ ino[i].hash = "on"
    <2>1. CASE i \in Purged
        BY <1>1, <1>2, <1>3, <1>4, <1>5, <2>1
    <2>2. CASE i \notin Purged /\ i = RootIp
        <3>1. ino'[i] = e
            BY <1>5, <2>2
        <3> QED BY <1>6, <2>2, <3>1 DEF Flushes, EntrySame
    <2>3. CASE i \notin Purged /\ i # RootIp
        <3>1. ino'[i] = ino[i]
            BY <1>5, <2>3
        <3> QED BY <1>1, <2>3, <3>1 DEF Inv
    <2> QED BY <2>1, <2>2, <2>3
<1>8. ino' \in [Inode -> Entry]
    <2>1. DOMAIN ino' = Inode /\ ino' = [i \in Inode |-> ino'[i]]
        BY DEF Flushes
    <2> QED BY <1>7, <2>1
<1>9. Lists(free', Idle0')
    <2>1. Idle0' = Idle0
        BY <1>7 DEF Idle0
    <2> QED BY <2>1 DEF Flushes
<1>10. OneInode'
    <2> SUFFICES ASSUME NEW i \in Inode, NEW j \in Inode, ino'[i].hash = "on", ino'[j].hash = "on",
                        ino'[i].id = ino'[j].id
                 PROVE  i = j
        BY DEF OneInode
    <2>1. ino[i].hash = "on" /\ ino[j].hash = "on" /\ ino[i].id = ino[j].id
        BY <1>7
    <2> QED BY <2>1 DEF Inv, OneInode
<1> QED BY <1>7, <1>8, <1>9, <1>10, <1>1

\* Nobody has or waits for an inode that is thrown out.
LEMMA NobodyPurged ==
    ASSUME Inv, NEW q \in Proc, pr[q].pc \in RefPcs \cup {"igetwait"}
    PROVE  pr[q].i \in Inode /\ pr[q].i \notin Purged
<1>1. pr[q].i \in Inode
    BY DEF Inv, ProcOK
<1>2. pr[q].i \in Purged => ino[pr[q].i].count = 0
    BY PurgedFacts
<1> QED BY <1>1, <1>2, NoRefs

\* Some inode is busy.
LEMMA FlushStep ==
    ASSUME Inv, Flushes(ino[RootIp]), UNCHANGED <<mnt, cwd, pr>>
    PROVE  Inv'
<1>1. PICK e : e = ino[RootIp]
    OBVIOUS
<1>2. Flushes(e)
    BY <1>1
<1>3. /\ ino' \in [Inode -> Entry] /\ Lists(free', Idle0') /\ \A i \in Inode : EntryOK(ino'[i])
      /\ \A i \in Inode : ino'[i].count = ino[i].count
      /\ \A i \in Inode \ Purged : /\ ino'[i].id = ino[i].id /\ ino'[i].want = ino[i].want
                                   /\ ino'[i].error = ino[i].error
                                   /\ ino[i].locked => ino'[i].locked
      /\ \A i \in Purged : ino'[i].id \notin Mounted
      /\ \A i \in Inode : ino'[i].mount => ino[i].mount
      /\ OneInode'
    BY <1>2, FlushEntries
<1>4. \A i \in Inode : ino'[i].locked <=> ino[i].locked
    <2>1. \A i \in Inode \ {RootIp} : ino'[i].locked <=> ino[i].locked
        BY <1>2, FlushEntries
    <2>2. ino'[RootIp] = ino[RootIp]
        BY <1>1, InodeFacts, PurgedFacts DEF Flushes
    <2> QED BY <2>1, <2>2
<1>5. \A i \in Inode : LockOK(i)'
    BY <1>4 DEF Inv, LockOK
<1>6. \A i \in Inode : ino'[i].count = Pins(i)' + Cardinality(Refs(i)')
    <2>1. \A i \in Inode : Pins(i)' = Pins(i) /\ Refs(i)' = Refs(i)
        BY DEF Pins, MountRefs, Umounting, Refs
    <2> QED BY <1>3, <2>1 DEF Inv
<1>7. ASSUME NEW q \in Proc PROVE ProcOK(q)' /\ UmOK(q)'
    <2>1. ProcOK(q) /\ UmOK(q) /\ pr' = pr /\ cwd' = cwd
        BY DEF Inv
    <2>2. UmOK(q)'
        BY <2>1 DEF UmOK
    <2>3. CASE pr[q].pc \in RefPcs \cup {"igetwait"}
        <3>1. pr[q].i \in Inode /\ pr[q].i \notin Purged
            BY <2>3, NobodyPurged
        <3> QED BY <1>3, <2>1, <2>2, <3>1 DEF ProcOK
    <2>4. CASE pr[q].pc \notin RefPcs \cup {"igetwait"}
        BY <2>1, <2>2, <2>4, PcSets DEF ProcOK
    <2> QED BY <2>3, <2>4
<1>8. PhaseOK'
    <2>1. PhaseOK /\ Um' = Um /\ (RootThere' <=> RootThere)
        BY DEF Inv, Um, RootThere
    <2>2. RootIp \in Inode \ Purged /\ CovIp \in Inode \ Purged /\ RootIp # CovIp
        BY InodeFacts, PurgedFacts
    <2>3. cwd # 0 => cwd \in Inode \ Purged
        BY Pinned, PurgedFacts
    <2>4. \A i \in Inode : ino'[i].id \in Mounted => ino[i].id \in Mounted
        BY <1>3
    <2> QED BY <1>3, <2>1, <2>2, <2>3, <2>4 DEF PhaseOK
<1>9. InodeCacheConstants /\ NoRace /\ mnt' \in BOOLEAN /\ cwd' \in 0 .. ninode
    BY DEF Inv
<1>10. pr' \in [Proc -> [pc : RefPcs \cup {"idle", "iget", "igetwait", "closing"}, i : 0 .. ninode,
                        id : Ids \cup {None, Anon}, then : {"held", "put"},
                        um : {"no", "root", "covered"}]]
    BY DEF Inv
<1> QED BY <1>3, <1>5, <1>6, <1>7, <1>8, <1>9, <1>10 DEF Inv

\* What the process that runs efs_umount() does next.
RootPuts(r, z) == [r EXCEPT !.pc = "putting", !.i = z, !.id = Root, !.um = "root"]

LEMMA RootPutsFields ==
    ASSUME NEW r \in PrType, NEW z \in 0 .. ninode, Root \in Ids
    PROVE  /\ RootPuts(r, z) \in PrType /\ RootPuts(r, z).pc = "putting" /\ RootPuts(r, z).i = z
           /\ RootPuts(r, z).id = Root /\ RootPuts(r, z).um = "root"
<1>1. ASSUME NEW f, f = RootPuts(r, z)
      PROVE  f \in PrType /\ f.pc = "putting" /\ f.i = z /\ f.id = Root /\ f.um = "root"
    BY <1>1, PcSets DEF PrType, RootPuts
<1> QED BY <1>1

\* efs_umount() finds no inode busy: only the mount has the root.
LEMMA NoneActive ==
    ASSUME Inv, NEW p \in Proc, p = Umounter, pr[p].pc = "idle", mnt, ~\E i \in Inode : Active(i)
    PROVE  /\ Um = "no" /\ RootThere /\ ino[RootIp].id = Root /\ ~ino[RootIp].error /\ cwd = 0 /\ Root \in Ids
           /\ ino[RootIp].count = 1 /\ ~ino[RootIp].locked
           /\ \A q \in Proc : ~(pr[q].i = RootIp /\ pr[q].pc \in RefPcs \cup {"igetwait"})
           /\ \A i \in Inode \ {RootIp} : ino[i].id \in Mounted => i \in Purged
           /\ ino[CovIp].id = Cov
<1> USE PcSets
<1>1. PhaseOK /\ InodeCacheConstants
    BY DEF Inv
<1>2. Umounter # None /\ pr[p].um = "no" /\ Um = "no" /\ RootThere
    <2>1. Umounter # None
        BY <1>1 DEF InodeCacheConstants
    <2>2. pr[p].um = "no"
        BY ProcFacts
    <2> QED BY <2>1, <2>2 DEF Um, RootThere
<1>3. ino[RootIp].id = Root /\ ~ino[RootIp].error /\ ino[CovIp].id = Cov
    BY <1>1, <1>2 DEF PhaseOK
<1>4. Root \in Ids /\ Root \in Mounted
    BY DEF Ids, Mounted
<1>5. RootIp \in Inode /\ ino[RootIp].count \in Nat /\ ino[RootIp].count > 0
    BY <1>2, InodeFacts, Pinned
<1>6. ino[RootIp].count = 1
    BY <1>3, <1>4, <1>5 DEF Active
<1>7. Pins(RootIp) > 0 /\ Pins(RootIp) \in Nat
    <2>1. MountRefs(RootIp) = 1
        BY <1>2 DEF MountRefs, Umounting, Um, RootIp, CovIp
    <2> QED BY <2>1, RefsFinite DEF Pins
<1>8. ~ino[RootIp].locked /\ \A q \in Proc : ~(pr[q].i = RootIp /\ pr[q].pc \in RefPcs)
    <2>1. \A q \in Proc : ~(pr[q].i = RootIp /\ pr[q].pc \in RefPcs)
        BY <1>5, <1>6, <1>7, HasRef
    <2>2. LockOK(RootIp)
        BY <1>5 DEF Inv
    <2> QED BY <2>1, <2>2 DEF LockOK
<1>9. \A q \in Proc : ~(pr[q].i = RootIp /\ pr[q].pc = "igetwait")
    BY <1>8 DEF Inv, ProcOK
<1>10. cwd = 0
    <2>1. ASSUME cwd # 0 PROVE FALSE
        <3>1. cwd \in Inode /\ ino[cwd].id = CwdFile /\ Cwd # None
            BY <1>1, <2>1 DEF PhaseOK
        <3>2. CwdFile \in Files
            BY <1>1, <3>1 DEF InodeCacheConstants, CwdFile
        <3>3. CwdFile \in Mounted /\ CwdFile # Root
            BY <1>1, <3>2 DEF InodeCacheConstants, Mounted
        <3>4. ino[cwd].count # 0 /\ cwd # RootIp
            BY <1>3, <2>1, <3>1, <3>3, Pinned, InodeFacts
        <3> QED BY <3>1, <3>3, <3>4 DEF Active
    <2> QED BY <2>1
<1>11. \A i \in Inode \ {RootIp} : ino[i].id \in Mounted => i \in Purged
    BY DEF Purged
<1> QED BY <1>2, <1>3, <1>4, <1>6, <1>8, <1>9, <1>10, <1>11

LEMMA UmountGoes ==
    ASSUME Inv, NEW p \in Proc, p = Umounter, pr[p].pc = "idle", mnt, ~\E i \in Inode : Active(i),
           NEW e, Flushes(e), e.locked, pr' = [pr EXCEPT ![p] = RootPuts(pr[p], RootIp)],
           UNCHANGED <<mnt, cwd>>
    PROVE  Inv'
<1> USE PcSets
<1>1. PICK j, r : j = RootIp /\ r = pr'[p]
    OBVIOUS
<1>2. /\ Um = "no" /\ RootThere /\ ino[j].id = Root /\ ~ino[j].error /\ cwd = 0 /\ Root \in Ids
      /\ ino[j].count = 1 /\ ~ino[j].locked
      /\ \A q \in Proc : ~(pr[q].i = j /\ pr[q].pc \in RefPcs \cup {"igetwait"})
      /\ \A i \in Inode \ {j} : ino[i].id \in Mounted => i \in Purged
      /\ ino[CovIp].id = Cov
    BY <1>1, NoneActive
<1>3. /\ ino' \in [Inode -> Entry] /\ Lists(free', Idle0') /\ \A i \in Inode : EntryOK(ino'[i])
      /\ \A i \in Inode : ino'[i].count = ino[i].count
      /\ \A i \in Inode \ {j} : ino'[i].locked <=> ino[i].locked
      /\ \A i \in Inode \ Purged : /\ ino'[i].id = ino[i].id /\ ino'[i].want = ino[i].want
                                   /\ ino'[i].error = ino[i].error
                                   /\ ino[i].locked => ino'[i].locked
      /\ \A i \in Purged : ino'[i].id \notin Mounted
      /\ \A i \in Inode : ino'[i].mount => ino[i].mount
      /\ OneInode'
    BY <1>1, FlushEntries
<1>4. /\ j \in Inode /\ j \notin Purged /\ j \in 0 .. ninode /\ CovIp \in Inode /\ CovIp # j /\ CovIp \notin Purged
      /\ 0 \notin Inode
    BY <1>1, InodeFacts, PurgedFacts
<1>5. ino'[j].locked
    <2>1. ino'[j] = e
        BY <1>1, <1>4 DEF Flushes
    <2> QED BY <2>1
<1>6. /\ pr' \in [Proc -> PrType] /\ Moved(p, {}) /\ r.pc = "putting" /\ r.i = j /\ r.id = Root
      /\ r.um = "root"
    <2>1. PICK w : w = RootPuts(pr[p], RootIp)
        OBVIOUS
    <2>2. w \in PrType /\ w.pc = "putting" /\ w.i = j /\ w.id = Root /\ w.um = "root"
        BY <1>1, <1>2, <1>4, <2>1, ProcFacts, RootPutsFields
    <2>3. pr' \in [Proc -> PrType] /\ Moved(p, {}) /\ pr'[p] = w
        BY <2>1, <2>2, GoesTo
    <2> QED BY <1>1, <2>2, <2>3
<1>7. \A q \in Proc \ {p} : pr'[q] = pr[q]
    BY ProcFacts
<1>8. ASSUME NEW i \in Inode PROVE LockOK(i)'
    <2>1. CASE i = j
        <3>1. \A q \in Proc : pr'[q].i = i /\ pr'[q].pc \in LockPcs <=> q = p
            BY <1>1, <1>2, <1>6, <1>7, <2>1
        <3> QED BY <3>1 DEF LockOK
    <2>2. CASE i # j
        <3>1. \A q \in Proc : (pr'[q].i = i /\ pr'[q].pc \in LockPcs) <=> (pr[q].i = i /\ pr[q].pc \in LockPcs)
            BY <1>1, <1>6, <1>7, <2>2
        <3>2. ino'[i].locked <=> ino[i].locked
            BY <1>3, <2>2
        <3>3. LockOK(i)
            BY DEF Inv
        <3> QED BY <3>1, <3>2, <3>3 DEF LockOK
    <2> QED BY <2>1, <2>2
<1>9. Umounter # None /\ Um' = "root" /\ mnt' = mnt
    BY <1>1, <1>6 DEF Um, Inv, InodeCacheConstants
<1>10. \A i \in Inode : ino'[i].count = Pins(i)' + Cardinality(Refs(i)')
    <2>1. ASSUME NEW i \in Inode
          PROVE  /\ ino'[i].count - ino[i].count = Pins(i)' - Pins(i) + Rf(pr'[p], i) - Rf(pr[p], i)
                 /\ Pins(i)' \in Nat
        <3>1. MountRefs(i) = (IF i = j \/ i = CovIp THEN 1 ELSE 0)
            BY <1>1, <1>2, <1>4, <1>9 DEF MountRefs, Umounting, Um
        <3>2. MountRefs(i)' = (IF i = CovIp THEN 1 ELSE 0)
            BY <1>1, <1>4, <1>6, <1>9 DEF MountRefs, Umounting
        <3>3. Pins(i) = MountRefs(i) /\ Pins(i)' = MountRefs(i)'
            BY <1>2, <1>4, <3>1, <3>2 DEF Pins
        <3>4. Rf(pr'[p], i) = (IF i = j THEN 1 ELSE 0) /\ Rf(pr[p], i) = 0
            BY <1>1, <1>6 DEF Rf
        <3>5. ino'[i].count = ino[i].count /\ ino[i].count \in Nat
            BY <1>3, InodeFacts
        <3> QED BY <1>4, <3>1, <3>2, <3>3, <3>4, <3>5
    <2>2. \A i \in Inode : ino'[i].count \in Nat
        BY <1>3, InodeFacts
    <2>3. PICK W : W = {}
        OBVIOUS
    <2>4. Moved(p, W)
        BY <1>6, <2>3
    <2> QED BY <2>1, <2>2, <2>4, CountsStep
<1>11. ASSUME NEW q \in Proc PROVE ProcOK(q)' /\ UmOK(q)'
    <2>1. CASE q = p
        <3>1. ProcOK(q)'
            BY <1>1, <1>2, <1>3, <1>4, <1>5, <1>6, <2>1 DEF ProcOK
        <3>2. UmOK(q)'
            BY <1>1, <1>6, <2>1 DEF UmOK
        <3> QED BY <3>1, <3>2
    <2>2. CASE q # p
        <3>1. ProcOK(q) /\ UmOK(q) /\ pr'[q] = pr[q] /\ cwd' = cwd
            BY <1>7, <2>2 DEF Inv
        <3>2. UmOK(q)'
            BY <3>1 DEF UmOK
        <3>3. CASE pr[q].pc \in RefPcs \cup {"igetwait"}
            <4>1. pr[q].i \in Inode /\ pr[q].i \notin Purged
                BY <3>3, NobodyPurged
            <4> QED BY <1>3, <3>1, <3>2, <4>1 DEF ProcOK
        <3>4. CASE pr[q].pc \notin RefPcs \cup {"igetwait"}
            BY <3>1, <3>2, <3>4, PcSets DEF ProcOK
        <3> QED BY <3>3, <3>4
    <2> QED BY <2>1, <2>2
<1>12. PhaseOK'
    <2>1. PhaseOK
        BY DEF Inv
    <2>2. RootThere'
        BY <1>1, <1>6, <1>9 DEF RootThere
    <2>3. ino'[j].id = Root /\ ~ino'[j].error /\ ino'[CovIp].id = Cov
        BY <1>2, <1>3, <1>4
    <2>4. \A i \in Inode \ {j} : ino'[i].id \notin Mounted
        BY <1>2, <1>3
    <2>5. \A i \in Inode \ {CovIp} : ~ino'[i].mount
        BY <1>3, <2>1 DEF PhaseOK
    <2> QED BY <1>1, <1>2, <1>9, <2>1, <2>2, <2>3, <2>4, <2>5 DEF PhaseOK
<1>13. InodeCacheConstants /\ NoRace /\ mnt' \in BOOLEAN /\ cwd' \in 0 .. ninode
    BY DEF Inv
<1>14. pr' \in [Proc -> [pc : RefPcs \cup {"idle", "iget", "igetwait", "closing"}, i : 0 .. ninode,
                        id : Ids \cup {None, Anon}, then : {"held", "put"},
                        um : {"no", "root", "covered"}]]
    BY <1>6 DEF PrType
<1> QED BY <1>3, <1>8, <1>10, <1>11, <1>12, <1>13, <1>14 DEF Inv

LEMMA UmountStep ==
    ASSUME Inv, NEW p \in Proc, Umount(p)
    PROVE  Inv'
<1>1. PICK F, j : F = Flushed /\ j = RootIp
    OBVIOUS
<1>2. /\ p = Umounter /\ pr[p].pc = "idle" /\ mnt /\ UNCHANGED <<mnt, cwd>>
    BY DEF Umount
<1>3. F.ino = [i \in Inode |-> IF i \in Purged THEN FreeInode ELSE ino[i]] /\ Lists(F.free, Idle0)
    BY <1>1, FlushedIs
<1>4. j \in Inode /\ j \notin Purged /\ ino[j] \in Entry /\ ino \in [Inode -> Entry]
    BY <1>1, InodeFacts, PurgedFacts DEF Inv
<1>5. CASE \E i \in Inode : Active(i)
    <2>1. ino' = F.ino /\ free' = F.free /\ UNCHANGED pr
        BY <1>1, <1>5 DEF Umount, SetTable
    <2>2. PICK e : e = ino[j]
        OBVIOUS
    <2>3. ino' = [i \in Inode |-> IF i \in Purged THEN FreeInode ELSE IF i = RootIp THEN e ELSE ino[i]]
        BY <1>1, <1>3, <2>1, <2>2
    <2>4. Flushes(ino[RootIp])
        BY <1>1, <1>3, <1>4, <2>1, <2>2, <2>3 DEF Flushes, EntrySame
    <2> QED BY <1>2, <2>1, <2>4, FlushStep
<1>6. CASE ~\E i \in Inode : Active(i)
    <2>1. /\ SetTable([F EXCEPT !.ino[j].locked = TRUE])
          /\ pr' = [pr EXCEPT ![p].pc = "putting", ![p].i = RootIp, ![p].id = Root, ![p].um = "root"]
        BY <1>1, <1>6 DEF Umount
    <2>2. F \in Tables
        BY <1>1, FlushedIs
    <2>3. F.ino[j] = ino[j]
        BY <1>3, <1>4
    <2>4. PICK e \in Entry : /\ ino' = [F.ino EXCEPT ![j] = e] /\ EntrySame(e, F.ino[j])
                             /\ e.locked /\ e.want = F.ino[j].want
        BY <1>4, <2>1, <2>2, TableSets DEF TableLock
    <2>5. free' = F.free
        BY <1>4, <2>1, <2>2, TableSets DEF TableLock
    <2>6. ino' = [i \in Inode |-> IF i \in Purged THEN FreeInode ELSE IF i = RootIp THEN e ELSE ino[i]]
        <3>1. PICK f : f = FreeInode
            OBVIOUS
        <3>2. ino' = [i \in Inode |-> IF i = j THEN e ELSE F.ino[i]]
            BY <1>3, <1>4, <2>4
        <3>3. \A i \in Inode : F.ino[i] = IF i \in Purged THEN f ELSE ino[i]
            BY <1>3, <3>1
        <3>4. ino' = [i \in Inode |-> IF i \in Purged THEN f ELSE IF i = j THEN e ELSE ino[i]]
            BY <1>4, <3>2, <3>3
        <3> QED BY <1>1, <3>1, <3>4
    <2>7. e.count > 0
        <3>1. ino[j].count = 1
            BY <1>1, <1>2, <1>6, NoneActive
        <3> QED BY <2>3, <2>4, <3>1 DEF EntrySame
    <2>8. Flushes(e)
        BY <1>1, <1>3, <2>3, <2>4, <2>5, <2>6, <2>7 DEF Flushes
    <2>9. pr' = [pr EXCEPT ![p] = RootPuts(pr[p], RootIp)]
        <3>1. pr \in [Proc -> PrType]
            BY ProcFacts
        <3> QED BY <2>1, <3>1 DEF RootPuts
    <2> QED BY <1>2, <1>6, <2>4, <2>8, <2>9, UmountGoes
<1> QED BY <1>5, <1>6

-----------------------------------------------------------------------------
(* The theorems *)

LEMMA InvNext ==
    ASSUME Inv, [Next]_vars
    PROVE  Inv'
<1>1. CASE UNCHANGED vars
    <2>1. UNCHANGED <<ino, free, mnt, cwd, pr>>
        BY <1>1 DEF vars
    <2> QED BY <2>1 DEF Inv, Idle0, EntryOK, LockOK, Pins, MountRefs, Umounting, Refs, ProcOK, UmOK,
                       OneInode, PhaseOK, RootThere, Um
<1>2. ASSUME NEW p \in Proc, NEW id \in Ids, iget(p, id) PROVE Inv'
    BY <1>2, IgetStep
<1>3. ASSUME NEW p \in Proc, getinode(p) PROVE Inv'
    BY <1>3, GetinodeStep
<1>4. ASSUME NEW p \in Proc, IreadDone(p) PROVE Inv'
    BY <1>4, IreadStep
<1>5. ASSUME NEW p \in Proc, IputDone(p) PROVE Inv'
    BY <1>5, IputDoneStep
<1>6. ASSUME NEW p \in Proc, Put(p) PROVE Inv'
    BY <1>6, PutStep
<1>7. ASSUME NEW p \in Proc, iunlock(p) PROVE Inv'
    BY <1>7, IunlockStep
<1>8. ASSUME NEW p \in Proc, ilock(p) \/ iunuse(p) \/ LockAgain(p) PROVE Inv'
    BY <1>8, LockSteps
<1>9. ASSUME NEW p \in Proc, Chdir(p) PROVE Inv'
    BY <1>9, ChdirStep
<1>10. ASSUME NEW p \in Proc, Umount(p) PROVE Inv'
    BY <1>10, UmountStep
<1>11. ASSUME NEW p \in Proc, MountRemove(p) PROVE Inv'
    BY <1>11, MountRemoveStep
<1> QED BY <1>1, <1>2, <1>3, <1>4, <1>5, <1>6, <1>7, <1>8, <1>9, <1>10, <1>11 DEF Next

\* The inode table is right in every state: each inode is free, checked-out, busy or
\* cached, a file has one inode, i_count is the number of references, an inode has one
\* locker, stays the file of who has it, and who sleeps on it will be woken (iget(),
\* ialloc(), iput(), iuncache(), iflush() and ILOCK of fs_inode.c).
THEOREM TableRight == InodeCacheConstants /\ NoRace => (Spec => []InodesRight)
<1>1. InodeCacheConstants /\ NoRace /\ Init => Inv
    BY InvInit
<1>2. Inv /\ [Next]_vars => Inv'
    BY InvNext
<1>3. Inv => InodesRight
    BY InvRight
<1> QED BY <1>1, <1>2, <1>3, PTL DEF Spec

\* When mount_remove() has the mount off the list, no inode refers to it: iflush() has
\* thrown out every other inode of the file system before efs_umount() puts the root
\* away, and nobody gets a new one after that.
THEOREM NoInodeLeft == InodeCacheConstants /\ NoRace => (Spec => []NoOrphans)
<1>1. InodeCacheConstants /\ NoRace /\ Init => Inv
    BY InvInit
<1>2. Inv /\ [Next]_vars => Inv'
    BY InvNext
<1>3. Inv => NoOrphans
    BY InvNoOrphans
<1> QED BY <1>1, <1>2, <1>3, PTL DEF Spec
=============================================================================
