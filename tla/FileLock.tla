----------------------------- MODULE FileLock -----------------------------
(***************************************************************************)
(* Record locks of one file: src/sys/sys/fs_flock.c.                       *)
(*                                                                         *)
(* The list i_filocks is a sequence of records; a record carries the       *)
(* processes that sleep on its address, so that its identity needs no      *)
(* name, and the free list is the number of records not in use.  The chain *)
(* sleeplcks is a function: the process a sleeper was blocked by when it   *)
(* went to sleep.  A call runs without preemption from one sleep to the    *)
(* next; the mandatory-lock check of read() and write() (INOFLCK) may also *)
(* sleep for the inode when it takes up its work again.                    *)
(***************************************************************************)
EXTENDS Integers, FiniteSets, FiniteSetsExt, Sequences, SequencesExt

CONSTANTS
    Proc,
    None,      \* no process
    MaxEnd,    \* MAXEND: the last byte a lock can reach
    Recs,      \* flckinfo.recs: lock records in the system
    Requests   \* the requests the processes make

Byte == 0 .. MaxEnd

\* What the constants have to satisfy; the MC modules assume it of theirs.
LockConstants ==
    /\ IsFiniteSet(Proc) /\ None \notin Proc
    /\ MaxEnd \in Nat /\ Recs \in Nat
    /\ \A r \in Requests :
          /\ r \in [cmd : {"SETLK", "SETLKW", "CHECK"}, type : {"RD", "WR", "UN"},
                    start : Byte, end : Byte]
          /\ r.start <= r.end /\ (r.cmd = "CHECK" => r.type # "UN")

ASSUME LockAssumption == LockConstants

VARIABLES
    locks,     \* ip->i_filocks
    slp,       \* sleeplcks: stat.blk.pid of the entry of a process, or None
    pc,        \* "user", "asleep", "woken", or "ilock": waiting for the inode
    req        \* the request of a process inside reclock()

vars == <<locks, slp, pc, req>>

NoReq == [cmd |-> "none"]

Init ==
    /\ locks = <<>> /\ slp = [p \in Proc |-> None]
    /\ pc = [p \in Proc |-> "user"] /\ req = [p \in Proc |-> NoReq]

----------------------------------------------------------------------------
(* The list *)

\* Records on the free list frlock, when the list is L and the sleepers S.
Free(L, S) == Recs - Len(L) - Cardinality({p \in Proc : S[p] # None})

\* insflck(): the new record comes behind the i-th one.
insflck(L, p, ld, i) == InsertAt(L, i + 1,
    [pid |-> p, type |-> ld.type, start |-> ld.start, end |-> ld.end,
     wakeflg |-> FALSE, wait |-> {}])

\* The last record from the i-th on that starts before b, the i-th at least.
StartsBefore(L, i, b) ==
    Max({i} \cup {j \in i .. Len(L) : \A k \in i .. j : L[k].start < b})

MutRegflckNotAdjoining(ld, f) ==
    IF ld.start > f.end THEN <<"AFTER", "AFTER">>
    ELSE <<CASE ld.start > f.start -> "MIDDLE"
             [] ld.start = f.start -> "START"
             [] OTHER -> "BEFORE",
           CASE ld.end = f.end -> "END"
             [] ld.end > f.end -> "AFTER"
             [] ld.end < f.start -> "BEFORE"
             [] OTHER -> "MIDDLE">>

\* regflck(): where ld starts and ends, relative to the record f.
regflck(ld, f) ==
    IF ld.start - 1 = f.end /\ ld.start > f.start THEN <<"END", "AFTER">>
    ELSE IF ld.start > f.end /\ ld.start > f.start THEN <<"AFTER", "AFTER">>
    ELSE <<CASE ld.start > f.start -> "MIDDLE"
             [] ld.start = f.start -> "START"
             [] OTHER -> "BEFORE",
           CASE ld.end = f.end -> "END"
             [] ld.end > f.end -> "AFTER"
             [] ld.end = f.start - 1 -> "START"
             [] ld.end < f.start - 1 -> "BEFORE"
             [] OTHER -> "MIDDLE">>

\* The state of flckadj(): the list, the position of flp, that of insrtp
\* (0 is NULL), the lock as it grows, whom to wake, and whether it is done.
Scan(i, ld) == [L |-> locks, i |-> IF i = 0 THEN 1 ELSE i, ins |-> i,
                ld |-> ld, wake |-> {}, ret |-> "scan"]

MutAwakesOne(f) ==
    IF f.wakeflg /\ f.wait # {} THEN {CHOOSE q \in f.wait : TRUE} ELSE {}

\* WAKEUP of the sleepers of record f.
Awakes(f) == IF f.wakeflg THEN f.wait ELSE {}

Skip(a)  == [a EXCEPT !.i = @ + 1]
Stop(a)  == [a EXCEPT !.ret = "place"]
\* delflck() of the record at hand: the next one moves into its place.
delflck(a) == [a EXCEPT !.L = RemoveAt(@, a.i), !.wake = @ \cup Awakes(a.L[a.i])]
MutCutSilent(a) == [a EXCEPT !.L[a.i].end = a.ld.start - 1, !.ins = a.i]
\* The record at hand is cut off before the new lock, which goes behind it.
Cut(a)   == [a EXCEPT !.L[a.i] = [@ EXCEPT !.end = a.ld.start - 1,
                                           !.wakeflg = FALSE,
                                           !.wait = @ \ Awakes(a.L[a.i])],
                      !.wake = @ \cup Awakes(a.L[a.i]), !.ins = a.i]

MutSplitUnchecked(a, p, S) ==
    LET f    == a.L[a.i]
        tail == [type |-> f.type, start |-> a.ld.end + 1, end |-> f.end]
        b    == [a EXCEPT !.L = insflck(@, p, tail,
                                    StartsBefore(@, a.i, tail.start))]
    IN  IF regflck(a.ld, f)[1] = "MIDDLE" THEN Stop(Cut(b)) ELSE Stop(delflck(b))

MutSplitDropsTail(a, p, S) ==
    IF regflck(a.ld, a.L[a.i])[1] = "MIDDLE" THEN Stop(Cut(a)) ELSE Stop(delflck(a))

\* The new lock ends inside the record at hand, of another type: the piece
\* behind it becomes a record of its own.
Split(a, p, S) ==
    LET f    == a.L[a.i]
        tail == [type |-> f.type, start |-> a.ld.end + 1, end |-> f.end]
        b    == [a EXCEPT !.L = insflck(@, p, tail,
                                    StartsBefore(@, a.i, tail.start))]
    IN  IF Free(a.L, S) = 0 THEN [a EXCEPT !.ret = "ENOLCK"]
        ELSE IF regflck(a.ld, f)[1] = "MIDDLE" THEN Stop(Cut(b))
        ELSE Stop(delflck(b))

\* One turn of flckadj()'s loop: the record at hand and the new (un)lock.
Turn(a, p, S) ==
    LET f    == a.L[a.i]
        r    == regflck(a.ld, f)
        same == a.ld.type = f.type
        prev == [a EXCEPT !.ins = a.i - 1]
    IN  CASE f.pid # p -> Skip(a)
          [] r = <<"BEFORE", "BEFORE">> -> Stop(a)
          [] r = <<"BEFORE", "START">> ->
                IF same THEN Stop(delflck([a EXCEPT !.ld.end = f.end]))
                        ELSE Stop(a)
          [] r \in {"START", "MIDDLE"} \X {"END", "MIDDLE"} /\ same ->
                [a EXCEPT !.ret = "ok"]
          [] r \in {<<"START", "END">>, <<"START", "AFTER">>} -> delflck(prev)
          [] r = <<"BEFORE", "END">> -> IF same THEN Stop(delflck(a)) ELSE delflck(a)
          [] r = <<"BEFORE", "AFTER">> -> delflck(a)
          [] r = <<"BEFORE", "MIDDLE">> /\ same ->
                Stop(delflck([a EXCEPT !.ld.end = f.end]))
          [] r = <<"START", "MIDDLE">> -> Split(prev, p, S)
          [] r[2] = "MIDDLE" -> Split(a, p, S)
          [] r = <<"MIDDLE", "END">> -> Skip(Cut(a))
          [] r \in {<<"MIDDLE", "AFTER">>, <<"END", "AFTER">>} ->
                IF same THEN delflck([prev EXCEPT !.ld.start = f.start])
                ELSE IF r[1] = "MIDDLE" THEN Skip(Cut(a)) ELSE Skip(a)
          [] OTHER -> Skip([a EXCEPT !.ins = a.i])

\* flckadj(): scan the list from record i on, then place a lock that is not
\* an unlock.
flckadj(i, p, ld, S) ==
    LET Step(a, n) == IF a.ret # "scan" \/ a.i > Len(a.L) THEN a ELSE Turn(a, p, S)
        a == FoldLeft(Step, Scan(i, ld), [n \in 1 .. Len(locks) |-> n])
        at == IF a.ins = 0 THEN 0 ELSE StartsBefore(a.L, a.ins, a.ld.start)
    IN  IF a.ret \in {"ok", "ENOLCK"} THEN a
        ELSE IF ld.type = "UN" THEN [a EXCEPT !.ret = "ok"]
        ELSE IF Free(a.L, S) = 0 THEN [a EXCEPT !.ret = "ENOLCK"]
        ELSE [a EXCEPT !.L = insflck(@, p, a.ld, at), !.ret = "ok"]

----------------------------------------------------------------------------
(* Who is in the way *)

MutConflicts(t, u) == t = "WR"

Conflicts(t, u) == t = "WR" \/ (t = "RD" /\ u = "WR")

InTheWay(f, p, ld) == /\ f.pid # p /\ Conflicts(f.type, ld.type)
                      /\ ld.start <= f.end /\ f.start <= ld.end

\* blocked(): the first record of another process in the way (0: none) and
\* the record where the update of the list begins (0: none).  The first loop
\* ends at a record that starts no earlier than ld, or at an own one that ld
\* overlaps or adjoins.
blocked(p, ld) ==
    LET early == {i \in 1 .. Len(locks) :
                    \A j \in 1 .. i : locks[j].start < ld.start}
        own   == {i \in early : locks[i].pid = p /\ ld.start - 1 <= locks[i].end}
        insrt == IF own # {} THEN Min(own) ELSE IF early # {} THEN Max(early) ELSE 0
        late  == {i \in 1 .. Len(locks) :
                    \A j \in insrt + 1 .. i : locks[j].start <= ld.end}
        found == {i \in late : InTheWay(locks[i], p, ld)}
    IN  [found |-> IF found = {} THEN 0 ELSE Min(found), insrt |-> insrt]

MutDeadflckDirect(q, p, S) == S[q] = p

\* deadflck(): following the edges of sleeplcks from q leads to p, that is, p is in
\* every set that has q and, with a sleeper, the process it is blocked by.
deadflck(q, p, S) ==
    \A C \in SUBSET Proc : q \in C /\ (\A x \in C : S[x] # None => S[x] \in C) => p \in C

----------------------------------------------------------------------------
(* reclock() *)

Leave(p, at) == /\ pc' = [at EXCEPT ![p] = "user"]
                /\ req' = [req EXCEPT ![p] = NoReq]

Woken(W) == [q \in Proc |-> IF q \in W THEN "woken" ELSE pc[q]]

\* Nothing in the way, or an unlock: the list is adjusted, or, for the check
\* of read() and write(), left alone.  ENOLCK keeps what has been done.
Adjust(p, rq, S) ==
    LET i == IF rq.type # "UN" THEN blocked(p, rq).insrt ELSE Min({1, Len(locks)})
        a == flckadj(i, p, rq, S)
    IN  /\ rq.type = "UN" \/ blocked(p, rq).found = 0
        /\ locks' = IF rq.cmd = "CHECK" THEN locks ELSE a.L
        /\ Leave(p, IF rq.cmd = "CHECK" THEN pc ELSE Woken(a.wake))
        /\ slp' = S

\* Blocked: EAGAIN, EDEADLK, or ENOLCK for want of a record to sleep with.
Refuse(p, rq, S) ==
    /\ rq.type # "UN" /\ blocked(p, rq).found # 0
    /\ \/ rq.cmd = "SETLK"
       \/ deadflck(locks[blocked(p, rq).found].pid, p, S)
       \/ Free(locks, S) = 0
    /\ Leave(p, pc)
    /\ slp' = S /\ UNCHANGED locks

\* Blocked: sleep on the record in the way.
Sleep(p, rq, S) ==
    LET f == blocked(p, rq).found
    IN  /\ rq.type # "UN" /\ f # 0 /\ rq.cmd # "SETLK"
        /\ ~deadflck(locks[f].pid, p, S) /\ Free(locks, S) # 0
        /\ locks' = [locks EXCEPT ![f].wakeflg = TRUE, ![f].wait = @ \cup {p}]
        /\ slp' = [S EXCEPT ![p] = locks[f].pid]
        /\ pc' = [pc EXCEPT ![p] = "asleep"] /\ req' = [req EXCEPT ![p] = rq]

Try(p, rq, S) == Adjust(p, rq, S) \/ Refuse(p, rq, S) \/ Sleep(p, rq, S)

\* fcntl() with F_SETLK and F_SETLKW, and the check of read() and write().
Reclock(p, rq) ==
    /\ pc[p] = "user"
    /\ Try(p, rq, slp)

\* Awake: the entry of sleeplcks goes; fcntl() tries again at once, read()
\* and write() first wait for the inode.
Resume(p) ==
    /\ pc[p] = "woken"
    /\ IF req[p].cmd = "CHECK"
       THEN /\ slp' = [slp EXCEPT ![p] = None] /\ pc' = [pc EXCEPT ![p] = "ilock"]
            /\ UNCHANGED <<locks, req>>
       ELSE Try(p, req[p], [slp EXCEPT ![p] = None])

TryAgain(p) == pc[p] = "ilock" /\ Try(p, req[p], slp)

\* EINTR, woken or not.
Interrupted(p) ==
    /\ pc[p] \in {"asleep", "woken"}
    /\ slp' = [slp EXCEPT ![p] = None]
    /\ locks' = [i \in DOMAIN locks |-> [locks[i] EXCEPT !.wait = @ \ {p}]]
    /\ Leave(p, pc)

\* cleanlocks(): the process closes the file.
Cleanlocks(p) ==
    LET Own(f) == f.pid = p
    IN  /\ pc[p] = "user" /\ \E i \in DOMAIN locks : Own(locks[i])
        /\ locks' = SelectSeq(locks, LAMBDA f : ~Own(f))
        /\ pc' = Woken(UNION {Awakes(f) : f \in {locks[i] : i \in
                                {j \in DOMAIN locks : Own(locks[j])}}})
        /\ UNCHANGED <<slp, req>>

Next == \E p \in Proc :
    \/ \E rq \in Requests : Reclock(p, rq)
    \/ Resume(p)
    \/ TryAgain(p)
    \/ Interrupted(p)
    \/ Cleanlocks(p)

Spec == Init /\ [][Next]_vars

\* A process that is in reclock() goes on, or lets go.
GoesOn(p) == Resume(p) \/ Interrupted(p) \/ Cleanlocks(p)

\* A woken process runs some time (Resume is enabled as long as it does not),
\* a process closes the file some time, and from some time on no process asks
\* for another lock: a newcomer may take a lock before the process that was
\* woken for it runs, so without this a waiter may starve.
FairSpec == /\ Spec
            /\ \A p \in Proc : []<>(pc[p] # "woken") /\ WF_vars(Cleanlocks(p))
            /\ <>[][\E p \in Proc : GoesOn(p)]_vars

----------------------------------------------------------------------------
(* Properties *)

\* Records are within the file, and no more are in use than there are.
TypeOK ==
    /\ \A i \in DOMAIN locks : locks[i] \in [pid : Proc, type : {"RD", "WR"},
          start : Byte, end : Byte, wakeflg : BOOLEAN, wait : SUBSET Proc]
    /\ slp \in [Proc -> Proc \cup {None}] /\ Free(locks, slp) \in 0 .. Recs
    /\ pc \in [Proc -> {"user", "asleep", "woken", "ilock"}]

\* The list is ordered by start, and the locks of one process are disjoint
\* and coalesced: adjoining ones are of different types (fs_flock.c:228-249).
WellFormed == \A i, j \in DOMAIN locks : i < j =>
    /\ locks[i].start <= locks[i].end /\ locks[i].start <= locks[j].start
    /\ locks[i].pid = locks[j].pid =>
          /\ locks[i].end < locks[j].start
          /\ locks[i].type = locks[j].type => locks[i].end + 1 < locks[j].start

\* A process asleep is found by the WAKEUP of a record that is in its way and
\* belongs to the process the deadlock search takes it to wait for: records
\* are cut, split, merged and freed by their owners meanwhile.
NoLostWakeup == \A p \in Proc : pc[p] = "asleep" =>
    \E i \in DOMAIN locks :
        /\ p \in locks[i].wait /\ locks[i].wakeflg
        /\ InTheWay(locks[i], p, req[p]) /\ slp[p] = locks[i].pid

\* The edges of sleeplcks have no cycle, stale ones included: the search of
\* deadflck() ends (fs_flock.c:582-598), and somebody is not asleep.
NoCycle(S) == \A C \in SUBSET Proc : C # {} => \E p \in C : S[p] \notin C

Acyclic == NoCycle(slp)

\* The records of a process as a table of bytes.
table == [p \in Proc |-> [b \in Byte |->
    IF \E i \in DOMAIN locks : locks[i].pid = p /\ b \in locks[i].start .. locks[i].end
    THEN locks[CHOOSE i \in DOMAIN locks :
            locks[i].pid = p /\ b \in locks[i].start .. locks[i].end].type
    ELSE "none"]]

Table == INSTANCE LockTable

\* The list implements the byte table: a lock is granted whole and only when
\* nobody is in the way, an unlock releases the range and nothing else, and a
\* call that runs out of records in the middle (fs_flock.c:320, 375) leaves
\* the table alone or has released the caller's part of the range.
ImplementsTable == Table!TSpec

\* No byte is locked for writing by one process and locked by another.
Exclusive == Table!Exclusive

\* No wait is for ever, once the holders let go and nobody new comes: a set
\* of processes that wait for each other does not come about, by any route
\* of edges that were recorded at different times (fs_flock.c:485-510).
WaitEnds == \A p \in Proc : pc[p] = "asleep" ~> pc[p] # "asleep"

\* errno.h: EDEADLK is "Deadlock condition": the caller is refused only when
\* it would wait for a process that is asleep for the caller in the end.
DeadlockIsReal == \A p \in Proc : pc[p] = "user" =>
    \A t \in {"RD", "WR"}, b, e \in Byte :
        LET f == blocked(p, [type |-> t, start |-> b, end |-> e]).found
            asleep == [q \in Proc |-> IF pc[q] = "asleep" THEN slp[q] ELSE None]
        IN  b <= e /\ f # 0 /\ deadflck(locks[f].pid, p, slp)
                => deadflck(locks[f].pid, p, asleep)
===========================================================================
