----------------------------- MODULE Semaphore -----------------------------
(***************************************************************************)
(* System V semaphores: src/sys/sys/sem.c with src/sys/sys/ipc.c.          *)
(*                                                                         *)
(* One semaphore header (seminfo.semmni = 1) whose set is created, used,   *)
(* removed and created again; the semid of the set is its sequence number. *)
(* The kernel does not preempt a system call, so the code between two      *)
(* sleeps is one step.  A call sleeps in two places: on a semaphore's      *)
(* count in semop(), and in copyin(), whose iolock() (src/sys/ipII/        *)
(* machdep.c:660) pages the caller's buffer in BEFORE a byte is copied; a  *)
(* list is far shorter than a page, so the copy itself and all that        *)
(* follows is again one step.                                              *)
(***************************************************************************)
EXTENDS Integers, FiniteSets, FiniteSetsExt, Sequences, SequencesExt

CONSTANTS
    Proc,      \* process slots
    Super,     \* the slots whose processes run as the super-user
    NSems,     \* seminfo.semmns = seminfo.semmsl: semaphores in the system
    semvmx,    \* seminfo.semvmx: largest semval
    semaem,    \* seminfo.semaem: largest adjust-on-exit value
    semume,    \* seminfo.semume: undo entries per process
    semmnu,    \* seminfo.semmnu: undo structures in the system
    OpLists,   \* the operation lists the processes pass to semop()
    PagesOut,  \* may iolock() sleep, or are the callers' buffers resident?
    MaxSeq     \* bound: the header is removed at most MaxSeq times

Sem  == 0 .. NSems - 1
Id   == 0 .. MaxSeq
Chan == {"n", "z"} \X Sem          \* &semp->semncnt, &semp->semzcnt

\* What the constants have to satisfy; the MC modules assume it of theirs.
SemConstants ==
    /\ IsFiniteSet(Proc) /\ Super \subseteq Proc
    /\ NSems \in Nat \ {0} /\ semvmx \in Nat \ {0} /\ semaem \in Nat \ {0}
    /\ semume \in Nat \ {0} /\ semmnu \in Nat \ {0} /\ MaxSeq \in Nat
    /\ PagesOut \in BOOLEAN
    /\ OpLists \subseteq
         Seq([num : Nat, op : Int, undo : BOOLEAN, nowait : BOOLEAN])

VARIABLES
    alloc,     \* sem_perm.mode & IPC_ALLOC of the header
    seq,       \* sem_perm.seq
    nsems,     \* sem_nsems (sem_base is the first semaphore: one header)
    held,      \* semaphores taken from semmap
    semval, semncnt, semzcnt,    \* the fields of sem[]
    has,       \* slots with a struct sem_undo (sem_undo[] not NULL)
    ent,       \* un_ent of each slot: un_aoe by (un_id, un_num), 0 = no entry
    semunp,    \* the slots on the chain of active undo structures
    pc,        \* where each process is
    call,      \* the arguments of the call it is in
    chan,      \* what it sleeps on
    base       \* history: what semval would be with every process gone

sems  == <<semval, semncnt, semzcnt>>
undos == <<has, ent, semunp>>
procs == <<pc, call, chan>>
vars  == <<alloc, seq, nsems, held, sems, undos, procs, base>>

NoCmd  == [cmd |-> "none"]
NoChan == <<"n", 0>>

Init ==
    /\ alloc = FALSE /\ seq = 0 /\ nsems = 0 /\ held = 0
    /\ semval = [s \in Sem |-> 0]
    /\ semncnt = [s \in Sem |-> 0] /\ semzcnt = [s \in Sem |-> 0]
    /\ has = {} /\ ent = [p \in Proc |-> [e \in Id \X Sem |-> 0]]
    /\ semunp = {}
    /\ pc = [p \in Proc |-> "user"] /\ call = [p \in Proc |-> NoCmd]
    /\ chan = [p \in Proc |-> NoChan]
    /\ base = [s \in Sem |-> 0]

----------------------------------------------------------------------------
(* Helpers *)

\* semconv(): the header an id stands for is still that one.
Valid(id) == alloc /\ id = seq

\* ipcaccess(): a removed header has mode 0, which only uid 0 gets past.
ipcaccess(p) == p \in Super \/ alloc

\* The calling process alone runs while its buffer is resident.
MayRun(p) == PagesOut \/ \A q \in Proc \ {p} : pc[q] \notin {"copy", "again"}

Count(f) == Cardinality({e \in DOMAIN f : f[e] # 0})

\* wakeup() of every channel of C.
Woken(C) == [q \in Proc |->
    IF pc[q] = "asleep" /\ chan[q] \in C THEN "woken" ELSE pc[q]]

\* The kernel state one pass of semop()'s loop works on: the semaphores, the
\* undo structures, the channels woken, and how far the list has come.
Pass == [val |-> semval, ncnt |-> semncnt, zcnt |-> semzcnt,
         has |-> has, ent |-> ent, chain |-> semunp,
         wake |-> {}, done |-> 0, status |-> "go"]

MutSemaoeStaysOnChain(k, p, val, id, num) ==
    IF k.ent[p][<<id, num>>] - val \in -semaem .. semaem
    THEN [k EXCEPT !.has = @ \cup {p}, !.chain = @ \cup {p},
                   !.ent[p][<<id, num>>] = @ - val]
    ELSE [k EXCEPT !.status = "ERANGE"]

\* semaoe(): record that p has done val on (id, num), to be undone on exit.
semaoe(k, p, val, id, num) ==
    LET cnt == Count(k.ent[p])
        new == k.ent[p][<<id, num>>] - val
        own == [k EXCEPT !.has = @ \cup {p}]
    IN  CASE val = 0 -> k
          [] val > semaem \/ val < -semaem -> [k EXCEPT !.status = "ERANGE"]
          [] p \notin k.has /\ Cardinality(k.has) >= semmnu ->
                [k EXCEPT !.status = "ENOSPC"]
          [] k.ent[p][<<id, num>>] = 0 /\ cnt >= semume ->
                [own EXCEPT !.status = "EINVAL"]
          [] new > semaem \/ new < -semaem -> [own EXCEPT !.status = "ERANGE"]
          [] OTHER -> [own EXCEPT
                !.ent[p][<<id, num>>] = new,
                !.chain = IF cnt = 0 THEN @ \cup {p}
                          ELSE IF cnt = 1 /\ new = 0 THEN @ \ {p} ELSE @]

MutSemundoValueOnly(k, p, id, ops, n) == [k EXCEPT !.val = semval]

MutSemundoLeavesUndoOps(k, p, id, ops, n) ==
    [k EXCEPT !.val = [s \in Sem |-> @[s] - MapThenSumSet(
        LAMBDA i : IF ops[i].num = s /\ ~ops[i].undo THEN ops[i].op ELSE 0,
        1 .. n)]]

\* semundo(): take back the first n operations, the last one first; nobody
\* is woken for it.
semundo(k, p, id, ops, n) ==
    LET Undo(j, op) ==
          LET w == [j EXCEPT !.val[op.num] = @ - op.op]
          IN  IF op.undo /\ op.op # 0
              THEN [semaoe(w, p, -op.op, id, op.num) EXCEPT !.status = j.status]
              ELSE w
    IN  FoldLeft(Undo, k, Reverse(SubSeq(ops, 1, n)))

MutOverflows(val, op) == FALSE

Overflows(val, op) == op > 0 /\ val + op > semvmx

MutHelps(c, op, new) == c = "z" /\ op # 0 /\ new = 0

\* Whom an operation that has been done helps: more is there, or none is left.
Helps(c, op, new) == IF c = "n" THEN op > 0 ELSE op # 0 /\ new = 0

\* One turn of the loop: an error, a reason to sleep, or the operation done.
DoOp(k, p, id, op) ==
    LET val  == k.val[op.num]
        new  == val + op.op
        a    == IF op.undo THEN semaoe(k, p, op.op, id, op.num) ELSE k
        n    == Helps("n", op.op, new) /\ k.ncnt[op.num] > 0
        z    == Helps("z", op.op, new) /\ k.zcnt[op.num] > 0
    IN  CASE k.status # "go" -> k
          [] Overflows(val, op.op) -> [k EXCEPT !.status = "ERANGE"]
          [] op.op < 0 /\ new < 0 -> [k EXCEPT !.status = "n"]
          [] op.op = 0 /\ val # 0 -> [k EXCEPT !.status = "z"]
          [] OTHER -> IF a.status # "go" THEN a ELSE [a EXCEPT
                !.val[op.num]  = new,
                !.ncnt[op.num] = IF n THEN 0 ELSE @,
                !.zcnt[op.num] = IF z THEN 0 ELSE @,
                !.wake = @ \cup {c \in Chan :
                            c[2] = op.num /\ IF c[1] = "n" THEN n ELSE z},
                !.done = @ + 1]

\* The whole pass over the list, with the prefix undone unless all succeeds.
DoOps(p, id, ops) ==
    LET Step(k, op) == DoOp(k, p, id, op)
        k == FoldLeft(Step, Pass, ops)
    IN  IF k.status = "go" THEN k ELSE semundo(k, p, id, ops, k.done)

\* semunrm(): clear the undo entries for semaphores low..high of id, in the
\* structures that are on the chain.
semunrm(id, low, high) ==
    /\ ent' = [q \in Proc |-> IF q \notin semunp THEN ent[q] ELSE
            [e \in Id \X Sem |->
                IF e[1] = id /\ e[2] \in low .. high THEN 0 ELSE ent[q][e]]]
    /\ semunp' = {q \in semunp : Count(ent'[q]) > 0}

----------------------------------------------------------------------------
(* semget() *)

\* A new set: ipcget() finds the header free, rmalloc() finds the space.
Semget(p, n) ==
    /\ pc[p] = "user" /\ MayRun(p) /\ ~alloc /\ held + n <= NSems
    /\ alloc' = TRUE /\ nsems' = n /\ held' = held + n
    /\ base' = [s \in Sem |-> semval[s]]
    /\ UNCHANGED <<seq, sems, undos, procs>>

----------------------------------------------------------------------------
(* semctl() *)

MutRmidWakes(own) == {}

\* The channels IPC_RMID wakes: those with a count.
RmidWakes(own) == {c \in Chan : c[2] \in own /\
    IF c[1] = "n" THEN semncnt[c[2]] > 0 ELSE semzcnt[c[2]] > 0}

\* IPC_RMID: everybody who waits for the set is woken and finds it gone.
Rmid(p) ==
    /\ pc[p] = "user" /\ MayRun(p) /\ alloc /\ seq < MaxSeq
    /\ semunrm(seq, 0, nsems)
    /\ LET own    == {s \in Sem : s < nsems}
           Off(f) == [s \in Sem |-> IF s \in own THEN 0 ELSE f[s]]
       IN  /\ semval' = Off(semval)
           /\ semncnt' = Off(semncnt) /\ semzcnt' = Off(semzcnt)
           /\ pc' = Woken(RmidWakes(own))
    /\ held' = held - nsems /\ seq' = seq + 1 /\ alloc' = FALSE
    /\ base' = [s \in Sem |-> 0]
    /\ UNCHANGED <<nsems, has, call, chan>>

\* What SETVAL and SETALL do to semaphores S, given their new values: one
\* that is not zero wakes those who wait for more, zero the others.
SetValues(S, v) ==
    /\ semval' = [s \in Sem |-> IF s \in S THEN v[s] ELSE semval[s]]
    /\ semncnt' = [s \in Sem |->
            IF s \in S /\ v[s] # 0 THEN 0 ELSE semncnt[s]]
    /\ semzcnt' = [s \in Sem |->
            IF s \in S /\ v[s] = 0 THEN 0 ELSE semzcnt[s]]
    /\ base' = [s \in Sem |-> IF s \in S THEN v[s] ELSE base[s]]

\* Whom they wake: the sleepers the counts tell of.
Wakes(S, v) == {c \in Chan : c[2] \in S /\
    IF c[1] = "n" THEN v[c[2]] # 0 /\ semncnt[c[2]] > 0
                  ELSE v[c[2]] = 0 /\ semzcnt[c[2]] > 0}

Setval(p, s, v) ==
    /\ pc[p] = "user" /\ MayRun(p) /\ alloc /\ s < nsems /\ v \in 0 .. semvmx
    /\ SetValues({s}, [t \in Sem |-> v])
    /\ pc' = Woken(Wakes({s}, [t \in Sem |-> v]))
    /\ semunrm(seq, s, s)
    /\ UNCHANGED <<alloc, seq, nsems, held, has, call, chan>>

\* SETALL and IPC_SET look the header up and then copy the argument in.
SetallEntry(p, v) ==
    /\ pc[p] = "user" /\ MayRun(p) /\ alloc
    /\ pc' = [pc EXCEPT ![p] = "copy"]
    /\ call' = [call EXCEPT ![p] = [cmd |-> "SETALL", id |-> seq, vals |-> v]]
    /\ UNCHANGED <<alloc, seq, nsems, held, sems, undos, chan, base>>

Setall(p) ==
    /\ pc[p] = "copy" /\ MayRun(p) /\ call[p].cmd = "SETALL"
    /\ semunrm(call[p].id, 0, nsems)
    /\ SetValues({s \in Sem : s < nsems}, call[p].vals)
    /\ pc' = [Woken(Wakes({s \in Sem : s < nsems}, call[p].vals))
                EXCEPT ![p] = "user"]
    /\ call' = [call EXCEPT ![p] = NoCmd]
    /\ UNCHANGED <<alloc, seq, nsems, held, has, chan>>

IpcSetEntry(p) ==
    /\ pc[p] = "user" /\ MayRun(p) /\ alloc
    /\ pc' = [pc EXCEPT ![p] = "copy"]
    /\ call' = [call EXCEPT ![p] = [cmd |-> "IPC_SET", id |-> seq]]
    /\ UNCHANGED <<alloc, seq, nsems, held, sems, undos, chan, base>>

\* The new mode always has IPC_ALLOC.
IpcSet(p) ==
    /\ pc[p] = "copy" /\ MayRun(p) /\ call[p].cmd = "IPC_SET"
    /\ alloc' = TRUE
    /\ pc' = [pc EXCEPT ![p] = "user"] /\ call' = [call EXCEPT ![p] = NoCmd]
    /\ UNCHANGED <<seq, nsems, held, sems, undos, chan, base>>

----------------------------------------------------------------------------
(* semop() *)

\* The id is looked up, then the list is copied in.
SemopEntry(p, ops) ==
    /\ pc[p] = "user" /\ MayRun(p) /\ alloc
    /\ pc' = [pc EXCEPT ![p] = "copy"]
    /\ call' = [call EXCEPT ![p] = [cmd |-> "semop", id |-> seq, ops |-> ops]]
    /\ UNCHANGED <<alloc, seq, nsems, held, sems, undos, chan, base>>

\* What the operations without SEM_UNDO add to s.
SumOps(s, ops) == MapThenSumSet(
    LAMBDA i : IF ops[i].num = s /\ ~ops[i].undo THEN ops[i].op ELSE 0,
    DOMAIN ops)

InRange(ops) == \A i \in DOMAIN ops : ops[i].num < nsems

\* The permission or the range check fails: EACCES, EFBIG.
SemopRefused(p) ==
    /\ pc[p] = "copy" /\ MayRun(p) /\ call[p].cmd = "semop"
    /\ ~(ipcaccess(p) /\ InRange(call[p].ops))
    /\ pc' = [pc EXCEPT ![p] = "user"] /\ call' = [call EXCEPT ![p] = NoCmd]
    /\ UNCHANGED <<alloc, seq, nsems, held, sems, undos, chan, base>>

\* One pass over the list: it is done, it fails, or the process sleeps.  Only the
\* first pass is after the checks.
SemopPass(p) ==
    /\ pc[p] \in {"copy", "again"} /\ MayRun(p) /\ call[p].cmd = "semop"
    /\ pc[p] = "copy" => ipcaccess(p) /\ InRange(call[p].ops)
    /\ LET ops    == call[p].ops
           k      == DoOps(p, call[p].id, ops)
           at     == ops[k.done + 1]
           sleeps == k.status \in {"n", "z"} /\ ~at.nowait
       IN  /\ semval' = k.val
           /\ semncnt' = IF sleeps /\ k.status = "n"
                         THEN [k.ncnt EXCEPT ![at.num] = @ + 1] ELSE k.ncnt
           /\ semzcnt' = IF sleeps /\ k.status = "z"
                         THEN [k.zcnt EXCEPT ![at.num] = @ + 1] ELSE k.zcnt
           /\ has' = k.has /\ ent' = k.ent /\ semunp' = k.chain
           /\ pc' = [Woken(k.wake) EXCEPT
                        ![p] = IF sleeps THEN "asleep" ELSE "user"]
           /\ call' = IF sleeps THEN call ELSE [call EXCEPT ![p] = NoCmd]
           /\ chan' = IF sleeps THEN [chan EXCEPT ![p] = <<k.status, at.num>>]
                      ELSE chan
           /\ base' = IF k.status # "go" THEN base ELSE [s \in Sem |->
                 base[s] + SumOps(s, ops)]
    /\ UNCHANGED <<alloc, seq, nsems, held>>

\* Awake again: EIDRM if the set has been removed, else the list is copied in
\* for another pass.
SemopAgain(p) ==
    /\ pc[p] = "woken" /\ MayRun(p)
    /\ IF Valid(call[p].id)
       THEN pc' = [pc EXCEPT ![p] = "again"] /\ UNCHANGED call
       ELSE pc' = [pc EXCEPT ![p] = "user"] /\ call' = [call EXCEPT ![p] = NoCmd]
    /\ chan' = [chan EXCEPT ![p] = NoChan]
    /\ UNCHANGED <<alloc, seq, nsems, held, sems, undos, base>>

MutOneLess(n) == n - 1

\* An interrupted sleeper takes itself off the count, down to zero.
OneLess(n) == IF n <= 1 THEN 0 ELSE n - 1

MutLastOne(n) == FALSE

\* Then it was the last, and wakes whoever sleeps uncounted.
LastOne(n) == n <= 1

\* sleep() returns 1: a signal is pending when the process runs again, woken
\* or not.  The count may have been cleared by a wakeup, or belong to the
\* sleepers of a new set by now.
SemopInterrupted(p) ==
    /\ pc[p] \in {"asleep", "woken"} /\ MayRun(p)
    /\ LET s   == chan[p][2]
           cnt == IF chan[p][1] = "n" THEN semncnt ELSE semzcnt
           new == [cnt EXCEPT ![s] = OneLess(@)]
       IN  /\ semncnt' = IF chan[p][1] = "n" THEN new ELSE semncnt
           /\ semzcnt' = IF chan[p][1] = "z" THEN new ELSE semzcnt
           /\ pc' = [Woken(IF LastOne(cnt[s]) THEN {chan[p]} ELSE {})
                        EXCEPT ![p] = "user"]
    /\ call' = [call EXCEPT ![p] = NoCmd]
    /\ chan' = [chan EXCEPT ![p] = NoChan]
    /\ UNCHANGED <<alloc, seq, nsems, held, semval, undos, base>>

----------------------------------------------------------------------------
(* semexit(): the process exits, and its slot is free for a new one. *)

Semexit(p) ==
    /\ pc[p] = "user" /\ MayRun(p) /\ p \in has
    /\ LET aoe == [s \in Sem |-> IF alloc THEN ent[p][<<seq, s>>] ELSE 0]
           adj == {s \in Sem : aoe[s] # 0 /\ semval[s] + aoe[s] \in 0 .. semvmx}
           n   == {s \in adj : aoe[s] > 0 /\ semncnt[s] > 0}
           z   == {s \in adj : semval[s] + aoe[s] = 0 /\ semzcnt[s] > 0}
       IN  /\ semval' = [s \in Sem |->
                            semval[s] + IF s \in adj THEN aoe[s] ELSE 0]
           /\ semncnt' = [s \in Sem |-> IF s \in n THEN 0 ELSE semncnt[s]]
           /\ semzcnt' = [s \in Sem |-> IF s \in z THEN 0 ELSE semzcnt[s]]
           /\ pc' = Woken(({"n"} \X n) \cup ({"z"} \X z))
           /\ base' = [s \in Sem |->
                          base[s] - IF s \in adj THEN 0 ELSE aoe[s]]
    /\ ent' = [ent EXCEPT ![p] = [e \in Id \X Sem |-> 0]]
    /\ semunp' = semunp \ {p} /\ has' = has \ {p}
    /\ UNCHANGED <<alloc, seq, nsems, held, call, chan>>

----------------------------------------------------------------------------
Next == \E p \in Proc :
    \/ \E n \in 1 .. NSems : Semget(p, n)
    \/ Rmid(p)
    \/ \E s \in Sem, v \in 0 .. semvmx : Setval(p, s, v)
    \/ \E v \in [Sem -> 0 .. semvmx] : SetallEntry(p, v)
    \/ Setall(p)
    \/ IpcSetEntry(p)
    \/ IpcSet(p)
    \/ \E ops \in OpLists : SemopEntry(p, ops)
    \/ SemopRefused(p)
    \/ SemopPass(p)
    \/ SemopAgain(p)
    \/ SemopInterrupted(p)
    \/ Semexit(p)

Spec == Init /\ [][Next]_vars

----------------------------------------------------------------------------
(* Properties *)

\* The fields keep their types; in particular semval stays within 0..semvmx
\* and an adjust-on-exit value within -semaem..semaem.
TypeOK ==
    /\ alloc \in BOOLEAN /\ seq \in Id
    /\ nsems \in 0 .. NSems /\ held \in 0 .. NSems
    /\ semval \in [Sem -> 0 .. semvmx]
    /\ semncnt \in [Sem -> 0 .. Cardinality(Proc)]
    /\ semzcnt \in [Sem -> 0 .. Cardinality(Proc)]
    /\ has \subseteq Proc /\ Cardinality(has) <= semmnu
    /\ ent \in [Proc -> [Id \X Sem -> -semaem .. semaem]]
    /\ \A p \in Proc : Count(ent[p]) <= semume
    /\ semunp \subseteq Proc
    /\ pc \in [Proc -> {"user", "copy", "again", "asleep", "woken"}]
    /\ chan \in [Proc -> Chan]

\* A process asleep on a count is counted, so the next change of the
\* semaphore that can help it wakes it: the counts are cleared by every
\* wakeup and decremented by interrupted sleepers, of removed sets too
\* (sem.c:563-570), and must not reach zero while somebody sleeps.
NoLostSleeper == \A p \in Proc : pc[p] = "asleep" =>
    IF chan[p][1] = "n" THEN semncnt[chan[p][2]] > 0
                        ELSE semzcnt[chan[p][2]] > 0

\* A process that sleeps cannot have all its operations done now
\* (sem.c:500, "Loop waiting for the operations to be satisified atomically").
NoSleepWhenReady == \A p \in Proc : pc[p] = "asleep" =>
    DoOps(p, call[p].id, call[p].ops).status # "go"

\* Nobody sleeps for a set that has been removed (sem.c:179-190, 503-508).
NoneSleepsForRemoved ==
    \A p \in Proc : pc[p] = "asleep" => Valid(call[p].id)

\* The chain semunrm() searches holds exactly the structures with entries,
\* and every entry is about the set that exists (sem.c:90-96, 107-121, 674).
UndoChained ==
    /\ semunp = {p \in Proc : Count(ent[p]) > 0} /\ semunp \subseteq has
    /\ \A p \in Proc, e \in Id \X Sem : ent[p][e] # 0 =>
            Valid(e[1]) /\ e[2] < nsems

\* Every semaphore has the value the operations without SEM_UNDO and the
\* last SETVAL gave it, less what the living processes would give back.
UndoBalance == alloc => \A s \in Sem : s < nsems =>
    semval[s] + MapThenSumSet(LAMBDA p : ent[p][<<seq, s>>], Proc) = base[s]

\* A call that sleeps or fails leaves no trace in the semaphores or in the
\* undo entries: the prefix of the list that was done is taken back.
LeavesNoTrace == \A p \in Proc : SemopPass(p) =>
    LET k == DoOps(p, call[p].id, call[p].ops)
    IN  k.status # "go" => UNCHANGED <<semval, ent, semunp>>

AllOrNothing == [][LeavesNoTrace]_vars

\* A set exists exactly while it owns semaphores of semmap (semctl.2,
\* IPC_RMID: "destroy the set of semaphores").
SetOwnsItsSemaphores == held = IF alloc THEN nsems ELSE 0

\* A pass of semop() works on the set its caller named (sem.c:504, "Verify
\* that the semaphores haven't been removed").
OpsOnNamedSet == [][\A p \in Proc : SemopPass(p) => Valid(call[p].id)]_vars

\* intro.2: "semncnt is a count of the number of processes that are currently
\* suspended awaiting this semaphore's semval to become greater".
SemncntExact == \A s \in Sem :
    semncnt[s] = Cardinality({p \in Proc : pc[p] = "asleep" /\ chan[p] = <<"n", s>>})
============================================================================
