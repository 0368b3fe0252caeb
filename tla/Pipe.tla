-------------------------------- MODULE Pipe --------------------------------
(***************************************************************************)
(* A pipe: src/sys/com/com_pipe.c, with the locking of rdwr() and closef() *)
(* around it (src/sys/sys/sys2.c, src/sys/sys/fio.c).                      *)
(*                                                                         *)
(* The data is in one buffer used as a ring.  read(), write() and close()  *)
(* have the inode locked, also while a copy sleeps for a page of the       *)
(* process, but not while they wait in pbwait(); open() and select() do    *)
(* not lock it.  A process that finds the inode locked waits for it, which *)
(* is a guard.  A process has the pipe open once.                          *)
(***************************************************************************)
EXTENDS Integers, FiniteSets, FiniteSetsExt, Sequences

CONSTANTS
    Proc, None,
    PIPE_SIZE,
    Writes, Reads,    \* byte counts of write() and read()
    Delays,           \* with O_NDELAY or without: a subset of BOOLEAN
    ulimit,           \* the most bytes u_limit lets the pipe grow to
    Faults,           \* calls whose buffer may be bad: of "read", "write"
    Events            \* what select() asks for: of "in", "out"

\* What the constants have to satisfy; the MC modules assume it of theirs.
PipeConstants ==
    /\ IsFiniteSet(Proc) /\ None \notin Proc
    /\ PIPE_SIZE \in Nat \ {0} /\ ulimit \in Nat
    /\ Writes \subseteq Nat \ {0} /\ Reads \subseteq Nat \ {0}
    /\ Delays \subseteq BOOLEAN
    /\ Faults \subseteq {"read", "write"} /\ Events \subseteq {"in", "out"}

ASSUME PipeAssumption == PipeConstants

VARIABLES
    fd,               \* the modes in which a process has, or gets, it open
    rref, wref,       \* pb_ref of pi_rb and of pi_wb
    size, rptr, wptr, \* i_size, pb_ptr of pi_rb and of pi_wb
    ring, bp,         \* the data; whether there is a buffer, pi_bp
    rbwait, wbwait,   \* PBWAIT of pi_rb and of pi_wb
    rpq, wpq,         \* pb_pq of pi_rb and of pi_wb
    lock,             \* the process that has the inode locked
    pc, call, chan,
    met               \* history: who was in open() when the other end opened

refs  == <<rref, wref>>
data  == <<size, rptr, wptr, ring, bp>>
waits == <<rbwait, wbwait, rpq, wpq>>
vars  == <<fd, refs, data, waits, lock, pc, call, chan, met>>

\* A byte is known by who wrote it and its place in the write; Old is what a
\* buffer holds where nothing has been copied.
Old   == [by |-> None, at |-> 0, of |-> 0]
Byte  == [by : Proc \cup {None}, at : Nat, of : Nat]
Chan  == {"rref", "wref", "rb", "wb", "select"}
Empty == [proc |-> None, length |-> 0]
NoCall == [op |-> "none"]

Init ==
    /\ fd = [p \in Proc |-> {}] /\ rref = 0 /\ wref = 0
    /\ size = 0 /\ rptr = 0 /\ wptr = 0 /\ bp = FALSE
    /\ ring = [i \in 0 .. PIPE_SIZE - 1 |-> Old]
    /\ rbwait = FALSE /\ wbwait = FALSE /\ rpq = Empty /\ wpq = Empty
    /\ lock = None
    /\ pc = [p \in Proc |-> "user"] /\ call = [p \in Proc |-> NoCall]
    /\ chan = [p \in Proc |-> "none"] /\ met = {}

----------------------------------------------------------------------------
(* Sleeping and waking *)

When(c, S) == IF c THEN S ELSE {}

Sleepers(c) == {p \in Proc : pc[p] = "asleep" /\ chan[p] = c}

Awake(S) == [p \in Proc |-> IF p \in S THEN "woken" ELSE pc[p]]

\* pollwakeup(): the one that is queued, or all when several have been.
pollwakeup(pq) ==
    When(pq.proc # None, IF pq.length > 1 THEN Sleepers("select")
                         ELSE {pq.proc} \cap Sleepers("select"))

\* pollqueue(): a head that does not sleep any more is replaced.
pollqueue(pq, p) ==
    [proc |-> IF pq.proc \in Sleepers("select") THEN pq.proc ELSE p,
     length |-> Min({2, pq.length + 1})]

\* pbwakeup() of pi_rb and of pi_wb.
RbWakes == pollwakeup(rpq) \cup When(rbwait, Sleepers("rb"))
WbWakes == pollwakeup(wpq) \cup When(wbwait, Sleepers("wb"))

Sleep(p, c, at) ==
    /\ pc' = [at EXCEPT ![p] = "asleep"] /\ chan' = [chan EXCEPT ![p] = c]

Leave(p, at) ==
    /\ pc' = [at EXCEPT ![p] = "user"] /\ call' = [call EXCEPT ![p] = NoCall]
    /\ chan' = [chan EXCEPT ![p] = "none"]

----------------------------------------------------------------------------
(* open() and close() *)

\* What open() waits for when the ends are referenced r and w times.
BlocksOn(m, nd, r, w) ==
    IF "r" \in m /\ w = 0 /\ ~nd /\ size = 0 THEN "wref"
    ELSE IF "w" \in m /\ r = 0 THEN "rref" ELSE "none"

MutOpenWakes(r, w) == When(wref = 0 /\ w > 0, Sleepers("wref"))

\* The first to open an end wakes those who wait for it.
OpenWakes(r, w) == When(rref = 0 /\ r > 0, Sleepers("rref"))
                   \cup When(wref = 0 /\ w > 0, Sleepers("wref"))

\* ENXIO changes nothing.
pipe_openi(p, m, nd) ==
    LET r == rref + (IF "r" \in m THEN 1 ELSE 0)
        w == wref + (IF "w" \in m THEN 1 ELSE 0)
        S == OpenWakes(r, w)
    IN  /\ pc[p] = "user" /\ fd[p] = {} /\ ~("w" \in m /\ nd /\ r = 0)
        /\ fd' = [fd EXCEPT ![p] = m] /\ rref' = r /\ wref' = w
        /\ met' = met \cup S
        /\ IF BlocksOn(m, nd, r, w) = "none"
           THEN Leave(p, Awake(S))
           ELSE /\ Sleep(p, BlocksOn(m, nd, r, w), Awake(S))
                /\ call' = [call EXCEPT ![p] = [op |-> "open", nd |-> nd]]
        /\ UNCHANGED <<data, waits, lock>>

OpenAgain(p) ==
    LET c == BlocksOn(fd[p], call[p].nd, rref, wref)
    IN  /\ pc[p] = "woken" /\ call[p].op = "open"
        /\ IF c = "none" THEN Leave(p, pc) /\ met' = met \ {p}
           ELSE Sleep(p, c, pc) /\ UNCHANGED <<call, met>>
        /\ UNCHANGED <<fd, refs, data, waits, lock>>

MutOpenInterrupted(p) ==
    /\ pc[p] \in {"asleep", "woken"} /\ call[p].op = "open"
    /\ Leave(p, pc) /\ fd' = [fd EXCEPT ![p] = {}]
    /\ UNCHANGED <<refs, data, waits, lock, met>>

\* A signal ends open(), and closef() closes what has been opened.
OpenInterrupted(p) ==
    /\ pc[p] \in {"asleep", "woken"} /\ call[p].op = "open"
    /\ pc' = [pc EXCEPT ![p] = "closing"] /\ chan' = [chan EXCEPT ![p] = "none"]
    /\ UNCHANGED <<fd, refs, data, waits, lock, call, met>>

MutLastClose(r, w) == w = 0

MutLastCloseKeeps(r, w) == FALSE

LastClose(r, w) == r = 0 /\ w = 0

pipe_closei(p) ==
    LET r == rref - (IF "r" \in fd[p] THEN 1 ELSE 0)
        w == wref - (IF "w" \in fd[p] THEN 1 ELSE 0)
        rlast == "r" \in fd[p] /\ r = 0
        wlast == "w" \in fd[p] /\ w = 0
    IN  /\ pc[p] = "closing" \/ (pc[p] = "user" /\ fd[p] # {})
        /\ lock = None
        /\ rref' = r /\ wref' = w /\ fd' = [fd EXCEPT ![p] = {}]
        /\ rbwait' = (rbwait /\ ~rlast) /\ rpq' = IF rlast THEN Empty ELSE rpq
        /\ wbwait' = (wbwait /\ ~wlast) /\ wpq' = IF wlast THEN Empty ELSE wpq
        /\ IF LastClose(r, w)
           THEN /\ bp' = FALSE /\ rptr' = 0 /\ wptr' = 0 /\ size' = 0
                /\ ring' = [i \in 0 .. PIPE_SIZE - 1 |-> Old]
           ELSE UNCHANGED data
        /\ Leave(p, Awake(When(rlast, RbWakes) \cup When(wlast, WbWakes)))
        /\ met' = met \ {p} /\ UNCHANGED lock

----------------------------------------------------------------------------
(* read() *)

\* A new call, or one that pbwait() returns to, has locked the inode.
Enters(p, op) == lock = None /\ pc[p] = "woken" /\ call[p].op = op

\* The loop of pipe_readi(): data, end of file, or a wait.
ReadLoop(p, n, nd) ==
    /\ IF size > 0
       THEN /\ lock' = p /\ pc' = [pc EXCEPT ![p] = "copyout"] /\ bp' = TRUE
            /\ call' = [call EXCEPT ![p] = [op |-> "read", count |-> n, nd |-> nd]]
            /\ chan' = [chan EXCEPT ![p] = "none"] /\ UNCHANGED wbwait
       ELSE /\ IF wref = 0 \/ nd
               THEN Leave(p, pc) /\ UNCHANGED wbwait
               ELSE /\ wbwait' = TRUE /\ Sleep(p, "wb", pc)
                    /\ call' = [call EXCEPT ![p] = [op |-> "read", count |-> n, nd |-> nd]]
            /\ UNCHANGED <<lock, bp>>
    /\ UNCHANGED <<fd, refs, size, rptr, wptr, ring, rbwait, rpq, wpq, met>>

Read(p, n, nd) ==
    /\ pc[p] = "user" /\ "r" \in fd[p] /\ lock = None /\ ReadLoop(p, n, nd)

ReadAgain(p) == Enters(p, "read") /\ ReadLoop(p, call[p].count, call[p].nd)

\* How much the next iomove() takes, up to the end of the ring.
ReadChunk(p) == Min({call[p].count, size, PIPE_SIZE - rptr})

Wrap(ptr) == IF ptr >= PIPE_SIZE THEN 0 ELSE ptr

\* Bytes taken off the ring.  Nobody looks at them again.
Consumed(n) == [i \in DOMAIN ring |-> IF i \in rptr .. rptr + n - 1 THEN Old ELSE ring[i]]

ReadDone(p) ==
    /\ rbwait' = FALSE /\ rpq' = Empty /\ Leave(p, Awake(RbWakes)) /\ lock' = None

ReadMoves(p) ==
    LET n == ReadChunk(p)
    IN  /\ pc[p] = "copyout"
        /\ size' = size - n /\ rptr' = Wrap(rptr + n) /\ ring' = Consumed(n)
        /\ IF call[p].count = n \/ size = n
           THEN ReadDone(p)
           ELSE /\ call' = [call EXCEPT ![p].count = @ - n]
                /\ UNCHANGED <<rbwait, rpq, pc, chan, lock>>
        /\ UNCHANGED <<fd, refs, wptr, bp, wbwait, wpq, met>>

\* EFAULT: the bytes are taken off although they were not delivered.
ReadFaults(p) ==
    LET n == ReadChunk(p)
    IN  /\ pc[p] = "copyout" /\ "read" \in Faults
        /\ size' = size - n /\ rptr' = Wrap(rptr + n) /\ ring' = Consumed(n)
        /\ ReadDone(p)
        /\ UNCHANGED <<fd, refs, wptr, bp, wbwait, wpq, met>>

----------------------------------------------------------------------------
(* write() *)

MutNoFit(count) == size >= PIPE_SIZE

NoFit(count) == count + size > PIPE_SIZE

MutSplit(count) == size < PIPE_SIZE

\* A write larger than the pipe goes in pieces.
Split(count) == count > PIPE_SIZE /\ size < PIPE_SIZE

Writing(c, count, usave) ==
    [op |-> "write", count |-> count, usave |-> usave, nd |-> c.nd, of |-> c.of]

\* The loop of pipe_writei() for the call c, and what follows it: EPIPE, or
\* nothing with O_NDELAY; a wait; or a copy, of all or of what there is room for.
WriteLoop(p, c) ==
    /\ \/ /\ rref = 0 \/ (NoFit(c.count) /\ ~Split(c.count) /\ c.nd)
          /\ Leave(p, pc) /\ lock' = None /\ UNCHANGED <<rbwait, bp>>
       \/ /\ rref > 0 /\ NoFit(c.count) /\ ~Split(c.count) /\ ~c.nd
          /\ rbwait' = TRUE /\ Sleep(p, "rb", pc)
          /\ call' = [call EXCEPT ![p] = Writing(c, c.count, 0)]
          /\ lock' = None /\ UNCHANGED bp
       \/ /\ rref > 0 /\ (NoFit(c.count) => Split(c.count))
          /\ LET n == IF NoFit(c.count) THEN PIPE_SIZE - size ELSE c.count
             IN  call' = [call EXCEPT ![p] = Writing(c, n, c.count - n)]
          /\ lock' = p /\ pc' = [pc EXCEPT ![p] = "copyin"] /\ bp' = TRUE
          /\ chan' = [chan EXCEPT ![p] = "none"] /\ UNCHANGED rbwait
    /\ UNCHANGED <<fd, refs, size, rptr, wptr, ring, wbwait, rpq, wpq, met>>

\* floop: EFBIG, or the loop.
Floop(p, c) ==
    IF c.count + size > ulimit
    THEN /\ Leave(p, pc) /\ lock' = None
         /\ UNCHANGED <<fd, refs, data, waits, met>>
    ELSE WriteLoop(p, c)

Write(p, n, nd) ==
    /\ pc[p] = "user" /\ "w" \in fd[p] /\ lock = None
    /\ Floop(p, [op |-> "write", count |-> n, usave |-> 0, nd |-> nd, of |-> n])

WriteAgain(p) ==
    \/ Enters(p, "write") /\ WriteLoop(p, call[p])
    \/ pc[p] = "floop" /\ Floop(p, [call[p] EXCEPT !.count = call[p].usave])

WriteChunk(p) == Min({call[p].count, PIPE_SIZE - wptr})

\* The bytes of the write that go into the ring next.
Produced(p, n) ==
    LET c == call[p]
        b(i) == [by |-> p, of |-> c.of, at |-> c.of - c.usave - c.count + i - wptr + 1]
    IN  [i \in DOMAIN ring |-> IF i \in wptr .. wptr + n - 1 THEN b(i) ELSE ring[i]]

MutWriteWakes == pollwakeup(wpq)

\* pbwakeup() at the end of pipe_writei().
WriteWakes == WbWakes

WriteMoves(p) ==
    LET n == WriteChunk(p)
    IN  /\ pc[p] = "copyin"
        /\ size' = size + n /\ wptr' = Wrap(wptr + n) /\ ring' = Produced(p, n)
        /\ CASE call[p].count > n ->
                  /\ call' = [call EXCEPT ![p].count = @ - n]
                  /\ UNCHANGED <<wbwait, wpq, pc, chan, lock>>
             [] call[p].count = n /\ call[p].usave > 0 ->
                  /\ call' = [call EXCEPT ![p].count = 0]
                  /\ wbwait' = FALSE /\ wpq' = Empty
                  /\ pc' = [Awake(WriteWakes) EXCEPT ![p] = "floop"]
                  /\ UNCHANGED <<chan, lock>>
             [] OTHER ->
                  /\ wbwait' = FALSE /\ wpq' = Empty /\ lock' = None
                  /\ Leave(p, Awake(WriteWakes))
        /\ UNCHANGED <<fd, refs, rptr, bp, rbwait, rpq, met>>

\* EFAULT: the ring grows by bytes that have not been copied.
WriteFaults(p) ==
    LET n == WriteChunk(p)
    IN  /\ pc[p] = "copyin" /\ "write" \in Faults
        /\ size' = size + n /\ wptr' = Wrap(wptr + n) /\ UNCHANGED ring
        /\ wbwait' = FALSE /\ wpq' = Empty /\ lock' = None
        /\ Leave(p, Awake(WriteWakes))
        /\ UNCHANGED <<fd, refs, rptr, bp, rbwait, rpq, met>>

\* A signal ends a wait of read() or write(); the inode is not locked.
Interrupted(p) ==
    /\ pc[p] \in {"asleep", "woken"} /\ call[p].op \in {"read", "write", "select"}
    /\ Leave(p, pc)
    /\ UNCHANGED <<fd, refs, data, waits, lock, met>>

----------------------------------------------------------------------------
(* select() on this pipe: pipe_poll(), and a sleep when it is not ready.  *)

\* POLLHUP is not what a caller asked for who asked for output.
Ready(ev) ==
    IF ev = "in" THEN size # 0 ELSE rref # 0 /\ size # PIPE_SIZE

Poll(p, ev) ==
    IF Ready(ev)
    THEN Leave(p, pc) /\ UNCHANGED <<rpq, wpq>>
    ELSE /\ Sleep(p, "select", pc)
         /\ call' = [call EXCEPT ![p] = [op |-> "select", ev |-> ev]]
         /\ IF ev = "in" THEN rpq' = pollqueue(rpq, p) /\ UNCHANGED wpq
                         ELSE wpq' = pollqueue(wpq, p) /\ UNCHANGED rpq

Select(p, ev) ==
    /\ pc[p] = "user" /\ (IF ev = "in" THEN "r" ELSE "w") \in fd[p]
    /\ Poll(p, ev) /\ UNCHANGED <<fd, refs, data, rbwait, wbwait, lock, met>>

SelectAgain(p) ==
    /\ pc[p] = "woken" /\ call[p].op = "select"
    /\ Poll(p, call[p].ev) /\ UNCHANGED <<fd, refs, data, rbwait, wbwait, lock, met>>

----------------------------------------------------------------------------
Next == \E p \in Proc :
    \/ \E m \in {{"r"}, {"w"}, {"r", "w"}}, nd \in Delays : pipe_openi(p, m, nd)
    \/ OpenAgain(p) \/ OpenInterrupted(p) \/ pipe_closei(p)
    \/ \E n \in Reads, nd \in Delays : Read(p, n, nd)
    \/ ReadAgain(p) \/ ReadMoves(p) \/ ReadFaults(p)
    \/ \E n \in Writes, nd \in Delays : Write(p, n, nd)
    \/ WriteAgain(p) \/ WriteMoves(p) \/ WriteFaults(p)
    \/ Interrupted(p)
    \/ \E ev \in Events : Select(p, ev)
    \/ SelectAgain(p)

Spec == Init /\ [][Next]_vars

----------------------------------------------------------------------------
(* Properties *)

TypeOK ==
    /\ fd \in [Proc -> SUBSET {"r", "w"}] /\ rref \in Nat /\ wref \in Nat
    /\ size \in 0 .. PIPE_SIZE
    /\ rptr \in 0 .. PIPE_SIZE - 1 /\ wptr \in 0 .. PIPE_SIZE - 1
    /\ DOMAIN ring = 0 .. PIPE_SIZE - 1 /\ \A i \in DOMAIN ring : ring[i] \in Byte
    /\ {bp, rbwait, wbwait} \subseteq BOOLEAN
    /\ lock \in Proc \cup {None} /\ met \subseteq Proc
    /\ pc \in [Proc -> {"user", "asleep", "woken", "closing", "copyin", "copyout", "floop"}]
    /\ chan \in [Proc -> Chan \cup {"none"}]

\* What is in the pipe, in order.
Queue == [i \in 1 .. size |-> ring[(rptr + i - 1) % PIPE_SIZE]]

Abstract == INSTANCE ByteQueue WITH Capacity <- PIPE_SIZE, q <- Queue,
                users <- {p \in Proc : fd[p] # {}}

\* The ring with its two pointers is a queue of bytes, through wrapping and
\* writes in pieces, and is emptied only by the last close.
ImplementsQueue == Abstract!Spec

\* A write that is not larger than the pipe is in one piece: after one of its
\* bytes comes the next, whoever else writes.
OnePiece == \A i \in 1 .. size - 1 :
    LET a == Queue[i]  b == Queue[i + 1]
    IN  a # Old /\ b # Old =>
          /\ a.of <= PIPE_SIZE /\ a.at < a.of => b = [a EXCEPT !.at = @ + 1]
          /\ b.of <= PIPE_SIZE /\ b.at > 1 => a = [b EXCEPT !.at = @ - 1]

\* pb_ref counts those who have the end open or wait in open(), also after
\* ENXIO and after a signal during open().
RefCounts ==
    /\ rref = Cardinality({p \in Proc : "r" \in fd[p]})
    /\ wref = Cardinality({p \in Proc : "w" \in fd[p]})

\* There is a buffer while there is data, and none when nobody has the pipe.
BufferKept ==
    /\ size > 0 => bp
    /\ bp => \E p \in Proc : fd[p] # {}

Moving(pos) == lock # None /\ pc[lock] = pos

\* A reader asleep in pbwait() is flagged, the pipe is empty and may still be
\* written to; a writer asleep there is flagged, its data does not fit, and
\* somebody may read: unless the one that copies is about to wake it.
IoNotForgotten == \A p \in Proc : pc[p] = "asleep" =>
    /\ chan[p] = "wb" => /\ wbwait /\ wref > 0
                         /\ size = 0 \/ Moving("copyin")
    /\ chan[p] = "rb" =>
          /\ rbwait /\ rref > 0
          /\ Moving("copyout") \/
                (NoFit(call[p].count) /\ (call[p].count > PIPE_SIZE => size = PIPE_SIZE))

\* Who sleeps in open() does so because the other end is not open.
OpenNotForgotten == \A p \in Proc : pc[p] = "asleep" =>
    /\ chan[p] = "wref" => wref = 0
    /\ chan[p] = "rref" => rref = 0

\* Who sleeps in a read or write of a pipe is flagged and cannot go on; who sleeps
\* in open() does so because the other end is not open.
PipeSleepers == IoNotForgotten /\ OpenNotForgotten

\* pb_ref of a pipe counts those that have the end open, or open it; the pipe has
\* its buffer while it is needed, and a write() that is not larger than the pipe
\* stays in one piece.
PipeKept == TypeOK /\ RefCounts /\ BufferKept /\ OnePiece

\* select.2: select() waits until a descriptor is ready.  Nobody sleeps in it
\* whose descriptor is ready, while nothing is being copied.
SelectServed == \A p \in Sleepers("select") : lock = None => ~Ready(call[p].ev)

\* pipe.2: a read "accesses the data written": every byte in the pipe is one
\* that a write() has copied there.
OnlyWritten == \A i \in 1 .. size : Queue[i] # Old

\* open.2: an open for reading-only "will block until a process opens the file
\* for writing": nobody sleeps in open() on when the other end was opened.
OpenUnblocked == \A p \in met : pc[p] # "asleep"
=============================================================================
