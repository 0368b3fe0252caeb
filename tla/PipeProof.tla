------------------------------ MODULE PipeProof ------------------------------
(***************************************************************************)
(* A pipe keeps its bytes in order and writes in one piece, and nobody who *)
(* waits for it is forgotten, for every size of the pipe, every number of  *)
(* processes and every length of their reads and writes.                   *)
(***************************************************************************)
EXTENDS Pipe, FiniteSetTheorems, SequenceTheorems, TLAPS

LEMMA Constants ==
    /\ IsFiniteSet(Proc) /\ None \notin Proc
    /\ PIPE_SIZE \in Nat /\ PIPE_SIZE > 0 /\ ulimit \in Nat
    /\ \A n \in Writes \cup Reads : n \in Nat /\ n > 0
    /\ \A nd \in Delays : nd \in BOOLEAN
BY PipeAssumption DEF PipeConstants

-----------------------------------------------------------------------------
(* The inductive invariant. *)

ReadCall(c) == c.op = "read" /\ c.count \in Nat /\ c.count > 0
               /\ c = [op |-> "read", count |-> c.count, nd |-> c.nd]

WriteCall(c) ==
    /\ c = [op |-> "write", count |-> c.count, usave |-> c.usave, nd |-> c.nd, of |-> c.of]
    /\ c.count \in Nat /\ c.usave \in Nat /\ c.of \in Nat /\ c.count + c.usave <= c.of

\* Which call a process is in, by where it is, and what it has found out by then:
\* a copy into the pipe has the room it needs.
CallOK(p) ==
    /\ pc[p] \in {"asleep", "woken"} =>
          \/ call[p].op = "open" /\ chan[p] \in {"rref", "wref"}
          \/ call[p].op = "select" /\ chan[p] = "select"
          \/ ReadCall(call[p]) /\ chan[p] = "wb" /\ "r" \in fd[p]
          \/ /\ WriteCall(call[p]) /\ chan[p] = "rb" /\ "w" \in fd[p]
             /\ call[p].count > 0 /\ call[p].usave = 0
             /\ call[p].of <= PIPE_SIZE => call[p].count = call[p].of
    /\ pc[p] = "copyout" => ReadCall(call[p]) /\ "r" \in fd[p] /\ size > 0
    /\ pc[p] = "copyin" =>
          /\ WriteCall(call[p]) /\ "w" \in fd[p] /\ bp
          /\ call[p].count > 0 /\ call[p].count + size <= PIPE_SIZE
          /\ call[p].usave > 0 => call[p].of > PIPE_SIZE
    /\ pc[p] = "floop" =>
          WriteCall(call[p]) /\ "w" \in fd[p] /\ call[p].usave > 0 /\ call[p].of > PIPE_SIZE

\* Every process has a call, if none to speak of.
DomOK == call = [p \in Proc |-> call[p]]

\* The inode is locked exactly while somebody copies.
LockOK == \A p \in Proc : pc[p] \in {"copyin", "copyout", "floop"} <=> lock = p

\* The k-th place behind the read pointer.
Place(r, k) == IF r + k < PIPE_SIZE THEN r + k ELSE r + k - PIPE_SIZE
Cell(k) == ring[Place(rptr, k)]

\* The write pointer is behind what is in the pipe, and nothing is left in the rest
\* of the ring.
RingOK ==
    /\ wptr = Place(rptr, size)
    /\ \A k \in 0 .. PIPE_SIZE - 1 : k >= size => Cell(k) = Old

\* Byte b comes after a.
Follows(a, b) == a # Old /\ b # Old =>
    /\ a.of <= PIPE_SIZE /\ a.at < a.of => b = [a EXCEPT !.at = @ + 1]
    /\ b.of <= PIPE_SIZE /\ b.at > 1 => a = [b EXCEPT !.at = @ - 1]

Pieces == \A k \in 0 .. PIPE_SIZE - 1 : k + 1 < size => Follows(Cell(k), Cell(k + 1))

\* How many bytes of its write p has copied, and the last of them.
Done(p) == call[p].of - call[p].usave - call[p].count
Copied(p) == [by |-> p, of |-> call[p].of, at |-> Done(p)]

\* The last byte in the pipe ends a write, or it is the last of the one that copies.
TailOK ==
    /\ size > 0 =>
          LET e == Cell(size - 1)
          IN  e # Old /\ e.of <= PIPE_SIZE /\ e.at < e.of =>
                 \E p \in Proc : pc[p] = "copyin" /\ e = Copied(p)
    /\ \A p \in Proc : pc[p] = "copyin" /\ call[p].of <= PIPE_SIZE
                       /\ call[p].count < call[p].of =>
          size > 0 /\ Cell(size - 1) = Copied(p)

IoOK(p) == pc[p] = "asleep" =>
    /\ chan[p] = "wb" => /\ wbwait /\ wref > 0
                         /\ size = 0 \/ Moving("copyin")
    /\ chan[p] = "rb" =>
          /\ rbwait /\ rref > 0
          /\ Moving("copyout") \/
                (NoFit(call[p].count) /\ (call[p].count > PIPE_SIZE => size = PIPE_SIZE))
    /\ chan[p] = "wref" => wref = 0
    /\ chan[p] = "rref" => rref = 0

PipeInv ==
    /\ TypeOK /\ DomOK /\ LockOK /\ RefCounts /\ BufferKept /\ RingOK /\ Pieces /\ TailOK
    /\ \A p \in Proc : CallOK(p)
    /\ \A p \in Proc : IoOK(p)

-----------------------------------------------------------------------------
(***************************************************************************)
(* What a step of p leaves alone.  The others, but for those in S, which   *)
(* are woken, are where they were.                                         *)
(***************************************************************************)
Asleep == {q \in Proc : pc[q] = "asleep"}

Frame(p, S) ==
    /\ S \subseteq Asleep
    /\ \A q \in Proc : q # p =>
          /\ call'[q] = call[q] /\ chan'[q] = chan[q] /\ fd'[q] = fd[q]
          /\ pc'[q] = IF q \in S THEN "woken" ELSE pc[q]

\* Nobody else copies.
Alone(p) == lock \in {None, p}

LockPc == {"copyin", "copyout", "floop"}

LEMMA FrameCalls ==
    ASSUME NEW p \in Proc, NEW S, Frame(p, S), LockOK, \A q \in Proc : CallOK(q),
           Alone(p) \/ (size' = size /\ bp' = bp), CallOK(p)'
    PROVE  \A q \in Proc : CallOK(q)'
<1> SUFFICES ASSUME NEW q \in Proc, q # p PROVE CallOK(q)'
    OBVIOUS
<1>1. /\ call'[q] = call[q] /\ chan'[q] = chan[q] /\ fd'[q] = fd[q]
      /\ pc'[q] = pc[q] \/ (pc[q] = "asleep" /\ pc'[q] = "woken")
    BY DEF Frame, Asleep
<1>2. CallOK(q)
    OBVIOUS
<1>3. Alone(p) => pc[q] \notin LockPc
    BY Constants DEF LockOK, Alone, LockPc
<1> QED BY <1>1, <1>2, <1>3 DEF CallOK, LockPc

LEMMA FrameLock ==
    ASSUME NEW p \in Proc, NEW S, Frame(p, S), LockOK,
           \/ Alone(p) /\ ((lock' = p /\ pc'[p] \in LockPc) \/ (lock' = None /\ pc'[p] \notin LockPc))
           \/ lock' = lock /\ pc[p] \notin LockPc /\ pc'[p] \notin LockPc
    PROVE  LockOK'
<1> SUFFICES ASSUME NEW q \in Proc PROVE pc'[q] \in LockPc <=> lock' = q
    BY DEF LockOK, LockPc
<1>1. q # p => (pc'[q] \in LockPc <=> pc[q] \in LockPc)
    BY DEF Frame, Asleep, LockPc
<1>2. pc[q] \in LockPc <=> lock = q
    BY DEF LockOK, LockPc
<1>3. pc[p] \in LockPc <=> lock = p
    BY DEF LockOK, LockPc
<1> QED BY <1>1, <1>2, <1>3, Constants DEF Alone

\* The bytes are where they were; a process that begins to copy has copied nothing.
LEMMA FrameBytes ==
    ASSUME NEW p \in Proc, NEW S, Frame(p, S), RingOK, Pieces, TailOK,
           UNCHANGED <<size, rptr, wptr, ring>>, pc[p] # "copyin",
           pc'[p] = "copyin" => call'[p].of > PIPE_SIZE \/ call'[p].count = call'[p].of,
           pc'[p] = "copyin" => call'[p].of \in Nat /\ call'[p].count \in Nat
    PROVE  RingOK' /\ Pieces' /\ TailOK'
<1>1. \A k : Cell(k)' = Cell(k)
    BY DEF Cell, Place
<1>2. RingOK' /\ Pieces'
    BY <1>1 DEF RingOK, Pieces, Place, Follows, Old
<1>3. \A q \in Proc : pc[q] = "copyin" => pc'[q] = "copyin" /\ Copied(q)' = Copied(q)
    BY DEF Frame, Asleep, Copied, Done
<1>4. \A q \in Proc : q # p /\ pc'[q] = "copyin" =>
            pc[q] = "copyin" /\ Copied(q)' = Copied(q) /\ call'[q] = call[q]
    BY DEF Frame, Asleep, Copied, Done
<1>5. ASSUME size' > 0
      PROVE  LET e == Cell(size - 1)
             IN  e # Old /\ e.of <= PIPE_SIZE /\ e.at < e.of =>
                    \E q \in Proc : pc'[q] = "copyin" /\ e = Copied(q)'
    BY <1>3, <1>5 DEF TailOK
<1>6. ASSUME NEW q \in Proc, pc'[q] = "copyin", call'[q].of <= PIPE_SIZE,
             call'[q].count < call'[q].of
      PROVE  size > 0 /\ Cell(size - 1) = Copied(q)'
    <2>1. q # p
        BY <1>6, Constants
    <2> QED BY <1>6, <2>1, <1>4 DEF TailOK
<1>7. TailOK'
    BY <1>1, <1>5, <1>6 DEF TailOK, Old
<1> QED BY <1>2, <1>7

\* RefCounts and BufferKept depend on who has the pipe open.
LEMMA FrameRefs ==
    ASSUME RefCounts, BufferKept, UNCHANGED <<fd, rref, wref>>,
           size' > 0 => bp', bp' => bp \/ \E q \in Proc : fd[q] # {}
    PROVE  RefCounts' /\ BufferKept'
BY DEF RefCounts, BufferKept

\* What the provers need of a type.
Pcs == {"user", "asleep", "woken", "closing", "copyin", "copyout", "floop"}

LEMMA AwakeType ==
    ASSUME TypeOK, NEW S, NEW p \in Proc, NEW v
    PROVE  /\ Awake(S) = [q \in Proc |-> Awake(S)[q]]
           /\ [Awake(S) EXCEPT ![p] = v][p] = v
           /\ \A q \in Proc : q # p => [Awake(S) EXCEPT ![p] = v][q] = IF q \in S THEN "woken" ELSE pc[q]
           /\ v \in Pcs => [Awake(S) EXCEPT ![p] = v] \in [Proc -> Pcs]
<1>1. pc \in [Proc -> Pcs]
    BY DEF TypeOK, Pcs
<1> QED BY <1>1 DEF Awake, Pcs

\* Leaving or going to sleep, when those in S are woken: the same, written out.
LEMMA LeaveFrame ==
    ASSUME TypeOK, DomOK, NEW p \in Proc, NEW S, S \subseteq Asleep, Leave(p, Awake(S)),
           \A q \in Proc : q # p => fd'[q] = fd[q]
    PROVE  /\ Frame(p, S) /\ pc'[p] = "user"
           /\ pc' \in [Proc -> Pcs] /\ chan' \in [Proc -> Chan \cup {"none"}] /\ DomOK'
<1>1. pc' = [Awake(S) EXCEPT ![p] = "user"] /\ "user" \in Pcs
    BY DEF Leave, Pcs
<1>2. pc'[p] = "user" /\ pc' \in [Proc -> Pcs]
      /\ \A q \in Proc : q # p => pc'[q] = IF q \in S THEN "woken" ELSE pc[q]
    BY <1>1, AwakeType
<1>3. \A q \in Proc : q # p => call'[q] = call[q] /\ chan'[q] = chan[q]
    BY DEF Leave, TypeOK, DomOK
<1>4. chan' \in [Proc -> Chan \cup {"none"}] /\ DomOK'
    BY DEF Leave, TypeOK, DomOK
<1> QED BY <1>2, <1>3, <1>4 DEF Frame

LEMMA PlainLeaveFrame ==
    ASSUME TypeOK, DomOK, NEW p \in Proc, Leave(p, pc), \A q \in Proc : q # p => fd'[q] = fd[q]
    PROVE  /\ Frame(p, {}) /\ pc'[p] = "user"
           /\ pc' \in [Proc -> Pcs] /\ chan' \in [Proc -> Chan \cup {"none"}] /\ DomOK'
<1>1. Awake({}) = pc
    BY DEF Awake, TypeOK
<1> QED BY <1>1, LeaveFrame

LEMMA SleepFrame ==
    ASSUME TypeOK, NEW p \in Proc, NEW S, S \subseteq Asleep, NEW c \in Chan,
           Sleep(p, c, Awake(S)), \A q \in Proc : q # p => fd'[q] = fd[q],
           \A q \in Proc : q # p => call'[q] = call[q]
    PROVE  /\ Frame(p, S) /\ pc'[p] = "asleep" /\ chan'[p] = c
           /\ pc' \in [Proc -> Pcs] /\ chan' \in [Proc -> Chan \cup {"none"}]
<1>1. pc' = [Awake(S) EXCEPT ![p] = "asleep"] /\ "asleep" \in Pcs
    BY DEF Sleep, Pcs
<1>2. pc'[p] = "asleep" /\ pc' \in [Proc -> Pcs]
      /\ \A q \in Proc : q # p => pc'[q] = IF q \in S THEN "woken" ELSE pc[q]
    BY <1>1, AwakeType, Zenon
<1>3. chan'[p] = c /\ \A q \in Proc : q # p => chan'[q] = chan[q]
    BY DEF Sleep, TypeOK
<1>4. chan' \in [Proc -> Chan \cup {"none"}]
    BY DEF Sleep, TypeOK
<1> QED BY <1>2, <1>3, <1>4 DEF Frame

LEMMA PlainSleepFrame ==
    ASSUME TypeOK, NEW p \in Proc, NEW c \in Chan,
           Sleep(p, c, pc), \A q \in Proc : q # p => fd'[q] = fd[q],
           \A q \in Proc : q # p => call'[q] = call[q]
    PROVE  /\ Frame(p, {}) /\ pc'[p] = "asleep" /\ chan'[p] = c
           /\ pc' \in [Proc -> Pcs] /\ chan' \in [Proc -> Chan \cup {"none"}]
<1>1. Awake({}) = pc
    BY DEF Awake, TypeOK
<1> QED BY <1>1, SleepFrame

-----------------------------------------------------------------------------
(* Who sleeps. *)

\* Who copies goes on when p does something else.
LEMMA MovingKept ==
    ASSUME TypeOK, NEW p \in Proc, NEW S, Frame(p, S), lock' = lock \/ Alone(p),
           NEW s \in {"copyin", "copyout"}, pc[p] # s, Moving(s)
    PROVE  Moving(s)'
<1>1. lock # None /\ lock \in Proc /\ lock # p /\ pc[lock] = s
    BY DEF Moving, TypeOK
<1>2. lock' = lock
    BY <1>1 DEF Alone
<1>3. pc'[lock] = s
    BY <1>1 DEF Frame, Asleep
<1> QED BY <1>1, <1>2, <1>3 DEF Moving

\* Those who wait on the four channels are woken, or what they wait for has not come.
LEMMA FrameIo ==
    ASSUME TypeOK, NEW p \in Proc, NEW S, Frame(p, S), \A q \in Proc : IoOK(q), IoOK(p)',
           \A q \in Proc : CallOK(q),
           \/ Sleepers("wb") \subseteq S
           \/ /\ wbwait => wbwait'
              /\ wref > 0 => wref' > 0
              /\ Moving("copyin")' \/ (~Moving("copyin") /\ (size = 0 => size' = 0)),
           \/ Sleepers("rb") \subseteq S
           \/ /\ rbwait => rbwait'
              /\ rref > 0 => rref' > 0
              /\ \/ Moving("copyout")'
                 \/ ~Moving("copyout") /\ size' \in 0 .. PIPE_SIZE /\ size' >= size,
           Sleepers("wref") \subseteq S \/ (wref = 0 => wref' = 0),
           Sleepers("rref") \subseteq S \/ (rref = 0 => rref' = 0)
    PROVE  \A q \in Proc : IoOK(q)'
<1> SUFFICES ASSUME NEW q \in Proc, q # p, pc'[q] = "asleep" PROVE IoOK(q)'
    BY DEF IoOK
<1>1. pc[q] = "asleep" /\ call'[q] = call[q] /\ chan'[q] = chan[q] /\ q \notin S
    BY DEF Frame
<1>2. IoOK(q) /\ CallOK(q)
    OBVIOUS
<1>3. chan[q] = "rb" => call[q].count \in Nat
    BY <1>1, <1>2 DEF CallOK, WriteCall
<1>4. chan[q] = "wb" => wbwait' /\ wref' > 0 /\ (size' = 0 \/ Moving("copyin")')
    BY <1>1, <1>2 DEF IoOK, Sleepers
<1>5. chan[q] = "rb" =>
        /\ rbwait' /\ rref' > 0
        /\ Moving("copyout")' \/
              (NoFit(call[q].count)' /\ (call[q].count > PIPE_SIZE => size' = PIPE_SIZE))
    BY <1>1, <1>2, <1>3, Constants DEF IoOK, Sleepers, NoFit, TypeOK
<1>6. (chan[q] = "wref" => wref' = 0) /\ (chan[q] = "rref" => rref' = 0)
    BY <1>1, <1>2 DEF IoOK, Sleepers
<1> QED BY <1>1, <1>4, <1>5, <1>6 DEF IoOK, NoFit

-----------------------------------------------------------------------------
(* open() *)

LEMMA WakesAsleep ==
    /\ \A r, w : OpenWakes(r, w) \subseteq Asleep
    /\ RbWakes \subseteq Asleep /\ WbWakes \subseteq Asleep
    /\ rbwait => Sleepers("rb") \subseteq RbWakes
    /\ wbwait => Sleepers("wb") \subseteq WbWakes
BY DEF OpenWakes, When, Sleepers, Asleep, RbWakes, WbWakes, pollwakeup

LEMMA OpenStep ==
    ASSUME PipeInv, NEW p \in Proc, NEW m \in {{"r"}, {"w"}, {"r", "w"}}, NEW nd \in Delays,
           pipe_openi(p, m, nd)
    PROVE  PipeInv'
<1> DEFINE r == rref + (IF "r" \in m THEN 1 ELSE 0)
           w == wref + (IF "w" \in m THEN 1 ELSE 0)
           S == OpenWakes(r, w)
           c == BlocksOn(m, nd, r, w)
<1>1. /\ pc[p] = "user" /\ fd[p] = {} /\ fd' = [fd EXCEPT ![p] = m] /\ rref' = r /\ wref' = w
      /\ met' = met \cup S /\ UNCHANGED <<data, waits, lock>>
      /\ \/ c = "none" /\ Leave(p, Awake(S))
         \/ /\ c # "none" /\ Sleep(p, c, Awake(S))
            /\ call' = [call EXCEPT ![p] = [op |-> "open", nd |-> nd]]
    BY DEF pipe_openi
<1>2. TypeOK /\ DomOK /\ LockOK
    BY DEF PipeInv
<1>3. /\ fd'[p] = m /\ \A q \in Proc : q # p => fd'[q] = fd[q]
      /\ fd' \in [Proc -> SUBSET {"r", "w"}]
    BY <1>1, <1>2 DEF TypeOK
<1>4. S \subseteq Asleep
    BY WakesAsleep
<1>5. r \in Nat /\ w \in Nat /\ r >= rref /\ w >= wref
    BY <1>2 DEF TypeOK
<1>6. c \in {"none", "rref", "wref"} /\ (c = "wref" => w = 0) /\ (c = "rref" => r = 0)
    BY DEF BlocksOn
<1> HIDE DEF r, w, S, c
<1>7. /\ Frame(p, S) /\ pc' \in [Proc -> Pcs] /\ chan' \in [Proc -> Chan \cup {"none"}] /\ DomOK'
      /\ \/ pc'[p] = "user"
         \/ pc'[p] = "asleep" /\ chan'[p] = c /\ call'[p].op = "open" /\ c # "none"
    <2>1. CASE c = "none"
        BY <1>1, <1>2, <1>3, <1>4, <2>1, LeaveFrame
    <2>2. CASE c # "none"
        <3>1. call'[p].op = "open" /\ DomOK' /\ \A q \in Proc : q # p => call'[q] = call[q]
            BY <1>1, <1>2, <2>2 DEF DomOK
        <3>2. c \in Chan
            BY <1>6, <2>2 DEF Chan
        <3> QED BY <1>1, <1>2, <1>3, <1>4, <2>2, <3>1, <3>2, SleepFrame
    <2> QED BY <2>1, <2>2
<1>8. TypeOK'
    <2>1. met' \subseteq Proc
        BY <1>1, <1>2, <1>4 DEF TypeOK, Asleep
    <2> QED BY <1>1, <1>2, <1>3, <1>5, <1>7, <2>1 DEF TypeOK, data, waits, Pcs
<1>9. RefCounts'
    <2> DEFINE R == {q \in Proc : "r" \in fd[q]}  W == {q \in Proc : "w" \in fd[q]}
    <2>1. IsFiniteSet(R) /\ IsFiniteSet(W)
        BY Constants, FS_Subset
    <2>2. rref = Cardinality(R) /\ wref = Cardinality(W)
        BY DEF PipeInv, RefCounts
    <2>3. p \notin R /\ p \notin W
        BY <1>1
    <2>4. Cardinality(R \cup {p}) = Cardinality(R) + 1 /\ Cardinality(W \cup {p}) = Cardinality(W) + 1
        BY <2>1, <2>3, FS_AddElement
    <2>5. {q \in Proc : "r" \in fd'[q]} = IF "r" \in m THEN R \cup {p} ELSE R
        BY <1>1, <1>3
    <2>6. {q \in Proc : "w" \in fd'[q]} = IF "w" \in m THEN W \cup {p} ELSE W
        BY <1>1, <1>3
    <2>7. rref' = Cardinality({q \in Proc : "r" \in fd'[q]})
        <3>1. CASE "r" \in m
            <4>1. rref' = rref + 1
                BY <1>1, <3>1 DEF r
            <4> QED BY <2>2, <2>4, <2>5, <3>1, <4>1
        <3>2. CASE "r" \notin m
            <4>1. rref' = rref
                BY <1>1, <3>2, <1>2 DEF r, TypeOK
            <4> QED BY <2>2, <2>5, <3>2, <4>1
        <3> QED BY <3>1, <3>2
    <2>8. wref' = Cardinality({q \in Proc : "w" \in fd'[q]})
        <3>1. CASE "w" \in m
            <4>1. wref' = wref + 1
                BY <1>1, <3>1 DEF w
            <4> QED BY <2>2, <2>4, <2>6, <3>1, <4>1
        <3>2. CASE "w" \notin m
            <4>1. wref' = wref
                BY <1>1, <3>2, <1>2 DEF w, TypeOK
            <4> QED BY <2>2, <2>6, <3>2, <4>1
        <3> QED BY <3>1, <3>2
    <2> QED BY <2>7, <2>8 DEF RefCounts
<1>10. BufferKept'
    <2>1. size' = size /\ bp' = bp /\ fd'[p] # {}
        BY <1>1, <1>3 DEF data
    <2> QED BY <2>1 DEF PipeInv, BufferKept
<1>11. \A q \in Proc : CallOK(q)'
    <2>1. CallOK(p)'
        BY <1>6, <1>7 DEF CallOK
    <2> QED BY <1>1, <1>7, <2>1, FrameCalls DEF PipeInv, data
<1>12. LockOK'
    BY <1>1, <1>2, <1>7, FrameLock DEF LockPc
<1>13. RingOK' /\ Pieces' /\ TailOK'
    BY <1>1, <1>7, FrameBytes DEF PipeInv, data
<1>14. \A q \in Proc : IoOK(q)'
    <2>1. IoOK(p)'
        BY <1>1, <1>6, <1>7 DEF IoOK
    <2>2. \A s \in {"copyin", "copyout"} : Moving(s)' \/ ~Moving(s)
        BY <1>1, <1>2, <1>7, MovingKept
    <2>3. Sleepers("wref") \subseteq S \/ (wref = 0 => wref' = 0)
        BY <1>1, <1>2, <1>5 DEF S, OpenWakes, When, TypeOK
    <2>4. Sleepers("rref") \subseteq S \/ (rref = 0 => rref' = 0)
        BY <1>1, <1>2, <1>5 DEF S, OpenWakes, When, TypeOK
    <2>5. size' = size /\ wbwait' = wbwait /\ rbwait' = rbwait /\ size \in 0 .. PIPE_SIZE
        BY <1>1, <1>2 DEF data, waits, TypeOK
    <2>6. (wref > 0 => wref' > 0) /\ (rref > 0 => rref' > 0)
        BY <1>1, <1>2, <1>5 DEF TypeOK
    <2>7. (\A q \in Proc : IoOK(q)) /\ \A q \in Proc : CallOK(q)
        BY DEF PipeInv
    <2> QED BY <1>2, <1>7, <2>1, <2>2, <2>3, <2>4, <2>5, <2>6, <2>7, FrameIo
<1> QED BY <1>7, <1>8, <1>9, <1>10, <1>11, <1>12, <1>13, <1>14 DEF PipeInv

-----------------------------------------------------------------------------
(* Steps that move no bytes, wake nobody, and leave open what is open. *)

LEMMA QuietStep ==
    ASSUME PipeInv, NEW p \in Proc, Frame(p, {}),
           pc' \in [Proc -> Pcs], chan' \in [Proc -> Chan \cup {"none"}], DomOK',
           UNCHANGED <<fd, rref, wref, size, rptr, wptr, ring>>, met' \subseteq Proc,
           {bp', rbwait', wbwait'} \subseteq BOOLEAN, bp => bp', bp' => bp \/ fd[p] # {},
           wbwait => wbwait', rbwait => rbwait',
           pc[p] \notin {"copyin", "copyout"},
           \/ Alone(p) /\ ((lock' = p /\ pc'[p] \in LockPc) \/ (lock' = None /\ pc'[p] \notin LockPc))
           \/ lock' = lock /\ pc[p] \notin LockPc /\ pc'[p] \notin LockPc /\ bp' = bp,
           pc'[p] = "copyin" => call'[p].of > PIPE_SIZE \/ call'[p].count = call'[p].of,
           CallOK(p)', IoOK(p)'
    PROVE  PipeInv'
<1>1. TypeOK /\ LockOK /\ (\A q \in Proc : IoOK(q)) /\ \A q \in Proc : CallOK(q)
    BY DEF PipeInv
<1>2. TypeOK'
    <2>1. lock' \in Proc \cup {None}
        BY <1>1 DEF TypeOK
    <2> QED BY <1>1, <2>1 DEF TypeOK, Pcs
<1>3. RefCounts' /\ BufferKept'
    <2>1. (size' > 0 => bp') /\ (bp' => bp \/ \E q \in Proc : fd[q] # {})
        BY DEF PipeInv, BufferKept
    <2> QED BY <2>1, FrameRefs DEF PipeInv
<1>4. \A q \in Proc : CallOK(q)'
    BY <1>1, FrameCalls
<1>5. LockOK'
    BY <1>1, FrameLock
<1>6. RingOK' /\ Pieces' /\ TailOK'
    <2>1. pc'[p] = "copyin" => call'[p].of \in Nat /\ call'[p].count \in Nat
        BY DEF CallOK, WriteCall
    <2> QED BY <2>1, FrameBytes DEF PipeInv
<1>7. \A q \in Proc : IoOK(q)'
    <2>1. lock' = lock \/ Alone(p)
        OBVIOUS
    <2>2. \A s \in {"copyin", "copyout"} : Moving(s)' \/ ~Moving(s)
        BY <1>1, <2>1, MovingKept
    <2>3. size' \in 0 .. PIPE_SIZE /\ size' >= size
        BY <1>1, Constants DEF TypeOK
    <2> QED BY <1>1, <2>2, <2>3, FrameIo
<1> QED BY <1>2, <1>3, <1>4, <1>5, <1>6, <1>7 DEF PipeInv

LEMMA OpenAgainStep ==
    ASSUME PipeInv, NEW p \in Proc, OpenAgain(p) \/ OpenInterrupted(p)
    PROVE  PipeInv'
<1>1. TypeOK /\ DomOK /\ CallOK(p)
    BY DEF PipeInv
<1>2. /\ pc[p] \in {"asleep", "woken"} /\ call[p].op = "open"
      /\ UNCHANGED <<fd, rref, wref, size, rptr, wptr, ring, bp, rbwait, wbwait, lock>>
      /\ \A q \in Proc : q # p => fd'[q] = fd[q]
    BY DEF OpenAgain, OpenInterrupted, refs, data, waits
<1>3. met' \subseteq Proc
    BY <1>1 DEF OpenAgain, OpenInterrupted, TypeOK
<1>4. /\ Frame(p, {}) /\ pc' \in [Proc -> Pcs] /\ chan' \in [Proc -> Chan \cup {"none"}] /\ DomOK'
      /\ pc'[p] \notin LockPc /\ CallOK(p)' /\ IoOK(p)'
    <2>1. CASE OpenInterrupted(p)
        <3>1. /\ pc' = [pc EXCEPT ![p] = "closing"] /\ chan' = [chan EXCEPT ![p] = "none"]
              /\ call' = call
            BY <2>1 DEF OpenInterrupted
        <3>2. /\ pc'[p] = "closing" /\ pc' \in [Proc -> Pcs]
              /\ chan' \in [Proc -> Chan \cup {"none"}]
              /\ \A q \in Proc : q # p => pc'[q] = pc[q] /\ chan'[q] = chan[q]
            BY <1>1, <3>1 DEF TypeOK, Pcs
        <3>3. Frame(p, {})
            BY <1>2, <3>1, <3>2 DEF Frame
        <3> QED BY <1>1, <3>1, <3>2, <3>3 DEF CallOK, IoOK, LockPc, DomOK
    <2>2. CASE OpenAgain(p)
        <3> DEFINE c == BlocksOn(fd[p], call[p].nd, rref, wref)
        <3>1. c \in {"none", "rref", "wref"} /\ (c = "wref" => wref = 0) /\ (c = "rref" => rref = 0)
            BY DEF BlocksOn
        <3> HIDE DEF c
        <3>2. CASE c = "none"
            <4>1. Leave(p, pc)
                BY <2>2, <3>2 DEF OpenAgain, c
            <4>2. /\ Frame(p, {}) /\ pc'[p] = "user" /\ pc' \in [Proc -> Pcs]
                  /\ chan' \in [Proc -> Chan \cup {"none"}] /\ DomOK'
                BY <1>1, <1>2, <4>1, PlainLeaveFrame
            <4> QED BY <4>2 DEF CallOK, IoOK, LockPc
        <3>3. CASE c # "none"
            <4>1. Sleep(p, c, pc) /\ call' = call /\ c \in Chan
                BY <2>2, <3>1, <3>3 DEF OpenAgain, c, Chan
            <4>2. /\ Frame(p, {}) /\ pc'[p] = "asleep" /\ chan'[p] = c /\ pc' \in [Proc -> Pcs]
                  /\ chan' \in [Proc -> Chan \cup {"none"}]
                BY <1>1, <1>2, <4>1, PlainSleepFrame
            <4> QED BY <1>1, <1>2, <3>1, <3>3, <4>1, <4>2 DEF CallOK, IoOK, LockPc, DomOK
        <3> QED BY <3>2, <3>3
    <2> QED BY <2>1, <2>2
<1>5. {bp', rbwait', wbwait'} \subseteq BOOLEAN
    BY <1>1, <1>2 DEF TypeOK
<1> QED BY <1>2, <1>3, <1>4, <1>5, QuietStep DEF LockPc

LEMMA InterruptedStep ==
    ASSUME PipeInv, NEW p \in Proc, Interrupted(p)
    PROVE  PipeInv'
<1>1. TypeOK /\ DomOK
    BY DEF PipeInv
<1>2. /\ pc[p] \in {"asleep", "woken"} /\ Leave(p, pc)
      /\ UNCHANGED <<fd, rref, wref, size, rptr, wptr, ring, bp, rbwait, wbwait, lock, met>>
      /\ \A q \in Proc : q # p => fd'[q] = fd[q]
    BY DEF Interrupted, refs, data, waits
<1>3. /\ Frame(p, {}) /\ pc'[p] = "user" /\ pc' \in [Proc -> Pcs]
      /\ chan' \in [Proc -> Chan \cup {"none"}] /\ DomOK'
    BY <1>1, <1>2, PlainLeaveFrame
<1>4. CallOK(p)' /\ IoOK(p)'
    BY <1>3 DEF CallOK, IoOK
<1>5. {bp', rbwait', wbwait'} \subseteq BOOLEAN /\ met' \subseteq Proc
    BY <1>1, <1>2 DEF TypeOK
<1> QED BY <1>2, <1>3, <1>4, <1>5, QuietStep DEF LockPc

LEMMA PollStep ==
    ASSUME PipeInv, NEW p \in Proc, NEW ev, pc[p] \in {"user", "woken"}, Poll(p, ev),
           UNCHANGED <<fd, refs, data, rbwait, wbwait, lock, met>>
    PROVE  PipeInv'
<1>1. TypeOK /\ DomOK
    BY DEF PipeInv
<1>2. /\ UNCHANGED <<fd, rref, wref, size, rptr, wptr, ring, bp, rbwait, wbwait, lock, met>>
      /\ \A q \in Proc : q # p => fd'[q] = fd[q]
    BY DEF refs, data
<1>3. /\ Frame(p, {}) /\ pc' \in [Proc -> Pcs] /\ chan' \in [Proc -> Chan \cup {"none"}] /\ DomOK'
      /\ pc'[p] \notin LockPc /\ CallOK(p)' /\ IoOK(p)'
    <2>1. CASE Ready(ev)
        <3>1. Leave(p, pc)
            BY <2>1 DEF Poll
        <3>2. /\ Frame(p, {}) /\ pc'[p] = "user" /\ pc' \in [Proc -> Pcs]
              /\ chan' \in [Proc -> Chan \cup {"none"}] /\ DomOK'
            BY <1>1, <1>2, <3>1, PlainLeaveFrame
        <3> QED BY <3>2 DEF CallOK, IoOK, LockPc
    <2>2. CASE ~Ready(ev)
        <3>1. Sleep(p, "select", pc) /\ call' = [call EXCEPT ![p] = [op |-> "select", ev |-> ev]]
            BY <2>2 DEF Poll
        <3>2. call'[p].op = "select" /\ DomOK' /\ \A q \in Proc : q # p => call'[q] = call[q]
            BY <1>1, <3>1 DEF DomOK
        <3>3. /\ Frame(p, {}) /\ pc'[p] = "asleep" /\ chan'[p] = "select" /\ pc' \in [Proc -> Pcs]
              /\ chan' \in [Proc -> Chan \cup {"none"}]
            BY <1>1, <1>2, <3>1, <3>2, PlainSleepFrame DEF Chan
        <3> QED BY <3>2, <3>3 DEF CallOK, IoOK, LockPc
    <2> QED BY <2>1, <2>2
<1>4. {bp', rbwait', wbwait'} \subseteq BOOLEAN /\ met' \subseteq Proc
    BY <1>1, <1>2 DEF TypeOK
<1> QED BY <1>2, <1>3, <1>4, QuietStep DEF LockPc

-----------------------------------------------------------------------------
(* read() and write() up to the first copy. *)

\* The process begins to copy.
LEMMA MoveFrame ==
    ASSUME TypeOK, DomOK, NEW p \in Proc, NEW v \in Pcs, NEW x,
           pc' = [pc EXCEPT ![p] = v], call' = [call EXCEPT ![p] = x],
           chan' = [chan EXCEPT ![p] = "none"], fd' = fd
    PROVE  /\ Frame(p, {}) /\ pc'[p] = v /\ call'[p] = x
           /\ pc' \in [Proc -> Pcs] /\ chan' \in [Proc -> Chan \cup {"none"}] /\ DomOK'
<1>1. pc \in [Proc -> Pcs] /\ chan \in [Proc -> Chan \cup {"none"}]
    BY DEF TypeOK, Pcs
<1> QED BY <1>1 DEF Frame, DomOK

LEMMA ReadLoopStep ==
    ASSUME PipeInv, NEW p \in Proc, NEW n \in Nat, n > 0, NEW nd, lock = None,
           pc[p] \in {"user", "woken"}, "r" \in fd[p], ReadLoop(p, n, nd)
    PROVE  PipeInv'
<1> DEFINE x == [op |-> "read", count |-> n, nd |-> nd]
<1>1. TypeOK /\ DomOK /\ Alone(p)
    BY DEF PipeInv, Alone
<1>2. /\ UNCHANGED <<fd, rref, wref, size, rptr, wptr, ring, rbwait, met>>
      /\ \A q \in Proc : q # p => fd'[q] = fd[q]
    BY DEF ReadLoop, refs
<1>3. ReadCall(x) /\ x.op = "read"
    BY DEF ReadCall
<1> HIDE DEF x
<1>4. /\ Frame(p, {}) /\ pc' \in [Proc -> Pcs] /\ chan' \in [Proc -> Chan \cup {"none"}] /\ DomOK'
      /\ CallOK(p)' /\ IoOK(p)' /\ pc'[p] # "copyin"
      /\ (lock' = p /\ pc'[p] \in LockPc) \/ (lock' = None /\ pc'[p] \notin LockPc)
      /\ bp' = bp \/ bp' = TRUE
      /\ wbwait' = wbwait \/ wbwait' = TRUE
    <2>1. CASE size > 0
        <3>1. /\ lock' = p /\ pc' = [pc EXCEPT ![p] = "copyout"] /\ bp' = TRUE
              /\ call' = [call EXCEPT ![p] = x] /\ chan' = [chan EXCEPT ![p] = "none"]
              /\ wbwait' = wbwait /\ "copyout" \in Pcs
            BY <2>1 DEF ReadLoop, x, Pcs
        <3>2. /\ Frame(p, {}) /\ pc'[p] = "copyout" /\ call'[p] = x
              /\ pc' \in [Proc -> Pcs] /\ chan' \in [Proc -> Chan \cup {"none"}] /\ DomOK'
            BY <1>1, <1>2, <3>1, MoveFrame
        <3>3. CallOK(p)'
            BY <1>2, <1>3, <2>1, <3>2 DEF CallOK, ReadCall
        <3>4. IoOK(p)'
            BY <3>2 DEF IoOK
        <3>5. pc'[p] \in LockPc /\ pc'[p] # "copyin"
            BY <3>2 DEF LockPc
        <3>6. /\ bp' = bp \/ bp' = TRUE
              /\ wbwait' = wbwait \/ wbwait' = TRUE
            BY <3>1, Zenon
        <3>7. lock' = p /\ pc'[p] \in LockPc
            BY <3>1, <3>5, Zenon
        <3> QED BY <3>2, <3>3, <3>4, <3>5, <3>6, <3>7, Zenon
    <2>2. CASE ~(size > 0) /\ (wref = 0 \/ nd)
        <3>1. Leave(p, pc) /\ UNCHANGED <<wbwait, lock, bp>>
            BY <2>2 DEF ReadLoop
        <3>2. /\ Frame(p, {}) /\ pc'[p] = "user" /\ pc' \in [Proc -> Pcs]
              /\ chan' \in [Proc -> Chan \cup {"none"}] /\ DomOK'
            BY <1>1, <1>2, <3>1, PlainLeaveFrame
        <3> QED BY <3>1, <3>2 DEF CallOK, IoOK, LockPc
    <2>3. CASE ~(size > 0) /\ ~(wref = 0 \/ nd)
        <3>1. /\ wbwait' = TRUE /\ Sleep(p, "wb", pc) /\ call' = [call EXCEPT ![p] = x]
              /\ UNCHANGED <<lock, bp>>
            BY <2>3 DEF ReadLoop, x
        <3>2. call'[p] = x /\ DomOK' /\ \A q \in Proc : q # p => call'[q] = call[q]
            BY <1>1, <3>1 DEF DomOK
        <3>3. /\ Frame(p, {}) /\ pc'[p] = "asleep" /\ chan'[p] = "wb" /\ pc' \in [Proc -> Pcs]
              /\ chan' \in [Proc -> Chan \cup {"none"}]
            BY <1>1, <1>2, <3>1, <3>2, PlainSleepFrame DEF Chan
        <3>4. CallOK(p)'
            BY <1>2, <1>3, <3>2, <3>3 DEF CallOK, ReadCall
        <3>5. wref' > 0 /\ size' = 0
            BY <1>1, <1>2, <2>3 DEF TypeOK
        <3>6. IoOK(p)'
            BY <3>1, <3>3, <3>5 DEF IoOK
        <3> QED BY <3>1, <3>2, <3>3, <3>4, <3>6 DEF LockPc
    <2> QED BY <2>1, <2>2, <2>3
<1>5. {bp', rbwait', wbwait'} \subseteq BOOLEAN /\ met' \subseteq Proc
    BY <1>1, <1>2, <1>4 DEF TypeOK
<1>6. (bp => bp') /\ (wbwait => wbwait') /\ (rbwait => rbwait')
    BY <1>2, <1>4
<1> QED BY <1>1, <1>2, <1>4, <1>5, <1>6, QuietStep

\* A call of write() that is about to go through the loop with count bytes left.
Ready4Loop(c) ==
    /\ c = [op |-> "write", count |-> c.count, usave |-> c.usave, nd |-> c.nd, of |-> c.of]
    /\ c.count \in Nat /\ c.count > 0 /\ c.of \in Nat /\ c.count <= c.of
    /\ c.of <= PIPE_SIZE => c.count = c.of

LEMMA WriteLoopStep ==
    ASSUME PipeInv, NEW p \in Proc, NEW c, Ready4Loop(c), Alone(p),
           pc[p] \in {"user", "woken", "floop"}, "w" \in fd[p], WriteLoop(p, c)
    PROVE  PipeInv'
<1>1. TypeOK /\ DomOK
    BY DEF PipeInv
<1>2. /\ UNCHANGED <<fd, rref, wref, size, rptr, wptr, ring, wbwait, met>>
      /\ \A q \in Proc : q # p => fd'[q] = fd[q]
    BY DEF WriteLoop, refs
<1>3. size \in 0 .. PIPE_SIZE /\ PIPE_SIZE \in Nat
    BY <1>1, Constants DEF TypeOK
<1>4. /\ Frame(p, {}) /\ pc' \in [Proc -> Pcs] /\ chan' \in [Proc -> Chan \cup {"none"}] /\ DomOK'
      /\ CallOK(p)' /\ IoOK(p)'
      /\ pc'[p] = "copyin" => call'[p].of > PIPE_SIZE \/ call'[p].count = call'[p].of
      /\ (lock' = p /\ pc'[p] \in LockPc) \/ (lock' = None /\ pc'[p] \notin LockPc)
      /\ bp' = bp \/ bp' = TRUE
      /\ rbwait' = rbwait \/ rbwait' = TRUE
    <2>1. CASE Leave(p, pc) /\ lock' = None /\ UNCHANGED <<rbwait, bp>>
        <3>1. /\ Frame(p, {}) /\ pc'[p] = "user" /\ pc' \in [Proc -> Pcs]
              /\ chan' \in [Proc -> Chan \cup {"none"}] /\ DomOK'
            BY <1>1, <1>2, <2>1, PlainLeaveFrame
        <3> QED BY <2>1, <3>1 DEF CallOK, IoOK, LockPc
    <2>2. CASE /\ rref > 0 /\ NoFit(c.count) /\ ~Split(c.count) /\ ~c.nd
               /\ rbwait' = TRUE /\ Sleep(p, "rb", pc)
               /\ call' = [call EXCEPT ![p] = Writing(c, c.count, 0)]
               /\ lock' = None /\ UNCHANGED bp
        <3> DEFINE x == [op |-> "write", count |-> c.count, usave |-> 0, nd |-> c.nd, of |-> c.of]
        <3>1. call' = [call EXCEPT ![p] = x]
            BY <2>2 DEF Writing
        <3>2. WriteCall(x) /\ x.count = c.count /\ x.of = c.of /\ x.usave = 0
            BY DEF Ready4Loop, WriteCall
        <3> HIDE DEF x
        <3>3. call'[p] = x /\ DomOK' /\ \A q \in Proc : q # p => call'[q] = call[q]
            BY <1>1, <3>1 DEF DomOK
        <3>4. /\ Frame(p, {}) /\ pc'[p] = "asleep" /\ chan'[p] = "rb" /\ pc' \in [Proc -> Pcs]
              /\ chan' \in [Proc -> Chan \cup {"none"}]
            BY <1>1, <1>2, <2>2, <3>3, PlainSleepFrame DEF Chan
        <3>5. CallOK(p)'
            BY <1>2, <3>2, <3>3, <3>4 DEF CallOK, Ready4Loop, WriteCall
        <3>6. NoFit(c.count)' /\ (c.count > PIPE_SIZE => size' = PIPE_SIZE) /\ rref' > 0
            BY <1>2, <1>3, <2>2 DEF NoFit, Split, Ready4Loop
        <3>7. IoOK(p)'
            BY <2>2, <3>2, <3>3, <3>4, <3>6 DEF IoOK
        <3> QED BY <2>2, <3>3, <3>4, <3>5, <3>7 DEF LockPc
    <2>3. CASE /\ rref > 0 /\ (NoFit(c.count) => Split(c.count))
               /\ LET n == IF NoFit(c.count) THEN PIPE_SIZE - size ELSE c.count
                  IN  call' = [call EXCEPT ![p] = Writing(c, n, c.count - n)]
               /\ lock' = p /\ pc' = [pc EXCEPT ![p] = "copyin"] /\ bp' = TRUE
               /\ chan' = [chan EXCEPT ![p] = "none"] /\ UNCHANGED rbwait
        <3> DEFINE n == IF NoFit(c.count) THEN PIPE_SIZE - size ELSE c.count
                   x == [op |-> "write", count |-> n, usave |-> c.count - n, nd |-> c.nd, of |-> c.of]
        <3>1. call' = [call EXCEPT ![p] = Writing(c, n, c.count - n)]
            BY <2>3
        <3>2. call' = [call EXCEPT ![p] = x]
            BY <3>1 DEF Writing
        <3>3. /\ n \in Nat /\ n > 0 /\ n + size <= PIPE_SIZE /\ n <= c.count
              /\ c.count - n > 0 => c.of > PIPE_SIZE
              /\ c.of <= PIPE_SIZE => n = c.of
            BY <1>3, <2>3 DEF NoFit, Split, Ready4Loop
        <3> HIDE DEF n
        <3>4. WriteCall(x) /\ x.count = n /\ x.usave = c.count - n /\ x.of = c.of
            BY <3>3 DEF Ready4Loop, WriteCall
        <3> HIDE DEF x
        <3>5. /\ Frame(p, {}) /\ pc'[p] = "copyin" /\ call'[p] = x
              /\ pc' \in [Proc -> Pcs] /\ chan' \in [Proc -> Chan \cup {"none"}] /\ DomOK'
            BY <1>1, <1>2, <2>3, <3>2, MoveFrame DEF Pcs
        <3>6. CallOK(p)'
            BY <1>2, <2>3, <3>3, <3>4, <3>5 DEF CallOK, WriteCall
        <3>7. call'[p].of > PIPE_SIZE \/ call'[p].count = call'[p].of
            BY <1>3, <3>3, <3>4, <3>5 DEF Ready4Loop
        <3>8. IoOK(p)'
            BY <3>5 DEF IoOK
        <3>9. pc'[p] \in LockPc
            BY <3>5 DEF LockPc
        <3>10. /\ bp' = bp \/ bp' = TRUE
               /\ rbwait' = rbwait \/ rbwait' = TRUE
            BY <2>3, Zenon
        <3>11. lock' = p /\ pc'[p] \in LockPc
            BY <2>3, <3>9, Zenon
        <3> QED BY <3>5, <3>6, <3>7, <3>8, <3>10, <3>11, Zenon
    <2> QED BY <2>1, <2>2, <2>3 DEF WriteLoop
<1>5. {bp', rbwait', wbwait'} \subseteq BOOLEAN /\ met' \subseteq Proc
    BY <1>1, <1>2, <1>4 DEF TypeOK
<1>6. (bp => bp') /\ (wbwait => wbwait') /\ (rbwait => rbwait')
    BY <1>2, <1>4
<1> QED BY <1>1, <1>2, <1>4, <1>5, <1>6, QuietStep

LEMMA FloopStep ==
    ASSUME PipeInv, NEW p \in Proc, NEW c, Ready4Loop(c), Alone(p),
           pc[p] \in {"user", "woken", "floop"}, "w" \in fd[p], Floop(p, c)
    PROVE  PipeInv'
<1>1. CASE c.count + size > ulimit
    <2>1. TypeOK /\ DomOK
        BY DEF PipeInv
    <2>2. /\ Leave(p, pc) /\ lock' = None
          /\ UNCHANGED <<fd, rref, wref, size, rptr, wptr, ring, bp, rbwait, wbwait, met>>
          /\ \A q \in Proc : q # p => fd'[q] = fd[q]
        BY <1>1 DEF Floop, refs, data, waits
    <2>3. /\ Frame(p, {}) /\ pc'[p] = "user" /\ pc' \in [Proc -> Pcs]
          /\ chan' \in [Proc -> Chan \cup {"none"}] /\ DomOK'
        BY <2>1, <2>2, PlainLeaveFrame
    <2>4. CallOK(p)' /\ IoOK(p)'
        BY <2>3 DEF CallOK, IoOK
    <2>5. {bp', rbwait', wbwait'} \subseteq BOOLEAN /\ met' \subseteq Proc
        BY <2>1, <2>2 DEF TypeOK
    <2> QED BY <2>2, <2>3, <2>4, <2>5, QuietStep DEF LockPc
<1>2. CASE ~(c.count + size > ulimit)
    <2>1. WriteLoop(p, c)
        BY <1>2 DEF Floop
    <2> QED BY <2>1, WriteLoopStep
<1> QED BY <1>1, <1>2

LEMMA ReadStep ==
    ASSUME PipeInv, NEW p \in Proc,
           (\E n \in Reads, nd \in Delays : Read(p, n, nd)) \/ ReadAgain(p)
    PROVE  PipeInv'
<1>1. CASE \E n \in Reads, nd \in Delays : Read(p, n, nd)
    BY <1>1, Constants, ReadLoopStep DEF Read
<1>2. CASE ReadAgain(p)
    <2>1. lock = None /\ pc[p] = "woken" /\ call[p].op = "read"
          /\ ReadLoop(p, call[p].count, call[p].nd)
        BY <1>2 DEF ReadAgain, Enters
    <2>2. CallOK(p)
        BY DEF PipeInv
    <2>3. ReadCall(call[p]) /\ "r" \in fd[p]
        BY <2>1, <2>2 DEF CallOK, WriteCall
    <2> QED BY <2>1, <2>3, ReadLoopStep DEF ReadCall
<1> QED BY <1>1, <1>2

LEMMA WriteStep ==
    ASSUME PipeInv, NEW p \in Proc,
           (\E n \in Writes, nd \in Delays : Write(p, n, nd)) \/ WriteAgain(p)
    PROVE  PipeInv'
<1>0. CallOK(p) /\ LockOK
    BY DEF PipeInv
<1>1. ASSUME NEW n \in Writes, NEW nd \in Delays, Write(p, n, nd) PROVE PipeInv'
    <2> DEFINE c == [op |-> "write", count |-> n, usave |-> 0, nd |-> nd, of |-> n]
    <2>1. pc[p] = "user" /\ "w" \in fd[p] /\ lock = None /\ Floop(p, c)
        BY <1>1 DEF Write
    <2>2. Ready4Loop(c)
        BY Constants DEF Ready4Loop
    <2> HIDE DEF c
    <2> QED BY <2>1, <2>2, FloopStep DEF Alone
<1>2. CASE Enters(p, "write") /\ WriteLoop(p, call[p])
    <2>1. lock = None /\ pc[p] = "woken" /\ call[p].op = "write"
        BY <1>2 DEF Enters
    <2>2. Ready4Loop(call[p]) /\ "w" \in fd[p]
        BY <1>0, <2>1 DEF CallOK, WriteCall, ReadCall, Ready4Loop
    <2> QED BY <1>2, <2>1, <2>2, WriteLoopStep DEF Alone
<1>3. CASE pc[p] = "floop" /\ Floop(p, [call[p] EXCEPT !.count = call[p].usave])
    <2> DEFINE c == [call[p] EXCEPT !.count = call[p].usave]
    <2>1. lock = p /\ WriteCall(call[p]) /\ "w" \in fd[p] /\ call[p].usave > 0
          /\ call[p].of > PIPE_SIZE
        BY <1>0, <1>3 DEF CallOK, LockOK
    <2>2. c = [op |-> "write", count |-> call[p].usave, usave |-> call[p].usave,
               nd |-> call[p].nd, of |-> call[p].of]
        BY <2>1 DEF WriteCall
    <2>3. Ready4Loop(c)
        BY <2>1, <2>2, Constants DEF Ready4Loop, WriteCall
    <2> HIDE DEF c
    <2>4. Floop(p, c)
        BY <1>3 DEF c
    <2> QED BY <1>3, <2>1, <2>3, <2>4, FloopStep DEF Alone
<1> QED BY <1>1, <1>2, <1>3 DEF WriteAgain

-----------------------------------------------------------------------------
(* The ring: n bytes are taken from the front, or put at the end. *)

LEMMA MinOfTwo ==
    ASSUME NEW a \in Int, NEW b \in Int
    PROVE  Min({a, b}) = IF a <= b THEN a ELSE b
<1>1. \E x \in {a, b} : \A y \in {a, b} : x <= y
    BY a <= b \/ b <= a
<1>2. Min({a, b}) \in {a, b} /\ \A y \in {a, b} : Min({a, b}) <= y
    BY <1>1, Zenon DEF Min
<1> QED BY <1>2

LEMMA MinOfThree ==
    ASSUME NEW a \in Int, NEW b \in Int, NEW c \in Int
    PROVE  /\ Min({a, b, c}) \in {a, b, c}
           /\ Min({a, b, c}) <= a /\ Min({a, b, c}) <= b /\ Min({a, b, c}) <= c
<1>1. \E x \in {a, b, c} : \A y \in {a, b, c} : x <= y
    <2>1. (a <= b /\ a <= c) \/ (b <= a /\ b <= c) \/ (c <= a /\ c <= b)
        OBVIOUS
    <2> QED BY <2>1
<1>2. Min({a, b, c}) \in {a, b, c} /\ \A y \in {a, b, c} : Min({a, b, c}) <= y
    BY <1>1, Zenon DEF Min
<1> QED BY <1>2

LEMMA TakeBytes ==
    ASSUME TypeOK, RingOK, NEW n \in Nat, n > 0, n <= size, n <= PIPE_SIZE - rptr,
           size' = size - n, rptr' = Wrap(rptr + n), ring' = Consumed(n), wptr' = wptr
    PROVE  /\ RingOK' /\ size' \in 0 .. PIPE_SIZE /\ rptr' \in 0 .. PIPE_SIZE - 1
           /\ DOMAIN ring' = 0 .. PIPE_SIZE - 1 /\ \A i \in DOMAIN ring' : ring'[i] \in Byte
           /\ \A k \in 0 .. PIPE_SIZE - 1 : k < size' => Cell(k)' = Cell(k + n)
<1>1. /\ size \in 0 .. PIPE_SIZE /\ rptr \in 0 .. PIPE_SIZE - 1 /\ PIPE_SIZE \in Nat
      /\ DOMAIN ring = 0 .. PIPE_SIZE - 1 /\ \A i \in DOMAIN ring : ring[i] \in Byte
    BY Constants DEF TypeOK
<1>2. /\ DOMAIN ring' = 0 .. PIPE_SIZE - 1
      /\ \A i \in 0 .. PIPE_SIZE - 1 :
            ring'[i] = IF rptr <= i /\ i < rptr + n THEN Old ELSE ring[i]
    BY <1>1 DEF Consumed
<1>3. Old \in Byte
    BY DEF Old, Byte
<1>4. rptr' = (IF rptr + n >= PIPE_SIZE THEN 0 ELSE rptr + n) /\ rptr' \in 0 .. PIPE_SIZE - 1
    BY <1>1 DEF Wrap
<1>5. ASSUME NEW k \in 0 .. PIPE_SIZE - 1
      PROVE  Place(rptr', k) = IF k + n < PIPE_SIZE THEN Place(rptr, k + n) ELSE rptr + (k + n - PIPE_SIZE)
    BY <1>1, <1>4 DEF Place
<1>6. ASSUME NEW k \in 0 .. PIPE_SIZE - 1
      PROVE  Cell(k)' = IF k + n < PIPE_SIZE THEN Cell(k + n) ELSE Old
    <2>1. Cell(k)' = ring'[Place(rptr', k)]
        BY DEF Cell, Place
    <2>2. CASE k + n < PIPE_SIZE
        <3>1. /\ Place(rptr, k + n) \in 0 .. PIPE_SIZE - 1
              /\ ~(rptr <= Place(rptr, k + n) /\ Place(rptr, k + n) < rptr + n)
            BY <1>1, <2>2 DEF Place
        <3> QED BY <1>2, <1>5, <2>1, <2>2, <3>1 DEF Cell
    <2>3. CASE ~(k + n < PIPE_SIZE)
        <3>1. /\ rptr + (k + n - PIPE_SIZE) \in 0 .. PIPE_SIZE - 1
              /\ rptr <= rptr + (k + n - PIPE_SIZE) /\ rptr + (k + n - PIPE_SIZE) < rptr + n
            BY <1>1, <2>3
        <3> QED BY <1>2, <1>5, <2>1, <2>3, <3>1
    <2> QED BY <2>2, <2>3
<1>7. wptr' = Place(rptr', size')
    BY <1>1, <1>4 DEF RingOK, Place
<1>8. \A k \in 0 .. PIPE_SIZE - 1 : k >= size' => Cell(k)' = Old
    BY <1>1, <1>6 DEF RingOK
<1>9. RingOK'
    BY <1>7, <1>8 DEF RingOK, Place, Old
<1>10. \A i \in 0 .. PIPE_SIZE - 1 : ring'[i] \in Byte
    BY <1>1, <1>2, <1>3
<1> QED BY <1>1, <1>2, <1>4, <1>6, <1>9, <1>10

\* B(j) is what comes to the j-th place behind the end.
LEMMA PutBytes ==
    ASSUME TypeOK, RingOK, NEW n \in Nat, n > 0, n <= PIPE_SIZE - size, n <= PIPE_SIZE - wptr,
           NEW B, \A j \in 0 .. n - 1 : B[j] \in Byte,
           size' = size + n, wptr' = Wrap(wptr + n), rptr' = rptr,
           DOMAIN ring' = 0 .. PIPE_SIZE - 1,
           \A i \in 0 .. PIPE_SIZE - 1 :
              ring'[i] = IF wptr <= i /\ i < wptr + n THEN B[i - wptr] ELSE ring[i]
    PROVE  /\ RingOK' /\ size' \in 0 .. PIPE_SIZE /\ wptr' \in 0 .. PIPE_SIZE - 1
           /\ \A i \in DOMAIN ring' : ring'[i] \in Byte
           /\ \A k \in 0 .. PIPE_SIZE - 1 :
                 Cell(k)' = IF size <= k /\ k < size + n THEN B[k - size] ELSE Cell(k)
<1>1. /\ size \in 0 .. PIPE_SIZE /\ rptr \in 0 .. PIPE_SIZE - 1 /\ PIPE_SIZE \in Nat
      /\ DOMAIN ring = 0 .. PIPE_SIZE - 1 /\ \A i \in DOMAIN ring : ring[i] \in Byte
      /\ wptr \in 0 .. PIPE_SIZE - 1 /\ wptr = Place(rptr, size)
    BY Constants DEF TypeOK, RingOK
<1>2. wptr' \in 0 .. PIPE_SIZE - 1 /\ wptr' = Place(rptr, size + n)
    <2>1. wptr' = IF wptr + n >= PIPE_SIZE THEN 0 ELSE wptr + n
        BY DEF Wrap
    <2>2. wptr = IF rptr + size < PIPE_SIZE THEN rptr + size ELSE rptr + size - PIPE_SIZE
        BY <1>1 DEF Place
    <2>3. Place(rptr, size + n)
             = IF rptr + (size + n) < PIPE_SIZE THEN rptr + (size + n) ELSE rptr + (size + n) - PIPE_SIZE
        BY DEF Place
    <2>4. size + n <= PIPE_SIZE
        BY <1>1
    <2> QED BY <1>1, <2>1, <2>2, <2>3, <2>4
<1>3. ASSUME NEW k \in 0 .. PIPE_SIZE - 1
      PROVE  Cell(k)' = IF size <= k /\ k < size + n THEN B[k - size] ELSE Cell(k)
    <2>0. Cell(k)' = ring'[Place(rptr', k)]
        BY DEF Cell, Place
    <2>1. Cell(k)' = ring'[Place(rptr, k)] /\ Place(rptr, k) \in 0 .. PIPE_SIZE - 1
        <3>1. Place(rptr, k) \in 0 .. PIPE_SIZE - 1
            BY <1>1 DEF Place
        <3> QED BY <2>0, <3>1
    <2>2. CASE size <= k /\ k < size + n
        <3>1. Place(rptr, k) = wptr + (k - size)
            BY <1>1, <2>2 DEF Place
        <3>2. wptr <= Place(rptr, k) /\ Place(rptr, k) < wptr + n /\ Place(rptr, k) - wptr = k - size
            BY <1>1, <2>2, <3>1
        <3> QED BY <2>1, <2>2, <3>2
    <2>3. CASE ~(size <= k /\ k < size + n)
        <3>1. ~(wptr <= Place(rptr, k) /\ Place(rptr, k) < wptr + n)
            BY <1>1, <2>3 DEF Place
        <3> QED BY <2>1, <2>3, <3>1 DEF Cell
    <2> QED BY <2>2, <2>3
<1>4. \A k \in 0 .. PIPE_SIZE - 1 : k >= size' => Cell(k)' = Old
    BY <1>1, <1>3 DEF RingOK
<1>5. RingOK'
    BY <1>2, <1>4 DEF RingOK, Place, Old
<1>6. \A i \in 0 .. PIPE_SIZE - 1 : ring'[i] \in Byte
    <2> SUFFICES ASSUME NEW i \in 0 .. PIPE_SIZE - 1 PROVE ring'[i] \in Byte
        OBVIOUS
    <2>1. CASE wptr <= i /\ i < wptr + n
        <3>1. i - wptr \in 0 .. n - 1
            BY <1>1, <2>1
        <3> QED BY <2>1, <3>1
    <2>2. CASE ~(wptr <= i /\ i < wptr + n)
        BY <1>1, <2>2
    <2> QED BY <2>1, <2>2
<1> QED BY <1>1, <1>2, <1>3, <1>5, <1>6

-----------------------------------------------------------------------------
(* A copy out of the pipe. *)

LEMMA ReadTakes ==
    ASSUME PipeInv, NEW p \in Proc, NEW S, NEW n \in Nat, pc[p] = "copyout",
           n > 0, n <= size, n <= PIPE_SIZE - rptr,
           size' = size - n, rptr' = Wrap(rptr + n), ring' = Consumed(n),
           UNCHANGED <<fd, rref, wref, wptr, bp, wbwait, met>>, rbwait' \in BOOLEAN,
           Frame(p, S), pc' \in [Proc -> Pcs], chan' \in [Proc -> Chan \cup {"none"}], DomOK',
           \/ lock' = None /\ pc'[p] = "user" /\ Sleepers("rb") \subseteq S
           \/ lock' = p /\ pc'[p] = "copyout" /\ rbwait' = rbwait,
           CallOK(p)'
    PROVE  PipeInv'
<1>1. /\ TypeOK /\ LockOK /\ RingOK /\ Pieces /\ TailOK /\ (\A q \in Proc : IoOK(q))
      /\ \A q \in Proc : CallOK(q)
    BY DEF PipeInv
<1>2. /\ RingOK' /\ size' \in 0 .. PIPE_SIZE /\ rptr' \in 0 .. PIPE_SIZE - 1
      /\ DOMAIN ring' = 0 .. PIPE_SIZE - 1 /\ \A i \in DOMAIN ring' : ring'[i] \in Byte
      /\ \A k \in 0 .. PIPE_SIZE - 1 : k < size' => Cell(k)' = Cell(k + n)
    BY <1>1, TakeBytes
<1>3. lock = p /\ Alone(p) /\ ~Moving("copyin")
    BY <1>1 DEF LockOK, Alone, Moving
<1>4. \A q \in Proc : pc[q] # "copyin" /\ pc'[q] # "copyin"
    BY <1>1, <1>3 DEF LockOK, Frame
<1>5. size \in 0 .. PIPE_SIZE /\ PIPE_SIZE \in Nat
    BY <1>1, Constants DEF TypeOK
<1>6. TypeOK'
    <2>1. lock' \in Proc \cup {None}
        BY DEF TypeOK
    <2>2. {bp', rbwait', wbwait'} \subseteq BOOLEAN /\ met' \subseteq Proc
        BY <1>1 DEF TypeOK
    <2> QED BY <1>1, <1>2, <2>1, <2>2 DEF TypeOK, Pcs
<1>7. RefCounts' /\ BufferKept'
    <2>1. size' > 0 => bp'
        BY <1>5 DEF PipeInv, BufferKept
    <2> QED BY <2>1, FrameRefs DEF PipeInv
<1>8. Pieces'
    <2>1. ASSUME NEW k \in 0 .. PIPE_SIZE - 1, k + 1 < size'
          PROVE  Follows(Cell(k)', Cell(k + 1)')
        <3>1. Cell(k)' = Cell(k + n) /\ Cell(k + 1)' = Cell((k + n) + 1)
            BY <1>2, <1>5, <2>1
        <3>2. k + n \in 0 .. PIPE_SIZE - 1 /\ (k + n) + 1 < size
            BY <1>5, <2>1
        <3>3. Follows(Cell(k + n), Cell((k + n) + 1))
            BY <1>1, <3>2 DEF Pieces
        <3> QED BY <3>1, <3>3
    <2> QED BY <2>1 DEF Pieces, Follows, Old
<1>9. TailOK'
    <2>1. ASSUME size' > 0 PROVE Cell(size - 1)' = Cell(size - 1)
        <3>1. size' - 1 \in 0 .. PIPE_SIZE - 1 /\ size' - 1 < size' /\ (size' - 1) + n = size - 1
            BY <1>2, <1>5, <2>1
        <3>2. \A k \in 0 .. PIPE_SIZE - 1 : k < size' => ring'[Place(rptr', k)] = Cell(k + n)
            BY <1>2 DEF Cell, Place
        <3> QED BY <3>1, <3>2 DEF Cell, Place
    <2> QED BY <1>1, <1>4, <1>5, <2>1 DEF TailOK, Old
<1>10. \A q \in Proc : CallOK(q)'
    BY <1>1, <1>3, FrameCalls
<1>11. LockOK'
    BY <1>1, <1>3, FrameLock DEF LockPc
<1>12. \A q \in Proc : IoOK(q)'
    <2>1. IoOK(p)'
        BY DEF IoOK
    <2>2. Sleepers("wb") \subseteq S
        BY <1>1, <1>3, <1>5 DEF Sleepers, IoOK
    <2>3. lock' = p => Moving("copyout")'
        BY Constants DEF Moving
    <2>4. Sleepers("rb") \subseteq S \/ (Moving("copyout")' /\ rbwait' = rbwait)
        BY <2>3
    <2> QED BY <1>1, <2>1, <2>2, <2>4, FrameIo
<1> QED BY <1>6, <1>2, <1>7, <1>8, <1>9, <1>10, <1>11, <1>12 DEF PipeInv

LEMMA ReadChunkOK ==
    ASSUME PipeInv, NEW p \in Proc, pc[p] = "copyout"
    PROVE  /\ ReadChunk(p) \in Nat /\ ReadChunk(p) > 0 /\ ReadChunk(p) <= size
           /\ ReadChunk(p) <= PIPE_SIZE - rptr /\ ReadChunk(p) <= call[p].count
<1> DEFINE n == ReadChunk(p)
<1>1. /\ size \in 0 .. PIPE_SIZE /\ rptr \in 0 .. PIPE_SIZE - 1 /\ PIPE_SIZE \in Nat
      /\ size > 0 /\ call[p].count \in Nat /\ call[p].count > 0
    BY Constants DEF PipeInv, TypeOK, CallOK, ReadCall
<1>2. /\ n \in {call[p].count, size, PIPE_SIZE - rptr}
      /\ n <= call[p].count /\ n <= size /\ n <= PIPE_SIZE - rptr
    <2>1. call[p].count \in Int /\ size \in Int /\ PIPE_SIZE - rptr \in Int
        BY <1>1
    <2>2. n = Min({call[p].count, size, PIPE_SIZE - rptr})
        BY DEF ReadChunk
    <2> HIDE DEF n
    <2> QED BY <2>1, <2>2, MinOfThree
<1> HIDE DEF n
<1>3. n \in Nat /\ n > 0 /\ n <= size /\ n <= PIPE_SIZE - rptr /\ n <= call[p].count
    BY <1>1, <1>2
<1> QED BY <1>3 DEF n

LEMMA ReadMovesStep ==
    ASSUME PipeInv, NEW p \in Proc, ReadMoves(p) \/ ReadFaults(p)
    PROVE  PipeInv'
<1> DEFINE n == ReadChunk(p)
<1>1. TypeOK /\ DomOK /\ CallOK(p) /\ pc[p] = "copyout"
    BY DEF PipeInv, ReadMoves, ReadFaults
<1>2. /\ size \in 0 .. PIPE_SIZE /\ rptr \in 0 .. PIPE_SIZE - 1 /\ PIPE_SIZE \in Nat
      /\ ReadCall(call[p]) /\ size > 0 /\ "r" \in fd[p] /\ call[p].count \in Nat /\ call[p].count > 0
    BY <1>1, Constants DEF TypeOK, CallOK, ReadCall
<1>3. n \in Nat /\ n > 0 /\ n <= size /\ n <= PIPE_SIZE - rptr /\ n <= call[p].count
    BY <1>1, ReadChunkOK
<1>4. /\ size' = size - n /\ rptr' = Wrap(rptr + n) /\ ring' = Consumed(n)
      /\ UNCHANGED <<fd, rref, wref, wptr, bp, wbwait, met>>
      /\ \A q \in Proc : q # p => fd'[q] = fd[q]
    BY DEF ReadMoves, ReadFaults, refs
<1>5. \/ ReadDone(p)
      \/ /\ call[p].count # n /\ size # n /\ call' = [call EXCEPT ![p].count = @ - n]
         /\ UNCHANGED <<rbwait, rpq, pc, chan, lock>>
    BY DEF ReadMoves, ReadFaults
<1> HIDE DEF n
<1>6. CASE ReadDone(p)
    <2>1. Leave(p, Awake(RbWakes)) /\ lock' = None /\ rbwait' = FALSE
        BY <1>6 DEF ReadDone
    <2>2. /\ Frame(p, RbWakes) /\ pc'[p] = "user" /\ pc' \in [Proc -> Pcs]
          /\ chan' \in [Proc -> Chan \cup {"none"}] /\ DomOK'
        BY <1>1, <1>4, <2>1, WakesAsleep, LeaveFrame
    <2>3. Sleepers("rb") \subseteq RbWakes
        <3>1. Sleepers("rb") # {} => rbwait
            BY DEF PipeInv, Sleepers, IoOK
        <3> QED BY <3>1, WakesAsleep
    <2>4. CallOK(p)'
        BY <2>2 DEF CallOK
    <2>5. rbwait' \in BOOLEAN
        BY <2>1
    <2> QED BY <1>1, <1>3, <1>4, <2>1, <2>2, <2>3, <2>4, <2>5, ReadTakes
<1>7. CASE /\ call[p].count # n /\ size # n /\ call' = [call EXCEPT ![p].count = @ - n]
           /\ UNCHANGED <<rbwait, rpq, pc, chan, lock>>
    <2> DEFINE x == [op |-> "read", count |-> call[p].count - n, nd |-> call[p].nd]
    <2>1. [call[p] EXCEPT !.count = @ - n] = x
        BY <1>2 DEF ReadCall
    <2>2. call' = [call EXCEPT ![p] = x]
        BY <1>7, <2>1
    <2>3. ReadCall(x)
        BY <1>2, <1>3, <1>7 DEF ReadCall
    <2> HIDE DEF x
    <2>4. call'[p] = x /\ DomOK' /\ \A q \in Proc : q # p => call'[q] = call[q]
        BY <1>1, <2>2 DEF DomOK
    <2>5. Frame(p, {})
        BY <1>4, <1>7, <2>4 DEF Frame
    <2>6. pc' \in [Proc -> Pcs] /\ chan' \in [Proc -> Chan \cup {"none"}] /\ rbwait' \in BOOLEAN
        BY <1>1, <1>7 DEF TypeOK, Pcs
    <2>7. CallOK(p)'
        BY <1>1, <1>2, <1>3, <1>4, <1>7, <2>3, <2>4 DEF CallOK
    <2>8. lock' = p /\ pc'[p] = "copyout" /\ rbwait' = rbwait
        BY <1>1, <1>7 DEF PipeInv, LockOK
    <2> QED BY <1>1, <1>3, <1>4, <2>4, <2>5, <2>6, <2>7, <2>8, ReadTakes
<1> QED BY <1>5, <1>6, <1>7

-----------------------------------------------------------------------------
(* A copy into the pipe. *)

\* The j-th byte that p copies next.
NewByte(p, j) == [by |-> p, of |-> call[p].of, at |-> Done(p) + j + 1]

LEMMA NextByte ==
    ASSUME NEW b, NEW o \in Nat, NEW t \in Int
    PROVE  Follows([by |-> b, of |-> o, at |-> t], [by |-> b, of |-> o, at |-> t + 1])
<1> DEFINE x == [by |-> b, of |-> o, at |-> t]
           y == [by |-> b, of |-> o, at |-> t + 1]
<1>1. [x EXCEPT !.at = @ + 1] = y
    OBVIOUS
<1>2. [y EXCEPT !.at = @ - 1] = x
    OBVIOUS
<1> HIDE DEF x, y
<1>3. Follows(x, y)
    BY <1>1, <1>2, Zenon DEF Follows
<1> QED BY <1>3 DEF x, y

LEMMA NewBytes ==
    ASSUME NEW p \in Proc, WriteCall(call[p])
    PROVE  /\ Done(p) \in Nat /\ call[p].of \in Nat
           /\ Follows(Copied(p), NewByte(p, 0))
           /\ \A j \in Nat : NewByte(p, j) \in Byte /\ Follows(NewByte(p, j), NewByte(p, j + 1))
<1>1. Done(p) \in Nat /\ call[p].of \in Nat
    BY DEF WriteCall, Done
<1>2. Follows(Copied(p), NewByte(p, 0))
    <2>1. Done(p) + 0 + 1 = Done(p) + 1
        BY <1>1
    <2>2. NewByte(p, 0) = [by |-> p, of |-> call[p].of, at |-> Done(p) + 1]
        BY <2>1 DEF NewByte
    <2> QED BY <1>1, <2>2, NextByte DEF Copied
<1>3. ASSUME NEW j \in Nat PROVE NewByte(p, j) \in Byte
    <2>1. Done(p) + j + 1 \in Nat
        BY <1>1
    <2> QED BY <1>1, <2>1 DEF NewByte, Byte
<1>4. ASSUME NEW j \in Nat PROVE Follows(NewByte(p, j), NewByte(p, j + 1))
    <2>1. Done(p) + j + 1 \in Int /\ Done(p) + (j + 1) + 1 = (Done(p) + j + 1) + 1
        BY <1>1
    <2>2. NewByte(p, j + 1) = [by |-> p, of |-> call[p].of, at |-> (Done(p) + j + 1) + 1]
        BY <2>1 DEF NewByte
    <2> QED BY <1>1, <2>1, <2>2, NextByte DEF NewByte
<1> QED BY <1>1, <1>2, <1>3, <1>4

LEMMA WritePuts ==
    ASSUME PipeInv, NEW p \in Proc, NEW S, NEW n \in Nat, NEW B, pc[p] = "copyin",
           n > 0, n <= call[p].count, n <= PIPE_SIZE - wptr,
           size' = size + n, wptr' = Wrap(wptr + n), DOMAIN ring' = 0 .. PIPE_SIZE - 1,
           \A i \in 0 .. PIPE_SIZE - 1 :
              ring'[i] = IF wptr <= i /\ i < wptr + n THEN B[i - wptr] ELSE ring[i],
           UNCHANGED <<fd, rref, wref, rptr, bp, rbwait, met>>, wbwait' \in BOOLEAN,
           Frame(p, S), pc' \in [Proc -> Pcs], chan' \in [Proc -> Chan \cup {"none"}], DomOK',
           \/ \A j \in 0 .. n - 1 : B[j] = NewByte(p, j)
           \/ (\A j \in 0 .. n - 1 : B[j] = Old) /\ pc'[p] = "user",
           \/ /\ lock' = p /\ pc'[p] = "copyin" /\ wbwait' = wbwait
              /\ call'[p].of = call[p].of /\ call'[p].usave = call[p].usave
              /\ call'[p].count = call[p].count - n
           \/ /\ lock' = p /\ pc'[p] = "floop" /\ Sleepers("wb") \subseteq S
              /\ call[p].usave > 0
           \/ /\ lock' = None /\ pc'[p] = "user" /\ Sleepers("wb") \subseteq S
              /\ (\A j \in 0 .. n - 1 : B[j] = Old) \/ (call[p].count = n /\ call[p].usave = 0),
           CallOK(p)'
    PROVE  PipeInv'
<1>1. /\ TypeOK /\ LockOK /\ RingOK /\ Pieces /\ TailOK /\ (\A q \in Proc : IoOK(q))
      /\ \A q \in Proc : CallOK(q)
    BY DEF PipeInv
<1>2. /\ WriteCall(call[p]) /\ bp /\ "w" \in fd[p]
      /\ call[p].count > 0 /\ call[p].count + size <= PIPE_SIZE
      /\ call[p].usave > 0 => call[p].of > PIPE_SIZE
    BY <1>1 DEF CallOK
<1>3. /\ size \in 0 .. PIPE_SIZE /\ PIPE_SIZE \in Nat
      /\ call[p].count \in Nat /\ call[p].usave \in Nat /\ call[p].of \in Nat
      /\ call[p].count + call[p].usave <= call[p].of
    BY <1>1, <1>2, Constants DEF TypeOK, WriteCall
<1>4. \A j \in 0 .. n - 1 : B[j] \in Byte
    <2>1. Old \in Byte
        BY DEF Old, Byte
    <2>2. \A j \in 0 .. n - 1 : NewByte(p, j) \in Byte
        BY <1>2, NewBytes
    <2> QED BY <2>1, <2>2
<1>5. /\ RingOK' /\ size' \in 0 .. PIPE_SIZE /\ wptr' \in 0 .. PIPE_SIZE - 1
      /\ \A i \in DOMAIN ring' : ring'[i] \in Byte
      /\ \A k \in 0 .. PIPE_SIZE - 1 :
            Cell(k)' = IF size <= k /\ k < size + n THEN B[k - size] ELSE Cell(k)
    <2>1. n <= PIPE_SIZE - size
        BY <1>2, <1>3
    <2> QED BY <1>1, <1>4, <2>1, PutBytes
<1>6. lock = p /\ Alone(p) /\ ~Moving("copyout")
    BY <1>1 DEF LockOK, Alone, Moving
<1>7. \A q \in Proc : q # p => pc[q] # "copyin" /\ pc'[q] # "copyin"
    BY <1>1, <1>6 DEF LockOK, Frame
<1>8. TypeOK'
    <2>1. lock' \in Proc \cup {None}
        BY DEF TypeOK
    <2>2. {bp', rbwait', wbwait'} \subseteq BOOLEAN /\ met' \subseteq Proc
        BY <1>1 DEF TypeOK
    <2> QED BY <1>1, <1>5, <2>1, <2>2 DEF TypeOK, Pcs
<1>9. RefCounts' /\ BufferKept'
    <2>1. (size' > 0 => bp') /\ (bp' => bp)
        BY <1>2
    <2> QED BY <2>1, FrameRefs DEF PipeInv
<1>10. Pieces'
    <2>1. ASSUME NEW k \in 0 .. PIPE_SIZE - 1, k + 1 < size'
          PROVE  Follows(Cell(k)', Cell(k + 1)')
        <3>1. k + 1 \in 0 .. PIPE_SIZE - 1
            BY <1>5, <1>3, <2>1
        <3>2. CASE k + 1 < size
            <4>1. Cell(k)' = Cell(k) /\ Cell(k + 1)' = Cell(k + 1)
                BY <1>3, <1>5, <3>1, <3>2
            <4> QED BY <1>1, <3>2, <4>1 DEF Pieces
        <3>3. CASE k + 1 = size
            <4>1. Cell(k)' = Cell(size - 1) /\ Cell(k + 1)' = B[0] /\ size > 0
                <5>1. k = size - 1 /\ (k + 1) - size = 0 /\ size > 0
                    BY <1>3, <2>1, <3>3
                <5>2. Cell(k)' = Cell(k)
                    BY <1>3, <1>5, <5>1
                <5>3. Cell(k + 1)' = B[(k + 1) - size]
                    BY <1>3, <1>5, <3>1, <3>3
                <5> QED BY <5>1, <5>2, <5>3
            <4>2. CASE B[0] = Old
                BY <4>1, <4>2 DEF Follows
            <4>3. CASE B[0] = NewByte(p, 0)
                <5> DEFINE a == Cell(size - 1)
                <5>1. a # Old /\ a.of <= PIPE_SIZE /\ a.at < a.of => a = Copied(p)
                    BY <1>1, <1>7, <4>1 DEF TailOK
                <5>2. a = Copied(p) => Follows(a, NewByte(p, 0))
                    BY <1>2, NewBytes
                <5>3. ASSUME NewByte(p, 0).of <= PIPE_SIZE, NewByte(p, 0).at > 1
                      PROVE  a = Copied(p)
                    <6>1. call[p].of <= PIPE_SIZE /\ call[p].count < call[p].of
                        <7>1. Done(p) \in Nat
                            BY <1>2, NewBytes
                        <7>2. call[p].of <= PIPE_SIZE /\ Done(p) + 0 + 1 > 1
                            BY <5>3 DEF NewByte
                        <7>3. call[p].usave = 0
                            BY <1>2, <1>3, <7>2
                        <7> QED BY <1>3, <7>1, <7>2, <7>3 DEF Done
                    <6> QED BY <1>1, <6>1 DEF TailOK
                <5> HIDE DEF a
                <5>4. Follows(a, NewByte(p, 0))
                    BY <5>1, <5>2, <5>3 DEF Follows
                <5> QED BY <4>1, <4>3, <5>4 DEF a
            <4>4. 0 \in 0 .. n - 1
                OBVIOUS
            <4> QED BY <4>2, <4>3, <4>4
        <3>4. CASE k >= size
            <4>1. /\ Cell(k)' = B[k - size] /\ Cell(k + 1)' = B[(k - size) + 1]
                  /\ k - size \in 0 .. n - 1 /\ (k - size) + 1 \in 0 .. n - 1
                BY <1>3, <1>5, <2>1, <3>1, <3>4
            <4>2. CASE \A j \in 0 .. n - 1 : B[j] = Old
                BY <4>1, <4>2 DEF Follows
            <4>3. CASE \A j \in 0 .. n - 1 : B[j] = NewByte(p, j)
                <5>1. k - size \in Nat
                    BY <4>1
                <5>2. Follows(NewByte(p, k - size), NewByte(p, (k - size) + 1))
                    BY <1>2, <5>1, NewBytes
                <5> QED BY <4>1, <4>3, <5>2
            <4> QED BY <4>2, <4>3
        <3> QED BY <1>3, <3>2, <3>3, <3>4
    <2> QED BY <2>1 DEF Pieces, Follows, Old
<1>11. TailOK'
    <2>1. Cell(size - 1)' = B[n - 1] /\ n - 1 \in 0 .. n - 1 /\ size' > 0
        <3>1. (size + n) - 1 \in 0 .. PIPE_SIZE - 1 /\ ((size + n) - 1) - size = n - 1
            BY <1>3, <1>5
        <3>2. \A k \in 0 .. PIPE_SIZE - 1 : size <= k /\ k < size + n =>
                 ring'[Place(rptr', k)] = B[k - size]
            BY <1>5 DEF Cell, Place
        <3> QED BY <1>3, <3>1, <3>2 DEF Cell, Place
    <2>2. CASE B[n - 1] = Old /\ pc'[p] = "user"
        BY <1>7, <2>1, <2>2 DEF TailOK, Old
    <2>3. CASE B[n - 1] = NewByte(p, n - 1)
        <3>1. CASE pc'[p] = "copyin"
            <4>1. B[n - 1] = Copied(p)'
                <5>1. /\ call'[p].of = call[p].of /\ call'[p].usave = call[p].usave
                      /\ call'[p].count = call[p].count - n
                    BY <3>1
                <5>2. Done(p)' = Done(p) + (n - 1) + 1
                    BY <1>3, <5>1 DEF Done
                <5>3. Copied(p)' = [by |-> p, of |-> call'[p].of, at |-> Done(p)']
                    BY DEF Copied
                <5> QED BY <2>3, <5>1, <5>2, <5>3 DEF NewByte
            <4> QED BY <1>7, <2>1, <3>1, <4>1 DEF TailOK, Old
        <3>2. CASE pc'[p] # "copyin"
            <4>1. ~(NewByte(p, n - 1).of <= PIPE_SIZE /\ NewByte(p, n - 1).at < NewByte(p, n - 1).of)
                  \/ B[n - 1] = Old
                <5>1. /\ NewByte(p, n - 1).of = call[p].of
                      /\ NewByte(p, n - 1).at = Done(p) + (n - 1) + 1
                    BY DEF NewByte
                <5>2. CASE call[p].usave > 0
                    BY <1>2, <1>3, <5>1, <5>2
                <5>3. CASE call[p].count = n /\ call[p].usave = 0
                    BY <1>3, <5>1, <5>3 DEF Done
                <5>4. CASE \A j \in 0 .. n - 1 : B[j] = Old
                    BY <2>1, <5>4
                <5> QED BY <3>2, <5>2, <5>3, <5>4
            <4> QED BY <1>7, <2>1, <2>3, <3>2, <4>1 DEF TailOK, Old
        <3> QED BY <3>1, <3>2
    <2> QED BY <2>1, <2>2, <2>3
<1>12. \A q \in Proc : CallOK(q)'
    BY <1>1, <1>6, FrameCalls
<1>13. LockOK'
    BY <1>1, <1>6, FrameLock DEF LockPc
<1>14. \A q \in Proc : IoOK(q)'
    <2>1. IoOK(p)'
        BY DEF IoOK
    <2>2. lock' = p /\ pc'[p] = "copyin" => Moving("copyin")'
        BY Constants DEF Moving
    <2>3. Sleepers("wb") \subseteq S \/ (Moving("copyin")' /\ wbwait' = wbwait)
        BY <2>2
    <2>4. size' >= size
        BY <1>3
    <2> QED BY <1>1, <1>5, <1>6, <2>1, <2>3, <2>4, FrameIo
<1> QED BY <1>5, <1>8, <1>9, <1>10, <1>11, <1>12, <1>13, <1>14 DEF PipeInv

LEMMA WriteChunkOK ==
    ASSUME PipeInv, NEW p \in Proc, pc[p] = "copyin"
    PROVE  /\ WriteChunk(p) \in Nat /\ WriteChunk(p) > 0
           /\ WriteChunk(p) <= PIPE_SIZE - wptr /\ WriteChunk(p) <= call[p].count
<1> DEFINE n == WriteChunk(p)
<1>1. /\ wptr \in 0 .. PIPE_SIZE - 1 /\ PIPE_SIZE \in Nat
      /\ call[p].count \in Nat /\ call[p].count > 0
    BY Constants DEF PipeInv, TypeOK, CallOK, WriteCall
<1>2. n = IF call[p].count <= PIPE_SIZE - wptr THEN call[p].count ELSE PIPE_SIZE - wptr
    BY <1>1, MinOfTwo DEF WriteChunk
<1> HIDE DEF n
<1>3. n \in Nat /\ n > 0 /\ n <= PIPE_SIZE - wptr /\ n <= call[p].count
    BY <1>1, <1>2
<1> QED BY <1>3 DEF n

LEMMA WriteMovesStep ==
    ASSUME PipeInv, NEW p \in Proc, WriteMoves(p) \/ WriteFaults(p)
    PROVE  PipeInv'
<1> DEFINE n == WriteChunk(p)
           c == call[p]
<1>1. TypeOK /\ DomOK /\ CallOK(p) /\ pc[p] = "copyin" /\ RingOK
    BY DEF PipeInv, WriteMoves, WriteFaults
<1>2. /\ size \in 0 .. PIPE_SIZE /\ rptr \in 0 .. PIPE_SIZE - 1 /\ PIPE_SIZE \in Nat
      /\ wptr \in 0 .. PIPE_SIZE - 1 /\ DOMAIN ring = 0 .. PIPE_SIZE - 1
      /\ WriteCall(c) /\ "w" \in fd[p] /\ bp /\ c.count \in Nat /\ c.count > 0
      /\ c.count + size <= PIPE_SIZE /\ c.usave \in Nat /\ c.of \in Nat
      /\ c.usave > 0 => c.of > PIPE_SIZE
    BY <1>1, Constants DEF TypeOK, CallOK, WriteCall
<1>3. n \in Nat /\ n > 0 /\ n <= PIPE_SIZE - wptr /\ n <= c.count
    BY <1>1, WriteChunkOK
<1>4. /\ size' = size + n /\ wptr' = Wrap(wptr + n)
      /\ UNCHANGED <<fd, rref, wref, rptr, bp, rbwait, met>>
      /\ \A q \in Proc : q # p => fd'[q] = fd[q]
    BY DEF WriteMoves, WriteFaults, refs
<1>5. Sleepers("wb") \subseteq WriteWakes /\ WriteWakes \subseteq Asleep
    <2>1. Sleepers("wb") # {} => wbwait
        BY DEF PipeInv, Sleepers, IoOK
    <2> QED BY <2>1, WakesAsleep DEF WriteWakes
<1>6. lock = p
    BY <1>1 DEF PipeInv, LockOK
<1> HIDE DEF n
<1>7. CASE WriteFaults(p)
    <2> DEFINE B == [j \in 0 .. n - 1 |-> Old]
    <2>1. ring' = ring /\ wbwait' = FALSE /\ lock' = None /\ Leave(p, Awake(WriteWakes))
        BY <1>7 DEF WriteFaults
    <2>2. /\ Frame(p, WriteWakes) /\ pc'[p] = "user" /\ pc' \in [Proc -> Pcs]
          /\ chan' \in [Proc -> Chan \cup {"none"}] /\ DomOK'
        BY <1>1, <1>4, <1>5, <2>1, LeaveFrame
    <2>3. CallOK(p)'
        BY <2>2 DEF CallOK
    <2>4. ASSUME NEW i \in 0 .. PIPE_SIZE - 1, wptr <= i, i < wptr + n PROVE ring[i] = Old
        <3>1. wptr = Place(rptr, size)
            BY <1>1 DEF RingOK
        <3>2. /\ size + (i - wptr) \in 0 .. PIPE_SIZE - 1 /\ size + (i - wptr) >= size
              /\ Place(rptr, size + (i - wptr)) = i
            BY <1>2, <1>3, <2>4, <3>1 DEF Place
        <3>3. Cell(size + (i - wptr)) = Old
            BY <1>1, <3>2 DEF RingOK
        <3> QED BY <3>2, <3>3 DEF Cell
    <2>5. ASSUME NEW i \in 0 .. PIPE_SIZE - 1
          PROVE  ring'[i] = IF wptr <= i /\ i < wptr + n THEN B[i - wptr] ELSE ring[i]
        <3>1. CASE wptr <= i /\ i < wptr + n
            <4>1. i - wptr \in 0 .. n - 1
                BY <1>2, <1>3, <3>1
            <4> QED BY <2>1, <2>4, <3>1, <4>1
        <3>2. CASE ~(wptr <= i /\ i < wptr + n)
            BY <2>1, <3>2
        <3> QED BY <3>1, <3>2
    <2>6. \A j \in 0 .. n - 1 : B[j] = Old
        OBVIOUS
    <2> HIDE DEF B
    <2>7. DOMAIN ring' = 0 .. PIPE_SIZE - 1 /\ wbwait' \in BOOLEAN
        BY <1>2, <2>1
    <2> QED BY <1>1, <1>3, <1>4, <1>5, <2>1, <2>2, <2>3, <2>5, <2>6, <2>7, WritePuts
<1>8. CASE WriteMoves(p)
    <2> DEFINE B == [j \in 0 .. n - 1 |-> NewByte(p, j)]
    <2>1. ring' = Produced(p, n)
        BY <1>8 DEF WriteMoves, n
    <2>2. DOMAIN ring' = 0 .. PIPE_SIZE - 1
        BY <1>2, <2>1 DEF Produced
    <2>3. ASSUME NEW i \in 0 .. PIPE_SIZE - 1
          PROVE  ring'[i] = IF wptr <= i /\ i < wptr + n THEN B[i - wptr] ELSE ring[i]
        <3>1. CASE wptr <= i /\ i < wptr + n
            <4>1. i - wptr \in 0 .. n - 1 /\ i \in wptr .. wptr + n - 1
                BY <1>2, <1>3, <3>1
            <4>2. ring'[i] = [by |-> p, of |-> c.of, at |-> c.of - c.usave - c.count + i - wptr + 1]
                BY <1>2, <2>1, <4>1 DEF Produced
            <4>3. c.of - c.usave - c.count + i - wptr + 1 = Done(p) + (i - wptr) + 1
                BY <1>2 DEF Done
            <4>4. B[i - wptr] = NewByte(p, i - wptr)
                BY <4>1
            <4> QED BY <3>1, <4>2, <4>3, <4>4 DEF NewByte
        <3>2. CASE ~(wptr <= i /\ i < wptr + n)
            <4>1. i \notin wptr .. wptr + n - 1
                BY <1>2, <1>3, <3>2
            <4> QED BY <1>2, <2>1, <3>2, <4>1 DEF Produced
        <3> QED BY <3>1, <3>2
    <2>4. \A j \in 0 .. n - 1 : B[j] = NewByte(p, j)
        OBVIOUS
    <2> HIDE DEF B
    <2>5. CASE c.count > n
        <3> DEFINE x == [op |-> "write", count |-> c.count - n, usave |-> c.usave,
                         nd |-> c.nd, of |-> c.of]
        <3>1. call' = [call EXCEPT ![p].count = @ - n] /\ UNCHANGED <<wbwait, pc, chan, lock>>
            BY <1>2, <1>3, <1>8, <2>5 DEF WriteMoves, n
        <3>2. [c EXCEPT !.count = @ - n] = x
            BY <1>2 DEF WriteCall
        <3>3. call' = [call EXCEPT ![p] = x]
            BY <3>1, <3>2
        <3>4. /\ WriteCall(x) /\ x.count = c.count - n /\ x.usave = c.usave /\ x.of = c.of
            BY <1>2, <1>3, <2>5 DEF WriteCall
        <3> HIDE DEF x
        <3>5. call'[p] = x /\ DomOK' /\ \A q \in Proc : q # p => call'[q] = call[q]
            BY <1>1, <3>3 DEF DomOK
        <3>6. Frame(p, {})
            BY <1>4, <3>1, <3>5 DEF Frame
        <3>7. pc' \in [Proc -> Pcs] /\ chan' \in [Proc -> Chan \cup {"none"}] /\ wbwait' \in BOOLEAN
            BY <1>1, <3>1 DEF TypeOK, Pcs
        <3>8. c.count - n > 0 /\ (c.count - n) + size' <= PIPE_SIZE
            BY <1>2, <1>3, <1>4, <2>5
        <3>9. pc'[p] = "copyin" /\ "w" \in fd'[p] /\ bp' /\ lock' = p /\ wbwait' = wbwait
            BY <1>1, <1>2, <1>4, <1>6, <3>1
        <3>10. CallOK(p)'
            BY <1>2, <3>4, <3>5, <3>8, <3>9 DEF CallOK
        <3> QED BY <1>1, <1>3, <1>4, <2>2, <2>3, <2>4, <3>4, <3>5, <3>6, <3>7, <3>9, <3>10, WritePuts
    <2>6. CASE c.count = n /\ c.usave > 0
        <3> DEFINE x == [op |-> "write", count |-> 0, usave |-> c.usave, nd |-> c.nd, of |-> c.of]
        <3>1. /\ call' = [call EXCEPT ![p].count = 0] /\ wbwait' = FALSE
              /\ pc' = [Awake(WriteWakes) EXCEPT ![p] = "floop"] /\ UNCHANGED <<chan, lock>>
            BY <1>2, <1>8, <2>6 DEF WriteMoves, n
        <3>2. [c EXCEPT !.count = 0] = x
            BY <1>2 DEF WriteCall
        <3>3. call' = [call EXCEPT ![p] = x]
            BY <3>1, <3>2
        <3>4. WriteCall(x) /\ x.usave = c.usave /\ x.of = c.of
            BY <1>2 DEF WriteCall
        <3> HIDE DEF x
        <3>5. call'[p] = x /\ DomOK' /\ \A q \in Proc : q # p => call'[q] = call[q]
            BY <1>1, <3>3 DEF DomOK
        <3>6. /\ pc'[p] = "floop" /\ pc' \in [Proc -> Pcs]
              /\ \A q \in Proc : q # p => pc'[q] = IF q \in WriteWakes THEN "woken" ELSE pc[q]
            <4>1. "floop" \in Pcs
                BY DEF Pcs
            <4> QED BY <1>1, <3>1, <4>1, AwakeType
        <3>7. Frame(p, WriteWakes)
            BY <1>4, <1>5, <3>1, <3>5, <3>6 DEF Frame
        <3>8. chan' \in [Proc -> Chan \cup {"none"}] /\ wbwait' \in BOOLEAN
            BY <1>1, <3>1 DEF TypeOK
        <3>9. CallOK(p)'
            BY <1>2, <1>4, <2>6, <3>4, <3>5, <3>6 DEF CallOK
        <3> QED BY <1>1, <1>3, <1>4, <1>5, <1>6, <2>2, <2>3, <2>4, <2>6, <3>1, <3>5, <3>6, <3>7, <3>8, <3>9,
                   WritePuts
    <2>7. CASE c.count = n /\ c.usave = 0
        <3>1. wbwait' = FALSE /\ lock' = None /\ Leave(p, Awake(WriteWakes))
            BY <1>2, <1>3, <1>8, <2>7 DEF WriteMoves, n
        <3>2. /\ Frame(p, WriteWakes) /\ pc'[p] = "user" /\ pc' \in [Proc -> Pcs]
              /\ chan' \in [Proc -> Chan \cup {"none"}] /\ DomOK'
            BY <1>1, <1>4, <1>5, <3>1, LeaveFrame
        <3>3. CallOK(p)' /\ wbwait' \in BOOLEAN
            BY <3>1, <3>2 DEF CallOK
        <3> QED BY <1>1, <1>3, <1>4, <1>5, <2>2, <2>3, <2>4, <2>7, <3>1, <3>2, <3>3, WritePuts
    <2> QED BY <1>2, <1>3, <2>5, <2>6, <2>7
<1> QED BY <1>7, <1>8

-----------------------------------------------------------------------------
(* close() *)

LEMMA CloseStep ==
    ASSUME PipeInv, NEW p \in Proc, pipe_closei(p)
    PROVE  PipeInv'
<1> DEFINE r == rref - (IF "r" \in fd[p] THEN 1 ELSE 0)
           w == wref - (IF "w" \in fd[p] THEN 1 ELSE 0)
           rlast == "r" \in fd[p] /\ r = 0
           wlast == "w" \in fd[p] /\ w = 0
           S == When(rlast, RbWakes) \cup When(wlast, WbWakes)
           R == {q \in Proc : "r" \in fd[q]}
           W == {q \in Proc : "w" \in fd[q]}
<1>1. /\ pc[p] \in {"closing", "user"} /\ lock = None /\ lock' = None
      /\ rref' = r /\ wref' = w /\ fd' = [fd EXCEPT ![p] = {}]
      /\ rbwait' = (rbwait /\ ~rlast) /\ wbwait' = (wbwait /\ ~wlast)
      /\ Leave(p, Awake(S)) /\ met' = met \ {p}
    BY DEF pipe_closei
<1>2. IF r = 0 /\ w = 0
      THEN /\ bp' = FALSE /\ rptr' = 0 /\ wptr' = 0 /\ size' = 0
           /\ ring' = [i \in 0 .. PIPE_SIZE - 1 |-> Old]
      ELSE UNCHANGED <<size, rptr, wptr, ring, bp>>
    BY DEF pipe_closei, LastClose, data
<1>3. TypeOK /\ DomOK /\ LockOK /\ (\A q \in Proc : IoOK(q)) /\ \A q \in Proc : CallOK(q)
    BY DEF PipeInv
<1>4. /\ fd'[p] = {} /\ \A q \in Proc : q # p => fd'[q] = fd[q]
      /\ fd' \in [Proc -> SUBSET {"r", "w"}]
    BY <1>1, <1>3 DEF TypeOK
<1>5. /\ rref = Cardinality(R) /\ wref = Cardinality(W) /\ IsFiniteSet(R) /\ IsFiniteSet(W)
      /\ rref \in Nat /\ wref \in Nat
    BY <1>3, Constants, FS_Subset DEF PipeInv, RefCounts, TypeOK
<1>6. /\ {q \in Proc : "r" \in fd'[q]} = R \ {p}
      /\ {q \in Proc : "w" \in fd'[q]} = W \ {p}
    BY <1>4
<1>7. r = Cardinality(R \ {p}) /\ IsFiniteSet(R \ {p}) /\ r \in Nat
    <2>1. /\ IsFiniteSet(R \ {p})
          /\ Cardinality(R \ {p}) = IF p \in R THEN Cardinality(R) - 1 ELSE Cardinality(R)
        BY <1>5, FS_RemoveElement
    <2>2. Cardinality(R \ {p}) \in Nat
        BY <2>1, FS_CardinalityType
    <2> QED BY <1>5, <2>1, <2>2
<1>8. w = Cardinality(W \ {p}) /\ IsFiniteSet(W \ {p}) /\ w \in Nat
    <2>1. /\ IsFiniteSet(W \ {p})
          /\ Cardinality(W \ {p}) = IF p \in W THEN Cardinality(W) - 1 ELSE Cardinality(W)
        BY <1>5, FS_RemoveElement
    <2>2. Cardinality(W \ {p}) \in Nat
        BY <2>1, FS_CardinalityType
    <2> QED BY <1>5, <2>1, <2>2
<1>9. r <= rref /\ w <= wref /\ ("r" \notin fd[p] => r = rref) /\ ("w" \notin fd[p] => w = wref)
    BY <1>5
<1>10. S \subseteq Asleep /\ (rlast => RbWakes \subseteq S) /\ (wlast => WbWakes \subseteq S)
    BY WakesAsleep DEF When
<1> HIDE DEF r, w, S
<1>11. /\ Frame(p, S) /\ pc'[p] = "user" /\ pc' \in [Proc -> Pcs]
       /\ chan' \in [Proc -> Chan \cup {"none"}] /\ DomOK'
    BY <1>1, <1>3, <1>4, <1>10, LeaveFrame
<1>12. RefCounts'
    BY <1>1, <1>6, <1>7, <1>8 DEF RefCounts
<1>13. BufferKept'
    <2>1. CASE r = 0 /\ w = 0
        BY <1>2, <2>1 DEF BufferKept
    <2>2. CASE ~(r = 0 /\ w = 0)
        <3>1. R \ {p} # {} \/ W \ {p} # {}
            BY <1>7, <1>8, <2>2, FS_EmptySet
        <3>2. \E q \in Proc : fd'[q] # {}
            BY <1>4, <3>1
        <3> QED BY <1>2, <2>2, <3>2 DEF PipeInv, BufferKept
    <2> QED BY <2>1, <2>2
<1>14. TypeOK'
    <2>1. {rbwait', wbwait'} \subseteq BOOLEAN
        BY <1>1, Zenon
    <2>2. bp' \in BOOLEAN
        BY <1>2, <1>3 DEF TypeOK
    <2>3. size' \in 0 .. PIPE_SIZE /\ rptr' \in 0 .. PIPE_SIZE - 1 /\ wptr' \in 0 .. PIPE_SIZE - 1
        BY <1>2, <1>3, Constants DEF TypeOK
    <2>4. Old \in Byte
        BY DEF Old, Byte
    <2>5. DOMAIN ring' = 0 .. PIPE_SIZE - 1 /\ \A i \in DOMAIN ring' : ring'[i] \in Byte
        BY <1>2, <1>3, <2>4 DEF TypeOK
    <2>6. met' \subseteq Proc
        BY <1>1, <1>3 DEF TypeOK
    <2> QED BY <1>1, <1>4, <1>7, <1>8, <1>11, <2>1, <2>2, <2>3, <2>5, <2>6 DEF TypeOK, Pcs
<1>15. \A q \in Proc : CallOK(q)'
    <2>1. CallOK(p)' /\ Alone(p)
        BY <1>1, <1>11 DEF CallOK, Alone
    <2> QED BY <1>3, <1>11, <2>1, FrameCalls
<1>16. LockOK'
    BY <1>1, <1>3, <1>11, FrameLock DEF LockPc, Alone
<1>17. RingOK' /\ Pieces' /\ TailOK'
    <2>1. CASE r = 0 /\ w = 0
        <3>1. rptr' = 0 /\ wptr' = 0 /\ size' = 0 /\ ring' = [i \in 0 .. PIPE_SIZE - 1 |-> Old]
            BY <1>2, <2>1
        <3>2. \A q \in Proc : pc'[q] # "copyin"
            BY <1>1, <1>3, <1>11, <1>16, Constants DEF LockOK
        <3>3. PIPE_SIZE \in Nat /\ PIPE_SIZE > 0
            BY Constants
        <3>4. wptr' = Place(rptr', size')
            BY <3>1, <3>3 DEF Place
        <3>5. ASSUME NEW k \in 0 .. PIPE_SIZE - 1 PROVE Cell(k)' = Old
            <4>1. Place(rptr', k) \in 0 .. PIPE_SIZE - 1
                BY <3>1, <3>3 DEF Place
            <4>2. Cell(k)' = ring'[Place(rptr', k)]
                BY DEF Cell, Place
            <4> QED BY <3>1, <4>1, <4>2
        <3>6. RingOK'
            BY <3>4, <3>5 DEF RingOK, Place, Old
        <3>7. Pieces' /\ TailOK'
            BY <3>1, <3>2 DEF Pieces, TailOK
        <3> QED BY <3>6, <3>7
    <2>2. CASE ~(r = 0 /\ w = 0)
        BY <1>1, <1>2, <1>11, <2>2, FrameBytes DEF PipeInv
    <2> QED BY <2>1, <2>2
<1>18. \A q \in Proc : IoOK(q)'
    <2>1. IoOK(p)' /\ ~Moving("copyin") /\ ~Moving("copyout")
        BY <1>1, <1>11 DEF IoOK, Moving
    <2>2. size \in 0 .. PIPE_SIZE /\ PIPE_SIZE \in Nat
        BY <1>3, Constants DEF TypeOK
    <2>3. \/ Sleepers("wb") \subseteq S
          \/ (wbwait => wbwait') /\ (wref > 0 => wref' > 0) /\ (size = 0 => size' = 0)
        <3>1. CASE wlast
            <4>1. Sleepers("wb") # {} => wbwait
                BY <1>3 DEF Sleepers, IoOK
            <4> QED BY <1>10, <3>1, <4>1, WakesAsleep
        <3>2. CASE ~wlast
            <4>1. wref > 0 => wref' > 0
                BY <1>1, <1>5, <1>8, <1>9, <3>2
            <4>2. wbwait => wbwait'
                BY <1>1, <3>2
            <4>3. size = 0 => size' = 0
                BY <1>2
            <4> QED BY <4>1, <4>2, <4>3
        <3> QED BY <3>1, <3>2
    <2>4. \/ Sleepers("rb") \subseteq S
          \/ (rbwait => rbwait') /\ (rref > 0 => rref' > 0) /\ size' \in 0 .. PIPE_SIZE /\ size' >= size
        <3>1. CASE rlast
            <4>1. Sleepers("rb") # {} => rbwait
                BY <1>3 DEF Sleepers, IoOK
            <4> QED BY <1>10, <3>1, <4>1, WakesAsleep
        <3>2. CASE rref = 0
            BY <1>3, <3>2 DEF Sleepers, IoOK
        <3>3. CASE ~rlast /\ rref # 0
            <4>1. rref' > 0 /\ r # 0
                BY <1>1, <1>5, <1>7, <1>9, <3>3
            <4>2. rbwait => rbwait'
                BY <1>1, <3>3
            <4>3. size' \in 0 .. PIPE_SIZE /\ size' >= size
                BY <1>2, <2>2, <4>1
            <4> QED BY <4>1, <4>2, <4>3
        <3> QED BY <3>1, <3>2, <3>3
    <2>5. (wref = 0 => wref' = 0) /\ (rref = 0 => rref' = 0)
        BY <1>1, <1>5, <1>7, <1>8, <1>9
    <2> QED BY <1>3, <1>11, <2>1, <2>3, <2>4, <2>5, FrameIo
<1> QED BY <1>11, <1>12, <1>13, <1>14, <1>15, <1>16, <1>17, <1>18 DEF PipeInv

-----------------------------------------------------------------------------
(* The theorems. *)

LEMMA PipeInit == Init => PipeInv
<1> SUFFICES ASSUME Init PROVE PipeInv
    OBVIOUS
<1>1. PIPE_SIZE \in Nat /\ PIPE_SIZE > 0 /\ None \notin Proc
    BY Constants
<1>2. Old \in Byte
    BY DEF Old, Byte
<1>3. \A p \in Proc : pc[p] = "user" /\ fd[p] = {}
    BY DEF Init
<1>4. TypeOK
    <2>1. pc \in [Proc -> Pcs] /\ chan \in [Proc -> Chan \cup {"none"}]
          /\ fd \in [Proc -> SUBSET {"r", "w"}]
        BY DEF Init, Pcs
    <2>2. DOMAIN ring = 0 .. PIPE_SIZE - 1 /\ \A i \in DOMAIN ring : ring[i] \in Byte
        BY <1>2 DEF Init
    <2>3. /\ rref \in Nat /\ wref \in Nat /\ size \in 0 .. PIPE_SIZE
          /\ rptr \in 0 .. PIPE_SIZE - 1 /\ wptr \in 0 .. PIPE_SIZE - 1
        BY <1>1 DEF Init
    <2>4. {bp, rbwait, wbwait} \subseteq BOOLEAN /\ lock \in Proc \cup {None} /\ met \subseteq Proc
        BY DEF Init
    <2> QED BY <2>1, <2>2, <2>3, <2>4 DEF TypeOK, Pcs
<1>5. DomOK /\ LockOK
    BY <1>1, <1>3 DEF Init, DomOK, LockOK
<1>6. RefCounts /\ BufferKept
    <2>1. {p \in Proc : "r" \in fd[p]} = {} /\ {p \in Proc : "w" \in fd[p]} = {}
        BY <1>3
    <2>2. RefCounts
        BY <2>1, FS_EmptySet DEF Init, RefCounts
    <2>3. ~bp /\ ~(size > 0)
        BY DEF Init
    <2> QED BY <2>2, <2>3 DEF BufferKept
<1>7. RingOK
    <2>1. \A k \in 0 .. PIPE_SIZE - 1 : Place(rptr, k) = k
        BY <1>1 DEF Init, Place
    <2>2. wptr = Place(rptr, size)
        BY <1>1 DEF Init, Place
    <2> QED BY <2>1, <2>2 DEF Init, RingOK, Cell
<1>8. Pieces /\ TailOK
    BY <1>1, <1>3 DEF Init, Pieces, TailOK
<1>9. \A p \in Proc : CallOK(p) /\ IoOK(p)
    BY <1>3 DEF CallOK, IoOK
<1> QED BY <1>4, <1>5, <1>6, <1>7, <1>8, <1>9 DEF PipeInv

LEMMA PipeNext == PipeInv /\ [Next]_vars => PipeInv'
<1>1. ASSUME PipeInv, NEW p \in Proc,
             \/ \E m \in {{"r"}, {"w"}, {"r", "w"}}, nd \in Delays : pipe_openi(p, m, nd)
             \/ OpenAgain(p) \/ OpenInterrupted(p) \/ pipe_closei(p)
             \/ \E n \in Reads, nd \in Delays : Read(p, n, nd)
             \/ ReadAgain(p) \/ ReadMoves(p) \/ ReadFaults(p)
             \/ \E n \in Writes, nd \in Delays : Write(p, n, nd)
             \/ WriteAgain(p) \/ WriteMoves(p) \/ WriteFaults(p)
             \/ Interrupted(p)
             \/ \E ev \in Events : Select(p, ev)
             \/ SelectAgain(p)
      PROVE  PipeInv'
    <2>1. CASE \E m \in {{"r"}, {"w"}, {"r", "w"}}, nd \in Delays : pipe_openi(p, m, nd)
        BY <1>1, <2>1, OpenStep
    <2>2. CASE OpenAgain(p) \/ OpenInterrupted(p)
        BY <1>1, <2>2, OpenAgainStep
    <2>3. CASE pipe_closei(p)
        BY <1>1, <2>3, CloseStep
    <2>4. CASE (\E n \in Reads, nd \in Delays : Read(p, n, nd)) \/ ReadAgain(p)
        BY <1>1, <2>4, ReadStep
    <2>5. CASE ReadMoves(p) \/ ReadFaults(p)
        BY <1>1, <2>5, ReadMovesStep
    <2>6. CASE (\E n \in Writes, nd \in Delays : Write(p, n, nd)) \/ WriteAgain(p)
        BY <1>1, <2>6, WriteStep
    <2>7. CASE WriteMoves(p) \/ WriteFaults(p)
        BY <1>1, <2>7, WriteMovesStep
    <2>8. CASE Interrupted(p)
        BY <1>1, <2>8, InterruptedStep
    <2>9. CASE \E ev \in Events : Select(p, ev)
        BY <1>1, <2>9, PollStep DEF Select
    <2>10. CASE SelectAgain(p)
        BY <1>1, <2>10, PollStep DEF SelectAgain
    <2> QED BY <1>1, <2>1, <2>2, <2>3, <2>4, <2>5, <2>6, <2>7, <2>8, <2>9, <2>10
<1>2. ASSUME PipeInv, UNCHANGED vars PROVE PipeInv'
    <2>1. UNCHANGED <<fd, rref, wref, size, rptr, wptr, ring, bp, rbwait, wbwait, lock, pc, call, chan, met>>
        BY <1>2 DEF vars, refs, data, waits
    <2>2. TypeOK' /\ DomOK' /\ LockOK' /\ RefCounts' /\ BufferKept'
        BY <1>2, <2>1 DEF PipeInv, TypeOK, DomOK, LockOK, RefCounts, BufferKept
    <2>3. \A k : Cell(k)' = Cell(k)
        BY <2>1 DEF Cell, Place
    <2>4. \A p \in Proc : Copied(p)' = Copied(p)
        BY <2>1 DEF Copied, Done
    <2>5. RingOK' /\ Pieces'
        BY <1>2, <2>1, <2>3 DEF PipeInv, RingOK, Pieces, Place, Follows, Old
    <2>6. TailOK'
        BY <1>2, <2>1, <2>3, <2>4 DEF PipeInv, TailOK, Old
    <2>7. \A p \in Proc : CallOK(p)'
        BY <1>2, <2>1 DEF PipeInv, CallOK
    <2>8. \A p \in Proc : IoOK(p)'
        BY <1>2, <2>1 DEF PipeInv, IoOK, Moving, NoFit
    <2> QED BY <2>2, <2>5, <2>6, <2>7, <2>8 DEF PipeInv
<1> QED BY <1>1, <1>2 DEF Next

LEMMA PipeInvariant == Spec => []PipeInv
BY PipeInit, PipeNext, PTL DEF Spec

\* Who sleeps in a read or write of a pipe is flagged and cannot go on, unless the
\* one that copies is about to wake it; who sleeps in open() does so because the other
\* end is not open.
THEOREM PipeWakesAll == Spec => []PipeSleepers
<1>1. PipeInv => PipeSleepers
    BY DEF PipeInv, IoOK, PipeSleepers, IoNotForgotten, OpenNotForgotten
<1> QED BY <1>1, PipeInvariant, PTL

\* The i-th byte of the queue.
LEMMA QueueCells == PipeInv => \A i \in 1 .. size : Queue[i] = Cell(i - 1)
<1> SUFFICES ASSUME PipeInv, NEW i \in 1 .. size PROVE Queue[i] = Cell(i - 1)
    OBVIOUS
<1>1. size \in 0 .. PIPE_SIZE /\ rptr \in 0 .. PIPE_SIZE - 1 /\ PIPE_SIZE \in Nat /\ PIPE_SIZE > 0
    BY Constants DEF PipeInv, TypeOK
<1>2. (rptr + i - 1) % PIPE_SIZE = Place(rptr, i - 1)
    <2>1. CASE rptr + i - 1 < PIPE_SIZE
        BY <1>1, <2>1 DEF Place
    <2>2. CASE rptr + i - 1 >= PIPE_SIZE
        <3>1. rptr + i - 1 - PIPE_SIZE \in 0 .. PIPE_SIZE - 1
            BY <1>1, <2>2
        <3> QED BY <1>1, <2>2, <3>1 DEF Place
    <2> QED BY <1>1, <2>1, <2>2
<1> QED BY <1>2 DEF Queue, Cell

\* pb_ref counts those that have the end open or open it, there is a buffer while it is
\* needed, and a write() that is not larger than the pipe is in it in one piece.
THEOREM PipeIsKept == Spec => []PipeKept
<1>1. ASSUME PipeInv PROVE OnePiece
    <2>1. size \in 0 .. PIPE_SIZE /\ PIPE_SIZE \in Nat
        BY <1>1, Constants DEF PipeInv, TypeOK
    <2>2. ASSUME NEW i \in 1 .. size - 1 PROVE Follows(Queue[i], Queue[i + 1])
        <3>1. i \in 1 .. size /\ i + 1 \in 1 .. size
            BY <2>1
        <3>2. Queue[i] = Cell(i - 1) /\ Queue[i + 1] = Cell((i - 1) + 1)
            BY <1>1, <2>1, <3>1, QueueCells
        <3>3. i - 1 \in 0 .. PIPE_SIZE - 1 /\ (i - 1) + 1 < size
            BY <2>1
        <3> QED BY <1>1, <3>2, <3>3 DEF PipeInv, Pieces
    <2> QED BY <2>2, Zenon DEF OnePiece, Follows
<1>2. PipeInv => PipeKept
    BY <1>1 DEF PipeInv, PipeKept
<1> QED BY <1>2, PipeInvariant, PTL

-----------------------------------------------------------------------------
(* The ring is a queue of bytes. *)

LEMMA QueueType == PipeInv => Queue \in Seq(Byte) /\ Len(Queue) = size
<1> SUFFICES ASSUME PipeInv PROVE Queue \in Seq(Byte) /\ Len(Queue) = size
    OBVIOUS
<1>1. size \in 0 .. PIPE_SIZE /\ rptr \in 0 .. PIPE_SIZE - 1 /\ PIPE_SIZE \in Nat
      /\ DOMAIN ring = 0 .. PIPE_SIZE - 1 /\ \A i \in DOMAIN ring : ring[i] \in Byte
    BY Constants DEF PipeInv, TypeOK
<1>2. \A i \in 1 .. size : Queue[i] \in Byte
    <2> SUFFICES ASSUME NEW i \in 1 .. size PROVE Queue[i] \in Byte
        OBVIOUS
    <2>1. Place(rptr, i - 1) \in 0 .. PIPE_SIZE - 1
        BY <1>1 DEF Place
    <2> QED BY <1>1, <2>1, QueueCells DEF Cell
<1>3. DOMAIN Queue = 1 .. size /\ Queue = [i \in 1 .. size |-> Queue[i]]
    BY DEF Queue
<1>4. Queue \in [1 .. size -> Byte]
    BY <1>2, <1>3
<1>5. Queue \in Seq(Byte)
    BY <1>1, <1>4, SeqDef
<1>6. DOMAIN Queue = 1 .. Len(Queue) /\ Len(Queue) \in Nat
    BY <1>5, LenProperties
<1> QED BY <1>1, <1>3, <1>5, <1>6

\* A prefix and a suffix, by what they hold.
LEMMA PrefixByBytes ==
    ASSUME NEW T, NEW s \in Seq(T), NEW t \in Seq(T), Len(s) <= Len(t),
           \A i \in 1 .. Len(s) : t[i] = s[i]
    PROVE  Abstract!IsPrefix(s, t)
<1>1. Len(s) \in Nat /\ Len(t) \in Nat /\ \A i \in 1 .. Len(s) : s[i] \in T /\ t[i] \in T
    BY LenProperties, ElementOfSeq
<1>2. /\ SubSeq(s, 1, Len(s)) \in Seq(T)
      /\ Len(SubSeq(s, 1, Len(s))) = Len(s)
      /\ \A i \in 1 .. Len(s) : SubSeq(s, 1, Len(s))[i] = s[i]
    BY <1>1, SubSeqProperties
<1>3. /\ SubSeq(t, 1, Len(s)) \in Seq(T)
      /\ Len(SubSeq(t, 1, Len(s))) = Len(s)
      /\ \A i \in 1 .. Len(s) : SubSeq(t, 1, Len(s))[i] = t[i]
    BY <1>1, SubSeqProperties
<1>4. SubSeq(s, 1, Len(s)) = SubSeq(t, 1, Len(s))
    BY <1>2, <1>3, SeqEqual
<1> QED BY <1>4 DEF Abstract!IsPrefix

LEMMA ReverseType ==
    ASSUME NEW T, NEW s \in Seq(T)
    PROVE  /\ Abstract!Reverse(s) \in Seq(T) /\ Len(Abstract!Reverse(s)) = Len(s)
           /\ \A i \in 1 .. Len(s) : Abstract!Reverse(s)[i] = s[Len(s) - i + 1]
<1> DEFINE r == Abstract!Reverse(s)
<1>1. Len(s) \in Nat
    BY LenProperties
<1>2. r = [i \in 1 .. Len(s) |-> s[(Len(s) - i) + 1]]
    BY DEF Abstract!Reverse
<1>3. \A i \in 1 .. Len(s) : s[(Len(s) - i) + 1] \in T
    BY <1>1, ElementOfSeq
<1>4. r \in [1 .. Len(s) -> T] /\ DOMAIN r = 1 .. Len(s)
    BY <1>2, <1>3
<1>5. r \in Seq(T)
    BY <1>1, <1>4, SeqDef
<1>6. DOMAIN r = 1 .. Len(r) /\ Len(r) \in Nat
    BY <1>5, LenProperties
<1> QED BY <1>1, <1>2, <1>4, <1>5, <1>6

LEMMA SuffixByBytes ==
    ASSUME NEW T, NEW s \in Seq(T), NEW t \in Seq(T), Len(s) <= Len(t),
           \A i \in 1 .. Len(s) : s[i] = t[i + (Len(t) - Len(s))]
    PROVE  Abstract!IsSuffix(s, t)
<1> DEFINE x == Abstract!Reverse(s)
           y == Abstract!Reverse(t)
<1>1. Len(s) \in Nat /\ Len(t) \in Nat
    BY LenProperties
<1>2. /\ x \in Seq(T) /\ Len(x) = Len(s) /\ y \in Seq(T) /\ Len(y) = Len(t)
      /\ \A i \in 1 .. Len(s) : x[i] = s[Len(s) - i + 1]
      /\ \A i \in 1 .. Len(t) : y[i] = t[Len(t) - i + 1]
    BY ReverseType
<1>3. ASSUME NEW i \in 1 .. Len(s) PROVE y[i] = x[i]
    <2>1. Len(s) - i + 1 \in 1 .. Len(s) /\ i \in 1 .. Len(t)
          /\ (Len(s) - i + 1) + (Len(t) - Len(s)) = Len(t) - i + 1
        BY <1>1
    <2>2. s[Len(s) - i + 1] = t[(Len(s) - i + 1) + (Len(t) - Len(s))]
        BY <2>1
    <2> QED BY <1>2, <2>1, <2>2
<1> HIDE DEF x, y
<1>4. Abstract!IsPrefix(x, y)
    BY <1>2, <1>3, PrefixByBytes
<1> QED BY <1>4 DEF Abstract!IsSuffix, x, y

\* The same in the next state.
LEMMA QueueNext ==
    ASSUME PipeInv'
    PROVE  /\ Queue' \in Seq(Byte) /\ Len(Queue') = size'
           /\ \A i \in 1 .. size' : Queue'[i] = ring'[Place(rptr', i - 1)]
<1>1. PipeInv' => (Queue \in Seq(Byte) /\ Len(Queue) = size)'
    BY QueueType, PTL
<1>2. PipeInv' => (\A i \in 1 .. size : Queue[i] = Cell(i - 1))'
    BY QueueCells, PTL
<1>3. \A i \in 1 .. size' : Queue'[i] = ring'[Place(rptr', i - 1)]
    BY <1>2 DEF Cell, Place
<1>4. Queue' \in Seq(Byte) /\ Len(Queue') = size'
    BY <1>1 DEF Byte
<1> QED BY <1>3, <1>4

LEMMA SameQueue ==
    ASSUME UNCHANGED <<size, rptr, ring>>
    PROVE  Queue' = Queue
BY DEF Queue

LEMMA ReadIsTake ==
    ASSUME PipeInv, PipeInv', NEW p \in Proc, ReadMoves(p) \/ ReadFaults(p)
    PROVE  Abstract!Take
<1> DEFINE n == ReadChunk(p)
<1>1. pc[p] = "copyout" /\ fd' = fd /\ size' = size - n /\ rptr' = Wrap(rptr + n)
      /\ ring' = Consumed(n) /\ wptr' = wptr
    BY DEF ReadMoves, ReadFaults
<1>2. n \in Nat /\ n > 0 /\ n <= size /\ n <= PIPE_SIZE - rptr
    BY <1>1, ReadChunkOK
<1> HIDE DEF n
<1>3. TypeOK /\ RingOK /\ size \in 0 .. PIPE_SIZE /\ PIPE_SIZE \in Nat
    BY Constants DEF PipeInv, TypeOK
<1>4. \A k \in 0 .. PIPE_SIZE - 1 : k < size' => ring'[Place(rptr', k)] = Cell(k + n)
    BY <1>1, <1>2, <1>3, TakeBytes DEF Cell, Place
<1>5. /\ Queue \in Seq(Byte) /\ Len(Queue) = size
      /\ Queue' \in Seq(Byte) /\ Len(Queue') = size'
    BY QueueType, QueueNext
<1>6. ASSUME NEW i \in 1 .. size' PROVE Queue'[i] = Queue[i + n]
    <2>1. i - 1 \in 0 .. PIPE_SIZE - 1 /\ i - 1 < size' /\ i + n \in 1 .. size
          /\ (i - 1) + n = (i + n) - 1
        BY <1>1, <1>2, <1>3
    <2>2. Queue'[i] = ring'[Place(rptr', i - 1)]
        BY QueueNext
    <2>3. Queue[i + n] = Cell((i + n) - 1)
        BY <2>1, QueueCells
    <2> QED BY <1>4, <2>1, <2>2, <2>3
<1>7. Len(Queue) - Len(Queue') = n /\ Len(Queue') < Len(Queue) /\ Len(Queue') <= Len(Queue)
    BY <1>1, <1>2, <1>3, <1>5
<1>8. \A i \in 1 .. Len(Queue') : Queue'[i] = Queue[i + (Len(Queue) - Len(Queue'))]
    BY <1>5, <1>6, <1>7
<1>9. Abstract!IsSuffix(Queue', Queue)
    BY <1>5, <1>7, <1>8, SuffixByBytes
<1> QED BY <1>1, <1>7, <1>9 DEF Abstract!Take

LEMMA WriteIsPut ==
    ASSUME PipeInv, PipeInv', NEW p \in Proc, WriteMoves(p) \/ WriteFaults(p)
    PROVE  Abstract!Put
<1> DEFINE n == WriteChunk(p)
           B == [j \in 0 .. n - 1 |-> ring'[wptr + j]]
<1>1. pc[p] = "copyin" /\ fd' = fd /\ size' = size + n /\ wptr' = Wrap(wptr + n)
      /\ rptr' = rptr /\ (ring' = Produced(p, n) \/ ring' = ring)
    BY DEF WriteMoves, WriteFaults
<1>2. n \in Nat /\ n > 0 /\ n <= PIPE_SIZE - size /\ n <= PIPE_SIZE - wptr
    <2>1. /\ n \in Nat /\ n > 0 /\ n <= PIPE_SIZE - wptr /\ n <= call[p].count
          /\ call[p].count \in Nat /\ call[p].count + size <= PIPE_SIZE
        BY <1>1, WriteChunkOK DEF PipeInv, CallOK, WriteCall
    <2> HIDE DEF n
    <2>2. size \in 0 .. PIPE_SIZE /\ PIPE_SIZE \in Nat
        BY Constants DEF PipeInv, TypeOK
    <2> QED BY <2>1, <2>2
<1> HIDE DEF n
<1>3. /\ TypeOK /\ RingOK /\ size \in 0 .. PIPE_SIZE /\ PIPE_SIZE \in Nat
      /\ wptr \in 0 .. PIPE_SIZE - 1 /\ DOMAIN ring = 0 .. PIPE_SIZE - 1
    BY Constants DEF PipeInv, TypeOK
<1>4. DOMAIN ring' = 0 .. PIPE_SIZE - 1 /\ \A i \in 0 .. PIPE_SIZE - 1 : ring'[i] \in Byte
    BY DEF PipeInv, TypeOK
<1>5. \A j \in 0 .. n - 1 : B[j] \in Byte
    BY <1>2, <1>3, <1>4
<1>6. ASSUME NEW i \in 0 .. PIPE_SIZE - 1
      PROVE  ring'[i] = IF wptr <= i /\ i < wptr + n THEN B[i - wptr] ELSE ring[i]
    <2>1. CASE wptr <= i /\ i < wptr + n
        <3>1. i - wptr \in 0 .. n - 1 /\ wptr + (i - wptr) = i
            BY <1>2, <1>3, <2>1
        <3> QED BY <2>1, <3>1
    <2>2. CASE ~(wptr <= i /\ i < wptr + n)
        <3>1. i \notin wptr .. wptr + n - 1
            BY <1>2, <1>3, <2>2
        <3>2. ring'[i] = ring[i]
            BY <1>1, <1>3, <3>1 DEF Produced
        <3> QED BY <2>2, <3>2
    <2> QED BY <2>1, <2>2
<1> HIDE DEF B
<1>7. \A k \in 0 .. PIPE_SIZE - 1 :
         ring'[Place(rptr', k)] = IF size <= k /\ k < size + n THEN B[k - size] ELSE Cell(k)
    BY <1>1, <1>2, <1>3, <1>4, <1>5, <1>6, PutBytes DEF Cell, Place
<1>8. /\ Queue \in Seq(Byte) /\ Len(Queue) = size
      /\ Queue' \in Seq(Byte) /\ Len(Queue') = size'
    BY QueueType, QueueNext
<1>9. ASSUME NEW i \in 1 .. size PROVE Queue'[i] = Queue[i]
    <2>1. i - 1 \in 0 .. PIPE_SIZE - 1 /\ i - 1 < size /\ i \in 1 .. size'
        BY <1>1, <1>2, <1>3
    <2>2. Queue'[i] = ring'[Place(rptr', i - 1)]
        BY <2>1, QueueNext
    <2>3. ring'[Place(rptr', i - 1)] = Cell(i - 1)
        BY <1>3, <1>7, <2>1
    <2>4. Queue[i] = Cell(i - 1)
        BY QueueCells
    <2> QED BY <2>2, <2>3, <2>4
<1>10. Len(Queue) <= Len(Queue') /\ Len(Queue') \in Len(Queue) + 1 .. PIPE_SIZE
    BY <1>1, <1>2, <1>3, <1>8
<1>11. Abstract!IsPrefix(Queue, Queue')
    BY <1>8, <1>9, <1>10, PrefixByBytes
<1> QED BY <1>1, <1>10, <1>11 DEF Abstract!Put

LEMMA CloseIsStep ==
    ASSUME PipeInv, PipeInv', NEW p \in Proc, pipe_closei(p)
    PROVE  Abstract!Open \/ Abstract!Close
<1>1. IF rref' = 0 /\ wref' = 0 THEN size' = 0 ELSE UNCHANGED <<size, rptr, ring>>
    BY DEF pipe_closei, LastClose, data
<1>2. /\ rref' = Cardinality({q \in Proc : "r" \in fd'[q]})
      /\ wref' = Cardinality({q \in Proc : "w" \in fd'[q]})
      /\ fd' \in [Proc -> SUBSET {"r", "w"}]
    BY DEF PipeInv, RefCounts, TypeOK
<1>3. IsFiniteSet({q \in Proc : "r" \in fd'[q]}) /\ IsFiniteSet({q \in Proc : "w" \in fd'[q]})
    BY Constants, FS_Subset
<1>4. rref' = 0 /\ wref' = 0 <=> {q \in Proc : fd'[q] # {}} = {}
    <2>1. rref' = 0 <=> {q \in Proc : "r" \in fd'[q]} = {}
        BY <1>2, <1>3, FS_EmptySet
    <2>2. wref' = 0 <=> {q \in Proc : "w" \in fd'[q]} = {}
        BY <1>2, <1>3, FS_EmptySet
    <2>3. \A q \in Proc : fd'[q] # {} <=> "r" \in fd'[q] \/ "w" \in fd'[q]
        BY <1>2
    <2> QED BY <2>1, <2>2, <2>3
<1>5. CASE rref' = 0 /\ wref' = 0
    <2>1. size' = 0
        BY <1>1, <1>5
    <2>2. Queue' = <<>>
        BY <2>1, QueueNext, EmptySeq
    <2> QED BY <1>4, <1>5, <2>2 DEF Abstract!Close
<1>6. CASE ~(rref' = 0 /\ wref' = 0)
    BY <1>1, <1>4, <1>6, SameQueue DEF Abstract!Open
<1> QED BY <1>5, <1>6

LEMMA OpenIsStep ==
    ASSUME PipeInv, NEW p \in Proc, NEW m \in {{"r"}, {"w"}, {"r", "w"}}, NEW nd,
           pipe_openi(p, m, nd)
    PROVE  Abstract!Open
<1>1. fd' = [fd EXCEPT ![p] = m] /\ UNCHANGED <<size, rptr, ring>> /\ fd \in [Proc -> SUBSET {"r", "w"}]
    BY DEF pipe_openi, data, PipeInv, TypeOK
<1>2. fd'[p] # {}
    BY <1>1
<1> QED BY <1>1, <1>2, SameQueue DEF Abstract!Open

\* The other steps leave the bytes and the users alone.
LEMMA OthersStutter ==
    ASSUME NEW p \in Proc,
           \/ OpenAgain(p) \/ OpenInterrupted(p) \/ Interrupted(p) \/ ReadAgain(p)
           \/ WriteAgain(p) \/ SelectAgain(p)
           \/ \E n \in Reads, nd \in Delays : Read(p, n, nd)
           \/ \E n \in Writes, nd \in Delays : Write(p, n, nd)
           \/ \E ev \in Events : Select(p, ev)
    PROVE  UNCHANGED <<Queue, {q \in Proc : fd[q] # {}}>>
<1>1. UNCHANGED <<fd, size, rptr, ring>>
    <2>1. CASE OpenAgain(p) \/ OpenInterrupted(p) \/ Interrupted(p) \/ SelectAgain(p)
        BY <2>1 DEF OpenAgain, OpenInterrupted, Interrupted, SelectAgain, data
    <2>2. CASE ReadAgain(p) \/ \E n \in Reads, nd \in Delays : Read(p, n, nd)
        BY <2>2 DEF ReadAgain, Read, ReadLoop
    <2>3. CASE WriteAgain(p)
        <3>1. \A c : WriteLoop(p, c) => UNCHANGED <<fd, size, rptr, ring>>
            BY DEF WriteLoop
        <3>2. \A c : Floop(p, c) => UNCHANGED <<fd, size, rptr, ring>>
            BY <3>1 DEF Floop, data
        <3> QED BY <2>3, <3>1, <3>2 DEF WriteAgain
    <2>4. CASE \E n \in Writes, nd \in Delays : Write(p, n, nd)
        BY <2>4 DEF Write, Floop, WriteLoop, data
    <2>5. CASE \E ev \in Events : Select(p, ev)
        BY <2>5 DEF Select, data
    <2> QED BY <2>1, <2>2, <2>3, <2>4, <2>5
<1> QED BY <1>1, SameQueue

\* The ring with its two pointers is a queue of bytes: a copy in adds at the end, a copy
\* out takes from the front, through wrapping, writes in pieces and faults, and what has
\* not been read is dropped only by the last close.
THEOREM PipeRefinesQueue == Spec => ImplementsQueue
<1>1. Init => Abstract!Init
    <2> SUFFICES ASSUME Init PROVE Abstract!Init
        OBVIOUS
    <2>1. PipeInv
        BY PipeInit
    <2>2. size = 0 /\ \A p \in Proc : fd[p] = {}
        BY DEF Init
    <2>3. Queue = <<>>
        BY <2>1, <2>2, QueueType, EmptySeq
    <2> QED BY <2>2, <2>3 DEF Abstract!Init
<1>2. PipeInv /\ PipeInv' /\ [Next]_vars =>
         [Abstract!Step]_<<Queue, {p \in Proc : fd[p] # {}}>>
    <2>1. ASSUME PipeInv, PipeInv', NEW p \in Proc,
                 \/ \E m \in {{"r"}, {"w"}, {"r", "w"}}, nd \in Delays : pipe_openi(p, m, nd)
                 \/ OpenAgain(p) \/ OpenInterrupted(p) \/ pipe_closei(p)
                 \/ \E n \in Reads, nd \in Delays : Read(p, n, nd)
                 \/ ReadAgain(p) \/ ReadMoves(p) \/ ReadFaults(p)
                 \/ \E n \in Writes, nd \in Delays : Write(p, n, nd)
                 \/ WriteAgain(p) \/ WriteMoves(p) \/ WriteFaults(p)
                 \/ Interrupted(p)
                 \/ \E ev \in Events : Select(p, ev)
                 \/ SelectAgain(p)
          PROVE  Abstract!Step
        <3>1. CASE \E m \in {{"r"}, {"w"}, {"r", "w"}}, nd \in Delays : pipe_openi(p, m, nd)
            BY <2>1, <3>1, OpenIsStep DEF Abstract!Step
        <3>2. CASE pipe_closei(p)
            BY <2>1, <3>2, CloseIsStep DEF Abstract!Step
        <3>3. CASE ReadMoves(p) \/ ReadFaults(p)
            BY <2>1, <3>3, ReadIsTake DEF Abstract!Step
        <3>4. CASE WriteMoves(p) \/ WriteFaults(p)
            BY <2>1, <3>4, WriteIsPut DEF Abstract!Step
        <3>5. CASE \/ OpenAgain(p) \/ OpenInterrupted(p) \/ Interrupted(p) \/ ReadAgain(p)
                   \/ WriteAgain(p) \/ SelectAgain(p)
                   \/ \E n \in Reads, nd \in Delays : Read(p, n, nd)
                   \/ \E n \in Writes, nd \in Delays : Write(p, n, nd)
                   \/ \E ev \in Events : Select(p, ev)
            BY <3>5, OthersStutter DEF Abstract!Step
        <3> QED BY <2>1, <3>1, <3>2, <3>3, <3>4, <3>5
    <2>2. ASSUME UNCHANGED vars PROVE UNCHANGED <<Queue, {p \in Proc : fd[p] # {}}>>
        BY <2>2, SameQueue DEF vars, data
    <2> QED BY <2>1, <2>2 DEF Next
<1> QED BY <1>1, <1>2, PipeInvariant, PTL DEF Spec, ImplementsQueue, Abstract!Spec
=============================================================================
