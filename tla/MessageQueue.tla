---------------------------- MODULE MessageQueue ----------------------------
(***************************************************************************)
(* System V message queues: src/sys/sys/msg.c.                             *)
(*                                                                         *)
(* A queue header has a lock (msglock) that a process holds while it pages *)
(* its buffer in and copies the text; a process that finds it taken sleeps *)
(* and tries again (msgconv()), which is a guard here.  Message headers and *)
(* text segments come from pools that all queues share; a text takes one   *)
(* segment, so that the pool is a number.  The lock is also held while the *)
(* type is copied in and while IPC_SET copies its argument; nothing but    *)
(* the header's identity is used on both sides of these, and they are      *)
(* single steps here.  An empty text, which copies nothing, takes the same *)
(* two steps as any other.                                                 *)
(***************************************************************************)
EXTENDS Integers, FiniteSets, FiniteSetsExt, Sequences, SequencesExt

CONSTANTS
    Proc, None,
    Queue,     \* queue headers, msginfo.msgmni of them
    msgtql,    \* msginfo.msgtql: message headers
    msgseg,    \* msginfo.msgseg: text segments
    msgmnb,    \* msginfo.msgmnb: msg_qbytes of a new queue
    Sends,     \* calls of msgsnd(): [type, size, nowait]
    Receives,  \* calls of msgrcv(): [msgtyp, size, nowait, noerror]
    Limits,    \* values of msg_qbytes for IPC_SET
    MaxSeq     \* bound: a header is removed at most MaxSeq times

\* What the constants have to satisfy; the MC modules assume it of theirs.
MsgConstants ==
    /\ IsFiniteSet(Proc) /\ None \notin Proc /\ IsFiniteSet(Queue)
    /\ msgtql \in Nat \ {0} /\ msgseg \in Nat /\ msgmnb \in Nat
    /\ Limits \subseteq Nat /\ MaxSeq \in Nat
    /\ Sends \subseteq [type : Nat \ {0}, size : Nat, nowait : BOOLEAN]
    /\ Receives \subseteq [msgtyp : Int, size : Nat, nowait : BOOLEAN, noerror : BOOLEAN]

VARIABLES
    alloc, seq, qbytes,      \* of each header: allocated, sequence, msg_qbytes
    rwait, wwait,            \* MSG_RWAIT, MSG_WWAIT
    lock,                    \* msglock: the process that has it
    queue,                   \* msg_first..msg_last: sequence of [type, size]
    cbytes,                  \* msg_cbytes
    headers,                 \* length of the free list msgfp
    segs,                    \* segments in msgmap
    wanted,                  \* msgmap_wanted
    pc, call, chan

hdrs  == <<alloc, seq, qbytes, rwait, wwait>>
pools == <<headers, segs, wanted>>
procs == <<pc, call, chan>>
vars  == <<hdrs, lock, queue, cbytes, pools, procs>>

\* What a process sleeps on: &qp->msg_qnum, qp, &msgfp, msgmap.
Chan   == ({"msg", "room"} \X Queue) \cup {<<"header">>, <<"map">>}
NoCall == [cmd |-> "none"]
NoChan == <<"none">>

Init ==
    /\ alloc = [q \in Queue |-> FALSE] /\ seq = [q \in Queue |-> 0]
    /\ qbytes = [q \in Queue |-> msgmnb]
    /\ rwait = [q \in Queue |-> FALSE] /\ wwait = [q \in Queue |-> FALSE]
    /\ lock = [q \in Queue |-> None] /\ queue = [q \in Queue |-> <<>>]
    /\ cbytes = [q \in Queue |-> 0]
    /\ headers = msgtql /\ segs = msgseg /\ wanted = FALSE
    /\ pc = [p \in Proc |-> "user"] /\ call = [p \in Proc |-> NoCall]
    /\ chan = [p \in Proc |-> NoChan]

----------------------------------------------------------------------------
(* Helpers *)

Woken(C) == [p \in Proc |->
    IF pc[p] = "asleep" /\ chan[p] \in C THEN "woken" ELSE pc[p]]

\* The channels of S, if c.
When(c, S) == IF c THEN S ELSE {}

btoq(size) == IF size = 0 THEN 0 ELSE 1

\* The messages of Q that have a text, and so a segment.
Texts(Q) == {i \in DOMAIN Q : Q[i].size > 0}

Leave(p, at) ==
    /\ pc' = [at EXCEPT ![p] = "user"]
    /\ call' = [call EXCEPT ![p] = NoCall] /\ chan' = [chan EXCEPT ![p] = NoChan]

Sleep(p, c, at) ==
    /\ pc' = [at EXCEPT ![p] = "asleep"] /\ chan' = [chan EXCEPT ![p] = c]
    /\ UNCHANGED call

MutFreeLock(q) == TRUE

\* msgconv() has the lock: nobody else holds it.
FreeLock(q) == lock[q] = None

Valid(p) == alloc[call[p].q] /\ call[p].id = seq[call[p].q]

MutPickAnySmaller(Q, typ) ==
    LET S == {i \in DOMAIN Q : IF typ = 0 THEN TRUE ELSE IF typ > 0
                THEN Q[i].type = typ ELSE Q[i].type <= -typ}
    IN  IF S = {} THEN 0 ELSE Min(S)

\* The search of msgrcv(): with msgtyp 0 the first message, with a positive
\* one the first of the type, else the first of the smallest type up to it.
Pick(Q, typ) ==
    LET Better(best, i) ==
          IF typ > 0
          THEN IF best = 0 /\ Q[i].type = typ THEN i ELSE best
          ELSE IF Q[i].type <= -typ /\ (best = 0 \/ Q[best].type > Q[i].type)
               THEN i ELSE best
        best[i \in 0 .. Len(Q)] == IF i = 0 THEN 0 ELSE Better(best[i - 1], i)
    IN  IF typ = 0 THEN (IF Q = <<>> THEN 0 ELSE 1) ELSE best[Len(Q)]

MutFreedWakes(q, n) == When(headers = 0 /\ n > 0, {<<"header">>})

\* msgfree() of n messages of q wakes those who want room on the queue and
\* those who want a header.
FreedWakes(q, n) == When(n > 0 /\ wwait[q], {<<"room", q>>})
                    \cup When(n > 0 /\ headers = 0, {<<"header">>})

----------------------------------------------------------------------------
(* msgget() and msgctl() *)

\* A new queue; its msg_cbytes is not set here.
Msgget(p, q) ==
    /\ pc[p] = "user" /\ ~alloc[q]
    /\ alloc' = [alloc EXCEPT ![q] = TRUE] /\ queue' = [queue EXCEPT ![q] = <<>>]
    /\ qbytes' = [qbytes EXCEPT ![q] = msgmnb]
    /\ UNCHANGED <<seq, rwait, wwait, lock, cbytes, pools, procs>>

\* IPC_RMID: all messages are freed and all who wait on the queue are woken.
Rmid(p, q) ==
    /\ pc[p] = "user" /\ FreeLock(q) /\ alloc[q] /\ seq[q] < MaxSeq
    /\ alloc' = [alloc EXCEPT ![q] = FALSE] /\ seq' = [seq EXCEPT ![q] = @ + 1]
    /\ rwait' = [rwait EXCEPT ![q] = FALSE] /\ wwait' = [wwait EXCEPT ![q] = FALSE]
    /\ queue' = [queue EXCEPT ![q] = <<>>] /\ cbytes' = [cbytes EXCEPT ![q] = 0]
    /\ headers' = headers + Len(queue[q])
    /\ segs' = segs + Cardinality(Texts(queue[q]))
    /\ pc' = Woken(FreedWakes(q, Len(queue[q]))
                   \cup When(rwait[q], {<<"msg", q>>})
                   \cup When(wwait[q], {<<"room", q>>}))
    /\ UNCHANGED <<qbytes, lock, wanted, call, chan>>

\* IPC_SET of msg_qbytes: nobody is woken.
IpcSet(p, q, n) ==
    /\ pc[p] = "user" /\ FreeLock(q) /\ alloc[q]
    /\ qbytes' = [qbytes EXCEPT ![q] = n]
    /\ UNCHANGED <<alloc, seq, rwait, wwait, lock, queue, cbytes, pools, procs>>

----------------------------------------------------------------------------
(* msgsnd() *)

MsgsndEntry(p, q, a) ==
    /\ pc[p] = "user" /\ FreeLock(q) /\ alloc[q]
    /\ pc' = [pc EXCEPT ![p] = "getres"]
    /\ call' = [call EXCEPT ![p] = [cmd |-> "snd", q |-> q, id |-> seq[q], arg |-> a]]
    /\ UNCHANGED <<hdrs, lock, queue, cbytes, pools, chan>>

Getres(p) ==
    /\ pc[p] \in {"getres", "woken"} /\ call[p].cmd = "snd" /\ FreeLock(call[p].q)

\* No room for size bytes on the queue.
Full(q, size) == size + cbytes[q] > qbytes[q]

MutNoHeader == headers < 0

NoHeader == headers = 0

\* EIDRM; or EAGAIN.  A header taken before no segment is found goes back.
SndFails(p) ==
    LET q == call[p].q  a == call[p].arg
    IN  /\ Getres(p)
        /\ \/ ~Valid(p)
           \/ a.nowait /\ (Full(q, a.size) \/ NoHeader \/ btoq(a.size) > segs)
        /\ Leave(p, IF Valid(p) /\ ~Full(q, a.size) /\ headers = 1
                    THEN Woken({<<"header">>}) ELSE pc)
        /\ UNCHANGED <<hdrs, lock, queue, cbytes, pools>>

\* It sleeps for room on the queue, then for a header, then for a segment.
SndSleeps(p) ==
    LET q == call[p].q  a == call[p].arg
    IN  /\ Getres(p) /\ Valid(p) /\ ~a.nowait
        /\ \/ /\ Full(q, a.size)
              /\ wwait' = [wwait EXCEPT ![q] = TRUE] /\ Sleep(p, <<"room", q>>, pc)
              /\ UNCHANGED wanted
           \/ /\ ~Full(q, a.size) /\ NoHeader
              /\ Sleep(p, <<"header">>, pc) /\ UNCHANGED <<wwait, wanted>>
           \/ /\ ~Full(q, a.size) /\ ~NoHeader /\ btoq(a.size) > segs
              /\ wanted' = TRUE /\ UNCHANGED wwait
              /\ Sleep(p, <<"map">>, Woken(When(headers = 1, {<<"header">>})))
        /\ UNCHANGED <<alloc, seq, qbytes, rwait, lock, queue, cbytes, headers, segs>>

\* Everything is there: the text is copied with the queue locked.
SndTakes(p) ==
    LET q == call[p].q  a == call[p].arg
    IN  /\ Getres(p) /\ Valid(p) /\ ~Full(q, a.size) /\ ~NoHeader
        /\ btoq(a.size) <= segs
        /\ headers' = headers - 1 /\ segs' = segs - btoq(a.size)
        /\ lock' = [lock EXCEPT ![q] = p] /\ pc' = [pc EXCEPT ![p] = "copyin"]
        /\ chan' = [chan EXCEPT ![p] = NoChan]
        /\ UNCHANGED <<hdrs, queue, cbytes, wanted, call>>

MutPutWakes(q) == When(rwait[q] /\ queue[q] = <<>>, {<<"msg", q>>})

\* A new message wakes the readers.
PutWakes(q) == When(rwait[q], {<<"msg", q>>})

SndPuts(p) ==
    LET q == call[p].q  a == call[p].arg
    IN  /\ pc[p] = "copyin"
        /\ queue' = [queue EXCEPT ![q] = Append(@, [type |-> a.type, size |-> a.size])]
        /\ cbytes' = [cbytes EXCEPT ![q] = @ + a.size]
        /\ rwait' = [rwait EXCEPT ![q] = FALSE]
        /\ Leave(p, Woken(PutWakes(q)))
        /\ lock' = [lock EXCEPT ![q] = None]
        /\ UNCHANGED <<alloc, seq, qbytes, wwait, pools>>

MutFaultReturns(size) == 0

\* The segments a copy that fails gives back.
FaultReturns(size) == btoq(size)

\* EFAULT: the segment and the header go back, and their sleepers are woken.
SndFaults(p) ==
    LET q == call[p].q  a == call[p].arg
    IN  /\ pc[p] = "copyin" /\ a.size > 0
        /\ segs' = segs + FaultReturns(a.size) /\ headers' = headers + 1
        /\ wanted' = FALSE
        /\ Leave(p, Woken(When(wanted, {<<"map">>}) \cup When(headers = 0, {<<"header">>})))
        /\ lock' = [lock EXCEPT ![q] = None]
        /\ UNCHANGED <<hdrs, queue, cbytes>>

----------------------------------------------------------------------------
(* msgrcv() *)

MsgrcvEntry(p, q, a) ==
    /\ pc[p] = "user" /\ FreeLock(q) /\ alloc[q]
    /\ pc' = [pc EXCEPT ![p] = "findmsg"]
    /\ call' = [call EXCEPT ![p] = [cmd |-> "rcv", q |-> q, id |-> seq[q], arg |-> a]]
    /\ UNCHANGED <<hdrs, lock, queue, cbytes, pools, chan>>

Findmsg(p) ==
    /\ pc[p] \in {"findmsg", "woken"} /\ call[p].cmd = "rcv" /\ FreeLock(call[p].q)

\* EIDRM, E2BIG or ENOMSG.
RcvFails(p) ==
    LET q == call[p].q  a == call[p].arg  i == Pick(queue[q], a.msgtyp)
    IN  /\ Findmsg(p)
        /\ \/ ~Valid(p)
           \/ i # 0 /\ a.size < queue[q][i].size /\ ~a.noerror
           \/ i = 0 /\ a.nowait
        /\ Leave(p, pc)
        /\ UNCHANGED <<hdrs, lock, queue, cbytes, pools>>

RcvSleeps(p) ==
    LET q == call[p].q  a == call[p].arg
    IN  /\ Findmsg(p) /\ Valid(p) /\ ~a.nowait /\ Pick(queue[q], a.msgtyp) = 0
        /\ rwait' = [rwait EXCEPT ![q] = TRUE] /\ Sleep(p, <<"msg", q>>, pc)
        /\ UNCHANGED <<alloc, seq, qbytes, wwait, lock, queue, cbytes, pools>>

\* A message is found: it is copied out with the queue locked, then freed.
RcvFinds(p) ==
    LET q == call[p].q  a == call[p].arg  i == Pick(queue[q], a.msgtyp)
    IN  /\ Findmsg(p) /\ Valid(p)
        /\ i # 0 /\ (a.size >= queue[q][i].size \/ a.noerror)
        /\ lock' = [lock EXCEPT ![q] = p] /\ pc' = [pc EXCEPT ![p] = "copyout"]
        /\ call' = [call EXCEPT ![p] = [cmd |-> "rcv", q |-> q, id |-> seq[q],
                        arg |-> a, smp |-> i, text |-> queue[q][i]]]
        /\ chan' = [chan EXCEPT ![p] = NoChan]
        /\ UNCHANGED <<hdrs, queue, cbytes, pools>>

MutBytesFreed(p) == Min({call[p].arg.size, call[p].text.size})

\* A truncated message gives back all its bytes.
BytesFreed(p) == call[p].text.size

RcvDone(p) ==
    LET q == call[p].q
    IN  /\ pc[p] = "copyout"
        /\ queue' = [queue EXCEPT ![q] = RemoveAt(@, call[p].smp)]
        /\ cbytes' = [cbytes EXCEPT ![q] = @ - BytesFreed(p)]
        /\ headers' = headers + 1 /\ segs' = segs + btoq(call[p].text.size)
        /\ wwait' = [wwait EXCEPT ![q] = FALSE]
        /\ Leave(p, Woken(FreedWakes(q, 1)))
        /\ lock' = [lock EXCEPT ![q] = None]
        /\ UNCHANGED <<alloc, seq, qbytes, rwait, wanted>>

\* EFAULT: the message stays.
RcvFaults(p) ==
    /\ pc[p] = "copyout" /\ lock' = [lock EXCEPT ![call[p].q] = None]
    /\ Leave(p, pc)
    /\ UNCHANGED <<hdrs, queue, cbytes, pools>>

----------------------------------------------------------------------------
(* Signals *)

\* EINTR out of a sleep for resources.  One who wanted room wakes the others,
\* unless msgconv() finds the queue gone or its lock taken: with the signal
\* still pending the sleep for the lock abandons the call.
Interrupted(p) ==
    LET q == call[p].q
    IN  /\ pc[p] \in {"asleep", "woken"}
        /\ IF chan[p] = <<"room", q>> /\ FreeLock(q) /\ Valid(p)
           THEN wwait' = [wwait EXCEPT ![q] = FALSE] /\ Leave(p, Woken({chan[p]}))
           ELSE UNCHANGED wwait /\ Leave(p, pc)
        /\ UNCHANGED <<alloc, seq, qbytes, rwait, lock, queue, cbytes, pools>>

\* A signal ends the wait for the lock.
LockInterrupted(p) ==
    /\ pc[p] \in {"getres", "findmsg"} /\ ~FreeLock(call[p].q)
    /\ Leave(p, pc)
    /\ UNCHANGED <<hdrs, lock, queue, cbytes, pools>>

Next == \E p \in Proc :
    \/ \E q \in Queue : Msgget(p, q) \/ Rmid(p, q)
    \/ \E q \in Queue, n \in Limits : IpcSet(p, q, n)
    \/ \E q \in Queue, a \in Sends : MsgsndEntry(p, q, a)
    \/ SndFails(p) \/ SndSleeps(p) \/ SndTakes(p) \/ SndPuts(p) \/ SndFaults(p)
    \/ \E q \in Queue, a \in Receives : MsgrcvEntry(p, q, a)
    \/ RcvFails(p) \/ RcvSleeps(p) \/ RcvFinds(p) \/ RcvDone(p) \/ RcvFaults(p)
    \/ Interrupted(p) \/ LockInterrupted(p)

Spec == Init /\ [][Next]_vars

----------------------------------------------------------------------------
(* Properties *)

Msg == [type : Nat \ {0}, size : Nat]

TypeOK ==
    /\ alloc \in [Queue -> BOOLEAN] /\ seq \in [Queue -> 0 .. MaxSeq]
    /\ qbytes \in [Queue -> Nat] /\ cbytes \in [Queue -> Nat]
    /\ rwait \in [Queue -> BOOLEAN] /\ wwait \in [Queue -> BOOLEAN]
    /\ lock \in [Queue -> Proc \cup {None}] /\ queue \in [Queue -> Seq(Msg)]
    /\ headers \in 0 .. msgtql /\ segs \in 0 .. msgseg /\ wanted \in BOOLEAN
    /\ pc \in [Proc -> {"user", "getres", "findmsg", "copyin", "copyout",
                        "asleep", "woken"}]
    /\ chan \in [Proc -> Chan \cup {NoChan}]

Copying(pos) == {p \in Proc : pc[p] = pos}

\* The bytes of the messages of Q, and the messages and texts on all queues.
Bytes(Q) == UNION {{i} \X (1 .. Q[i].size) : i \in DOMAIN Q}
OnQueues == UNION {{q} \X DOMAIN queue[q] : q \in Queue}
TextsOn  == UNION {{q} \X Texts(queue[q]) : q \in Queue}

\* msg_cbytes counts the text on the queue, and headers and segments are on
\* the free lists, on a queue, or with the one process that copies: the error
\* paths, truncated messages and removal included.
Accounts ==
    /\ \A q \in Queue : cbytes[q] = Cardinality(Bytes(queue[q]))
    /\ headers + Cardinality(OnQueues) + Cardinality(Copying("copyin")) = msgtql
    /\ segs + Cardinality(TextsOn)
          + Cardinality({p \in Copying("copyin") : call[p].arg.size > 0}) = msgseg

\* Whoever copies has its queue to itself: it exists, is the one named, and
\* the message found is still where it was found (msg.c:322-346: smp and
\* spmp are used after the copy has slept).  Nobody else keeps a queue locked.
CopiesAlone ==
    /\ \A p \in Copying("copyin") \cup Copying("copyout") :
          /\ lock[call[p].q] = p /\ Valid(p)
          /\ pc[p] = "copyout" => /\ call[p].smp \in DOMAIN queue[call[p].q]
                                  /\ queue[call[p].q][call[p].smp] = call[p].text
    /\ \A q \in Queue : lock[q] # None =>
          lock[q] \in Copying("copyin") \cup Copying("copyout") /\ call[lock[q]].q = q

\* A reader asleep is flagged, and no message on the queue is for it.
ReaderNotForgotten == \A p \in Proc :
    pc[p] = "asleep" /\ call[p].cmd = "rcv" =>
        rwait[call[p].q] /\ Valid(p) /\ Pick(queue[call[p].q], call[p].arg.msgtyp) = 0

\* IPC_SET never raises msg_qbytes, which only the super-user may.
LowersOnly == \A m, n \in Limits : m = n /\ n <= msgmnb

\* A writer asleep for room is flagged, and, as long as nobody raises msg_qbytes,
\* there is no room; while one is asleep for a header, there is none.
WriterNotForgotten == \A p \in Proc : pc[p] = "asleep" =>
    /\ chan[p][1] = "room" => /\ wwait[call[p].q] /\ Valid(p)
                              /\ LowersOnly => Full(call[p].q, call[p].arg.size)
    /\ chan[p][1] = "header" => headers = 0

\* What msgop.2 lets msgrcv() take from Q, and that i is the one it should take:
\* the first message, the first of the type, or the first of the lowest type that
\* is at most -msgtyp.
Suits(Q, typ) == {j \in DOMAIN Q : CASE typ = 0 -> TRUE
                                      [] typ > 0 -> Q[j].type = typ
                                      [] OTHER -> Q[j].type <= -typ}
FirstOf(Q, typ, i) ==
    IF Suits(Q, typ) = {} THEN i = 0 ELSE
      /\ i \in Suits(Q, typ)
      /\ \A j \in Suits(Q, typ) \ {i} : IF typ >= 0 THEN i < j
            ELSE Q[i].type < Q[j].type \/ (Q[i].type = Q[j].type /\ i < j)

PicksFirst == \A q \in Queue, a \in Receives :
    FirstOf(queue[q], a.msgtyp, Pick(queue[q], a.msgtyp))

\* Nobody who waits for a message, for room or for a header is forgotten: a reader
\* and a writer asleep have what they wait for still to come.
MsgSleepers == ReaderNotForgotten /\ WriterNotForgotten

\* Nothing is lost or used twice: headers, segments and bytes add up, a message is
\* copied by one process alone, and it is the one that msgop.2 says.
MessagesKept == TypeOK /\ Accounts /\ CopiesAlone /\ PicksFirst

\* msgop.2 on a suspended msgsnd(): until "the condition responsible for the
\* suspension no longer exists, in which case the message is sent".  Here for
\* those who wait for text space.
TextSleeperServed == \A p \in Proc :
    pc[p] = "asleep" /\ chan[p] = <<"map">> => segs = 0

\* The same for those who wait for room, when msg_qbytes may be raised.
RoomSleeperServed == \A p \in Proc :
    pc[p] = "asleep" /\ chan[p][1] = "room" => Full(call[p].q, call[p].arg.size)
=============================================================================
