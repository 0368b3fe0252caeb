----------------------------- MODULE RpcClient -----------------------------
(***************************************************************************)
(* The client half of kernel RPC as NFS uses it: the table of handles      *)
(* (clget, clfree, rfscall in src/sys/nfs/nfs_subr.c) and a call through a *)
(* handle (clntkudp_create, clntkudp_callit, ckuwakeup, buffree, bufdup in *)
(* src/sys/rpc/clnt_kudp.c).                                               *)
(*                                                                         *)
(* A step is what a process does from one sleep to the next; the network   *)
(* interface, the socket layer and the clock interrupt between steps.  A   *)
(* datagram is its transaction id.  The server is outside: whatever has    *)
(* been sent on a handle may be answered any number of times, in any order,*)
(* at any time, or never.  The bounds are MaxXid on the number of calls    *)
(* and QMax on what an interface or a socket keeps.                        *)
(***************************************************************************)
EXTENDS Integers, FiniteSets, FiniteSetsExt, Sequences, SequencesExt

CONSTANTS
    Proc,        \* processes
    Hard,        \* those who use a hard mounted file system (mi_hard)
    MAXCLIENTS,  \* entries of chtable
    retrys,      \* cku_retrys: how often a request is sent (mi_retrans)
    RECVTRIES,   \* how many datagrams one transmission looks at
    Faults,      \* failures that may happen: "send", "encode", "denied" and
                 \* "unavail" (two kinds of error replies), "fatalsig"
    MaxXid,      \* bound: transaction ids
    QMax         \* bound: datagrams in an interface or socket queue

\* What the constants have to satisfy; the MC modules assume it of theirs.
RpcClientConstants ==
    /\ Hard \subseteq Proc /\ MAXCLIENTS \in Nat \ {0} /\ retrys \in Nat \ {0}
    /\ RECVTRIES \in Nat \ {0} /\ MaxXid \in Nat \ {0} /\ QMax \in Nat \ {0}
    /\ Faults \subseteq {"send", "encode", "denied", "unavail", "fatalsig"}

ASSUME RpcAssumption == RpcClientConstants

Slot == 1 .. MAXCLIENTS
Xid == 1 .. MaxXid

VARIABLES
    ch,         \* chtable: is an entry in use, by a hard mount, has it a handle
    cku,        \* the private data of the handles
    ifq,        \* requests that the interface still reads from cku_outbuf
    sent,       \* what the interface has sent from each handle
    rcv,        \* the receive queues of the sockets
    timo,       \* is a call of ckuwakeup() pending
    nextxid,    \* clntkudpxid
    pr          \* where each process is, with the variables of its call

vars == <<ch, cku, ifq, sent, rcv, timo, nextxid, pr>>

\* The errors of a call after which a hard mount tries again; an error reply says
\* "unavail" (of a program or procedure, of the server's memory) or one that lasts.
Retry == {"timedout", "cantrecv", "cantsend", "unavail"}

Init ==
    /\ ch = [s \in Slot |-> [inuse |-> FALSE, hard |-> FALSE, client |-> FALSE]]
    /\ cku = [s \in Slot |-> [busy |-> FALSE, timedout |-> FALSE, bufwanted |-> FALSE,
                              count |-> 0, outxid |-> 0]]
    /\ ifq = [s \in Slot |-> <<>>] /\ sent = [s \in Slot |-> {}]
    /\ rcv = [s \in Slot |-> <<>>] /\ timo = [s \in Slot |-> FALSE]
    /\ nextxid = 1
    /\ pr = [p \in Proc |-> [pc |-> "idle", s |-> 0, xid |-> 0, stries |-> 0, rtries |-> 0,
                             got |-> 0, status |-> "none"]]

Goto(p, pc) == pr' = [pr EXCEPT ![p].pc = pc]
Net == <<ifq, sent, rcv, timo>>

----------------------------------------------------------------------------
(* The handles: clget() and clfree() *)

\* The entry clget() takes: the first free one, but not the last entry of the
\* table for a hard mount when hard mounts have all the others.
Takes(p) ==
    LET Free == {s \in Slot : ~ch[s].inuse}
        s == Min(Free)
    IN  IF Free = {} THEN 0
        ELSE IF /\ p \in Hard /\ s = MAXCLIENTS
                /\ \A t \in Slot \ {s} : ch[t].hard THEN 0
        ELSE s

MutEntryTaken(s, p) == [ch EXCEPT ![s].hard = p \in Hard, ![s].inuse = ch[s].client]

\* The entry is in use before the handle is made, which may sleep.
EntryTaken(s, p) == [ch EXCEPT ![s].inuse = TRUE, ![s].hard = p \in Hard]

clget(p) ==
    LET s == Takes(p)
    IN  /\ pr[p].pc \in {"idle", "clget"}
        /\ \/ s = 0 /\ Goto(p, "clwait") /\ UNCHANGED ch
           \/ /\ s # 0 /\ ch' = EntryTaken(s, p)
              /\ pr' = [pr EXCEPT ![p].s = s,
                          ![p].pc = IF ch[s].client THEN "call" ELSE "create"]
        /\ UNCHANGED <<cku, Net, nextxid>>

\* clntkudp_create() has allocated what it needs.
clntkudp_create(p) ==
    /\ pr[p].pc = "create"
    /\ ch' = [ch EXCEPT ![pr[p].s].client = TRUE, ![pr[p].s].inuse = TRUE]
    /\ Goto(p, "call") /\ UNCHANGED <<cku, Net, nextxid>>

MutWoken(p) == [q \in Proc |-> IF pr[q].pc = "clwait" /\ q \in Hard
                               THEN [pr[q] EXCEPT !.pc = "clget"] ELSE pr[q]]

\* Everybody who waits for an entry looks again.
Woken(p) == [q \in Proc |-> IF pr[q].pc = "clwait" THEN [pr[q] EXCEPT !.pc = "clget"] ELSE pr[q]]

clfree(p) ==
    /\ ch' = [ch EXCEPT ![pr[p].s].inuse = FALSE]
    /\ pr' = [Woken(p) EXCEPT ![p].pc = "idle", ![p].s = 0]

\* rfscall() after a call: a hard mount tries again for ever, with a call of
\* its own, unless the error is one that lasts or the process is to die.
rfscall(p) ==
    LET again == p \in Hard /\ pr[p].status \in Retry
    IN  /\ pr[p].pc = "ret"
        /\ \/ again /\ Goto(p, "call") /\ UNCHANGED ch
           \/ (again => "fatalsig" \in Faults) /\ clfree(p)
        /\ UNCHANGED <<cku, Net, nextxid>>

----------------------------------------------------------------------------
(* A call: clntkudp_callit() *)

\* Nobody else has the handle, so that the wait for CKU_BUSY is not needed.
callit(p) ==
    LET s == pr[p].s
    IN  /\ pr[p].pc = "call" /\ nextxid \in Xid
        /\ cku' = [cku EXCEPT ![s].busy = TRUE] /\ nextxid' = nextxid + 1
        /\ pr' = [pr EXCEPT ![p].pc = "again", ![p].xid = nextxid, ![p].stries = retrys,
                            ![p].got = 0, ![p].status = "none"]
        /\ UNCHANGED <<ch, Net>>

MutTries(p, st) == IF st \in {"success", "cantencode"} THEN 0 ELSE pr[p].stries

\* What is left of the transmissions when one ends with status st.
Tries(p, st) == IF st \in {"success", "cantencode"} THEN 0 ELSE pr[p].stries - 1

\* The label done: send again, after a second when something was short, or
\* give up the handle.  K is the handle's private data.
Done(p, st, x, K) ==
    LET n == Tries(p, st)
    IN  /\ pr' = [pr EXCEPT ![p].status = st, ![p].stries = n, ![p].got = x,
                    ![p].pc = IF n = 0 THEN "ret"
                              ELSE IF st = "cantsend" THEN "lbolt" ELSE "again"]
        /\ cku' = [cku EXCEPT ![pr[p].s] = [K EXCEPT !.busy = (n # 0)]]

MutBufBusy(k) == FALSE

\* Does the interface still read the last request from the buffer?
BufBusy(k) == k.count > 0

MutFreed(k) == [k EXCEPT !.bufwanted = FALSE]

\* A chain that refers to the buffer is freed.
Freed(k) == [k EXCEPT !.count = @ - 1, !.bufwanted = @ /\ k.count > 1]

\* call_again: wait for the buffer, or encode the request and send it.
CallAgain(p) ==
    LET s == pr[p].s
        k == cku[s]
        out == [k EXCEPT !.count = 1, !.outxid = pr[p].xid]
    IN  /\ pr[p].pc = "again"
        /\ \/ /\ BufBusy(k) /\ Goto(p, "bufwait")
              /\ cku' = [cku EXCEPT ![s].bufwanted = TRUE] /\ UNCHANGED ifq
           \/ /\ ~BufBusy(k) /\ "encode" \in Faults
              /\ Done(p, "cantencode", 0, Freed(out)) /\ UNCHANGED ifq
           \/ /\ ~BufBusy(k) /\ "send" \in Faults
              /\ Done(p, "cantsend", 0, Freed(out)) /\ UNCHANGED ifq
           \/ /\ ~BufBusy(k) /\ Len(ifq[s]) < QMax
              /\ cku' = [cku EXCEPT ![s] = out]
              /\ ifq' = [ifq EXCEPT ![s] = Append(@, pr[p].xid)]
              /\ pr' = [pr EXCEPT ![p].pc = "recv", ![p].rtries = RECVTRIES]
        /\ UNCHANGED <<ch, sent, rcv, timo, nextxid>>

\* A second has passed, or buffree() has called wakeup().
BufWaited(p) ==
    /\ pr[p].pc = "bufwait" /\ rcv' = [rcv EXCEPT ![pr[p].s] = <<>>]
    /\ Goto(p, "again") /\ UNCHANGED <<ch, cku, ifq, sent, timo, nextxid>>

LboltWaited(p) ==
    /\ pr[p].pc = "lbolt" /\ Goto(p, "again") /\ UNCHANGED <<ch, cku, Net, nextxid>>

MutIsReply(p, x) == TRUE

\* The id of the datagram against the one in the output buffer.
IsReply(p, x) == x = cku[pr[p].s].outxid

\* Arm the timer and sleep.
RecvSleeps(p) ==
    /\ rcv[pr[p].s] = <<>>
    /\ timo' = [timo EXCEPT ![pr[p].s] = TRUE] /\ Goto(p, "rwait")
    /\ UNCHANGED <<ch, cku, ifq, sent, rcv, nextxid>>

\* The reply, of success or of an error; what else has arrived is thrown away.
RecvReply(p) ==
    LET s == pr[p].s
    IN  /\ rcv[s] # <<>> /\ IsReply(p, Head(rcv[s]))
        /\ rcv' = [rcv EXCEPT ![s] = <<>>]
        /\ \E st \in {"success"} \cup ({"denied", "unavail"} \cap Faults) : Done(p, st, Head(rcv[s]), cku[s])
        /\ UNCHANGED <<ch, ifq, sent, timo, nextxid>>

\* Not the reply, or a datagram that is too short.
RecvOther(p) ==
    LET s == pr[p].s
        n == pr[p].rtries - 1
    IN  /\ rcv[s] # <<>> /\ ~IsReply(p, Head(rcv[s]))
        /\ rcv' = [rcv EXCEPT ![s] = Tail(@)]
        /\ \/ n > 0 /\ pr' = [pr EXCEPT ![p].rtries = n] /\ UNCHANGED cku
           \/ n = 0 /\ Done(p, "cantrecv", 0, cku[s])
        /\ UNCHANGED <<ch, ifq, sent, timo, nextxid>>

\* The receive loop.
Recv(p) == pr[p].pc = "recv" /\ (RecvSleeps(p) \/ RecvReply(p) \/ RecvOther(p))

MutUntimeout(s) == timo

Untimeout(s) == [timo EXCEPT ![s] = FALSE]

\* The sleeper runs: the timer is taken back and the flag looked at.
RecvWakes(p) ==
    LET s == pr[p].s
    IN  /\ pr[p].pc = "rwoken" /\ timo' = Untimeout(s)
        /\ \/ /\ cku[s].timedout /\ Done(p, "timedout", 0, [cku[s] EXCEPT !.timedout = FALSE])
           \/ ~cku[s].timedout /\ Goto(p, "recv") /\ UNCHANGED cku
        /\ UNCHANGED <<ch, ifq, sent, rcv, nextxid>>

----------------------------------------------------------------------------
(* Interrupts *)

\* sbwakeup() on the socket of handle s.
SocketWoken(s) ==
    [q \in Proc |-> IF pr[q].pc = "rwait" /\ pr[q].s = s THEN [pr[q] EXCEPT !.pc = "rwoken"]
                    ELSE pr[q]]

ckuwakeup(s) ==
    /\ timo[s] /\ timo' = [timo EXCEPT ![s] = FALSE]
    /\ cku' = [cku EXCEPT ![s].timedout = TRUE] /\ pr' = SocketWoken(s)
    /\ UNCHANGED <<ch, ifq, sent, rcv, nextxid>>

\* buffree(): the interface has sent a datagram, with what the buffer then holds.
\* The sleeper it wakes may be woken by its timer in any case: BufWaited.
buffree(s) ==
    /\ ifq[s] # <<>> /\ ifq' = [ifq EXCEPT ![s] = Tail(@)]
    /\ sent' = [sent EXCEPT ![s] = @ \cup {cku[s].outxid}]
    /\ cku' = [cku EXCEPT ![s] = Freed(@)]
    /\ UNCHANGED <<ch, rcv, timo, nextxid, pr>>

\* bufdup(): the network copies the chain without copying the buffer.
bufdup(s) ==
    /\ ifq[s] # <<>> /\ Len(ifq[s]) < QMax
    /\ ifq' = [ifq EXCEPT ![s] = Append(@, Last(@))]
    /\ cku' = [cku EXCEPT ![s].count = @ + 1]
    /\ UNCHANGED <<ch, sent, rcv, timo, nextxid, pr>>

\* A reply reaches the socket.
Arrive(s, x) ==
    /\ x \in sent[s] /\ Len(rcv[s]) < QMax
    /\ rcv' = [rcv EXCEPT ![s] = Append(@, x)] /\ pr' = SocketWoken(s)
    /\ UNCHANGED <<ch, cku, ifq, sent, timo, nextxid>>

\* What a process does on its own, and what must end when it waits.
Runs(p) == \/ clntkudp_create(p) \/ rfscall(p) \/ callit(p) \/ CallAgain(p)
           \/ BufWaited(p) \/ LboltWaited(p) \/ Recv(p) \/ RecvWakes(p)

Next ==
    \/ \E p \in Proc : clget(p) \/ Runs(p)
    \/ \E s \in Slot : ckuwakeup(s) \/ buffree(s) \/ bufdup(s)
    \/ \E s \in Slot, x \in Xid : Arrive(s, x)

Spec == Init /\ [][Next]_vars

\* Processes get the processor, timers expire and interfaces send: nothing is
\* asked of the server.
FairSpec ==
    /\ Spec /\ \A p \in Proc : WF_vars(Runs(p)) /\ WF_vars(clget(p) /\ pr[p].pc = "clget")
    /\ \A s \in Slot : WF_vars(ckuwakeup(s)) /\ WF_vars(buffree(s))

----------------------------------------------------------------------------
(* Properties *)

Pcs == {"idle", "clget", "clwait", "create", "call", "again", "bufwait", "lbolt", "recv",
        "rwait", "rwoken", "ret"}
Status == {"none", "success", "denied", "cantencode"} \cup Retry

ChType == [inuse : BOOLEAN, hard : BOOLEAN, client : BOOLEAN]
CkuType == [busy : BOOLEAN, timedout : BOOLEAN, bufwanted : BOOLEAN, count : 0 .. QMax,
            outxid : 0 .. MaxXid]
PrType == [pc : Pcs, s : 0 .. MAXCLIENTS, xid : 0 .. MaxXid, stries : 0 .. retrys,
           rtries : 0 .. RECVTRIES, got : 0 .. MaxXid, status : Status]

\* The types, and cku_count counts the datagrams that refer to the buffer: the
\* assertions of callit(), buffree() and bufdup() hold.
TypeOK ==
    /\ ch \in [Slot -> ChType] /\ cku \in [Slot -> CkuType]
    /\ ifq \in [Slot -> Seq(Xid)] /\ sent \in [Slot -> SUBSET Xid]
    /\ rcv \in [Slot -> Seq(Xid)] /\ timo \in [Slot -> BOOLEAN]
    /\ nextxid \in 1 .. MaxXid + 1 /\ pr \in [Proc -> PrType]
    /\ \A s \in Slot : cku[s].count = Len(ifq[s])

Calling(p) == pr[p].pc \in {"again", "bufwait", "lbolt", "recv", "rwait", "rwoken"}

\* clget() gives a handle to one process at a time, and a handle is CKU_BUSY
\* exactly while its process is in callit(): nobody would wait for CKU_BUSY.
OneCaller ==
    /\ \A p, q \in Proc : pr[p].s # 0 /\ pr[p].s = pr[q].s => p = q
    /\ \A s \in Slot : cku[s].busy <=> \E p \in Proc : pr[p].s = s /\ Calling(p)

\* The buffer is not written while the interface reads it: every datagram is
\* sent with the id (and the arguments) it was queued with, even when the call
\* has ended in the meantime and another has begun.
SentIntact == \A s \in Slot : \A i \in DOMAIN ifq[s] : ifq[s][i] = cku[s].outxid

\* A reply is taken for the call it answers, although replies of earlier calls
\* on the handle come late and more than once.
ReplyMine ==
    \A p \in Proc : pr[p].status \in {"success", "denied", "unavail"} => pr[p].got = pr[p].xid

\* CKU_TIMEDOUT is about the sleep that has just ended: a timer that is left
\* over from one sleep would end the next.
TimeoutFresh ==
    \A s \in Slot :
        /\ timo[s] => \E p \in Proc : pr[p].s = s /\ pr[p].pc \in {"rwait", "rwoken"}
        /\ cku[s].timedout => \E p \in Proc : pr[p].s = s /\ pr[p].pc = "rwoken"

\* A call is its own from the request to the reply: in spite of retransmissions, late
\* and duplicated replies, timeouts, and requests that the interface still has when
\* the call has ended.
CallIntact == TypeOK /\ OneCaller /\ SentIntact /\ ReplyMine /\ TimeoutFresh

\* Nobody sleeps in clget() while there is an entry for him, and nobody sleeps
\* for a reply without a timer.
NobodyForgotten ==
    \A p \in Proc :
        /\ pr[p].pc = "clwait" => Takes(p) = 0
        /\ pr[p].pc = "rwait" => timo[pr[p].s] /\ rcv[pr[p].s] = <<>>

\* "Don't let hard RPCs tie up chtable" (clget()).
HardLeaveOne == ~\A s \in Slot : ch[s].inuse /\ ch[s].hard

\* A call ends, whatever the network does: it is sent retrys times.
CallEnds == \A p \in Proc : pr[p].pc = "again" ~> pr[p].pc = "ret"
=============================================================================
