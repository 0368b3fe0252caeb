----------------------------- MODULE NfsServer -----------------------------
(***************************************************************************)
(* The server half of kernel RPC as NFS uses it: the daemons take requests *)
(* from one socket (src/sys/rpc/svc_kudp.c), do them (rfs_create, rfs_     *)
(* write, rfs_remove, rfs_rmdir, rfs_link and rfs_mkdir in src/sys/nfs/    *)
(* nfs_server.c) and keep the transaction ids of those that change a       *)
(* directory, to recognise a retransmission.                               *)
(*                                                                         *)
(* There is one client, which makes one call after the other and keeps     *)
(* sending its request until it has a reply: MaxCopies of a request reach  *)
(* the server at most, in any order, and with Late also after the call has *)
(* ended.                                                                  *)
(* The names are a file "f" and a directory "d" in one exported directory. *)
(* A daemon sleeps with the file locked while it truncates it, and may     *)
(* sleep in iput() after a change, before it saves the transaction id.     *)
(* The bounds are MaxCalls and MaxCopies.                                  *)
(***************************************************************************)
EXTENDS Integers, FiniteSets, FiniteSetsExt, Sequences, SequencesExt

CONSTANTS
    Nfsd,        \* the daemons
    Ops,         \* the procedures the client calls
    MAXDUPREQS,  \* size of the cache
    Late,        \* may a request arrive after its call has ended
    Reboots,     \* how often the client may crash and start again
    MaxCalls,    \* bound: calls of the client
    MaxCopies,   \* bound: copies of a request that the server gets
    None         \* no daemon has the file locked

NfsServerConstants ==
    /\ Ops \subseteq {"create", "write", "remove", "link", "mkdir", "rmdir"}
    /\ MAXDUPREQS \in Nat \ {0} /\ Late \in BOOLEAN /\ Reboots \in Nat
    /\ MaxCalls \in Nat \ {0} /\ MaxCopies \in Nat \ {0} /\ None \notin Nfsd

ASSUME NfsAssumption == NfsServerConstants

\* A request: the number of the call, its transaction id, its procedure and the
\* copies of it that may still arrive.
Call == 1 .. MaxCalls
NfsXid == 1 .. MaxCalls
Req == [call : Call, xid : NfsXid, op : Ops, left : 0 .. MaxCopies]

VARIABLES
    net,        \* requests on the wire
    dup,        \* the cache, the oldest entry first
    files,      \* the names that exist
    data,       \* the calls whose writes are in the file
    lock,       \* who has locked the file
    nfsd,       \* what each daemon does
    nfsxid,     \* clntkudpxid of the client
    cl,         \* the client: its last call, what it has been told, the writes it
                \* relies on and what the file held when the call was made
    did,        \* the calls that have made their change
    boots       \* how often it has started again

nfsVars == <<net, dup, files, data, lock, nfsd, nfsxid, cl, did, boots>>

IdleNfsd == [pc |-> "idle", req |-> <<>>, trunc |-> FALSE]

\* The client begins with both names there or none, and nothing in the file.
NfsInit ==
    /\ net = {} /\ dup = <<>> /\ files \in SUBSET {"f", "d"} /\ data = {} /\ lock = None
    /\ nfsd = [n \in Nfsd |-> IdleNfsd] /\ nfsxid = 1 /\ did = {} /\ boots = 0
    /\ cl = [call |-> 0, waiting |-> FALSE, op |-> "none", status |-> "ok", kept |-> {},
             before |-> {}]

----------------------------------------------------------------------------
(* The client *)

Quiet == \A n \in Nfsd : nfsd[n].pc = "idle"

\* A new call.  Its transaction id is the next one.
Begin(op) ==
    LET c == cl.call + 1
        old == IF Late THEN net ELSE {}
    IN  /\ ~cl.waiting /\ c \in Call /\ nfsxid \in NfsXid
        /\ net' = old \cup {[call |-> c, xid |-> nfsxid, op |-> op, left |-> MaxCopies]}
        /\ nfsxid' = nfsxid + 1
        /\ cl' = [cl EXCEPT !.call = c, !.waiting = TRUE, !.op = op, !.before = data,
                     !.kept = IF op \in {"create", "remove"} THEN {} ELSE @]
        /\ UNCHANGED <<dup, files, data, lock, nfsd, did, boots>>

\* The machine of the client stops and starts again; the new kernel counts its
\* transaction ids from the ticks since it started.  (Requests of the old one are
\* gone.)
Reboot ==
    /\ boots < Reboots /\ boots' = boots + 1 /\ Quiet
    /\ nfsxid' \in NfsXid /\ cl' = [cl EXCEPT !.waiting = FALSE, !.op = "none", !.status = "ok"]
    /\ net' = {}
    /\ UNCHANGED <<dup, files, data, lock, nfsd, did>>

----------------------------------------------------------------------------
(* The cache: svckudp_dup() and svckudp_dupsave() *)

MutDup(r) == FALSE

Dup(r) == \E k \in DOMAIN dup : dup[k] = [xid |-> r.xid, op |-> r.op]

MutDupSave(r) == Append(dup, [xid |-> r.xid, op |-> r.op])

\* A new entry takes the place of the oldest one when the cache is full.
DupSave(r) ==
    LET q == IF Len(dup) < MAXDUPREQS THEN dup ELSE Tail(dup)
    IN  Append(q, [xid |-> r.xid, op |-> r.op])

----------------------------------------------------------------------------
(* The daemons *)

\* svckudp_recv()
Receive(n) ==
    /\ nfsd[n].pc = "idle"
    /\ \E r \in net :
         /\ nfsd' = [nfsd EXCEPT ![n] = [pc |-> "work", req |-> r, trunc |-> FALSE]]
         /\ net' = (net \ {r}) \cup (IF r.left = 1 THEN {} ELSE {[r EXCEPT !.left = @ - 1]})
    /\ UNCHANGED <<dup, files, data, lock, nfsxid, cl, did, boots>>

\* svckudp_send(): a reply that arrives.  One that is lost is the same as a
\* request that is not answered; the client takes the first reply of its call.
Told(r, st) ==
    IF cl.waiting /\ r.call = cl.call
    THEN [cl EXCEPT !.waiting = FALSE, !.status = st,
            !.kept = IF r.op = "write" /\ st = "ok" THEN @ \cup {r.call} ELSE @]
    ELSE cl

Reply(n, st) ==
    /\ nfsd' = [nfsd EXCEPT ![n] = IdleNfsd]
    /\ cl' \in {cl, Told(nfsd[n].req, st)}
    /\ UNCHANGED <<net, lock, nfsxid, did, boots>>

\* The change is made; the daemon may sleep before it goes on.
Saves(n) ==
    /\ nfsd' = [nfsd EXCEPT ![n].pc = "save"] /\ did' = did \cup {nfsd[n].req.call}
    /\ UNCHANGED <<net, dup, nfsxid, cl, boots>>

Works(n, ops) == nfsd[n].pc = "work" /\ nfsd[n].req.op \in ops

MutTruncates(n) == "f" \in files /\ ~\E k \in DOMAIN dup : dup[k].op = "create"

\* Does rfs_create() truncate the file it has found?
Truncates(n) == "f" \in files /\ ~Dup(nfsd[n].req)

\* rfs_create(): the file is found or made, and is locked.
rfs_create(n) ==
    /\ Works(n, {"create"}) /\ lock = None /\ lock' = n
    /\ files' = files \cup {"f"}
    /\ nfsd' = [nfsd EXCEPT ![n].pc = "trunc", ![n].trunc = Truncates(n)]
    /\ UNCHANGED <<net, dup, data, nfsxid, cl, did, boots>>

\* FS_ITRUNC() if need be, and iput().
CreateTruncates(n) ==
    /\ nfsd[n].pc = "trunc" /\ data' = IF nfsd[n].trunc THEN {} ELSE data
    /\ lock' = None /\ Saves(n) /\ UNCHANGED files

\* svckudp_dupsave() and the reply.
SaveReplies(n) ==
    /\ nfsd[n].pc = "save" /\ dup' = DupSave(nfsd[n].req)
    /\ Reply(n, "ok") /\ UNCHANGED <<files, data>>

\* A write does not look at the cache.
rfs_write(n) ==
    /\ Works(n, {"write"}) /\ lock = None
    /\ \/ "f" \in files /\ data' = data \cup {nfsd[n].req.call} /\ Reply(n, "ok")
       \/ "f" \notin files /\ Reply(n, "ENOENT") /\ UNCHANGED data
    /\ UNCHANGED <<dup, files>>

\* An error that the cache explains is none, and is saved once more.
Refused(n, st) ==
    /\ IF Dup(nfsd[n].req) THEN dup' = DupSave(nfsd[n].req) /\ Reply(n, "ok")
       ELSE Reply(n, st) /\ UNCHANGED dup
    /\ UNCHANGED <<files, data>>

rfs_remove(n) ==
    /\ Works(n, {"remove"}) /\ lock = None
    /\ \/ /\ "f" \in files /\ files' = files \ {"f"} /\ data' = {} /\ Saves(n)
          /\ UNCHANGED lock
       \/ "f" \notin files /\ Refused(n, "ENOENT")

rfs_rmdir(n) ==
    /\ Works(n, {"rmdir"})
    /\ \/ "d" \in files /\ files' = files \ {"d"} /\ Saves(n) /\ UNCHANGED <<data, lock>>
       \/ "d" \notin files /\ Refused(n, "ENOENT")

rfs_link(n) ==
    /\ Works(n, {"link"})
    /\ \/ "f" \notin files /\ files' = files \cup {"f"} /\ Saves(n) /\ UNCHANGED <<data, lock>>
       \/ "f" \in files /\ Refused(n, "EEXIST")

rfs_mkdir(n) ==
    /\ Works(n, {"mkdir"})
    /\ \/ "d" \notin files /\ files' = files \cup {"d"} /\ Saves(n) /\ UNCHANGED <<data, lock>>
       \/ "d" \in files /\ Refused(n, "EEXIST")

NfsNext ==
    \/ \E op \in Ops : Begin(op)
    \/ Reboot
    \/ \E n \in Nfsd : \/ Receive(n) \/ rfs_create(n) \/ CreateTruncates(n) \/ SaveReplies(n)
                       \/ rfs_write(n) \/ rfs_remove(n) \/ rfs_rmdir(n) \/ rfs_link(n)
                       \/ rfs_mkdir(n)

NfsSpec == NfsInit /\ [][NfsNext]_nfsVars

----------------------------------------------------------------------------
(* Properties *)

\* The types; the cache is not longer than it may be, and the file is locked by
\* the daemon that truncates it.
NfsType ==
    /\ net \subseteq Req /\ files \subseteq {"f", "d"} /\ data \subseteq Call
    /\ dup \in Seq([xid : NfsXid, op : Ops]) /\ Len(dup) <= MAXDUPREQS
    /\ \A n \in Nfsd : nfsd[n].pc \in {"idle", "work", "trunc", "save"}
                       /\ (nfsd[n].pc = "trunc" <=> lock = n)
    /\ nfsxid \in 1 .. MaxCalls + 1 /\ did \subseteq Call /\ boots \in 0 .. Reboots
    /\ cl.call \in 0 .. MaxCalls /\ cl.kept \cup cl.before \subseteq Call

\* The client is not told that a call has failed whose change has been made: when
\* a retransmission finds the name gone (or there), the cache explains it.
NoFalseError == ~cl.waiting /\ cl.call \in did => cl.status = "ok"

\* What the client has been told is written stays in the file until the client
\* itself truncates or removes it: a copy of an earlier call does not undo it.
AckedKept == cl.kept \subseteq data

\* A file that the client has been told is created holds nothing of what was
\* written before.
CreateEmpties ==
    ~cl.waiting /\ cl.op = "create" /\ cl.status = "ok" => data \cap cl.before = {}
=============================================================================
