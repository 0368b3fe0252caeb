------------------------------ MODULE RpcProof ------------------------------
(***************************************************************************)
(* A call of the kernel's RPC client is its own, and nobody is forgotten,  *)
(* for any number of processes, handles, transmissions and datagrams; and  *)
(* when retransmissions do no harm on the server, for any number of        *)
(* daemons, calls, copies of a request and entries of the cache.           *)
(***************************************************************************)
EXTENDS RpcClient, NfsServer, WellFoundedInduction, TLAPS

\* A non-empty set of naturals has a least element.
LEMMA Smallest ==
    ASSUME NEW T \in SUBSET Nat, T # {}
    PROVE  \E n \in T : \A m \in T : n <= m
<1> DEFINE R == OpToRel(<, Nat)
<1>1. IsWellFoundedOn(R, Nat)
    BY NatLessThanWellFounded, Zenon
<1>2. PICK n \in T : \A m \in T : <<m, n>> \notin R
    <2> HIDE DEF R
    <2> QED BY <1>1, WFMin, Zenon
<1>3. \A m \in T : ~(m < n)
    BY <1>2 DEF OpToRel
<1> QED BY <1>3

\* Where a process has a handle.
Holds(p) == Calling(p) \/ pr[p].pc \in {"create", "call", "ret"}

\* A process has a handle from clget() to clfree(), which is in use then.
HandleHeld == \A p \in Proc :
    /\ Holds(p) <=> pr[p].s # 0
    /\ pr[p].s # 0 => ch[pr[p].s].inuse

\* From the transmission on the output buffer has the id of the call.
RequestOut == \A p \in Proc :
    /\ Calling(p) => pr[p].xid \in Xid /\ pr[p].stries > 0
    /\ pr[p].pc \in {"recv", "rwait", "rwoken"} => cku[pr[p].s].outxid = pr[p].xid

RpcInv ==
    /\ TypeOK /\ HandleHeld /\ OneCaller /\ SentIntact /\ RequestOut
    /\ ReplyMine /\ TimeoutFresh /\ NobodyForgotten

-----------------------------------------------------------------------------
(* Records and their updates.  The provers take a record that is written   *)
(* field by field; these lemmas turn EXCEPT into that form.                *)

Pr(pc, s, xid, st, rt, got, u) ==
    [pc |-> pc, s |-> s, xid |-> xid, stries |-> st, rtries |-> rt, got |-> got, status |-> u]
Cku(b, t, w, c, x) ==
    [busy |-> b, timedout |-> t, bufwanted |-> w, count |-> c, outxid |-> x]

LEMMA Constants ==
    /\ MAXCLIENTS \in Nat /\ MAXCLIENTS > 0 /\ retrys \in Nat /\ retrys > 0
    /\ RECVTRIES \in Nat /\ RECVTRIES > 0 /\ MaxXid \in Nat /\ MaxXid > 0
    /\ QMax \in Nat /\ QMax > 0 /\ Hard \subseteq Proc
BY RpcAssumption DEF RpcClientConstants

LEMMA PrFields ==
    ASSUME NEW r \in PrType
    PROVE  /\ r.pc \in Pcs /\ r.s \in 0 .. MAXCLIENTS /\ r.xid \in 0 .. MaxXid
           /\ r.stries \in 0 .. retrys /\ r.rtries \in 0 .. RECVTRIES /\ r.got \in 0 .. MaxXid
           /\ r.status \in Status
           /\ r = Pr(r.pc, r.s, r.xid, r.stries, r.rtries, r.got, r.status)
BY DEF PrType, Pr

LEMMA PrPc ==
    ASSUME NEW f \in [Proc -> PrType], NEW p \in Proc, NEW c,
           NEW g, g = [f EXCEPT ![p].pc = c]
    PROVE  g = [f EXCEPT ![p] = Pr(c, f[p].s, f[p].xid, f[p].stries, f[p].rtries, f[p].got,
                                   f[p].status)]
<1>1. g[p] = Pr(c, f[p].s, f[p].xid, f[p].stries, f[p].rtries, f[p].got, f[p].status)
    BY DEF PrType, Pr
<1>2. g = [q \in Proc |-> g[q]] /\ \A q \in Proc : q # p => g[q] = f[q]
    OBVIOUS
<1> QED BY <1>1, <1>2

LEMMA PrRtries ==
    ASSUME NEW f \in [Proc -> PrType], NEW p \in Proc, NEW n,
           NEW g, g = [f EXCEPT ![p].rtries = n]
    PROVE  g = [f EXCEPT ![p] = Pr(f[p].pc, f[p].s, f[p].xid, f[p].stries, n, f[p].got,
                                   f[p].status)]
<1>1. g[p] = Pr(f[p].pc, f[p].s, f[p].xid, f[p].stries, n, f[p].got, f[p].status)
    BY DEF PrType, Pr
<1>2. g = [q \in Proc |-> g[q]] /\ \A q \in Proc : q # p => g[q] = f[q]
    OBVIOUS
<1> QED BY <1>1, <1>2

\* A process gets new values.
LEMMA PrSet ==
    ASSUME NEW f \in [Proc -> PrType], NEW p \in Proc, NEW c \in Pcs, NEW s \in 0 .. MAXCLIENTS,
           NEW x \in 0 .. MaxXid, NEW n \in 0 .. retrys, NEW m \in 0 .. RECVTRIES,
           NEW y \in 0 .. MaxXid, NEW u \in Status,
           NEW g, g = [f EXCEPT ![p] = Pr(c, s, x, n, m, y, u)]
    PROVE  /\ g \in [Proc -> PrType] /\ \A q \in Proc : q # p => g[q] = f[q]
           /\ g[p].pc = c /\ g[p].s = s /\ g[p].xid = x /\ g[p].stries = n
           /\ g[p].rtries = m /\ g[p].got = y /\ g[p].status = u
<1>1. Pr(c, s, x, n, m, y, u) \in PrType
    BY DEF Pr, PrType
<1>2. g[p] = Pr(c, s, x, n, m, y, u)
    OBVIOUS
<1>3. /\ g[p].pc = c /\ g[p].s = s /\ g[p].xid = x /\ g[p].stries = n
      /\ g[p].rtries = m /\ g[p].got = y /\ g[p].status = u
    BY <1>2 DEF Pr
<1>4. g \in [Proc -> PrType] /\ \A q \in Proc : q # p => g[q] = f[q]
    BY <1>1
<1> QED BY <1>3, <1>4

LEMMA CkuFields ==
    ASSUME NEW k \in CkuType
    PROVE  /\ k.busy \in BOOLEAN /\ k.timedout \in BOOLEAN /\ k.bufwanted \in BOOLEAN
           /\ k.count \in 0 .. QMax /\ k.outxid \in 0 .. MaxXid
           /\ k = Cku(k.busy, k.timedout, k.bufwanted, k.count, k.outxid)
BY DEF CkuType, Cku

\* The updates of a handle's private data and of an entry of the table.
LEMMA CkuForms ==
    ASSUME NEW k \in CkuType, NEW v
    PROVE  /\ [k EXCEPT !.busy = v] = Cku(v, k.timedout, k.bufwanted, k.count, k.outxid)
           /\ [k EXCEPT !.timedout = v] = Cku(k.busy, v, k.bufwanted, k.count, k.outxid)
<1>1. [k EXCEPT !.busy = v] = Cku(v, k.timedout, k.bufwanted, k.count, k.outxid)
    BY DEF CkuType, Cku
<1>2. [k EXCEPT !.timedout = v] = Cku(k.busy, v, k.bufwanted, k.count, k.outxid)
    BY DEF CkuType, Cku
<1> QED BY <1>1, <1>2

LEMMA CkuOut ==
    ASSUME NEW k \in CkuType, NEW v, NEW x, NEW g, g = [k EXCEPT !.count = v, !.outxid = x]
    PROVE  g = Cku(k.busy, k.timedout, k.bufwanted, v, x)
BY DEF CkuType, Cku

LEMMA FreedForm ==
    ASSUME NEW k \in CkuType, NEW g, g = Freed(k)
    PROVE  g = Cku(k.busy, k.timedout, k.bufwanted /\ k.count > 1, k.count - 1, k.outxid)
BY DEF CkuType, Cku, Freed

LEMMA ChTake ==
    ASSUME NEW e \in [Slot -> ChType], NEW s \in Slot, NEW v \in BOOLEAN
    PROVE  LET g == [e EXCEPT ![s].inuse = TRUE, ![s].hard = v]
           IN  /\ g \in [Slot -> ChType] /\ \A t \in Slot : t # s => g[t] = e[t]
               /\ g[s].inuse = TRUE
<1> DEFINE g == [e EXCEPT ![s].inuse = TRUE, ![s].hard = v]
<1>1. g[s] = [inuse |-> TRUE, hard |-> v, client |-> e[s].client] /\ e[s].client \in BOOLEAN
    BY DEF ChType
<1>2. g = [t \in Slot |-> g[t]] /\ \A t \in Slot : t # s => g[t] = e[t]
    OBVIOUS
<1> HIDE DEF g
<1>3. g[s] \in ChType
    BY <1>1 DEF ChType
<1>4. g \in [Slot -> ChType]
    BY <1>2, <1>3
<1>5. g[s].inuse = TRUE
    BY <1>1
<1>6. /\ g \in [Slot -> ChType] /\ \A t \in Slot : t # s => g[t] = e[t]
      /\ g[s].inuse = TRUE
    BY <1>2, <1>4, <1>5
<1> QED BY <1>6 DEF g

LEMMA ChMade ==
    ASSUME NEW e \in [Slot -> ChType], NEW s \in Slot, NEW g,
           g = [e EXCEPT ![s].client = TRUE, ![s].inuse = TRUE]
    PROVE  /\ g \in [Slot -> ChType] /\ \A t \in Slot : t # s => g[t] = e[t]
           /\ g[s].inuse = TRUE /\ g[s].hard = e[s].hard
<1>1. g[s] = [inuse |-> TRUE, hard |-> e[s].hard, client |-> TRUE] /\ e[s].hard \in BOOLEAN
    BY DEF ChType
<1>2. g = [t \in Slot |-> g[t]] /\ \A t \in Slot : t # s => g[t] = e[t]
    OBVIOUS
<1>3. g[s] \in ChType
    BY <1>1, Zenon DEF ChType
<1>4. g \in [Slot -> ChType]
    BY <1>2, <1>3
<1>5. g[s].inuse = TRUE /\ g[s].hard = e[s].hard
    BY <1>1
<1> QED BY <1>2, <1>4, <1>5

-----------------------------------------------------------------------------
(* The search of clget(). *)

\* The search in a table h.
TakesIn(h, p) ==
    LET Free == {s \in Slot : ~h[s].inuse}
        s == Min(Free)
    IN  IF Free = {} THEN 0
        ELSE IF /\ p \in Hard /\ s = MAXCLIENTS
                /\ \A t \in Slot \ {s} : h[t].hard THEN 0
        ELSE s

\* Nothing is there for p: every entry is in use, or p is of a hard mount, only the
\* last entry is free and hard mounts have the others.
Nothing(h, p) ==
    \/ \A s \in Slot : h[s].inuse
    \/ p \in Hard /\ \A t \in Slot \ {MAXCLIENTS} : h[t].inuse /\ h[t].hard

LEMMA FirstFree ==
    ASSUME NEW h, NEW Free, Free = {s \in Slot : ~h[s].inuse}, Free # {}
    PROVE  /\ Min(Free) \in Slot /\ ~h[Min(Free)].inuse
           /\ \A s \in Slot : s < Min(Free) => h[s].inuse
<1>1. Free \in SUBSET Nat
    BY Constants DEF Slot
<1>2. \E x \in Free : \A y \in Free : x <= y
    BY <1>1, Smallest
<1>3. Min(Free) \in Free /\ \A y \in Free : Min(Free) <= y
    BY <1>2, Zenon DEF Min
<1>4. Min(Free) \in Slot /\ ~h[Min(Free)].inuse
    BY <1>3, Zenon
<1>5. \A s \in Slot : s < Min(Free) => s \notin Free
    BY <1>3, <1>1, Constants DEF Slot
<1>6. \A s \in Slot : s < Min(Free) => h[s].inuse
    BY <1>5, Zenon
<1> QED BY <1>4, <1>6, Zenon

LEMMA TakesZero ==
    ASSUME NEW h, NEW p \in Proc
    PROVE  TakesIn(h, p) = 0 <=> Nothing(h, p)
<1> DEFINE Free == {s \in Slot : ~h[s].inuse}
           m == Min(Free)
<1>1. CASE Free = {}
    <2>1. TakesIn(h, p) = 0
        BY <1>1, Zenon DEF TakesIn
    <2>2. \A s \in Slot : h[s].inuse
        BY <1>1, Zenon
    <2> QED BY <2>1, <2>2, Zenon DEF Nothing
<1>2. CASE Free # {}
    <2>1. m \in Slot /\ ~h[m].inuse /\ \A s \in Slot : s < m => h[s].inuse
        BY <1>2, FirstFree, Zenon
    <2>2. TakesIn(h, p) = IF p \in Hard /\ m = MAXCLIENTS /\ \A t \in Slot \ {m} : h[t].hard
                          THEN 0 ELSE m
        BY <1>2, Zenon DEF TakesIn
    <2> HIDE DEF m
    <2>3. m # 0
        BY <2>1, Constants DEF Slot
    <2>4. m = MAXCLIENTS => \A t \in Slot \ {MAXCLIENTS} : t < m
        BY <2>1, Constants DEF Slot
    <2>5. m = MAXCLIENTS <=> \A t \in Slot \ {MAXCLIENTS} : h[t].inuse
        BY <2>1, <2>4, Zenon
    <2> QED BY <2>1, <2>2, <2>3, <2>5, Zenon DEF Nothing
<1> QED BY <1>1, <1>2

LEMMA TakesSlot ==
    ASSUME NEW p \in Proc, Takes(p) # 0
    PROVE  Takes(p) \in Slot /\ ~ch[Takes(p)].inuse
<1> DEFINE Free == {s \in Slot : ~ch[s].inuse}
<1>1. Free # {} /\ Takes(p) = Min(Free)
    BY Zenon DEF Takes
<1> QED BY <1>1, FirstFree, Zenon

LEMMA TakesNow == ASSUME NEW p \in Proc PROVE Takes(p) = 0 <=> Nothing(ch, p)
<1>1. Takes(p) = TakesIn(ch, p)
    BY Zenon DEF Takes, TakesIn
<1> QED BY <1>1, TakesZero

LEMMA TakesNext == ASSUME NEW p \in Proc PROVE Takes(p)' = 0 <=> Nothing(ch', p)
<1>1. Takes(p)' = TakesIn(ch', p)
    BY Zenon DEF Takes, TakesIn
<1> QED BY <1>1, TakesZero

-----------------------------------------------------------------------------
(* A step that concerns one process and its handle. *)

\* What the invariant says of process p, which has a handle, and of the handle.
Own(p) ==
    LET s == pr[p].s
        k == cku[s]
    IN  /\ Holds(p) /\ s \in Slot /\ k.busy = Calling(p)
        /\ \A i \in DOMAIN ifq[s] : ifq[s][i] = k.outxid
        /\ Calling(p) => pr[p].xid \in Xid /\ pr[p].stries > 0
        /\ pr[p].pc \in {"recv", "rwait", "rwoken"} => k.outxid = pr[p].xid
        /\ pr[p].status \in {"success", "denied", "unavail"} => pr[p].got = pr[p].xid
        /\ timo[s] => pr[p].pc \in {"rwait", "rwoken"}
        /\ k.timedout => pr[p].pc = "rwoken"
        /\ pr[p].pc = "rwait" => timo[s] /\ rcv[s] = <<>>

LEMMA OwnNow ==
    ASSUME RpcInv, NEW p \in Proc, pr[p].s # 0
    PROVE  Own(p)
<1>1. pr[p] \in PrType
    BY DEF RpcInv, TypeOK
<1>2. pr[p].s \in Slot
    BY <1>1, PrFields, Constants DEF Slot
<1>3. \A q \in Proc : pr[q].s = pr[p].s => q = p
    BY DEF RpcInv, OneCaller
<1>4. cku[pr[p].s] \in CkuType
    BY <1>2 DEF RpcInv, TypeOK
<1>5. cku[pr[p].s].busy = Calling(p)
    <2>1. cku[pr[p].s].busy \in BOOLEAN
        BY <1>4, CkuFields
    <2>2. cku[pr[p].s].busy <=> \E q \in Proc : pr[q].s = pr[p].s /\ Calling(q)
        BY <1>2, Zenon DEF RpcInv, OneCaller
    <2>3. Calling(p) \in BOOLEAN
        BY DEF Calling
    <2> QED BY <2>1, <2>2, <2>3, <1>3, Zenon
<1>6. /\ timo[pr[p].s] => pr[p].pc \in {"rwait", "rwoken"}
      /\ cku[pr[p].s].timedout => pr[p].pc = "rwoken"
    <2>1. TimeoutFresh
        BY DEF RpcInv
    <2>2. timo[pr[p].s] => \E q \in Proc : pr[q].s = pr[p].s /\ pr[q].pc \in {"rwait", "rwoken"}
        BY <1>2, <2>1 DEF TimeoutFresh
    <2>3. cku[pr[p].s].timedout => \E q \in Proc : pr[q].s = pr[p].s /\ pr[q].pc = "rwoken"
        BY <1>2, <2>1 DEF TimeoutFresh
    <2> QED BY <1>3, <2>2, <2>3
<1>7. Holds(p) /\ \A i \in DOMAIN ifq[pr[p].s] : ifq[pr[p].s][i] = cku[pr[p].s].outxid
    BY <1>2, Zenon DEF RpcInv, HandleHeld, SentIntact
<1>8. /\ Calling(p) => pr[p].xid \in Xid /\ pr[p].stries > 0
      /\ pr[p].pc \in {"recv", "rwait", "rwoken"} => cku[pr[p].s].outxid = pr[p].xid
      /\ pr[p].status \in {"success", "denied", "unavail"} => pr[p].got = pr[p].xid
      /\ pr[p].pc = "rwait" => timo[pr[p].s] /\ rcv[pr[p].s] = <<>>
    BY Zenon DEF RpcInv, RequestOut, ReplyMine, NobodyForgotten
<1> QED BY <1>2, <1>5, <1>6, <1>7, <1>8, Zenon DEF Own

\* The step keeps the invariant when it leaves the other processes and handles
\* alone, and its own process and handle in order.
LEMMA OwnStep ==
    ASSUME RpcInv, TypeOK', NEW p \in Proc, NEW s \in Slot, pr[p].s = s, pr'[p].s = s,
           \A t \in Slot : ch'[t].inuse = ch[t].inuse /\ ch'[t].hard = ch[t].hard,
           \A q \in Proc : q # p => pr'[q] = pr[q],
           \A t \in Slot : t # s => /\ cku'[t] = cku[t] /\ ifq'[t] = ifq[t]
                                    /\ rcv'[t] = rcv[t] /\ timo'[t] = timo[t],
           Own(p)'
    PROVE  RpcInv'
<1>0. HandleHeld /\ OneCaller /\ SentIntact /\ ReplyMine /\ TimeoutFresh /\ NobodyForgotten
    BY DEF RpcInv
<1>1. s # 0 /\ \A q \in Proc : q # p => pr[q].s # s
    BY <1>0, Constants DEF Slot, OneCaller
<1>2. /\ Holds(p)' /\ cku'[s].busy = Calling(p)'
      /\ \A i \in DOMAIN ifq'[s] : ifq'[s][i] = cku'[s].outxid
      /\ Calling(p)' => pr'[p].xid \in Xid /\ pr'[p].stries > 0
      /\ pr'[p].pc \in {"recv", "rwait", "rwoken"} => cku'[s].outxid = pr'[p].xid
      /\ pr'[p].status \in {"success", "denied", "unavail"} => pr'[p].got = pr'[p].xid
      /\ timo'[s] => pr'[p].pc \in {"rwait", "rwoken"}
      /\ cku'[s].timedout => pr'[p].pc = "rwoken"
      /\ pr'[p].pc = "rwait" => timo'[s] /\ rcv'[s] = <<>>
    BY ZenonT(60) DEF Own
<1>3. ASSUME NEW q \in Proc, q # p
      PROVE  (Calling(q)' <=> Calling(q)) /\ (Holds(q)' <=> Holds(q))
    BY <1>3, Zenon DEF Calling, Holds
<1>4. ASSUME NEW q \in Proc, q # p, pr[q].s # 0
      PROVE  /\ pr[q].s \in Slot /\ pr[q].s # s /\ pr'[q] = pr[q]
             /\ Calling(q) => pr[q].xid \in Xid /\ pr[q].stries > 0
             /\ pr[q].pc \in {"recv", "rwait", "rwoken"} => cku[pr[q].s].outxid = pr[q].xid
             /\ pr[q].pc = "rwait" => timo[pr[q].s] /\ rcv[pr[q].s] = <<>>
    <2>1. Own(q)
        BY <1>4, OwnNow
    <2> QED BY <1>1, <1>4, <2>1, Zenon DEF Own
<1>5. HandleHeld'
    <2>1. ASSUME NEW q \in Proc, q # p
          PROVE  (Holds(q)' <=> pr'[q].s # 0) /\ (pr'[q].s # 0 => ch'[pr'[q].s].inuse)
        <3>1. (Holds(q) <=> pr[q].s # 0) /\ (pr[q].s # 0 => ch[pr[q].s].inuse)
            BY <1>0 DEF HandleHeld
        <3> QED BY <2>1, <3>1, <1>3, <1>4
    <2>2. ch'[s].inuse
        BY <1>0, <1>1 DEF HandleHeld
    <2> QED BY <1>1, <1>2, <2>1, <2>2, Zenon DEF HandleHeld
<1>6. OneCaller'
    <2>1. ASSUME NEW q \in Proc, NEW r \in Proc, pr'[q].s # 0 , pr'[q].s = pr'[r].s
          PROVE  q = r
        <3>1. pr[q].s = pr'[q].s /\ pr[r].s = pr'[r].s
            BY Zenon
        <3> QED BY <2>1, <3>1, <1>0 DEF OneCaller
    <2>2. ASSUME NEW t \in Slot, t # s
          PROVE  cku'[t].busy <=> \E q \in Proc : pr'[q].s = t /\ Calling(q)'
        <3>1. cku'[t].busy <=> \E q \in Proc : pr[q].s = t /\ Calling(q)
            BY <2>2, <1>0 DEF OneCaller
        <3>2. \A q \in Proc : (pr'[q].s = t /\ Calling(q)') <=> (pr[q].s = t /\ Calling(q))
            BY <1>3, <2>2, Zenon
        <3> QED BY <3>1, <3>2, Zenon
    <2>3. cku'[s].busy <=> \E q \in Proc : pr'[q].s = s /\ Calling(q)'
        BY <1>1, <1>2, Zenon
    <2> QED BY <2>1, <2>2, <2>3, Zenon DEF OneCaller
<1>7. SentIntact'
    <2>1. ASSUME NEW t \in Slot, t # s
          PROVE  \A i \in DOMAIN ifq'[t] : ifq'[t][i] = cku'[t].outxid
        BY <2>1, <1>0, ZenonT(60) DEF SentIntact
    <2>2. \A i \in DOMAIN ifq'[s] : ifq'[s][i] = cku'[s].outxid
        BY <1>2
    <2>3. ASSUME NEW t \in Slot
          PROVE  \A i \in DOMAIN ifq'[t] : ifq'[t][i] = cku'[t].outxid
        <3>1. CASE t = s
            BY <2>2, <3>1
        <3>2. CASE t # s
            BY <2>1, <3>2
        <3> QED BY <3>1, <3>2
    <2> QED BY <2>3 DEF SentIntact
<1>8. RequestOut'
    <2>1. ASSUME NEW q \in Proc, q # p
          PROVE  /\ Calling(q)' => pr'[q].xid \in Xid /\ pr'[q].stries > 0
                 /\ pr'[q].pc \in {"recv", "rwait", "rwoken"} => cku'[pr'[q].s].outxid = pr'[q].xid
        <3>1. CASE pr[q].s = 0
            <4>1. ~Holds(q)
                BY <3>1, <1>0 DEF HandleHeld
            <4> QED BY <2>1, <4>1, Zenon DEF Holds, Calling
        <3>2. CASE pr[q].s # 0
            BY <2>1, <3>2, <1>3, <1>4
        <3> QED BY <3>1, <3>2
    <2> QED BY <1>2, <2>1, Zenon DEF RequestOut
<1>9. ReplyMine'
    <2>1. ASSUME NEW q \in Proc, q # p
          PROVE  pr'[q].status \in {"success", "denied", "unavail"} => pr'[q].got = pr'[q].xid
        BY <2>1, <1>0 DEF ReplyMine
    <2> QED BY <1>2, <2>1, Zenon DEF ReplyMine
<1>10. TimeoutFresh'
    <2>1. ASSUME NEW t \in Slot, t # s
          PROVE  /\ timo'[t] => \E q \in Proc : pr'[q].s = t /\ pr'[q].pc \in {"rwait", "rwoken"}
                 /\ cku'[t].timedout => \E q \in Proc : pr'[q].s = t /\ pr'[q].pc = "rwoken"
        <3>1. /\ timo[t] => \E q \in Proc : pr[q].s = t /\ pr[q].pc \in {"rwait", "rwoken"}
              /\ cku[t].timedout => \E q \in Proc : pr[q].s = t /\ pr[q].pc = "rwoken"
            BY <1>0 DEF TimeoutFresh
        <3> QED BY <2>1, <3>1
    <2>2. /\ timo'[s] => \E q \in Proc : pr'[q].s = s /\ pr'[q].pc \in {"rwait", "rwoken"}
          /\ cku'[s].timedout => \E q \in Proc : pr'[q].s = s /\ pr'[q].pc = "rwoken"
        BY <1>2
    <2>3. ASSUME NEW t \in Slot
          PROVE  /\ timo'[t] => \E q \in Proc : pr'[q].s = t /\ pr'[q].pc \in {"rwait", "rwoken"}
                 /\ cku'[t].timedout => \E q \in Proc : pr'[q].s = t /\ pr'[q].pc = "rwoken"
        <3>1. CASE t = s
            BY <2>2, <3>1, Zenon
        <3>2. CASE t # s
            BY <2>1, <3>2, Zenon
        <3> QED BY <3>1, <3>2
    <2> QED BY <2>3 DEF TimeoutFresh
<1>11. NobodyForgotten'
    <2>1. ASSUME NEW q \in Proc, pr'[q].pc = "clwait"
          PROVE  Takes(q)' = 0
        <3>1. q # p
            BY <1>2, <2>1, Zenon DEF Holds, Calling
        <3>2. Takes(q) = 0
            BY <2>1, <3>1, <1>0 DEF NobodyForgotten
        <3>3. Nothing(ch, q)
            BY <3>2, TakesNow, Zenon
        <3>4. Nothing(ch', q)
            BY <3>3 DEF Nothing
        <3> QED BY <3>4, TakesNext
    <2>2. ASSUME NEW q \in Proc, q # p, pr'[q].pc = "rwait"
          PROVE  timo'[pr'[q].s] /\ rcv'[pr'[q].s] = <<>>
        <3>1. Holds(q)
            BY <2>2, Zenon DEF Holds, Calling
        <3>2. pr[q].s # 0
            BY <3>1, <1>0 DEF HandleHeld
        <3> QED BY <2>2, <3>2, <1>4
    <2>3. pr'[p].pc = "rwait" => timo'[pr'[p].s] /\ rcv'[pr'[p].s] = <<>>
        BY <1>2
    <2> QED BY <2>1, <2>2, <2>3, Zenon DEF NobodyForgotten
<1> QED BY <1>5, <1>6, <1>7, <1>8, <1>9, <1>10, <1>11 DEF RpcInv

\* A process moves on with its handle.
LEMMA Moved ==
    ASSUME TypeOK, NEW p \in Proc, NEW c \in Pcs, pr' = [pr EXCEPT ![p].pc = c]
    PROVE  /\ pr' \in [Proc -> PrType] /\ \A q \in Proc : q # p => pr'[q] = pr[q]
           /\ pr'[p].pc = c /\ pr'[p].s = pr[p].s /\ pr'[p].xid = pr[p].xid
           /\ pr'[p].stries = pr[p].stries /\ pr'[p].got = pr[p].got
           /\ pr'[p].status = pr[p].status
<1>1. pr \in [Proc -> PrType]
    BY DEF TypeOK
<1>2. pr' = [pr EXCEPT ![p] = Pr(c, pr[p].s, pr[p].xid, pr[p].stries, pr[p].rtries, pr[p].got,
                                 pr[p].status)]
    BY <1>1, PrPc
<1>3. /\ pr[p].s \in 0 .. MAXCLIENTS /\ pr[p].xid \in 0 .. MaxXid
      /\ pr[p].stries \in 0 .. retrys /\ pr[p].rtries \in 0 .. RECVTRIES
      /\ pr[p].got \in 0 .. MaxXid /\ pr[p].status \in Status
    BY <1>1, PrFields
<1> QED BY <1>1, <1>2, <1>3, PrSet

\* The label done.
DoneIs(p, s, st, x, K) ==
    /\ pr' \in [Proc -> PrType] /\ \A q \in Proc : q # p => pr'[q] = pr[q]
    /\ pr'[p].pc \in {"ret", "lbolt", "again"} /\ pr'[p].s = s /\ pr'[p].xid = pr[p].xid
    /\ pr'[p].pc # "ret" => pr'[p].stries > 0
    /\ pr'[p].got = x /\ pr'[p].status = st
    /\ cku' \in [Slot -> CkuType] /\ \A t \in Slot : t # s => cku'[t] = cku[t]
    /\ cku'[s].busy = (pr'[p].pc # "ret") /\ cku'[s].timedout = K.timedout
    /\ cku'[s].count = K.count /\ cku'[s].outxid = K.outxid

LEMMA DoneValues ==
    ASSUME RpcInv, NEW p \in Proc, NEW s \in Slot, pr[p].s = s, Calling(p),
           NEW st \in Status, NEW x \in 0 .. MaxXid, NEW K \in CkuType, Done(p, st, x, K)
    PROVE  DoneIs(p, s, st, x, K)
<1> DEFINE n == Tries(p, st)
           c == IF n = 0 THEN "ret" ELSE IF st = "cantsend" THEN "lbolt" ELSE "again"
<1>1. pr \in [Proc -> PrType] /\ cku \in [Slot -> CkuType]
    BY DEF RpcInv, TypeOK
<1>2. /\ pr[p].xid \in 0 .. MaxXid /\ pr[p].stries \in 0 .. retrys
      /\ pr[p].rtries \in 0 .. RECVTRIES
    BY <1>1, PrFields
<1>3. pr[p].stries > 0
    BY Zenon DEF RpcInv, RequestOut
<1>4. n \in 0 .. retrys /\ (n # 0 => n > 0)
    BY <1>2, <1>3, Constants DEF Tries
<1>5. c \in Pcs /\ c \in {"ret", "lbolt", "again"} /\ (c # "ret" <=> n # 0)
    BY DEF Pcs
<1>6. /\ pr' = [pr EXCEPT ![p].status = st, ![p].stries = n, ![p].got = x, ![p].pc = c]
      /\ cku' = [cku EXCEPT ![s] = [K EXCEPT !.busy = (n # 0)]]
    BY DEF Done
<1>7. s \in 0 .. MAXCLIENTS
    BY Constants DEF Slot
<1> HIDE DEF n, c
<1>8. pr' = [pr EXCEPT ![p] = Pr(c, pr[p].s, pr[p].xid, n, pr[p].rtries, x, st)]
    <2>1. pr'[p] = Pr(c, pr[p].s, pr[p].xid, n, pr[p].rtries, x, st)
        BY <1>1, <1>6, ZenonT(60) DEF PrType, Pr
    <2>2. pr' = [q \in Proc |-> pr'[q]] /\ \A q \in Proc : q # p => pr'[q] = pr[q]
        BY <1>1, <1>6
    <2> QED BY <1>1, <2>1, <2>2
<1>9. /\ pr' \in [Proc -> PrType] /\ \A q \in Proc : q # p => pr'[q] = pr[q]
      /\ pr'[p].pc = c /\ pr'[p].s = s /\ pr'[p].xid = pr[p].xid /\ pr'[p].stries = n
      /\ pr'[p].got = x /\ pr'[p].status = st
    BY <1>1, <1>2, <1>4, <1>5, <1>7, <1>8, PrSet
<1> DEFINE b == n # 0
<1>10. b \in BOOLEAN /\ b = (pr'[p].pc # "ret")
    BY <1>5, <1>9
<1>11. cku' = [cku EXCEPT ![s] = [K EXCEPT !.busy = b]]
    BY <1>6
<1> HIDE DEF b
<1>12. cku' = [cku EXCEPT ![s] = Cku(b, K.timedout, K.bufwanted, K.count, K.outxid)]
    BY <1>11, CkuForms
<1>13. Cku(b, K.timedout, K.bufwanted, K.count, K.outxid) \in CkuType
    BY <1>10, CkuFields DEF CkuType, Cku
<1>14. /\ cku' \in [Slot -> CkuType] /\ \A t \in Slot : t # s => cku'[t] = cku[t]
       /\ cku'[s] = Cku(b, K.timedout, K.bufwanted, K.count, K.outxid)
    BY <1>1, <1>12, <1>13
<1>15. /\ cku'[s].busy = b /\ cku'[s].timedout = K.timedout
       /\ cku'[s].count = K.count /\ cku'[s].outxid = K.outxid
    BY <1>14 DEF Cku
<1>16. cku'[s].busy = (pr'[p].pc # "ret")
    BY <1>10, <1>15
<1> QED BY <1>4, <1>5, <1>9, <1>14, <1>15, <1>16 DEF DoneIs

LEMMA DoneStep ==
    ASSUME RpcInv, NEW p \in Proc, NEW s \in Slot, pr[p].s = s, Calling(p),
           NEW st \in Status, NEW x \in 0 .. MaxXid, NEW K \in CkuType, Done(p, st, x, K),
           ch' = ch, ifq' = ifq, sent' = sent, nextxid' = nextxid,
           rcv' \in [Slot -> Seq(Xid)], timo' \in [Slot -> BOOLEAN],
           \A t \in Slot : t # s => rcv'[t] = rcv[t] /\ timo'[t] = timo[t],
           ~timo'[s], ~K.timedout, K.count = Len(ifq[s]),
           \A i \in DOMAIN ifq[s] : ifq[s][i] = K.outxid,
           st \in {"success", "denied", "unavail"} => x = pr[p].xid
    PROVE  RpcInv'
<1>1. /\ pr' \in [Proc -> PrType] /\ \A q \in Proc : q # p => pr'[q] = pr[q]
      /\ pr'[p].pc \in {"ret", "lbolt", "again"} /\ pr'[p].s = s /\ pr'[p].xid = pr[p].xid
      /\ pr'[p].pc # "ret" => pr'[p].stries > 0
      /\ pr'[p].got = x /\ pr'[p].status = st
      /\ cku' \in [Slot -> CkuType] /\ \A t \in Slot : t # s => cku'[t] = cku[t]
      /\ cku'[s].busy = (pr'[p].pc # "ret") /\ cku'[s].timedout = K.timedout
      /\ cku'[s].count = K.count /\ cku'[s].outxid = K.outxid
    <2>1. DoneIs(p, s, st, x, K)
        BY DoneValues
    <2> QED BY <2>1 DEF DoneIs
<1>2. TypeOK'
    <2>1. \A t \in Slot : cku'[t].count = Len(ifq'[t])
        BY <1>1 DEF RpcInv, TypeOK
    <2> QED BY <1>1, <2>1 DEF RpcInv, TypeOK
<1>3. Own(p)'
    <2>1. pr[p].xid \in Xid
        BY DEF RpcInv, RequestOut
    <2>2. Calling(p)' = (pr'[p].pc # "ret") /\ Holds(p)'
        BY <1>1 DEF Calling, Holds
    <2>3. cku'[s].busy = Calling(p)'
        BY <1>1, <2>2
    <2> QED BY <1>1, <2>1, <2>2, <2>3 DEF Own
<1> QED BY <1>1, <1>2, <1>3, OwnStep

-----------------------------------------------------------------------------
(* The steps of a process that has a handle. *)

LEMMA Holder ==
    ASSUME RpcInv, NEW p \in Proc, Holds(p)
    PROVE  pr[p].s \in Slot /\ Own(p)
<1>1. pr[p].s # 0
    BY Zenon DEF RpcInv, HandleHeld
<1>2. Own(p)
    BY <1>1, OwnNow
<1> QED BY <1>2, Zenon DEF Own

\* A process that only moves on keeps the invariant.
LEMMA MoveStep ==
    ASSUME RpcInv, NEW p \in Proc, Holds(p), NEW c \in Pcs, pr' = [pr EXCEPT ![p].pc = c],
           c \in {"call", "again", "bufwait", "recv", "rwait"},
           c # "call" <=> Calling(p),
           c \in {"recv", "rwait"} => pr[p].pc \in {"recv", "rwoken"},
           c = "rwait" => timo'[pr[p].s] /\ rcv'[pr[p].s] = <<>>,
           timo'[pr[p].s] => c = "rwait", ~cku[pr[p].s].timedout,
           \A t \in Slot : ch'[t].inuse = ch[t].inuse /\ ch'[t].hard = ch[t].hard,
           \A t \in Slot : t # pr[p].s => /\ cku'[t] = cku[t]
                                          /\ rcv'[t] = rcv[t] /\ timo'[t] = timo[t],
           ch' \in [Slot -> ChType], cku' \in [Slot -> CkuType],
           cku'[pr[p].s].busy = cku[pr[p].s].busy, cku'[pr[p].s].timedout = cku[pr[p].s].timedout,
           cku'[pr[p].s].count = cku[pr[p].s].count, cku'[pr[p].s].outxid = cku[pr[p].s].outxid,
           rcv' \in [Slot -> Seq(Xid)], timo' \in [Slot -> BOOLEAN],
           ifq' = ifq, sent' = sent, nextxid' = nextxid
    PROVE  RpcInv'
<1> DEFINE s == pr[p].s
<1>1. s \in Slot /\ Own(p)
    BY Holder
<1>2. /\ pr' \in [Proc -> PrType] /\ \A q \in Proc : q # p => pr'[q] = pr[q]
      /\ pr'[p].pc = c /\ pr'[p].s = s /\ pr'[p].xid = pr[p].xid
      /\ pr'[p].stries = pr[p].stries /\ pr'[p].got = pr[p].got /\ pr'[p].status = pr[p].status
    BY Moved DEF RpcInv
<1>3. TypeOK'
    <2>1. ASSUME NEW t \in Slot PROVE cku'[t].count = Len(ifq'[t])
        <3>1. cku[t].count = Len(ifq[t])
            BY DEF RpcInv, TypeOK
        <3>2. cku'[t].count = cku[t].count
            BY Zenon
        <3> QED BY <3>1, <3>2
    <2> QED BY <1>2, <2>1 DEF RpcInv, TypeOK
<1>4. Own(p)'
    <2>1. Holds(p)' /\ Calling(p)' = Calling(p)
        BY <1>2 DEF Calling, Holds
    <2>2. pr[p].pc \in {"recv", "rwoken"} => cku[s].outxid = pr[p].xid
        BY <1>1 DEF Own
    <2> QED BY <1>1, <1>2, <2>1, <2>2 DEF Own
<1> HIDE DEF s
<1>5. pr[p].s = s
    BY DEF s
<1>6. s \in Slot /\ pr'[p].s = s /\ \A q \in Proc : q # p => pr'[q] = pr[q]
    BY <1>1, <1>2, Zenon
<1>7. \A t \in Slot : t # s => /\ cku'[t] = cku[t] /\ ifq'[t] = ifq[t]
                               /\ rcv'[t] = rcv[t] /\ timo'[t] = timo[t]
    BY <1>5
<1> QED BY <1>3, <1>4, <1>5, <1>6, <1>7, OwnStep, Zenon

LEMMA CreateKeeps == ASSUME RpcInv, NEW p \in Proc, clntkudp_create(p) PROVE RpcInv'
<1> DEFINE s == pr[p].s
<1>1. Holds(p) /\ ~Calling(p) /\ pr[p].pc = "create"
    BY DEF clntkudp_create, Holds, Calling
<1>2. s \in Slot /\ Own(p)
    BY <1>1, Holder
<1>3. ~timo[s] /\ ~cku[s].timedout
    BY <1>1, <1>2 DEF Own
<1>4. ch \in [Slot -> ChType] /\ ch' = [ch EXCEPT ![s].client = TRUE, ![s].inuse = TRUE]
    BY DEF RpcInv, TypeOK, clntkudp_create
<1>5. /\ ch' \in [Slot -> ChType] /\ \A t \in Slot : t # s => ch'[t] = ch[t]
      /\ ch'[s].inuse = TRUE /\ ch'[s].hard = ch[s].hard
    <2> HIDE DEF s
    <2>1. \A g : g = [ch EXCEPT ![s].client = TRUE, ![s].inuse = TRUE] =>
              /\ g \in [Slot -> ChType] /\ \A t \in Slot : t # s => g[t] = ch[t]
              /\ g[s].inuse = TRUE /\ g[s].hard = ch[s].hard
        BY <1>2, <1>4, ChMade
    <2> QED BY <1>4, <2>1
<1>6. ch[s].inuse = TRUE
    <2>1. ch[s].inuse /\ ch[s] \in ChType
        BY <1>2, <1>4, Constants DEF RpcInv, HandleHeld, Slot
    <2> QED BY <2>1 DEF ChType
<1>7. \A t \in Slot : ch'[t].inuse = ch[t].inuse /\ ch'[t].hard = ch[t].hard
    BY <1>5, <1>6
<1>8. /\ pr' = [pr EXCEPT ![p].pc = "call"] /\ cku' = cku /\ ifq' = ifq /\ sent' = sent
      /\ rcv' = rcv /\ timo' = timo /\ nextxid' = nextxid /\ "call" \in Pcs
    BY DEF clntkudp_create, Goto, Net, Pcs
<1>9. cku \in [Slot -> CkuType] /\ rcv \in [Slot -> Seq(Xid)] /\ timo \in [Slot -> BOOLEAN]
    BY DEF RpcInv, TypeOK
<1> QED BY <1>1, <1>3, <1>5, <1>7, <1>8, <1>9, MoveStep

LEMMA AgainKeeps ==
    ASSUME RpcInv, NEW p \in Proc, pr[p].pc = "ret", Goto(p, "call"),
           UNCHANGED <<ch, cku, Net, nextxid>>
    PROVE  RpcInv'
<1>1. Holds(p) /\ ~Calling(p)
    BY DEF Holds, Calling
<1>2. Own(p)
    BY <1>1, Holder
<1>3. ~timo[pr[p].s] /\ ~cku[pr[p].s].timedout
    BY <1>2 DEF Own
<1>4. /\ pr' = [pr EXCEPT ![p].pc = "call"] /\ ch' = ch /\ cku' = cku /\ ifq' = ifq
      /\ sent' = sent /\ rcv' = rcv /\ timo' = timo /\ nextxid' = nextxid /\ "call" \in Pcs
    BY DEF Goto, Net, Pcs
<1>5. /\ ch \in [Slot -> ChType] /\ cku \in [Slot -> CkuType]
      /\ rcv \in [Slot -> Seq(Xid)] /\ timo \in [Slot -> BOOLEAN]
    BY DEF RpcInv, TypeOK
<1> QED BY <1>1, <1>3, <1>4, <1>5, MoveStep

LEMMA WaitedKeeps ==
    ASSUME RpcInv, NEW p \in Proc, BufWaited(p) \/ LboltWaited(p) PROVE RpcInv'
<1>1. Holds(p) /\ Calling(p) /\ pr[p].pc \in {"bufwait", "lbolt"}
    BY DEF Holds, Calling, BufWaited, LboltWaited
<1>2. pr[p].s \in Slot /\ Own(p)
    BY <1>1, Holder
<1>3. ~timo[pr[p].s] /\ ~cku[pr[p].s].timedout
    BY <1>1, <1>2 DEF Own
<1>4. /\ ch \in [Slot -> ChType] /\ cku \in [Slot -> CkuType]
      /\ rcv \in [Slot -> Seq(Xid)] /\ timo \in [Slot -> BOOLEAN]
    BY DEF RpcInv, TypeOK
<1>5. /\ pr' = [pr EXCEPT ![p].pc = "again"] /\ ch' = ch /\ cku' = cku /\ ifq' = ifq
      /\ sent' = sent /\ timo' = timo /\ nextxid' = nextxid /\ "again" \in Pcs
    BY DEF Goto, Net, Pcs, BufWaited, LboltWaited
<1>6. rcv' \in [Slot -> Seq(Xid)] /\ \A t \in Slot : t # pr[p].s => rcv'[t] = rcv[t]
    <2>1. CASE rcv' = rcv
        BY <1>4, <2>1
    <2>2. CASE rcv' = [rcv EXCEPT ![pr[p].s] = <<>>]
        BY <1>2, <1>4, <2>2
    <2> QED BY <2>1, <2>2 DEF BufWaited, LboltWaited, Net
<1> QED BY <1>1, <1>3, <1>4, <1>5, <1>6, MoveStep

LEMMA CallitKeeps == ASSUME RpcInv, NEW p \in Proc, callit(p) PROVE RpcInv'
<1> DEFINE s == pr[p].s
<1>1. Holds(p) /\ ~Calling(p) /\ pr[p].pc = "call" /\ nextxid \in Xid
    BY DEF callit, Holds, Calling
<1>2. s \in Slot /\ Own(p)
    BY <1>1, Holder
<1>3. ~timo[s] /\ ~cku[s].timedout
    BY <1>1, <1>2 DEF Own
<1>4. pr \in [Proc -> PrType] /\ cku \in [Slot -> CkuType]
    BY DEF RpcInv, TypeOK
<1>5. /\ cku' = [cku EXCEPT ![s].busy = TRUE]
      /\ pr' = [pr EXCEPT ![p].pc = "again", ![p].xid = nextxid, ![p].stries = retrys,
                          ![p].got = 0, ![p].status = "none"]
      /\ ch' = ch /\ ifq' = ifq /\ sent' = sent /\ rcv' = rcv /\ timo' = timo
      /\ nextxid' = nextxid + 1
    BY DEF callit, Net
<1>6. pr' = [pr EXCEPT ![p] = Pr("again", pr[p].s, nextxid, retrys, pr[p].rtries, 0, "none")]
    <2>1. pr'[p] = Pr("again", pr[p].s, nextxid, retrys, pr[p].rtries, 0, "none")
        BY <1>4, <1>5, ZenonT(60) DEF PrType, Pr
    <2>2. pr' = [q \in Proc |-> pr'[q]] /\ \A q \in Proc : q # p => pr'[q] = pr[q]
        BY <1>4, <1>5
    <2> QED BY <1>4, <2>1, <2>2
<1>7. /\ pr' \in [Proc -> PrType] /\ \A q \in Proc : q # p => pr'[q] = pr[q]
      /\ pr'[p].pc = "again" /\ pr'[p].s = s /\ pr'[p].xid = nextxid
      /\ pr'[p].stries = retrys /\ pr'[p].got = 0 /\ pr'[p].status = "none"
    <2>1. /\ "again" \in Pcs /\ "none" \in Status /\ 0 \in 0 .. MaxXid /\ nextxid \in 0 .. MaxXid
          /\ retrys \in 0 .. retrys
        BY <1>1, Constants DEF Pcs, Status, Xid
    <2>2. pr[p].s \in 0 .. MAXCLIENTS /\ pr[p].rtries \in 0 .. RECVTRIES
        BY <1>4, PrFields
    <2> QED BY <1>4, <1>6, <2>1, <2>2, PrSet
<1>8. /\ cku' \in [Slot -> CkuType] /\ \A t \in Slot : t # s => cku'[t] = cku[t]
      /\ cku'[s].busy = TRUE /\ cku'[s].timedout = cku[s].timedout
      /\ cku'[s].count = cku[s].count /\ cku'[s].outxid = cku[s].outxid
    BY <1>2, <1>4, <1>5 DEF CkuType
<1>9. TypeOK'
    <2>1. \A t \in Slot : cku'[t].count = Len(ifq'[t])
        BY <1>5, <1>8 DEF RpcInv, TypeOK
    <2>2. nextxid' \in 1 .. MaxXid + 1
        BY <1>1, <1>5, Constants DEF Xid
    <2> QED BY <1>5, <1>7, <1>8, <2>1, <2>2 DEF RpcInv, TypeOK
<1>10. Own(p)'
    <2>1. Holds(p)' /\ Calling(p)' = TRUE
        BY <1>7 DEF Holds, Calling
    <2>2. cku'[s].busy = Calling(p)' /\ ~timo'[s] /\ ~cku'[s].timedout
        BY <1>3, <1>5, <1>8, <2>1
    <2>3. \A i \in DOMAIN ifq'[s] : ifq'[s][i] = cku'[s].outxid
        BY <1>2, <1>5, <1>8 DEF Own
    <2>4. pr'[p].xid \in Xid /\ pr'[p].stries > 0
        BY <1>1, <1>7, Constants
    <2> QED BY <1>2, <1>7, <2>1, <2>2, <2>3, <2>4 DEF Own
<1> HIDE DEF s
<1>11. pr[p].s = s
    BY DEF s
<1> QED BY <1>2, <1>5, <1>7, <1>8, <1>9, <1>10, <1>11, OwnStep

LEMMA CallAgainKeeps == ASSUME RpcInv, NEW p \in Proc, CallAgain(p) PROVE RpcInv'
<1> DEFINE s == pr[p].s
           k == cku[s]
           out == [k EXCEPT !.count = 1, !.outxid = pr[p].xid]
<1>1. Holds(p) /\ Calling(p) /\ pr[p].pc = "again"
    BY DEF CallAgain, Holds, Calling
<1>2. s \in Slot /\ Own(p)
    BY <1>1, Holder
<1>3. ~timo[s] /\ ~k.timedout /\ pr[p].xid \in Xid /\ pr[p].stries > 0
    BY <1>1, <1>2 DEF Own
<1>4. /\ pr \in [Proc -> PrType] /\ cku \in [Slot -> CkuType] /\ k \in CkuType
      /\ ifq \in [Slot -> Seq(Xid)] /\ rcv \in [Slot -> Seq(Xid)] /\ timo \in [Slot -> BOOLEAN]
      /\ k.count = Len(ifq[s]) /\ ch \in [Slot -> ChType]
    BY <1>2 DEF RpcInv, TypeOK
<1>5. ch' = ch /\ sent' = sent /\ rcv' = rcv /\ timo' = timo /\ nextxid' = nextxid
    BY DEF CallAgain
<1>6. out = Cku(k.busy, k.timedout, k.bufwanted, 1, pr[p].xid) /\ out \in CkuType
    <2>1. out = Cku(k.busy, k.timedout, k.bufwanted, 1, pr[p].xid)
        <3> HIDE DEF k
        <3> QED BY <1>4, CkuOut
    <2>2. Cku(k.busy, k.timedout, k.bufwanted, 1, pr[p].xid) \in CkuType
        <3>1. 1 \in 0 .. QMax /\ pr[p].xid \in 0 .. MaxXid
            BY <1>3, Constants DEF Xid
        <3> QED BY <3>1, <1>4, CkuFields DEF Cku, CkuType
    <2> QED BY <2>1, <2>2
<1>7. out.count = 1 /\ out.outxid = pr[p].xid /\ out.timedout = k.timedout /\ out.busy = k.busy
    BY <1>6 DEF Cku
<1>8. ~BufBusy(k) => ifq[s] = <<>> /\ k.count = 0
    <2>1. k.count \in 0 .. QMax
        BY <1>4, CkuFields
    <2> QED BY <2>1, <1>2, <1>4, Constants DEF BufBusy
<1>9. CASE /\ BufBusy(k) /\ Goto(p, "bufwait")
           /\ cku' = [cku EXCEPT ![s].bufwanted = TRUE] /\ UNCHANGED ifq
    <2>1. /\ cku' \in [Slot -> CkuType] /\ \A t \in Slot : t # s => cku'[t] = cku[t]
          /\ cku'[s].busy = cku[s].busy /\ cku'[s].timedout = cku[s].timedout
          /\ cku'[s].count = cku[s].count /\ cku'[s].outxid = cku[s].outxid
        BY <1>2, <1>4, <1>9 DEF CkuType
    <2>2. pr' = [pr EXCEPT ![p].pc = "bufwait"] /\ "bufwait" \in Pcs
        BY <1>9 DEF Goto, Pcs
    <2> QED BY <1>1, <1>3, <1>4, <1>5, <1>9, <2>1, <2>2, MoveStep
<1>10. ASSUME NEW st \in {"cantencode", "cantsend"}, ~BufBusy(k), UNCHANGED ifq,
              Done(p, st, 0, Freed(out))
       PROVE  RpcInv'
    <2> DEFINE K == Freed(out)
    <2>1. K = Cku(k.busy, k.timedout, out.bufwanted /\ out.count > 1, 0, pr[p].xid)
        <3> HIDE DEF out, k
        <3>1. K = Cku(out.busy, out.timedout, out.bufwanted /\ out.count > 1, out.count - 1, out.outxid)
            BY <1>6, FreedForm
        <3> QED BY <1>7, <3>1
    <2>2. K \in CkuType /\ K.timedout = k.timedout /\ K.count = 0
        <3>1. (out.bufwanted /\ out.count > 1) \in BOOLEAN /\ 0 \in 0 .. QMax
            BY Constants
        <3>2. k.busy \in BOOLEAN /\ k.timedout \in BOOLEAN /\ pr[p].xid \in 0 .. MaxXid
            BY <1>3, <1>4, CkuFields DEF Xid
        <3> HIDE DEF out, k, K
        <3> QED BY <2>1, <3>1, <3>2 DEF Cku, CkuType
    <2>3. st \in Status /\ 0 \in 0 .. MaxXid /\ ~(st \in {"success", "denied", "unavail"})
        BY <1>10, Constants DEF Status, Retry
    <2>4. K.count = Len(ifq[s]) /\ \A i \in DOMAIN ifq[s] : ifq[s][i] = K.outxid
        BY <1>8, <1>10, <2>2
    <2> HIDE DEF K, k, out, s
    <2>5. pr[p].s = s /\ Done(p, st, 0, K)
        BY <1>10 DEF s, K
    <2> QED BY <1>1, <1>2, <1>3, <1>4, <1>5, <1>10, <2>2, <2>3, <2>4, <2>5, DoneStep
<1>11. CASE /\ ~BufBusy(k) /\ Len(ifq[s]) < QMax
            /\ cku' = [cku EXCEPT ![s] = out]
            /\ ifq' = [ifq EXCEPT ![s] = Append(@, pr[p].xid)]
            /\ pr' = [pr EXCEPT ![p].pc = "recv", ![p].rtries = RECVTRIES]
    <2>1. pr' = [pr EXCEPT ![p] = Pr("recv", pr[p].s, pr[p].xid, pr[p].stries, RECVTRIES,
                                     pr[p].got, pr[p].status)]
        <3>1. pr' = [pr EXCEPT ![p].pc = "recv", ![p].rtries = RECVTRIES]
            BY <1>11
        <3>2. pr'[p] = Pr("recv", pr[p].s, pr[p].xid, pr[p].stries, RECVTRIES, pr[p].got,
                          pr[p].status)
            BY <1>4, <3>1 DEF PrType, Pr
        <3>3. pr' = [q \in Proc |-> pr'[q]] /\ \A q \in Proc : q # p => pr'[q] = pr[q]
            BY <1>4, <3>1
        <3> QED BY <1>4, <3>2, <3>3
    <2>2. /\ pr' \in [Proc -> PrType] /\ \A q \in Proc : q # p => pr'[q] = pr[q]
          /\ pr'[p].pc = "recv" /\ pr'[p].s = s /\ pr'[p].xid = pr[p].xid
          /\ pr'[p].stries = pr[p].stries /\ pr'[p].got = pr[p].got /\ pr'[p].status = pr[p].status
        <3>1. "recv" \in Pcs /\ RECVTRIES \in 0 .. RECVTRIES
            BY Constants DEF Pcs
        <3>2. /\ pr[p].s \in 0 .. MAXCLIENTS /\ pr[p].xid \in 0 .. MaxXid
              /\ pr[p].stries \in 0 .. retrys /\ pr[p].got \in 0 .. MaxXid /\ pr[p].status \in Status
            BY <1>4, PrFields
        <3> HIDE DEF s, k, out
        <3>3. /\ pr' \in [Proc -> PrType] /\ \A q \in Proc : q # p => pr'[q] = pr[q]
              /\ pr'[p].pc = "recv" /\ pr'[p].s = pr[p].s /\ pr'[p].xid = pr[p].xid
              /\ pr'[p].stries = pr[p].stries /\ pr'[p].got = pr[p].got
              /\ pr'[p].status = pr[p].status
            <4>1. pr \in [Proc -> PrType]
                BY <1>4
            <4>2. Pr("recv", pr[p].s, pr[p].xid, pr[p].stries, RECVTRIES, pr[p].got, pr[p].status)
                    \in PrType
                BY <3>1, <3>2 DEF Pr, PrType
            <4>3. /\ pr' \in [Proc -> PrType] /\ \A q \in Proc : q # p => pr'[q] = pr[q]
                  /\ pr'[p] = Pr("recv", pr[p].s, pr[p].xid, pr[p].stries, RECVTRIES, pr[p].got,
                                 pr[p].status)
                BY <2>1, <4>1, <4>2
            <4> QED BY <4>3 DEF Pr
        <3> QED BY <3>3 DEF s
    <2>3. cku' \in [Slot -> CkuType] /\ cku'[s] = out /\ \A t \in Slot : t # s => cku'[t] = cku[t]
        <3> HIDE DEF out
        <3> QED BY <1>2, <1>4, <1>6, <1>11
    <2>4. /\ ifq' \in [Slot -> Seq(Xid)] /\ \A t \in Slot : t # s => ifq'[t] = ifq[t]
          /\ ifq'[s] = <<pr[p].xid>>
        <3>1. ifq' = [ifq EXCEPT ![s] = Append(@, pr[p].xid)] /\ ifq[s] = <<>>
            BY <1>8, <1>11
        <3> HIDE DEF s, k, out
        <3>2. Append(ifq[s], pr[p].xid) = <<pr[p].xid>> /\ <<pr[p].xid>> \in Seq(Xid)
            BY <1>3, <3>1
        <3> QED BY <1>2, <1>4, <3>1, <3>2
    <2>5. TypeOK'
        <3>1. \A t \in Slot : cku'[t].count = Len(ifq'[t])
            <4>1. \A t \in Slot : cku[t].count = Len(ifq[t])
                BY DEF RpcInv, TypeOK
            <4>2. cku'[s].count = Len(ifq'[s])
                BY <2>3, <2>4, <1>7
            <4> HIDE DEF s, k, out
            <4> QED BY <2>3, <2>4, <4>1, <4>2
        <3> QED BY <1>5, <2>2, <2>3, <2>4, <3>1 DEF RpcInv, TypeOK
    <2>6. Own(p)'
        <3>1. Holds(p)' /\ Calling(p)' = TRUE /\ Calling(p) = TRUE
            BY <1>1, <2>2 DEF Holds, Calling
        <3>2. cku'[s].busy = TRUE /\ ~cku'[s].timedout /\ cku'[s].outxid = pr[p].xid
            BY <1>2, <1>3, <1>7, <2>3, <3>1 DEF Own
        <3>3. \A i \in DOMAIN ifq'[s] : ifq'[s][i] = cku'[s].outxid
            BY <2>4, <3>2
        <3> QED BY <1>2, <1>3, <1>5, <2>2, <3>1, <3>2, <3>3 DEF Own
    <2> HIDE DEF s, k, out
    <2>7. pr[p].s = s
        BY DEF s
    <2> QED BY <1>2, <1>5, <2>2, <2>3, <2>4, <2>5, <2>6, <2>7, OwnStep
<1> QED BY <1>9, <1>10, <1>11 DEF CallAgain

LEMMA RecvSleepsKeeps ==
    ASSUME RpcInv, NEW p \in Proc, pr[p].pc = "recv", RecvSleeps(p) PROVE RpcInv'
<1>1. Holds(p) /\ Calling(p)
    BY DEF Holds, Calling
<1>2. pr[p].s \in Slot /\ Own(p)
    BY <1>1, Holder
<1>3. ~cku[pr[p].s].timedout
    BY <1>2 DEF Own
<1>4. /\ ch \in [Slot -> ChType] /\ cku \in [Slot -> CkuType]
      /\ rcv \in [Slot -> Seq(Xid)] /\ timo \in [Slot -> BOOLEAN]
    BY DEF RpcInv, TypeOK
<1>5. /\ pr' = [pr EXCEPT ![p].pc = "rwait"] /\ "rwait" \in Pcs /\ rcv[pr[p].s] = <<>>
      /\ ch' = ch /\ cku' = cku /\ ifq' = ifq /\ sent' = sent /\ rcv' = rcv /\ nextxid' = nextxid
    BY DEF Goto, Pcs, RecvSleeps
<1>6. /\ timo' \in [Slot -> BOOLEAN] /\ timo'[pr[p].s]
      /\ \A t \in Slot : t # pr[p].s => timo'[t] = timo[t]
    BY <1>2, <1>4 DEF RecvSleeps
<1> QED BY <1>1, <1>3, <1>4, <1>5, <1>6, MoveStep

LEMMA RecvReplyKeeps ==
    ASSUME RpcInv, NEW p \in Proc, pr[p].pc = "recv", RecvReply(p) PROVE RpcInv'
<1> DEFINE s == pr[p].s
<1>1. Holds(p) /\ Calling(p)
    BY DEF Holds, Calling
<1>2. s \in Slot /\ Own(p)
    BY <1>1, Holder
<1>3. /\ ~timo[s] /\ ~cku[s].timedout /\ cku[s].outxid = pr[p].xid
      /\ \A i \in DOMAIN ifq[s] : ifq[s][i] = cku[s].outxid
    BY <1>2 DEF Own
<1>4. /\ cku[s] \in CkuType /\ cku[s].count = Len(ifq[s])
      /\ rcv \in [Slot -> Seq(Xid)] /\ timo \in [Slot -> BOOLEAN]
    BY <1>2 DEF RpcInv, TypeOK
<1>5. PICK st \in {"success"} \cup ({"denied", "unavail"} \cap Faults) : Done(p, st, Head(rcv[s]), cku[s])
    BY DEF RecvReply
<1>6. /\ rcv' = [rcv EXCEPT ![s] = <<>>] /\ rcv[s] # <<>> /\ Head(rcv[s]) = cku[s].outxid
      /\ ch' = ch /\ ifq' = ifq /\ sent' = sent /\ timo' = timo /\ nextxid' = nextxid
    BY DEF RecvReply, IsReply
<1>7. rcv' \in [Slot -> Seq(Xid)] /\ \A t \in Slot : t # s => rcv'[t] = rcv[t]
    BY <1>2, <1>4, <1>6
<1>8. st \in Status /\ Head(rcv[s]) \in 0 .. MaxXid /\ Head(rcv[s]) = pr[p].xid
    <2>1. pr[p].xid \in Xid
        BY <1>1 DEF RpcInv, RequestOut
    <2>2. st \in Status
        BY DEF Status, Retry
    <2> QED BY <1>3, <1>6, <2>1, <2>2, Constants DEF Xid
<1> DEFINE x == Head(rcv[s])
           K == cku[s]
<1>9. pr[p].s = s /\ Done(p, st, x, K)
    BY <1>5
<1>10. x \in 0 .. MaxXid /\ x = pr[p].xid
    BY <1>8
<1>11. /\ K \in CkuType /\ K.count = Len(ifq[s]) /\ ~K.timedout
       /\ \A i \in DOMAIN ifq[s] : ifq[s][i] = K.outxid
    BY <1>3, <1>4
<1>12. timo' \in [Slot -> BOOLEAN] /\ ~timo'[s] /\ \A t \in Slot : timo'[t] = timo[t]
    BY <1>3, <1>4, <1>6
<1>13. st \in Status /\ ch' = ch /\ ifq' = ifq /\ sent' = sent /\ nextxid' = nextxid
    BY <1>6, <1>8
<1> HIDE DEF x, K, s
<1> QED BY <1>1, <1>2, <1>7, <1>9, <1>10, <1>11, <1>12, <1>13, DoneStep

LEMMA RecvOtherKeeps ==
    ASSUME RpcInv, NEW p \in Proc, pr[p].pc = "recv", RecvOther(p) PROVE RpcInv'
<1> DEFINE s == pr[p].s
           n == pr[p].rtries - 1
           K == cku[s]
<1>1. Holds(p) /\ Calling(p)
    BY DEF Holds, Calling
<1>2. s \in Slot /\ Own(p)
    BY <1>1, Holder
<1>3. /\ ~timo[s] /\ ~K.timedout /\ K.outxid = pr[p].xid
      /\ \A i \in DOMAIN ifq[s] : ifq[s][i] = K.outxid
    BY <1>2 DEF Own
<1>4. /\ K \in CkuType /\ K.count = Len(ifq[s])
      /\ rcv \in [Slot -> Seq(Xid)] /\ timo \in [Slot -> BOOLEAN]
    BY <1>2 DEF RpcInv, TypeOK
<1>5. /\ rcv' = [rcv EXCEPT ![s] = Tail(@)] /\ rcv[s] # <<>>
      /\ ch' = ch /\ ifq' = ifq /\ sent' = sent /\ timo' = timo /\ nextxid' = nextxid
    BY DEF RecvOther
<1>6. rcv' \in [Slot -> Seq(Xid)] /\ \A t \in Slot : t # s => rcv'[t] = rcv[t]
    <2>1. Tail(rcv[s]) \in Seq(Xid)
        BY <1>2, <1>4, <1>5
    <2> QED BY <1>2, <1>4, <1>5, <2>1
<1>7. timo' \in [Slot -> BOOLEAN] /\ ~timo'[s] /\ \A t \in Slot : timo'[t] = timo[t]
    BY <1>3, <1>4, <1>5
<1>8. pr[p].s = s /\ pr \in [Proc -> PrType]
    BY DEF RpcInv, TypeOK
<1>9. CASE n = 0 /\ Done(p, "cantrecv", 0, K)
    <2>1. "cantrecv" \in Status /\ 0 \in 0 .. MaxXid /\ ~("cantrecv" \in {"success", "denied", "unavail"})
        BY Constants DEF Status, Retry
    <2> HIDE DEF s, n, K
    <2>2. \A t \in Slot : t # s => rcv'[t] = rcv[t] /\ timo'[t] = timo[t]
        BY <1>6, <1>7, Zenon
    <2>3. ch' = ch /\ ifq' = ifq /\ sent' = sent /\ nextxid' = nextxid /\ rcv' \in [Slot -> Seq(Xid)]
        BY <1>5, <1>6, Zenon
    <2> QED BY <1>1, <1>2, <1>3, <1>4, <1>7, <1>8, <1>9, <2>1, <2>2, <2>3, DoneStep, Zenon
<1>10. CASE n > 0 /\ pr' = [pr EXCEPT ![p].rtries = n] /\ UNCHANGED cku
    <2>1. pr' = [pr EXCEPT ![p] = Pr(pr[p].pc, pr[p].s, pr[p].xid, pr[p].stries, n, pr[p].got,
                                     pr[p].status)]
        <3> HIDE DEF n, s, K
        <3> QED BY <1>8, <1>10, PrRtries
    <2>2. /\ pr[p].s \in 0 .. MAXCLIENTS /\ pr[p].xid \in 0 .. MaxXid
          /\ pr[p].stries \in 0 .. retrys /\ pr[p].got \in 0 .. MaxXid /\ pr[p].status \in Status
          /\ pr[p].pc \in Pcs /\ pr[p].rtries \in 0 .. RECVTRIES
        BY <1>8, PrFields
    <2>3. n \in 0 .. RECVTRIES
        BY <1>10, <2>2, Constants
    <2>4. pr \in [Proc -> PrType]
        BY <1>8
    <2> HIDE DEF n, s, K
    <2>5. /\ pr' \in [Proc -> PrType] /\ \A q \in Proc : q # p => pr'[q] = pr[q]
          /\ pr'[p].pc = pr[p].pc /\ pr'[p].s = pr[p].s /\ pr'[p].xid = pr[p].xid
          /\ pr'[p].stries = pr[p].stries /\ pr'[p].got = pr[p].got
          /\ pr'[p].status = pr[p].status
        <3>1. Pr(pr[p].pc, pr[p].s, pr[p].xid, pr[p].stries, n, pr[p].got, pr[p].status) \in PrType
            BY <2>2, <2>3 DEF Pr, PrType
        <3>2. /\ pr' \in [Proc -> PrType] /\ \A q \in Proc : q # p => pr'[q] = pr[q]
              /\ pr'[p] = Pr(pr[p].pc, pr[p].s, pr[p].xid, pr[p].stries, n, pr[p].got, pr[p].status)
            BY <2>1, <2>4, <3>1
        <3> QED BY <3>2 DEF Pr
    <2>6. cku' = cku
        BY <1>10
    <2>7. TypeOK'
        BY <1>5, <1>6, <1>7, <2>5, <2>6 DEF RpcInv, TypeOK
    <2>8. Own(p)'
        <3>1. Holds(p)' /\ Calling(p)' = Calling(p)
            BY <2>5 DEF Holds, Calling
        <3>2. s = pr[p].s /\ K = cku[s]
            BY DEF s, K
        <3>3. Own(p)
            BY <1>2
        <3> QED BY <1>2, <1>5, <1>7, <2>5, <2>6, <3>1, <3>2, <3>3 DEF Own
    <2> QED BY <1>2, <1>5, <1>6, <1>7, <1>8, <2>5, <2>6, <2>7, <2>8, OwnStep
<1> QED BY <1>9, <1>10 DEF RecvOther

LEMMA RecvWakesKeeps == ASSUME RpcInv, NEW p \in Proc, RecvWakes(p) PROVE RpcInv'
<1> DEFINE s == pr[p].s
           k == cku[s]
           K == [k EXCEPT !.timedout = FALSE]
<1>1. Holds(p) /\ Calling(p) /\ pr[p].pc = "rwoken"
    BY DEF Holds, Calling, RecvWakes
<1>2. s \in Slot /\ Own(p)
    BY <1>1, Holder
<1>3. k.outxid = pr[p].xid /\ \A i \in DOMAIN ifq[s] : ifq[s][i] = k.outxid
    BY <1>1, <1>2 DEF Own
<1>4. /\ k \in CkuType /\ k.count = Len(ifq[s]) /\ cku \in [Slot -> CkuType]
      /\ rcv \in [Slot -> Seq(Xid)] /\ timo \in [Slot -> BOOLEAN] /\ ch \in [Slot -> ChType]
    BY <1>2 DEF RpcInv, TypeOK
<1>5. /\ timo' = [timo EXCEPT ![s] = FALSE] /\ rcv' = rcv
      /\ ch' = ch /\ ifq' = ifq /\ sent' = sent /\ nextxid' = nextxid
    BY DEF RecvWakes, Untimeout
<1>6. timo' \in [Slot -> BOOLEAN] /\ ~timo'[s] /\ \A t \in Slot : t # s => timo'[t] = timo[t]
    BY <1>2, <1>4, <1>5
<1>7. CASE k.timedout /\ Done(p, "timedout", 0, K)
    <2>1. "timedout" \in Status /\ 0 \in 0 .. MaxXid /\ ~("timedout" \in {"success", "denied", "unavail"})
        BY Constants DEF Status, Retry
    <2>2. K = Cku(k.busy, FALSE, k.bufwanted, k.count, k.outxid)
        BY <1>4, CkuForms
    <2>3. /\ K \in CkuType /\ ~K.timedout /\ K.count = Len(ifq[s])
          /\ \A i \in DOMAIN ifq[s] : ifq[s][i] = K.outxid
        <3>1. Cku(k.busy, FALSE, k.bufwanted, k.count, k.outxid) \in CkuType
            BY <1>4, CkuFields DEF Cku, CkuType
        <3> HIDE DEF K, k
        <3>2. K.timedout = FALSE /\ K.count = k.count /\ K.outxid = k.outxid
            BY <2>2 DEF Cku
        <3> QED BY <1>3, <1>4, <2>2, <3>1, <3>2
    <2> HIDE DEF s, k, K
    <2>4. pr[p].s = s
        BY DEF s
    <2> QED BY <1>1, <1>2, <1>4, <1>5, <1>6, <1>7, <2>1, <2>3, <2>4, DoneStep
<1>8. CASE ~k.timedout /\ Goto(p, "recv") /\ UNCHANGED cku
    <2>1. pr' = [pr EXCEPT ![p].pc = "recv"] /\ "recv" \in Pcs /\ cku' = cku
        BY <1>8 DEF Goto, Pcs
    <2>2. ~cku[pr[p].s].timedout /\ ~timo'[pr[p].s]
        BY <1>6, <1>8, Zenon
    <2>3. \A t \in Slot : t # pr[p].s => /\ cku'[t] = cku[t]
                                         /\ rcv'[t] = rcv[t] /\ timo'[t] = timo[t]
        BY <1>5, <1>6, <2>1, Zenon
    <2>4. /\ ch' \in [Slot -> ChType] /\ cku' \in [Slot -> CkuType]
          /\ rcv' \in [Slot -> Seq(Xid)] /\ timo' \in [Slot -> BOOLEAN]
        BY <1>4, <1>5, <1>6, <2>1, Zenon
    <2>5. /\ "recv" \in {"call", "again", "bufwait", "recv", "rwait"} /\ "recv" # "call"
          /\ pr[p].pc \in {"recv", "rwoken"} /\ "recv" # "rwait"
        BY <1>1
    <2> QED BY <1>1, <1>5, <2>1, <2>2, <2>3, <2>4, <2>5, MoveStep, Zenon
<1> QED BY <1>7, <1>8 DEF RecvWakes

-----------------------------------------------------------------------------
(* Interrupts. *)

\* sbwakeup() wakes the one process that sleeps on the socket, or nobody.
LEMMA OneWoken ==
    ASSUME RpcInv, NEW s \in Slot, pr' = SocketWoken(s),
           NEW p \in Proc, pr[p].s = s, pr[p].pc = "rwait"
    PROVE  pr' = [pr EXCEPT ![p].pc = "rwoken"]
<1>1. pr \in [Proc -> PrType]
    BY DEF RpcInv, TypeOK
<1>2. \A q \in Proc : pr[q].s = s => q = p
    BY Constants DEF RpcInv, OneCaller, Slot
<1>3. pr'[p] = [pr[p] EXCEPT !.pc = "rwoken"]
    BY DEF SocketWoken
<1>4. \A q \in Proc : q # p => pr'[q] = pr[q]
    BY <1>2 DEF SocketWoken
<1>5. pr' = [q \in Proc |-> pr'[q]]
    BY DEF SocketWoken
<1> QED BY <1>1, <1>3, <1>4, <1>5

LEMMA NoneWoken ==
    ASSUME RpcInv, NEW s \in Slot, pr' = SocketWoken(s),
           \A q \in Proc : pr[q].s = s => pr[q].pc # "rwait"
    PROVE  pr' = pr
<1>1. pr \in [Proc -> PrType]
    BY DEF RpcInv, TypeOK
<1>2. \A q \in Proc : pr'[q] = pr[q]
    BY DEF SocketWoken
<1>3. pr' = [q \in Proc |-> pr'[q]]
    BY DEF SocketWoken
<1> QED BY <1>1, <1>2, <1>3

\* The network changes what is queued on a handle.
LEMMA NetStep ==
    ASSUME RpcInv, TypeOK', SentIntact', pr' = pr, ch' = ch, timo' = timo,
           \A t \in Slot : /\ cku'[t].busy = cku[t].busy /\ cku'[t].timedout = cku[t].timedout
                           /\ cku'[t].outxid = cku[t].outxid,
           \A q \in Proc : pr[q].pc = "rwait" => rcv'[pr[q].s] = rcv[pr[q].s]
    PROVE  RpcInv'
<1>1. HandleHeld'
    BY DEF RpcInv, HandleHeld, Holds, Calling
<1>2. OneCaller'
    BY DEF RpcInv, OneCaller, Calling
<1>3. RequestOut'
    <2>1. ASSUME NEW q \in Proc, pr[q].pc \in {"recv", "rwait", "rwoken"}
          PROVE  cku'[pr[q].s].outxid = pr[q].xid
        <3>1. Holds(q)
            BY <2>1 DEF Holds, Calling
        <3> QED BY <2>1, <3>1, Holder DEF Own
    <2> QED BY <2>1 DEF RpcInv, RequestOut, Calling
<1>4. ReplyMine'
    BY DEF RpcInv, ReplyMine
<1>5. TimeoutFresh'
    BY DEF RpcInv, TimeoutFresh
<1>6. NobodyForgotten'
    BY DEF RpcInv, NobodyForgotten, Takes
<1> QED BY <1>1, <1>2, <1>3, <1>4, <1>5, <1>6 DEF RpcInv

LEMMA WakeupKeeps == ASSUME RpcInv, NEW s \in Slot, ckuwakeup(s) PROVE RpcInv'
<1>1. PICK p \in Proc : pr[p].s = s /\ pr[p].pc \in {"rwait", "rwoken"}
    BY DEF RpcInv, TimeoutFresh, ckuwakeup
<1>2. Holds(p) /\ Calling(p)
    BY <1>1 DEF Holds, Calling
<1>3. Own(p)
    BY <1>2, Holder
<1>4. pr \in [Proc -> PrType] /\ cku \in [Slot -> CkuType] /\ timo \in [Slot -> BOOLEAN]
    BY DEF RpcInv, TypeOK
<1>5. /\ pr' \in [Proc -> PrType] /\ \A q \in Proc : q # p => pr'[q] = pr[q]
      /\ pr'[p].pc = "rwoken" /\ pr'[p].s = pr[p].s /\ pr'[p].xid = pr[p].xid
      /\ pr'[p].stries = pr[p].stries /\ pr'[p].got = pr[p].got /\ pr'[p].status = pr[p].status
    <2>1. CASE pr[p].pc = "rwait"
        <3>1. pr' = [pr EXCEPT ![p].pc = "rwoken"] /\ "rwoken" \in Pcs
            BY <1>1, <2>1, OneWoken DEF ckuwakeup, Pcs
        <3> QED BY <3>1, Moved DEF RpcInv
    <2>2. CASE pr[p].pc = "rwoken"
        <3>1. \A q \in Proc : pr[q].s = s => q = p
            BY <1>1, Constants DEF RpcInv, OneCaller, Slot
        <3>2. pr' = pr
            BY <2>2, <3>1, NoneWoken DEF ckuwakeup
        <3> QED BY <1>4, <2>2, <3>2
    <2> QED BY <1>1, <2>1, <2>2
<1>6. /\ cku' \in [Slot -> CkuType] /\ \A t \in Slot : t # s => cku'[t] = cku[t]
      /\ cku'[s].busy = cku[s].busy /\ cku'[s].count = cku[s].count
      /\ cku'[s].outxid = cku[s].outxid
    BY <1>4 DEF ckuwakeup, CkuType
<1>7. timo' \in [Slot -> BOOLEAN] /\ ~timo'[s] /\ \A t \in Slot : t # s => timo'[t] = timo[t]
    BY <1>4 DEF ckuwakeup
<1>8. ch' = ch /\ ifq' = ifq /\ sent' = sent /\ rcv' = rcv /\ nextxid' = nextxid
    BY DEF ckuwakeup
<1>9. TypeOK'
    <2>1. \A t \in Slot : cku'[t].count = Len(ifq'[t])
        BY <1>6, <1>8 DEF RpcInv, TypeOK
    <2> QED BY <1>5, <1>6, <1>7, <1>8, <2>1 DEF RpcInv, TypeOK
<1>10. Own(p)'
    <2>1. Holds(p)' /\ Calling(p)' = Calling(p)
        BY <1>2, <1>5 DEF Holds, Calling
    <2>2. cku[s].outxid = pr[p].xid /\ cku[s].busy = Calling(p)
        BY <1>1, <1>3 DEF Own
    <2>3. \A i \in DOMAIN ifq'[s] : ifq'[s][i] = cku'[s].outxid
        BY <1>1, <1>3, <1>6, <1>8 DEF Own
    <2>4. pr[p].xid \in Xid /\ pr[p].stries > 0 /\
          (pr[p].status \in {"success", "denied", "unavail"} => pr[p].got = pr[p].xid)
        BY <1>2, <1>3 DEF Own
    <2> QED BY <1>1, <1>5, <1>6, <1>7, <2>1, <2>2, <2>3, <2>4 DEF Own
<1> QED BY <1>1, <1>5, <1>6, <1>7, <1>8, <1>9, <1>10, OwnStep

LEMMA ArriveKeeps == ASSUME RpcInv, NEW s \in Slot, NEW x \in Xid, Arrive(s, x) PROVE RpcInv'
<1>1. pr \in [Proc -> PrType] /\ rcv \in [Slot -> Seq(Xid)] /\ cku \in [Slot -> CkuType]
    BY DEF RpcInv, TypeOK
<1>2. rcv' \in [Slot -> Seq(Xid)] /\ \A t \in Slot : t # s => rcv'[t] = rcv[t]
    BY <1>1 DEF Arrive
<1>3. /\ ch' = ch /\ cku' = cku /\ ifq' = ifq /\ sent' = sent /\ timo' = timo
      /\ nextxid' = nextxid /\ pr' = SocketWoken(s)
    BY DEF Arrive
<1>4. CASE \A q \in Proc : pr[q].s = s => pr[q].pc # "rwait"
    <2>1. pr' = pr
        BY <1>3, <1>4, NoneWoken
    <2>2. TypeOK'
        BY <1>2, <1>3, <2>1 DEF RpcInv, TypeOK
    <2>3. SentIntact'
        BY <1>3 DEF RpcInv, SentIntact
    <2>4. \A q \in Proc : pr[q].pc = "rwait" => rcv'[pr[q].s] = rcv[pr[q].s]
        <3>1. ASSUME NEW q \in Proc, pr[q].pc = "rwait" PROVE pr[q].s \in Slot
            <4>1. Holds(q)
                BY <3>1 DEF Holds, Calling
            <4> QED BY <4>1, Holder
        <3> QED BY <1>2, <1>4, <3>1
    <2> QED BY <1>3, <2>1, <2>2, <2>3, <2>4, NetStep
<1>5. CASE \E p \in Proc : pr[p].s = s /\ pr[p].pc = "rwait"
    <2>1. PICK p \in Proc : pr[p].s = s /\ pr[p].pc = "rwait"
        BY <1>5
    <2>2. Holds(p) /\ Calling(p)
        BY <2>1 DEF Holds, Calling
    <2>3. Own(p)
        BY <2>2, Holder
    <2>4. pr' = [pr EXCEPT ![p].pc = "rwoken"] /\ "rwoken" \in Pcs
        BY <1>3, <2>1, OneWoken DEF Pcs
    <2>5. /\ pr' \in [Proc -> PrType] /\ \A q \in Proc : q # p => pr'[q] = pr[q]
          /\ pr'[p].pc = "rwoken" /\ pr'[p].s = pr[p].s /\ pr'[p].xid = pr[p].xid
          /\ pr'[p].stries = pr[p].stries /\ pr'[p].got = pr[p].got
          /\ pr'[p].status = pr[p].status
        BY <2>4, Moved DEF RpcInv
    <2>6. TypeOK'
        BY <1>2, <1>3, <2>5 DEF RpcInv, TypeOK
    <2>7. Own(p)'
        <3>1. Holds(p)' /\ Calling(p)' = Calling(p)
            BY <2>2, <2>5 DEF Holds, Calling
        <3>2. cku[s].outxid = pr[p].xid /\ cku[s].busy = Calling(p)
            BY <2>1, <2>3 DEF Own
        <3>3. \A i \in DOMAIN ifq'[s] : ifq'[s][i] = cku'[s].outxid
            BY <2>1, <2>3, <1>3 DEF Own
        <3>4. pr[p].xid \in Xid /\ pr[p].stries > 0 /\
              (pr[p].status \in {"success", "denied", "unavail"} => pr[p].got = pr[p].xid)
            BY <2>2, <2>3 DEF Own
        <3> QED BY <1>3, <2>1, <2>5, <3>1, <3>2, <3>3, <3>4 DEF Own
    <2> QED BY <1>2, <1>3, <2>1, <2>5, <2>6, <2>7, OwnStep
<1> QED BY <1>4, <1>5

LEMMA BuffreeKeeps == ASSUME RpcInv, NEW s \in Slot, buffree(s) PROVE RpcInv'
<1>1. /\ ifq \in [Slot -> Seq(Xid)] /\ cku \in [Slot -> CkuType] /\ sent \in [Slot -> SUBSET Xid]
      /\ cku[s].count = Len(ifq[s]) /\ cku[s] \in CkuType /\ cku[s].count \in 0 .. QMax
    BY CkuFields DEF RpcInv, TypeOK
<1>2. /\ ifq[s] # <<>> /\ ifq' = [ifq EXCEPT ![s] = Tail(@)]
      /\ sent' = [sent EXCEPT ![s] = @ \cup {cku[s].outxid}]
      /\ cku' = [cku EXCEPT ![s] = Freed(cku[s])]
      /\ ch' = ch /\ rcv' = rcv /\ timo' = timo /\ nextxid' = nextxid /\ pr' = pr
    BY DEF buffree
<1> DEFINE K == Freed(cku[s])
<1>3. K = Cku(cku[s].busy, cku[s].timedout, cku[s].bufwanted /\ cku[s].count > 1,
              cku[s].count - 1, cku[s].outxid)
    BY <1>1, FreedForm
<1>4. /\ K \in CkuType /\ K.busy = cku[s].busy /\ K.timedout = cku[s].timedout
      /\ K.outxid = cku[s].outxid /\ K.count = cku[s].count - 1
    <2>1. /\ cku[s].busy \in BOOLEAN /\ cku[s].timedout \in BOOLEAN
          /\ cku[s].outxid \in 0 .. MaxXid /\ (cku[s].bufwanted /\ cku[s].count > 1) \in BOOLEAN
        BY <1>1, CkuFields
    <2>2. cku[s].count - 1 \in 0 .. QMax
        BY <1>1, <1>2, Constants
    <2> DEFINE b == cku[s].bufwanted /\ cku[s].count > 1
    <2>3. b \in BOOLEAN
        OBVIOUS
    <2>4. K = Cku(cku[s].busy, cku[s].timedout, b, cku[s].count - 1, cku[s].outxid)
        BY <1>3
    <2> HIDE DEF K, b
    <2>5. Cku(cku[s].busy, cku[s].timedout, b, cku[s].count - 1, cku[s].outxid) \in CkuType
        BY <2>1, <2>2, <2>3 DEF Cku, CkuType
    <2>6. /\ K.busy = cku[s].busy /\ K.timedout = cku[s].timedout
          /\ K.outxid = cku[s].outxid /\ K.count = cku[s].count - 1
        BY <2>4 DEF Cku
    <2> QED BY <2>4, <2>5, <2>6
<1>5. cku' = [cku EXCEPT ![s] = K]
    BY <1>2
<1> HIDE DEF K
<1>6. cku' \in [Slot -> CkuType] /\ cku'[s] = K /\ \A t \in Slot : t # s => cku'[t] = cku[t]
    BY <1>1, <1>4, <1>5
<1>7. /\ ifq' \in [Slot -> Seq(Xid)] /\ \A t \in Slot : t # s => ifq'[t] = ifq[t]
      /\ ifq'[s] = Tail(ifq[s]) /\ Len(ifq'[s]) = Len(ifq[s]) - 1
    <2>1. ifq[s] \in Seq(Xid) /\ ifq[s] # <<>>
        BY <1>1, <1>2
    <2>2. Tail(ifq[s]) \in Seq(Xid) /\ Len(Tail(ifq[s])) = Len(ifq[s]) - 1
        BY <2>1
    <2> QED BY <1>1, <1>2, <2>2
<1>8. \A i \in DOMAIN ifq'[s] : ifq'[s][i] = cku[s].outxid
    <2>1. \A i \in DOMAIN ifq[s] : ifq[s][i] = cku[s].outxid
        BY DEF RpcInv, SentIntact
    <2>2. ifq[s] \in Seq(Xid) /\ ifq[s] # <<>>
        BY <1>1, <1>2
    <2> QED BY <1>7, <2>1, <2>2
<1>9. sent' \in [Slot -> SUBSET Xid]
    <2>1. ifq[s] \in Seq(Xid) /\ ifq[s] # <<>>
        BY <1>1, <1>2
    <2>2. 1 \in DOMAIN ifq[s] /\ ifq[s][1] \in Xid
        BY <2>1
    <2>3. cku[s].outxid \in Xid
        BY <2>2 DEF RpcInv, SentIntact
    <2> QED BY <1>1, <1>2, <2>3
<1>10. TypeOK'
    <2>1. \A t \in Slot : cku'[t].count = Len(ifq'[t])
        BY <1>1, <1>4, <1>6, <1>7 DEF RpcInv, TypeOK
    <2> QED BY <1>2, <1>6, <1>7, <1>9, <2>1 DEF RpcInv, TypeOK
<1>11. SentIntact'
    <2>1. ASSUME NEW t \in Slot, t # s
          PROVE  \A i \in DOMAIN ifq'[t] : ifq'[t][i] = cku'[t].outxid
        BY <1>6, <1>7, <2>1 DEF RpcInv, SentIntact
    <2>2. \A i \in DOMAIN ifq'[s] : ifq'[s][i] = cku'[s].outxid
        BY <1>4, <1>6, <1>8
    <2> QED BY <2>1, <2>2 DEF SentIntact
<1> QED BY <1>2, <1>4, <1>6, <1>10, <1>11, NetStep

LEMMA BufdupKeeps == ASSUME RpcInv, NEW s \in Slot, bufdup(s) PROVE RpcInv'
<1>1. /\ ifq \in [Slot -> Seq(Xid)] /\ cku \in [Slot -> CkuType]
      /\ cku[s].count = Len(ifq[s]) /\ cku[s] \in CkuType /\ cku[s].count \in 0 .. QMax
    BY CkuFields DEF RpcInv, TypeOK
<1>2. /\ ifq[s] # <<>> /\ Len(ifq[s]) < QMax /\ ifq' = [ifq EXCEPT ![s] = Append(@, Last(@))]
      /\ cku' = [cku EXCEPT ![s].count = cku[s].count + 1]
      /\ ch' = ch /\ sent' = sent /\ rcv' = rcv /\ timo' = timo /\ nextxid' = nextxid /\ pr' = pr
    BY DEF bufdup
<1>3. cku[s].count + 1 \in 0 .. QMax
    BY <1>1, <1>2, Constants
<1>4. /\ cku' \in [Slot -> CkuType] /\ \A t \in Slot : t # s => cku'[t] = cku[t]
      /\ cku'[s].busy = cku[s].busy /\ cku'[s].timedout = cku[s].timedout
      /\ cku'[s].outxid = cku[s].outxid /\ cku'[s].count = cku[s].count + 1
    BY <1>1, <1>2, <1>3 DEF CkuType
<1>5. Last(ifq[s]) \in Xid /\ Last(ifq[s]) = cku[s].outxid
    <2>1. ifq[s] \in Seq(Xid) /\ Len(ifq[s]) \in DOMAIN ifq[s]
        BY <1>1, <1>2
    <2>2. Last(ifq[s]) = ifq[s][Len(ifq[s])]
        BY DEF Last
    <2> QED BY <2>1, <2>2 DEF RpcInv, SentIntact
<1>6. /\ ifq' \in [Slot -> Seq(Xid)] /\ \A t \in Slot : t # s => ifq'[t] = ifq[t]
      /\ ifq'[s] = Append(ifq[s], Last(ifq[s])) /\ Len(ifq'[s]) = Len(ifq[s]) + 1
    BY <1>1, <1>2, <1>5
<1>7. \A i \in DOMAIN ifq'[s] : ifq'[s][i] = cku[s].outxid
    <2>1. \A i \in DOMAIN ifq[s] : ifq[s][i] = cku[s].outxid
        BY DEF RpcInv, SentIntact
    <2>2. ifq[s] \in Seq(Xid)
        BY <1>1
    <2> QED BY <1>5, <1>6, <2>1, <2>2
<1>8. TypeOK'
    <2>1. \A t \in Slot : cku'[t].count = Len(ifq'[t])
        BY <1>1, <1>4, <1>6 DEF RpcInv, TypeOK
    <2> QED BY <1>2, <1>4, <1>6, <2>1 DEF RpcInv, TypeOK
<1>9. SentIntact'
    <2>1. ASSUME NEW t \in Slot, t # s
          PROVE  \A i \in DOMAIN ifq'[t] : ifq'[t][i] = cku'[t].outxid
        BY <1>4, <1>6, <2>1 DEF RpcInv, SentIntact
    <2>2. \A i \in DOMAIN ifq'[s] : ifq'[s][i] = cku'[s].outxid
        BY <1>4, <1>7
    <2> QED BY <2>1, <2>2 DEF SentIntact
<1> QED BY <1>2, <1>4, <1>8, <1>9, NetStep

-----------------------------------------------------------------------------
(* clget() and clfree(). *)

\* A step of a process that is in no call, and that others only notice because
\* they look for an entry again.
LEMMA TableStep ==
    ASSUME RpcInv, TypeOK', HandleHeld', NEW p \in Proc, ~Calling(p), ~Calling(p)',
           cku' = cku, ifq' = ifq, rcv' = rcv, timo' = timo,
           \A q \in Proc : /\ pr'[q].xid = pr[q].xid /\ pr'[q].stries = pr[q].stries
                           /\ pr'[q].got = pr[q].got /\ pr'[q].status = pr[q].status,
           \A q \in Proc : q # p =>
               /\ pr'[q].s = pr[q].s
               /\ pr'[q].pc = IF pr[q].pc = "clwait" /\ pr'[p].pc = "idle" THEN "clget"
                              ELSE pr[q].pc,
           \A q \in Proc : q # p /\ pr'[p].s # 0 => pr[q].s # pr'[p].s,
           \A q \in Proc : pr'[q].pc = "clwait" => Takes(q)' = 0
    PROVE  RpcInv'
<1>1. ASSUME NEW q \in Proc
      PROVE  /\ Calling(q)' <=> Calling(q)
             /\ Calling(q) => q # p /\ pr'[q].s = pr[q].s /\ pr'[q].pc = pr[q].pc
    BY DEF Calling
<1>2. OneCaller'
    <2>1. \A q, r \in Proc : pr'[q].s # 0 /\ pr'[q].s = pr'[r].s => q = r
        BY DEF RpcInv, OneCaller
    <2>2. \A s \in Slot : cku'[s].busy <=> \E q \in Proc : pr[q].s = s /\ Calling(q)
        BY DEF RpcInv, OneCaller
    <2> HIDE DEF Calling
    <2>3. \A s \in Slot : cku'[s].busy <=> \E q \in Proc : pr'[q].s = s /\ Calling(q)'
        BY <1>1, <2>2
    <2> QED BY <2>1, <2>3 DEF OneCaller
<1>3. SentIntact'
    BY DEF RpcInv, SentIntact
<1>4. RequestOut'
    <2>1. ASSUME NEW q \in Proc, Calling(q)'
          PROVE  /\ pr'[q].xid \in Xid /\ pr'[q].stries > 0
                 /\ pr'[q].pc \in {"recv", "rwait", "rwoken"} => cku'[pr'[q].s].outxid = pr'[q].xid
        BY <1>1, <2>1 DEF RpcInv, RequestOut
    <2> QED BY <2>1 DEF RequestOut, Calling
<1>5. ReplyMine'
    BY DEF RpcInv, ReplyMine
<1>6. TimeoutFresh'
    <2>1. \A q \in Proc : pr[q].pc \in {"rwait", "rwoken"} => pr'[q].s = pr[q].s /\ pr'[q].pc = pr[q].pc
        BY <1>1 DEF Calling
    <2> QED BY <2>1 DEF RpcInv, TimeoutFresh
<1>7. NobodyForgotten'
    <2>1. ASSUME NEW q \in Proc, pr'[q].pc = "rwait"
          PROVE  timo'[pr'[q].s] /\ rcv'[pr'[q].s] = <<>>
        <3>1. pr[q].pc = "rwait" /\ pr'[q].s = pr[q].s
            BY <1>1, <2>1 DEF Calling
        <3> QED BY <3>1 DEF RpcInv, NobodyForgotten
    <2> QED BY <2>1 DEF NobodyForgotten
<1> QED BY <1>2, <1>3, <1>4, <1>5, <1>6, <1>7 DEF RpcInv

LEMMA WaitKeeps ==
    ASSUME RpcInv, NEW p \in Proc, pr[p].pc \in {"idle", "clget"}, Takes(p) = 0,
           Goto(p, "clwait"), UNCHANGED ch, UNCHANGED <<cku, Net, nextxid>>
    PROVE  RpcInv'
<1>1. /\ ch' = ch /\ cku' = cku /\ ifq' = ifq /\ sent' = sent /\ rcv' = rcv /\ timo' = timo
      /\ nextxid' = nextxid /\ pr' = [pr EXCEPT ![p].pc = "clwait"] /\ "clwait" \in Pcs
    BY DEF Net, Goto, Pcs
<1>2. /\ pr' \in [Proc -> PrType] /\ \A q \in Proc : q # p => pr'[q] = pr[q]
      /\ pr'[p].pc = "clwait" /\ pr'[p].s = pr[p].s /\ pr'[p].xid = pr[p].xid
      /\ pr'[p].stries = pr[p].stries /\ pr'[p].got = pr[p].got /\ pr'[p].status = pr[p].status
    BY <1>1, Moved DEF RpcInv
<1>3. TypeOK'
    BY <1>1, <1>2 DEF RpcInv, TypeOK
<1>4. ~Holds(p) /\ ~Calling(p) /\ ~Holds(p)' /\ ~Calling(p)' /\ pr[p].s = 0
    BY <1>2 DEF RpcInv, HandleHeld, Holds, Calling
<1>5. HandleHeld'
    BY <1>1, <1>2, <1>4 DEF RpcInv, HandleHeld, Holds, Calling
<1>6. \A q \in Proc : pr'[q].pc = "clwait" => Takes(q)' = 0
    BY <1>1, <1>2 DEF RpcInv, NobodyForgotten, Takes
<1> QED BY <1>1, <1>2, <1>3, <1>4, <1>5, <1>6, TableStep

LEMMA TakeKeeps ==
    ASSUME RpcInv, NEW p \in Proc, pr[p].pc \in {"idle", "clget"}, Takes(p) # 0,
           ch' = EntryTaken(Takes(p), p),
           pr' = [pr EXCEPT ![p].s = Takes(p),
                            ![p].pc = IF ch[Takes(p)].client THEN "call" ELSE "create"],
           UNCHANGED <<cku, Net, nextxid>>
    PROVE  RpcInv'
<1> DEFINE m == Takes(p)
           c == IF ch[m].client THEN "call" ELSE "create"
<1>1. m \in Slot /\ ~ch[m].inuse
    BY TakesSlot
<1>2. /\ cku' = cku /\ ifq' = ifq /\ sent' = sent /\ rcv' = rcv /\ timo' = timo
      /\ nextxid' = nextxid
    BY DEF Net
<1>3. ch \in [Slot -> ChType] /\ pr \in [Proc -> PrType]
    BY DEF RpcInv, TypeOK
<1>4. c \in {"call", "create"} /\ c \in Pcs
    BY DEF Pcs
<1>5. pr' = [pr EXCEPT ![p].s = m, ![p].pc = c]
    OBVIOUS
<1>6. PICK h \in BOOLEAN : ch' = [ch EXCEPT ![m].inuse = TRUE, ![m].hard = h]
    <2>1. ch' = [ch EXCEPT ![m].inuse = TRUE, ![m].hard = (p \in Hard)] /\ (p \in Hard) \in BOOLEAN
        BY DEF EntryTaken
    <2> HIDE DEF m
    <2> QED BY <2>1, Zenon
<1> HIDE DEF m, c
<1>7. /\ ch' \in [Slot -> ChType] /\ \A t \in Slot : t # m => ch'[t] = ch[t]
      /\ ch'[m].inuse = TRUE
    <2> DEFINE g == [ch EXCEPT ![m].inuse = TRUE, ![m].hard = h]
    <2>1. /\ g \in [Slot -> ChType] /\ \A t \in Slot : t # m => g[t] = ch[t]
          /\ g[m].inuse = TRUE
        BY <1>1, <1>3, ChTake, ZenonT(60)
    <2>2. ch' = g
        BY <1>6, Zenon
    <2> HIDE DEF g
    <2> QED BY <2>1, <2>2, Zenon
<1>8. /\ pr' \in [Proc -> PrType] /\ \A q \in Proc : q # p => pr'[q] = pr[q]
      /\ pr'[p].pc = c /\ pr'[p].s = m /\ pr'[p].xid = pr[p].xid
      /\ pr'[p].stries = pr[p].stries /\ pr'[p].got = pr[p].got /\ pr'[p].status = pr[p].status
    <2> DEFINE r == Pr(c, m, pr[p].xid, pr[p].stries, pr[p].rtries, pr[p].got, pr[p].status)
    <2>1. pr'[p] = r
        BY <1>3, <1>5 DEF PrType, Pr
    <2>2. r \in PrType
        <3>1. /\ pr[p].xid \in 0 .. MaxXid /\ pr[p].stries \in 0 .. retrys
              /\ pr[p].rtries \in 0 .. RECVTRIES /\ pr[p].got \in 0 .. MaxXid
              /\ pr[p].status \in Status
            BY <1>3, PrFields
        <3>2. m \in 0 .. MAXCLIENTS
            BY <1>1, Constants DEF Slot
        <3> QED BY <1>4, <3>1, <3>2 DEF Pr, PrType
    <2>3. pr' = [q \in Proc |-> pr'[q]] /\ \A q \in Proc : q # p => pr'[q] = pr[q]
        BY <1>3, <1>5
    <2> HIDE DEF r
    <2>4. pr' \in [Proc -> PrType]
        BY <1>3, <2>1, <2>2, <2>3
    <2> QED BY <2>1, <2>3, <2>4 DEF r, Pr
<1>9. TypeOK'
    BY <1>2, <1>7, <1>8 DEF RpcInv, TypeOK
<1>10. ~Holds(p) /\ ~Calling(p) /\ Holds(p)' /\ ~Calling(p)' /\ pr[p].s = 0
    BY <1>4, <1>8 DEF RpcInv, HandleHeld, Holds, Calling
<1>11. \A q \in Proc : pr[q].s # m
    BY <1>1, Constants DEF RpcInv, HandleHeld, Slot
<1>12. HandleHeld'
    <2>1. ASSUME NEW q \in Proc, q # p
          PROVE  (Holds(q)' <=> pr'[q].s # 0) /\ (pr'[q].s # 0 => ch'[pr'[q].s].inuse)
        <3>1. (Holds(q) <=> pr[q].s # 0) /\ (pr[q].s # 0 => ch[pr[q].s].inuse)
            BY DEF RpcInv, HandleHeld
        <3>2. (Holds(q)' <=> Holds(q)) /\ pr'[q].s = pr[q].s
            BY <1>8, <2>1 DEF Holds, Calling
        <3>3. pr[q].s \in 0 .. MAXCLIENTS
            BY <1>3, PrFields
        <3>4. pr[q].s # 0 => ch'[pr[q].s] = ch[pr[q].s]
            BY <1>7, <1>11, <3>3, Constants DEF Slot
        <3> QED BY <3>1, <3>2, <3>4
    <2>2. m # 0 /\ ch'[m].inuse
        BY <1>1, <1>7, Constants DEF Slot
    <2> QED BY <1>8, <1>10, <2>1, <2>2 DEF HandleHeld
<1>13. ASSUME NEW q \in Proc, pr'[q].pc = "clwait" PROVE Takes(q)' = 0
    <2>1. q # p /\ pr[q].pc = "clwait"
        BY <1>4, <1>8, <1>13
    <2>2. Nothing(ch, q)
        BY <2>1, TakesNow DEF RpcInv, NobodyForgotten
    <2>3. Nothing(ch', q)
        BY <2>2, <1>1, <1>7 DEF Nothing
    <2> QED BY <2>3, TakesNext
<1>14. pr'[p].pc # "idle"
    BY <1>4, <1>8
<1> QED BY <1>2, <1>8, <1>9, <1>10, <1>11, <1>12, <1>13, <1>14, TableStep

LEMMA FreeKeeps ==
    ASSUME RpcInv, NEW p \in Proc, pr[p].pc = "ret", clfree(p), UNCHANGED <<cku, Net, nextxid>>
    PROVE  RpcInv'
<1> DEFINE s == pr[p].s
<1>1. Holds(p) /\ ~Calling(p)
    BY DEF Holds, Calling
<1>2. s \in Slot /\ s # 0
    BY <1>1, Holder, Constants DEF Slot
<1>3. /\ cku' = cku /\ ifq' = ifq /\ sent' = sent /\ rcv' = rcv /\ timo' = timo
      /\ nextxid' = nextxid
    BY DEF Net
<1>4. ch \in [Slot -> ChType] /\ pr \in [Proc -> PrType]
    BY DEF RpcInv, TypeOK
<1>5. ch' = [ch EXCEPT ![s].inuse = FALSE] /\ pr' = [Woken(p) EXCEPT ![p].pc = "idle", ![p].s = 0]
    BY DEF clfree
<1>6. /\ ch' \in [Slot -> ChType] /\ \A t \in Slot : t # s => ch'[t] = ch[t]
      /\ ch'[s].inuse = FALSE
    <2> HIDE DEF s
    <2>1. ch' = [ch EXCEPT ![s].inuse = FALSE]
        BY <1>5
    <2> QED BY <1>2, <1>4, <2>1 DEF ChType
<1> DEFINE NewPc(q) == IF pr[q].pc = "clwait" THEN "clget" ELSE pr[q].pc
<1>7. ASSUME NEW q \in Proc, q # p
      PROVE  pr'[q] = Pr(NewPc(q), pr[q].s, pr[q].xid, pr[q].stries, pr[q].rtries, pr[q].got,
                         pr[q].status)
    <2>1. pr'[q] = Woken(p)[q]
        BY <1>5, <1>7 DEF Woken
    <2>2. pr[q] \in PrType
        BY <1>4
    <2>3. CASE pr[q].pc = "clwait"
        <3>1. pr'[q] = [pr[q] EXCEPT !.pc = "clget"]
            BY <2>1, <2>3 DEF Woken
        <3> QED BY <2>2, <2>3, <3>1 DEF PrType, Pr
    <2>4. CASE pr[q].pc # "clwait"
        <3>1. pr'[q] = pr[q]
            BY <2>1, <2>4 DEF Woken
        <3> QED BY <2>2, <2>4, <3>1, PrFields
    <2> QED BY <2>3, <2>4
<1>8. pr'[p] = Pr("idle", 0, pr[p].xid, pr[p].stries, pr[p].rtries, pr[p].got, pr[p].status)
    <2>1. Woken(p)[p] = pr[p] /\ Woken(p) = [q \in Proc |-> Woken(p)[q]]
        BY DEF Woken
    <2>2. pr'[p] = [[pr[p] EXCEPT !.pc = "idle"] EXCEPT !.s = 0]
        <3> DEFINE w == Woken(p)
        <3>1. pr' = [w EXCEPT ![p].pc = "idle", ![p].s = 0] /\ w[p] = pr[p]
              /\ w = [q \in Proc |-> w[q]]
            BY <1>5, <2>1
        <3> HIDE DEF w
        <3> QED BY <3>1
    <2>3. pr[p] \in PrType
        BY <1>4
    <2>4. [pr[p] EXCEPT !.pc = "idle"] = Pr("idle", pr[p].s, pr[p].xid, pr[p].stries, pr[p].rtries,
                                            pr[p].got, pr[p].status)
        BY <2>3 DEF PrType, Pr
    <2> QED BY <2>2, <2>4 DEF Pr
<1>9. ASSUME NEW q \in Proc
      PROVE  /\ pr'[q] \in PrType /\ pr'[q].xid = pr[q].xid /\ pr'[q].stries = pr[q].stries
             /\ pr'[q].got = pr[q].got /\ pr'[q].status = pr[q].status
             /\ q # p => pr'[q].s = pr[q].s /\ pr'[q].pc = NewPc(q)
    <2>1. /\ pr[q].s \in 0 .. MAXCLIENTS /\ pr[q].xid \in 0 .. MaxXid
          /\ pr[q].stries \in 0 .. retrys /\ pr[q].rtries \in 0 .. RECVTRIES
          /\ pr[q].got \in 0 .. MaxXid /\ pr[q].status \in Status /\ pr[q].pc \in Pcs
        BY <1>4, PrFields
    <2>2. NewPc(q) \in Pcs /\ "idle" \in Pcs /\ 0 \in 0 .. MAXCLIENTS
        BY <2>1, Constants DEF Pcs
    <2> HIDE DEF NewPc
    <2>3. CASE q # p
        <3>1. pr'[q] = Pr(NewPc(q), pr[q].s, pr[q].xid, pr[q].stries, pr[q].rtries, pr[q].got,
                          pr[q].status)
            BY <1>7, <2>3
        <3>2. pr'[q] \in PrType
            BY <2>1, <2>2, <3>1 DEF Pr, PrType
        <3> QED BY <3>1, <3>2 DEF Pr
    <2>4. CASE q = p
        <3>1. pr'[q] \in PrType
            BY <1>8, <2>1, <2>2, <2>4 DEF Pr, PrType
        <3> QED BY <1>8, <2>4, <3>1 DEF Pr
    <2> QED BY <2>3, <2>4
<1>10. pr'[p].pc = "idle" /\ pr'[p].s = 0
    BY <1>8 DEF Pr
<1>11. pr' \in [Proc -> PrType]
    <2>1. pr' = [q \in Proc |-> pr'[q]]
        <3> DEFINE w == Woken(p)
        <3>1. pr' = [w EXCEPT ![p].pc = "idle", ![p].s = 0] /\ w = [q \in Proc |-> w[q]]
            BY <1>5 DEF Woken
        <3> HIDE DEF w
        <3> QED BY <3>1
    <2> HIDE DEF NewPc
    <2> QED BY <1>9, <2>1
<1>12. TypeOK'
    BY <1>3, <1>6, <1>11 DEF RpcInv, TypeOK
<1>13. ~Calling(p)' /\ ~Holds(p)'
    BY <1>10 DEF Calling, Holds
<1>14. HandleHeld'
    <2>1. ASSUME NEW q \in Proc, q # p
          PROVE  (Holds(q)' <=> pr'[q].s # 0) /\ (pr'[q].s # 0 => ch'[pr'[q].s].inuse)
        <3>1. (Holds(q) <=> pr[q].s # 0) /\ (pr[q].s # 0 => ch[pr[q].s].inuse)
            BY DEF RpcInv, HandleHeld
        <3>2. (Holds(q)' <=> Holds(q)) /\ pr'[q].s = pr[q].s
            BY <1>9, <2>1 DEF Holds, Calling
        <3>3. pr[q].s \in 0 .. MAXCLIENTS
            BY <1>4, PrFields
        <3>4. pr[q].s # s
            BY <1>2, <2>1 DEF RpcInv, OneCaller
        <3>5. pr[q].s # 0 => ch'[pr[q].s] = ch[pr[q].s]
            BY <1>6, <3>3, <3>4, Constants DEF Slot
        <3> QED BY <3>1, <3>2, <3>5
    <2> QED BY <1>10, <1>13, <2>1 DEF HandleHeld
<1>15. \A q \in Proc : pr'[q].pc # "clwait"
    BY <1>9, <1>10
<1>16. \A q \in Proc : q # p =>
           /\ pr'[q].s = pr[q].s
           /\ pr'[q].pc = IF pr[q].pc = "clwait" /\ pr'[p].pc = "idle" THEN "clget" ELSE pr[q].pc
    BY <1>9, <1>10
<1>17. \A q \in Proc : /\ pr'[q].xid = pr[q].xid /\ pr'[q].stries = pr[q].stries
                       /\ pr'[q].got = pr[q].got /\ pr'[q].status = pr[q].status
    BY <1>9
<1> QED BY <1>1, <1>3, <1>10, <1>12, <1>13, <1>14, <1>15, <1>16, <1>17, TableStep

-----------------------------------------------------------------------------
(* The theorems. *)

LEMMA InitHolds == ASSUME Init PROVE RpcInv
<1>1. TypeOK
    <2>1. ch \in [Slot -> ChType] /\ cku \in [Slot -> CkuType]
        BY Constants DEF Init, ChType, CkuType
    <2>2. pr \in [Proc -> PrType]
        BY Constants DEF Init, PrType, Pcs, Status
    <2>3. /\ ifq \in [Slot -> Seq(Xid)] /\ sent \in [Slot -> SUBSET Xid]
          /\ rcv \in [Slot -> Seq(Xid)] /\ timo \in [Slot -> BOOLEAN]
          /\ nextxid \in 1 .. MaxXid + 1
        BY Constants DEF Init
    <2>4. \A s \in Slot : cku[s].count = Len(ifq[s])
        BY DEF Init
    <2> QED BY <2>1, <2>2, <2>3, <2>4 DEF TypeOK
<1>2. \A p \in Proc : pr[p].pc = "idle" /\ pr[p].s = 0 /\ pr[p].status = "none"
    BY DEF Init
<1>3. \A s \in Slot : /\ ~cku[s].busy /\ ~cku[s].timedout /\ ~timo[s] /\ ifq[s] = <<>>
    BY DEF Init
<1>4. HandleHeld /\ RequestOut /\ ReplyMine
    BY <1>2 DEF HandleHeld, RequestOut, ReplyMine, Holds, Calling
<1>5. OneCaller /\ SentIntact /\ TimeoutFresh /\ NobodyForgotten
    BY <1>2, <1>3 DEF OneCaller, SentIntact, TimeoutFresh, NobodyForgotten, Calling
<1> QED BY <1>1, <1>4, <1>5 DEF RpcInv

LEMMA StepKeeps == ASSUME RpcInv, [Next]_vars PROVE RpcInv'
<1>1. ASSUME NEW p \in Proc, clget(p) PROVE RpcInv'
    <2>1. /\ pr[p].pc \in {"idle", "clget"} /\ UNCHANGED <<cku, Net, nextxid>>
          /\ \/ Takes(p) = 0 /\ Goto(p, "clwait") /\ UNCHANGED ch
             \/ /\ Takes(p) # 0 /\ ch' = EntryTaken(Takes(p), p)
                /\ pr' = [pr EXCEPT ![p].s = Takes(p),
                            ![p].pc = IF ch[Takes(p)].client THEN "call" ELSE "create"]
        BY <1>1, Zenon DEF clget
    <2>2. CASE Takes(p) = 0 /\ Goto(p, "clwait") /\ UNCHANGED ch
        BY <2>1, <2>2, WaitKeeps
    <2>3. CASE /\ Takes(p) # 0 /\ ch' = EntryTaken(Takes(p), p)
               /\ pr' = [pr EXCEPT ![p].s = Takes(p),
                           ![p].pc = IF ch[Takes(p)].client THEN "call" ELSE "create"]
        BY <2>1, <2>3, TakeKeeps, Zenon
    <2> QED BY <2>1, <2>2, <2>3
<1>2. ASSUME NEW p \in Proc, rfscall(p) PROVE RpcInv'
    <2>1. /\ pr[p].pc = "ret" /\ UNCHANGED <<cku, Net, nextxid>>
          /\ (Goto(p, "call") /\ UNCHANGED ch) \/ clfree(p)
        BY <1>2 DEF rfscall
    <2>2. CASE Goto(p, "call") /\ UNCHANGED ch
        BY <2>1, <2>2, AgainKeeps
    <2>3. CASE clfree(p)
        BY <2>1, <2>3, FreeKeeps
    <2> QED BY <2>1, <2>2, <2>3
<1>3. ASSUME NEW p \in Proc, Recv(p) PROVE RpcInv'
    BY <1>3, RecvSleepsKeeps, RecvReplyKeeps, RecvOtherKeeps DEF Recv
<1>4. ASSUME NEW p \in Proc, Runs(p) PROVE RpcInv'
    BY <1>2, <1>3, <1>4, CreateKeeps, CallitKeeps, CallAgainKeeps, WaitedKeeps, RecvWakesKeeps
       DEF Runs
<1>5. CASE UNCHANGED vars
    <2>1. TypeOK' /\ SentIntact'
        BY <1>5 DEF RpcInv, TypeOK, SentIntact, vars
    <2> QED BY <1>5, <2>1, NetStep DEF vars
<1> QED BY <1>1, <1>4, <1>5, WakeupKeeps, BuffreeKeeps, BufdupKeeps, ArriveKeeps DEF Next

LEMMA InvAlways == Spec => []RpcInv
<1>1. Init => RpcInv
    BY InitHolds
<1>2. RpcInv /\ [Next]_vars => RpcInv'
    BY StepKeeps
<1> QED BY <1>1, <1>2, PTL DEF Spec

\* A call through a handle is intact: the handle is with one process, which is in
\* callit() when it is busy; the request the interface reads is not overwritten; the
\* reply that is returned is the one to this call, although replies come late, twice
\* or out of order; and a timeout is about the sleep that has just ended.
THEOREM CallsIntact == Spec => []CallIntact
<1>1. RpcInv => CallIntact
    BY DEF RpcInv, CallIntact
<1> QED BY <1>1, InvAlways, PTL

\* Nobody sleeps in clget() while the search would find it an entry, and nobody sleeps
\* for a reply that has come, or without a timer that ends the sleep.
THEOREM NobodyIsForgotten == Spec => []NobodyForgotten
<1>1. RpcInv => NobodyForgotten
    BY DEF RpcInv
<1> QED BY <1>1, InvAlways, PTL

-----------------------------------------------------------------------------
(***************************************************************************)
(* The server: what holds with any number of daemons, copies at any time   *)
(* and reboots of the client.                                              *)
(***************************************************************************)
Outcome == {"ok", "ENOENT", "EEXIST"}

Daemon == [pc : {"idle", "work", "trunc", "save"}, req : Req \cup {<<>>}, trunc : BOOLEAN]

Client == [call : 0 .. MaxCalls, waiting : BOOLEAN, op : Ops \cup {"none"}, status : Outcome,
           kept : SUBSET Call, before : SUBSET Call]

DupEntry == [xid : NfsXid, op : Ops]

\* A request that is about is of a call that client c has made, and that of its last
\* call has the last transaction id, before x, and its procedure.
About(r, c, x) ==
    /\ r \in Req /\ r.call <= c.call
    /\ r.call = c.call => r.op = c.op /\ r.xid = x - 1

Busy(n) == nfsd[n].pc # "idle"

\* What a daemon does agrees with its request; a change that has been made is
\* known until its transaction id is saved.
DaemonOK(n) ==
    /\ Busy(n) => About(nfsd[n].req, cl, nfsxid)
    /\ nfsd[n].pc = "trunc" => nfsd[n].req.op = "create"
    /\ nfsd[n].pc = "save" => nfsd[n].req.call \in did /\ nfsd[n].req.op # "write"

ServerInv ==
    /\ NfsType
    /\ nfsd \in [Nfsd -> Daemon] /\ cl \in Client
    /\ \A r \in net : About(r, cl, nfsxid) /\ r.left > 0
    /\ \A n \in Nfsd : DaemonOK(n)
    /\ \A c \in did : c <= cl.call

LEMMA NfsBounds ==
    /\ MAXDUPREQS \in Nat \ {0} /\ Reboots \in Nat /\ MaxCalls \in Nat \ {0}
    /\ MaxCopies \in Nat \ {0} /\ Late \in BOOLEAN /\ None \notin Nfsd
    /\ Ops \subseteq {"create", "write", "remove", "link", "mkdir", "rmdir"}
BY NfsAssumption DEF NfsServerConstants

LEMMA ReqFields ==
    ASSUME NEW r \in Req
    PROVE  /\ r.call \in Call /\ r.xid \in NfsXid /\ r.op \in Ops /\ r.left \in 0 .. MaxCopies
           /\ r.call \in Int /\ r.xid \in Int /\ r.left \in Int
           /\ [xid |-> r.xid, op |-> r.op] \in DupEntry
BY NfsBounds DEF Req, Call, NfsXid, DupEntry

LEMMA ClientFields ==
    ASSUME NEW c \in Client
    PROVE  /\ c.call \in 0 .. MaxCalls /\ c.call \in Int /\ c.waiting \in BOOLEAN
           /\ c.op \in Ops \cup {"none"} /\ c.status \in Outcome
           /\ c.kept \in SUBSET Call /\ c.before \in SUBSET Call
BY NfsBounds DEF Client

\* A new entry is the last one; the oldest goes when there is no room for it.
LEMMA DupSaveIs ==
    ASSUME dup \in Seq(DupEntry), Len(dup) <= MAXDUPREQS, NEW r \in Req
    PROVE  /\ DupSave(r) \in Seq(DupEntry) /\ Len(DupSave(r)) <= MAXDUPREQS
           /\ Len(DupSave(r)) \in DOMAIN DupSave(r)
           /\ DupSave(r)[Len(DupSave(r))] = [xid |-> r.xid, op |-> r.op]
           /\ \A k \in DOMAIN DupSave(r) :
                \/ DupSave(r)[k] = [xid |-> r.xid, op |-> r.op]
                \/ \E j \in DOMAIN dup : DupSave(r)[k] = dup[j]
           /\ Len(dup) < MAXDUPREQS =>
                \A j \in DOMAIN dup : j \in DOMAIN DupSave(r) /\ DupSave(r)[j] = dup[j]
<1> DEFINE e == [xid |-> r.xid, op |-> r.op]
           q == IF Len(dup) < MAXDUPREQS THEN dup ELSE Tail(dup)
<1>1. e \in DupEntry /\ MAXDUPREQS \in Nat /\ MAXDUPREQS > 0
    BY ReqFields, NfsBounds
<1>2. /\ q \in Seq(DupEntry) /\ Len(q) < MAXDUPREQS
      /\ \A k \in DOMAIN q : \E j \in DOMAIN dup : q[k] = dup[j]
      /\ Len(dup) < MAXDUPREQS => q = dup
    <2>1. CASE Len(dup) < MAXDUPREQS
        BY <2>1
    <2>2. CASE ~(Len(dup) < MAXDUPREQS)
        <3>1. Len(dup) = MAXDUPREQS /\ dup # <<>> /\ Len(dup) \in Nat
            BY <1>1, <2>2
        <3>2. /\ Tail(dup) \in Seq(DupEntry) /\ Len(Tail(dup)) = Len(dup) - 1
              /\ \A k \in 1 .. Len(dup) - 1 : Tail(dup)[k] = dup[k + 1]
            BY <3>1
        <3>3. ASSUME NEW k \in DOMAIN Tail(dup) PROVE \E j \in DOMAIN dup : Tail(dup)[k] = dup[j]
            <4>1. k \in 1 .. Len(dup) - 1
                BY <3>2
            <4>2. k + 1 \in DOMAIN dup
                BY <3>1, <4>1
            <4> QED BY <3>2, <4>1, <4>2
        <3> QED BY <1>1, <2>2, <3>1, <3>2, <3>3
    <2> QED BY <2>1, <2>2
<1>3. DupSave(r) = Append(q, e)
    BY DEF DupSave
<1> HIDE DEF q, e
<1>4. /\ Append(q, e) \in Seq(DupEntry) /\ Len(Append(q, e)) = Len(q) + 1 /\ Len(q) \in Nat
      /\ DOMAIN Append(q, e) = 1 .. Len(q) + 1 /\ DOMAIN q = 1 .. Len(q)
      /\ Append(q, e)[Len(q) + 1] = e
      /\ \A k \in 1 .. Len(q) : Append(q, e)[k] = q[k]
    BY <1>1, <1>2
<1>5. ASSUME NEW k \in DOMAIN Append(q, e)
      PROVE  Append(q, e)[k] = e \/ \E j \in DOMAIN dup : Append(q, e)[k] = dup[j]
    <2>1. k = Len(q) + 1 \/ k \in DOMAIN q
        BY <1>4
    <2> QED BY <1>2, <1>4, <2>1
<1>6. ASSUME Len(dup) < MAXDUPREQS, NEW j \in DOMAIN dup
      PROVE  j \in DOMAIN Append(q, e) /\ Append(q, e)[j] = dup[j]
    BY <1>2, <1>4, <1>6
<1>7. Len(Append(q, e)) \in DOMAIN Append(q, e) /\ Len(Append(q, e)) <= MAXDUPREQS
    BY <1>1, <1>2, <1>4
<1> QED BY <1>3, <1>4, <1>5, <1>6, <1>7 DEF e

\* One daemon goes on.
Goes(n, d) ==
    /\ d \in Daemon /\ nfsd' \in [Nfsd -> Daemon] /\ nfsd'[n] = d
    /\ \A m \in Nfsd \ {n} : nfsd'[m] = nfsd[m]

LEMMA GoesOn ==
    ASSUME nfsd \in [Nfsd -> Daemon], NEW n \in Nfsd, NEW d \in Daemon,
           nfsd' = [nfsd EXCEPT ![n] = d]
    PROVE  Goes(n, d)
BY DEF Goes

\* What a reply does to the client: nothing, or its call ends.
Answered(r, st) ==
    /\ cl.waiting /\ r.call = cl.call /\ cl'.waiting = FALSE /\ cl'.status = st
    /\ cl'.kept = cl.kept \cup (IF r.op = "write" /\ st = "ok" THEN {r.call} ELSE {})

Replied(n, st) ==
    /\ Goes(n, IdleNfsd) /\ net' = net /\ lock' = lock /\ nfsxid' = nfsxid
    /\ did' = did /\ boots' = boots
    /\ cl' \in Client /\ cl'.call = cl.call /\ cl'.op = cl.op /\ cl'.before = cl.before
    /\ cl' = cl \/ Answered(nfsd[n].req, st)

LEMMA ReplyIs ==
    ASSUME ServerInv, NEW n \in Nfsd, Busy(n), NEW st \in Outcome, Reply(n, st)
    PROVE  Replied(n, st)
<1> DEFINE r == nfsd[n].req
<1>1. nfsd \in [Nfsd -> Daemon] /\ cl \in Client /\ r \in Req
    BY DEF ServerInv, DaemonOK, About
<1>2. IdleNfsd \in Daemon
    BY DEF IdleNfsd, Daemon
<1>3. Goes(n, IdleNfsd)
    BY <1>1, <1>2, GoesOn DEF Reply
<1>4. CASE cl' = cl
    BY <1>1, <1>3, <1>4 DEF Reply, Replied
<1>5. CASE cl' # cl
    <2>1. /\ cl.waiting /\ r.call = cl.call
          /\ cl' = [cl EXCEPT !.waiting = FALSE, !.status = st,
                      !.kept = IF r.op = "write" /\ st = "ok" THEN @ \cup {r.call} ELSE @]
        BY <1>5 DEF Reply, Told
    <2>2. r.call \in Call
        BY <1>1, ReqFields
    <2> HIDE DEF r
    <2>3. cl' \in Client /\ cl'.call = cl.call /\ cl'.op = cl.op /\ cl'.before = cl.before
        BY <1>1, <2>1, <2>2 DEF Client
    <2>4. Answered(r, st)
        BY <1>1, <2>1 DEF Client, Answered
    <2> QED BY <1>3, <2>3, <2>4 DEF Reply, Replied, r
<1> QED BY <1>4, <1>5

Saved(n) ==
    /\ Goes(n, [pc |-> "save", req |-> nfsd[n].req, trunc |-> nfsd[n].trunc])
    /\ did' = did \cup {nfsd[n].req.call} /\ net' = net /\ dup' = dup
    /\ nfsxid' = nfsxid /\ cl' = cl /\ boots' = boots

LEMMA SavesIs ==
    ASSUME ServerInv, NEW n \in Nfsd, Busy(n), Saves(n)
    PROVE  Saved(n)
<1>1. nfsd \in [Nfsd -> Daemon] /\ nfsd[n] \in Daemon
    BY DEF ServerInv
<1>2. /\ [nfsd[n] EXCEPT !.pc = "save"] = [pc |-> "save", req |-> nfsd[n].req, trunc |-> nfsd[n].trunc]
      /\ [nfsd[n] EXCEPT !.pc = "save"] \in Daemon
    BY <1>1 DEF Daemon
<1>3. nfsd' = [nfsd EXCEPT ![n] = [nfsd[n] EXCEPT !.pc = "save"]]
    BY <1>1 DEF Saves
<1>4. Goes(n, [pc |-> "save", req |-> nfsd[n].req, trunc |-> nfsd[n].trunc])
    BY <1>1, <1>2, <1>3, GoesOn
<1> QED BY <1>4 DEF Saves, Saved

\* A request is taken from the wire; one copy less is left of it.
LEMMA ReceiveIs ==
    ASSUME ServerInv, NEW n \in Nfsd, Receive(n)
    PROVE  /\ nfsd[n].pc = "idle"
           /\ \E r \in net :
                /\ Goes(n, [pc |-> "work", req |-> r, trunc |-> FALSE])
                /\ \A q \in net' : \/ q \in net
                                   \/ /\ q \in Req /\ q.left > 0
                                      /\ q.call = r.call /\ q.xid = r.xid /\ q.op = r.op
           /\ UNCHANGED <<dup, files, data, lock, nfsxid, cl, did, boots>>
<1>1. PICK r \in net :
        /\ nfsd' = [nfsd EXCEPT ![n] = [pc |-> "work", req |-> r, trunc |-> FALSE]]
        /\ net' = (net \ {r}) \cup (IF r.left = 1 THEN {} ELSE {[r EXCEPT !.left = @ - 1]})
    BY DEF Receive
<1>2. r \in Req /\ r.left > 0 /\ nfsd \in [Nfsd -> Daemon]
    BY DEF ServerInv, About
<1>3. [pc |-> "work", req |-> r, trunc |-> FALSE] \in Daemon
    BY <1>2 DEF Daemon
<1>4. Goes(n, [pc |-> "work", req |-> r, trunc |-> FALSE])
    BY <1>1, <1>2, <1>3, GoesOn
<1>5. r.left # 1 => LET q == [r EXCEPT !.left = r.left - 1]
                    IN  q \in Req /\ q.left > 0 /\ q.call = r.call /\ q.xid = r.xid /\ q.op = r.op
    BY <1>2, NfsBounds DEF Req
<1>6. ASSUME NEW q \in net'
      PROVE  \/ q \in net
             \/ q \in Req /\ q.left > 0 /\ q.call = r.call /\ q.xid = r.xid /\ q.op = r.op
    BY <1>1, <1>5
<1> QED BY <1>4, <1>6 DEF Receive

\* A new call.
LEMMA BeginIs ==
    ASSUME ServerInv, NEW op \in Ops, Begin(op)
    PROVE  /\ ~cl.waiting /\ cl' \in Client /\ cl'.call = cl.call + 1 /\ cl'.waiting = TRUE
           /\ cl'.op = op /\ cl'.before = data
           /\ cl'.kept = IF op \in {"create", "remove"} THEN {} ELSE cl.kept
           /\ \A q \in net' : \/ q \in net /\ Late
                              \/ q \in Req /\ q.call = cl.call + 1 /\ q.xid = nfsxid /\ q.op = op
                                 /\ q.left = MaxCopies
           /\ nfsxid' = nfsxid + 1 /\ nfsxid \in NfsXid
           /\ UNCHANGED <<dup, files, data, lock, nfsd, did, boots>>
<1>1. cl \in Client /\ data \subseteq Call /\ cl.call + 1 \in Call /\ nfsxid \in NfsXid
    BY DEF ServerInv, NfsType, Begin
<1>2. cl' = [cl EXCEPT !.call = cl.call + 1, !.waiting = TRUE, !.op = op, !.before = data,
                 !.kept = IF op \in {"create", "remove"} THEN {} ELSE @]
    BY DEF Begin
<1>3. /\ cl' \in Client /\ cl'.call = cl.call + 1 /\ cl'.waiting = TRUE
      /\ cl'.op = op /\ cl'.before = data
      /\ cl'.kept = IF op \in {"create", "remove"} THEN {} ELSE cl.kept
    <2>1. cl.call + 1 \in 0 .. MaxCalls
        BY <1>1, NfsBounds DEF Call
    <2> QED BY <1>1, <1>2, <2>1 DEF Client
<1>4. LET q == [call |-> cl.call + 1, xid |-> nfsxid, op |-> op, left |-> MaxCopies]
      IN  q \in Req /\ q.call = cl.call + 1 /\ q.xid = nfsxid /\ q.op = op /\ q.left = MaxCopies
    BY <1>1, NfsBounds DEF Req
<1>5. net' = (IF Late THEN net ELSE {})
             \cup {[call |-> cl.call + 1, xid |-> nfsxid, op |-> op, left |-> MaxCopies]}
    BY DEF Begin
<1> QED BY <1>1, <1>3, <1>4, <1>5 DEF Begin

\* What a change to the directory does, and when it cannot be made.
Made(op) ==
    \/ op = "remove" /\ "f" \in files /\ files' = files \ {"f"} /\ data' = {}
    \/ op = "rmdir" /\ "d" \in files /\ files' = files \ {"d"} /\ data' = data
    \/ op = "link" /\ "f" \notin files /\ files' = files \cup {"f"} /\ data' = data
    \/ op = "mkdir" /\ "d" \notin files /\ files' = files \cup {"d"} /\ data' = data

Unable(op, names) ==
    \/ op = "remove" /\ "f" \notin names
    \/ op = "rmdir" /\ "d" \notin names
    \/ op = "link" /\ "f" \in names
    \/ op = "mkdir" /\ "d" \in names

\* rfs_remove(), rfs_rmdir(), rfs_link() and rfs_mkdir() make the change or not.
Changed(n) ==
    /\ nfsd[n].pc = "work" /\ Made(nfsd[n].req.op) /\ Saved(n) /\ lock' = lock

Denied(n) ==
    /\ nfsd[n].pc = "work" /\ Unable(nfsd[n].req.op, files)
    /\ \/ Dup(nfsd[n].req) /\ dup' = DupSave(nfsd[n].req) /\ Replied(n, "ok")
       \/ ~Dup(nfsd[n].req) /\ dup' = dup /\ \E st \in {"ENOENT", "EEXIST"} : Replied(n, st)
    /\ files' = files /\ data' = data

LEMMA RefusedIs ==
    ASSUME ServerInv, NEW n \in Nfsd, nfsd[n].pc = "work", NEW st \in {"ENOENT", "EEXIST"},
           Refused(n, st), Unable(nfsd[n].req.op, files)
    PROVE  Denied(n)
<1>1. Busy(n) /\ {"ok", st} \subseteq Outcome
    BY DEF Busy, Outcome
<1>2. CASE Dup(nfsd[n].req)
    BY <1>1, <1>2, ReplyIs DEF Refused, Denied
<1>3. CASE ~Dup(nfsd[n].req)
    BY <1>1, <1>3, ReplyIs DEF Refused, Denied
<1> QED BY <1>2, <1>3

LEMMA ChangeIs ==
    ASSUME ServerInv, NEW n \in Nfsd,
           rfs_remove(n) \/ rfs_rmdir(n) \/ rfs_link(n) \/ rfs_mkdir(n)
    PROVE  Changed(n) \/ Denied(n)
<1>1. CASE rfs_remove(n)
    <2>1. nfsd[n].pc = "work" /\ nfsd[n].req.op = "remove" /\ Busy(n)
        BY <1>1 DEF rfs_remove, Works, Busy
    <2>2. CASE "f" \in files
        BY <1>1, <2>1, <2>2, SavesIs DEF rfs_remove, Changed, Made
    <2>3. CASE "f" \notin files
        <3>1. Refused(n, "ENOENT") /\ Unable(nfsd[n].req.op, files)
            BY <1>1, <2>1, <2>3 DEF rfs_remove, Unable
        <3> QED BY <2>1, <3>1, RefusedIs
    <2> QED BY <2>2, <2>3
<1>2. CASE rfs_rmdir(n)
    <2>1. nfsd[n].pc = "work" /\ nfsd[n].req.op = "rmdir" /\ Busy(n)
        BY <1>2 DEF rfs_rmdir, Works, Busy
    <2>2. CASE "d" \in files
        BY <1>2, <2>1, <2>2, SavesIs DEF rfs_rmdir, Changed, Made
    <2>3. CASE "d" \notin files
        <3>1. Refused(n, "ENOENT") /\ Unable(nfsd[n].req.op, files)
            BY <1>2, <2>1, <2>3 DEF rfs_rmdir, Unable
        <3> QED BY <2>1, <3>1, RefusedIs
    <2> QED BY <2>2, <2>3
<1>3. CASE rfs_link(n)
    <2>1. nfsd[n].pc = "work" /\ nfsd[n].req.op = "link" /\ Busy(n)
        BY <1>3 DEF rfs_link, Works, Busy
    <2>2. CASE "f" \notin files
        BY <1>3, <2>1, <2>2, SavesIs DEF rfs_link, Changed, Made
    <2>3. CASE "f" \in files
        <3>1. Refused(n, "EEXIST") /\ Unable(nfsd[n].req.op, files)
            BY <1>3, <2>1, <2>3 DEF rfs_link, Unable
        <3> QED BY <2>1, <3>1, RefusedIs
    <2> QED BY <2>2, <2>3
<1>4. CASE rfs_mkdir(n)
    <2>1. nfsd[n].pc = "work" /\ nfsd[n].req.op = "mkdir" /\ Busy(n)
        BY <1>4 DEF rfs_mkdir, Works, Busy
    <2>2. CASE "d" \notin files
        BY <1>4, <2>1, <2>2, SavesIs DEF rfs_mkdir, Changed, Made
    <2>3. CASE "d" \in files
        <3>1. Refused(n, "EEXIST") /\ Unable(nfsd[n].req.op, files)
            BY <1>4, <2>1, <2>3 DEF rfs_mkdir, Unable
        <3> QED BY <2>1, <3>1, RefusedIs
    <2> QED BY <2>2, <2>3
<1> QED BY <1>1, <1>2, <1>3, <1>4

Wrote(n) ==
    /\ nfsd[n].pc = "work" /\ nfsd[n].req.op = "write" /\ lock = None
    /\ \/ "f" \in files /\ data' = data \cup {nfsd[n].req.call} /\ Replied(n, "ok")
       \/ "f" \notin files /\ data' = data /\ Replied(n, "ENOENT")
    /\ dup' = dup /\ files' = files

LEMMA WriteIs ==
    ASSUME ServerInv, NEW n \in Nfsd, rfs_write(n) PROVE Wrote(n)
<1>1. nfsd[n].pc = "work" /\ nfsd[n].req.op = "write" /\ Busy(n) /\ {"ok", "ENOENT"} \subseteq Outcome
    BY DEF rfs_write, Works, Busy, Outcome
<1>2. CASE "f" \in files
    BY <1>1, <1>2, ReplyIs DEF rfs_write, Wrote
<1>3. CASE "f" \notin files
    BY <1>1, <1>3, ReplyIs DEF rfs_write, Wrote
<1> QED BY <1>2, <1>3

Created(n) ==
    /\ nfsd[n].pc = "work" /\ nfsd[n].req.op = "create" /\ lock = None /\ lock' = n
    /\ Goes(n, [pc |-> "trunc", req |-> nfsd[n].req, trunc |-> Truncates(n)])
    /\ files' = files \cup {"f"}
    /\ UNCHANGED <<net, dup, data, nfsxid, cl, did, boots>>

LEMMA CreateIs ==
    ASSUME ServerInv, NEW n \in Nfsd, rfs_create(n) PROVE Created(n)
<1>1. nfsd \in [Nfsd -> Daemon] /\ nfsd[n] \in Daemon /\ Truncates(n) \in BOOLEAN
    BY DEF ServerInv, Truncates
<1> DEFINE d == [pc |-> "trunc", req |-> nfsd[n].req, trunc |-> Truncates(n)]
<1>2. d \in Daemon
    BY <1>1 DEF Daemon
<1>3. nfsd' = [nfsd EXCEPT ![n] = d]
    <2> DEFINE t == Truncates(n)
    <2>1. nfsd' = [nfsd EXCEPT ![n].pc = "trunc", ![n].trunc = t]
        BY DEF rfs_create
    <2>2. /\ nfsd'[n] = d
          /\ \A m \in Nfsd \ {n} : nfsd'[m] = nfsd[m]
          /\ DOMAIN nfsd' = Nfsd /\ nfsd' = [m \in Nfsd |-> nfsd'[m]]
        <3>1. t \in BOOLEAN
            BY <1>1
        <3> HIDE DEF t
        <3> QED BY <1>1, <2>1, <3>1 DEF Daemon, t
    <2> HIDE DEF d
    <2> QED BY <1>1, <2>2
<1>4. Goes(n, d)
    BY <1>1, <1>2, <1>3, GoesOn
<1> QED BY <1>4 DEF rfs_create, Works, Created

Truncated(n) ==
    /\ nfsd[n].pc = "trunc" /\ data' = (IF nfsd[n].trunc THEN {} ELSE data)
    /\ lock' = None /\ Saved(n) /\ files' = files

LEMMA TruncateIs ==
    ASSUME ServerInv, NEW n \in Nfsd, CreateTruncates(n) PROVE Truncated(n)
BY SavesIs DEF CreateTruncates, Truncated, Busy

Stored(n) ==
    /\ nfsd[n].pc = "save" /\ dup' = DupSave(nfsd[n].req) /\ Replied(n, "ok")
    /\ files' = files /\ data' = data

LEMMA SaveIs ==
    ASSUME ServerInv, NEW n \in Nfsd, SaveReplies(n) PROVE Stored(n)
<1>1. Busy(n) /\ "ok" \in Outcome
    BY DEF SaveReplies, Busy, Outcome
<1> QED BY <1>1, ReplyIs DEF SaveReplies, Stored

\* What a step of the server is.
Serves(n) == Changed(n) \/ Denied(n) \/ Wrote(n) \/ Created(n) \/ Truncated(n) \/ Stored(n)

LEMMA NextIs ==
    ASSUME ServerInv, NfsNext
    PROVE  \/ \E op \in Ops : Begin(op)
           \/ Reboot
           \/ \E n \in Nfsd : Receive(n) \/ Serves(n)
BY ChangeIs, WriteIs, CreateIs, TruncateIs, SaveIs DEF NfsNext, Serves

-----------------------------------------------------------------------------
\* A daemon goes on with its request, or is done with it.
LEMMA GoesOn_Inv ==
    ASSUME ServerInv, NEW n \in Nfsd, Busy(n), NEW d, Goes(n, d),
           d.pc # "idle" => d.req = nfsd[n].req,
           d.pc = "trunc" => nfsd[n].req.op = "create",
           d.pc = "save" => nfsd[n].req.call \in did' /\ nfsd[n].req.op # "write",
           did' = did \/ did' = did \cup {nfsd[n].req.call},
           net' = net, nfsxid' = nfsxid, boots' = boots,
           cl' \in Client, cl'.call = cl.call, cl'.op = cl.op,
           files' \subseteq {"f", "d"}, data' \subseteq Call,
           dup' \in Seq(DupEntry), Len(dup') <= MAXDUPREQS,
           \/ nfsd[n].pc # "trunc" /\ d.pc # "trunc" /\ lock' = lock
           \/ nfsd[n].pc # "trunc" /\ d.pc = "trunc" /\ lock = None /\ lock' = n
           \/ nfsd[n].pc = "trunc" /\ d.pc # "trunc" /\ lock' = None
    PROVE  ServerInv'
<1>1. nfsd' \in [Nfsd -> Daemon] /\ nfsd'[n] = d /\ \A m \in Nfsd \ {n} : nfsd'[m] = nfsd[m]
    BY DEF Goes
<1>2. About(nfsd[n].req, cl, nfsxid) /\ DaemonOK(n) /\ nfsd[n].req \in Req
    BY DEF ServerInv, DaemonOK, About
<1>3. ASSUME NEW r, About(r, cl, nfsxid) PROVE About(r, cl', nfsxid')
    BY <1>3 DEF About
<1>4. \A r \in net' : About(r, cl', nfsxid') /\ r.left > 0
    BY <1>3 DEF ServerInv
<1>5. ASSUME NEW m \in Nfsd PROVE DaemonOK(m)'
    <2>1. CASE m = n
        BY <1>1, <1>2, <1>3, <2>1 DEF DaemonOK, Busy
    <2>2. CASE m # n
        <3>1. DaemonOK(m) /\ nfsd'[m] = nfsd[m] /\ did \subseteq did'
            BY <1>1, <2>2 DEF ServerInv
        <3> QED BY <1>3, <3>1 DEF DaemonOK, Busy
    <2> QED BY <2>1, <2>2
<1>6. \A c \in did' : c <= cl'.call
    BY <1>2 DEF ServerInv, About
<1>7. did' \subseteq Call
    <2>1. nfsd[n].req.call \in Call
        BY <1>2, ReqFields
    <2> QED BY <2>1 DEF ServerInv, NfsType
<1>8. \A m \in Nfsd : nfsd'[m].pc = "trunc" <=> lock' = m
    <2>1. \A m \in Nfsd : nfsd[m].pc = "trunc" <=> lock = m
        BY DEF ServerInv, NfsType
    <2>2. None \notin Nfsd
        BY NfsBounds
    <2> QED BY <1>1, <2>1, <2>2
<1>9. NfsType'
    <2>1. \A m \in Nfsd : nfsd'[m].pc \in {"idle", "work", "trunc", "save"}
        BY <1>1 DEF Daemon
    <2>2. cl'.kept \subseteq Call /\ cl'.before \subseteq Call
        BY ClientFields
    <2>3. /\ net' \subseteq Req /\ nfsxid' \in 1 .. MaxCalls + 1 /\ boots' \in 0 .. Reboots
          /\ cl'.call \in 0 .. MaxCalls
        BY DEF ServerInv, NfsType
    <2> QED BY <1>7, <1>8, <2>1, <2>2, <2>3 DEF NfsType, DupEntry
<1> QED BY <1>1, <1>4, <1>5, <1>6, <1>9 DEF ServerInv

LEMMA ServesBusy ==
    ASSUME NEW n \in Nfsd, Serves(n) PROVE Busy(n)
BY DEF Serves, Busy, Changed, Denied, Wrote, Created, Truncated, Stored

LEMMA Serves_Inv ==
    ASSUME ServerInv, NEW n \in Nfsd, Serves(n) PROVE ServerInv'
<1> DEFINE r == nfsd[n].req
           save == [pc |-> "save", req |-> r, trunc |-> nfsd[n].trunc]
<1>1. /\ Busy(n) /\ r \in Req /\ r.call \in Call /\ nfsd[n] \in Daemon
      /\ nfsd[n].pc = "trunc" => r.op = "create"
      /\ nfsd[n].pc = "save" => r.call \in did
    BY ServesBusy, ReqFields DEF ServerInv, DaemonOK, About
<1>2. /\ cl \in Client /\ files \subseteq {"f", "d"} /\ data \subseteq Call
      /\ dup \in Seq(DupEntry) /\ Len(dup) <= MAXDUPREQS
    BY DEF ServerInv, NfsType, DupEntry
<1>3. DupSave(r) \in Seq(DupEntry) /\ Len(DupSave(r)) <= MAXDUPREQS
    BY <1>1, <1>2, DupSaveIs
<1>4. IdleNfsd.pc = "idle"
    BY DEF IdleNfsd
<1>5. CASE Changed(n)
    <2>1. Goes(n, save) /\ nfsd[n].pc = "work" /\ r.op # "write"
        BY <1>5 DEF Changed, Saved, Made
    <2>2. files' \subseteq {"f", "d"} /\ data' \subseteq Call
        BY <1>2, <1>5 DEF Changed, Made
    <2> QED BY <1>1, <1>2, <1>5, <2>1, <2>2, GoesOn_Inv DEF Changed, Saved
<1>6. CASE Denied(n)
    <2>1. PICK st \in Outcome : Replied(n, st)
        BY <1>6 DEF Denied, Outcome
    <2>2. dup' \in Seq(DupEntry) /\ Len(dup') <= MAXDUPREQS
        BY <1>2, <1>3, <1>6 DEF Denied
    <2> QED BY <1>1, <1>2, <1>4, <1>6, <2>1, <2>2, GoesOn_Inv DEF Denied, Replied
<1>7. CASE Wrote(n)
    <2>1. PICK st \in Outcome : Replied(n, st)
        BY <1>7 DEF Wrote, Outcome
    <2>2. data' \subseteq Call
        BY <1>1, <1>2, <1>7 DEF Wrote
    <2> QED BY <1>1, <1>2, <1>4, <1>7, <2>1, <2>2, GoesOn_Inv DEF Wrote, Replied
<1>8. CASE Created(n)
    <2>1. Goes(n, [pc |-> "trunc", req |-> r, trunc |-> Truncates(n)])
        BY <1>8 DEF Created
    <2> QED BY <1>1, <1>2, <1>8, <2>1, GoesOn_Inv DEF Created
<1>9. CASE Truncated(n)
    <2>1. Goes(n, save)
        BY <1>9 DEF Truncated, Saved
    <2>2. data' \subseteq Call
        BY <1>2, <1>9 DEF Truncated
    <2> QED BY <1>1, <1>2, <1>9, <2>1, <2>2, GoesOn_Inv DEF Truncated, Saved
<1>10. CASE Stored(n)
    <2>1. Replied(n, "ok")
        BY <1>10 DEF Stored
    <2> QED BY <1>1, <1>2, <1>3, <1>4, <1>10, <2>1, GoesOn_Inv DEF Stored, Replied
<1> QED BY <1>5, <1>6, <1>7, <1>8, <1>9, <1>10 DEF Serves

LEMMA Receive_Inv ==
    ASSUME ServerInv, NEW n \in Nfsd, Receive(n) PROVE ServerInv'
<1>1. PICK r \in net :
        /\ Goes(n, [pc |-> "work", req |-> r, trunc |-> FALSE])
        /\ \A q \in net' : \/ q \in net
                           \/ /\ q \in Req /\ q.left > 0
                              /\ q.call = r.call /\ q.xid = r.xid /\ q.op = r.op
    BY ReceiveIs
<1>2. nfsd[n].pc = "idle" /\ UNCHANGED <<dup, files, data, lock, nfsxid, cl, did, boots>>
    BY ReceiveIs
<1>3. About(r, cl, nfsxid)
    BY DEF ServerInv
<1>4. /\ nfsd' \in [Nfsd -> Daemon] /\ \A m \in Nfsd \ {n} : nfsd'[m] = nfsd[m]
      /\ nfsd'[n] = [pc |-> "work", req |-> r, trunc |-> FALSE]
    BY <1>1 DEF Goes
<1>5. \A q \in net' : About(q, cl, nfsxid) /\ q.left > 0
    BY <1>1, <1>3 DEF ServerInv, About
<1>6. ASSUME NEW m \in Nfsd PROVE DaemonOK(m)'
    <2>1. CASE m = n
        BY <1>2, <1>3, <1>4, <2>1 DEF DaemonOK, Busy
    <2>2. CASE m # n
        BY <1>2, <1>4, <2>2 DEF DaemonOK, Busy, ServerInv
    <2> QED BY <2>1, <2>2
<1>7. NfsType'
    <2>1. \A m \in Nfsd : /\ nfsd'[m].pc \in {"idle", "work", "trunc", "save"}
                          /\ nfsd'[m].pc = "trunc" <=> lock = m
        BY <1>2, <1>4 DEF ServerInv, NfsType
    <2>2. net' \subseteq Req
        BY <1>5 DEF About
    <2> QED BY <1>2, <2>1, <2>2 DEF ServerInv, NfsType
<1> QED BY <1>2, <1>4, <1>5, <1>6, <1>7 DEF ServerInv

LEMMA Begin_Inv ==
    ASSUME ServerInv, NEW op \in Ops, Begin(op) PROVE ServerInv'
<1>1. /\ cl' \in Client /\ cl'.call = cl.call + 1 /\ cl'.op = op
      /\ nfsxid' = nfsxid + 1 /\ nfsxid \in NfsXid
      /\ UNCHANGED <<dup, files, data, lock, nfsd, did, boots>>
    BY BeginIs
<1>2. \A q \in net' : \/ q \in net
                      \/ q \in Req /\ q.call = cl.call + 1 /\ q.xid = nfsxid /\ q.op = op
                         /\ q.left = MaxCopies
    BY BeginIs
<1>3. cl \in Client /\ cl.call \in Int /\ nfsxid \in Int /\ MaxCopies \in Nat /\ MaxCopies > 0
    BY <1>1, ClientFields, NfsBounds DEF ServerInv, NfsXid
<1>4. ASSUME NEW r, About(r, cl, nfsxid) PROVE About(r, cl', nfsxid')
    <2>1. r \in Req /\ r.call <= cl.call /\ r.call \in Int
        BY <1>4, ReqFields DEF About
    <2> QED BY <1>1, <1>3, <2>1 DEF About
<1>5. ASSUME NEW q \in net' PROVE About(q, cl', nfsxid') /\ q.left > 0
    <2>1. CASE q \in net
        BY <1>4, <2>1 DEF ServerInv
    <2>2. CASE q \notin net
        BY <1>1, <1>2, <1>3, <2>2 DEF About
    <2> QED BY <2>1, <2>2
<1>6. ASSUME NEW m \in Nfsd PROVE DaemonOK(m)'
    BY <1>1, <1>4 DEF DaemonOK, Busy, ServerInv
<1>7. \A c \in did' : c <= cl'.call
    <2>1. did \subseteq Call /\ \A c \in did : c <= cl.call
        BY DEF ServerInv, NfsType
    <2> QED BY <1>1, <1>3, <2>1, NfsBounds DEF Call
<1>8. NfsType'
    <2>1. net' \subseteq Req
        BY <1>5 DEF About
    <2>2. nfsxid' \in 1 .. MaxCalls + 1
        BY <1>1, NfsBounds DEF NfsXid
    <2>3. cl'.call \in 0 .. MaxCalls /\ cl'.kept \cup cl'.before \subseteq Call
        BY <1>1, ClientFields
    <2> QED BY <1>1, <2>1, <2>2, <2>3 DEF ServerInv, NfsType
<1> QED BY <1>1, <1>5, <1>6, <1>7, <1>8 DEF ServerInv

LEMMA RebootIs ==
    ASSUME ServerInv, Reboot
    PROVE  /\ cl' \in Client /\ cl'.call = cl.call /\ ~cl'.waiting /\ cl'.op = "none"
           /\ cl'.status = "ok" /\ cl'.kept = cl.kept /\ cl'.before = cl.before
           /\ net' = {} /\ nfsxid' \in NfsXid /\ boots < Reboots /\ boots' = boots + 1 /\ Quiet
           /\ UNCHANGED <<dup, files, data, lock, nfsd, did>>
<1>1. cl \in Client /\ cl' = [cl EXCEPT !.waiting = FALSE, !.op = "none", !.status = "ok"]
    BY DEF ServerInv, Reboot
<1>2. /\ cl' \in Client /\ cl'.call = cl.call /\ ~cl'.waiting /\ cl'.op = "none"
      /\ cl'.status = "ok" /\ cl'.kept = cl.kept /\ cl'.before = cl.before
    BY <1>1 DEF Client, Outcome
<1> QED BY <1>2 DEF Reboot

LEMMA Reboot_Inv ==
    ASSUME ServerInv, Reboot PROVE ServerInv'
<1>1. /\ cl' \in Client /\ cl'.call = cl.call /\ net' = {} /\ nfsxid' \in NfsXid
      /\ boots < Reboots /\ boots' = boots + 1 /\ Quiet
      /\ UNCHANGED <<dup, files, data, lock, nfsd, did>>
    BY RebootIs
<1>2. \A m \in Nfsd : DaemonOK(m)'
    BY <1>1 DEF DaemonOK, Busy, Quiet
<1>3. nfsxid' \in 1 .. MaxCalls + 1 /\ boots' \in 0 .. Reboots
    BY <1>1, NfsBounds DEF NfsXid, ServerInv, NfsType
<1>4. cl'.call \in 0 .. MaxCalls /\ cl'.kept \cup cl'.before \subseteq Call
    BY <1>1, ClientFields
<1>5. NfsType'
    BY <1>1, <1>3, <1>4 DEF ServerInv, NfsType
<1> QED BY <1>1, <1>2, <1>5 DEF ServerInv

LEMMA ServerStarts == NfsInit => ServerInv
<1> SUFFICES ASSUME NfsInit PROVE ServerInv
    OBVIOUS
<1>1. IdleNfsd \in Daemon /\ IdleNfsd.pc = "idle"
    BY DEF IdleNfsd, Daemon
<1>2. nfsd \in [Nfsd -> Daemon] /\ \A n \in Nfsd : nfsd[n].pc = "idle"
    BY <1>1 DEF NfsInit
<1>3. /\ cl \in Client /\ cl.call \in 0 .. MaxCalls /\ cl.kept = {} /\ cl.before = {}
    BY NfsBounds DEF NfsInit, Client, Outcome
<1>4. \A n \in Nfsd : DaemonOK(n)
    BY <1>2 DEF DaemonOK, Busy
<1>5. NfsType
    BY <1>2, <1>3, NfsBounds DEF NfsInit, NfsType
<1> QED BY <1>2, <1>3, <1>4, <1>5 DEF NfsInit, ServerInv

LEMMA ServerKeeps == ServerInv /\ [NfsNext]_nfsVars => ServerInv'
<1> SUFFICES ASSUME ServerInv, [NfsNext]_nfsVars PROVE ServerInv'
    OBVIOUS
<1>1. CASE NfsNext
    BY <1>1, NextIs, Begin_Inv, Reboot_Inv, Receive_Inv, Serves_Inv
<1>2. CASE UNCHANGED nfsVars
    BY <1>2 DEF nfsVars, ServerInv, NfsType, DaemonOK, Busy
<1> QED BY <1>1, <1>2

LEMMA ServerAlways == NfsSpec => []ServerInv
BY ServerStarts, ServerKeeps, PTL DEF NfsSpec

\* The types of the server, for every number of daemons, calls and copies.
THEOREM NfsTypes == NfsSpec => []NfsType
<1>1. ServerInv => NfsType
    BY DEF ServerInv
<1> QED BY <1>1, ServerAlways, PTL

-----------------------------------------------------------------------------
(***************************************************************************)
(* One daemon, and no copy of a request after its call has ended: the      *)
(* requests are done one after the other, so that the cache explains the   *)
(* copies of the last one.                                                 *)
(***************************************************************************)
Alone == (\A m, n \in Nfsd : m = n) /\ ~Late

LastSaved == dup # <<>> /\ dup[Len(dup)] = [xid |-> nfsxid - 1, op |-> cl.op]

\* What is on the wire is of the last call, and so is what the daemon does when that
\* call has made its change or has ended.
WireLast == \A r \in net : r.call = cl.call
DaemonLast == \A n \in Nfsd :
    Busy(n) /\ (cl.call \in did \/ ~cl.waiting) => nfsd[n].req.call = cl.call

\* A change that is made is being saved, or is the last one saved.
ChangeKnown ==
    cl.op # "none" /\ cl.call \in did =>
        cl.op # "write" /\ ((\E n \in Nfsd : nfsd[n].pc = "save") \/ LastSaved)

\* A call that failed has made no change, and could still not be done.
FailedStill ==
    ~cl.waiting /\ cl.status # "ok" =>
        cl.call \notin did /\ (cl.op = "write" \/ Unable(cl.op, files))

SerialInv == WireLast /\ DaemonLast /\ ChangeKnown /\ FailedStill

\* While a request is about that empties the file, the client relies on nothing in it.
EmptiersOut ==
    /\ \A r \in net : r.op \in {"create", "remove"} => cl.kept = {}
    /\ \A n \in Nfsd : Busy(n) /\ nfsd[n].req.op \in {"create", "remove"} => cl.kept = {}

AloneInv == ServerInv /\ SerialInv /\ EmptiersOut /\ AckedKept

LEMMA BusyFacts ==
    ASSUME ServerInv, NEW n \in Nfsd, Busy(n)
    PROVE  /\ About(nfsd[n].req, cl, nfsxid) /\ nfsd[n].req \in Req /\ nfsd[n].req.op \in Ops
           /\ nfsd[n].req.op # "none" /\ nfsd[n].req.call \in Call
           /\ nfsd[n].pc = "trunc" => nfsd[n].req.op = "create"
           /\ nfsd[n].pc = "save" => nfsd[n].req.call \in did /\ nfsd[n].req.op # "write"
           /\ nfsd[n].req.call = cl.call => /\ nfsd[n].req.op = cl.op
                                            /\ nfsd[n].req.xid = nfsxid - 1
BY ReqFields, NfsBounds DEF ServerInv, DaemonOK, About

LEMMA CacheFacts ==
    ServerInv => /\ dup \in Seq(DupEntry) /\ Len(dup) <= MAXDUPREQS /\ cl \in Client
                 /\ did \subseteq Call /\ \A c \in did : c <= cl.call
BY DEF ServerInv, NfsType, DupEntry

\* The entry of a request that is saved is the last one.
LEMMA SavedLast ==
    ASSUME ServerInv, NEW r \in Req, dup' = DupSave(r)
    PROVE  dup' # <<>> /\ dup'[Len(dup')] = [xid |-> r.xid, op |-> r.op]
<1>1. /\ Len(DupSave(r)) \in DOMAIN DupSave(r)
      /\ DupSave(r)[Len(DupSave(r))] = [xid |-> r.xid, op |-> r.op]
    BY CacheFacts, DupSaveIs
<1>2. DOMAIN <<>> = {}
    OBVIOUS
<1> QED BY <1>1, <1>2

\* There is no other daemon.
LEMMA OnlyDaemon ==
    ASSUME Alone, NEW n \in Nfsd PROVE \A m \in Nfsd : m = n
BY DEF Alone

\* A change is made or begun, and nobody is told.
LEMMA Quiet_Serial ==
    ASSUME Alone, ServerInv, SerialInv, NEW n \in Nfsd, Busy(n), NEW d,
           Goes(n, d), d.pc # "idle", d.req = nfsd[n].req,
           net' = net, nfsxid' = nfsxid, cl' = cl, dup' = dup, nfsd[n].pc # "save",
           \/ did' = did /\ d.pc # "save"
           \/ did' = did \cup {nfsd[n].req.call} /\ d.pc = "save" /\ nfsd[n].req.op # "write",
           ~Unable(nfsd[n].req.op, files), nfsd[n].req.op # "write"
    PROVE  SerialInv'
<1> DEFINE r == nfsd[n].req
<1>1. /\ nfsd'[n] = d /\ \A m \in Nfsd : m = n
    BY OnlyDaemon DEF Goes
<1>2. r.call = cl.call => r.op = cl.op
    BY BusyFacts
<1>3. r.call # cl.call => cl.call \notin did /\ cl.waiting /\ cl.call \notin did'
    BY DEF SerialInv, DaemonLast
<1>4. r.call = cl.call => ~(~cl.waiting /\ cl.status # "ok")
    BY <1>2 DEF SerialInv, FailedStill
<1>5. (\E m \in Nfsd : nfsd'[m].pc = "save") <=> d.pc = "save"
    BY <1>1
<1>6. \A m \in Nfsd : nfsd'[m].req = r
    BY <1>1
<1> HIDE DEF r
<1>7. LastSaved' <=> LastSaved
    BY DEF LastSaved
<1>8. ChangeKnown'
    <2>1. CASE r.call # cl.call
        BY <1>3, <2>1 DEF ChangeKnown
    <2>2. CASE r.call = cl.call
        BY <1>1, <1>2, <1>5, <1>7, <2>2 DEF SerialInv, ChangeKnown, r
    <2> QED BY <2>1, <2>2
<1>9. FailedStill'
    BY <1>3, <1>4 DEF FailedStill
<1>10. DaemonLast'
    BY <1>3, <1>6 DEF DaemonLast
<1>11. WireLast'
    BY DEF SerialInv, WireLast
<1> QED BY <1>8, <1>9, <1>10, <1>11 DEF SerialInv

\* A reply: the daemon is idle again.
LEMMA Replied_Serial ==
    ASSUME Alone, ServerInv, SerialInv, NEW n \in Nfsd, Busy(n), NEW st \in Outcome,
           Replied(n, st), files' = files,
           dup' = DupSave(nfsd[n].req) \/ (dup' = dup /\ nfsd[n].pc # "save"),
           st # "ok" /\ nfsd[n].req.call = cl.call =>
             cl.call \notin did /\ (cl.op = "write" \/ Unable(cl.op, files))
    PROVE  SerialInv'
<1> DEFINE r == nfsd[n].req
<1>1. /\ \A m \in Nfsd : nfsd'[m].pc = "idle" /\ m = n
      /\ net' = net /\ nfsxid' = nfsxid /\ did' = did
      /\ cl'.call = cl.call /\ cl'.op = cl.op /\ (cl' = cl \/ Answered(r, st))
    BY OnlyDaemon DEF Replied, Goes, IdleNfsd
<1>2. WireLast'
    BY <1>1 DEF WireLast, SerialInv
<1>3. DaemonLast'
    BY <1>1 DEF DaemonLast, Busy
<1>4. r \in Req /\ (r.call = cl.call => r.op = cl.op /\ r.xid = nfsxid - 1)
    BY BusyFacts
<1>5. ChangeKnown'
    <2> SUFFICES ASSUME cl.op # "none", cl.call \in did
                 PROVE  cl.op # "write" /\ LastSaved'
        BY <1>1 DEF ChangeKnown
    <2>1. cl.op # "write" /\ ((\E m \in Nfsd : nfsd[m].pc = "save") \/ LastSaved)
        BY DEF SerialInv, ChangeKnown
    <2>2. r.call = cl.call
        BY DEF SerialInv, DaemonLast
    <2>3. CASE dup' = DupSave(r)
        <3>1. dup' # <<>> /\ dup'[Len(dup')] = [xid |-> r.xid, op |-> r.op]
            BY <1>4, <2>3, SavedLast
        <3> QED BY <1>1, <1>4, <2>1, <2>2, <3>1 DEF LastSaved
    <2>4. CASE dup' = dup /\ nfsd[n].pc # "save"
        BY <1>1, <2>1, <2>4 DEF LastSaved
    <2> QED BY <2>3, <2>4
<1>6. FailedStill'
    <2>1. CASE cl' = cl
        BY <1>1, <2>1 DEF SerialInv, FailedStill
    <2>2. CASE Answered(r, st)
        BY <1>1, <2>2 DEF Answered, FailedStill
    <2> QED BY <1>1, <2>1, <2>2
<1> QED BY <1>2, <1>3, <1>5, <1>6 DEF SerialInv

LEMMA Serves_Serial ==
    ASSUME Alone, ServerInv, SerialInv, NEW n \in Nfsd, Serves(n) PROVE SerialInv'
<1> DEFINE r == nfsd[n].req
           d == [pc |-> "save", req |-> r, trunc |-> nfsd[n].trunc]
<1>1. Busy(n) /\ (r.call = cl.call => r.op = cl.op /\ r.xid = nfsxid - 1)
    BY ServesBusy, BusyFacts
<1>2. d.pc = "save" /\ d.req = r
    OBVIOUS
<1>3. CASE Changed(n)
    <2>1. ~Unable(r.op, files) /\ r.op # "write"
        BY <1>3 DEF Changed, Made, Unable
    <2>2. /\ Goes(n, d) /\ nfsd[n].pc # "save" /\ did' = did \cup {r.call}
          /\ net' = net /\ nfsxid' = nfsxid /\ cl' = cl /\ dup' = dup
        BY <1>3 DEF Changed, Saved
    <2> HIDE DEF d
    <2> QED BY <1>1, <1>2, <2>1, <2>2, Quiet_Serial
<1>4. CASE Denied(n)
    <2>1. nfsd[n].pc = "work" /\ files' = files /\ Unable(r.op, files)
        BY <1>4 DEF Denied
    <2>2. CASE Dup(r) /\ dup' = DupSave(r) /\ Replied(n, "ok")
        BY <1>1, <2>1, <2>2, Replied_Serial DEF Outcome
    <2>3. CASE ~Dup(r) /\ dup' = dup /\ \E st \in {"ENOENT", "EEXIST"} : Replied(n, st)
        <3>1. PICK st \in Outcome : Replied(n, st)
            BY <2>3 DEF Outcome
        <3>2. ASSUME r.call = cl.call, cl.call \in did PROVE FALSE
            <4>1. cl.op # "none"
                BY <1>1, <3>2, BusyFacts
            <4>2. \A m \in Nfsd : nfsd[m].pc # "save"
                BY <2>1, OnlyDaemon
            <4>3. LastSaved
                BY <3>2, <4>1, <4>2 DEF SerialInv, ChangeKnown
            <4>4. Len(dup) \in DOMAIN dup
                BY <4>3, CacheFacts DEF LastSaved
            <4>5. dup[Len(dup)] = [xid |-> r.xid, op |-> r.op]
                BY <1>1, <3>2, <4>3 DEF LastSaved
            <4> QED BY <2>3, <4>4, <4>5 DEF Dup
        <3> QED BY <1>1, <2>1, <2>3, <3>1, <3>2, Replied_Serial
    <2> QED BY <1>4, <2>2, <2>3 DEF Denied
<1>5. CASE Wrote(n)
    <2>1. nfsd[n].pc = "work" /\ files' = files /\ r.op = "write" /\ dup' = dup
        BY <1>5 DEF Wrote
    <2>2. PICK st \in Outcome : Replied(n, st)
        BY <1>5 DEF Wrote, Outcome
    <2>3. r.call = cl.call => cl.call \notin did /\ cl.op = "write"
        BY <1>1, <2>1 DEF SerialInv, ChangeKnown
    <2> QED BY <1>1, <2>1, <2>2, <2>3, Replied_Serial
<1>6. CASE Created(n)
    <2> DEFINE e == [pc |-> "trunc", req |-> r, trunc |-> Truncates(n)]
    <2>1. /\ Goes(n, e) /\ nfsd[n].pc # "save" /\ r.op = "create" /\ did' = did
          /\ net' = net /\ nfsxid' = nfsxid /\ cl' = cl /\ dup' = dup
        BY <1>6 DEF Created
    <2>2. ~Unable(r.op, files) /\ r.op # "write"
        BY <2>1 DEF Unable
    <2>3. e.pc = "trunc" /\ e.req = r
        OBVIOUS
    <2> HIDE DEF e
    <2> QED BY <1>1, <2>1, <2>2, <2>3, Quiet_Serial
<1>7. CASE Truncated(n)
    <2>1. /\ Goes(n, d) /\ nfsd[n].pc # "save" /\ did' = did \cup {r.call} /\ r.op = "create"
          /\ net' = net /\ nfsxid' = nfsxid /\ cl' = cl /\ dup' = dup
        BY <1>1, <1>7, BusyFacts DEF Truncated, Saved
    <2>2. ~Unable(r.op, files) /\ r.op # "write"
        BY <2>1 DEF Unable
    <2> HIDE DEF d
    <2> QED BY <1>1, <1>2, <2>1, <2>2, Quiet_Serial
<1>8. CASE Stored(n)
    BY <1>1, <1>8, Replied_Serial DEF Stored, Outcome
<1> QED BY <1>3, <1>4, <1>5, <1>6, <1>7, <1>8 DEF Serves

LEMMA Receive_Serial ==
    ASSUME Alone, ServerInv, SerialInv, NEW n \in Nfsd, Receive(n) PROVE SerialInv'
<1>1. PICK r \in net :
        /\ Goes(n, [pc |-> "work", req |-> r, trunc |-> FALSE])
        /\ \A q \in net' : q \in net \/ q.call = r.call
    BY ReceiveIs
<1>2. nfsd[n].pc = "idle" /\ UNCHANGED <<dup, files, data, lock, nfsxid, cl, did, boots>>
    BY ReceiveIs
<1>3. \A m \in Nfsd : m = n
    BY OnlyDaemon
<1>4. r.call = cl.call /\ nfsd'[n].req = r
    BY <1>1 DEF SerialInv, WireLast, Goes
<1>5. WireLast'
    BY <1>1, <1>2, <1>4 DEF SerialInv, WireLast
<1>6. DaemonLast'
    BY <1>2, <1>3, <1>4 DEF DaemonLast
<1>7. ChangeKnown'
    BY <1>2, <1>3 DEF SerialInv, ChangeKnown, LastSaved
<1>8. FailedStill'
    BY <1>2 DEF SerialInv, FailedStill
<1> QED BY <1>5, <1>6, <1>7, <1>8 DEF SerialInv

LEMMA Begin_Serial ==
    ASSUME Alone, ServerInv, SerialInv, NEW op \in Ops, Begin(op) PROVE SerialInv'
<1>1. /\ cl'.call = cl.call + 1 /\ cl'.waiting /\ did' = did /\ cl.call \in Int
      /\ \A q \in net' : q.call = cl.call + 1
    BY BeginIs, CacheFacts, ClientFields DEF Alone
<1>2. cl'.call \notin did'
    <2>1. ~(cl.call + 1 <= cl.call)
        BY <1>1
    <2> QED BY <1>1, <2>1, CacheFacts
<1> QED BY <1>1, <1>2 DEF SerialInv, WireLast, DaemonLast, ChangeKnown, FailedStill

LEMMA Reboot_Serial ==
    ASSUME ServerInv, SerialInv, Reboot PROVE SerialInv'
<1>1. /\ net' = {} /\ nfsd' = nfsd /\ \A n \in Nfsd : ~Busy(n)
      /\ cl'.op = "none" /\ cl'.status = "ok"
    BY RebootIs DEF Quiet, Busy
<1> QED BY <1>1 DEF SerialInv, WireLast, DaemonLast, ChangeKnown, FailedStill, Busy

LEMMA Serial_Keeps ==
    ASSUME Alone, ServerInv, SerialInv, [NfsNext]_nfsVars PROVE SerialInv'
<1>1. CASE NfsNext
    BY <1>1, NextIs, Begin_Serial, Reboot_Serial, Receive_Serial, Serves_Serial
<1>2. CASE UNCHANGED nfsVars
    BY <1>2 DEF nfsVars, SerialInv, WireLast, DaemonLast, ChangeKnown, FailedStill, LastSaved, Busy
<1> QED BY <1>1, <1>2

Emptiers == {"create", "remove"}

LEMMA Replied_Acked ==
    ASSUME Alone, ServerInv, WireLast, EmptiersOut, AckedKept, NEW n \in Nfsd, Busy(n),
           NEW st \in Outcome, Replied(n, st), data \subseteq data',
           nfsd[n].req.op = "write" /\ st = "ok" => nfsd[n].req.call \in data'
    PROVE  EmptiersOut' /\ AckedKept'
<1> DEFINE r == nfsd[n].req
<1>1. /\ \A m \in Nfsd : nfsd'[m].pc = "idle" /\ net' = net
      /\ cl' = cl \/ Answered(r, st)
    BY OnlyDaemon DEF Replied, Goes, IdleNfsd
<1>2. ASSUME NEW q \in net, q.op \in Emptiers PROVE cl'.kept = {}
    <2>1. cl.kept = {} /\ q.call = cl.call /\ q.op # "write"
        BY <1>2 DEF EmptiersOut, WireLast, Emptiers
    <2>2. q.op = cl.op
        BY <2>1 DEF ServerInv, About
    <2>3. r.call = cl.call => r.op = cl.op
        BY BusyFacts
    <2> QED BY <1>1, <2>1, <2>2, <2>3 DEF Answered
<1>3. cl'.kept \subseteq data'
    BY <1>1 DEF Answered, AckedKept
<1> QED BY <1>1, <1>2, <1>3 DEF EmptiersOut, AckedKept, Busy, Emptiers

\* A change, or a step of a create: the client is told nothing.
LEMMA Quiet_Acked ==
    ASSUME Alone, EmptiersOut, AckedKept, NEW n \in Nfsd, Busy(n), NEW d,
           Goes(n, d), d.req = nfsd[n].req, net' = net, cl' = cl,
           data' = data \/ nfsd[n].req.op \in {"create", "remove"}
    PROVE  EmptiersOut' /\ AckedKept'
<1>1. \A m \in Nfsd : m = n /\ nfsd'[m].req = nfsd[m].req /\ Busy(m)
    BY OnlyDaemon DEF Goes
<1>2. EmptiersOut'
    BY <1>1 DEF EmptiersOut
<1>3. AckedKept'
    BY DEF EmptiersOut, AckedKept
<1> QED BY <1>2, <1>3

LEMMA Serves_Acked ==
    ASSUME Alone, ServerInv, WireLast, EmptiersOut, AckedKept, NEW n \in Nfsd, Serves(n)
    PROVE  EmptiersOut' /\ AckedKept'
<1> DEFINE r == nfsd[n].req
           d == [pc |-> "save", req |-> r, trunc |-> nfsd[n].trunc]
<1>1. Busy(n) /\ d.req = r
    BY ServesBusy
<1>2. CASE Changed(n)
    <2>1. Goes(n, d) /\ net' = net /\ cl' = cl /\ (data' = data \/ r.op \in {"create", "remove"})
        BY <1>2 DEF Changed, Made, Saved
    <2> HIDE DEF d
    <2> QED BY <1>1, <2>1, Quiet_Acked
<1>3. CASE Denied(n)
    <2>1. data' = data /\ r.op # "write"
        BY <1>3 DEF Denied, Unable
    <2>2. PICK st \in Outcome : Replied(n, st)
        BY <1>3 DEF Denied, Outcome
    <2> QED BY <1>1, <2>1, <2>2, Replied_Acked
<1>4. CASE Wrote(n)
    <2>1. PICK st \in Outcome :
            /\ Replied(n, st) /\ data \subseteq data' /\ (st = "ok" => r.call \in data')
        BY <1>4 DEF Wrote, Outcome
    <2> QED BY <1>1, <2>1, Replied_Acked
<1>5. CASE Created(n)
    <2> DEFINE e == [pc |-> "trunc", req |-> r, trunc |-> Truncates(n)]
    <2>1. Goes(n, e) /\ net' = net /\ cl' = cl /\ data' = data /\ e.req = r
        BY <1>5 DEF Created
    <2> HIDE DEF e
    <2> QED BY <1>1, <2>1, Quiet_Acked
<1>6. CASE Truncated(n)
    <2>1. Goes(n, d) /\ net' = net /\ cl' = cl /\ r.op = "create"
        BY <1>1, <1>6, BusyFacts DEF Truncated, Saved
    <2> HIDE DEF d
    <2> QED BY <1>1, <2>1, Quiet_Acked
<1>7. CASE Stored(n)
    <2>1. Replied(n, "ok") /\ data' = data /\ r.op # "write" /\ "ok" \in Outcome
        BY <1>1, <1>7, BusyFacts DEF Stored, Outcome
    <2> QED BY <1>1, <2>1, Replied_Acked
<1> QED BY <1>2, <1>3, <1>4, <1>5, <1>6, <1>7 DEF Serves

LEMMA Receive_Acked ==
    ASSUME Alone, ServerInv, EmptiersOut, AckedKept, NEW n \in Nfsd, Receive(n)
    PROVE  EmptiersOut' /\ AckedKept'
<1>1. PICK r \in net :
        /\ Goes(n, [pc |-> "work", req |-> r, trunc |-> FALSE])
        /\ \A q \in net' : q \in net \/ q.op = r.op
    BY ReceiveIs
<1>2. cl' = cl /\ data' = data /\ \A m \in Nfsd : nfsd'[m].req = r
    BY <1>1, ReceiveIs, OnlyDaemon DEF Goes
<1> QED BY <1>1, <1>2 DEF EmptiersOut, AckedKept

LEMMA Begin_Acked ==
    ASSUME Alone, ServerInv, EmptiersOut, AckedKept, NEW op \in Ops, Begin(op)
    PROVE  EmptiersOut' /\ AckedKept'
<1>1. /\ \A q \in net' : q.op = op
      /\ cl'.kept = IF op \in {"create", "remove"} THEN {} ELSE cl.kept
      /\ nfsd' = nfsd /\ data' = data
    BY BeginIs DEF Alone
<1> QED BY <1>1 DEF EmptiersOut, AckedKept, Busy

LEMMA Acked_Keeps ==
    ASSUME Alone, ServerInv, WireLast, EmptiersOut, AckedKept, [NfsNext]_nfsVars
    PROVE  EmptiersOut' /\ AckedKept'
<1>1. CASE Reboot
    BY <1>1, RebootIs DEF EmptiersOut, AckedKept, Busy
<1>2. CASE NfsNext /\ ~Reboot
    BY <1>2, NextIs, Begin_Acked, Receive_Acked, Serves_Acked
<1>3. CASE UNCHANGED nfsVars
    BY <1>3 DEF nfsVars, EmptiersOut, AckedKept, Busy
<1> QED BY <1>1, <1>2, <1>3

LEMMA AloneStarts == NfsInit => AloneInv
<1> SUFFICES ASSUME NfsInit PROVE AloneInv
    OBVIOUS
<1>1. ServerInv /\ net = {} /\ did = {} /\ \A n \in Nfsd : ~Busy(n)
    BY ServerStarts DEF NfsInit, Busy, IdleNfsd
<1>2. cl.op = "none" /\ cl.status = "ok" /\ cl.kept = {}
    BY DEF NfsInit
<1> QED BY <1>1, <1>2 DEF AloneInv, SerialInv, WireLast, DaemonLast, ChangeKnown, FailedStill,
                          EmptiersOut, AckedKept

LEMMA AloneAlways ==
    ASSUME Alone PROVE NfsSpec => []AloneInv
<1>1. AloneInv /\ [NfsNext]_nfsVars => AloneInv'
    BY ServerKeeps, Serial_Keeps, Acked_Keeps DEF AloneInv, SerialInv
<1> QED BY <1>1, AloneStarts, PTL DEF NfsSpec

\* With one daemon, and when no copy of a request comes after its call has ended, the
\* client is never told that a call has failed whose change has been made: whatever the
\* size of the cache, the call that is retransmitted is in it.  The client may restart,
\* with transaction ids it has used before.
THEOREM NoErrorIsFalse == ASSUME Alone PROVE NfsSpec => []NoFalseError
<1>1. AloneInv => NoFalseError
    BY DEF AloneInv, SerialInv, FailedStill, NoFalseError
<1> QED BY <1>1, AloneAlways, PTL

\* Under the same conditions what the client has been told is written stays in the file
\* until the client itself truncates or removes it.
THEOREM AckedIsKept == ASSUME Alone PROVE NfsSpec => []AckedKept
<1>1. AloneInv => AckedKept
    BY DEF AloneInv
<1> QED BY <1>1, AloneAlways, PTL

\* While the client does not restart, a transaction id belongs to one call: what the
\* cache has been made, the file of a create that is made holds nothing of what was
\* written before, and so does one that is not truncated.
FreshInv ==
    /\ nfsxid = cl.call + 1
    /\ \A n \in Nfsd : Busy(n) => nfsd[n].req.xid = nfsd[n].req.call
    /\ \A k \in DOMAIN dup : dup[k].xid \in did
    /\ "f" \notin files => data = {}
    /\ cl.op = "create" /\ cl.call \in did => data \cap cl.before = {}
    /\ \A n \in Nfsd : nfsd[n].pc = "trunc" /\ ~nfsd[n].trunc /\ nfsd[n].req.call = cl.call
                         => data \cap cl.before = {}
    /\ ~cl.waiting /\ cl.op = "create" => cl.call \in did

\* The step of a daemon that tells the client nothing.
LEMMA Quiet_Fresh ==
    ASSUME Alone, FreshInv, NEW n \in Nfsd, Busy(n), NEW d, Goes(n, d),
           d.req = nfsd[n].req, nfsxid' = nfsxid, cl' = cl, dup' = dup, did \subseteq did',
           data' \subseteq data, "f" \notin files' => "f" \notin files \/ data' = {},
           d.pc = "trunc" /\ ~d.trunc /\ nfsd[n].req.call = cl.call => data' \cap cl.before = {},
           cl.op = "create" /\ cl.call \in did' => cl.call \in did \/ data' \cap cl.before = {}
    PROVE  FreshInv'
<1>1. \A m \in Nfsd : nfsd'[m] = d /\ nfsd[m].req = nfsd[n].req /\ Busy(m)
    BY OnlyDaemon DEF Goes
<1>2. \A m \in Nfsd : nfsd'[m].req.xid = nfsd'[m].req.call
    BY <1>1 DEF FreshInv
<1>3. \A k \in DOMAIN dup' : dup'[k].xid \in did'
    BY DEF FreshInv
<1>4. /\ "f" \notin files' => data' = {}
      /\ cl.op = "create" /\ cl.call \in did' => data' \cap cl.before = {}
    BY DEF FreshInv
<1>5. \A m \in Nfsd : nfsd'[m].pc = "trunc" /\ ~nfsd'[m].trunc /\ nfsd'[m].req.call = cl.call
                        => data' \cap cl.before = {}
    BY <1>1
<1>6. ~cl.waiting /\ cl.op = "create" => cl.call \in did'
    BY DEF FreshInv
<1>7. nfsxid' = cl'.call + 1
    BY DEF FreshInv
<1> QED BY <1>2, <1>3, <1>4, <1>5, <1>6, <1>7 DEF FreshInv

\* A reply.
LEMMA Replied_Fresh ==
    ASSUME Alone, ServerInv, SerialInv, FreshInv, NEW n \in Nfsd, Busy(n), NEW st \in Outcome,
           Replied(n, st), files' = files, \A k \in DOMAIN dup' : dup'[k].xid \in did,
           \/ data' = data
           \/ nfsd[n].req.op # "create" /\ "f" \in files /\ data' \subseteq Call,
           nfsd[n].req.op = "create" => nfsd[n].req.call \in did
    PROVE  FreshInv'
<1> DEFINE r == nfsd[n].req
<1>1. /\ \A m \in Nfsd : nfsd'[m].pc = "idle"
      /\ nfsxid' = nfsxid /\ did' = did /\ cl'.call = cl.call /\ cl'.op = cl.op
      /\ cl'.before = cl.before /\ (cl' = cl \/ Answered(r, st))
    BY OnlyDaemon DEF Replied, Goes, IdleNfsd
<1>2. r.call = cl.call => r.op = cl.op
    BY BusyFacts
<1>3. nfsxid' = cl'.call + 1
    BY <1>1 DEF FreshInv
<1>4. cl.call \in did => r.call = cl.call
    BY DEF SerialInv, DaemonLast
<1>5. cl.op = "create" /\ cl.call \in did => data' \cap cl.before = {}
    BY <1>2, <1>4 DEF FreshInv
<1>6. ~cl'.waiting /\ cl.op = "create" => cl.call \in did
    BY <1>1, <1>2 DEF Answered, FreshInv
<1>7. "f" \notin files' => data' = {}
    BY DEF FreshInv
<1>8. \A m \in Nfsd : ~(Busy(m)') /\ nfsd'[m].pc # "trunc"
    BY <1>1 DEF Busy
<1> QED BY <1>1, <1>3, <1>5, <1>6, <1>7, <1>8 DEF FreshInv

LEMMA Serves_Fresh ==
    ASSUME Alone, ServerInv, SerialInv, FreshInv, NEW n \in Nfsd, Serves(n)
    PROVE  FreshInv'
<1> DEFINE r == nfsd[n].req
           d == [pc |-> "save", req |-> r, trunc |-> nfsd[n].trunc]
<1>1. /\ Busy(n) /\ r \in Req /\ (r.call = cl.call => r.op = cl.op) /\ r.xid = r.call
      /\ nfsd[n].pc = "save" => r.call \in did /\ r.op # "write"
      /\ nfsd[n].pc = "trunc" => r.op = "create"
    BY ServesBusy, BusyFacts DEF FreshInv
<1>2. d.pc = "save" /\ d.req = r
    OBVIOUS
<1>3. \A k \in DOMAIN dup : dup[k].xid \in did
    BY DEF FreshInv
<1>4. r.xid \in did => \A k \in DOMAIN DupSave(r) : DupSave(r)[k].xid \in did
    <2> SUFFICES ASSUME r.xid \in did, NEW k \in DOMAIN DupSave(r)
                 PROVE  DupSave(r)[k].xid \in did
        OBVIOUS
    <2>1. \/ DupSave(r)[k] = [xid |-> r.xid, op |-> r.op]
          \/ \E j \in DOMAIN dup : DupSave(r)[k] = dup[j]
        BY <1>1, CacheFacts, DupSaveIs
    <2> QED BY <1>3, <2>1
<1>5. CASE Changed(n)
    <2>1. /\ Goes(n, d) /\ nfsxid' = nfsxid /\ cl' = cl /\ dup' = dup
          /\ did' = did \cup {r.call} /\ data' \subseteq data /\ r.op # "create"
          /\ "f" \notin files' => "f" \notin files \/ data' = {}
        BY <1>5 DEF Changed, Made, Saved
    <2>2. cl.op = "create" /\ cl.call \in did' => cl.call \in did
        BY <1>1, <2>1
    <2> HIDE DEF d
    <2> QED BY <1>1, <1>2, <2>1, <2>2, Quiet_Fresh
<1>6. CASE Denied(n)
    <2>1. data' = data /\ files' = files /\ r.op # "create"
        BY <1>6 DEF Denied, Unable
    <2>2. PICK st \in Outcome : Replied(n, st)
        BY <1>6 DEF Denied, Outcome
    <2>3. dup' = dup \/ (dup' = DupSave(r) /\ r.xid \in did)
        BY <1>3, <1>6 DEF Denied, Dup
    <2>4. \A k \in DOMAIN dup' : dup'[k].xid \in did
        BY <1>3, <1>4, <2>3
    <2> QED BY <1>1, <2>1, <2>2, <2>4, Replied_Fresh
<1>7. CASE Wrote(n)
    <2>1. PICK st \in Outcome : Replied(n, st) /\ (data' = data \/ "f" \in files)
        BY <1>7 DEF Wrote, Outcome
    <2>2. dup' = dup /\ files' = files /\ r.op = "write"
        BY <1>7 DEF Wrote
    <2>3. data' \subseteq Call
        BY <1>1, <1>7, ReqFields DEF Wrote, ServerInv, NfsType
    <2> QED BY <1>1, <1>3, <2>1, <2>2, <2>3, Replied_Fresh
<1>8. CASE Created(n)
    <2> DEFINE e == [pc |-> "trunc", req |-> r, trunc |-> Truncates(n)]
    <2>1. /\ Goes(n, e) /\ nfsxid' = nfsxid /\ cl' = cl /\ dup' = dup /\ did' = did
          /\ data' = data /\ files' = files \cup {"f"} /\ r.op = "create"
        BY <1>8 DEF Created
    <2>2. ASSUME ~Truncates(n), r.call = cl.call PROVE data \cap cl.before = {}
        <3>1. CASE "f" \notin files
            BY <3>1 DEF FreshInv
        <3>2. CASE Dup(r)
            BY <1>1, <1>3, <2>1, <2>2, <3>2 DEF FreshInv, Dup
        <3> QED BY <2>2, <3>1, <3>2 DEF Truncates
    <2>3. e.req = r /\ (~e.trunc /\ r.call = cl.call => data \cap cl.before = {})
        BY <2>2
    <2> HIDE DEF e
    <2> QED BY <1>1, <2>1, <2>3, Quiet_Fresh
<1>9. CASE Truncated(n)
    <2>1. /\ Goes(n, d) /\ nfsxid' = nfsxid /\ cl' = cl /\ dup' = dup
          /\ did' = did \cup {r.call} /\ data' \subseteq data /\ files' = files
          /\ data' = IF nfsd[n].trunc THEN {} ELSE data
          /\ nfsd[n].pc = "trunc"
        BY <1>9 DEF Truncated, Saved
    <2>2. r.call = cl.call => data' \cap cl.before = {}
        BY <2>1 DEF FreshInv
    <2> HIDE DEF d
    <2> QED BY <1>1, <1>2, <2>1, <2>2, Quiet_Fresh
<1>10. CASE Stored(n)
    <2>1. Replied(n, "ok") /\ data' = data /\ files' = files /\ r.call \in did /\ dup' = DupSave(r)
        BY <1>1, <1>10 DEF Stored
    <2>2. "ok" \in Outcome
        BY DEF Outcome
    <2> QED BY <1>1, <1>4, <2>1, <2>2, Replied_Fresh
<1> QED BY <1>5, <1>6, <1>7, <1>8, <1>9, <1>10 DEF Serves

LEMMA Receive_Fresh ==
    ASSUME Alone, ServerInv, SerialInv, FreshInv, NEW n \in Nfsd, Receive(n) PROVE FreshInv'
<1>1. PICK r \in net : Goes(n, [pc |-> "work", req |-> r, trunc |-> FALSE])
    BY ReceiveIs
<1>2. UNCHANGED <<dup, files, data, lock, nfsxid, cl, did, boots>>
    BY ReceiveIs
<1>3. \A m \in Nfsd : nfsd'[m] = [pc |-> "work", req |-> r, trunc |-> FALSE]
    BY <1>1, OnlyDaemon DEF Goes
<1>4. r.call = cl.call /\ r.xid = nfsxid - 1 /\ nfsxid = cl.call + 1
    BY DEF SerialInv, WireLast, ServerInv, About, FreshInv
<1>5. r.xid = r.call
    BY <1>4, CacheFacts, ClientFields
<1> QED BY <1>2, <1>3, <1>5 DEF FreshInv

LEMMA Begin_Fresh ==
    ASSUME ServerInv, FreshInv, NEW op \in Ops, Begin(op) PROVE FreshInv'
<1>1. /\ cl'.call = cl.call + 1 /\ cl'.waiting = TRUE /\ cl.call \in Int
      /\ nfsxid' = nfsxid + 1
      /\ UNCHANGED <<dup, files, data, lock, nfsd, did, boots>>
    BY BeginIs, CacheFacts, ClientFields
<1>2. cl'.call \notin did
    <2>1. ~(cl.call + 1 <= cl.call)
        BY <1>1
    <2> QED BY <1>1, <2>1, CacheFacts
<1>3. \A m \in Nfsd : Busy(m) => nfsd[m].req.call # cl'.call
    <2> SUFFICES ASSUME NEW m \in Nfsd, Busy(m) PROVE nfsd[m].req.call # cl'.call
        OBVIOUS
    <2>1. nfsd[m].req.call <= cl.call
        BY BusyFacts DEF About
    <2>2. ~(cl.call + 1 <= cl.call)
        BY <1>1
    <2> QED BY <1>1, <2>1, <2>2
<1>4. \A m \in Nfsd : nfsd[m].pc = "trunc" => nfsd[m].req.call # cl'.call
    BY <1>3 DEF Busy
<1>5. nfsxid' = cl'.call + 1
    BY <1>1 DEF FreshInv
<1> QED BY <1>1, <1>2, <1>4, <1>5 DEF FreshInv, Busy

LEMMA Fresh_Keeps ==
    ASSUME Alone, Reboots = 0, ServerInv, SerialInv, FreshInv, [NfsNext]_nfsVars
    PROVE  FreshInv'
<1>1. ~Reboot
    BY DEF Reboot, ServerInv, NfsType
<1>2. CASE NfsNext
    BY <1>1, <1>2, NextIs, Begin_Fresh, Receive_Fresh, Serves_Fresh
<1>3. CASE UNCHANGED nfsVars
    BY <1>3 DEF nfsVars, FreshInv, Busy
<1> QED BY <1>2, <1>3

\* With one daemon, no late copies and a client that does not restart, a file that the
\* client has been told is created holds nothing of what was written before: a create
\* that finds the file truncates it, unless the create itself has.
THEOREM CreatedIsEmpty ==
    ASSUME Alone, Reboots = 0 PROVE NfsSpec => []CreateEmpties
<1>1. NfsInit => FreshInv
    BY DEF NfsInit, FreshInv, Busy, IdleNfsd
<1>2. AloneInv /\ FreshInv /\ [NfsNext]_nfsVars => FreshInv'
    BY Fresh_Keeps DEF AloneInv
<1>3. FreshInv => CreateEmpties
    BY DEF FreshInv, CreateEmpties
<1> QED BY <1>1, <1>2, <1>3, AloneAlways, PTL DEF NfsSpec

-----------------------------------------------------------------------------
(***************************************************************************)
(* Any number of daemons, copies of a request at any time and restarts of  *)
(* the client: while the cache has room, a late copy of a create finds the *)
(* create there and truncates nothing.                                     *)
(***************************************************************************)

\* A create of an earlier call, or of one that has ended, is in the cache.
Covered(r) == r.op = "create" /\ (r.call # cl.call \/ ~cl.waiting) => Dup(r)

CopyInv ==
    /\ \A r \in net : Covered(r)
    /\ \A n \in Nfsd : \A r \in Req : nfsd[n].pc = "work" /\ nfsd[n].req = r => Covered(r)
    /\ cl.waiting /\ cl.op = "create" => cl.kept = {}
    /\ \A n \in Nfsd : nfsd[n].pc = "trunc" /\ nfsd[n].trunc => cl.kept = {}
    /\ AckedKept

\* Nothing leaves the cache.
DupGrows == \A j \in DOMAIN dup : j \in DOMAIN dup' /\ dup'[j] = dup[j]

LEMMA CoveredStays ==
    ASSUME ServerInv, NEW r, About(r, cl, nfsxid), Covered(r), DupGrows,
           cl'.call = cl.call, NEW q, About(q, cl, nfsxid), NEW st,
           cl' = cl \/ (Answered(q, st) /\ (q.op = "create" => Dup(q)'))
    PROVE  Covered(r)'
<1> SUFFICES ASSUME r.op = "create", r.call # cl.call \/ ~cl'.waiting PROVE Dup(r)'
    BY DEF Covered
<1>1. CASE Dup(r)
    BY <1>1 DEF Dup, DupGrows
<1>2. CASE ~Dup(r)
    <2>1. r.call = cl.call /\ cl.waiting
        BY <1>2 DEF Covered
    <2>2. Answered(q, st) /\ (q.op = "create" => Dup(q)')
        BY <2>1
    <2>3. q.call = cl.call
        BY <2>2 DEF Answered
    <2>4. q.op = "create" /\ q.xid = r.xid
        BY <2>1, <2>3 DEF About
    <2> QED BY <2>2, <2>4 DEF Dup
<1> QED BY <1>1, <1>2

LEMMA SavedGrows ==
    ASSUME ServerInv, Len(dup) < MAXDUPREQS, NEW r \in Req, dup' = DupSave(r)
    PROVE  DupGrows /\ Dup(r)'
<1>1. /\ Len(DupSave(r)) \in DOMAIN DupSave(r)
      /\ DupSave(r)[Len(DupSave(r))] = [xid |-> r.xid, op |-> r.op]
      /\ \A j \in DOMAIN dup : j \in DOMAIN DupSave(r) /\ DupSave(r)[j] = dup[j]
    BY CacheFacts, DupSaveIs
<1> QED BY <1>1 DEF DupGrows, Dup

\* A reply.
LEMMA Replied_Copy ==
    ASSUME ServerInv, CopyInv, NEW n \in Nfsd, Busy(n), NEW st \in Outcome, Replied(n, st),
           NEW r \in Req, r = nfsd[n].req,
           DupGrows, r.op = "create" => Dup(r)', data \subseteq data',
           r.op = "write" /\ st = "ok" => r.call \in data' /\ lock = None
    PROVE  CopyInv'
<1>1. /\ net' = net /\ cl'.call = cl.call /\ cl'.op = cl.op /\ (cl' = cl \/ Answered(r, st))
      /\ nfsd'[n].pc = "idle" /\ \A m \in Nfsd \ {n} : nfsd'[m] = nfsd[m]
    BY DEF Replied, Goes, IdleNfsd
<1>2. About(r, cl, nfsxid)
    BY BusyFacts
<1>3. ASSUME NEW q, About(q, cl, nfsxid), Covered(q) PROVE Covered(q)'
    <2>1. cl' = cl \/ (Answered(r, st) /\ (r.op = "create" => Dup(r)'))
        BY <1>1
    <2> QED BY <1>1, <1>2, <1>3, <2>1, CoveredStays
<1>4. ASSUME NEW q \in net' PROVE Covered(q)'
    <2>1. q \in net
        BY <1>1
    <2>2. About(q, cl, nfsxid) /\ Covered(q)
        BY <2>1 DEF ServerInv, CopyInv
    <2> QED BY <1>3, <2>2
<1>5. ASSUME NEW m \in Nfsd, NEW q \in Req, nfsd'[m].pc = "work", nfsd'[m].req = q
      PROVE  Covered(q)'
    <2>1. m # n /\ nfsd[m].pc = "work" /\ nfsd[m].req = q
        BY <1>1, <1>5
    <2>2. About(q, cl, nfsxid) /\ Covered(q)
        BY <2>1, BusyFacts DEF CopyInv, Busy
    <2> QED BY <1>3, <2>2
<1>6. cl'.waiting /\ cl'.op = "create" => cl'.kept = {}
    BY <1>1 DEF Answered, CopyInv
<1>7. ASSUME NEW m \in Nfsd, nfsd'[m].pc = "trunc", nfsd'[m].trunc PROVE cl'.kept = {}
    <2>1. m # n /\ nfsd[m].pc = "trunc" /\ nfsd[m].trunc
        BY <1>1, <1>7
    <2>2. lock = m /\ lock # None
        BY <2>1, NfsBounds DEF ServerInv, NfsType
    <2>3. cl'.kept = cl.kept
        BY <1>1, <2>2 DEF Answered
    <2> QED BY <2>1, <2>3 DEF CopyInv
<1>8. AckedKept'
    BY <1>1 DEF CopyInv, AckedKept, Answered
<1> HIDE DEF Covered
<1> QED BY <1>4, <1>5, <1>6, <1>7, <1>8 DEF CopyInv

\* A daemon goes on, and the client is told nothing.
LEMMA Quiet_Copy ==
    ASSUME ServerInv, CopyInv, NEW n \in Nfsd, NEW d, Goes(n, d), d.pc # "work",
           net' = net, cl' = cl, dup' = dup,
           d.pc = "trunc" /\ d.trunc => cl.kept = {},
           data' = data \/ cl.kept = {}
    PROVE  CopyInv'
<1>1. nfsd'[n] = d /\ \A m \in Nfsd \ {n} : nfsd'[m] = nfsd[m]
    BY DEF Goes
<1>2. \A q \in net' : Covered(q)'
    BY DEF CopyInv, Covered, Dup
<1>3. ASSUME NEW m \in Nfsd, NEW q \in Req, nfsd'[m].pc = "work", nfsd'[m].req = q
      PROVE  Covered(q)'
    <2>1. nfsd[m].pc = "work" /\ nfsd[m].req = q
        BY <1>1, <1>3
    <2> QED BY <2>1 DEF CopyInv, Covered, Dup
<1>4. \A m \in Nfsd : nfsd'[m].pc = "trunc" /\ nfsd'[m].trunc => cl'.kept = {}
    BY <1>1 DEF CopyInv
<1>5. AckedKept' /\ (cl'.waiting /\ cl'.op = "create" => cl'.kept = {})
    BY DEF CopyInv, AckedKept
<1> HIDE DEF Covered
<1> QED BY <1>2, <1>3, <1>4, <1>5 DEF CopyInv

LEMMA Serves_Copy ==
    ASSUME "remove" \notin Ops, Len(dup) < MAXDUPREQS, ServerInv, CopyInv,
           NEW n \in Nfsd, Serves(n)
    PROVE  CopyInv'
<1>1. PICK r \in Req : r = nfsd[n].req /\ Busy(n) /\ About(r, cl, nfsxid) /\ r.op \in Ops
    BY ServesBusy, BusyFacts
<1> DEFINE d == [pc |-> "save", req |-> r, trunc |-> nfsd[n].trunc]
<1>2. d.pc = "save"
    OBVIOUS
<1>3. dup' = dup => DupGrows
    BY DEF DupGrows
<1>4. dup' = DupSave(r) => DupGrows /\ Dup(r)'
    BY SavedGrows
<1>5. CASE Changed(n)
    <2>1. /\ Goes(n, d) /\ net' = net /\ cl' = cl /\ dup' = dup /\ data' = data
        BY <1>1, <1>5 DEF Changed, Made, Saved
    <2> HIDE DEF d
    <2> QED BY <1>2, <2>1, Quiet_Copy
<1>6. CASE Denied(n)
    <2>1. data' = data /\ r.op # "write" /\ r.op # "create" /\ (dup' = dup \/ dup' = DupSave(r))
        BY <1>1, <1>6 DEF Denied, Unable
    <2>2. PICK st \in Outcome : Replied(n, st)
        BY <1>6 DEF Denied, Outcome
    <2> QED BY <1>1, <1>3, <1>4, <2>1, <2>2, Replied_Copy
<1>7. CASE Wrote(n)
    <2>1. PICK st \in Outcome :
            /\ Replied(n, st) /\ data \subseteq data' /\ (st = "ok" => r.call \in data')
            /\ lock = None /\ dup' = dup /\ r.op = "write"
        BY <1>1, <1>7 DEF Wrote, Outcome
    <2> QED BY <1>1, <1>3, <2>1, Replied_Copy
<1>8. CASE Created(n)
    <2> DEFINE e == [pc |-> "trunc", req |-> r, trunc |-> Truncates(n)]
    <2>1. /\ Goes(n, e) /\ net' = net /\ cl' = cl /\ dup' = dup /\ data' = data
          /\ nfsd[n].pc = "work" /\ r.op = "create"
        BY <1>1, <1>8 DEF Created
    <2>2. ASSUME Truncates(n) PROVE cl.kept = {}
        <3>1. ~Dup(r)
            BY <1>1, <2>2 DEF Truncates
        <3>2. Covered(r)
            BY <1>1, <2>1 DEF CopyInv
        <3>3. r.call = cl.call /\ cl.waiting
            BY <2>1, <3>1, <3>2 DEF Covered
        <3>4. cl.op = "create"
            BY <1>1, <2>1, <3>3 DEF About
        <3> QED BY <3>3, <3>4 DEF CopyInv
    <2>3. e.pc # "work" /\ (e.trunc => cl.kept = {})
        BY <2>2
    <2> HIDE DEF e
    <2> QED BY <2>1, <2>3, Quiet_Copy
<1>9. CASE Truncated(n)
    <2>1. /\ Goes(n, d) /\ net' = net /\ cl' = cl /\ dup' = dup
          /\ data' = data \/ cl.kept = {}
        BY <1>1, <1>9 DEF Truncated, Saved, CopyInv
    <2> HIDE DEF d
    <2> QED BY <1>2, <2>1, Quiet_Copy
<1>10. CASE Stored(n)
    <2>1. Replied(n, "ok") /\ data' = data /\ r.op # "write" /\ dup' = DupSave(r)
        BY <1>1, <1>10, BusyFacts DEF Stored
    <2>2. "ok" \in Outcome
        BY DEF Outcome
    <2> QED BY <1>1, <1>4, <2>1, <2>2, Replied_Copy
<1> QED BY <1>5, <1>6, <1>7, <1>8, <1>9, <1>10 DEF Serves

LEMMA Receive_Copy ==
    ASSUME ServerInv, CopyInv, NEW n \in Nfsd, Receive(n) PROVE CopyInv'
<1>1. PICK r \in net :
        /\ Goes(n, [pc |-> "work", req |-> r, trunc |-> FALSE])
        /\ \A q \in net' : \/ q \in net
                           \/ q.call = r.call /\ q.xid = r.xid /\ q.op = r.op
    BY ReceiveIs
<1>2. UNCHANGED <<dup, files, data, lock, nfsxid, cl, did, boots>>
    BY ReceiveIs
<1>3. /\ nfsd'[n] = [pc |-> "work", req |-> r, trunc |-> FALSE]
      /\ \A m \in Nfsd \ {n} : nfsd'[m] = nfsd[m]
    BY <1>1 DEF Goes
<1>4. ASSUME NEW q \in net' PROVE Covered(q)'
    BY <1>1, <1>2 DEF CopyInv, Covered, Dup
<1>5. ASSUME NEW m \in Nfsd, NEW q \in Req, nfsd'[m].pc = "work", nfsd'[m].req = q
      PROVE  Covered(q)'
    <2>1. q \in net \/ (nfsd[m].pc = "work" /\ nfsd[m].req = q)
        BY <1>3, <1>5
    <2> QED BY <1>2, <2>1 DEF CopyInv, Covered, Dup
<1>6. \A m \in Nfsd : nfsd'[m].pc = "trunc" /\ nfsd'[m].trunc => cl'.kept = {}
    BY <1>2, <1>3 DEF CopyInv
<1>7. AckedKept' /\ (cl'.waiting /\ cl'.op = "create" => cl'.kept = {})
    BY <1>2 DEF CopyInv, AckedKept
<1> HIDE DEF Covered
<1> QED BY <1>4, <1>5, <1>6, <1>7 DEF CopyInv

LEMMA Begin_Copy ==
    ASSUME ServerInv, CopyInv, NEW op \in Ops, Begin(op) PROVE CopyInv'
<1>1. /\ ~cl.waiting /\ cl'.call = cl.call + 1 /\ cl'.waiting = TRUE /\ cl'.op = op
      /\ cl'.kept = IF op \in {"create", "remove"} THEN {} ELSE cl.kept
      /\ \A q \in net' : q \in net \/ q.call = cl.call + 1
      /\ UNCHANGED <<dup, files, data, lock, nfsd, did, boots>>
    BY BeginIs
<1>2. ASSUME NEW q, Covered(q) PROVE Covered(q)'
    BY <1>1, <1>2 DEF Covered, Dup
<1>3. ASSUME NEW q \in net' PROVE Covered(q)'
    <2>1. CASE q \in net
        BY <1>2, <2>1 DEF CopyInv
    <2>2. CASE q \notin net
        BY <1>1, <2>2 DEF Covered
    <2> QED BY <2>1, <2>2
<1>4. \A m \in Nfsd : \A q \in Req : nfsd'[m].pc = "work" /\ nfsd'[m].req = q => Covered(q)'
    BY <1>1, <1>2 DEF CopyInv
<1>5. \A m \in Nfsd : nfsd'[m].pc = "trunc" /\ nfsd'[m].trunc => cl'.kept = {}
    BY <1>1 DEF CopyInv
<1>6. AckedKept' /\ (cl'.waiting /\ cl'.op = "create" => cl'.kept = {})
    BY <1>1 DEF CopyInv, AckedKept
<1> HIDE DEF Covered
<1> QED BY <1>3, <1>4, <1>5, <1>6 DEF CopyInv

LEMMA CopyKeeps ==
    ASSUME "remove" \notin Ops, Len(dup) < MAXDUPREQS, ServerInv, CopyInv, [NfsNext]_nfsVars
    PROVE  CopyInv'
<1>1. CASE Reboot
    BY <1>1, RebootIs DEF CopyInv, AckedKept, Quiet
<1>2. CASE NfsNext /\ ~Reboot
    BY <1>2, NextIs, Begin_Copy, Receive_Copy, Serves_Copy
<1>3. CASE UNCHANGED nfsVars
    BY <1>3 DEF nfsVars, CopyInv, Covered, Dup, AckedKept
<1> QED BY <1>1, <1>2, <1>3

\* With any number of daemons, with copies of a request at any time and with restarts of
\* the client, when no call removes the file: as long as the cache has not been full, what
\* the client has been told is written stays in the file.  A copy of a create that comes
\* late finds the create in the cache, and one that is being done waits with the file
\* locked, so that no write is answered before it truncates.
THEOREM CopiesTruncateNothing ==
    ASSUME "remove" \notin Ops
    PROVE  NfsSpec /\ [](Len(dup) < MAXDUPREQS) => []AckedKept
<1>1. NfsInit => CopyInv
    BY DEF NfsInit, CopyInv, AckedKept, IdleNfsd
<1>2. ServerInv /\ Len(dup) < MAXDUPREQS /\ CopyInv /\ [NfsNext]_nfsVars => CopyInv'
    BY CopyKeeps
<1>3. CopyInv => AckedKept
    BY DEF CopyInv
<1> QED BY <1>1, <1>2, <1>3, ServerAlways, PTL DEF NfsSpec
=============================================================================
