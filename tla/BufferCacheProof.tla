--------------------------- MODULE BufferCacheProof ---------------------------
(***************************************************************************)
(* The buffer cache, for every number of processes and buffers, every set  *)
(* of calls and every amount of space, in three parts:                     *)
(*   1. type correctness;                                                  *)
(*   2. who has a buffer, and that no wakeup is lost;                      *)
(*   3. what the buffers hold.                                             *)
(***************************************************************************)
EXTENDS BufferCache, FiniteSetTheorems, WellFoundedInduction, TLAPS

\* A non-empty set of naturals has a least element.
LEMMA Smallest ==
    ASSUME NEW T \in SUBSET Nat, T # {}
    PROVE  \E n \in T : \A m \in T : n <= m
<1> DEFINE R == OpToRel(<, Nat)
<1>1. IsWellFoundedOn(R, Nat)
    BY NatLessThanWellFounded, Zenon
<1>2. PICK n \in T : \A m \in T : <<m, n>> \notin R
    <2> HIDE DEF R
    <2> QED BY <1>1, WFMin, Zenon
<1>3. \A m \in T : ~(m < n)
    BY <1>2 DEF OpToRel
<1> QED BY <1>3

\* The scan of the free list for a buffer of a non-empty set finds one.
LEMMA FirstOfIn ==
    ASSUME freelist \in Seq(Buf), NEW S, S \subseteq OnFreelist, S # {}
    PROVE  FirstOf(S) \in S
<1> DEFINE T == {i \in DOMAIN freelist : freelist[i] \in S}
<1>1. T \in SUBSET Nat /\ T # {}
    BY DEF OnFreelist
<1>2. PICK i \in T : \A j \in T : i <= j
    BY <1>1, Smallest
<1>3. \E k \in DOMAIN freelist : freelist[k] \in S /\ \A j \in 1..(k-1) : freelist[j] \notin S
    BY <1>2
<1> QED BY <1>3 DEF FirstOf

LEMMA WithoutType ==
    ASSUME freelist \in Seq(Buf), NEW b
    PROVE  Without(b) \in Seq(Buf)
BY DEF Without

LEMMA NoCallType == NoCall \in [op : Op, blkno : Nat, len : Nat \ {0}]
BY DEF NoCall, Op

LEMMA GiveBackType ==
    ASSUME pool \in [Res -> Nat], b_length \in [Buf -> Nat], NEW b \in Buf, NEW fl, NEW R
    PROVE  GiveBack(b, fl, R) \in [Res -> Nat]
<1> SUFFICES ASSUME NEW r \in Res
             PROVE  pool[r] + (IF r \in R \cap fl THEN b_length[b] ELSE 0) \in Nat
    BY DEF GiveBack
<1>1. pool[r] \in Nat /\ b_length[b] \in Nat
    OBVIOUS
<1> QED BY <1>1

\* What brelse() leaves behind has the right types.
LEMMA BrelseType ==
    ASSUME TypeOK, NEW b \in Buf, NEW fl \in SUBSET Flag, NEW fr \in Seq(Buf),
           NEW f \in [Buf -> SUBSET Nat], NEW extra, Brelse(b, fl, fr, f, extra)
    PROVE  /\ b_flags' \in [Buf -> SUBSET Flag]
           /\ b_dev' \in [Buf -> {"dev", "nodev"}]
           /\ b_length' \in [Buf -> Nat]
           /\ freelist' \in Seq(Buf) /\ bfwanted' \in BOOLEAN
           /\ pool' \in [Res -> Nat] /\ reswant' \subseteq Res
           /\ chan' \in [Proc -> Chan]
           /\ fresh' \in [Buf -> SUBSET Nat]
<1>1. b_flags' \in [Buf -> SUBSET Flag]
    BY DEF TypeOK, HeaderType, Brelse, Flag
<1>2. b_dev' \in [Buf -> {"dev", "nodev"}] /\ b_length' \in [Buf -> Nat]
    BY DEF TypeOK, HeaderType, Brelse
<1>3. freelist' \in Seq(Buf)
    BY DEF Brelse
<1>4. pool' \in [Res -> Nat]
    BY GiveBackType DEF TypeOK, HeaderType, IoType, Brelse
<1>5. chan' \in [Proc -> Chan]
    BY DEF TypeOK, ProcType, Brelse, Wakeup, Chan
<1>6. fresh' \in [Buf -> SUBSET Nat]
    BY DEF Brelse
<1>7. reswant' \subseteq Res /\ bfwanted' \in BOOLEAN
    BY DEF Brelse
<1> QED BY <1>1, <1>2, <1>3, <1>4, <1>5, <1>6, <1>7

LEMMA WakeupType ==
    ASSUME chan \in [Proc -> Chan], NEW W, Wakeup(W)
    PROVE  chan' \in [Proc -> Chan]
BY DEF Wakeup, Chan

LEMMA GotoType ==
    ASSUME pc \in [Proc -> Label], NEW p \in Proc, NEW l \in Label, Goto(p, l)
    PROVE  pc' \in [Proc -> Label] /\ cur' \in Proc \cup {NoProc} /\ pc' = [pc EXCEPT ![p] = l]
BY DEF Goto

LEMMA SleepOnType ==
    ASSUME TypeOK, NEW p \in Proc, NEW l \in Label, NEW c \in Chan, SleepOn(p, c, l)
    PROVE  /\ pc' \in [Proc -> Label] /\ chan' \in [Proc -> Chan]
           /\ cur' \in Proc \cup {NoProc} /\ slept' \in [Proc -> BOOLEAN]
           /\ pc' = [pc EXCEPT ![p] = l]
BY DEF SleepOn, TypeOK, ProcType, WantType

LEMMA ReturnType ==
    ASSUME TypeOK, NEW p \in Proc, NEW l \in Label, Return(p, l)
    PROVE  /\ pc' \in [Proc -> Label] /\ cur' \in Proc \cup {NoProc}
           /\ bp' \in [Proc -> Buf \cup {NoBuf}] /\ call' \in [Proc -> Call \cup {NoCall}]
           /\ ret' \in [Proc -> Label] /\ wflag' \in [Proc -> SUBSET Flag]
           /\ slept' \in [Proc -> BOOLEAN]
<1>1. pc' \in [Proc -> Label] /\ cur' \in Proc \cup {NoProc}
    BY GotoType DEF Return, TypeOK, ProcType
<1>2. bp' \in [Proc -> Buf \cup {NoBuf}] /\ call' \in [Proc -> Call \cup {NoCall}]
    BY DEF Return, TypeOK, ProcType
<1>3. ret' \in [Proc -> Label] /\ wflag' \in [Proc -> SUBSET Flag]
    BY DEF Return, TypeOK, ProcType, Label
<1>4. slept' \in [Proc -> BOOLEAN]
    BY DEF Return, TypeOK, WantType
<1> QED BY <1>1, <1>2, <1>3, <1>4

LEMMA BwriteType ==
    ASSUME TypeOK, NEW p \in Proc, NEW b \in Buf, NEW fl \in SUBSET Flag,
           NEW fr \in Seq(Buf), NEW back \in Label, Bwrite(p, b, fl, fr, back)
    PROVE  /\ b_flags' \in [Buf -> SUBSET Flag] /\ freelist' \in Seq(Buf)
           /\ pc' \in [Proc -> Label] /\ cur' \in Proc \cup {NoProc}
           /\ bp' \in [Proc -> Buf \cup {NoBuf}]
           /\ ret' \in [Proc -> Label] /\ wflag' \in [Proc -> SUBSET Flag]
<1>1. pc' \in [Proc -> Label] /\ cur' \in Proc \cup {NoProc}
    BY GotoType DEF Bwrite, TypeOK, ProcType, Label
<1>2. b_flags' \in [Buf -> SUBSET Flag] /\ freelist' \in Seq(Buf)
    BY DEF Bwrite, TypeOK, HeaderType, Flag
<1>3. /\ bp' \in [Proc -> Buf \cup {NoBuf}]
      /\ ret' \in [Proc -> Label] /\ wflag' \in [Proc -> SUBSET Flag]
    BY DEF Bwrite, TypeOK, ProcType
<1> QED BY <1>1, <1>2, <1>3

-----------------------------------------------------------------------------
(***************************************************************************)
(* Type correctness.  TypeOK is not inductive: the buffer a process works  *)
(* on must be a buffer where the code takes it to be one, and bwrite() may *)
(* return only to where it was called from.                                *)
(***************************************************************************)
RetLabel == {"user", "find", "newbuf", "flush", "sync", "invalfree", "hold"}

Local(p) ==
    /\ pc[p] \in Owning \cup {"capture", "bwpost"} => bp[p] \in Buf
    /\ ret[p] \in RetLabel
    /\ "ASYNC" \in wflag[p] => pc[p] \in {"dma", "bwpost"} /\ ret[p] # "hold"
    /\ pc[p] = "bwpost" => "ASYNC" \in wflag[p]

LocalOK == \A p \in Proc : Local(p)

TypeInv == TypeOK /\ LocalOK

\* Only the process that moves has to be looked at.
LEMMA LocalStep ==
    ASSUME TypeInv, NEW p \in Proc, NEW l \in Label, NEW b \in Buf \cup {NoBuf},
           NEW r \in RetLabel, NEW w \in SUBSET Flag,
           pc' = [pc EXCEPT ![p] = l], bp' = [bp EXCEPT ![p] = b],
           ret' = [ret EXCEPT ![p] = r], wflag' = [wflag EXCEPT ![p] = w],
           l \in Owning \cup {"capture", "bwpost"} => b \in Buf,
           "ASYNC" \in w => l \in {"dma", "bwpost"} /\ r # "hold",
           l = "bwpost" => "ASYNC" \in w
    PROVE  LocalOK'
<1> SUFFICES ASSUME NEW q \in Proc PROVE Local(q)'
    BY DEF LocalOK
<1>1. Local(q)
    BY DEF TypeInv, LocalOK
<1>2. CASE q = p
    BY <1>2 DEF Local, TypeInv, TypeOK, ProcType
<1>3. CASE q # p
    <2>1. pc'[q] = pc[q] /\ bp'[q] = bp[q] /\ ret'[q] = ret[q] /\ wflag'[q] = wflag[q]
        BY <1>3 DEF TypeInv, TypeOK, ProcType
    <2> QED BY <1>1, <2>1 DEF Local
<1> QED BY <1>2, <1>3

LEMMA TypeInit == Init => TypeInv
<1> SUFFICES ASSUME Init PROVE TypeInv
    OBVIOUS
<1>1. freelist \in Seq(Buf)
    <2>1. Cardinality(Buf) \in Nat
        BY NamesAssumption, FS_CardinalityType
    <2> QED BY <2>1 DEF Init
<1>2. HeaderType
    BY <1>1 DEF Init, HeaderType, Flag
<1>3. Block \subseteq Nat
    BY BlockAssumption
<1>4. IoType
    BY <1>3, PoolAssumption DEF Init, IoType
<1>5. ProcType
    BY DEF Init, ProcType, Label, Chan
<1>6. WantType
    BY DEF Init, WantType
<1>7. LocalOK
    BY DEF Init, LocalOK, Local, RetLabel, Owning
<1> QED BY <1>2, <1>4, <1>5, <1>6, <1>7 DEF TypeInv, TypeOK

\* A process that goes on with other locals.
LEMMA Moves ==
    ASSUME TypeInv, NEW p \in Proc, NEW l \in Label, NEW b \in Buf \cup {NoBuf},
           NEW r \in RetLabel, NEW w \in SUBSET Flag,
           Goto(p, l), bp' = [bp EXCEPT ![p] = b],
           ret' = [ret EXCEPT ![p] = r], wflag' = [wflag EXCEPT ![p] = w],
           chan' \in [Proc -> Chan], call' \in [Proc -> Call \cup {NoCall}],
           tossed' \in [Proc -> Nat],
           l \in Owning \cup {"capture", "bwpost"} => b \in Buf,
           "ASYNC" \in w => l \in {"dma", "bwpost"} /\ r # "hold",
           l = "bwpost" => "ASYNC" \in w
    PROVE  ProcType' /\ LocalOK'
<1>1. pc' \in [Proc -> Label] /\ cur' \in Proc \cup {NoProc} /\ pc' = [pc EXCEPT ![p] = l]
    BY GotoType DEF TypeInv, TypeOK, ProcType
<1>2. LocalOK'
    BY <1>1, LocalStep
<1>3. bp' \in [Proc -> Buf \cup {NoBuf}] /\ ret' \in [Proc -> Label] /\ wflag' \in [Proc -> SUBSET Flag]
    BY DEF TypeInv, TypeOK, ProcType, RetLabel, Label
<1> QED BY <1>1, <1>2, <1>3 DEF ProcType

\* A process that goes on with the same locals.
LEMMA GoesOn ==
    ASSUME TypeInv, NEW p \in Proc, NEW l \in Label \ {"bwpost"},
           Goto(p, l), UNCHANGED <<bp, ret, wflag>>,
           chan' \in [Proc -> Chan], call' \in [Proc -> Call \cup {NoCall}],
           tossed' \in [Proc -> Nat],
           l \in Owning \cup {"capture"} => bp[p] \in Buf,
           pc[p] = "dma" => l = "dma", pc[p] # "bwpost"
    PROVE  ProcType' /\ LocalOK'
<1>1. /\ bp' = [bp EXCEPT ![p] = bp[p]] /\ bp[p] \in Buf \cup {NoBuf}
      /\ ret' = [ret EXCEPT ![p] = ret[p]] /\ ret[p] \in RetLabel
      /\ wflag' = [wflag EXCEPT ![p] = wflag[p]] /\ wflag[p] \in SUBSET Flag
    BY DEF TypeInv, TypeOK, ProcType, LocalOK, Local
<1>2. "ASYNC" \in wflag[p] => l = "dma" /\ ret[p] # "hold"
    BY DEF TypeInv, LocalOK, Local
<1> QED BY <1>1, <1>2, Moves

LEMMA Returns ==
    ASSUME TypeInv, NEW p \in Proc, NEW l \in Label \ (Owning \cup {"capture", "bwpost"}),
           Return(p, l), chan' \in [Proc -> Chan], tossed' \in [Proc -> Nat]
    PROVE  ProcType' /\ LocalOK' /\ slept' \in [Proc -> BOOLEAN]
<1>1. Goto(p, l) /\ bp' = [bp EXCEPT ![p] = NoBuf] /\ wflag' = [wflag EXCEPT ![p] = {}]
    BY DEF Return
<1>2. ret' = [ret EXCEPT ![p] = "user"] /\ "user" \in RetLabel
    BY DEF Return, RetLabel
<1>3. call' \in [Proc -> Call \cup {NoCall}] /\ slept' \in [Proc -> BOOLEAN]
    BY ReturnType DEF TypeInv
<1>4. NoBuf \in Buf \cup {NoBuf} /\ {} \in SUBSET Flag /\ "ASYNC" \notin {}
    OBVIOUS
<1>5. l \in Label /\ l \notin Owning \cup {"capture", "bwpost"} /\ l # "bwpost"
    OBVIOUS
<1> QED BY <1>1, <1>2, <1>3, <1>4, <1>5, Moves

LEMMA Writes ==
    ASSUME TypeInv, NEW p \in Proc, NEW b \in Buf, NEW fl \in SUBSET Flag, NEW fr,
           NEW back \in RetLabel \ {"hold"}, Bwrite(p, b, fl, fr, back),
           UNCHANGED <<chan, call, tossed>>
    PROVE  ProcType' /\ LocalOK'
<1>1. /\ Goto(p, "dma") /\ bp' = [bp EXCEPT ![p] = b]
      /\ ret' = [ret EXCEPT ![p] = back]
      /\ wflag' = [wflag EXCEPT ![p] = fl \cap {"ASYNC", "DELWRI"}]
    BY DEF Bwrite
<1>2. "dma" \in Label /\ fl \cap {"ASYNC", "DELWRI"} \in SUBSET Flag
    BY DEF Label
<1>3. /\ chan' \in [Proc -> Chan] /\ call' \in [Proc -> Call \cup {NoCall}]
      /\ tossed' \in [Proc -> Nat]
    BY DEF TypeInv, TypeOK, ProcType
<1> QED BY <1>1, <1>2, <1>3, Moves

LEMMA WriteOutType ==
    ASSUME TypeInv, NEW p \in Proc, NEW b \in Buf, NEW back \in RetLabel \ {"hold"},
           WriteOut(p, b, back)
    PROVE  TypeInv'
<1> USE DEF TypeInv
<1> DEFINE fl == b_flags[b] \cup {"BUSY", "ASYNC"}
<1>1. fl \in SUBSET Flag /\ Without(b) \in Seq(Buf) /\ back \in Label
    BY WithoutType DEF TypeOK, HeaderType, Flag, RetLabel, Label
<1>2. Bwrite(p, b, fl, Without(b), back)
    BY DEF WriteOut
<1>3. UNCHANGED <<headers, bfwanted, iovars, spacevars, chan, call, slept, data, raced, tossed>>
    BY DEF WriteOut
<1> HIDE DEF fl
<1>4. b_flags' \in [Buf -> SUBSET Flag] /\ freelist' \in Seq(Buf)
    BY <1>1, <1>2, BwriteType
<1>5. HeaderType'
    BY <1>3, <1>4 DEF HeaderType, headers, TypeOK
<1>6. IoType' /\ WantType'
    BY <1>3 DEF IoType, WantType, iovars, spacevars, data, TypeOK
<1>7. ProcType' /\ LocalOK'
    BY <1>1, <1>2, <1>3, Writes
<1> QED BY <1>5, <1>6, <1>7 DEF TypeOK

LEMMA Sleeps ==
    ASSUME TypeInv, NEW p \in Proc, NEW c \in Chan, NEW l \in Label \ {"bwpost"},
           NEW b \in Buf \cup {NoBuf}, SleepOn(p, c, l), bp' = [bp EXCEPT ![p] = b],
           UNCHANGED <<call, ret, wflag>>, tossed' \in [Proc -> Nat],
           l \in Owning \cup {"capture"} => b \in Buf,
           pc[p] = "dma" => l = "dma", pc[p] # "bwpost"
    PROVE  ProcType' /\ LocalOK' /\ slept' \in [Proc -> BOOLEAN]
<1>1. /\ ret' = [ret EXCEPT ![p] = ret[p]] /\ ret[p] \in RetLabel
      /\ wflag' = [wflag EXCEPT ![p] = wflag[p]] /\ wflag[p] \in SUBSET Flag
    BY DEF TypeInv, TypeOK, ProcType, LocalOK, Local
<1>2. "ASYNC" \in wflag[p] => l = "dma" /\ ret[p] # "hold"
    BY DEF TypeInv, LocalOK, Local
<1>3. /\ pc' \in [Proc -> Label] /\ chan' \in [Proc -> Chan]
      /\ cur' \in Proc \cup {NoProc} /\ slept' \in [Proc -> BOOLEAN]
      /\ pc' = [pc EXCEPT ![p] = l]
    BY SleepOnType DEF TypeInv
<1>4. LocalOK'
    BY <1>1, <1>2, <1>3, LocalStep
<1>5. bp' \in [Proc -> Buf \cup {NoBuf}]
    BY DEF TypeInv, TypeOK, ProcType
<1>6. ProcType'
    BY <1>3, <1>5 DEF TypeInv, TypeOK, ProcType
<1> QED BY <1>3, <1>4, <1>6

\* The buffer a process has is still the same.
LEMMA SameBuf ==
    ASSUME TypeInv, NEW p \in Proc, UNCHANGED bp
    PROVE  bp' = [bp EXCEPT ![p] = bp[p]]
BY DEF TypeInv, TypeOK, ProcType

LEMMA FindType ==
    ASSUME TypeInv, NEW p \in Proc, Find(p)
    PROVE  TypeInv'
<1> USE DEF TypeInv, TypeOK
<1>1. HeaderType'
    BY DEF Find, HeaderType, headers
<1>2. IoType' /\ WantType'
    BY DEF Find, IoType, WantType, iovars, spacevars, data
<1>3. /\ chan' \in [Proc -> Chan] /\ call' \in [Proc -> Call \cup {NoCall}]
      /\ tossed' \in [Proc -> Nat] /\ UNCHANGED <<ret, wflag>> /\ pc[p] = "find"
    BY DEF Find, ProcType, Runs
<1>4. CASE \E b \in Match(p) : bp' = [bp EXCEPT ![p] = b] /\ Goto(p, "capture")
    <2>1. PICK b \in Buf : bp' = [bp EXCEPT ![p] = b] /\ Goto(p, "capture")
        BY <1>4 DEF Match, HeaderType
    <2>2. /\ ret' = [ret EXCEPT ![p] = ret[p]] /\ ret[p] \in RetLabel
          /\ wflag' = [wflag EXCEPT ![p] = wflag[p]] /\ wflag[p] \in SUBSET Flag
          /\ "ASYNC" \notin wflag[p]
        BY <1>3 DEF ProcType, LocalOK, Local
    <2>3. ProcType' /\ LocalOK'
        BY <1>3, <2>1, <2>2, Moves DEF Label
    <2> QED BY <1>1, <1>2, <2>3
<1>5. CASE Goto(p, "newbuf") /\ UNCHANGED bp
    <2>1. ProcType' /\ LocalOK'
        BY <1>3, <1>5, GoesOn DEF Label, Owning
    <2> QED BY <1>1, <1>2, <2>1
<1> QED BY <1>4, <1>5 DEF Find

LEMMA CaptureBusyType ==
    ASSUME TypeInv, NEW p \in Proc, CaptureBusy(p)
    PROVE  TypeInv'
<1> USE DEF TypeInv, TypeOK
<1>1. bp[p] \in Buf /\ pc[p] = "capture"
    BY DEF CaptureBusy, Runs, LocalOK, Local
<1>2. HeaderType'
    BY <1>1 DEF CaptureBusy, HeaderType, headers, Flag
<1>3. IoType'
    BY DEF CaptureBusy, IoType, iovars, spacevars, data
<1>4. ProcType' /\ LocalOK' /\ slept' \in [Proc -> BOOLEAN]
    <2>1. /\ SleepOn(p, bp[p], "find") /\ UNCHANGED <<call, ret, wflag>>
          /\ tossed' \in [Proc -> Nat] /\ bp' = [bp EXCEPT ![p] = NoBuf]
        BY DEF CaptureBusy, ProcType
    <2>2. bp[p] \in Chan /\ "find" \in Label \ {"bwpost"} /\ "find" \notin Owning \cup {"capture"}
        BY <1>1 DEF Chan, Label, Owning
    <2> QED BY <1>1, <2>1, <2>2, Sleeps
<1>5. WantType'
    BY <1>4 DEF CaptureBusy, WantType, iovars
<1> QED BY <1>2, <1>3, <1>4, <1>5

\* A step that releases a buffer.
LEMMA Releases ==
    ASSUME TypeInv, NEW b \in Buf, NEW fl \in SUBSET Flag, NEW fr \in Seq(Buf),
           NEW f \in [Buf -> SUBSET Nat], NEW extra, Brelse(b, fl, fr, f, extra),
           UNCHANGED <<b_blkno, hashed>>, io' \subseteq Buf, basyncnt' \in Int,
           disk' \subseteq Nat
    PROVE  HeaderType' /\ IoType' /\ bfwanted' \in BOOLEAN /\ chan' \in [Proc -> Chan]
<1>1. /\ b_flags' \in [Buf -> SUBSET Flag] /\ b_dev' \in [Buf -> {"dev", "nodev"}]
      /\ b_length' \in [Buf -> Nat] /\ freelist' \in Seq(Buf) /\ bfwanted' \in BOOLEAN
      /\ pool' \in [Res -> Nat] /\ reswant' \subseteq Res
      /\ chan' \in [Proc -> Chan] /\ fresh' \in [Buf -> SUBSET Nat]
    BY BrelseType DEF TypeInv
<1>2. HeaderType'
    BY <1>1 DEF TypeInv, TypeOK, HeaderType
<1>3. IoType'
    BY <1>1 DEF TypeInv, TypeOK, IoType
<1> QED BY <1>1, <1>2, <1>3

LEMMA CaptureMisshapenType ==
    ASSUME TypeInv, NEW p \in Proc, CaptureMisshapen(p)
    PROVE  TypeInv'
<1> USE DEF TypeInv, TypeOK
<1> DEFINE b == bp[p]
           fl == b_flags[b] \cup {"BUSY", "INVAL"}
<1>1. bp[p] \in Buf /\ pc[p] = "capture"
    BY DEF CaptureMisshapen, Runs, LocalOK, Local
<1>2. CASE WriteOut(p, b, "find")
    BY <1>1, <1>2, WriteOutType DEF RetLabel
<1>3. CASE /\ Brelse(b, fl, Without(b), fresh, {})
           /\ bp' = [bp EXCEPT ![p] = NoBuf] /\ Goto(p, "find")
           /\ UNCHANGED <<b_blkno, hashed, iovars, call, ret, wflag, slept, disk, raced, tossed>>
    <2>1. fl \in SUBSET Flag /\ Without(b) \in Seq(Buf) /\ fresh \in [Buf -> SUBSET Nat]
        BY <1>1, WithoutType DEF HeaderType, IoType, Flag
    <2>2. io' \subseteq Buf /\ basyncnt' \in Int /\ disk' \subseteq Nat
        BY <1>3 DEF IoType, iovars
    <2> HIDE DEF b, fl
    <2>3. HeaderType' /\ IoType' /\ bfwanted' \in BOOLEAN /\ chan' \in [Proc -> Chan]
        BY <1>1, <1>3, <2>1, <2>2, Releases DEF b
    <2>4. WantType'
        BY <1>3, <2>3 DEF WantType, iovars
    <2>5. /\ ret' = [ret EXCEPT ![p] = ret[p]] /\ ret[p] \in RetLabel
          /\ wflag' = [wflag EXCEPT ![p] = wflag[p]] /\ wflag[p] \in SUBSET Flag
          /\ "ASYNC" \notin wflag[p]
        BY <1>1, <1>3 DEF ProcType, LocalOK, Local
    <2>6. /\ call' \in [Proc -> Call \cup {NoCall}] /\ tossed' \in [Proc -> Nat]
          /\ "find" \in Label /\ "find" \notin Owning \cup {"capture", "bwpost"}
        BY <1>3 DEF ProcType, Label, Owning
    <2>7. ProcType' /\ LocalOK'
        BY <1>3, <2>3, <2>5, <2>6, Moves
    <2> QED BY <2>3, <2>4, <2>7
<1> QED BY <1>2, <1>3 DEF CaptureMisshapen

LEMMA CaptureHitType ==
    ASSUME TypeInv, NEW p \in Proc, CaptureHit(p)
    PROVE  TypeInv'
<1> USE DEF TypeInv, TypeOK
<1>1. bp[p] \in Buf /\ pc[p] = "capture"
    BY DEF CaptureHit, Runs, LocalOK, Local
<1>2. HeaderType'
    BY <1>1, WithoutType DEF CaptureHit, HeaderType, headers, Flag
<1>3. IoType' /\ WantType'
    BY DEF CaptureHit, IoType, WantType, iovars, spacevars, data, locals
<1>4. PICK l \in {"got", "hitkmap"} : Goto(p, l)
    BY DEF CaptureHit
<1>5. UNCHANGED <<bp, ret, wflag, chan, call, tossed>>
    BY DEF CaptureHit, locals
<1>6. /\ chan' \in [Proc -> Chan] /\ call' \in [Proc -> Call \cup {NoCall}]
      /\ tossed' \in [Proc -> Nat] /\ l \in Label \ {"bwpost"}
    BY <1>5 DEF ProcType, Label
<1>7. ProcType' /\ LocalOK'
    BY <1>1, <1>4, <1>5, <1>6, GoesOn
<1> QED BY <1>2, <1>3, <1>7

LEMMA NewBufEmptyType ==
    ASSUME TypeInv, NEW p \in Proc, NewBufEmpty(p)
    PROVE  TypeInv'
<1> USE DEF TypeInv, TypeOK
<1>1. HeaderType' /\ IoType'
    BY DEF NewBufEmpty, HeaderType, IoType, headers, iovars, spacevars, data
<1>2. /\ SleepOn(p, "freelist", "newbuf") /\ UNCHANGED <<call, ret, wflag>>
      /\ tossed' \in [Proc -> Nat] /\ pc[p] = "newbuf" /\ UNCHANGED bp
    BY DEF NewBufEmpty, ProcType, Runs
<1>3. /\ "freelist" \in Chan /\ "newbuf" \in Label \ {"bwpost"}
      /\ "newbuf" \notin Owning \cup {"capture"} /\ bp[p] \in Buf \cup {NoBuf}
    BY DEF Chan, Label, Owning, ProcType
<1>4. bp' = [bp EXCEPT ![p] = bp[p]]
    BY <1>2, SameBuf
<1>5. ProcType' /\ LocalOK' /\ slept' \in [Proc -> BOOLEAN]
    BY <1>2, <1>3, <1>4, Sleeps
<1>6. WantType'
    BY <1>5 DEF NewBufEmpty, WantType, iovars
<1> QED BY <1>1, <1>5, <1>6

LEMMA NewBufDirtyType ==
    ASSUME TypeInv, NEW p \in Proc, NewBufDirty(p)
    PROVE  TypeInv'
<1>1. Head(freelist) \in Buf /\ "newbuf" \in RetLabel \ {"hold"}
    BY DEF NewBufDirty, TypeInv, TypeOK, HeaderType, RetLabel
<1>2. WriteOut(p, Head(freelist), "newbuf")
    BY DEF NewBufDirty
<1> QED BY <1>1, <1>2, WriteOutType

LEMMA NewBufCleanType ==
    ASSUME TypeInv, NEW p \in Proc, NewBufClean(p)
    PROVE  TypeInv'
<1> USE DEF TypeInv, TypeOK
<1> DEFINE b == Head(freelist)
<1>1. b \in Buf /\ Tail(freelist) \in Seq(Buf) /\ pc[p] = "newbuf"
    BY DEF NewBufClean, HeaderType, Runs
<1>2. call[p].len \in Nat
    BY CallAssumption, NoCallType DEF ProcType
<1>3. b_flags' \in [Buf -> SUBSET Flag]
    BY <1>1 DEF NewBufClean, NewFlags, HeaderType, Flag
<1>4. /\ freelist' \in Seq(Buf) /\ hashed' \subseteq Buf
      /\ b_length' \in [Buf -> Nat] /\ UNCHANGED <<b_dev, b_blkno>>
    BY <1>1, <1>2 DEF NewBufClean, HeaderType
<1>5. HeaderType'
    BY <1>3, <1>4 DEF HeaderType
<1>6. pool' \in [Res -> Nat]
    <2>1. PICK kept : pool' = pool \/ pool' = GiveBack(b, kept, Res)
        BY DEF NewBufClean
    <2> QED BY <1>1, <2>1, GiveBackType DEF HeaderType, IoType
<1>7. reswant' \subseteq Res /\ fresh' \in [Buf -> SUBSET Nat]
    BY DEF NewBufClean, IoType
<1>8. IoType' /\ WantType'
    BY <1>6, <1>7 DEF NewBufClean, IoType, WantType, iovars
<1>9. PICK l \in {"newmem", "insert", "newkmap"} : Goto(p, l)
    BY DEF NewBufClean
<1>10. bp' = [bp EXCEPT ![p] = b] /\ UNCHANGED <<call, ret, wflag, tossed>>
    BY DEF NewBufClean
<1>11. chan' \in [Proc -> Chan]
    <2>1. PICK W : Wakeup(W)
        BY DEF NewBufClean
    <2> QED BY <2>1, WakeupType DEF ProcType
<1>12. /\ ret' = [ret EXCEPT ![p] = ret[p]] /\ ret[p] \in RetLabel
       /\ wflag' = [wflag EXCEPT ![p] = wflag[p]] /\ wflag[p] \in SUBSET Flag
       /\ "ASYNC" \notin wflag[p]
    BY <1>1, <1>10 DEF ProcType, LocalOK, Local
<1>13. /\ call' \in [Proc -> Call \cup {NoCall}] /\ tossed' \in [Proc -> Nat]
       /\ l \in Label /\ l # "bwpost"
    BY <1>10 DEF ProcType, Label
<1> HIDE DEF b
<1>14. ProcType' /\ LocalOK'
    BY <1>1, <1>9, <1>10, <1>11, <1>12, <1>13, Moves
<1> QED BY <1>5, <1>8, <1>14

\* The labels at which a process takes space, and where it goes with it.
LEMMA SpaceLabels ==
    ASSUME NEW l \in SpaceLabel
    PROVE  /\ Space(l) \in Res /\ l \in Owning /\ l \in Label \ {"bwpost"}
           /\ AfterSpace(l) \in Owning /\ AfterSpace(l) \in Label \ {"bwpost"}
           /\ l = "dma" => AfterSpace(l) = "dma"
<1>1. Space(l) \in Res
    BY DEF SpaceLabel, Space, Res
<1>2. AfterSpace(l) \in {"newpages", "insert", "got", "dma", "hold"}
    BY DEF SpaceLabel, AfterSpace
<1>3. l \in Owning /\ l \in Label \ {"bwpost"}
    BY DEF SpaceLabel, Owning, Label
<1>4. l = "dma" => AfterSpace(l) = "dma"
    BY DEF AfterSpace
<1> QED BY <1>1, <1>2, <1>3, <1>4 DEF Owning, Label

LEMMA SpaceGrantedType ==
    ASSUME TypeInv, NEW p \in Proc, NEW l \in SpaceLabel, SpaceGranted(p, l)
    PROVE  TypeInv'
<1> USE DEF TypeInv, TypeOK
<1> DEFINE r == Space(l)
           m == AfterSpace(l)
<1>1. /\ r \in Res /\ l \in Owning /\ m \in Owning /\ m \in Label \ {"bwpost"}
      /\ l = "dma" => m = "dma"
    BY SpaceLabels
<1>2. bp[p] \in Buf /\ pc[p] = l
    BY <1>1 DEF SpaceGranted, SpaceNeeded, Runs, LocalOK, Local
<1>3. pc[p] # "bwpost"
    BY <1>2 DEF SpaceLabel
<1>4. b_flags' = [b_flags EXCEPT ![bp[p]] = @ \cup {r}] /\ pool[r] >= b_length[bp[p]]
      /\ pool' = [pool EXCEPT ![r] = @ - b_length[bp[p]]]
    BY DEF SpaceGranted
<1>5. Goto(p, m) /\ UNCHANGED <<bp, ret, wflag>> /\ UNCHANGED <<chan, call>>
    BY DEF SpaceGranted, locals
<1>6. /\ chan' \in [Proc -> Chan] /\ call' \in [Proc -> Call \cup {NoCall}]
      /\ tossed' \in [Proc -> Nat]
    BY <1>5 DEF SpaceGranted, ProcType
<1>7. UNCHANGED <<headers, freelist, bfwanted, iovars, reswant, slept, data, raced>>
    BY DEF SpaceGranted, locals
<1> HIDE DEF r, m
<1>8. HeaderType'
    BY <1>1, <1>2, <1>4, <1>7 DEF HeaderType, headers, Flag
<1>9. pool' \in [Res -> Nat]
    <2>1. pool[r] - b_length[bp[p]] \in Nat
        BY <1>1, <1>2, <1>4 DEF HeaderType, IoType
    <2> QED BY <1>1, <1>4, <2>1 DEF IoType
<1>10. IoType' /\ WantType'
    BY <1>7, <1>9 DEF IoType, WantType, iovars, data
<1>11. ProcType' /\ LocalOK'
    BY <1>1, <1>2, <1>3, <1>5, <1>6, GoesOn
<1> QED BY <1>8, <1>10, <1>11

LEMMA SpaceUncachedType ==
    ASSUME TypeInv, NEW p \in Proc, NEW l \in SpaceLabel, SpaceUncached(p, l)
    PROVE  TypeInv'
<1> USE DEF TypeInv, TypeOK
<1> DEFINE r == Space(l)
           b == FirstOf(Strippable(r))
<1>1. r \in Res /\ l \in Owning /\ l \in Label \ {"bwpost"}
    BY SpaceLabels
<1>2. bp[p] \in Buf /\ pc[p] = l
    BY <1>1 DEF SpaceUncached, SpaceNeeded, Runs, LocalOK, Local
<1>3. b \in Buf
    <2>1. Strippable(r) \subseteq OnFreelist /\ Strippable(r) # {}
        BY DEF SpaceUncached, Strippable
    <2>2. b \in Strippable(r)
        BY <2>1, FirstOfIn DEF HeaderType
    <2>3. OnFreelist \subseteq Buf
        BY DEF OnFreelist, HeaderType
    <2> QED BY <2>1, <2>2, <2>3
<1>4. Strip(b, r) /\ Goto(p, l) /\ UNCHANGED <<bp, ret, wflag>> /\ UNCHANGED call
    BY DEF SpaceUncached, locals
<1>5. UNCHANGED <<b_dev, b_blkno, hashed, freelist, bfwanted, iovars, slept, disk, raced>>
    BY DEF SpaceUncached, locals
<1>6. tossed' \in [Proc -> Nat]
    <2> DEFINE n == b_length[b] + IF Stripping(p, r) THEN tossed[p] ELSE 0
    <2>1. b_length[b] \in Nat /\ tossed[p] \in Nat
        BY <1>3 DEF HeaderType, ProcType
    <2>2. n \in Nat
        BY <2>1
    <2>3. tossed' = [tossed EXCEPT ![p] = n]
        BY DEF SpaceUncached, ProcType
    <2> HIDE DEF n
    <2> QED BY <2>2, <2>3 DEF ProcType
<1> HIDE DEF r, b
<1>7. Gone(r) \subseteq Flag
    BY <1>1 DEF Gone, Flag
<1>8. b_flags' \in [Buf -> SUBSET Flag]
    BY <1>3, <1>4, <1>7 DEF Strip, HeaderType, Flag
<1>9. b_length' \in [Buf -> Nat] /\ fresh' \in [Buf -> SUBSET Nat] /\ reswant' \subseteq Res
    BY <1>3, <1>4 DEF Strip, HeaderType, IoType
<1>10. pool' \in [Res -> Nat]
    BY <1>3, <1>4, GiveBackType DEF Strip, HeaderType, IoType
<1>11. chan' \in [Proc -> Chan]
    <2>1. Wakeup(reswant \cap Gone(r) \cap b_flags[b])
        BY <1>4 DEF Strip
    <2> QED BY <2>1, WakeupType DEF ProcType
<1>12. HeaderType' /\ IoType' /\ WantType'
    BY <1>5, <1>8, <1>9, <1>10 DEF HeaderType, IoType, WantType, iovars
<1>13. call' \in [Proc -> Call \cup {NoCall}] /\ pc[p] # "bwpost"
    BY <1>2, <1>4 DEF ProcType, SpaceLabel
<1>14. ProcType' /\ LocalOK'
    BY <1>1, <1>2, <1>4, <1>6, <1>11, <1>13, GoesOn
<1> QED BY <1>12, <1>14

LEMMA SpaceSleepType ==
    ASSUME TypeInv, NEW p \in Proc, NEW l \in SpaceLabel, SpaceSleep(p, l)
    PROVE  TypeInv'
<1> USE DEF TypeInv, TypeOK
<1>1. Space(l) \in Res /\ l \in Owning /\ l \in Label \ {"bwpost"}
    BY SpaceLabels
<1>2. bp[p] \in Buf /\ pc[p] = l
    BY <1>1 DEF SpaceSleep, SpaceNeeded, Runs, LocalOK, Local
<1>3. HeaderType'
    BY DEF SpaceSleep, HeaderType, headers
<1>4. IoType'
    BY <1>1 DEF SpaceSleep, IoType, iovars, data
<1>5. /\ SleepOn(p, Space(l), l) /\ UNCHANGED <<call, ret, wflag>>
      /\ tossed' \in [Proc -> Nat] /\ UNCHANGED bp
    BY DEF SpaceSleep, ProcType
<1>6. Space(l) \in Chan /\ bp[p] \in Buf \cup {NoBuf} /\ pc[p] # "bwpost"
    BY <1>1, <1>2 DEF Chan, SpaceLabel
<1>7. bp' = [bp EXCEPT ![p] = bp[p]]
    BY <1>5, SameBuf
<1>8. ProcType' /\ LocalOK' /\ slept' \in [Proc -> BOOLEAN]
    BY <1>1, <1>2, <1>5, <1>6, <1>7, Sleeps
<1>9. WantType'
    BY <1>8 DEF SpaceSleep, WantType, iovars
<1> QED BY <1>3, <1>4, <1>8, <1>9

LEMMA PagesSleepType ==
    ASSUME TypeInv, NEW p \in Proc, PagesSleep(p)
    PROVE  TypeInv'
<1> USE DEF TypeInv, TypeOK
<1>1. bp[p] \in Buf /\ pc[p] = "newpages"
    BY DEF PagesSleep, Runs, LocalOK, Local, Owning
<1>2. HeaderType' /\ IoType'
    BY DEF PagesSleep, HeaderType, IoType, headers, iovars, spacevars, data
<1>3. /\ SleepOn(p, "none", "newpages") /\ UNCHANGED <<call, ret, wflag>>
      /\ tossed' \in [Proc -> Nat] /\ UNCHANGED bp
    BY DEF PagesSleep, ProcType
<1>4. "none" \in Chan /\ "newpages" \in Label \ {"bwpost"}
    BY DEF Chan, Label
<1>5. bp' = [bp EXCEPT ![p] = bp[p]]
    BY <1>3, SameBuf
<1>6. ProcType' /\ LocalOK' /\ slept' \in [Proc -> BOOLEAN]
    BY <1>1, <1>3, <1>4, <1>5, Sleeps
<1>7. WantType'
    BY <1>6 DEF PagesSleep, WantType, iovars
<1> QED BY <1>2, <1>6, <1>7

LEMMA PagesThereType ==
    ASSUME TypeInv, NEW p \in Proc, PagesThere(p)
    PROVE  TypeInv'
<1> USE DEF TypeInv, TypeOK
<1>1. bp[p] \in Buf /\ pc[p] = "newpages"
    BY DEF PagesThere, Runs, LocalOK, Local, Owning
<1>2. HeaderType' /\ IoType' /\ WantType'
    BY DEF PagesThere, HeaderType, IoType, WantType, headers, iovars, spacevars, data, locals
<1>3. Goto(p, "newkmap") /\ UNCHANGED <<bp, ret, wflag>> /\ UNCHANGED <<call, chan, tossed>>
    BY DEF PagesThere, locals
<1>4. /\ chan' \in [Proc -> Chan] /\ call' \in [Proc -> Call \cup {NoCall}]
      /\ tossed' \in [Proc -> Nat] /\ "newkmap" \in Label \ {"bwpost"}
    BY <1>3 DEF ProcType, Label
<1>5. ProcType' /\ LocalOK'
    BY <1>1, <1>3, <1>4, GoesOn
<1> QED BY <1>2, <1>5

LEMMA InsertBlockType ==
    ASSUME TypeInv, NEW p \in Proc, InsertBlock(p)
    PROVE  TypeInv'
<1> USE DEF TypeInv, TypeOK
<1>1. bp[p] \in Buf /\ pc[p] = "insert"
    BY DEF InsertBlock, Runs, LocalOK, Local, Owning
<1>2. call[p].blkno \in Nat
    BY CallAssumption, NoCallType DEF ProcType
<1>3. HeaderType'
    BY <1>1, <1>2 DEF InsertBlock, HeaderType
<1>4. IoType'
    BY DEF InsertBlock, IoType, iovars, spacevars, data
<1>5. raced' \in BOOLEAN
    BY DEF InsertBlock, WantType
<1>6. WantType'
    BY <1>5 DEF InsertBlock, WantType, iovars, locals
<1>7. Goto(p, "got") /\ UNCHANGED <<bp, ret, wflag>> /\ UNCHANGED <<call, chan, tossed>>
    BY DEF InsertBlock, locals
<1>8. /\ chan' \in [Proc -> Chan] /\ call' \in [Proc -> Call \cup {NoCall}]
      /\ tossed' \in [Proc -> Nat] /\ "got" \in Label \ {"bwpost"}
    BY <1>7 DEF ProcType, Label
<1>9. ProcType' /\ LocalOK'
    BY <1>1, <1>7, <1>8, GoesOn
<1> QED BY <1>3, <1>4, <1>6, <1>9

LEMMA InsertEmptyType ==
    ASSUME TypeInv, NEW p \in Proc, InsertEmpty(p)
    PROVE  TypeInv'
<1> USE DEF TypeInv, TypeOK
<1>1. bp[p] \in Buf /\ pc[p] = "insert"
    BY DEF InsertEmpty, Runs, LocalOK, Local, Owning
<1>2. HeaderType'
    BY <1>1 DEF InsertEmpty, HeaderType, Flag
<1>3. pool' \in [Res -> Nat]
    BY <1>1, GiveBackType DEF InsertEmpty, HeaderType, IoType
<1>4. IoType' /\ WantType'
    BY <1>3 DEF InsertEmpty, IoType, WantType, iovars, data, locals
<1>5. PICK l \in {"hold", "edma"} : Goto(p, l)
    BY DEF InsertEmpty
<1>6. chan' \in [Proc -> Chan]
    <2>1. Wakeup(reswant \cap b_flags[bp[p]] \cap {"DMA"})
        BY DEF InsertEmpty
    <2> QED BY <2>1, WakeupType DEF ProcType
<1>7. UNCHANGED <<bp, ret, wflag>> /\ UNCHANGED <<call, tossed>>
    BY DEF InsertEmpty, locals
<1>8. /\ call' \in [Proc -> Call \cup {NoCall}] /\ tossed' \in [Proc -> Nat]
      /\ l \in Label \ {"bwpost"}
    BY <1>7 DEF ProcType, Label
<1>9. ProcType' /\ LocalOK'
    BY <1>1, <1>5, <1>6, <1>7, <1>8, GoesOn
<1> QED BY <1>2, <1>4, <1>9

LEMMA GotBlockType ==
    ASSUME TypeInv, NEW p \in Proc, GotBlock(p)
    PROVE  TypeInv'
<1> USE DEF TypeInv, TypeOK
<1>1. bp[p] \in Buf /\ pc[p] = "got"
    BY DEF GotBlock, Runs, LocalOK, Local, Owning
<1>2. HeaderType'
    BY <1>1 DEF GotBlock, HeaderType, headers, Flag
<1>3. IoType' /\ WantType'
    BY DEF GotBlock, IoType, WantType, iovars, spacevars, data
<1>4. PICK l \in {"hold", "dma"}, r \in RetLabel : Goto(p, l) /\ ret' = [ret EXCEPT ![p] = r]
    <2>1. ret[p] \in RetLabel
        BY DEF LocalOK, Local
    <2> QED BY <2>1 DEF GotBlock, RetLabel
<1>5. UNCHANGED <<bp, wflag, chan, call, tossed>>
    BY DEF GotBlock
<1>6. /\ bp' = [bp EXCEPT ![p] = bp[p]]
      /\ wflag' = [wflag EXCEPT ![p] = wflag[p]] /\ wflag[p] \in SUBSET Flag
      /\ "ASYNC" \notin wflag[p]
    BY <1>1, <1>5 DEF ProcType, LocalOK, Local
<1>7. /\ chan' \in [Proc -> Chan] /\ call' \in [Proc -> Call \cup {NoCall}]
      /\ tossed' \in [Proc -> Nat] /\ l \in Label /\ l # "bwpost"
    BY <1>5 DEF ProcType, Label
<1>8. ProcType' /\ LocalOK'
    BY <1>1, <1>4, <1>6, <1>7, Moves
<1> QED BY <1>2, <1>3, <1>8

LEMMA StrategyType ==
    ASSUME TypeInv, NEW p \in Proc, Strategy(p)
    PROVE  TypeInv'
<1> USE DEF TypeInv, TypeOK
<1>1. bp[p] \in Buf /\ pc[p] = "dma"
    BY DEF Strategy, Runs, LocalOK, Local, Owning
<1>2. HeaderType'
    BY DEF Strategy, HeaderType, headers
<1>3. IoType' /\ WantType'
    BY <1>1 DEF Strategy, IoType, WantType, spacevars, data, locals
<1>4. UNCHANGED <<bp, ret, wflag, chan, call, tossed>>
    BY DEF Strategy, locals
<1>5. /\ bp' = [bp EXCEPT ![p] = bp[p]] /\ ret' = [ret EXCEPT ![p] = ret[p]]
      /\ wflag' = [wflag EXCEPT ![p] = wflag[p]] /\ wflag[p] \in SUBSET Flag
      /\ ret[p] \in RetLabel /\ ("ASYNC" \in wflag[p] => ret[p] # "hold")
    BY <1>4 DEF ProcType, LocalOK, Local
<1>6. /\ chan' \in [Proc -> Chan] /\ call' \in [Proc -> Call \cup {NoCall}]
      /\ tossed' \in [Proc -> Nat]
    BY <1>4 DEF ProcType
<1>7. CASE "ASYNC" \in wflag[p]
    <2>1. Goto(p, "bwpost") /\ "bwpost" \in Label
        BY <1>7 DEF Strategy, Label
    <2>2. ProcType' /\ LocalOK'
        BY <1>1, <1>5, <1>6, <1>7, <2>1, Moves
    <2> QED BY <1>2, <1>3, <2>2
<1>8. CASE "ASYNC" \notin wflag[p]
    <2>1. Goto(p, "iowait") /\ "iowait" \in Label
        BY <1>8 DEF Strategy, Label
    <2>2. ProcType' /\ LocalOK'
        BY <1>1, <1>5, <1>6, <1>8, <2>1, Moves
    <2> QED BY <1>2, <1>3, <2>2
<1> QED BY <1>7, <1>8

LEMMA BwritePostType ==
    ASSUME TypeInv, NEW p \in Proc, BwritePost(p)
    PROVE  TypeInv'
<1> USE DEF TypeInv, TypeOK
<1>1. /\ bp[p] \in Buf /\ pc[p] = "bwpost" /\ ret[p] \in RetLabel \ {"hold"}
    BY DEF BwritePost, Runs, LocalOK, Local
<1>2. HeaderType'
    BY <1>1 DEF BwritePost, HeaderType, headers, Flag
<1>3. IoType'
    BY DEF BwritePost, IoType, spacevars, data
<1>4. Return(p, ret[p]) /\ UNCHANGED <<chan, tossed>>
    BY DEF BwritePost
<1>5. /\ chan' \in [Proc -> Chan] /\ tossed' \in [Proc -> Nat]
      /\ ret[p] \in Label \ (Owning \cup {"capture", "bwpost"})
    BY <1>1, <1>4 DEF ProcType, RetLabel, Label, Owning
<1>6. ProcType' /\ LocalOK' /\ slept' \in [Proc -> BOOLEAN]
    BY <1>4, <1>5, Returns
<1>7. WantType'
    BY <1>6 DEF BwritePost, WantType
<1> QED BY <1>2, <1>3, <1>6, <1>7

LEMMA IowaitSleepType ==
    ASSUME TypeInv, NEW p \in Proc, IowaitSleep(p)
    PROVE  TypeInv'
<1> USE DEF TypeInv, TypeOK
<1>1. bp[p] \in Buf /\ pc[p] = "iowait"
    BY DEF IowaitSleep, Runs, LocalOK, Local, Owning
<1>2. HeaderType' /\ IoType'
    BY DEF IowaitSleep, HeaderType, IoType, headers, iovars, spacevars, data
<1>3. /\ SleepOn(p, bp[p], "iowait") /\ UNCHANGED <<call, ret, wflag>>
      /\ tossed' \in [Proc -> Nat] /\ UNCHANGED bp
    BY DEF IowaitSleep, ProcType
<1>4. bp[p] \in Chan /\ "iowait" \in Label \ {"bwpost"}
    BY <1>1 DEF Chan, Label
<1>5. bp' = [bp EXCEPT ![p] = bp[p]]
    BY <1>3, SameBuf
<1>6. ProcType' /\ LocalOK' /\ slept' \in [Proc -> BOOLEAN]
    BY <1>1, <1>3, <1>4, <1>5, Sleeps
<1>7. WantType'
    BY <1>6 DEF IowaitSleep, WantType, iovars
<1> QED BY <1>2, <1>6, <1>7

LEMMA IowaitReadType ==
    ASSUME TypeInv, NEW p \in Proc, IowaitRead(p)
    PROVE  TypeInv'
<1> USE DEF TypeInv, TypeOK
<1>1. bp[p] \in Buf /\ pc[p] = "iowait"
    BY DEF IowaitRead, Runs, LocalOK, Local, Owning
<1>2. HeaderType' /\ IoType' /\ WantType'
    BY DEF IowaitRead, HeaderType, IoType, WantType, headers, iovars, spacevars, data
<1>3. /\ ret' = [ret EXCEPT ![p] = "user"] /\ Goto(p, "hold")
      /\ UNCHANGED <<bp, wflag, chan, call, tossed>>
    BY DEF IowaitRead
<1>4. /\ bp' = [bp EXCEPT ![p] = bp[p]]
      /\ wflag' = [wflag EXCEPT ![p] = wflag[p]] /\ wflag[p] \in SUBSET Flag
      /\ "ASYNC" \notin wflag[p]
    BY <1>1, <1>3 DEF ProcType, LocalOK, Local
<1>5. /\ chan' \in [Proc -> Chan] /\ call' \in [Proc -> Call \cup {NoCall}]
      /\ tossed' \in [Proc -> Nat] /\ "hold" \in Label /\ "user" \in RetLabel
    BY <1>3 DEF ProcType, Label, RetLabel
<1>6. ProcType' /\ LocalOK'
    BY <1>1, <1>3, <1>4, <1>5, Moves
<1> QED BY <1>2, <1>6

\* A process that releases the buffer it has and goes back.
LEMMA ReleaseReturnType ==
    ASSUME TypeInv, NEW p \in Proc, NEW b \in Buf, NEW fl \in SUBSET Flag,
           NEW f \in [Buf -> SUBSET Nat], NEW l \in RetLabel \ {"hold"},
           Brelse(b, fl, freelist, f, {}), Return(p, l), disk' \subseteq Nat,
           UNCHANGED <<b_blkno, hashed, iovars, raced, tossed>>
    PROVE  TypeInv'
<1> USE DEF TypeInv, TypeOK
<1>1. freelist \in Seq(Buf) /\ io' \subseteq Buf /\ basyncnt' \in Int
    BY DEF HeaderType, IoType, iovars
<1>2. HeaderType' /\ IoType' /\ bfwanted' \in BOOLEAN /\ chan' \in [Proc -> Chan]
    BY <1>1, Releases
<1>3. tossed' \in [Proc -> Nat] /\ l \in Label \ (Owning \cup {"capture", "bwpost"})
    BY DEF ProcType, RetLabel, Label, Owning
<1>4. ProcType' /\ LocalOK' /\ slept' \in [Proc -> BOOLEAN]
    BY <1>2, <1>3, Returns
<1>5. WantType'
    BY <1>2, <1>4 DEF WantType, iovars
<1> QED BY <1>2, <1>4, <1>5

LEMMA IowaitWrittenType ==
    ASSUME TypeInv, NEW p \in Proc, IowaitWritten(p)
    PROVE  TypeInv'
<1> USE DEF TypeInv, TypeOK
<1>1. bp[p] \in Buf /\ ret[p] \in RetLabel \ {"hold"}
    BY DEF IowaitWritten, Runs, LocalOK, Local, Owning
<1>2. b_flags[bp[p]] \in SUBSET Flag /\ fresh \in [Buf -> SUBSET Nat] /\ disk \subseteq Nat
    BY <1>1 DEF HeaderType, IoType
<1>3. /\ Brelse(bp[p], b_flags[bp[p]], freelist, fresh, {}) /\ Return(p, ret[p])
      /\ UNCHANGED <<b_blkno, hashed, iovars, raced, tossed>> /\ disk' = disk
    BY DEF IowaitWritten
<1> QED BY <1>1, <1>2, <1>3, ReleaseReturnType

LEMMA ReleaseType ==
    ASSUME TypeInv, NEW p \in Proc, Release(p)
    PROVE  TypeInv'
<1> USE DEF TypeInv, TypeOK
<1>1. bp[p] \in Buf /\ "user" \in RetLabel \ {"hold"}
    BY DEF Release, Runs, LocalOK, Local, Owning, RetLabel
<1>2. b_flags[bp[p]] \in SUBSET Flag /\ fresh \in [Buf -> SUBSET Nat] /\ disk \subseteq Nat
    BY <1>1 DEF HeaderType, IoType
<1>3. /\ Brelse(bp[p], b_flags[bp[p]], freelist, fresh, {}) /\ Return(p, "user")
      /\ UNCHANGED <<b_blkno, hashed, iovars, raced, tossed>> /\ disk' = disk
    BY DEF Release
<1> QED BY <1>1, <1>2, <1>3, ReleaseReturnType

LEMMA FilledType ==
    ASSUME TypeInv, NEW b \in Buf
    PROVE  Blocks(b) \subseteq Nat /\ Filled(b) \in [Buf -> SUBSET Nat]
<1>1. Blocks(b) \subseteq Nat
    BY DEF TypeInv, TypeOK, HeaderType, Blocks
<1> QED BY <1>1 DEF TypeInv, TypeOK, IoType, Filled

LEMMA WriteNowType ==
    ASSUME TypeInv, NEW p \in Proc, NEW mode \in SUBSET {"ASYNC"}, WriteNow(p, mode)
    PROVE  TypeInv'
<1> USE DEF TypeInv, TypeOK
<1> DEFINE fl == b_flags[bp[p]] \cup mode
<1>1. bp[p] \in Buf /\ "user" \in RetLabel \ {"hold"} /\ "user" \in Label
    BY DEF WriteNow, Writable, Runs, LocalOK, Local, Owning, RetLabel, Label
<1>2. fl \in SUBSET Flag /\ freelist \in Seq(Buf)
    BY <1>1 DEF HeaderType, Flag
<1>3. /\ Bwrite(p, bp[p], fl, freelist, "user")
      /\ fresh' = Filled(bp[p]) /\ disk' = disk \ Blocks(bp[p])
      /\ UNCHANGED <<headers, bfwanted, iovars, spacevars, chan, call, slept, raced, tossed>>
    BY DEF WriteNow
<1> HIDE DEF fl
<1>4. b_flags' \in [Buf -> SUBSET Flag] /\ freelist' \in Seq(Buf)
    BY <1>1, <1>2, <1>3, BwriteType
<1>5. HeaderType'
    BY <1>3, <1>4 DEF HeaderType, headers
<1>6. fresh' \in [Buf -> SUBSET Nat] /\ disk' \subseteq Nat
    BY <1>1, <1>3, FilledType DEF IoType
<1>7. IoType' /\ WantType'
    BY <1>3, <1>6 DEF IoType, WantType, iovars, spacevars
<1>8. ProcType' /\ LocalOK'
    BY <1>1, <1>2, <1>3, Writes
<1> QED BY <1>5, <1>7, <1>8

LEMMA bdwriteType ==
    ASSUME TypeInv, NEW p \in Proc, bdwrite(p)
    PROVE  TypeInv'
<1> USE DEF TypeInv, TypeOK
<1> DEFINE fl == b_flags[bp[p]] \cup {"DELWRI", "DONE"}
<1>1. bp[p] \in Buf /\ "user" \in RetLabel \ {"hold"}
    BY DEF bdwrite, Writable, Runs, LocalOK, Local, Owning, RetLabel
<1>2. fl \in SUBSET Flag /\ Filled(bp[p]) \in [Buf -> SUBSET Nat]
    BY <1>1, FilledType DEF HeaderType, Flag
<1>3. /\ Brelse(bp[p], fl, freelist, Filled(bp[p]), {}) /\ Return(p, "user")
      /\ UNCHANGED <<b_blkno, hashed, iovars, raced, tossed>>
    BY DEF bdwrite
<1>4. disk' \subseteq Nat
    BY DEF bdwrite, IoType
<1> HIDE DEF fl
<1> QED BY <1>1, <1>2, <1>3, <1>4, ReleaseReturnType

LEMMA LoopDoneType ==
    ASSUME TypeInv, NEW p \in Proc, NEW l \in {"user", "bdwait", "binval"}, LoopDone(p, l)
    PROVE  TypeInv'
<1> USE DEF TypeInv, TypeOK
<1>1. HeaderType' /\ IoType'
    BY DEF LoopDone, HeaderType, IoType, headers, iovars, spacevars, data
<1>2. /\ Return(p, l) /\ chan' \in [Proc -> Chan] /\ tossed' \in [Proc -> Nat]
      /\ l \in Label \ (Owning \cup {"capture", "bwpost"})
    BY DEF LoopDone, ProcType, Label, Owning
<1>3. ProcType' /\ LocalOK' /\ slept' \in [Proc -> BOOLEAN]
    BY <1>2, Returns
<1>4. WantType'
    BY <1>3 DEF LoopDone, WantType, iovars
<1> QED BY <1>1, <1>3, <1>4

LEMMA btossType ==
    ASSUME TypeInv, NEW p \in Proc, btoss(p)
    PROVE  TypeInv'
<1> USE DEF TypeInv, TypeOK
<1>1. CASE Tossable(p) # {}
    <2> DEFINE b == FirstOf(Tossable(p))
               fl == b_flags[b] \cup {"BUSY", "INVAL"}
    <2>1. b \in Buf
        <3>1. Tossable(p) \subseteq OnFreelist /\ OnFreelist \subseteq Buf
            BY DEF Tossable, OnFreelist, HeaderType
        <3>2. b \in Tossable(p)
            BY <1>1, <3>1, FirstOfIn DEF HeaderType
        <3> QED BY <3>1, <3>2
    <2>2. fl \in SUBSET Flag /\ Without(b) \in Seq(Buf) /\ fresh \in [Buf -> SUBSET Nat]
        BY <2>1, WithoutType DEF HeaderType, IoType, Flag
    <2>3. /\ Brelse(b, fl, Without(b), fresh, {}) /\ disk' = disk \cup fresh[b]
          /\ Goto(p, "toss") /\ UNCHANGED <<b_blkno, hashed, iovars, locals, raced, tossed>>
        BY <1>1 DEF btoss
    <2> HIDE DEF b, fl
    <2>4. io' \subseteq Buf /\ basyncnt' \in Int /\ disk' \subseteq Nat
        BY <2>1, <2>3 DEF IoType, iovars
    <2>5. HeaderType' /\ IoType' /\ bfwanted' \in BOOLEAN /\ chan' \in [Proc -> Chan]
        BY <2>1, <2>2, <2>3, <2>4, Releases
    <2>6. WantType'
        BY <2>3, <2>5 DEF WantType, iovars, locals
    <2>7. /\ UNCHANGED <<bp, ret, wflag>> /\ call' \in [Proc -> Call \cup {NoCall}]
          /\ tossed' \in [Proc -> Nat] /\ pc[p] = "toss" /\ "toss" \in Label \ {"bwpost"}
          /\ "toss" \notin Owning \cup {"capture"}
        BY <2>3 DEF ProcType, locals, btoss, Runs, Label, Owning
    <2>8. ProcType' /\ LocalOK'
        BY <2>3, <2>5, <2>7, GoesOn
    <2> QED BY <2>5, <2>6, <2>8
<1>2. CASE Tossable(p) = {}
    <2>1. LoopDone(p, "user")
        BY <1>2 DEF btoss, LoopDone
    <2> QED BY <2>1, LoopDoneType
<1> QED BY <1>1, <1>2

LEMMA bflushType ==
    ASSUME TypeInv, NEW p \in Proc, bflush(p)
    PROVE  TypeInv'
<1>1. CASE Dirty # {} /\ WriteOut(p, FirstOf(Dirty), "flush")
    <2>1. Dirty \subseteq OnFreelist /\ OnFreelist \subseteq Buf
        BY DEF Dirty, OnFreelist, HeaderType, TypeInv, TypeOK
    <2>2. FirstOf(Dirty) \in Dirty
        BY <1>1, <2>1, FirstOfIn DEF HeaderType, TypeInv, TypeOK
    <2>3. FirstOf(Dirty) \in Buf /\ "flush" \in RetLabel \ {"hold"}
        BY <2>1, <2>2 DEF RetLabel
    <2> QED BY <1>1, <2>3, WriteOutType
<1>2. CASE \E l \in {"user", "bdwait"} : LoopDone(p, l)
    BY <1>2, LoopDoneType
<1> QED BY <1>1, <1>2 DEF bflush

LEMMA bdsyncType ==
    ASSUME TypeInv, NEW p \in Proc, bdsync(p)
    PROVE  TypeInv'
<1>1. CASE \E b \in Buf : WriteOut(p, b, "sync")
    <2>1. "sync" \in RetLabel \ {"hold"}
        BY DEF RetLabel
    <2> QED BY <1>1, <2>1, WriteOutType
<1>2. CASE LoopDone(p, "user")
    BY <1>2, LoopDoneType
<1> QED BY <1>1, <1>2 DEF bdsync

LEMMA bdwaitType ==
    ASSUME TypeInv, NEW p \in Proc, bdwait(p)
    PROVE  TypeInv'
<1> USE DEF TypeInv, TypeOK
<1>1. CASE basyncnt # 0
    <2>1. HeaderType' /\ IoType'
        BY <1>1 DEF bdwait, HeaderType, IoType, headers, spacevars, data
    <2>2. /\ SleepOn(p, "basyncnt", "bdwait") /\ UNCHANGED <<call, ret, wflag>>
          /\ tossed' \in [Proc -> Nat] /\ UNCHANGED bp /\ pc[p] = "bdwait"
        BY <1>1 DEF bdwait, ProcType, Runs
    <2>3. /\ "basyncnt" \in Chan /\ "bdwait" \in Label \ {"bwpost"}
          /\ "bdwait" \notin Owning \cup {"capture"} /\ bp[p] \in Buf \cup {NoBuf}
        BY DEF Chan, Label, Owning, ProcType
    <2>4. bp' = [bp EXCEPT ![p] = bp[p]]
        BY <2>2, SameBuf
    <2>5. ProcType' /\ LocalOK' /\ slept' \in [Proc -> BOOLEAN]
        BY <2>2, <2>3, <2>4, Sleeps
    <2>6. WantType'
        BY <1>1, <2>5 DEF bdwait, WantType
    <2> QED BY <2>1, <2>5, <2>6
<1>2. CASE \E l \in {"user", "binval"} : LoopDone(p, l)
    BY <1>2, LoopDoneType
<1> QED BY <1>1, <1>2 DEF bdwait

LEMMA binvalType ==
    ASSUME TypeInv, NEW p \in Proc, binval(p)
    PROVE  TypeInv'
<1> USE DEF TypeInv, TypeOK
<1>1. HeaderType'
    BY DEF binval, HeaderType, headers, Flag
<1>2. IoType'
    BY DEF binval, IoType, iovars, spacevars, data
<1>3. /\ Return(p, "user") /\ chan' \in [Proc -> Chan] /\ tossed' \in [Proc -> Nat]
      /\ "user" \in Label \ (Owning \cup {"capture", "bwpost"})
    BY DEF binval, ProcType, Label, Owning
<1>4. ProcType' /\ LocalOK' /\ slept' \in [Proc -> BOOLEAN]
    BY <1>3, Returns
<1>5. WantType'
    BY <1>4 DEF binval, WantType, iovars
<1> QED BY <1>1, <1>2, <1>4, <1>5

LEMMA binvalfreeType ==
    ASSUME TypeInv, NEW p \in Proc, binvalfree(p)
    PROVE  TypeInv'
<1> USE DEF TypeInv, TypeOK
<1> DEFINE b == FirstOf(OfDevice)
<1>1. CASE OfDevice # {}
    <2>1. b \in Buf
        <3>1. OfDevice \subseteq OnFreelist /\ OnFreelist \subseteq Buf
            BY DEF OfDevice, OnFreelist, HeaderType
        <3>2. b \in OfDevice
            BY <1>1, <3>1, FirstOfIn DEF HeaderType
        <3> QED BY <3>1, <3>2
    <2>2. CASE WriteOut(p, b, "invalfree")
        <3>1. "invalfree" \in RetLabel \ {"hold"}
            BY DEF RetLabel
        <3> HIDE DEF b
        <3> QED BY <2>1, <2>2, <3>1, WriteOutType
    <2>3. CASE /\ b_flags' = [b_flags EXCEPT ![b] = @ \cup {"INVAL"}]
               /\ b_dev' = [b_dev EXCEPT ![b] = "nodev"]
               /\ Goto(p, "invalfree")
               /\ UNCHANGED <<b_blkno, b_length, hashed, freelist, bfwanted, iovars, spacevars,
                              chan, locals, data, raced, tossed>>
        <3> HIDE DEF b
        <3>1. HeaderType'
            BY <2>1, <2>3 DEF HeaderType, Flag
        <3>2. IoType' /\ WantType'
            BY <2>3 DEF IoType, WantType, iovars, spacevars, locals, data
        <3>3. /\ UNCHANGED <<bp, ret, wflag>> /\ call' \in [Proc -> Call \cup {NoCall}]
              /\ tossed' \in [Proc -> Nat] /\ chan' \in [Proc -> Chan]
            BY <2>3 DEF ProcType, locals
        <3>4. /\ pc[p] = "invalfree" /\ "invalfree" \in Label \ {"bwpost"}
              /\ "invalfree" \notin Owning \cup {"capture"}
            BY DEF binvalfree, Runs, Label, Owning
        <3>5. ProcType' /\ LocalOK'
            BY <2>3, <3>3, <3>4, GoesOn
        <3> QED BY <3>1, <3>2, <3>5
    <2> QED BY <1>1, <2>2, <2>3 DEF binvalfree
<1>2. CASE OfDevice = {}
    <2>1. LoopDone(p, "user")
        BY <1>2 DEF binvalfree
    <2> QED BY <2>1, LoopDoneType
<1> QED BY <1>1, <1>2

LEMMA EnterType ==
    ASSUME TypeInv, NEW p \in Proc, Enter(p)
    PROVE  TypeInv'
<1> USE DEF TypeInv, TypeOK
<1>1. HeaderType' /\ IoType' /\ WantType'
    BY DEF Enter, HeaderType, IoType, WantType, headers, iovars, spacevars, data
<1>2. PICK c \in Call : /\ call' = [call EXCEPT ![p] = c] /\ Goto(p, Entry(c.op))
                        /\ UNCHANGED <<chan, bp, ret, wflag, tossed>> /\ pc[p] = "user"
    BY DEF Enter, Runs
<1>3. Entry(c.op) \in {"find", "newbuf", "toss", "flush", "sync", "bdwait", "invalfree"}
    <2>1. c.op \in Op
        BY CallAssumption
    <2> QED BY <2>1 DEF Entry, Op
<1>4. /\ Entry(c.op) \in Label \ {"bwpost"} /\ Entry(c.op) \notin Owning \cup {"capture"}
    BY <1>3 DEF Label, Owning
<1>5. /\ chan' \in [Proc -> Chan] /\ call' \in [Proc -> Call \cup {NoCall}]
      /\ tossed' \in [Proc -> Nat]
    BY <1>2 DEF ProcType
<1>6. ProcType' /\ LocalOK'
    BY <1>2, <1>4, <1>5, GoesOn
<1> QED BY <1>1, <1>6

LEMMA iodoneType ==
    ASSUME TypeInv, NEW b \in Buf, iodone(b)
    PROVE  TypeInv'
<1> USE DEF TypeInv, TypeOK
<1>1. PICK ok \in IoResult :
        LET fl == b_flags[b] \cup {"DONE"} \cup IF ok THEN {} ELSE {"ERROR"}
            t == Transfer(b, ok)
            f == [fresh EXCEPT ![b] = t.copy]
            count == IF "READ" \in fl THEN basyncnt ELSE basyncnt - 1
            idle == count = 0 /\ basynwait
        IN  /\ io' = io \ {b} /\ disk' = t.disk
            /\ \/ /\ basyncnt' = count
                  /\ basynwait' = (basynwait /\ ~idle)
                  /\ Brelse(b, fl, freelist, f, IF idle THEN {"basyncnt"} ELSE {})
                  /\ UNCHANGED <<b_blkno, hashed>>
               \/ /\ b_flags' = [b_flags EXCEPT ![b] = fl \ {"WANTED"}]
                  /\ fresh' = f
                  /\ Wakeup({b})
                  /\ UNCHANGED <<headers, freelist, bfwanted, basyncnt, basynwait, spacevars>>
            /\ UNCHANGED <<pc, locals, cur, raced, tossed>>
    BY Zenon DEF iodone
<1> DEFINE fl == b_flags[b] \cup {"DONE"} \cup IF ok THEN {} ELSE {"ERROR"}
           t == Transfer(b, ok)
           f == [fresh EXCEPT ![b] = t.copy]
           count == IF "READ" \in fl THEN basyncnt ELSE basyncnt - 1
           idle == count = 0 /\ basynwait
<1>2. fl \in SUBSET Flag /\ freelist \in Seq(Buf) /\ count \in Int
    BY DEF HeaderType, IoType, Flag
<1>3. t.disk \subseteq Nat /\ t.copy \subseteq Nat
    <2>1. fresh[b] \subseteq Nat /\ disk \subseteq Nat
        BY DEF IoType
    <2>2. ok \in BOOLEAN
        BY IoAssumption
    <2> QED BY <2>1, <2>2 DEF Transfer
<1>4. f \in [Buf -> SUBSET Nat]
    BY <1>3 DEF IoType
<1>5. io' \subseteq Buf /\ disk' \subseteq Nat /\ UNCHANGED <<pc, locals, cur, raced, tossed>>
    BY <1>1, <1>3 DEF IoType
<1>6. chan' \in [Proc -> Chan] => ProcType'
    BY <1>5 DEF ProcType, locals
<1>7. LocalOK'
    BY <1>5 DEF LocalOK, Local, locals
<1>8. CASE /\ basyncnt' = count /\ basynwait' = (basynwait /\ ~idle)
           /\ Brelse(b, fl, freelist, f, IF idle THEN {"basyncnt"} ELSE {})
           /\ UNCHANGED <<b_blkno, hashed>>
    <2>1. basyncnt' \in Int /\ basynwait' \in BOOLEAN
        BY <1>2, <1>8 DEF WantType
    <2> HIDE DEF fl, f, idle, count
    <2>2. HeaderType' /\ IoType' /\ bfwanted' \in BOOLEAN /\ chan' \in [Proc -> Chan]
        BY <1>2, <1>4, <1>5, <1>8, <2>1, Releases
    <2>3. WantType'
        BY <1>5, <2>1, <2>2 DEF WantType, locals
    <2> QED BY <1>6, <1>7, <2>2, <2>3
<1>9. CASE /\ b_flags' = [b_flags EXCEPT ![b] = fl \ {"WANTED"}] /\ fresh' = f
           /\ Wakeup({b})
           /\ UNCHANGED <<headers, freelist, bfwanted, basyncnt, basynwait, spacevars>>
    <2> HIDE DEF fl, f, t, idle, count
    <2>1. HeaderType'
        BY <1>2, <1>9 DEF HeaderType, headers
    <2>2. IoType'
        BY <1>4, <1>5, <1>9 DEF IoType, spacevars
    <2>3. WantType'
        BY <1>5, <1>9 DEF WantType, locals
    <2>4. chan' \in [Proc -> Chan]
        BY <1>9, WakeupType DEF ProcType
    <2> QED BY <1>6, <1>7, <2>1, <2>2, <2>3, <2>4
<1> QED BY <1>1, <1>8, <1>9, Zenon

LEMMA TypeStutter ==
    ASSUME TypeInv, UNCHANGED vars
    PROVE  TypeInv'
<1>1. HeaderType' /\ IoType' /\ WantType'
    BY DEF TypeInv, TypeOK, HeaderType, IoType, WantType, vars, headers, iovars, spacevars,
           data, locals
<1>2. ProcType' /\ LocalOK'
    BY DEF TypeInv, TypeOK, ProcType, LocalOK, Local, vars, locals
<1> QED BY <1>1, <1>2 DEF TypeInv, TypeOK

LEMMA TypeNext == TypeInv /\ [Next]_vars => TypeInv'
<1> SUFFICES ASSUME TypeInv, [Next]_vars PROVE TypeInv'
    OBVIOUS
<1>1. ASSUME NEW p \in Proc, Enter(p) PROVE TypeInv'
    BY <1>1, EnterType
<1>2. ASSUME NEW p \in Proc, Getblk(p) PROVE TypeInv'
    BY <1>2, FindType, CaptureBusyType, CaptureMisshapenType, CaptureHitType,
       NewBufEmptyType, NewBufDirtyType, NewBufCleanType, SpaceGrantedType,
       SpaceUncachedType, SpaceSleepType, PagesSleepType, PagesThereType,
       InsertBlockType, InsertEmptyType, GotBlockType DEF Getblk
<1>3. ASSUME NEW p \in Proc, Transferring(p) PROVE TypeInv'
    BY <1>3, StrategyType, BwritePostType, IowaitSleepType, IowaitReadType,
       IowaitWrittenType DEF Transferring
<1>4. ASSUME NEW p \in Proc, Holder(p) PROVE TypeInv'
    BY <1>4, ReleaseType, WriteNowType, bdwriteType DEF Holder, bwrite, bawrite
<1>5. ASSUME NEW p \in Proc, Sweep(p) PROVE TypeInv'
    BY <1>5, btossType, bflushType, bdsyncType, bdwaitType, binvalType, binvalfreeType
       DEF Sweep
<1>6. ASSUME NEW b \in Buf, iodone(b) PROVE TypeInv'
    BY <1>6, iodoneType
<1>7. CASE UNCHANGED vars
    BY <1>7, TypeStutter
<1> QED BY <1>1, <1>2, <1>3, <1>4, <1>5, <1>6, <1>7 DEF Next, Step

\* Every step of the cache keeps every variable in its type; in particular
\* rmalloc() is never asked for more than a resource map has.
THEOREM TypeCorrect == Spec => []TypeOK
<1>1. Spec => []TypeInv
    BY TypeInit, TypeNext, PTL DEF Spec
<1>2. TypeInv => TypeOK
    BY DEF TypeInv
<1> QED BY <1>1, <1>2, PTL
-------------------------------------------------------------------------------
(***************************************************************************)
(* Who has a buffer: the free list, one process, or the driver.  The proof *)
(* that brelse(), getblk(), bwrite() and iodone() pass buffers on without  *)
(* ever losing one or giving it to two; and, from that, that no wakeup is  *)
(* lost.  Both hold for every number of processes and buffers.             *)
(***************************************************************************)

\* What the process that has a buffer may rely on.
OwnerOK(p) ==
    pc[p] \in Owning =>
        /\ "BUSY" \in b_flags[bp[p]]
        /\ pc[p] # "newmem" => "MEM" \in b_flags[bp[p]]
        /\ "ASYNC" \in b_flags[bp[p]] <=> "ASYNC" \in wflag[p]
        /\ bp[p] \in io => pc[p] = "iowait"
        /\ pc[p] = "dma" => "DONE" \notin b_flags[bp[p]]

\* What holds of every buffer, whoever has it.
BufOK(b) ==
    /\ "BUSY" \notin b_flags[b] => "ASYNC" \notin b_flags[b] /\ b \notin io
    /\ b \in io => {"BUSY", "DMA", "MEM"} \subseteq b_flags[b] /\ "DONE" \notin b_flags[b]
    /\ "DELWRI" \in b_flags[b] => "MEM" \in b_flags[b]

\* A busy buffer has somebody who will release it; only the process that is
\* about to get memory for it has a sized buffer without memory.
Kept(b) ==
    /\ "BUSY" \in b_flags[b] => AsyncIo(b) \/ \E p \in Proc : Owns(p, b)
    /\ b_length[b] > 0 => "MEM" \in b_flags[b] \/ \E p \in Proc : pc[p] = "newmem" /\ bp[p] = b

OwnOK ==
    /\ \A p, q \in Proc : pc[p] \in Owning /\ pc[q] \in Owning /\ bp[p] = bp[q] => p = q
    /\ \A p \in Proc : OwnerOK(p)
    /\ \A b \in Buf : BufOK(b) /\ Kept(b)

OwnInv == FreeIffNotBusy /\ OwnOK

-----------------------------------------------------------------------------
(***************************************************************************)
(* The free list as a list without repetitions.                            *)
(***************************************************************************)
Lists(s, S) ==
    /\ s \in Seq(Buf)
    /\ \A i, j \in DOMAIN s : s[i] = s[j] => i = j
    /\ \A b \in S : \E i \in DOMAIN s : s[i] = b
    /\ \A i \in DOMAIN s : s[i] \in S

NotBusy == {b \in Buf : "BUSY" \notin b_flags[b]}

LEMMA FreeLists ==
    ASSUME TypeInv
    PROVE  FreeIffNotBusy <=> Lists(freelist, NotBusy)
<1>1. freelist \in Seq(Buf)
    BY DEF TypeInv, TypeOK, HeaderType
<1>2. ASSUME FreeIffNotBusy PROVE Lists(freelist, NotBusy)
    BY <1>1, <1>2 DEF FreeIffNotBusy, Lists, NotBusy, OnFreelist
<1>3. ASSUME Lists(freelist, NotBusy) PROVE FreeIffNotBusy
    BY <1>1, <1>3 DEF FreeIffNotBusy, Lists, NotBusy, OnFreelist
<1> QED BY <1>2, <1>3

\* bremfree() takes exactly one buffer off the list.
LEMMA WithoutLists ==
    ASSUME NEW S, NEW b \in S, Lists(freelist, S)
    PROVE  Lists(Without(b), S \ {b})
<1> DEFINE k == Position(b)
           n == Len(freelist)
           w == Without(b)
<1>1. k \in 1..n /\ freelist[k] = b /\ n \in Nat /\ DOMAIN freelist = 1..n
    BY DEF Lists, Position
<1>2. w = [i \in 1..(n - 1) |-> IF i < k THEN freelist[i] ELSE freelist[i + 1]]
    BY DEF Without
<1> HIDE DEF k, n, w
<1>3. w \in Seq(Buf) /\ DOMAIN w = 1..(n - 1)
    <2>1. \A i \in 1..(n - 1) : w[i] \in Buf
        BY <1>1, <1>2 DEF Lists
    <2>2. w \in [1..(n - 1) -> Buf]
        BY <1>2, <2>1
    <2>3. n - 1 \in Nat
        BY <1>1
    <2> QED BY <2>2, <2>3
<1>7. \A i, j \in 1..n : freelist[i] = freelist[j] => i = j
    BY <1>1 DEF Lists
<1>8. \A i \in DOMAIN w : \/ i < k /\ i \in 1..n /\ w[i] = freelist[i]
                          \/ i >= k /\ i + 1 \in 1..n /\ w[i] = freelist[i + 1]
    BY <1>1, <1>2, <1>3
<1>4. \A i, j \in DOMAIN w : w[i] = w[j] => i = j
    <2> SUFFICES ASSUME NEW i \in 1..(n - 1), NEW j \in 1..(n - 1), w[i] = w[j] PROVE i = j
        BY <1>3
    <2> QED BY <1>1, <1>3, <1>7, <1>8
<1>5. \A i \in DOMAIN w : w[i] \in S \ {b}
    <2> SUFFICES ASSUME NEW i \in 1..(n - 1) PROVE w[i] \in S \ {b}
        BY <1>3
    <2>1. PICK j \in 1..n : j # k /\ w[i] = freelist[j]
        BY <1>1, <1>3, <1>8
    <2>2. freelist[j] \in S
        BY <1>1 DEF Lists
    <2> QED BY <1>1, <1>7, <2>1, <2>2
<1>6. \A c \in S \ {b} : \E i \in DOMAIN w : w[i] = c
    <2> SUFFICES ASSUME NEW c \in S \ {b} PROVE \E i \in DOMAIN w : w[i] = c
        OBVIOUS
    <2>1. PICK i \in 1..n : freelist[i] = c
        BY <1>1 DEF Lists
    <2>2. CASE i < k
        <3>1. i \in DOMAIN w /\ w[i] = c
            BY <1>1, <1>2, <1>3, <2>1, <2>2
        <3> QED BY <3>1
    <2>3. CASE i > k
        <3>1. i - 1 \in DOMAIN w /\ w[i - 1] = c
            BY <1>1, <1>2, <1>3, <2>1, <2>3
        <3> QED BY <3>1
    <2>4. i # k
        BY <1>1, <2>1
    <2> QED BY <1>1, <2>2, <2>3, <2>4
<1> QED BY <1>3, <1>4, <1>5, <1>6 DEF Lists, w

\* bnotavail() of the head of the list.
LEMMA TailLists ==
    ASSUME NEW S, NEW s, Lists(s, S), s # <<>>
    PROVE  Lists(Tail(s), S \ {Head(s)})
<1> DEFINE n == Len(s)
           w == Tail(s)
<1>1. /\ s \in Seq(Buf) /\ n \in Nat /\ n > 0 /\ DOMAIN s = 1..n /\ Head(s) = s[1]
    BY DEF Lists
<1>2. w \in Seq(Buf) /\ DOMAIN w = 1..(n - 1) /\ \A i \in 1..(n - 1) : w[i] = s[i + 1]
    BY <1>1
<1> HIDE DEF n, w
<1>6. \A i, j \in 1..n : s[i] = s[j] => i = j
    BY <1>1 DEF Lists
<1>3. \A i, j \in DOMAIN w : w[i] = w[j] => i = j
    <2> SUFFICES ASSUME NEW i \in 1..(n - 1), NEW j \in 1..(n - 1), w[i] = w[j] PROVE i = j
        BY <1>2
    <2>1. i + 1 \in 1..n /\ j + 1 \in 1..n /\ s[i + 1] = s[j + 1]
        BY <1>1, <1>2
    <2> QED BY <1>6, <2>1
<1>4. \A i \in DOMAIN w : w[i] \in S \ {Head(s)}
    <2> SUFFICES ASSUME NEW i \in 1..(n - 1) PROVE w[i] \in S \ {Head(s)}
        BY <1>2
    <2>1. i + 1 \in 1..n /\ 1 \in 1..n /\ i + 1 # 1 /\ w[i] = s[i + 1]
        BY <1>1, <1>2
    <2>2. s[i + 1] \in S
        BY <1>1, <2>1 DEF Lists
    <2> QED BY <1>1, <1>6, <2>1, <2>2
<1>5. \A c \in S \ {Head(s)} : \E i \in DOMAIN w : w[i] = c
    <2> SUFFICES ASSUME NEW c \in S \ {Head(s)} PROVE \E i \in DOMAIN w : w[i] = c
        OBVIOUS
    <2>1. PICK i \in 1..n : s[i] = c
        BY <1>1 DEF Lists
    <2>2. i - 1 \in DOMAIN w /\ w[i - 1] = c
        BY <1>1, <1>2, <2>1
    <2> QED BY <2>2
<1> QED BY <1>2, <1>3, <1>4, <1>5 DEF Lists, w

\* brelse() puts the buffer at the head or at the tail.
LEMMA HeadLists ==
    ASSUME NEW S, NEW s, Lists(s, S), NEW b \in Buf, b \notin S
    PROVE  Lists(<<b>> \o s, S \cup {b})
<1> DEFINE n == Len(s)
           w == <<b>> \o s
<1>1. s \in Seq(Buf) /\ n \in Nat /\ DOMAIN s = 1..n
    BY DEF Lists
<1>2. w \in Seq(Buf) /\ DOMAIN w = 1..(n + 1) /\ w[1] = b /\ \A i \in 1..n : w[i + 1] = s[i]
    BY <1>1
<1> HIDE DEF n, w
<1>3. \A i \in 2..(n + 1) : w[i] = s[i - 1] /\ i - 1 \in 1..n
    BY <1>1, <1>2
<1>7. (\A i, j \in 1..n : s[i] = s[j] => i = j) /\ \A i \in 1..n : s[i] \in S
    BY <1>1 DEF Lists
<1>8. \A i \in DOMAIN w : i = 1 \/ (i - 1 \in 1..n /\ w[i] = s[i - 1] /\ w[i] \in S)
    BY <1>1, <1>2, <1>3, <1>7
<1>4. \A i, j \in DOMAIN w : w[i] = w[j] => i = j
    <2> SUFFICES ASSUME NEW i \in 1..(n + 1), NEW j \in 1..(n + 1), w[i] = w[j] PROVE i = j
        BY <1>2
    <2>1. CASE i = 1
        BY <1>2, <1>8, <2>1
    <2>2. CASE j = 1
        BY <1>2, <1>8, <2>2
    <2>3. CASE i # 1 /\ j # 1
        <3>1. i - 1 \in 1..n /\ j - 1 \in 1..n /\ s[i - 1] = s[j - 1]
            BY <1>2, <1>8, <2>3
        <3>2. i - 1 = j - 1
            BY <1>7, <3>1
        <3> QED BY <3>2
    <2> QED BY <2>1, <2>2, <2>3
<1>5. \A i \in DOMAIN w : w[i] \in S \cup {b}
    BY <1>2, <1>8
<1>6. \A c \in S \cup {b} : \E i \in DOMAIN w : w[i] = c
    <2> SUFFICES ASSUME NEW c \in S PROVE \E i \in DOMAIN w : w[i] = c
        BY <1>1, <1>2
    <2>1. PICK i \in 1..n : s[i] = c
        BY <1>1 DEF Lists
    <2>2. i + 1 \in DOMAIN w /\ w[i + 1] = c
        BY <1>1, <1>2, <2>1
    <2> QED BY <2>2
<1> QED BY <1>2, <1>4, <1>5, <1>6 DEF Lists, w

LEMMA TailPutLists ==
    ASSUME NEW S, NEW s, Lists(s, S), NEW b \in Buf, b \notin S
    PROVE  Lists(s \o <<b>>, S \cup {b})
<1> DEFINE n == Len(s)
           w == s \o <<b>>
<1>1. s \in Seq(Buf) /\ n \in Nat /\ DOMAIN s = 1..n
    BY DEF Lists
<1>2. w \in Seq(Buf) /\ DOMAIN w = 1..(n + 1) /\ w[n + 1] = b /\ \A i \in 1..n : w[i] = s[i]
    BY <1>1
<1> HIDE DEF n, w
<1>3. \A i \in DOMAIN w : i \in 1..n \/ i = n + 1
    BY <1>1, <1>2
<1>4. \A i, j \in DOMAIN w : w[i] = w[j] => i = j
    BY <1>1, <1>2, <1>3 DEF Lists
<1>5. \A i \in DOMAIN w : w[i] \in S \cup {b}
    BY <1>1, <1>2, <1>3 DEF Lists
<1>6. \A c \in S \cup {b} : \E i \in DOMAIN w : w[i] = c
    <2> SUFFICES ASSUME NEW c \in S PROVE \E i \in DOMAIN w : w[i] = c
        BY <1>1, <1>2
    <2>1. PICK i \in 1..n : s[i] = c
        BY <1>1 DEF Lists
    <2>2. i \in DOMAIN w /\ w[i] = c
        BY <1>1, <1>2, <2>1
    <2> QED BY <2>2
<1> QED BY <1>2, <1>4, <1>5, <1>6 DEF Lists, w

-----------------------------------------------------------------------------
(***************************************************************************)
(* What a step can do to the free list.                                    *)
(***************************************************************************)
LEMMA FreeKept ==
    ASSUME FreeIffNotBusy, UNCHANGED freelist,
           \A c \in Buf : "BUSY" \in b_flags'[c] <=> "BUSY" \in b_flags[c]
    PROVE  FreeIffNotBusy'
BY DEF FreeIffNotBusy, OnFreelist

LEMMA FreeTaken ==
    ASSUME TypeInv, TypeInv', FreeIffNotBusy, NEW b \in Buf,
           "BUSY" \notin b_flags[b], "BUSY" \in b_flags'[b],
           \/ freelist' = Without(b)
           \/ freelist # <<>> /\ b = Head(freelist) /\ freelist' = Tail(freelist),
           \A c \in Buf \ {b} : b_flags'[c] = b_flags[c]
    PROVE  FreeIffNotBusy'
<1>1. Lists(freelist, NotBusy) /\ b \in NotBusy
    BY FreeLists DEF NotBusy
<1>2. Lists(freelist', NotBusy \ {b})
    BY <1>1, WithoutLists, TailLists
<1>3. NotBusy' = NotBusy \ {b}
    BY DEF NotBusy
<1>4. Lists(freelist, NotBusy)'
    BY <1>2, <1>3 DEF Lists
<1> QED BY <1>4, FreeLists, PTL

LEMMA FreePut ==
    ASSUME TypeInv, TypeInv', NEW b \in Buf, NEW fr, Lists(fr, NotBusy \ {b}),
           freelist' = <<b>> \o fr \/ freelist' = fr \o <<b>>,
           "BUSY" \notin b_flags'[b], \A c \in Buf \ {b} : b_flags'[c] = b_flags[c]
    PROVE  FreeIffNotBusy'
<1> DEFINE S == NotBusy \ {b}
<1>4. b \notin S
    OBVIOUS
<1> HIDE DEF S
<1>5. Lists(<<b>> \o fr, S \cup {b}) /\ Lists(fr \o <<b>>, S \cup {b})
    BY <1>4, HeadLists, TailPutLists DEF S
<1>1. Lists(freelist', (NotBusy \ {b}) \cup {b})
    BY <1>5 DEF S
<1>2. NotBusy' = (NotBusy \ {b}) \cup {b}
    BY DEF NotBusy
<1>3. Lists(freelist, NotBusy)'
    BY <1>1, <1>2 DEF Lists
<1> QED BY <1>3, FreeLists, PTL

-----------------------------------------------------------------------------
(***************************************************************************)
(* What a step can do to the owners.                                       *)
(***************************************************************************)
\* Processes other than p, and buffers other than b, are not touched.
OthersKept(p, b) ==
    /\ \A q \in Proc \ {p} : pc'[q] = pc[q] /\ bp'[q] = bp[q] /\ wflag'[q] = wflag[q]
    /\ \A c \in Buf \ {b} : /\ b_flags'[c] = b_flags[c] /\ b_length'[c] = b_length[c]
                            /\ c \in io' <=> c \in io

\* A process takes, keeps or gives up a buffer.
LEMMA OwnerStep ==
    ASSUME TypeInv, TypeInv', OwnOK, NEW p \in Proc, NEW b \in Buf, OthersKept(p, b),
           pc[p] \in Owning => bp[p] = b, pc'[p] \in Owning => bp'[p] = b,
           "BUSY" \notin b_flags[b] \/ pc[p] \in Owning,
           OwnerOK(p)', BufOK(b)',
           "BUSY" \in b_flags'[b] => AsyncIo(b)' \/ pc'[p] \in Owning,
           b_length'[b] > 0 => "MEM" \in b_flags'[b] \/ pc'[p] = "newmem"
    PROVE  OwnOK'
<1> USE DEF OthersKept
<1>1. \A q \in Proc \ {p} : pc[q] \in Owning => bp[q] # b
    BY DEF OwnOK, OwnerOK
<1>2. (\A q, r \in Proc : pc[q] \in Owning /\ pc[r] \in Owning /\ bp[q] = bp[r] => q = r)'
    BY <1>1 DEF OwnOK
<1>3. ASSUME NEW q \in Proc PROVE OwnerOK(q)'
    <2>1. CASE q = p
        BY <2>1
    <2>2. CASE q # p
        <3>1. OwnerOK(q) /\ (pc[q] \in Owning => bp[q] \in Buf \ {b})
            BY <1>1, <2>2 DEF OwnOK, TypeInv, LocalOK, Local
        <3> QED BY <2>2, <3>1 DEF OwnerOK
    <2> QED BY <2>1, <2>2
<1>4. ASSUME NEW c \in Buf PROVE BufOK(c)'
    <2>1. CASE c = b
        BY <2>1
    <2>2. CASE c # b
        BY <2>2 DEF OwnOK, BufOK
    <2> QED BY <2>1, <2>2
<1>5. ASSUME NEW c \in Buf PROVE Kept(c)'
    <2>1. CASE c = b
        BY <2>1 DEF Kept, Owns, Owning
    <2>2. CASE c # b
        <3>1. "BUSY" \in b_flags'[c] => AsyncIo(c)' \/ \E q \in Proc : Owns(q, c)'
            BY <2>2 DEF OwnOK, Kept, Owns, AsyncIo
        <3>2. b_length'[c] > 0 =>
                "MEM" \in b_flags'[c] \/ \E q \in Proc : pc'[q] = "newmem" /\ bp'[q] = c
            BY <2>2 DEF OwnOK, Kept, Owning
        <3> QED BY <3>1, <3>2 DEF Kept
    <2> QED BY <2>1, <2>2
<1> QED BY <1>2, <1>3, <1>4, <1>5 DEF OwnOK

\* A process that has no buffer does something that is of no consequence for
\* those who have one.
Relevant == {"BUSY", "MEM", "DMA", "ASYNC", "DONE", "DELWRI"}

LEMMA BystanderStep ==
    ASSUME TypeInv, TypeInv', OwnOK, NEW p \in Proc, pc[p] \notin Owning, pc'[p] \notin Owning,
           \A q \in Proc \ {p} : pc'[q] = pc[q] /\ bp'[q] = bp[q] /\ wflag'[q] = wflag[q],
           \A c \in Buf : b_flags'[c] \cap Relevant = b_flags[c] \cap Relevant,
           UNCHANGED <<b_length, io>>
    PROVE  OwnOK'
<1>1. \A c \in Buf : \A x \in Relevant : x \in b_flags'[c] <=> x \in b_flags[c]
    OBVIOUS
<1>2. (\A q, r \in Proc : pc[q] \in Owning /\ pc[r] \in Owning /\ bp[q] = bp[r] => q = r)'
    BY DEF OwnOK
<1>3. ASSUME NEW q \in Proc PROVE OwnerOK(q)'
    <2>1. CASE q = p
        BY <2>1 DEF OwnerOK
    <2>2. CASE q # p
        <3>1. OwnerOK(q) /\ (pc[q] \in Owning => bp[q] \in Buf)
            BY DEF OwnOK, TypeInv, LocalOK, Local
        <3> QED BY <1>1, <2>2, <3>1 DEF OwnerOK, Relevant
    <2> QED BY <2>1, <2>2
<1>4. ASSUME NEW c \in Buf PROVE BufOK(c)'
    BY <1>1 DEF OwnOK, BufOK, Relevant
<1>5. ASSUME NEW c \in Buf PROVE Kept(c)'
    <2>1. "BUSY" \in b_flags'[c] => AsyncIo(c)' \/ \E q \in Proc : Owns(q, c)'
        BY <1>1 DEF OwnOK, Kept, Owns, AsyncIo, Relevant
    <2>2. b_length'[c] > 0 =>
            "MEM" \in b_flags'[c] \/ \E q \in Proc : pc'[q] = "newmem" /\ bp'[q] = c
        BY <1>1 DEF OwnOK, Kept, Owning, Relevant
    <2> QED BY <2>1, <2>2 DEF Kept
<1> QED BY <1>2, <1>3, <1>4, <1>5 DEF OwnOK

\* A buffer changes under processes that stay where they are.
LEMMA BufferStep ==
    ASSUME TypeInv, TypeInv', OwnOK, NEW b \in Buf, UNCHANGED <<pc, bp, wflag>>,
           \A c \in Buf \ {b} : /\ b_flags'[c] = b_flags[c] /\ b_length'[c] = b_length[c]
                                /\ c \in io' <=> c \in io,
           \A q \in Proc : Owns(q, b) => OwnerOK(q)',
           BufOK(b)', "BUSY" \in b_flags'[b] => \E q \in Proc : Owns(q, b),
           b_length'[b] > 0 => "MEM" \in b_flags'[b] \/ \E q \in Proc : pc[q] = "newmem" /\ bp[q] = b
    PROVE  OwnOK'
<1>2. (\A q, r \in Proc : pc[q] \in Owning /\ pc[r] \in Owning /\ bp[q] = bp[r] => q = r)'
    BY DEF OwnOK
<1>3. ASSUME NEW q \in Proc PROVE OwnerOK(q)'
    <2>1. CASE Owns(q, b)
        BY <2>1
    <2>2. CASE ~Owns(q, b)
        <3>1. OwnerOK(q) /\ (pc[q] \in Owning => bp[q] \in Buf \ {b})
            BY <2>2 DEF OwnOK, TypeInv, LocalOK, Local, Owns
        <3> QED BY <3>1 DEF OwnerOK
    <2> QED BY <2>1, <2>2
<1>4. ASSUME NEW c \in Buf PROVE BufOK(c)'
    <2>1. CASE c = b
        BY <2>1
    <2>2. CASE c # b
        BY <2>2 DEF OwnOK, BufOK
    <2> QED BY <2>1, <2>2
<1>5. ASSUME NEW c \in Buf PROVE Kept(c)'
    <2>1. CASE c = b
        BY <2>1 DEF Kept, Owns
    <2>2. CASE c # b
        BY <2>2 DEF OwnOK, Kept, Owns, AsyncIo
    <2> QED BY <2>1, <2>2
<1> QED BY <1>2, <1>3, <1>4, <1>5 DEF OwnOK

-----------------------------------------------------------------------------
(***************************************************************************)
(* The steps that many actions share.                                      *)
(***************************************************************************)
\* brelse() leaves a buffer that is not busy, and has memory if it has a size.
LEMMA BrelseEffect ==
    ASSUME TypeInv, NEW b \in Buf, NEW fl \in SUBSET Flag, NEW fr, NEW f, NEW extra,
           Brelse(b, fl, fr, f, extra), "MEM" \in fl \/ "INVAL" \in fl
    PROVE  /\ "BUSY" \notin b_flags'[b] /\ "ASYNC" \notin b_flags'[b]
           /\ "DELWRI" \in b_flags'[b] => "MEM" \in b_flags'[b]
           /\ b_length'[b] > 0 => "MEM" \in b_flags'[b]
           /\ freelist' = <<b>> \o fr \/ freelist' = fr \o <<b>>
           /\ \A c \in Buf \ {b} : b_flags'[c] = b_flags[c] /\ b_length'[c] = b_length[c]
<1> USE DEF TypeInv, TypeOK, HeaderType
<1>1. freelist' = <<b>> \o fr \/ freelist' = fr \o <<b>>
    BY DEF Brelse
<1>2. \A c \in Buf \ {b} : b_flags'[c] = b_flags[c] /\ b_length'[c] = b_length[c]
    BY DEF Brelse
<1>3. "BUSY" \notin b_flags'[b] /\ "ASYNC" \notin b_flags'[b]
    BY DEF Brelse
<1>4. CASE fl \cap {"ERROR", "INVAL"} # {}
    <2>1. ~(b_length'[b] > 0) /\ "DELWRI" \notin b_flags'[b]
        BY <1>4 DEF Brelse
    <2> QED BY <1>1, <1>2, <1>3, <2>1
<1>5. CASE fl \cap {"ERROR", "INVAL"} = {}
    <2>1. "MEM" \in b_flags'[b]
        BY <1>5 DEF Brelse, Res
    <2> QED BY <1>1, <1>2, <1>3, <2>1
<1> QED BY <1>4, <1>5

\* The owner releases its buffer.
LEMMA ReleaseKeeps ==
    ASSUME TypeInv, TypeInv', OwnInv, NEW p \in Proc, pc[p] \in Owning \ {"newmem"},
           bp[p] \notin io, NEW fl \in SUBSET Flag, b_flags[bp[p]] \subseteq fl, NEW f,
           Brelse(bp[p], fl, freelist, f, {}), NEW l \in RetLabel \ {"hold"}, Return(p, l),
           UNCHANGED io
    PROVE  OwnInv'
<1> USE DEF TypeInv, TypeOK, HeaderType, ProcType
<1>8. PICK b \in Buf : b = bp[p]
    BY DEF LocalOK, Local
<1>1. "BUSY" \in b_flags[b] /\ "MEM" \in fl
    BY <1>8 DEF OwnInv, OwnOK, OwnerOK
<1>2. /\ "BUSY" \notin b_flags'[b] /\ "ASYNC" \notin b_flags'[b]
      /\ "DELWRI" \in b_flags'[b] => "MEM" \in b_flags'[b]
      /\ b_length'[b] > 0 => "MEM" \in b_flags'[b]
      /\ freelist' = <<b>> \o freelist \/ freelist' = freelist \o <<b>>
      /\ \A c \in Buf \ {b} : b_flags'[c] = b_flags[c] /\ b_length'[c] = b_length[c]
    BY <1>1, <1>8, BrelseEffect
<1>3. pc'[p] = l /\ l \notin Owning
    BY DEF Return, Goto, RetLabel, Owning
<1>4. OthersKept(p, b)
    BY <1>2 DEF OthersKept, Return, Goto
<1>5. OwnerOK(p)' /\ BufOK(b)'
    BY <1>2, <1>3, <1>8 DEF OwnerOK, BufOK
<1>6. OwnOK'
    <2> HIDE DEF TypeInv
    <2> QED BY <1>1, <1>2, <1>3, <1>4, <1>5, <1>8, OwnerStep DEF OwnInv
<1>7. FreeIffNotBusy'
    <2>1. Lists(freelist, NotBusy) /\ NotBusy \ {b} = NotBusy
        BY <1>1, FreeLists DEF OwnInv, NotBusy
    <2> HIDE DEF TypeInv
    <2> QED BY <1>1, <1>2, <2>1, FreePut
<1> QED BY <1>6, <1>7 DEF OwnInv

\* A free buffer is thrown away.
LEMMA TossKeeps ==
    ASSUME TypeInv, TypeInv', OwnInv, NEW p \in Proc, NEW b \in Buf, "BUSY" \notin b_flags[b],
           pc[p] \notin Owning, pc'[p] \notin Owning, NEW f,
           Brelse(b, b_flags[b] \cup {"BUSY", "INVAL"}, Without(b), f, {}),
           \A q \in Proc \ {p} : pc'[q] = pc[q] /\ bp'[q] = bp[q] /\ wflag'[q] = wflag[q],
           UNCHANGED io
    PROVE  OwnInv'
<1> DEFINE fl == b_flags[b] \cup {"BUSY", "INVAL"}
<1>1. fl \in SUBSET Flag /\ "INVAL" \in fl
    BY DEF TypeInv, TypeOK, HeaderType, Flag
<1>2. /\ "BUSY" \notin b_flags'[b] /\ "ASYNC" \notin b_flags'[b]
      /\ "DELWRI" \in b_flags'[b] => "MEM" \in b_flags'[b]
      /\ b_length'[b] > 0 => "MEM" \in b_flags'[b]
      /\ freelist' = <<b>> \o Without(b) \/ freelist' = Without(b) \o <<b>>
      /\ \A c \in Buf \ {b} : b_flags'[c] = b_flags[c] /\ b_length'[c] = b_length[c]
    BY <1>1, BrelseEffect
<1>3. OthersKept(p, b)
    BY <1>2 DEF OthersKept
<1>4. OwnerOK(p)' /\ BufOK(b)'
    BY <1>2 DEF OwnerOK, BufOK, OwnInv, OwnOK
<1>5. OwnOK'
    BY <1>2, <1>3, <1>4, OwnerStep DEF OwnInv
<1>6. FreeIffNotBusy'
    <2>1. Lists(freelist, NotBusy) /\ b \in NotBusy
        BY FreeLists DEF OwnInv, NotBusy
    <2>2. Lists(Without(b), NotBusy \ {b})
        BY <2>1, WithoutLists
    <2> QED BY <1>2, <2>2, FreePut
<1> QED BY <1>5, <1>6 DEF OwnInv

\* A free dirty buffer is taken to be written.
LEMMA WriteOutKeeps ==
    ASSUME TypeInv, TypeInv', OwnInv, NEW p \in Proc, NEW b \in Buf,
           "BUSY" \notin b_flags[b], "DELWRI" \in b_flags[b], pc[p] \notin Owning,
           NEW back, WriteOut(p, b, back)
    PROVE  OwnInv'
<1> USE DEF TypeInv, TypeOK, HeaderType, ProcType
<1>1. /\ b_flags' = [b_flags EXCEPT ![b] =
                        (b_flags[b] \cup {"BUSY", "ASYNC"}) \ {"READ", "DONE", "ERROR", "DELWRI"}]
      /\ wflag' = [wflag EXCEPT ![p] = (b_flags[b] \cup {"BUSY", "ASYNC"}) \cap {"ASYNC", "DELWRI"}]
      /\ bp' = [bp EXCEPT ![p] = b] /\ pc' = [pc EXCEPT ![p] = "dma"]
      /\ freelist' = Without(b)
    BY DEF WriteOut, Bwrite, Goto
<1>2. UNCHANGED <<b_length, io>>
    BY DEF WriteOut, headers, iovars
<1>3. /\ {"BUSY", "MEM", "ASYNC"} \subseteq b_flags'[b] /\ "DONE" \notin b_flags'[b]
      /\ "DELWRI" \notin b_flags'[b]
      /\ \A c \in Buf \ {b} : b_flags'[c] = b_flags[c]
    BY <1>1 DEF OwnInv, OwnOK, BufOK
<1>4. pc'[p] = "dma" /\ bp'[p] = b /\ "ASYNC" \in wflag'[p] /\ b \notin io'
    BY <1>1, <1>2 DEF OwnInv, OwnOK, BufOK
<1>5. OthersKept(p, b)
    BY <1>1, <1>2, <1>3 DEF OthersKept
<1>6. OwnerOK(p)' /\ BufOK(b)'
    BY <1>3, <1>4 DEF OwnerOK, BufOK
<1>7. OwnOK'
    <2> HIDE DEF TypeInv
    <2> QED BY <1>3, <1>4, <1>5, <1>6, OwnerStep DEF OwnInv, Owning
<1>8. FreeIffNotBusy'
    <2> HIDE DEF TypeInv
    <2> QED BY <1>1, <1>3, FreeTaken DEF OwnInv
<1> QED BY <1>7, <1>8 DEF OwnInv

\* A process that has no buffer moves, and no buffer changes hands.
LEMMA BystanderKeeps ==
    ASSUME TypeInv, TypeInv', OwnInv, NEW p \in Proc, pc[p] \notin Owning, pc'[p] \notin Owning,
           \A q \in Proc \ {p} : pc'[q] = pc[q] /\ bp'[q] = bp[q] /\ wflag'[q] = wflag[q],
           \A c \in Buf : b_flags'[c] \cap Relevant = b_flags[c] \cap Relevant,
           UNCHANGED <<b_length, io, freelist>>
    PROVE  OwnInv'
<1>1. OwnOK'
    BY BystanderStep DEF OwnInv
<1>2. \A c \in Buf : "BUSY" \in b_flags'[c] <=> "BUSY" \in b_flags[c]
    BY DEF Relevant
<1>3. FreeIffNotBusy'
    BY <1>2, FreeKept DEF OwnInv
<1> QED BY <1>1, <1>3 DEF OwnInv

\* The owner goes on with its buffer, which stays busy.
LEMMA OwnerKeeps ==
    ASSUME TypeInv, TypeInv', OwnInv, NEW p \in Proc, pc[p] \in Owning, pc'[p] \in Owning,
           bp'[p] = bp[p], OthersKept(p, bp[p]), OwnerOK(p)', BufOK(bp[p])',
           b_length'[bp[p]] > 0 => "MEM" \in b_flags'[bp[p]] \/ pc'[p] = "newmem",
           UNCHANGED freelist
    PROVE  OwnInv'
<1> DEFINE b == bp[p]
<1>1. b \in Buf /\ "BUSY" \in b_flags[b] /\ "BUSY" \in b_flags'[b]
    BY DEF OwnInv, OwnOK, OwnerOK, TypeInv, LocalOK, Local
<1>2. OwnOK'
    <2> HIDE DEF b
    <2> QED BY <1>1, OwnerStep DEF OwnInv, b
<1>3. FreeIffNotBusy'
    BY <1>1, FreeKept DEF OwnInv, OthersKept
<1> QED BY <1>2, <1>3 DEF OwnInv

-----------------------------------------------------------------------------
(***************************************************************************)
(* The actions.                                                            *)
(***************************************************************************)
LEMMA OwnInit == Init => OwnInv
<1> SUFFICES ASSUME Init PROVE OwnInv
    OBVIOUS
<1>1. FreeIffNotBusy
    BY DEF Init, FreeIffNotBusy
<1>2. OwnOK
    BY DEF Init, OwnOK, OwnerOK, BufOK, Kept, Owning
<1> QED BY <1>1, <1>2 DEF OwnInv

LEMMA FindKeeps ==
    ASSUME TypeInv, TypeInv', OwnInv, NEW p \in Proc, Find(p)
    PROVE  OwnInv'
<1>1. pc[p] \notin Owning /\ pc'[p] \notin Owning
    BY DEF TypeInv, TypeOK, ProcType, Owning, Find, Goto, Runs
<1>2. \A q \in Proc \ {p} : pc'[q] = pc[q] /\ bp'[q] = bp[q] /\ wflag'[q] = wflag[q]
    BY DEF TypeInv, TypeOK, ProcType, Find, Goto, Runs
<1>3. \A c \in Buf : b_flags'[c] \cap Relevant = b_flags[c] \cap Relevant
    BY DEF TypeInv, TypeOK, HeaderType, Relevant, Find
<1>4. UNCHANGED <<b_length, io, freelist>>
    BY DEF Find, headers, iovars
<1> QED BY <1>1, <1>2, <1>3, <1>4, BystanderKeeps

LEMMA CaptureBusyKeeps ==
    ASSUME TypeInv, TypeInv', OwnInv, NEW p \in Proc, CaptureBusy(p)
    PROVE  OwnInv'
<1>1. pc[p] \notin Owning /\ pc'[p] \notin Owning
    BY DEF TypeInv, TypeOK, ProcType, Owning, CaptureBusy, SleepOn, Runs
<1>2. \A q \in Proc \ {p} : pc'[q] = pc[q] /\ bp'[q] = bp[q] /\ wflag'[q] = wflag[q]
    BY DEF TypeInv, TypeOK, ProcType, CaptureBusy, SleepOn, Runs
<1>3. \A c \in Buf : b_flags'[c] \cap Relevant = b_flags[c] \cap Relevant
    BY DEF TypeInv, TypeOK, HeaderType, Relevant, CaptureBusy
<1>4. UNCHANGED <<b_length, io, freelist>>
    BY DEF CaptureBusy, headers, iovars
<1> QED BY <1>1, <1>2, <1>3, <1>4, BystanderKeeps

LEMMA NewBufEmptyKeeps ==
    ASSUME TypeInv, TypeInv', OwnInv, NEW p \in Proc, NewBufEmpty(p)
    PROVE  OwnInv'
<1>1. pc[p] \notin Owning /\ pc'[p] \notin Owning
    BY DEF TypeInv, TypeOK, ProcType, Owning, NewBufEmpty, SleepOn, Runs
<1>2. \A q \in Proc \ {p} : pc'[q] = pc[q] /\ bp'[q] = bp[q] /\ wflag'[q] = wflag[q]
    BY DEF TypeInv, TypeOK, ProcType, NewBufEmpty, SleepOn, Runs
<1>3. \A c \in Buf : b_flags'[c] \cap Relevant = b_flags[c] \cap Relevant
    BY DEF TypeInv, TypeOK, HeaderType, Relevant, NewBufEmpty
<1>4. UNCHANGED <<b_length, io, freelist>>
    BY DEF NewBufEmpty, headers, iovars
<1> QED BY <1>1, <1>2, <1>3, <1>4, BystanderKeeps

LEMMA BwritePostKeeps ==
    ASSUME TypeInv, TypeInv', OwnInv, NEW p \in Proc, BwritePost(p)
    PROVE  OwnInv'
<1>1. pc[p] = "bwpost" /\ ret[p] \in RetLabel \ {"hold"} /\ bp[p] \in Buf
    BY DEF BwritePost, Runs, TypeInv, LocalOK, Local
<1>2. pc[p] \notin Owning /\ pc'[p] \notin Owning
    BY <1>1 DEF TypeInv, TypeOK, ProcType, Owning, RetLabel, BwritePost, Return, Goto
<1>3. \A q \in Proc \ {p} : pc'[q] = pc[q] /\ bp'[q] = bp[q] /\ wflag'[q] = wflag[q]
    BY DEF TypeInv, TypeOK, ProcType, BwritePost, Return, Goto
<1>4. \A c \in Buf : b_flags'[c] \cap Relevant = b_flags[c] \cap Relevant
    BY <1>1 DEF TypeInv, TypeOK, HeaderType, Relevant, BwritePost
<1>5. UNCHANGED <<b_length, io, freelist>>
    BY DEF BwritePost, headers
<1> QED BY <1>2, <1>3, <1>4, <1>5, BystanderKeeps

LEMMA LoopDoneKeeps ==
    ASSUME TypeInv, TypeInv', OwnInv, NEW p \in Proc, pc[p] \notin Owning,
           NEW l \in {"user", "bdwait", "binval"}, LoopDone(p, l)
    PROVE  OwnInv'
<1>1. pc'[p] \notin Owning
    BY DEF TypeInv, TypeOK, ProcType, Owning, LoopDone, Return, Goto
<1>2. \A q \in Proc \ {p} : pc'[q] = pc[q] /\ bp'[q] = bp[q] /\ wflag'[q] = wflag[q]
    BY DEF TypeInv, TypeOK, ProcType, LoopDone, Return, Goto
<1>3. UNCHANGED <<b_flags, b_length, io, freelist>>
    BY DEF LoopDone, headers, iovars
<1> QED BY <1>1, <1>2, <1>3, BystanderKeeps

LEMMA binvalKeeps ==
    ASSUME TypeInv, TypeInv', OwnInv, NEW p \in Proc, binval(p)
    PROVE  OwnInv'
<1>1. pc[p] \notin Owning /\ pc'[p] \notin Owning
    BY DEF TypeInv, TypeOK, ProcType, Owning, binval, Return, Goto, Runs
<1>2. \A q \in Proc \ {p} : pc'[q] = pc[q] /\ bp'[q] = bp[q] /\ wflag'[q] = wflag[q]
    BY DEF TypeInv, TypeOK, ProcType, binval, Return, Goto, Runs
<1>3. \A c \in Buf : b_flags'[c] \cap Relevant = b_flags[c] \cap Relevant
    BY DEF TypeInv, TypeOK, HeaderType, Relevant, binval
<1>4. UNCHANGED <<b_length, io, freelist>>
    BY DEF binval, headers, iovars
<1> QED BY <1>1, <1>2, <1>3, <1>4, BystanderKeeps

LEMMA EnterKeeps ==
    ASSUME TypeInv, TypeInv', OwnInv, NEW p \in Proc, Enter(p)
    PROVE  OwnInv'
<1>1. PICK c \in Call : Goto(p, Entry(c.op))
    BY DEF Enter
<1>2. Entry(c.op) \in {"find", "newbuf", "toss", "flush", "sync", "bdwait", "invalfree"}
    <2>1. c.op \in Op
        BY CallAssumption
    <2> QED BY <2>1 DEF Entry, Op
<1>3. pc[p] \notin Owning /\ pc'[p] \notin Owning
    BY <1>1, <1>2 DEF TypeInv, TypeOK, ProcType, Owning, Goto, Enter, Runs
<1>4. \A q \in Proc \ {p} : pc'[q] = pc[q] /\ bp'[q] = bp[q] /\ wflag'[q] = wflag[q]
    BY DEF TypeInv, TypeOK, ProcType, Enter, Goto
<1>5. UNCHANGED <<b_flags, b_length, io, freelist>>
    BY DEF Enter, headers, iovars
<1> QED BY <1>3, <1>4, <1>5, BystanderKeeps

LEMMA CaptureMisshapenKeeps ==
    ASSUME TypeInv, TypeInv', OwnInv, NEW p \in Proc, CaptureMisshapen(p)
    PROVE  OwnInv'
<1>1. PICK b \in Buf : b = bp[p]
    BY DEF CaptureMisshapen, Runs, TypeInv, LocalOK, Local
<1>2. "BUSY" \notin b_flags[b] /\ pc[p] \notin Owning
    BY <1>1 DEF CaptureMisshapen, Runs, Owning
<1>3. CASE "DELWRI" \in b_flags[b] /\ WriteOut(p, b, "find")
    BY <1>2, <1>3, WriteOutKeeps
<1>4. CASE /\ Brelse(b, b_flags[b] \cup {"BUSY", "INVAL"}, Without(b), fresh, {})
           /\ bp' = [bp EXCEPT ![p] = NoBuf] /\ Goto(p, "find")
           /\ UNCHANGED <<b_blkno, hashed, iovars, call, ret, wflag, slept, disk, raced, tossed>>
    <2>1. pc'[p] \notin Owning
        BY <1>4 DEF TypeInv, TypeOK, ProcType, Owning, Goto
    <2>2. \A q \in Proc \ {p} : pc'[q] = pc[q] /\ bp'[q] = bp[q] /\ wflag'[q] = wflag[q]
        BY <1>4 DEF TypeInv, TypeOK, ProcType, Goto
    <2>3. UNCHANGED io
        BY <1>4 DEF iovars
    <2> QED BY <1>2, <1>4, <2>1, <2>2, <2>3, TossKeeps
<1> QED BY <1>1, <1>3, <1>4 DEF CaptureMisshapen

\* A buffer that is free and has a size has memory.
LEMMA SizedFree ==
    ASSUME TypeInv, OwnInv, NEW b \in Buf, "BUSY" \notin b_flags[b], b_length[b] > 0
    PROVE  "MEM" \in b_flags[b]
BY DEF OwnInv, OwnOK, Kept, OwnerOK, Owning

\* Nobody asks for a block of no length.
LEMMA CallSized ==
    ASSUME TypeInv, NEW p \in Proc
    PROVE  call[p].len \in Nat /\ call[p].len > 0
<1>1. call[p] \in Call \cup {NoCall}
    BY DEF TypeInv, TypeOK, ProcType
<1>2. call[p].len \in Nat \ {0}
    BY <1>1, CallAssumption, NoCallType
<1> QED BY <1>2

LEMMA CaptureHitKeeps ==
    ASSUME TypeInv, TypeInv', OwnInv, NEW p \in Proc, CaptureHit(p)
    PROVE  OwnInv'
<1>1. PICK b \in Buf : b = bp[p]
    BY DEF CaptureHit, Runs, TypeInv, LocalOK, Local
<1>2. /\ "BUSY" \notin b_flags[b] /\ pc[p] \notin Owning /\ b_length[b] > 0
      /\ "ASYNC" \notin wflag[p]
    BY <1>1, CallSized DEF CaptureHit, Misshapen, Runs, Owning, TypeInv, LocalOK, Local
<1>3. "MEM" \in b_flags[b] /\ "ASYNC" \notin b_flags[b] /\ b \notin io
    BY <1>2, SizedFree DEF OwnInv, OwnOK, BufOK
<1>4. /\ b_flags' = [b_flags EXCEPT ![b] = b_flags[b] \cup {"BUSY"}]
      /\ freelist' = Without(b) /\ UNCHANGED <<bp, wflag, io, b_length>>
    BY <1>1 DEF CaptureHit, locals, headers, iovars, TypeInv, TypeOK, HeaderType
<1>5. PICK l \in {"got", "hitkmap"} : pc' = [pc EXCEPT ![p] = l]
    BY DEF CaptureHit, Goto
<1>6. pc'[p] = l /\ OthersKept(p, b)
    BY <1>4, <1>5 DEF OthersKept, TypeInv, TypeOK, ProcType, HeaderType
<1>7. b_flags'[b] = b_flags[b] \cup {"BUSY"}
    BY <1>4 DEF TypeInv, TypeOK, HeaderType
<1>8. OwnerOK(p)' /\ BufOK(b)'
    BY <1>1, <1>2, <1>3, <1>4, <1>6, <1>7 DEF OwnerOK, BufOK
<1>9. OwnOK'
    BY <1>1, <1>2, <1>3, <1>4, <1>6, <1>7, <1>8, OwnerStep DEF OwnInv, Owning
<1>10. FreeIffNotBusy'
    BY <1>2, <1>4, <1>6, <1>7, FreeTaken DEF OwnInv, OthersKept
<1> QED BY <1>9, <1>10 DEF OwnInv

LEMMA NewBufDirtyKeeps ==
    ASSUME TypeInv, TypeInv', OwnInv, NEW p \in Proc, NewBufDirty(p)
    PROVE  OwnInv'
<1>1. PICK b \in Buf : b = Head(freelist) /\ "BUSY" \notin b_flags[b]
    BY DEF NewBufDirty, OwnInv, FreeIffNotBusy, OnFreelist, TypeInv, TypeOK, HeaderType
<1>2. "DELWRI" \in b_flags[b] /\ WriteOut(p, b, "newbuf") /\ pc[p] \notin Owning
    BY <1>1 DEF NewBufDirty, Runs, Owning
<1> QED BY <1>1, <1>2, WriteOutKeeps

LEMMA NewBufCleanKeeps ==
    ASSUME TypeInv, TypeInv', OwnInv, NEW p \in Proc, NewBufClean(p)
    PROVE  OwnInv'
<1>1. PICK b \in Buf : b = Head(freelist) /\ "BUSY" \notin b_flags[b]
    BY DEF NewBufClean, OwnInv, FreeIffNotBusy, OnFreelist, TypeInv, TypeOK, HeaderType
<1> DEFINE same == b_length[b] = call[p].len
<1>2. /\ freelist # <<>> /\ freelist' = Tail(freelist) /\ pc[p] = "newbuf"
      /\ bp' = [bp EXCEPT ![p] = b] /\ UNCHANGED <<wflag, io>>
      /\ b_flags' = [b_flags EXCEPT ![b] = NewFlags(b, same)]
      /\ b_length' = [b_length EXCEPT ![b] = call[p].len]
    BY <1>1 DEF NewBufClean, Runs, iovars
<1>3. PICK l \in {"newmem", "insert", "newkmap"} :
        pc' = [pc EXCEPT ![p] = l] /\ (l = "newmem" <=> ~same)
    BY <1>1 DEF NewBufClean, Goto
<1>4. same => "MEM" \in b_flags[b]
    BY <1>1, CallSized, SizedFree
<1>5. /\ b \notin io /\ "ASYNC" \notin wflag[p] /\ pc[p] \notin Owning
    BY <1>1, <1>2 DEF OwnInv, OwnOK, BufOK, TypeInv, LocalOK, Local, Owning
<1>6. /\ b_flags'[b] = NewFlags(b, same) /\ b_length'[b] = call[p].len
      /\ pc'[p] = l /\ bp'[p] = b
    BY <1>2, <1>3 DEF TypeInv, TypeOK, ProcType, HeaderType
<1>7. OthersKept(p, b)
    BY <1>2, <1>3 DEF OthersKept, TypeInv, TypeOK, ProcType, HeaderType
<1>8. /\ "BUSY" \in NewFlags(b, same) /\ (l # "newmem" => "MEM" \in NewFlags(b, same))
      /\ NewFlags(b, same) \cap {"ASYNC", "DONE", "DELWRI"} = {}
    BY <1>3, <1>4 DEF NewFlags, Res
<1> HIDE DEF same
<1>9. OwnerOK(p)' /\ BufOK(b)'
    BY <1>2, <1>5, <1>6, <1>8 DEF OwnerOK, BufOK
<1>10. OwnOK'
    BY <1>1, <1>5, <1>6, <1>7, <1>8, <1>9, OwnerStep DEF OwnInv, Owning
<1>11. FreeIffNotBusy'
    BY <1>1, <1>2, <1>6, <1>7, <1>8, FreeTaken DEF OwnInv, OthersKept
<1> QED BY <1>10, <1>11 DEF OwnInv

\* The owner of a buffer, and what it knows of it.
LEMMA OwnerFacts ==
    ASSUME TypeInv, OwnInv, NEW p \in Proc, pc[p] \in Owning
    PROVE  bp[p] \in Buf /\ OwnerOK(p) /\ BufOK(bp[p])
BY DEF OwnInv, OwnOK, TypeInv, LocalOK, Local

LEMMA SpaceGrantedKeeps ==
    ASSUME TypeInv, TypeInv', OwnInv, NEW p \in Proc, NEW l \in SpaceLabel, SpaceGranted(p, l)
    PROVE  OwnInv'
<1>1. /\ Space(l) \in Res /\ l \in Owning /\ AfterSpace(l) \in Owning /\ pc[p] = l
      /\ (l = "newmem" => Space(l) = "MEM")
    BY SpaceLabels DEF SpaceGranted, SpaceNeeded, Runs, Space
<1>2. AfterSpace(l) # "newmem" /\ (AfterSpace(l) = "dma" => l = "dma") /\ l # "iowait"
    BY DEF AfterSpace, SpaceLabel
<1>3. bp[p] \in Buf /\ OwnerOK(p) /\ BufOK(bp[p])
    BY <1>1, OwnerFacts
<1>4. /\ b_flags' = [b_flags EXCEPT ![bp[p]] = @ \cup {Space(l)}]
      /\ pc' = [pc EXCEPT ![p] = AfterSpace(l)]
      /\ UNCHANGED <<bp, wflag, io, b_length, freelist>>
    BY DEF SpaceGranted, Goto, headers, iovars, locals
<1>5. b_flags'[bp[p]] = b_flags[bp[p]] \cup {Space(l)} /\ pc'[p] = AfterSpace(l)
    BY <1>3, <1>4 DEF TypeInv, TypeOK, ProcType, HeaderType
<1>6. OthersKept(p, bp[p])
    BY <1>4 DEF OthersKept, TypeInv, TypeOK, ProcType, HeaderType
<1>7. "MEM" \in b_flags'[bp[p]]
    BY <1>1, <1>3, <1>5 DEF OwnerOK
<1>8. OwnerOK(p)'
    BY <1>1, <1>2, <1>3, <1>4, <1>5, <1>7 DEF OwnerOK, Res
<1>9. BufOK(bp[p])'
    BY <1>1, <1>2, <1>3, <1>4, <1>5, <1>7 DEF BufOK, OwnerOK, Res
<1> QED BY <1>1, <1>4, <1>5, <1>6, <1>7, <1>8, <1>9, OwnerKeeps

LEMMA SpaceSleepKeeps ==
    ASSUME TypeInv, TypeInv', OwnInv, NEW p \in Proc, NEW l \in SpaceLabel, SpaceSleep(p, l)
    PROVE  OwnInv'
<1>1. pc[p] = l /\ UNCHANGED <<b_flags, bp, wflag, io, b_length, freelist>>
    BY DEF SpaceSleep, SpaceNeeded, Runs, headers, iovars
<1>2. pc' = pc
    BY <1>1 DEF SpaceSleep, SleepOn, TypeInv, TypeOK, ProcType
<1> QED BY <1>1, <1>2 DEF OwnInv, OwnOK, OwnerOK, BufOK, Kept, Owns, AsyncIo, FreeIffNotBusy,
       OnFreelist

LEMMA SpaceUncachedKeeps ==
    ASSUME TypeInv, TypeInv', OwnInv, NEW p \in Proc, NEW l \in SpaceLabel, SpaceUncached(p, l)
    PROVE  OwnInv'
<1> DEFINE r == Space(l)
<1>1. pc[p] = l /\ r \in Res /\ UNCHANGED <<bp, wflag, io, freelist>>
    BY SpaceLabels DEF SpaceUncached, SpaceNeeded, Runs, locals, iovars
<1>2. pc' = pc
    BY <1>1 DEF SpaceUncached, Goto, TypeInv, TypeOK, ProcType
<1>3. PICK b \in Strippable(r) : Strip(b, r)
    <2>1. Strippable(r) \subseteq OnFreelist /\ Strippable(r) # {}
        BY DEF SpaceUncached, Strippable
    <2>2. FirstOf(Strippable(r)) \in Strippable(r)
        BY <2>1, FirstOfIn DEF TypeInv, TypeOK, HeaderType
    <2> QED BY <2>2 DEF SpaceUncached
<1> HIDE DEF r
<1>4. /\ b \in Buf /\ "BUSY" \notin b_flags[b]
      /\ (r = "MEM" => "DELWRI" \notin b_flags[b])
    BY <1>3 DEF Strippable, OnFreelist, TypeInv, TypeOK, HeaderType
<1>5. /\ b_flags'[b] = (b_flags[b] \ Gone(r)) \cup IF r = "MEM" THEN {"INVAL"} ELSE {}
      /\ b_length'[b] = IF r = "MEM" THEN 0 ELSE b_length[b]
      /\ \A c \in Buf \ {b} : b_flags'[c] = b_flags[c] /\ b_length'[c] = b_length[c]
    BY <1>3, <1>4 DEF Strip, TypeInv, TypeOK, HeaderType
<1>6. b \notin io /\ "ASYNC" \notin b_flags[b] /\ ("DELWRI" \in b_flags[b] => "MEM" \in b_flags[b])
    BY <1>4 DEF OwnInv, OwnOK, BufOK
<1>7. "BUSY" \notin b_flags'[b] /\ "ASYNC" \notin b_flags'[b]
    BY <1>4, <1>5, <1>6
<1>8. "DELWRI" \in b_flags'[b] => "MEM" \in b_flags'[b]
    BY <1>1, <1>4, <1>5, <1>6 DEF Gone, Res
<1>9. b_length'[b] > 0 => "MEM" \in b_flags'[b]
    <2>1. CASE r = "MEM"
        BY <1>5, <2>1
    <2>2. CASE r # "MEM"
        BY <1>4, <1>5, <2>2, SizedFree DEF Gone
    <2> QED BY <2>1, <2>2
<1>10. \A q \in Proc : ~Owns(q, b)
    BY <1>4 DEF OwnInv, OwnOK, OwnerOK, Owns
<1>11. BufOK(b)'
    BY <1>1, <1>6, <1>7, <1>8 DEF BufOK
<1>12. OwnOK'
    BY <1>1, <1>2, <1>4, <1>5, <1>7, <1>9, <1>10, <1>11, BufferStep DEF OwnInv
<1>13. FreeIffNotBusy'
    BY <1>1, <1>4, <1>5, <1>7, FreeKept DEF OwnInv
<1> QED BY <1>12, <1>13 DEF OwnInv

LEMMA PagesSleepKeeps ==
    ASSUME TypeInv, TypeInv', OwnInv, NEW p \in Proc, PagesSleep(p)
    PROVE  OwnInv'
<1>1. pc[p] = "newpages" /\ UNCHANGED <<b_flags, bp, wflag, io, b_length, freelist>>
    BY DEF PagesSleep, Runs, headers, iovars
<1>2. pc' = pc
    BY <1>1 DEF PagesSleep, SleepOn, TypeInv, TypeOK, ProcType
<1> QED BY <1>1, <1>2 DEF OwnInv, OwnOK, OwnerOK, BufOK, Kept, Owns, AsyncIo, FreeIffNotBusy,
       OnFreelist

LEMMA PagesThereKeeps ==
    ASSUME TypeInv, TypeInv', OwnInv, NEW p \in Proc, PagesThere(p)
    PROVE  OwnInv'
<1>1. pc[p] = "newpages" /\ UNCHANGED <<b_flags, bp, wflag, io, b_length, freelist>>
    BY DEF PagesThere, Runs, locals, iovars, headers
<1>2. bp[p] \in Buf /\ OwnerOK(p) /\ BufOK(bp[p])
    BY <1>1, OwnerFacts DEF Owning
<1>3. pc'[p] = "newkmap" /\ OthersKept(p, bp[p])
    BY <1>1 DEF PagesThere, Goto, OthersKept, TypeInv, TypeOK, ProcType
<1>4. OwnerOK(p)' /\ BufOK(bp[p])' /\ "MEM" \in b_flags'[bp[p]]
    BY <1>1, <1>2, <1>3 DEF OwnerOK, BufOK, Owning
<1> QED BY <1>1, <1>3, <1>4, OwnerKeeps DEF Owning

LEMMA InsertBlockKeeps ==
    ASSUME TypeInv, TypeInv', OwnInv, NEW p \in Proc, InsertBlock(p)
    PROVE  OwnInv'
<1>1. pc[p] = "insert" /\ UNCHANGED <<b_flags, bp, wflag, io, b_length, freelist>>
    BY DEF InsertBlock, Runs, locals, iovars
<1>2. bp[p] \in Buf /\ OwnerOK(p) /\ BufOK(bp[p])
    BY <1>1, OwnerFacts DEF Owning
<1>3. pc'[p] = "got" /\ OthersKept(p, bp[p])
    BY <1>1 DEF InsertBlock, Goto, OthersKept, TypeInv, TypeOK, ProcType
<1>4. OwnerOK(p)' /\ BufOK(bp[p])' /\ "MEM" \in b_flags'[bp[p]]
    BY <1>1, <1>2, <1>3 DEF OwnerOK, BufOK, Owning
<1> QED BY <1>1, <1>3, <1>4, OwnerKeeps DEF Owning

LEMMA InsertEmptyKeeps ==
    ASSUME TypeInv, TypeInv', OwnInv, NEW p \in Proc, InsertEmpty(p)
    PROVE  OwnInv'
<1>1. pc[p] = "insert" /\ UNCHANGED <<bp, wflag, io, b_length, freelist>>
    BY DEF InsertEmpty, Runs, locals, iovars
<1>2. bp[p] \in Buf /\ OwnerOK(p) /\ BufOK(bp[p]) /\ "ASYNC" \notin wflag[p]
    BY <1>1, OwnerFacts DEF Owning, TypeInv, LocalOK, Local
<1>3. b_flags' = [b_flags EXCEPT ![bp[p]] = {"BUSY", "AGE", "INVAL"} \cup (@ \cap {"MEM", "KMAP"})]
    BY DEF InsertEmpty
<1>4. pc'[p] \in {"hold", "edma"} /\ OthersKept(p, bp[p])
    BY <1>1, <1>3 DEF InsertEmpty, Goto, OthersKept, TypeInv, TypeOK, ProcType, HeaderType
<1>5. b_flags'[bp[p]] = {"BUSY", "AGE", "INVAL"} \cup (b_flags[bp[p]] \cap {"MEM", "KMAP"})
    BY <1>2, <1>3 DEF TypeInv, TypeOK, HeaderType
<1>6. bp[p] \notin io /\ "MEM" \in b_flags[bp[p]]
    BY <1>1, <1>2 DEF OwnerOK, Owning
<1>7. OwnerOK(p)' /\ BufOK(bp[p])' /\ "MEM" \in b_flags'[bp[p]]
    BY <1>1, <1>2, <1>4, <1>5, <1>6 DEF OwnerOK, BufOK
<1> QED BY <1>1, <1>4, <1>7, OwnerKeeps DEF Owning

LEMMA GotBlockKeeps ==
    ASSUME TypeInv, TypeInv', OwnInv, NEW p \in Proc, GotBlock(p)
    PROVE  OwnInv'
<1> DEFINE ready == call[p].op = "getblk" \/ "DONE" \in b_flags[bp[p]]
<1>1. pc[p] = "got" /\ UNCHANGED <<bp, wflag, io, b_length, freelist>>
    BY DEF GotBlock, Runs, headers, iovars
<1>2. bp[p] \in Buf /\ OwnerOK(p) /\ BufOK(bp[p])
    BY <1>1, OwnerFacts DEF Owning
<1>3. /\ b_flags' = [b_flags EXCEPT ![bp[p]] = IF ready THEN @ ELSE @ \cup {"READ"}]
      /\ pc' = [pc EXCEPT ![p] = IF ready THEN "hold" ELSE "dma"]
    BY DEF GotBlock, Goto
<1>4. OthersKept(p, bp[p])
    BY <1>1, <1>3 DEF OthersKept, TypeInv, TypeOK, ProcType, HeaderType
<1>5. /\ b_flags'[bp[p]] = IF ready THEN b_flags[bp[p]] ELSE b_flags[bp[p]] \cup {"READ"}
      /\ pc'[p] = IF ready THEN "hold" ELSE "dma"
    BY <1>2, <1>3 DEF TypeInv, TypeOK, HeaderType, ProcType
<1>6. bp[p] \notin io /\ "MEM" \in b_flags[bp[p]]
    BY <1>1, <1>2 DEF OwnerOK, Owning
<1>7. OwnerOK(p)' /\ BufOK(bp[p])' /\ "MEM" \in b_flags'[bp[p]]
    BY <1>1, <1>2, <1>5, <1>6 DEF OwnerOK, BufOK, Owning
<1> QED BY <1>1, <1>4, <1>5, <1>7, OwnerKeeps DEF Owning

\* The driver gets the buffer; of an asynchronous write it is then the owner.
LEMMA StrategyKeeps ==
    ASSUME TypeInv, TypeInv', OwnInv, NEW p \in Proc, Strategy(p)
    PROVE  OwnInv'
<1>1. /\ pc[p] = "dma" /\ "DMA" \in b_flags[bp[p]] /\ io' = io \cup {bp[p]}
      /\ UNCHANGED <<b_flags, bp, wflag, b_length, freelist>>
    BY DEF Strategy, Runs, headers, locals
<1>2. PICK b \in Buf : b = bp[p] /\ OwnerOK(p) /\ BufOK(b)
    BY <1>1, OwnerFacts DEF Owning
<1>3. pc'[p] = (IF "ASYNC" \in wflag[p] THEN "bwpost" ELSE "iowait") /\ OthersKept(p, b)
    BY <1>1, <1>2 DEF Strategy, Goto, OthersKept, TypeInv, TypeOK, ProcType
<1>4. /\ {"BUSY", "MEM", "DMA"} \subseteq b_flags[b] /\ "DONE" \notin b_flags[b]
      /\ ("ASYNC" \in b_flags[b] <=> "ASYNC" \in wflag[p])
    BY <1>1, <1>2 DEF OwnerOK, Owning
<1>5. OwnerOK(p)'
    BY <1>1, <1>2, <1>3, <1>4 DEF OwnerOK, Owning
<1>6. BufOK(b)' /\ (AsyncIo(b)' \/ pc'[p] \in Owning)
    BY <1>1, <1>2, <1>3, <1>4 DEF BufOK, AsyncIo, Owning
<1>7. OwnOK'
    BY <1>1, <1>2, <1>3, <1>4, <1>5, <1>6, OwnerStep DEF OwnInv, Owning
<1>8. FreeIffNotBusy'
    BY <1>1, FreeKept DEF OwnInv
<1> QED BY <1>7, <1>8 DEF OwnInv

LEMMA IowaitSleepKeeps ==
    ASSUME TypeInv, TypeInv', OwnInv, NEW p \in Proc, IowaitSleep(p)
    PROVE  OwnInv'
<1>1. pc[p] = "iowait" /\ UNCHANGED <<b_flags, bp, wflag, io, b_length, freelist>>
    BY DEF IowaitSleep, Runs, headers, iovars
<1>2. pc' = pc
    BY <1>1 DEF IowaitSleep, SleepOn, TypeInv, TypeOK, ProcType
<1> QED BY <1>1, <1>2 DEF OwnInv, OwnOK, OwnerOK, BufOK, Kept, Owns, AsyncIo, FreeIffNotBusy,
       OnFreelist

\* At the end of iowait() the driver no longer has the buffer.
LEMMA IowaitOver ==
    ASSUME TypeInv, OwnInv, NEW p \in Proc, pc[p] = "iowait", "DONE" \in b_flags[bp[p]]
    PROVE  bp[p] \in Buf /\ bp[p] \notin io /\ "MEM" \in b_flags[bp[p]] /\ OwnerOK(p)
<1>1. bp[p] \in Buf /\ OwnerOK(p) /\ BufOK(bp[p])
    BY OwnerFacts DEF Owning
<1> QED BY <1>1 DEF OwnerOK, BufOK, Owning

LEMMA IowaitReadKeeps ==
    ASSUME TypeInv, TypeInv', OwnInv, NEW p \in Proc, IowaitRead(p)
    PROVE  OwnInv'
<1>1. /\ pc[p] = "iowait" /\ "DONE" \in b_flags[bp[p]]
      /\ UNCHANGED <<b_flags, bp, wflag, io, b_length, freelist>>
    BY DEF IowaitRead, Runs, headers, iovars
<1>2. bp[p] \in Buf /\ bp[p] \notin io /\ "MEM" \in b_flags[bp[p]] /\ OwnerOK(p)
    BY <1>1, IowaitOver
<1>3. pc'[p] = "hold" /\ OthersKept(p, bp[p])
    BY <1>1 DEF IowaitRead, Goto, OthersKept, TypeInv, TypeOK, ProcType
<1>4. OwnerOK(p)' /\ BufOK(bp[p])' /\ "MEM" \in b_flags'[bp[p]]
    BY <1>1, <1>2, <1>3 DEF OwnerOK, BufOK, Owning
<1> QED BY <1>1, <1>3, <1>4, OwnerKeeps DEF Owning

LEMMA IowaitWrittenKeeps ==
    ASSUME TypeInv, TypeInv', OwnInv, NEW p \in Proc, IowaitWritten(p)
    PROVE  OwnInv'
<1>1. /\ pc[p] = "iowait" /\ "DONE" \in b_flags[bp[p]] /\ ret[p] \in RetLabel \ {"hold"}
      /\ Brelse(bp[p], b_flags[bp[p]], freelist, fresh, {}) /\ Return(p, ret[p])
      /\ UNCHANGED io
    BY DEF IowaitWritten, Runs, iovars, TypeInv, LocalOK, Local
<1>2. bp[p] \in Buf /\ bp[p] \notin io
    BY <1>1, IowaitOver
<1>3. b_flags[bp[p]] \in SUBSET Flag /\ pc[p] \in Owning \ {"newmem"}
    BY <1>1, <1>2 DEF TypeInv, TypeOK, HeaderType, Owning
<1> QED BY <1>1, <1>2, <1>3, ReleaseKeeps

LEMMA ReleaseActionKeeps ==
    ASSUME TypeInv, TypeInv', OwnInv, NEW p \in Proc, Release(p)
    PROVE  OwnInv'
<1>1. /\ pc[p] = "hold" /\ Brelse(bp[p], b_flags[bp[p]], freelist, fresh, {})
      /\ Return(p, "user") /\ UNCHANGED io
    BY DEF Release, Runs, iovars
<1>2. bp[p] \in Buf /\ OwnerOK(p)
    BY <1>1, OwnerFacts DEF Owning
<1>3. /\ b_flags[bp[p]] \in SUBSET Flag /\ pc[p] \in Owning \ {"newmem"} /\ bp[p] \notin io
      /\ "user" \in RetLabel \ {"hold"}
    BY <1>1, <1>2 DEF TypeInv, TypeOK, HeaderType, Owning, OwnerOK, RetLabel
<1> QED BY <1>1, <1>2, <1>3, ReleaseKeeps

LEMMA bdwriteKeeps ==
    ASSUME TypeInv, TypeInv', OwnInv, NEW p \in Proc, bdwrite(p)
    PROVE  OwnInv'
<1> DEFINE fl == b_flags[bp[p]] \cup {"DELWRI", "DONE"}
<1>1. /\ pc[p] = "hold" /\ Brelse(bp[p], fl, freelist, Filled(bp[p]), {})
      /\ Return(p, "user") /\ UNCHANGED io
    BY DEF bdwrite, Writable, Runs, iovars
<1>2. bp[p] \in Buf /\ OwnerOK(p)
    BY <1>1, OwnerFacts DEF Owning
<1>3. /\ fl \in SUBSET Flag /\ pc[p] \in Owning \ {"newmem"} /\ bp[p] \notin io
      /\ "user" \in RetLabel \ {"hold"} /\ b_flags[bp[p]] \subseteq fl
    BY <1>1, <1>2 DEF TypeInv, TypeOK, HeaderType, Owning, OwnerOK, RetLabel, Flag
<1> HIDE DEF fl
<1> QED BY <1>1, <1>2, <1>3, ReleaseKeeps

LEMMA WriteNowKeeps ==
    ASSUME TypeInv, TypeInv', OwnInv, NEW p \in Proc, NEW mode \in SUBSET {"ASYNC"},
           WriteNow(p, mode)
    PROVE  OwnInv'
<1>1. /\ pc[p] = "hold" /\ UNCHANGED <<io, b_length, freelist>>
      /\ b_flags' = [b_flags EXCEPT ![bp[p]] =
                        (b_flags[bp[p]] \cup mode) \ {"READ", "DONE", "ERROR", "DELWRI"}]
      /\ wflag' = [wflag EXCEPT ![p] = (b_flags[bp[p]] \cup mode) \cap {"ASYNC", "DELWRI"}]
      /\ bp' = [bp EXCEPT ![p] = bp[p]] /\ pc' = [pc EXCEPT ![p] = "dma"]
    BY DEF WriteNow, Writable, Bwrite, Goto, Runs, headers, iovars
<1>2. bp[p] \in Buf /\ OwnerOK(p)
    BY <1>1, OwnerFacts DEF Owning
<1>3. /\ pc'[p] = "dma" /\ bp'[p] = bp[p]
      /\ wflag'[p] = (b_flags[bp[p]] \cup mode) \cap {"ASYNC", "DELWRI"}
      /\ b_flags'[bp[p]] = (b_flags[bp[p]] \cup mode) \ {"READ", "DONE", "ERROR", "DELWRI"}
    BY <1>1, <1>2 DEF TypeInv, TypeOK, ProcType, HeaderType
<1>4. OthersKept(p, bp[p])
    BY <1>1 DEF OthersKept, TypeInv, TypeOK, ProcType, HeaderType
<1>5. bp[p] \notin io /\ {"BUSY", "MEM"} \subseteq b_flags[bp[p]]
    BY <1>1, <1>2 DEF OwnerOK, Owning
<1>6. OwnerOK(p)' /\ BufOK(bp[p])' /\ "MEM" \in b_flags'[bp[p]]
    BY <1>1, <1>3, <1>5 DEF OwnerOK, BufOK
<1> QED BY <1>1, <1>3, <1>4, <1>6, OwnerKeeps DEF Owning

LEMMA btossKeeps ==
    ASSUME TypeInv, TypeInv', OwnInv, NEW p \in Proc, btoss(p)
    PROVE  OwnInv'
<1>1. pc[p] = "toss" /\ pc[p] \notin Owning
    BY DEF btoss, Runs, Owning
<1>2. CASE Tossable(p) # {}
    <2>1. PICK b \in Tossable(p) :
            /\ Brelse(b, b_flags[b] \cup {"BUSY", "INVAL"}, Without(b), fresh, {})
            /\ Goto(p, "toss") /\ UNCHANGED <<bp, wflag, io>>
        <3>1. Tossable(p) \subseteq OnFreelist
            BY DEF Tossable
        <3>2. FirstOf(Tossable(p)) \in Tossable(p)
            BY <1>2, <3>1, FirstOfIn DEF TypeInv, TypeOK, HeaderType
        <3> QED BY <1>2, <3>2 DEF btoss, iovars, locals
    <2>2. b \in Buf /\ "BUSY" \notin b_flags[b]
        BY DEF Tossable, OnFreelist, TypeInv, TypeOK, HeaderType
    <2>3. /\ pc'[p] \notin Owning
          /\ \A q \in Proc \ {p} : pc'[q] = pc[q] /\ bp'[q] = bp[q] /\ wflag'[q] = wflag[q]
        BY <2>1 DEF Goto, TypeInv, TypeOK, ProcType, Owning
    <2> QED BY <1>1, <2>1, <2>2, <2>3, TossKeeps
<1>3. CASE Tossable(p) = {}
    <2>1. LoopDone(p, "user")
        BY <1>3 DEF btoss, LoopDone
    <2> QED BY <1>1, <2>1, LoopDoneKeeps
<1> QED BY <1>2, <1>3

LEMMA bflushKeeps ==
    ASSUME TypeInv, TypeInv', OwnInv, NEW p \in Proc, bflush(p)
    PROVE  OwnInv'
<1>1. pc[p] \notin Owning
    BY DEF bflush, Runs, Owning
<1>2. CASE Dirty # {} /\ WriteOut(p, FirstOf(Dirty), "flush")
    <2>1. FirstOf(Dirty) \in Dirty
        <3>1. Dirty \subseteq OnFreelist
            BY DEF Dirty
        <3> QED BY <1>2, <3>1, FirstOfIn DEF TypeInv, TypeOK, HeaderType
    <2>2. PICK b \in Dirty : WriteOut(p, b, "flush")
        BY <1>2, <2>1
    <2>3. b \in Buf /\ "BUSY" \notin b_flags[b] /\ "DELWRI" \in b_flags[b]
        BY DEF Dirty, OwnInv, FreeIffNotBusy
    <2> QED BY <1>1, <2>2, <2>3, WriteOutKeeps
<1>3. CASE \E l \in {"user", "bdwait"} : LoopDone(p, l)
    BY <1>1, <1>3, LoopDoneKeeps
<1> QED BY <1>2, <1>3 DEF bflush

LEMMA bdsyncKeeps ==
    ASSUME TypeInv, TypeInv', OwnInv, NEW p \in Proc, bdsync(p)
    PROVE  OwnInv'
<1>1. pc[p] \notin Owning
    BY DEF bdsync, Runs, Owning
<1>2. CASE \E b \in Buf : /\ "DELWRI" \in b_flags[b] /\ b_flags[b] \cap {"BUSY", "INVAL"} = {}
                          /\ WriteOut(p, b, "sync")
    <2>1. PICK b \in Buf : "DELWRI" \in b_flags[b] /\ "BUSY" \notin b_flags[b] /\ WriteOut(p, b, "sync")
        BY <1>2
    <2> QED BY <1>1, <2>1, WriteOutKeeps
<1>3. CASE LoopDone(p, "user")
    BY <1>1, <1>3, LoopDoneKeeps
<1> QED BY <1>2, <1>3 DEF bdsync

LEMMA bdwaitKeeps ==
    ASSUME TypeInv, TypeInv', OwnInv, NEW p \in Proc, bdwait(p)
    PROVE  OwnInv'
<1>1. pc[p] = "bdwait" /\ pc[p] \notin Owning
    BY DEF bdwait, Runs, Owning
<1>2. CASE basyncnt # 0
    <2>1. UNCHANGED <<b_flags, b_length, io, freelist, bp, wflag>>
        BY <1>2 DEF bdwait, headers
    <2>2. pc' = pc
        BY <1>1, <1>2 DEF bdwait, SleepOn, TypeInv, TypeOK, ProcType
    <2> QED BY <1>1, <2>1, <2>2, BystanderKeeps
<1>3. CASE \E l \in {"user", "binval"} : LoopDone(p, l)
    BY <1>1, <1>3, LoopDoneKeeps
<1> QED BY <1>2, <1>3 DEF bdwait

LEMMA binvalfreeKeeps ==
    ASSUME TypeInv, TypeInv', OwnInv, NEW p \in Proc, binvalfree(p)
    PROVE  OwnInv'
<1>1. pc[p] = "invalfree" /\ pc[p] \notin Owning
    BY DEF binvalfree, Runs, Owning
<1>2. CASE OfDevice # {}
    <2>1. PICK b \in OfDevice : b = FirstOf(OfDevice)
        <3>1. OfDevice \subseteq OnFreelist
            BY DEF OfDevice
        <3> QED BY <1>2, <3>1, FirstOfIn DEF TypeInv, TypeOK, HeaderType
    <2>2. b \in Buf /\ "BUSY" \notin b_flags[b]
        BY DEF OfDevice, OwnInv, FreeIffNotBusy
    <2>3. CASE "DELWRI" \in b_flags[b] /\ WriteOut(p, b, "invalfree")
        BY <1>1, <2>2, <2>3, WriteOutKeeps
    <2>4. CASE /\ b_flags' = [b_flags EXCEPT ![b] = @ \cup {"INVAL"}]
               /\ Goto(p, "invalfree")
               /\ UNCHANGED <<b_blkno, b_length, hashed, freelist, bfwanted, iovars, spacevars,
                              chan, locals, data, raced, tossed>>
        <3>1. pc' = pc /\ UNCHANGED <<b_length, io, freelist, bp, wflag>>
            BY <1>1, <2>4 DEF Goto, TypeInv, TypeOK, ProcType, iovars, locals
        <3>2. \A c \in Buf : b_flags'[c] \cap Relevant = b_flags[c] \cap Relevant
            BY <2>4 DEF TypeInv, TypeOK, HeaderType, Relevant
        <3> QED BY <1>1, <3>1, <3>2, BystanderKeeps
    <2> QED BY <1>2, <2>1, <2>3, <2>4 DEF binvalfree
<1>3. CASE OfDevice = {}
    <2>1. LoopDone(p, "user")
        BY <1>3 DEF binvalfree
    <2> QED BY <1>1, <2>1, LoopDoneKeeps
<1> QED BY <1>2, <1>3

\* The interrupt releases the buffer of an asynchronous transfer, and leaves the
\* buffer of a synchronous one to the process that waits for it.
LEMMA iodoneKeeps ==
    ASSUME TypeInv, TypeInv', OwnInv, NEW b \in Buf, iodone(b)
    PROVE  OwnInv'
<1>1. PICK ok \in IoResult :
        LET fl == b_flags[b] \cup {"DONE"} \cup IF ok THEN {} ELSE {"ERROR"}
            t == Transfer(b, ok)
            f == [fresh EXCEPT ![b] = t.copy]
            count == IF "READ" \in fl THEN basyncnt ELSE basyncnt - 1
            idle == count = 0 /\ basynwait
        IN  /\ b \in io /\ io' = io \ {b}
            /\ \/ /\ "ASYNC" \in fl
                  /\ Brelse(b, fl, freelist, f, IF idle THEN {"basyncnt"} ELSE {})
               \/ /\ "ASYNC" \notin fl
                  /\ b_flags' = [b_flags EXCEPT ![b] = fl \ {"WANTED"}]
                  /\ UNCHANGED <<headers, freelist, bfwanted, basyncnt, basynwait, spacevars>>
            /\ UNCHANGED <<pc, locals, cur, raced, tossed>>
    BY Zenon DEF iodone
<1> DEFINE fl == b_flags[b] \cup {"DONE"} \cup IF ok THEN {} ELSE {"ERROR"}
<1>2. /\ b \in io /\ io' = io \ {b} /\ UNCHANGED <<pc, bp, wflag>>
      /\ fl \in SUBSET Flag
    BY <1>1 DEF locals, TypeInv, TypeOK, HeaderType, Flag
<1>3. {"BUSY", "MEM"} \subseteq b_flags[b] /\ ("ASYNC" \in fl <=> "ASYNC" \in b_flags[b])
    BY <1>2 DEF OwnInv, OwnOK, BufOK
<1>4. CASE "ASYNC" \in fl /\ \E f, extra : Brelse(b, fl, freelist, f, extra)
    <2>1. \A q \in Proc : ~Owns(q, b)
        BY <1>2, <1>3, <1>4 DEF OwnInv, OwnOK, OwnerOK, Owns, TypeInv, LocalOK, Local
    <2>2. PICK f, extra : Brelse(b, fl, freelist, f, extra)
        BY <1>4
    <2> HIDE DEF fl
    <2>3. "MEM" \in fl
        BY <1>3 DEF fl
    <2>4. /\ "BUSY" \notin b_flags'[b] /\ "ASYNC" \notin b_flags'[b]
          /\ "DELWRI" \in b_flags'[b] => "MEM" \in b_flags'[b]
          /\ b_length'[b] > 0 => "MEM" \in b_flags'[b]
          /\ freelist' = <<b>> \o freelist \/ freelist' = freelist \o <<b>>
          /\ \A c \in Buf \ {b} : b_flags'[c] = b_flags[c] /\ b_length'[c] = b_length[c]
        BY <1>2, <2>2, <2>3, BrelseEffect
    <2>5. BufOK(b)'
        BY <1>2, <2>4 DEF BufOK
    <2>6. OwnOK'
        BY <1>2, <2>1, <2>4, <2>5, BufferStep DEF OwnInv
    <2>7. Lists(freelist, NotBusy) /\ NotBusy \ {b} = NotBusy
        BY <1>3, FreeLists DEF OwnInv, NotBusy
    <2>8. FreeIffNotBusy'
        BY <2>4, <2>7, FreePut
    <2> QED BY <2>6, <2>8 DEF OwnInv
<1>5. CASE /\ "ASYNC" \notin fl /\ b_flags' = [b_flags EXCEPT ![b] = fl \ {"WANTED"}]
           /\ UNCHANGED <<headers, freelist, bfwanted, basyncnt, basynwait, spacevars>>
    <2>1. \E q \in Proc : Owns(q, b)
        BY <1>3, <1>5 DEF OwnInv, OwnOK, Kept, AsyncIo
    <2>2. /\ UNCHANGED <<b_length, freelist>> /\ b_flags'[b] = fl \ {"WANTED"}
          /\ \A c \in Buf \ {b} : b_flags'[c] = b_flags[c]
        BY <1>5 DEF headers, TypeInv, TypeOK, HeaderType
    <2>3. /\ "BUSY" \in b_flags'[b] /\ "MEM" \in b_flags'[b] /\ "ASYNC" \notin b_flags'[b]
        BY <1>3, <1>5, <2>2
    <2>4. BufOK(b)'
        BY <1>2, <2>3 DEF BufOK
    <2>5. ASSUME NEW q \in Proc, Owns(q, b) PROVE OwnerOK(q)'
        <3>1. OwnerOK(q) /\ pc[q] = "iowait" /\ bp[q] = b
            BY <1>2, <2>5 DEF OwnInv, OwnOK, OwnerOK, Owns
        <3>2. "ASYNC" \notin wflag[q]
            BY <3>1 DEF TypeInv, LocalOK, Local
        <3> QED BY <1>2, <2>3, <3>1, <3>2 DEF OwnerOK
    <2>6. OwnOK'
        <3> HIDE DEF fl
        <3> QED BY <1>2, <2>1, <2>2, <2>3, <2>4, <2>5, BufferStep DEF OwnInv
    <2>7. FreeIffNotBusy'
        BY <1>3, <2>2, <2>3, FreeKept DEF OwnInv
    <2> QED BY <2>6, <2>7 DEF OwnInv
<1> QED BY <1>1, <1>4, <1>5, Zenon

LEMMA OwnStutter ==
    ASSUME OwnInv, UNCHANGED vars
    PROVE  OwnInv'
BY DEF vars, headers, iovars, locals, OwnInv, OwnOK, OwnerOK, BufOK, Kept, Owns, AsyncIo,
       FreeIffNotBusy, OnFreelist

LEMMA OwnNext == TypeInv /\ OwnInv /\ [Next]_vars => OwnInv'
<1> SUFFICES ASSUME TypeInv, OwnInv, [Next]_vars PROVE OwnInv'
    OBVIOUS
<1>t. TypeInv'
    BY TypeNext
<1>1. ASSUME NEW p \in Proc, Enter(p) PROVE OwnInv'
    BY <1>1, <1>t, EnterKeeps
<1>2. ASSUME NEW p \in Proc, Getblk(p) PROVE OwnInv'
    BY <1>2, <1>t, FindKeeps, CaptureBusyKeeps, CaptureMisshapenKeeps, CaptureHitKeeps,
       NewBufEmptyKeeps, NewBufDirtyKeeps, NewBufCleanKeeps, SpaceGrantedKeeps,
       SpaceUncachedKeeps, SpaceSleepKeeps, PagesSleepKeeps, PagesThereKeeps,
       InsertBlockKeeps, InsertEmptyKeeps, GotBlockKeeps DEF Getblk
<1>3. ASSUME NEW p \in Proc, Transferring(p) PROVE OwnInv'
    BY <1>3, <1>t, StrategyKeeps, BwritePostKeeps, IowaitSleepKeeps, IowaitReadKeeps,
       IowaitWrittenKeeps DEF Transferring
<1>4. ASSUME NEW p \in Proc, Holder(p) PROVE OwnInv'
    BY <1>4, <1>t, ReleaseActionKeeps, WriteNowKeeps, bdwriteKeeps DEF Holder, bwrite, bawrite
<1>5. ASSUME NEW p \in Proc, Sweep(p) PROVE OwnInv'
    BY <1>5, <1>t, btossKeeps, bflushKeeps, bdsyncKeeps, bdwaitKeeps, binvalKeeps,
       binvalfreeKeeps DEF Sweep
<1>6. ASSUME NEW b \in Buf, iodone(b) PROVE OwnInv'
    BY <1>6, <1>t, iodoneKeeps
<1>7. CASE UNCHANGED vars
    BY <1>7, OwnStutter
<1> QED BY <1>1, <1>2, <1>3, <1>4, <1>5, <1>6, <1>7 DEF Next, Step

LEMMA OwnInvariant == Spec => [](TypeInv /\ OwnInv)
<1>1. Init => TypeInv /\ OwnInv
    BY TypeInit, OwnInit
<1>2. TypeInv /\ OwnInv /\ [Next]_vars => (TypeInv /\ OwnInv)'
    BY TypeNext, OwnNext
<1> QED BY <1>1, <1>2, PTL DEF Spec

-----------------------------------------------------------------------------
\* notavail() and brelse() agree on the free list: at every moment it holds
\* each buffer that is not B_BUSY, once, and no other.
THEOREM FreeListExact == Spec => []FreeIffNotBusy
<1>1. OwnInv => FreeIffNotBusy
    BY DEF OwnInv
<1> QED BY <1>1, OwnInvariant, PTL

\* Between getblk(), bwrite(), iodone() and brelse() a busy buffer always has
\* exactly one owner: it is never given to two processes, never released under
\* its owner and never forgotten.
THEOREM ExclusiveOwner == Spec => []OneOwner
<1>1. ASSUME TypeInv, OwnInv PROVE OneOwner
    <2>1. \A p, q \in Proc : \A b \in Buf : Owns(p, b) /\ Owns(q, b) => p = q
        BY <1>1 DEF OwnInv, OwnOK, Owns
    <2>2. ASSUME NEW p \in Proc, NEW b \in Buf, Owns(p, b) PROVE ~AsyncIo(b)
        <3>1. OwnerOK(p) /\ Local(p) /\ pc[p] \in Owning /\ bp[p] = b
            BY <1>1, <2>2 DEF OwnInv, OwnOK, TypeInv, LocalOK, Owns
        <3> QED BY <3>1 DEF OwnerOK, Local, AsyncIo
    <2>3. ASSUME NEW b \in Buf
          PROVE  "BUSY" \in b_flags[b] <=> (AsyncIo(b) \/ \E p \in Proc : Owns(p, b))
        <3>1. BufOK(b) /\ Kept(b)
            BY <1>1 DEF OwnInv, OwnOK
        <3>2. ASSUME NEW p \in Proc, Owns(p, b) PROVE "BUSY" \in b_flags[b]
            BY <1>1, <3>2 DEF OwnInv, OwnOK, OwnerOK, Owns
        <3>3. AsyncIo(b) => "BUSY" \in b_flags[b]
            BY <3>1 DEF BufOK, AsyncIo
        <3> QED BY <3>1, <3>2, <3>3 DEF Kept
    <2> QED BY <2>1, <2>2, <2>3 DEF OneOwner
<1>2. TypeInv /\ OwnInv => OneOwner
    BY <1>1
<1> QED BY <1>2, OwnInvariant, PTL

\* The strategy routine is only given buffers that are busy, have memory and
\* DMA space and are not B_DONE, and they stay so until iodone(): its
\* ASSERT(!(bp->b_flags & B_DONE)) never fails.
THEOREM DriverExclusive == Spec => []DriverHas
<1>1. TypeInv /\ OwnInv => DriverHas
    BY DEF TypeInv, TypeOK, IoType, OwnInv, OwnOK, BufOK, DriverHas
<1> QED BY <1>1, OwnInvariant, PTL

\* For any number of processes, buffers and units of space: the free list, B_BUSY,
\* the owners and the driver agree at every moment of every interleaving.
THEOREM BufferOwnership == Spec => []Ownership
<1>1. TypeOK /\ FreeIffNotBusy /\ OneOwner /\ DriverHas => Ownership
    BY DEF Ownership
<1> QED BY <1>1, TypeCorrect, FreeListExact, ExclusiveOwner, DriverExclusive, PTL

-----------------------------------------------------------------------------
(***************************************************************************)
(* Nobody sleeps for something that is there: the buffer, the transfer,    *)
(* the free header, the space or the drained writes that somebody waits    *)
(* for have their wakeup still to come.                                    *)
(***************************************************************************)
\* A sleeper, where it sleeps, and why it will be woken.
Asleep(p) ==
    /\ chan[p] \in Buf =>
         \/ pc[p] = "find" /\ {"BUSY", "WANTED"} \subseteq b_flags[chan[p]]
         \/ pc[p] = "iowait" /\ chan[p] = bp[p] /\ bp[p] \in io
    /\ chan[p] = "freelist" => bfwanted /\ freelist = <<>>
    /\ chan[p] = "basyncnt" => basynwait /\ basyncnt > 0
    /\ chan[p] \in Res => /\ pc[p] \in SpaceLabel
                          /\ chan[p] \in reswant
                          /\ pool[chan[p]] < b_length[bp[p]]
                          /\ Strippable(chan[p]) = {}

\* What a process may rely on where it stands: nobody else ran since it found
\* the buffer in the hash chains, or since it gave a write to the driver; nobody
\* can have found a buffer that is not yet in the chains; an asynchronous
\* transfer is a write; and a synchronous one is under way or over.
Placed(p) ==
    /\ pc[p] \in {"capture", "bwpost"} => cur = p
    /\ pc[p] = "capture" => bp[p] \in hashed
    /\ pc[p] \in {"newmem", "newpages", "newkmap", "insert"} =>
          bp[p] \notin hashed /\ "WANTED" \notin b_flags[bp[p]]
    /\ pc[p] = "dma" /\ "ASYNC" \in wflag[p] => "READ" \notin b_flags[bp[p]]
    /\ pc[p] = "iowait" => bp[p] \in io \/ "DONE" \in b_flags[bp[p]]

WakeInv ==
    /\ \A p \in Proc : Asleep(p)
    /\ \A p \in Proc : Placed(p)
    /\ AsyncCount

-----------------------------------------------------------------------------
(***************************************************************************)
(* The sleepers a step does not wake.                                      *)
(***************************************************************************)
LEMMA Channels ==
    "none" \notin Buf \cup Res /\ "freelist" \notin Buf \cup Res /\ "basyncnt" \notin Buf \cup Res
BY NamesAssumption DEF Res

LEMMA Awake ==
    ASSUME NEW p \in Proc, chan'[p] = "none"
    PROVE  Asleep(p)'
BY Channels DEF Asleep

\* On the free list are the buffers that are not busy.
FreeView ==
    /\ OnFreelist = {b \in Buf : "BUSY" \notin b_flags[b]}
    /\ freelist = <<>> <=> \A b \in Buf : "BUSY" \in b_flags[b]

LEMMA FreeBuffers ==
    ASSUME TypeInv, OwnInv
    PROVE  FreeView
<1>1. OnFreelist = {b \in Buf : "BUSY" \notin b_flags[b]}
    BY DEF OwnInv, FreeIffNotBusy
<1>2. freelist \in Seq(Buf) /\ DOMAIN freelist = 1..Len(freelist) /\ Len(freelist) \in Nat
    BY DEF TypeInv, TypeOK, HeaderType
<1>3. ASSUME freelist # <<>> PROVE OnFreelist # {}
    <2>1. 1 \in DOMAIN freelist
        BY <1>2, <1>3
    <2> QED BY <2>1 DEF OnFreelist
<1>4. freelist = <<>> => OnFreelist = {}
    BY DEF OnFreelist
<1> QED BY <1>1, <1>3, <1>4 DEF FreeView

LEMMA FreeBuffersNext ==
    ASSUME TypeInv', OwnInv'
    PROVE  FreeView'
BY FreeBuffers, PTL

\* A buffer gives bio_uncache_* nothing new.
Unexposed(c) ==
    /\ "BUSY" \in b_flags[c] => "BUSY" \in b_flags'[c]
    /\ "BUSY" \notin b_flags[c] =>
          \/ b_flags'[c] \cap {"BUSY", "INVAL"} # {}
          \/ /\ b_flags'[c] \cap Res \subseteq b_flags[c]
             /\ b_flags'[c] \cap {"INVAL", "DELWRI"} = b_flags[c] \cap {"INVAL", "DELWRI"}

\* A busy buffer also stays wanted and as long as it is.
Held(c) ==
    /\ Unexposed(c)
    /\ "BUSY" \in b_flags[c] =>
          /\ b_length'[c] = b_length[c]
          /\ "WANTED" \in b_flags[c] => "WANTED" \in b_flags'[c]

LEMMA NothingNewToStrip ==
    ASSUME TypeInv, TypeInv', OwnInv, OwnInv', \A c \in Buf : Unexposed(c), NEW r \in Res,
           Strippable(r) = {}
    PROVE  Strippable(r)' = {}
<1> SUFFICES ASSUME NEW c \in Strippable(r)' PROVE FALSE
    OBVIOUS
<1>1. /\ c \in Buf /\ b_flags'[c] \cap {"BUSY", "INVAL"} = {} /\ r \in b_flags'[c]
      /\ (r = "MEM" => "DELWRI" \notin b_flags'[c])
    BY FreeBuffersNext DEF FreeView, Strippable
<1>2. "BUSY" \notin b_flags[c]
    BY <1>1 DEF Unexposed
<1>3. /\ r \in b_flags[c] /\ b_flags[c] \cap {"BUSY", "INVAL"} = {}
      /\ (r = "MEM" => "DELWRI" \notin b_flags[c])
    BY <1>1, <1>2 DEF Unexposed
<1>4. c \in OnFreelist
    BY <1>1, <1>2, FreeBuffers DEF FreeView
<1> QED BY <1>3, <1>4 DEF Strippable

\* A step that gives space back of W only, and wakes who wants that.
LEMMA SleeperKept ==
    ASSUME TypeInv, TypeInv', OwnInv, OwnInv', NEW q \in Proc, Asleep(q), NEW W \in SUBSET Res,
           pc'[q] = pc[q], bp'[q] = bp[q],
           chan'[q] = IF chan[q] \in reswant \cap W THEN "none" ELSE chan[q],
           \A c \in Buf : Held(c), io \subseteq io',
           bfwanted => bfwanted', basynwait => basynwait', basyncnt <= basyncnt',
           reswant \ W \subseteq reswant', \A r \in Res \ W : pool'[r] <= pool[r]
    PROVE  Asleep(q)'
<1>1. CASE chan'[q] = "none"
    BY <1>1, Awake
<1>2. CASE chan'[q] # "none"
    <2>0. chan'[q] = chan[q] /\ chan[q] \notin reswant \cap W
        BY <1>2
    <2>1. chan[q] \in Buf =>
            \/ pc[q] = "find" /\ {"BUSY", "WANTED"} \subseteq b_flags'[chan[q]]
            \/ pc[q] = "iowait" /\ chan[q] = bp[q] /\ bp[q] \in io'
        BY DEF Asleep, Held, Unexposed
    <2>2. chan[q] = "freelist" => bfwanted' /\ freelist' = <<>>
        <3> SUFFICES ASSUME chan[q] = "freelist" PROVE bfwanted' /\ freelist' = <<>>
            OBVIOUS
        <3>1. bfwanted /\ \A c \in Buf : "BUSY" \in b_flags[c]
            BY FreeBuffers DEF Asleep, FreeView
        <3>2. \A c \in Buf : "BUSY" \in b_flags'[c]
            BY <3>1 DEF Held, Unexposed
        <3> QED BY <3>1, <3>2, FreeBuffersNext DEF FreeView
    <2>3. chan[q] = "basyncnt" => basynwait' /\ basyncnt' > 0
        BY DEF Asleep, TypeInv, TypeOK, IoType
    <2>4. chan[q] \in Res => /\ pc[q] \in SpaceLabel /\ chan[q] \in reswant'
                             /\ pool'[chan[q]] < b_length'[bp[q]]
                             /\ Strippable(chan[q])' = {}
        <3> SUFFICES ASSUME chan[q] \in Res
                     PROVE  /\ pc[q] \in SpaceLabel /\ chan[q] \in reswant'
                            /\ pool'[chan[q]] < b_length'[bp[q]]
                            /\ Strippable(chan[q])' = {}
            OBVIOUS
        <3>1. /\ pc[q] \in SpaceLabel /\ chan[q] \in reswant \ W
              /\ pool[chan[q]] < b_length[bp[q]] /\ Strippable(chan[q]) = {}
            BY <2>0 DEF Asleep
        <3>2. bp[q] \in Buf /\ "BUSY" \in b_flags[bp[q]]
            BY <3>1, OwnerFacts DEF OwnerOK, SpaceLabel, Owning
        <3>3. b_length'[bp[q]] = b_length[bp[q]]
            BY <3>2 DEF Held, Unexposed
        <3>4. pool'[chan[q]] <= pool[chan[q]] /\ pool'[chan[q]] \in Nat /\ pool[chan[q]] \in Nat
            BY <3>1 DEF TypeInv, TypeOK, IoType
        <3>5. b_length[bp[q]] \in Nat
            BY <3>2 DEF TypeInv, TypeOK, HeaderType
        <3>6. Strippable(chan[q])' = {}
            <4>1. PICK r \in Res : r = chan[q]
                OBVIOUS
            <4>2. Strippable(r)' = {}
                BY <3>1, <4>1, NothingNewToStrip DEF Held
            <4> QED BY <2>0, <4>1, <4>2
        <3> QED BY <3>1, <3>3, <3>4, <3>5, <3>6
    <2> QED BY <2>0, <2>1, <2>2, <2>3, <2>4 DEF Asleep
<1> QED BY <1>1, <1>2

-----------------------------------------------------------------------------
(***************************************************************************)
(* The processes a step does not move.                                     *)
(***************************************************************************)
\* What its owner relies on is still so of buffer c.
Calm(c) ==
    /\ b_flags'[c] \cap {"READ", "DONE", "ASYNC"} = b_flags[c] \cap {"READ", "DONE", "ASYNC"}
    /\ "WANTED" \in b_flags'[c] => "WANTED" \in b_flags[c] \/ c \in hashed
    /\ c \in io => c \in io'
    /\ c \in hashed' => c \in hashed

\* Buffer c is free, or p has it and not the driver.
Mine(p, c) ==
    "BUSY" \notin b_flags[c] \/ (pc[p] \in Owning /\ bp[p] = c /\ c \notin io)

LEMMA MineAlone ==
    ASSUME TypeInv, OwnInv, NEW p \in Proc, NEW c \in Buf, Mine(p, c)
    PROVE  c \notin io /\ \A q \in Proc \ {p} : ~Owns(q, c)
<1>1. c \notin io
    BY DEF Mine, OwnInv, OwnOK, BufOK
<1>2. ASSUME NEW q \in Proc \ {p}, Owns(q, c) PROVE FALSE
    <2>1. "BUSY" \in b_flags[c] /\ pc[q] \in Owning /\ bp[q] = c
        BY <1>2 DEF Owns, OwnInv, OwnOK, OwnerOK
    <2> QED BY <2>1 DEF Mine, OwnInv, OwnOK
<1> QED BY <1>1, <1>2

LEMMA PlacedKept ==
    ASSUME TypeInv, NEW q \in Proc, Placed(q),
           pc'[q] = pc[q], bp'[q] = bp[q], wflag'[q] = wflag[q],
           pc[q] \notin {"capture", "bwpost"},
           \A c \in Buf : Calm(c) \/ ~Owns(q, c)
    PROVE  Placed(q)'
<1>1. CASE pc[q] \in Owning
    <2>1. bp[q] \in Buf /\ Calm(bp[q])
        BY <1>1 DEF TypeInv, LocalOK, Local, Owns
    <2>2. /\ "READ" \in b_flags'[bp[q]] => "READ" \in b_flags[bp[q]]
          /\ "DONE" \in b_flags[bp[q]] => "DONE" \in b_flags'[bp[q]]
        BY <2>1 DEF Calm
    <2> QED BY <2>1, <2>2 DEF Calm, Placed
<1>2. CASE pc[q] \notin Owning
    BY <1>2 DEF Placed, Owning
<1> QED BY <1>1, <1>2

-----------------------------------------------------------------------------
(***************************************************************************)
(* The number of asynchronous writes.                                      *)
(***************************************************************************)
AsyncWrites == {b \in io : "ASYNC" \in b_flags[b] /\ "READ" \notin b_flags[b]}
AtPost == {p \in Proc : pc[p] = "bwpost"}

LEMMA CountDef == AsyncCount <=> basyncnt + Cardinality(AtPost) = Cardinality(AsyncWrites)
BY DEF AsyncCount, AsyncWrites, AtPost

LEMMA CountDefNext ==
    AsyncCount' <=> basyncnt' + Cardinality(AtPost') = Cardinality(AsyncWrites')
BY DEF AsyncCount, AsyncWrites, AtPost

\* One process at most is between its write and the increment.
LEMMA PostAlone ==
    ASSUME NEW q \in Proc, pc[q] = "bwpost", \A r \in Proc : Placed(r)
    PROVE  AtPost = {q}
BY DEF Placed, AtPost

LEMMA WritesFinite ==
    ASSUME TypeInv
    PROVE  IsFiniteSet(AsyncWrites) /\ Cardinality(AsyncWrites) \in Nat
<1>1. AsyncWrites \in SUBSET Buf
    BY DEF AsyncWrites, TypeInv, TypeOK, IoType
<1>2. IsFiniteSet(AsyncWrites)
    BY <1>1, NamesAssumption, FS_Subset
<1> QED BY <1>2, FS_CardinalityType

LEMMA CountKept ==
    ASSUME TypeInv, AsyncCount, UNCHANGED <<io, basyncnt>>,
           \A c \in io : Calm(c), AtPost' = AtPost
    PROVE  AsyncCount'
<1>1. \A c \in io : "ASYNC" \in b_flags'[c] <=> "ASYNC" \in b_flags[c]
    BY DEF Calm
<1>2. \A c \in io : "READ" \in b_flags'[c] <=> "READ" \in b_flags[c]
    BY DEF Calm
<1>3. AsyncWrites' = AsyncWrites
    BY <1>1, <1>2 DEF AsyncWrites
<1> QED BY <1>3, CountDef, CountDefNext

-----------------------------------------------------------------------------
(***************************************************************************)
(* The steps that many actions share.                                      *)
(***************************************************************************)
\* Process p moves, and nobody else does.
OthersStay(p) ==
    \A q \in Proc \ {p} : pc'[q] = pc[q] /\ bp'[q] = bp[q] /\ wflag'[q] = wflag[q]

\* While p runs nobody else stands where only the running process does.
LEMMA OthersPlaced ==
    ASSUME TypeInv, OwnInv, WakeInv, NEW p \in Proc, cur \in {p, NoProc}, OthersStay(p),
           \A c \in Buf : Calm(c) \/ Mine(p, c)
    PROVE  \A q \in Proc \ {p} : Placed(q)' /\ pc[q] # "bwpost"
<1> SUFFICES ASSUME NEW q \in Proc \ {p} PROVE Placed(q)' /\ pc[q] # "bwpost"
    OBVIOUS
<1>1. pc[q] \notin {"capture", "bwpost"}
    BY NamesAssumption DEF WakeInv, Placed
<1>2. \A c \in Buf : Calm(c) \/ ~Owns(q, c)
    BY MineAlone
<1>3. Placed(q)
    BY DEF WakeInv
<1>4. pc'[q] = pc[q] /\ bp'[q] = bp[q] /\ wflag'[q] = wflag[q]
    BY DEF OthersStay
<1> QED BY <1>1, <1>2, <1>3, <1>4, PlacedKept

LEMMA PostKept ==
    ASSUME NEW p \in Proc, OthersStay(p), pc[p] # "bwpost", pc'[p] # "bwpost"
    PROVE  AtPost' = AtPost
BY DEF AtPost, OthersStay

\* A step in which no buffer is released.
LEMMA OrdinaryStep ==
    ASSUME TypeInv, TypeInv', OwnInv, OwnInv', WakeInv, NEW p \in Proc, cur \in {p, NoProc},
           OthersStay(p), NEW W \in SUBSET Res,
           \A q \in Proc \ {p} :
               chan'[q] = IF chan[q] \in reswant \cap W THEN "none" ELSE chan[q],
           \A c \in Buf : Held(c) /\ (Calm(c) \/ Mine(p, c)),
           UNCHANGED <<io, basyncnt>>, bfwanted => bfwanted', basynwait => basynwait',
           reswant \ W \subseteq reswant', \A r \in Res \ W : pool'[r] <= pool[r],
           pc[p] # "bwpost", pc'[p] # "bwpost", Asleep(p)', Placed(p)'
    PROVE  WakeInv'
<1>1. \A q \in Proc \ {p} : Placed(q)' /\ pc[q] # "bwpost"
    BY OthersPlaced
<1>2. ASSUME NEW q \in Proc \ {p} PROVE Asleep(q)'
    <2>1. Asleep(q) /\ pc'[q] = pc[q] /\ bp'[q] = bp[q] /\ basyncnt <= basyncnt' /\ io \subseteq io'
        BY DEF WakeInv, OthersStay, TypeInv, TypeOK, IoType
    <2> QED BY <2>1, SleeperKept
<1>3. \A c \in io : Calm(c)
    BY MineAlone DEF TypeInv, TypeOK, IoType
<1>4. AsyncCount'
    BY <1>3, PostKept, CountKept DEF WakeInv
<1> QED BY <1>1, <1>2, <1>4 DEF WakeInv

\* brelse() wakes whoever waits for the buffer, for any buffer or for space.
LEMMA BrelseWakes ==
    ASSUME TypeInv, TypeInv', OwnInv, NEW b \in Buf, NEW fl, NEW fr, NEW f, NEW extra,
           Brelse(b, fl, fr, f, extra), b_flags[b] \subseteq fl,
           NEW q \in Proc, Asleep(q), pc'[q] = pc[q], bp'[q] = bp[q],
           b \in io => ~Owns(q, b), \A c \in io : c \in io' \/ c = b,
           chan'[q] = "basyncnt" => basynwait' /\ basyncnt' > 0
    PROVE  Asleep(q)'
<1>1. CASE chan'[q] = "none"
    BY <1>1, Awake
<1>2. CASE chan'[q] # "none"
    <2>1. /\ chan'[q] = chan[q] /\ chan[q] \notin reswant
          /\ (bfwanted => chan[q] # "freelist") /\ ("WANTED" \in fl => chan[q] # b)
        BY <1>2 DEF Brelse, Wakeup
    <2>2. \A c \in Buf \ {b} : b_flags'[c] = b_flags[c]
        BY DEF Brelse, TypeInv, TypeOK, HeaderType
    <2>3. chan[q] \notin Res /\ chan[q] # "freelist"
        BY <2>1 DEF Asleep
    <2>4. ASSUME chan[q] \in Buf
          PROVE  \/ pc[q] = "find" /\ {"BUSY", "WANTED"} \subseteq b_flags'[chan[q]]
                 \/ pc[q] = "iowait" /\ chan[q] = bp[q] /\ bp[q] \in io'
        <3>1. CASE pc[q] = "find" /\ {"BUSY", "WANTED"} \subseteq b_flags[chan[q]]
            BY <2>1, <2>2, <2>4, <3>1
        <3>2. CASE pc[q] = "iowait" /\ chan[q] = bp[q] /\ bp[q] \in io
            BY <3>2 DEF Owns, Owning
        <3> QED BY <2>4, <3>1, <3>2 DEF Asleep
    <2> QED BY <2>1, <2>3, <2>4 DEF Asleep
<1> QED BY <1>1, <1>2

\* A step in which a buffer is released.
LEMMA ReleaseStep ==
    ASSUME TypeInv, TypeInv', OwnInv, OwnInv', WakeInv, NEW p \in Proc, cur \in {p, NoProc},
           OthersStay(p), chan[p] = "none", NEW b \in Buf, Mine(p, b),
           NEW fl, NEW fr, NEW f, NEW extra, Brelse(b, fl, fr, f, extra), b_flags[b] \subseteq fl,
           UNCHANGED <<io, basyncnt, basynwait, hashed>>,
           pc[p] # "bwpost", pc'[p] # "bwpost", Placed(p)'
    PROVE  WakeInv'
<1>0. b \notin io /\ \A q \in Proc \ {p} : ~Owns(q, b)
    BY MineAlone
<1>1. \A c \in Buf : Calm(c) \/ Mine(p, c)
    <2>1. \A c \in Buf \ {b} : b_flags'[c] = b_flags[c]
        BY DEF Brelse, TypeInv, TypeOK, HeaderType
    <2> QED BY <2>1 DEF Calm
<1>2. \A q \in Proc \ {p} : Placed(q)' /\ pc[q] # "bwpost"
    BY <1>1, OthersPlaced
<1>3. Asleep(p)'
    <2>1. chan'[p] = "none"
        BY DEF Brelse, Wakeup
    <2> QED BY <2>1, Awake
<1>4. ASSUME NEW q \in Proc \ {p} PROVE Asleep(q)'
    <2>1. Asleep(q) /\ pc'[q] = pc[q] /\ bp'[q] = bp[q]
        BY DEF WakeInv, OthersStay
    <2>2. chan'[q] = "basyncnt" => basynwait' /\ basyncnt' > 0
        <3>1. chan'[q] = "basyncnt" => chan[q] = "basyncnt"
            BY DEF Brelse, Wakeup
        <3> QED BY <2>1, <3>1 DEF Asleep
    <2> QED BY <1>0, <2>1, <2>2, BrelseWakes
<1>5. \A c \in io : Calm(c)
    BY <1>1, MineAlone DEF TypeInv, TypeOK, IoType
<1>6. AsyncCount'
    BY <1>5, PostKept, CountKept DEF WakeInv
<1> QED BY <1>2, <1>3, <1>4, <1>6 DEF WakeInv

\* A step in which one buffer is taken, worked on or stripped.
LEMMA BufferChanged ==
    ASSUME TypeInv, TypeInv', OwnInv, OwnInv', WakeInv, NEW p \in Proc, cur \in {p, NoProc},
           OthersStay(p), NEW W \in SUBSET Res, NEW b \in Buf,
           \A q \in Proc \ {p} :
               chan'[q] = IF chan[q] \in reswant \cap W THEN "none" ELSE chan[q],
           \A c \in Buf \ {b} : /\ b_flags'[c] = b_flags[c] /\ b_length'[c] = b_length[c]
                                /\ c \in hashed' => c \in hashed,
           Held(b), Calm(b) \/ Mine(p, b),
           UNCHANGED <<io, basyncnt, bfwanted, basynwait>>,
           reswant \ W \subseteq reswant', \A r \in Res \ W : pool'[r] <= pool[r],
           pc[p] # "bwpost", pc'[p] # "bwpost", Asleep(p)', Placed(p)'
    PROVE  WakeInv'
<1>1. \A c \in Buf : Held(c)
    BY DEF Held, Unexposed
<1>2. \A c \in Buf : Calm(c) \/ Mine(p, c)
    BY DEF Calm
<1> QED BY <1>1, <1>2, OrdinaryStep

\* A step that leaves the buffers alone.
LEMMA QuietStep ==
    ASSUME TypeInv, TypeInv', OwnInv, OwnInv', WakeInv, NEW p \in Proc, cur \in {p, NoProc},
           OthersStay(p), \A q \in Proc \ {p} : chan'[q] = chan[q],
           UNCHANGED <<b_flags, b_length, hashed, io, basyncnt, pool>>,
           bfwanted => bfwanted', basynwait => basynwait', reswant \subseteq reswant',
           pc[p] # "bwpost", pc'[p] # "bwpost", Asleep(p)', Placed(p)'
    PROVE  WakeInv'
<1>1. \A c \in Buf : Held(c) /\ Calm(c)
    BY DEF Held, Unexposed, Calm
<1>2. \A r \in Res \ {} : pool'[r] <= pool[r]
    BY DEF TypeInv, TypeOK, IoType
<1>3. \A q \in Proc \ {p} :
        chan'[q] = IF chan[q] \in reswant \cap {} THEN "none" ELSE chan[q]
    OBVIOUS
<1>4. {} \in SUBSET Res /\ reswant \ {} \subseteq reswant'
    OBVIOUS
<1> QED BY <1>1, <1>2, <1>3, <1>4, OrdinaryStep

-----------------------------------------------------------------------------
(***************************************************************************)
(* The actions.                                                            *)
(***************************************************************************)
LEMMA WakeInit == Init => WakeInv
<1> SUFFICES ASSUME Init PROVE WakeInv
    OBVIOUS
<1>1. \A p \in Proc : Asleep(p)
    BY Channels DEF Init, Asleep
<1>2. \A p \in Proc : Placed(p)
    BY DEF Init, Placed
<1>3. AsyncWrites = {} /\ AtPost = {}
    BY DEF Init, AsyncWrites, AtPost
<1>4. Cardinality({}) = 0
    BY FS_EmptySet
<1>5. AsyncCount
    BY <1>3, <1>4, CountDef DEF Init
<1> QED BY <1>1, <1>2, <1>5 DEF WakeInv

LEMMA FindWakes ==
    ASSUME TypeInv, TypeInv', OwnInv, OwnInv', WakeInv, NEW p \in Proc, Find(p)
    PROVE  WakeInv'
<1>1. /\ cur \in {p, NoProc} /\ pc[p] = "find" /\ chan' = chan /\ chan'[p] = "none"
      /\ UNCHANGED <<b_flags, b_length, hashed, io, basyncnt, pool, bfwanted, basynwait, reswant>>
    BY DEF Find, Runs, headers, iovars, spacevars
<1>2. OthersStay(p)
    BY DEF Find, Goto, OthersStay, TypeInv, TypeOK, ProcType
<1>3. pc'[p] = "newbuf" \/ (pc'[p] = "capture" /\ cur' = p /\ bp'[p] \in hashed')
    BY DEF Find, Goto, Match, TypeInv, TypeOK, ProcType, headers
<1>4. Asleep(p)' /\ Placed(p)' /\ pc'[p] # "bwpost"
    BY <1>1, <1>3, Awake DEF Placed
<1> QED BY <1>1, <1>2, <1>4, QuietStep

\* B_WANTED is set on a busy buffer, in one go with the test and the sleep.
LEMMA CaptureBusyWakes ==
    ASSUME TypeInv, TypeInv', OwnInv, OwnInv', WakeInv, NEW p \in Proc, CaptureBusy(p)
    PROVE  WakeInv'
<1>1. /\ cur \in {p, NoProc} /\ pc[p] = "capture" /\ "BUSY" \in b_flags[bp[p]]
      /\ UNCHANGED <<b_length, hashed, io, basyncnt, pool, bfwanted, basynwait, reswant>>
    BY DEF CaptureBusy, Runs, headers, iovars, spacevars
<1>2. PICK b \in Buf : b = bp[p] /\ b \in hashed
    BY <1>1 DEF TypeInv, LocalOK, Local, WakeInv, Placed
<1>3. /\ OthersStay(p) /\ (\A q \in Proc \ {p} : chan'[q] = chan[q])
      /\ pc'[p] = "find" /\ chan'[p] = b
    BY <1>2 DEF CaptureBusy, SleepOn, OthersStay, TypeInv, TypeOK, ProcType
<1>4. /\ b_flags'[b] = b_flags[b] \cup {"WANTED"}
      /\ \A c \in Buf \ {b} : b_flags'[c] = b_flags[c]
    BY <1>2 DEF CaptureBusy, TypeInv, TypeOK, HeaderType
<1>5. Held(b) /\ Calm(b)
    BY <1>1, <1>2, <1>4 DEF Held, Unexposed, Calm
<1>6. Asleep(p)' /\ Placed(p)'
    BY <1>1, <1>2, <1>3, <1>4, NamesAssumption DEF Asleep, Placed
<1>7. /\ {} \in SUBSET Res /\ reswant \ {} \subseteq reswant'
      /\ \A r \in Res \ {} : pool'[r] <= pool[r]
    BY <1>1 DEF TypeInv, TypeOK, IoType
<1> QED BY <1>1, <1>3, <1>4, <1>5, <1>6, <1>7, BufferChanged

\* A free dirty buffer is taken to be written.
LEMMA WriteOutWakes ==
    ASSUME TypeInv, TypeInv', OwnInv, OwnInv', WakeInv, NEW p \in Proc, NEW b \in Buf,
           "BUSY" \notin b_flags[b], cur \in {p, NoProc}, chan[p] = "none", pc[p] # "bwpost",
           NEW back, WriteOut(p, b, back)
    PROVE  WakeInv'
<1>1. /\ UNCHANGED <<b_length, hashed, io, basyncnt, pool, bfwanted, basynwait, reswant, chan>>
      /\ OthersStay(p) /\ pc'[p] = "dma" /\ bp'[p] = b
    BY DEF WriteOut, Bwrite, Goto, headers, iovars, spacevars, OthersStay, TypeInv, TypeOK, ProcType
<1>2. /\ b_flags'[b] = (b_flags[b] \cup {"BUSY", "ASYNC"}) \ {"READ", "DONE", "ERROR", "DELWRI"}
      /\ \A c \in Buf \ {b} : b_flags'[c] = b_flags[c]
    BY DEF WriteOut, Bwrite, TypeInv, TypeOK, HeaderType
<1>3. Held(b) /\ Mine(p, b)
    BY <1>2 DEF Held, Unexposed, Mine
<1>4. Asleep(p)' /\ Placed(p)'
    BY <1>1, <1>2, Awake DEF Placed
<1>5. /\ {} \in SUBSET Res /\ reswant \ {} \subseteq reswant'
      /\ \A r \in Res \ {} : pool'[r] <= pool[r]
    BY <1>1 DEF TypeInv, TypeOK, IoType
<1> QED BY <1>1, <1>2, <1>3, <1>4, <1>5, BufferChanged

\* A free buffer is thrown away.
LEMMA TossWakes ==
    ASSUME TypeInv, TypeInv', OwnInv, OwnInv', WakeInv, NEW p \in Proc, NEW b \in Buf,
           "BUSY" \notin b_flags[b], cur \in {p, NoProc}, chan[p] = "none", pc[p] # "bwpost",
           NEW fr, NEW f, Brelse(b, b_flags[b] \cup {"BUSY", "INVAL"}, fr, f, {}),
           NEW l \in {"find", "toss"}, Goto(p, l), OthersStay(p),
           UNCHANGED <<hashed, io, basyncnt, basynwait>>
    PROVE  WakeInv'
<1>1. pc'[p] = l /\ Mine(p, b) /\ b_flags[b] \subseteq b_flags[b] \cup {"BUSY", "INVAL"}
    BY DEF Goto, Mine, TypeInv, TypeOK, ProcType
<1>2. Placed(p)'
    BY <1>1 DEF Placed
<1> QED BY <1>1, <1>2, ReleaseStep

LEMMA CaptureMisshapenWakes ==
    ASSUME TypeInv, TypeInv', OwnInv, OwnInv', WakeInv, NEW p \in Proc, CaptureMisshapen(p)
    PROVE  WakeInv'
<1>1. PICK b \in Buf : b = bp[p]
    BY DEF CaptureMisshapen, Runs, TypeInv, LocalOK, Local
<1>2. /\ "BUSY" \notin b_flags[b] /\ cur \in {p, NoProc} /\ chan[p] = "none" /\ pc[p] = "capture"
    BY <1>1 DEF CaptureMisshapen, Runs
<1>3. CASE WriteOut(p, b, "find")
    BY <1>2, <1>3, WriteOutWakes
<1>4. CASE /\ Brelse(b, b_flags[b] \cup {"BUSY", "INVAL"}, Without(b), fresh, {})
           /\ bp' = [bp EXCEPT ![p] = NoBuf] /\ Goto(p, "find")
           /\ UNCHANGED <<b_blkno, hashed, iovars, call, ret, wflag, slept, disk, raced, tossed>>
    <2>1. OthersStay(p) /\ UNCHANGED <<hashed, io, basyncnt, basynwait>>
        BY <1>4 DEF OthersStay, Goto, iovars, TypeInv, TypeOK, ProcType
    <2> QED BY <1>2, <1>4, <2>1, TossWakes
<1> QED BY <1>1, <1>3, <1>4 DEF CaptureMisshapen

LEMMA CaptureHitWakes ==
    ASSUME TypeInv, TypeInv', OwnInv, OwnInv', WakeInv, NEW p \in Proc, CaptureHit(p)
    PROVE  WakeInv'
<1>1. PICK b \in Buf : b = bp[p]
    BY DEF CaptureHit, Runs, TypeInv, LocalOK, Local
<1>2. /\ "BUSY" \notin b_flags[b] /\ cur \in {p, NoProc} /\ pc[p] = "capture"
      /\ UNCHANGED <<b_length, hashed, io, basyncnt, pool, bfwanted, basynwait, reswant, chan>>
      /\ chan[p] = "none"
    BY <1>1 DEF CaptureHit, Runs, headers, iovars, spacevars
<1>3. OthersStay(p) /\ pc'[p] \in {"got", "hitkmap"}
    BY DEF CaptureHit, Goto, OthersStay, locals, TypeInv, TypeOK, ProcType
<1>4. /\ b_flags'[b] = b_flags[b] \cup {"BUSY"}
      /\ \A c \in Buf \ {b} : b_flags'[c] = b_flags[c]
    BY <1>1 DEF CaptureHit, TypeInv, TypeOK, HeaderType
<1>5. Held(b) /\ Mine(p, b)
    BY <1>2, <1>4 DEF Held, Unexposed, Mine
<1>6. Asleep(p)' /\ Placed(p)'
    BY <1>2, <1>3, Awake DEF Placed
<1>7. /\ {} \in SUBSET Res /\ reswant \ {} \subseteq reswant'
      /\ \A r \in Res \ {} : pool'[r] <= pool[r]
    BY <1>2 DEF TypeInv, TypeOK, IoType
<1> QED BY <1>2, <1>3, <1>4, <1>5, <1>6, <1>7, BufferChanged

LEMMA NewBufEmptyWakes ==
    ASSUME TypeInv, TypeInv', OwnInv, OwnInv', WakeInv, NEW p \in Proc, NewBufEmpty(p)
    PROVE  WakeInv'
<1>1. /\ cur \in {p, NoProc} /\ pc[p] = "newbuf" /\ freelist' = <<>> /\ bfwanted'
      /\ UNCHANGED <<b_flags, b_length, hashed, io, basyncnt, pool, basynwait, reswant>>
    BY DEF NewBufEmpty, Runs, headers, iovars, spacevars
<1>2. /\ OthersStay(p) /\ (\A q \in Proc \ {p} : chan'[q] = chan[q])
      /\ pc'[p] = "newbuf" /\ chan'[p] = "freelist"
    BY DEF NewBufEmpty, SleepOn, OthersStay, TypeInv, TypeOK, ProcType
<1>3. Asleep(p)' /\ Placed(p)'
    BY <1>1, <1>2, Channels DEF Asleep, Placed
<1> QED BY <1>1, <1>2, <1>3, QuietStep

LEMMA NewBufDirtyWakes ==
    ASSUME TypeInv, TypeInv', OwnInv, OwnInv', WakeInv, NEW p \in Proc, NewBufDirty(p)
    PROVE  WakeInv'
<1>1. PICK b \in Buf : b = Head(freelist) /\ "BUSY" \notin b_flags[b]
    BY DEF NewBufDirty, OwnInv, FreeIffNotBusy, OnFreelist, TypeInv, TypeOK, HeaderType
<1>2. WriteOut(p, b, "newbuf") /\ cur \in {p, NoProc} /\ chan[p] = "none" /\ pc[p] = "newbuf"
    BY <1>1 DEF NewBufDirty, Runs
<1> QED BY <1>1, <1>2, WriteOutWakes

\* Space that is not given back is not more than before.
LEMMA GivenBack ==
    ASSUME TypeInv, NEW b \in Buf, NEW fl, NEW R, pool' = GiveBack(b, fl, R)
    PROVE  \A r \in Res \ (fl \cap R) : pool'[r] <= pool[r]
<1> SUFFICES ASSUME NEW r \in Res \ (fl \cap R) PROVE pool'[r] <= pool[r]
    OBVIOUS
<1>1. pool'[r] = pool[r] + 0 /\ pool[r] \in Nat
    BY DEF GiveBack, TypeInv, TypeOK, IoType
<1> QED BY <1>1

\* getnewbuf() gives back the space of a buffer of another size, and wakes those
\* who want it; nobody waits for the buffer itself, which was free.
LEMMA NewBufCleanWakes ==
    ASSUME TypeInv, TypeInv', OwnInv, OwnInv', WakeInv, NEW p \in Proc, NewBufClean(p)
    PROVE  WakeInv'
<1>1. PICK b \in Buf : b = Head(freelist) /\ "BUSY" \notin b_flags[b]
    BY DEF NewBufClean, OwnInv, FreeIffNotBusy, OnFreelist, TypeInv, TypeOK, HeaderType
<1> DEFINE same == b_length[b] = call[p].len
           kept == b_flags[b] \cap Res
           W == IF same THEN {} ELSE kept
<1>2. /\ pc[p] = "newbuf" /\ chan[p] = "none" /\ cur \in {p, NoProc}
      /\ UNCHANGED <<io, basyncnt, bfwanted, basynwait>>
      /\ hashed' = hashed \ {b} /\ bp' = [bp EXCEPT ![p] = b]
      /\ b_flags' = [b_flags EXCEPT ![b] = NewFlags(b, same)]
      /\ b_length' = [b_length EXCEPT ![b] = call[p].len]
    BY <1>1 DEF NewBufClean, Runs, iovars
<1>3. /\ pool' = (IF same THEN pool ELSE GiveBack(b, kept, Res))
      /\ reswant' = (IF same THEN reswant ELSE reswant \ kept)
      /\ Wakeup(IF same THEN {} ELSE reswant \cap kept)
    BY <1>1 DEF NewBufClean
<1>4. OthersStay(p) /\ pc'[p] \in {"newmem", "insert", "newkmap"} /\ bp'[p] = b
    BY <1>1, <1>2 DEF NewBufClean, Goto, OthersStay, TypeInv, TypeOK, ProcType
<1>5. /\ b_flags'[b] = NewFlags(b, same)
      /\ \A c \in Buf \ {b} : b_flags'[c] = b_flags[c] /\ b_length'[c] = b_length[c]
    BY <1>2 DEF TypeInv, TypeOK, HeaderType
<1>6. "BUSY" \in NewFlags(b, same) /\ "WANTED" \notin NewFlags(b, same)
    BY DEF NewFlags, Res
<1>7. Held(b) /\ Mine(p, b)
    BY <1>1, <1>5, <1>6 DEF Held, Unexposed, Mine
<1>8. \A q \in Proc : chan'[q] = IF chan[q] \in reswant \cap W THEN "none" ELSE chan[q]
    BY <1>3 DEF Wakeup
<1>9. Asleep(p)' /\ Placed(p)'
    <2>1. chan'[p] = "none"
        BY <1>2, <1>8
    <2>2. Placed(p)'
        BY <1>2, <1>4, <1>5, <1>6 DEF Placed
    <2> QED BY <2>1, <2>2, Awake
<1>10. W \in SUBSET Res /\ reswant \ W \subseteq reswant'
    BY <1>3
<1>11. \A r \in Res \ W : pool'[r] <= pool[r]
    <2>1. CASE same
        BY <1>3, <2>1 DEF TypeInv, TypeOK, IoType
    <2>2. CASE ~same
        <3>1. \A r \in Res \ (kept \cap Res) : pool'[r] <= pool[r]
            BY <1>3, <2>2, GivenBack
        <3> QED BY <2>2, <3>1
    <2> QED BY <2>1, <2>2
<1> HIDE DEF W, same, kept
<1> QED BY <1>2, <1>4, <1>5, <1>7, <1>8, <1>9, <1>10, <1>11, BufferChanged

LEMMA SpaceGrantedWakes ==
    ASSUME TypeInv, TypeInv', OwnInv, OwnInv', WakeInv, NEW p \in Proc, NEW l \in SpaceLabel,
           SpaceGranted(p, l)
    PROVE  WakeInv'
<1>1. /\ Space(l) \in Res /\ l \in Owning \ {"iowait"} /\ pc[p] = l /\ l # "bwpost" /\ cur \in {p, NoProc}
      /\ chan[p] = "none" /\ pool[Space(l)] >= b_length[bp[p]]
      /\ UNCHANGED <<b_length, hashed, io, basyncnt, bfwanted, basynwait, reswant, chan>>
    BY SpaceLabels DEF SpaceGranted, SpaceNeeded, Runs, headers, iovars, SpaceLabel
<1>2. PICK b \in Buf : b = bp[p] /\ "BUSY" \in b_flags[b] /\ b \notin io
    BY <1>1, OwnerFacts DEF OwnerOK
<1>3. OthersStay(p) /\ pc'[p] = AfterSpace(l) /\ UNCHANGED <<bp, wflag>>
    BY DEF SpaceGranted, Goto, OthersStay, locals, TypeInv, TypeOK, ProcType
<1>4. /\ b_flags'[b] = b_flags[b] \cup {Space(l)}
      /\ \A c \in Buf \ {b} : b_flags'[c] = b_flags[c]
    BY <1>2 DEF SpaceGranted, TypeInv, TypeOK, HeaderType
<1>5. Held(b) /\ Mine(p, b)
    BY <1>1, <1>2, <1>4 DEF Held, Unexposed, Mine
<1>6. Placed(p)' /\ pc'[p] # "bwpost"
    <2>1. /\ AfterSpace(l) \in {"newpages", "insert", "got", "dma", "hold"}
          /\ AfterSpace(l) = "dma" => l = "dma"
          /\ AfterSpace(l) = "newpages" => l = "newmem"
          /\ AfterSpace(l) = "insert" => l = "newkmap"
        BY DEF AfterSpace, SpaceLabel
    <2>2. Placed(p)
        BY DEF WakeInv
    <2>3. b_flags'[bp[p]] = b_flags[bp[p]] \cup {Space(l)} /\ Space(l) \notin {"WANTED", "READ"}
        BY <1>1, <1>2, <1>4 DEF Res
    <2> QED BY <1>1, <1>3, <2>1, <2>2, <2>3 DEF Placed
<1>7. Asleep(p)'
    BY <1>1, Awake
<1>8. \A r \in Res \ {} : pool'[r] <= pool[r]
    <2>1. pool' = [pool EXCEPT ![Space(l)] = @ - b_length[bp[p]]]
        BY DEF SpaceGranted
    <2>2. \A r \in Res : pool[r] \in Nat /\ b_length[b] \in Nat
        BY DEF TypeInv, TypeOK, IoType, HeaderType
    <2>3. \A r \in Res : pool'[r] = IF r = Space(l) THEN pool[r] - b_length[b] ELSE pool[r]
        BY <1>2, <2>1 DEF TypeInv, TypeOK, IoType
    <2> QED BY <2>2, <2>3
<1>9. {} \in SUBSET Res /\ reswant \ {} \subseteq reswant'
    BY <1>1
<1> QED BY <1>1, <1>3, <1>4, <1>5, <1>6, <1>7, <1>8, <1>9, BufferChanged

\* bio_uncache_*() takes from a free buffer what it wakes the sleepers for.
LEMMA SpaceUncachedWakes ==
    ASSUME TypeInv, TypeInv', OwnInv, OwnInv', WakeInv, NEW p \in Proc, NEW l \in SpaceLabel,
           SpaceUncached(p, l)
    PROVE  WakeInv'
<1> DEFINE r == Space(l)
<1>1. /\ pc[p] = l /\ r \in Res /\ chan[p] = "none" /\ cur \in {p, NoProc}
      /\ l \in Owning /\ l # "bwpost"
      /\ UNCHANGED <<bp, wflag, hashed, io, basyncnt, bfwanted, basynwait>>
    BY SpaceLabels DEF SpaceUncached, SpaceNeeded, Runs, locals, iovars, SpaceLabel
<1>2. pc' = pc /\ OthersStay(p)
    BY <1>1 DEF SpaceUncached, Goto, OthersStay, TypeInv, TypeOK, ProcType
<1>3. PICK b \in Strippable(r) : Strip(b, r)
    <2>1. Strippable(r) \subseteq OnFreelist /\ Strippable(r) # {}
        BY DEF SpaceUncached, Strippable
    <2>2. FirstOf(Strippable(r)) \in Strippable(r)
        BY <2>1, FirstOfIn DEF TypeInv, TypeOK, HeaderType
    <2> QED BY <2>2 DEF SpaceUncached
<1> HIDE DEF r
<1>4. b \in Buf /\ "BUSY" \notin b_flags[b]
    BY <1>3 DEF Strippable, OnFreelist, TypeInv, TypeOK, HeaderType
<1> DEFINE W == Gone(r) \cap b_flags[b]
<1>5. /\ b_flags'[b] = (b_flags[b] \ Gone(r)) \cup IF r = "MEM" THEN {"INVAL"} ELSE {}
      /\ \A c \in Buf \ {b} : b_flags'[c] = b_flags[c] /\ b_length'[c] = b_length[c]
    BY <1>3, <1>4 DEF Strip, TypeInv, TypeOK, HeaderType
<1>6. Held(b) /\ Mine(p, b)
    <2>1. CASE r = "MEM"
        BY <1>4, <1>5, <2>1 DEF Held, Unexposed, Mine
    <2>2. CASE r # "MEM"
        <3>1. b_flags'[b] = b_flags[b] \ {r} /\ r \notin {"INVAL", "DELWRI"}
            BY <1>1, <1>5, <2>2 DEF Gone, Res
        <3> QED BY <1>4, <3>1 DEF Held, Unexposed, Mine
    <2> QED BY <2>1, <2>2
<1>7. \A q \in Proc : chan'[q] = IF chan[q] \in reswant \cap W THEN "none" ELSE chan[q]
    BY <1>3 DEF Strip, Wakeup
<1>8. W \in SUBSET Res /\ reswant \ W \subseteq reswant'
    BY <1>1, <1>3 DEF Strip, Gone
<1>9. \A x \in Res \ W : pool'[x] <= pool[x]
    <2>1. \A x \in Res \ (b_flags[b] \cap Gone(r)) : pool'[x] <= pool[x]
        BY <1>3, <1>4, GivenBack DEF Strip
    <2> QED BY <2>1
<1>10. Asleep(p)'
    <2>1. chan'[p] = "none"
        BY <1>1, <1>7
    <2> QED BY <2>1, Awake
<1>11. Placed(p)'
    <2>1. bp[p] \in Buf /\ "BUSY" \in b_flags[bp[p]]
        BY <1>1, OwnerFacts DEF OwnerOK
    <2>2. b_flags'[bp[p]] = b_flags[bp[p]] /\ Placed(p)
        BY <1>4, <1>5, <2>1 DEF WakeInv
    <2>3. pc[p] # "capture"
        BY <1>1 DEF Owning
    <2> QED BY <1>1, <1>2, <2>2, <2>3 DEF Placed
<1> HIDE DEF W
<1> QED BY <1>1, <1>2, <1>4, <1>5, <1>6, <1>7, <1>8, <1>9, <1>10, <1>11, BufferChanged

LEMMA SpaceSleepWakes ==
    ASSUME TypeInv, TypeInv', OwnInv, OwnInv', WakeInv, NEW p \in Proc, NEW l \in SpaceLabel,
           SpaceSleep(p, l)
    PROVE  WakeInv'
<1>1. /\ pc[p] = l /\ cur \in {p, NoProc} /\ Space(l) \in Res /\ l # "bwpost"
      /\ UNCHANGED <<b_flags, b_length, hashed, io, basyncnt, pool, bfwanted, basynwait>>
      /\ UNCHANGED <<bp, wflag, freelist>>
      /\ reswant' = reswant \cup {Space(l)}
      /\ pool[Space(l)] < b_length[bp[p]] /\ Strippable(Space(l)) = {}
    BY SpaceLabels DEF SpaceSleep, SpaceNeeded, Runs, headers, iovars, SpaceLabel
<1>2. /\ OthersStay(p) /\ (\A q \in Proc \ {p} : chan'[q] = chan[q])
      /\ pc' = pc /\ chan'[p] = Space(l)
    BY <1>1 DEF SpaceSleep, SleepOn, OthersStay, TypeInv, TypeOK, ProcType
<1>3. Asleep(p)'
    <2>1. \A x : Strippable(x)' = Strippable(x)
        BY <1>1 DEF Strippable, OnFreelist
    <2>2. Strippable(chan[p])' = {}
        BY <1>1, <1>2, <2>1
    <2>3. chan'[p] \in Res \ Buf /\ chan'[p] # "freelist" /\ chan'[p] # "basyncnt"
        BY <1>1, <1>2, NamesAssumption DEF Res
    <2>4. pc'[p] \in SpaceLabel /\ chan'[p] \in reswant' /\ pool'[chan'[p]] < b_length'[bp'[p]]
        BY <1>1, <1>2
    <2> QED BY <2>2, <2>3, <2>4 DEF Asleep
<1>4. Placed(p)'
    BY <1>1, <1>2 DEF WakeInv, Placed, SpaceLabel
<1> QED BY <1>1, <1>2, <1>3, <1>4, QuietStep

LEMMA PagesSleepWakes ==
    ASSUME TypeInv, TypeInv', OwnInv, OwnInv', WakeInv, NEW p \in Proc, PagesSleep(p)
    PROVE  WakeInv'
<1>1. /\ pc[p] = "newpages" /\ cur \in {p, NoProc}
      /\ UNCHANGED <<b_flags, b_length, hashed, io, basyncnt, pool, bfwanted, basynwait, reswant>>
      /\ UNCHANGED <<bp, wflag>>
    BY DEF PagesSleep, Runs, headers, iovars, spacevars
<1>2. /\ OthersStay(p) /\ (\A q \in Proc \ {p} : chan'[q] = chan[q])
      /\ pc'[p] = "newpages" /\ chan'[p] = "none"
    BY <1>1 DEF PagesSleep, SleepOn, OthersStay, TypeInv, TypeOK, ProcType
<1>3. Asleep(p)' /\ Placed(p)'
    BY <1>1, <1>2, Awake DEF WakeInv, Placed
<1> QED BY <1>1, <1>2, <1>3, QuietStep

LEMMA PagesThereWakes ==
    ASSUME TypeInv, TypeInv', OwnInv, OwnInv', WakeInv, NEW p \in Proc, PagesThere(p)
    PROVE  WakeInv'
<1>1. /\ pc[p] = "newpages" /\ cur \in {p, NoProc} /\ chan[p] = "none"
      /\ UNCHANGED <<b_flags, b_length, hashed, io, basyncnt, pool, bfwanted, basynwait, reswant>>
      /\ UNCHANGED <<bp, wflag, chan>>
    BY DEF PagesThere, Runs, headers, iovars, spacevars, locals
<1>2. OthersStay(p) /\ pc'[p] = "newkmap"
    BY <1>1 DEF PagesThere, Goto, OthersStay, TypeInv, TypeOK, ProcType
<1>3. Asleep(p)' /\ Placed(p)'
    BY <1>1, <1>2, Awake DEF WakeInv, Placed
<1> QED BY <1>1, <1>2, <1>3, QuietStep

LEMMA InsertBlockWakes ==
    ASSUME TypeInv, TypeInv', OwnInv, OwnInv', WakeInv, NEW p \in Proc, InsertBlock(p)
    PROVE  WakeInv'
<1>1. /\ pc[p] = "insert" /\ cur \in {p, NoProc} /\ chan[p] = "none"
      /\ UNCHANGED <<b_flags, b_length, io, basyncnt, pool, bfwanted, basynwait, reswant, chan>>
      /\ hashed' = hashed \cup {bp[p]}
    BY DEF InsertBlock, Runs, iovars, spacevars
<1>2. PICK b \in Buf : b = bp[p] /\ b \notin io
    BY <1>1, OwnerFacts DEF OwnerOK, Owning
<1>3. OthersStay(p) /\ pc'[p] = "got"
    BY DEF InsertBlock, Goto, OthersStay, locals, TypeInv, TypeOK, ProcType
<1>4. Held(b) /\ Mine(p, b)
    BY <1>1, <1>2 DEF Held, Unexposed, Mine, Owning
<1>5. Asleep(p)' /\ Placed(p)'
    BY <1>1, <1>3, Awake DEF Placed
<1>6. /\ {} \in SUBSET Res /\ reswant \ {} \subseteq reswant'
      /\ \A r \in Res \ {} : pool'[r] <= pool[r]
    BY <1>1 DEF TypeInv, TypeOK, IoType
<1>7. \A c \in Buf \ {b} : c \in hashed' => c \in hashed
    BY <1>1, <1>2
<1> QED BY <1>1, <1>3, <1>4, <1>5, <1>6, <1>7, BufferChanged

\* geteblk() clears B_WANTED with the other flags; nobody can have set it, since
\* the buffer is in no chain.
LEMMA InsertEmptyWakes ==
    ASSUME TypeInv, TypeInv', OwnInv, OwnInv', WakeInv, NEW p \in Proc, InsertEmpty(p)
    PROVE  WakeInv'
<1>1. /\ pc[p] = "insert" /\ cur \in {p, NoProc} /\ chan[p] = "none"
      /\ UNCHANGED <<b_length, hashed, io, basyncnt, bfwanted, basynwait>>
    BY DEF InsertEmpty, Runs, iovars
<1>2. PICK b \in Buf : b = bp[p] /\ b \notin io
    BY <1>1, OwnerFacts DEF OwnerOK, Owning
<1> DEFINE W == b_flags[b] \cap {"DMA"}
<1>3. OthersStay(p) /\ pc'[p] \in {"hold", "edma"}
    BY DEF InsertEmpty, Goto, OthersStay, locals, TypeInv, TypeOK, ProcType
<1>4. /\ b_flags'[b] = {"BUSY", "AGE", "INVAL"} \cup (b_flags[b] \cap {"MEM", "KMAP"})
      /\ \A c \in Buf \ {b} : b_flags'[c] = b_flags[c]
    BY <1>2 DEF InsertEmpty, TypeInv, TypeOK, HeaderType
<1>5. "WANTED" \notin b_flags[b]
    BY <1>1, <1>2 DEF WakeInv, Placed
<1>6. Held(b) /\ Mine(p, b)
    BY <1>1, <1>2, <1>4, <1>5 DEF Held, Unexposed, Mine, Owning
<1>7. /\ reswant' = reswant \ W /\ pool' = GiveBack(b, b_flags[b], {"DMA"})
      /\ \A q \in Proc : chan'[q] = IF chan[q] \in reswant \cap W THEN "none" ELSE chan[q]
    BY <1>2 DEF InsertEmpty, Wakeup
<1>8. W \in SUBSET Res /\ \A r \in Res \ W : pool'[r] <= pool[r]
    BY <1>7, GivenBack DEF Res
<1>9. Asleep(p)' /\ Placed(p)'
    <2>1. chan'[p] = "none"
        BY <1>1, <1>7
    <2> QED BY <1>3, <2>1, Awake DEF Placed
<1> HIDE DEF W
<1> QED BY <1>1, <1>3, <1>4, <1>6, <1>7, <1>8, <1>9, BufferChanged

LEMMA GotBlockWakes ==
    ASSUME TypeInv, TypeInv', OwnInv, OwnInv', WakeInv, NEW p \in Proc, GotBlock(p)
    PROVE  WakeInv'
<1>1. /\ pc[p] = "got" /\ cur \in {p, NoProc} /\ chan[p] = "none"
      /\ UNCHANGED <<b_length, hashed, io, basyncnt, pool, bfwanted, basynwait, reswant, chan>>
      /\ UNCHANGED <<bp, wflag>>
    BY DEF GotBlock, Runs, headers, iovars, spacevars
<1>2. PICK b \in Buf : b = bp[p] /\ b \notin io
    BY <1>1, OwnerFacts DEF OwnerOK, Owning
<1>3. OthersStay(p) /\ pc'[p] \in {"hold", "dma"}
    BY <1>1 DEF GotBlock, Goto, OthersStay, TypeInv, TypeOK, ProcType
<1>4. /\ b_flags[b] \subseteq b_flags'[b]
      /\ \A c \in Buf \ {b} : b_flags'[c] = b_flags[c]
    BY <1>2 DEF GotBlock, TypeInv, TypeOK, HeaderType
<1>5. Held(b) /\ Mine(p, b)
    <2>1. "BUSY" \in b_flags[b]
        BY <1>1, <1>2, OwnerFacts DEF OwnerOK, Owning
    <2> QED BY <1>1, <1>2, <1>4, <2>1 DEF Held, Unexposed, Mine, Owning
<1>6. Asleep(p)' /\ Placed(p)'
    <2>1. "ASYNC" \notin wflag'[p]
        BY <1>1 DEF TypeInv, LocalOK, Local
    <2> QED BY <1>1, <1>3, <2>1, Awake DEF Placed
<1>7. /\ {} \in SUBSET Res /\ reswant \ {} \subseteq reswant'
      /\ \A r \in Res \ {} : pool'[r] <= pool[r]
    BY <1>1 DEF TypeInv, TypeOK, IoType
<1> QED BY <1>1, <1>3, <1>4, <1>5, <1>6, <1>7, BufferChanged

\* From Strategy() to BwritePost() the count is behind by one: the driver has
\* the write, and the process is the only one in between.
LEMMA StrategyWakes ==
    ASSUME TypeInv, TypeInv', OwnInv, OwnInv', WakeInv, NEW p \in Proc, Strategy(p)
    PROVE  WakeInv'
<1>1. /\ pc[p] = "dma" /\ cur \in {p, NoProc} /\ chan[p] = "none"
      /\ UNCHANGED <<b_flags, b_length, hashed, basyncnt, pool, bfwanted, basynwait, reswant>>
      /\ UNCHANGED <<bp, wflag, chan>> /\ io' = io \cup {bp[p]}
    BY DEF Strategy, Runs, headers, spacevars, locals
<1>2. PICK b \in Buf : b = bp[p] /\ b \notin io /\ OwnerOK(p)
    BY <1>1, OwnerFacts DEF OwnerOK, Owning
<1>3. /\ OthersStay(p) /\ pc'[p] = (IF "ASYNC" \in wflag[p] THEN "bwpost" ELSE "iowait")
      /\ cur' = p
    BY <1>1 DEF Strategy, Goto, OthersStay, TypeInv, TypeOK, ProcType
<1>4. \A c \in Buf : Held(c) /\ Calm(c)
    BY <1>1 DEF Held, Unexposed, Calm
<1>5. \A q \in Proc \ {p} : Placed(q)' /\ pc[q] # "bwpost"
    BY <1>1, <1>3, <1>4, OthersPlaced
<1>6. Asleep(p)' /\ Placed(p)'
    <2>1. bp'[p] \in io' /\ chan'[p] = "none"
        BY <1>1
    <2> QED BY <1>1, <1>3, <2>1, Awake DEF Placed
<1>7. ASSUME NEW q \in Proc \ {p} PROVE Asleep(q)'
    <2>1. /\ Asleep(q) /\ pc'[q] = pc[q] /\ bp'[q] = bp[q] /\ basyncnt <= basyncnt'
          /\ io \subseteq io' /\ \A r \in Res \ {} : pool'[r] <= pool[r]
        BY <1>1, <1>3 DEF WakeInv, OthersStay, TypeInv, TypeOK, IoType
    <2>2. {} \in SUBSET Res /\ reswant \ {} \subseteq reswant'
          /\ chan'[q] = IF chan[q] \in reswant \cap {} THEN "none" ELSE chan[q]
        BY <1>1
    <2> QED BY <1>1, <1>4, <2>1, <2>2, SleeperKept
<1>8. AsyncCount'
    <2>1. AtPost = {}
        BY <1>1, <1>5 DEF AtPost
    <2>2. "ASYNC" \in b_flags[b] <=> "ASYNC" \in wflag[p]
        BY <1>1, <1>2 DEF OwnerOK, Owning
    <2>3. AsyncCount /\ basyncnt \in Int
        BY DEF WakeInv, TypeInv, TypeOK, IoType
    <2>4. CASE "ASYNC" \in wflag[p]
        <3>1. AtPost' = {p}
            BY <1>3, <1>5, <2>4 DEF AtPost, OthersStay
        <3>2. "READ" \notin b_flags[b]
            BY <1>1, <1>2, <2>4 DEF WakeInv, Placed
        <3>3. AsyncWrites' = AsyncWrites \cup {b} /\ b \notin AsyncWrites
            BY <1>1, <1>2, <2>2, <2>4, <3>2 DEF AsyncWrites
        <3>4. IsFiniteSet(AsyncWrites) /\ Cardinality(AsyncWrites) \in Nat
            BY WritesFinite
        <3>5. Cardinality(AsyncWrites') = Cardinality(AsyncWrites) + 1
            BY <3>3, <3>4, FS_AddElement
        <3>6. Cardinality(AtPost) = 0 /\ Cardinality(AtPost') = 1
            BY <2>1, <3>1, FS_EmptySet, FS_Singleton
        <3> QED BY <1>1, <2>3, <3>4, <3>5, <3>6, CountDef, CountDefNext
    <2>5. CASE "ASYNC" \notin wflag[p]
        <3>1. AtPost' = AtPost
            BY <1>1, <1>3, <2>5, PostKept
        <3>2. AsyncWrites' = AsyncWrites
            BY <1>1, <1>2, <2>2, <2>5 DEF AsyncWrites
        <3> QED BY <1>1, <2>3, <3>1, <3>2, CountDef, CountDefNext
    <2> QED BY <2>4, <2>5
<1> QED BY <1>5, <1>6, <1>7, <1>8 DEF WakeInv

LEMMA BwritePostWakes ==
    ASSUME TypeInv, TypeInv', OwnInv, OwnInv', WakeInv, NEW p \in Proc, BwritePost(p)
    PROVE  WakeInv'
<1>1. /\ pc[p] = "bwpost" /\ cur \in {p, NoProc} /\ chan[p] = "none"
      /\ UNCHANGED <<b_length, hashed, io, pool, bfwanted, basynwait, reswant, chan>>
      /\ basyncnt' = basyncnt + 1
    BY DEF BwritePost, Runs, headers, spacevars
<1>2. bp[p] \in Buf /\ ret[p] \in RetLabel
    BY <1>1 DEF TypeInv, LocalOK, Local
<1>3. OthersStay(p) /\ pc'[p] = ret[p]
    BY DEF BwritePost, Return, Goto, OthersStay, TypeInv, TypeOK, ProcType
<1>4. \A c \in Buf : b_flags[c] \subseteq b_flags'[c] /\ b_flags'[c] \subseteq b_flags[c] \cup {"AGE"}
    BY <1>2 DEF BwritePost, TypeInv, TypeOK, HeaderType
<1>5. \A c \in Buf : Held(c) /\ Calm(c)
    <2> SUFFICES ASSUME NEW c \in Buf PROVE Held(c) /\ Calm(c)
        OBVIOUS
    <2>1. CASE "BUSY" \in b_flags[c]
        BY <1>1, <1>4, <2>1 DEF Held, Unexposed, Calm
    <2>2. CASE "BUSY" \notin b_flags[c]
        BY <1>1, <1>4, <2>2 DEF Held, Unexposed, Calm, Res
    <2> QED BY <2>1, <2>2
<1>6. \A q \in Proc \ {p} : Placed(q)' /\ pc[q] # "bwpost"
    BY <1>1, <1>3, <1>5, OthersPlaced
<1>7. Asleep(p)' /\ Placed(p)'
    BY <1>1, <1>2, <1>3, Awake DEF Placed, RetLabel
<1>8. basyncnt \in Int
    BY DEF TypeInv, TypeOK, IoType
<1>9. ASSUME NEW q \in Proc \ {p} PROVE Asleep(q)'
    <2>1. /\ Asleep(q) /\ pc'[q] = pc[q] /\ bp'[q] = bp[q] /\ basyncnt <= basyncnt'
          /\ io \subseteq io' /\ \A r \in Res \ {} : pool'[r] <= pool[r]
        BY <1>1, <1>3, <1>8 DEF WakeInv, OthersStay, TypeInv, TypeOK, IoType
    <2>2. {} \in SUBSET Res /\ reswant \ {} \subseteq reswant'
          /\ chan'[q] = IF chan[q] \in reswant \cap {} THEN "none" ELSE chan[q]
        BY <1>1
    <2> QED BY <1>1, <1>5, <2>1, <2>2, SleeperKept
<1>10. AsyncCount'
    <2>1. AtPost = {p}
        BY <1>1, PostAlone DEF WakeInv
    <2>2. AtPost' = {}
        BY <1>2, <1>3, <1>6 DEF AtPost, OthersStay, RetLabel
    <2>3. AsyncWrites' = AsyncWrites
        <3>1. \A c \in io : "ASYNC" \in b_flags'[c] <=> "ASYNC" \in b_flags[c]
            BY <1>4 DEF TypeInv, TypeOK, IoType
        <3>2. \A c \in io : "READ" \in b_flags'[c] <=> "READ" \in b_flags[c]
            BY <1>4 DEF TypeInv, TypeOK, IoType
        <3> QED BY <1>1, <3>1, <3>2 DEF AsyncWrites
    <2>4. Cardinality(AtPost) = 1 /\ Cardinality(AtPost') = 0
        BY <2>1, <2>2, FS_EmptySet, FS_Singleton
    <2>5. AsyncCount
        BY DEF WakeInv
    <2> QED BY <1>1, <1>8, <2>3, <2>4, <2>5, CountDef, CountDefNext
<1> QED BY <1>6, <1>7, <1>9, <1>10 DEF WakeInv

\* iowait() tests B_DONE and sleeps in one go: the interrupt is still to come.
LEMMA IowaitSleepWakes ==
    ASSUME TypeInv, TypeInv', OwnInv, OwnInv', WakeInv, NEW p \in Proc, IowaitSleep(p)
    PROVE  WakeInv'
<1>1. /\ pc[p] = "iowait" /\ cur \in {p, NoProc} /\ "DONE" \notin b_flags[bp[p]]
      /\ UNCHANGED <<b_flags, b_length, hashed, io, basyncnt, pool, bfwanted, basynwait, reswant>>
      /\ UNCHANGED <<bp, wflag>>
    BY DEF IowaitSleep, Runs, headers, iovars, spacevars
<1>2. /\ OthersStay(p) /\ (\A q \in Proc \ {p} : chan'[q] = chan[q])
      /\ pc'[p] = "iowait" /\ chan'[p] = bp[p]
    BY <1>1 DEF IowaitSleep, SleepOn, OthersStay, TypeInv, TypeOK, ProcType
<1>3. bp[p] \in Buf /\ bp[p] \in io
    BY <1>1, OwnerFacts DEF WakeInv, Placed, Owning
<1>4. Asleep(p)' /\ Placed(p)'
    BY <1>1, <1>2, <1>3, NamesAssumption DEF Asleep, Placed
<1> QED BY <1>1, <1>2, <1>4, QuietStep

LEMMA IowaitReadWakes ==
    ASSUME TypeInv, TypeInv', OwnInv, OwnInv', WakeInv, NEW p \in Proc, IowaitRead(p)
    PROVE  WakeInv'
<1>1. /\ pc[p] = "iowait" /\ cur \in {p, NoProc} /\ chan[p] = "none"
      /\ UNCHANGED <<b_flags, b_length, hashed, io, basyncnt, pool, bfwanted, basynwait, reswant>>
      /\ UNCHANGED <<bp, wflag, chan>>
    BY DEF IowaitRead, Runs, headers, iovars, spacevars
<1>2. OthersStay(p) /\ pc'[p] = "hold"
    BY <1>1 DEF IowaitRead, Goto, OthersStay, TypeInv, TypeOK, ProcType
<1>3. Asleep(p)' /\ Placed(p)'
    BY <1>1, <1>2, Awake DEF Placed
<1> QED BY <1>1, <1>2, <1>3, QuietStep

\* The owner releases its buffer and returns.
LEMMA OwnerReleases ==
    ASSUME TypeInv, TypeInv', OwnInv, OwnInv', WakeInv, NEW p \in Proc, cur \in {p, NoProc},
           chan[p] = "none", pc[p] \in Owning, bp[p] \notin io, NEW fl, NEW f,
           Brelse(bp[p], fl, freelist, f, {}), b_flags[bp[p]] \subseteq fl,
           NEW l \in RetLabel, Return(p, l), UNCHANGED <<io, basyncnt, basynwait, hashed>>
    PROVE  WakeInv'
<1>1. PICK b \in Buf : b = bp[p]
    BY OwnerFacts
<1>2. Mine(p, b) /\ pc[p] # "bwpost"
    BY <1>1 DEF Mine, Owning
<1>3. OthersStay(p) /\ pc'[p] = l
    BY DEF Return, Goto, OthersStay, TypeInv, TypeOK, ProcType
<1>4. Placed(p)' /\ pc'[p] # "bwpost"
    BY <1>3 DEF Placed, RetLabel
<1> QED BY <1>1, <1>2, <1>3, <1>4, ReleaseStep

LEMMA IowaitWrittenWakes ==
    ASSUME TypeInv, TypeInv', OwnInv, OwnInv', WakeInv, NEW p \in Proc, IowaitWritten(p)
    PROVE  WakeInv'
<1>1. /\ pc[p] = "iowait" /\ "DONE" \in b_flags[bp[p]] /\ ret[p] \in RetLabel
      /\ cur \in {p, NoProc} /\ chan[p] = "none"
      /\ Brelse(bp[p], b_flags[bp[p]], freelist, fresh, {}) /\ Return(p, ret[p])
      /\ UNCHANGED <<io, basyncnt, basynwait, hashed>>
    BY DEF IowaitWritten, Runs, iovars, TypeInv, LocalOK, Local
<1>2. bp[p] \notin io /\ pc[p] \in Owning
    BY <1>1, IowaitOver DEF Owning
<1> QED BY <1>1, <1>2, OwnerReleases

LEMMA ReleaseActionWakes ==
    ASSUME TypeInv, TypeInv', OwnInv, OwnInv', WakeInv, NEW p \in Proc, Release(p)
    PROVE  WakeInv'
<1>1. /\ pc[p] = "hold" /\ cur \in {p, NoProc} /\ chan[p] = "none"
      /\ Brelse(bp[p], b_flags[bp[p]], freelist, fresh, {}) /\ Return(p, "user")
      /\ UNCHANGED <<io, basyncnt, basynwait, hashed>>
    BY DEF Release, Runs, iovars
<1>2. bp[p] \notin io /\ pc[p] \in Owning /\ "user" \in RetLabel
    BY <1>1, OwnerFacts DEF OwnerOK, Owning, RetLabel
<1> QED BY <1>1, <1>2, OwnerReleases

LEMMA bdwriteWakes ==
    ASSUME TypeInv, TypeInv', OwnInv, OwnInv', WakeInv, NEW p \in Proc, bdwrite(p)
    PROVE  WakeInv'
<1> DEFINE fl == b_flags[bp[p]] \cup {"DELWRI", "DONE"}
<1>1. /\ pc[p] = "hold" /\ cur \in {p, NoProc} /\ chan[p] = "none"
      /\ Brelse(bp[p], fl, freelist, Filled(bp[p]), {}) /\ Return(p, "user")
      /\ UNCHANGED <<io, basyncnt, basynwait, hashed>>
    BY DEF bdwrite, Writable, Runs, iovars
<1>2. bp[p] \notin io /\ pc[p] \in Owning /\ "user" \in RetLabel /\ b_flags[bp[p]] \subseteq fl
    BY <1>1, OwnerFacts DEF OwnerOK, Owning, RetLabel
<1> HIDE DEF fl
<1> QED BY <1>1, <1>2, OwnerReleases

LEMMA WriteNowWakes ==
    ASSUME TypeInv, TypeInv', OwnInv, OwnInv', WakeInv, NEW p \in Proc, NEW mode, WriteNow(p, mode)
    PROVE  WakeInv'
<1>1. /\ pc[p] = "hold" /\ cur \in {p, NoProc} /\ chan[p] = "none"
      /\ UNCHANGED <<b_length, hashed, io, basyncnt, pool, bfwanted, basynwait, reswant, chan>>
    BY DEF WriteNow, Writable, Runs, headers, iovars, spacevars
<1>2. PICK b \in Buf : b = bp[p] /\ b \notin io /\ "BUSY" \in b_flags[b]
    BY <1>1, OwnerFacts DEF OwnerOK, Owning
<1>3. OthersStay(p) /\ pc'[p] = "dma" /\ bp'[p] = b
    BY <1>2 DEF WriteNow, Bwrite, Goto, OthersStay, TypeInv, TypeOK, ProcType
<1>4. /\ b_flags'[b] = (b_flags[b] \cup mode) \ {"READ", "DONE", "ERROR", "DELWRI"}
      /\ \A c \in Buf \ {b} : b_flags'[c] = b_flags[c]
    BY <1>2 DEF WriteNow, Bwrite, TypeInv, TypeOK, HeaderType
<1>5. Held(b) /\ Mine(p, b)
    BY <1>1, <1>2, <1>4 DEF Held, Unexposed, Mine, Owning
<1>6. Asleep(p)' /\ Placed(p)'
    BY <1>1, <1>3, <1>4, Awake DEF Placed
<1>7. /\ {} \in SUBSET Res /\ reswant \ {} \subseteq reswant'
      /\ \A r \in Res \ {} : pool'[r] <= pool[r]
    BY <1>1 DEF TypeInv, TypeOK, IoType
<1> QED BY <1>1, <1>3, <1>4, <1>5, <1>6, <1>7, BufferChanged

LEMMA LoopDoneWakes ==
    ASSUME TypeInv, TypeInv', OwnInv, OwnInv', WakeInv, NEW p \in Proc, cur \in {p, NoProc},
           chan[p] = "none", pc[p] # "bwpost",
           NEW l \in {"user", "bdwait", "binval"}, LoopDone(p, l)
    PROVE  WakeInv'
<1>1. UNCHANGED <<b_flags, b_length, hashed, io, basyncnt, pool, bfwanted, basynwait, reswant, chan>>
    BY DEF LoopDone, headers, iovars, spacevars
<1>2. OthersStay(p) /\ pc'[p] = l
    BY DEF LoopDone, Return, Goto, OthersStay, TypeInv, TypeOK, ProcType
<1>3. Asleep(p)' /\ Placed(p)' /\ pc'[p] # "bwpost"
    BY <1>1, <1>2, Awake DEF Placed
<1> QED BY <1>1, <1>2, <1>3, QuietStep

LEMMA btossWakes ==
    ASSUME TypeInv, TypeInv', OwnInv, OwnInv', WakeInv, NEW p \in Proc, btoss(p)
    PROVE  WakeInv'
<1>1. pc[p] = "toss" /\ cur \in {p, NoProc} /\ chan[p] = "none"
    BY DEF btoss, Runs
<1>2. CASE Tossable(p) # {}
    <2>1. PICK b \in Tossable(p) :
            /\ Brelse(b, b_flags[b] \cup {"BUSY", "INVAL"}, Without(b), fresh, {})
            /\ Goto(p, "toss") /\ UNCHANGED <<bp, wflag, hashed, io, basyncnt, basynwait>>
        <3>1. Tossable(p) \subseteq OnFreelist
            BY DEF Tossable
        <3>2. FirstOf(Tossable(p)) \in Tossable(p)
            BY <1>2, <3>1, FirstOfIn DEF TypeInv, TypeOK, HeaderType
        <3> QED BY <1>2, <3>2 DEF btoss, iovars, locals
    <2>2. b \in Buf /\ "BUSY" \notin b_flags[b]
        BY DEF Tossable, OnFreelist, TypeInv, TypeOK, HeaderType
    <2>3. OthersStay(p)
        BY <2>1 DEF Goto, OthersStay, TypeInv, TypeOK, ProcType
    <2> QED BY <1>1, <2>1, <2>2, <2>3, TossWakes
<1>3. CASE Tossable(p) = {}
    <2>1. LoopDone(p, "user")
        BY <1>3 DEF btoss, LoopDone
    <2> QED BY <1>1, <2>1, LoopDoneWakes
<1> QED BY <1>2, <1>3

LEMMA bflushWakes ==
    ASSUME TypeInv, TypeInv', OwnInv, OwnInv', WakeInv, NEW p \in Proc, bflush(p)
    PROVE  WakeInv'
<1>1. pc[p] = "flush" /\ cur \in {p, NoProc} /\ chan[p] = "none"
    BY DEF bflush, Runs
<1>2. CASE Dirty # {} /\ WriteOut(p, FirstOf(Dirty), "flush")
    <2>1. FirstOf(Dirty) \in Dirty
        <3>1. Dirty \subseteq OnFreelist
            BY DEF Dirty
        <3> QED BY <1>2, <3>1, FirstOfIn DEF TypeInv, TypeOK, HeaderType
    <2>2. PICK b \in Dirty : WriteOut(p, b, "flush")
        BY <1>2, <2>1
    <2>3. b \in Buf /\ "BUSY" \notin b_flags[b]
        BY DEF Dirty, OwnInv, FreeIffNotBusy
    <2> QED BY <1>1, <2>2, <2>3, WriteOutWakes
<1>3. CASE \E l \in {"user", "bdwait"} : LoopDone(p, l)
    BY <1>1, <1>3, LoopDoneWakes
<1> QED BY <1>2, <1>3 DEF bflush

LEMMA bdsyncWakes ==
    ASSUME TypeInv, TypeInv', OwnInv, OwnInv', WakeInv, NEW p \in Proc, bdsync(p)
    PROVE  WakeInv'
<1>1. pc[p] = "sync" /\ cur \in {p, NoProc} /\ chan[p] = "none"
    BY DEF bdsync, Runs
<1>2. CASE \E b \in Buf : /\ "DELWRI" \in b_flags[b] /\ b_flags[b] \cap {"BUSY", "INVAL"} = {}
                          /\ WriteOut(p, b, "sync")
    <2>1. PICK b \in Buf : "BUSY" \notin b_flags[b] /\ WriteOut(p, b, "sync")
        BY <1>2
    <2> QED BY <1>1, <2>1, WriteOutWakes
<1>3. CASE LoopDone(p, "user")
    BY <1>1, <1>3, LoopDoneWakes
<1> QED BY <1>2, <1>3 DEF bdsync

\* bdwait() sleeps when basyncnt is not zero.  It is then positive: no write is
\* between the driver and its increment while bdwait() runs.
LEMMA bdwaitWakes ==
    ASSUME TypeInv, TypeInv', OwnInv, OwnInv', WakeInv, NEW p \in Proc, bdwait(p)
    PROVE  WakeInv'
<1>1. pc[p] = "bdwait" /\ cur \in {p, NoProc} /\ chan[p] = "none"
    BY DEF bdwait, Runs
<1>2. CASE basyncnt # 0
    <2>1. /\ UNCHANGED <<b_flags, b_length, hashed, io, basyncnt, pool, bfwanted, reswant>>
          /\ basynwait' = TRUE
        BY <1>2 DEF bdwait, headers, spacevars
    <2>2. /\ OthersStay(p) /\ (\A q \in Proc \ {p} : chan'[q] = chan[q])
          /\ pc'[p] = "bdwait" /\ chan'[p] = "basyncnt"
        BY <1>2 DEF bdwait, SleepOn, OthersStay, TypeInv, TypeOK, ProcType
    <2>3. basyncnt > 0
        <3>1. \A q \in Proc : pc[q] # "bwpost"
            BY <1>1, NamesAssumption DEF WakeInv, Placed
        <3>2. AtPost = {}
            BY <3>1 DEF AtPost
        <3>3. Cardinality(AtPost) = 0 /\ Cardinality(AsyncWrites) \in Nat
            BY <3>2, FS_EmptySet, WritesFinite
        <3>4. basyncnt \in Int /\ AsyncCount
            BY DEF TypeInv, TypeOK, IoType, WakeInv
        <3> QED BY <1>2, <3>3, <3>4, CountDef
    <2>4. Asleep(p)' /\ Placed(p)'
        BY <2>1, <2>2, <2>3, Channels DEF Asleep, Placed
    <2> QED BY <1>1, <2>1, <2>2, <2>4, QuietStep
<1>3. CASE \E l \in {"user", "binval"} : LoopDone(p, l)
    BY <1>1, <1>3, LoopDoneWakes
<1> QED BY <1>2, <1>3 DEF bdwait

LEMMA binvalWakes ==
    ASSUME TypeInv, TypeInv', OwnInv, OwnInv', WakeInv, NEW p \in Proc, binval(p)
    PROVE  WakeInv'
<1>1. /\ pc[p] = "binval" /\ cur \in {p, NoProc} /\ chan[p] = "none"
      /\ UNCHANGED <<b_length, hashed, io, basyncnt, pool, bfwanted, basynwait, reswant, chan>>
    BY DEF binval, Runs, headers, iovars, spacevars
<1>2. OthersStay(p) /\ pc'[p] = "user"
    BY DEF binval, Return, Goto, OthersStay, TypeInv, TypeOK, ProcType
<1>3. \A c \in Buf : b_flags'[c] = b_flags[c] \/ b_flags'[c] = b_flags[c] \cup {"INVAL", "AGE"}
    BY DEF binval
<1>4. \A c \in Buf : Held(c) /\ Calm(c)
    <2> SUFFICES ASSUME NEW c \in Buf PROVE Held(c) /\ Calm(c)
        OBVIOUS
    <2>1. CASE b_flags'[c] = b_flags[c]
        BY <1>1, <2>1 DEF Held, Unexposed, Calm
    <2>2. CASE b_flags'[c] = b_flags[c] \cup {"INVAL", "AGE"}
        BY <1>1, <2>2 DEF Held, Unexposed, Calm
    <2> QED BY <1>3, <2>1, <2>2
<1>5. Asleep(p)' /\ Placed(p)'
    BY <1>1, <1>2, Awake DEF Placed
<1>6. /\ {} \in SUBSET Res /\ reswant \ {} \subseteq reswant'
      /\ (\A r \in Res \ {} : pool'[r] <= pool[r])
      /\ \A q \in Proc \ {p} : chan'[q] = IF chan[q] \in reswant \cap {} THEN "none" ELSE chan[q]
    BY <1>1 DEF TypeInv, TypeOK, IoType
<1> QED BY <1>1, <1>2, <1>4, <1>5, <1>6, OrdinaryStep

LEMMA binvalfreeWakes ==
    ASSUME TypeInv, TypeInv', OwnInv, OwnInv', WakeInv, NEW p \in Proc, binvalfree(p)
    PROVE  WakeInv'
<1>1. pc[p] = "invalfree" /\ cur \in {p, NoProc} /\ chan[p] = "none"
    BY DEF binvalfree, Runs
<1>2. CASE OfDevice # {}
    <2>1. PICK b \in OfDevice : b = FirstOf(OfDevice)
        <3>1. OfDevice \subseteq OnFreelist
            BY DEF OfDevice
        <3> QED BY <1>2, <3>1, FirstOfIn DEF TypeInv, TypeOK, HeaderType
    <2>2. b \in Buf /\ "BUSY" \notin b_flags[b]
        BY DEF OfDevice, OwnInv, FreeIffNotBusy
    <2>3. CASE WriteOut(p, b, "invalfree")
        BY <1>1, <2>2, <2>3, WriteOutWakes
    <2>4. CASE /\ b_flags' = [b_flags EXCEPT ![b] = @ \cup {"INVAL"}]
               /\ Goto(p, "invalfree")
               /\ UNCHANGED <<b_blkno, b_length, hashed, freelist, bfwanted, iovars, spacevars,
                              chan, locals, data, raced, tossed>>
        <3>1. UNCHANGED <<b_length, hashed, io, basyncnt, pool, bfwanted, basynwait, reswant, chan>>
            BY <2>4 DEF iovars, spacevars
        <3>2. OthersStay(p) /\ pc'[p] = "invalfree"
            BY <2>4 DEF Goto, OthersStay, locals, TypeInv, TypeOK, ProcType
        <3>3. /\ b_flags'[b] = b_flags[b] \cup {"INVAL"}
              /\ \A c \in Buf \ {b} : b_flags'[c] = b_flags[c]
            BY <2>2, <2>4 DEF TypeInv, TypeOK, HeaderType
        <3>4. Held(b) /\ Mine(p, b)
            BY <2>2, <3>3 DEF Held, Unexposed, Mine
        <3>5. Asleep(p)' /\ Placed(p)'
            BY <1>1, <3>1, <3>2, Awake DEF Placed
        <3>6. /\ {} \in SUBSET Res /\ reswant \ {} \subseteq reswant'
              /\ \A r \in Res \ {} : pool'[r] <= pool[r]
            BY <3>1 DEF TypeInv, TypeOK, IoType
        <3> QED BY <1>1, <2>2, <3>1, <3>2, <3>3, <3>4, <3>5, <3>6, BufferChanged
    <2> QED BY <1>2, <2>1, <2>3, <2>4 DEF binvalfree
<1>3. CASE OfDevice = {}
    <2>1. LoopDone(p, "user")
        BY <1>3 DEF binvalfree
    <2> QED BY <1>1, <2>1, LoopDoneWakes
<1> QED BY <1>2, <1>3

LEMMA EnterWakes ==
    ASSUME TypeInv, TypeInv', OwnInv, OwnInv', WakeInv, NEW p \in Proc, Enter(p)
    PROVE  WakeInv'
<1>1. /\ pc[p] = "user" /\ cur \in {p, NoProc} /\ chan[p] = "none"
      /\ UNCHANGED <<b_flags, b_length, hashed, io, basyncnt, pool, bfwanted, basynwait, reswant, chan>>
    BY DEF Enter, Runs, headers, iovars, spacevars
<1>2. PICK c \in Call : Goto(p, Entry(c.op))
    BY DEF Enter
<1>3. Entry(c.op) \in {"find", "newbuf", "toss", "flush", "sync", "bdwait", "invalfree"}
    <2>1. c.op \in Op
        BY CallAssumption
    <2> QED BY <2>1 DEF Entry, Op
<1>4. OthersStay(p) /\ pc'[p] = Entry(c.op)
    BY <1>2 DEF Enter, Goto, OthersStay, TypeInv, TypeOK, ProcType
<1>5. Asleep(p)' /\ Placed(p)' /\ pc'[p] # "bwpost"
    BY <1>1, <1>3, <1>4, Awake DEF Placed
<1> QED BY <1>1, <1>4, <1>5, QuietStep

\* The interrupt wakes the process that waits for its transfer and everybody who
\* found the buffer busy; the last of the asynchronous writes wakes bdwait().
LEMMA iodoneWakes ==
    ASSUME TypeInv, TypeInv', OwnInv, OwnInv', WakeInv, NEW b \in Buf, iodone(b)
    PROVE  WakeInv'
<1>1. PICK ok \in IoResult :
        LET fl == b_flags[b] \cup {"DONE"} \cup IF ok THEN {} ELSE {"ERROR"}
            t == Transfer(b, ok)
            f == [fresh EXCEPT ![b] = t.copy]
            count == IF "READ" \in fl THEN basyncnt ELSE basyncnt - 1
            idle == count = 0 /\ basynwait
        IN  /\ b \in io /\ io' = io \ {b}
            /\ \/ /\ "ASYNC" \in fl
                  /\ basyncnt' = count
                  /\ basynwait' = (basynwait /\ ~idle)
                  /\ Brelse(b, fl, freelist, f, IF idle THEN {"basyncnt"} ELSE {})
                  /\ UNCHANGED <<b_blkno, hashed>>
               \/ /\ "ASYNC" \notin fl
                  /\ b_flags' = [b_flags EXCEPT ![b] = fl \ {"WANTED"}]
                  /\ Wakeup({b})
                  /\ UNCHANGED <<headers, freelist, bfwanted, basyncnt, basynwait, spacevars>>
            /\ UNCHANGED <<pc, locals, cur, raced, tossed>>
    BY Zenon DEF iodone
<1> DEFINE fl == b_flags[b] \cup {"DONE"} \cup IF ok THEN {} ELSE {"ERROR"}
           count == IF "READ" \in fl THEN basyncnt ELSE basyncnt - 1
           idle == count = 0 /\ basynwait
<1>2. b \in io /\ io' = io \ {b} /\ UNCHANGED <<pc, bp, wflag, cur, hashed>>
    BY <1>1 DEF locals, headers
<1>3. /\ b_flags[b] \subseteq fl /\ ("ASYNC" \in fl <=> "ASYNC" \in b_flags[b])
      /\ ("READ" \in fl <=> "READ" \in b_flags[b]) /\ "DONE" \in fl /\ "BUSY" \in fl
      /\ "BUSY" \in b_flags[b]
    BY <1>2 DEF OwnInv, OwnOK, BufOK
<1>4. basyncnt \in Int /\ AsyncCount /\ AtPost' = AtPost
    BY <1>2 DEF TypeInv, TypeOK, IoType, WakeInv, AtPost
<1>5. CASE /\ "ASYNC" \in fl /\ basyncnt' = count /\ basynwait' = (basynwait /\ ~idle)
           /\ \E f : Brelse(b, fl, freelist, f, IF idle THEN {"basyncnt"} ELSE {})
    <2>1. PICK f : Brelse(b, fl, freelist, f, IF idle THEN {"basyncnt"} ELSE {})
        BY <1>5
    <2>2. \A q \in Proc : ~Owns(q, b)
        BY <1>2, <1>3, <1>5 DEF OwnInv, OwnOK, OwnerOK, Owns, TypeInv, LocalOK, Local
    <2>3. \A c \in Buf \ {b} : b_flags'[c] = b_flags[c]
        BY <2>1 DEF Brelse, TypeInv, TypeOK, HeaderType
    <2>4. ASSUME NEW q \in Proc PROVE Placed(q)'
        <3>1. Placed(q)
            BY DEF WakeInv
        <3>2. CASE pc[q] \in {"capture", "bwpost"}
            BY <1>2, <3>1, <3>2 DEF Placed
        <3>3. CASE pc[q] \notin {"capture", "bwpost"}
            <4>1. \A c \in Buf : Calm(c) \/ ~Owns(q, c)
                BY <1>2, <2>2, <2>3 DEF Calm
            <4> QED BY <1>2, <3>1, <3>3, <4>1, PlacedKept
        <3> QED BY <3>2, <3>3
    <2>5. ASSUME NEW q \in Proc PROVE Asleep(q)'
        <3>1. Asleep(q) /\ pc'[q] = pc[q] /\ bp'[q] = bp[q] /\ \A c \in io : c \in io' \/ c = b
            BY <1>2 DEF WakeInv
        <3>2. chan'[q] = "basyncnt" => basynwait' /\ basyncnt' > 0
            <4> SUFFICES ASSUME chan'[q] = "basyncnt" PROVE basynwait' /\ basyncnt' > 0
                OBVIOUS
            <4>1. chan[q] = "basyncnt" /\ ~idle
                BY <2>1 DEF Brelse, Wakeup
            <4>2. basynwait /\ basyncnt > 0
                BY <3>1, <4>1 DEF Asleep
            <4>3. basynwait'
                BY <1>5, <4>1, <4>2
            <4>4. basyncnt' > 0
                BY <1>4, <1>5, <4>1, <4>2
            <4> QED BY <4>3, <4>4
        <3> HIDE DEF fl, idle
        <3> QED BY <1>3, <2>1, <2>2, <3>1, <3>2, BrelseWakes
    <2>6. AsyncCount'
        <3>1. IsFiniteSet(AsyncWrites) /\ Cardinality(AsyncWrites) \in Nat
            BY WritesFinite
        <3>2. AsyncWrites' = AsyncWrites \ {b}
            BY <1>2, <2>3 DEF AsyncWrites, TypeInv, TypeOK, IoType
        <3>3. CASE "READ" \in fl
            <4>1. AsyncWrites' = AsyncWrites
                BY <1>3, <3>2, <3>3 DEF AsyncWrites
            <4>2. basyncnt' = basyncnt
                BY <1>5, <3>3
            <4> QED BY <1>4, <4>1, <4>2, CountDef, CountDefNext
        <3>4. CASE "READ" \notin fl
            <4>1. b \in AsyncWrites
                BY <1>2, <1>3, <1>5, <3>4 DEF AsyncWrites
            <4>2. Cardinality(AsyncWrites') = Cardinality(AsyncWrites) - 1
                BY <3>1, <3>2, <4>1, FS_RemoveElement
            <4>3. basyncnt' = basyncnt - 1
                BY <1>5, <3>4
            <4>4. Cardinality(AtPost) \in Int
                <5>1. CASE \E q \in Proc : pc[q] = "bwpost"
                    <6>1. PICK q \in Proc : pc[q] = "bwpost"
                        BY <5>1
                    <6>2. AtPost = {q}
                        BY <6>1, PostAlone DEF WakeInv
                    <6> QED BY <6>2, FS_Singleton
                <5>2. CASE ~\E q \in Proc : pc[q] = "bwpost"
                    <6>1. AtPost = {}
                        BY <5>2 DEF AtPost
                    <6> QED BY <6>1, FS_EmptySet
                <5> QED BY <5>1, <5>2
            <4> QED BY <1>4, <3>1, <4>2, <4>3, <4>4, CountDef, CountDefNext
        <3> QED BY <3>3, <3>4
    <2> QED BY <2>4, <2>5, <2>6 DEF WakeInv
<1>6. CASE /\ "ASYNC" \notin fl /\ b_flags' = [b_flags EXCEPT ![b] = fl \ {"WANTED"}]
           /\ Wakeup({b})
           /\ UNCHANGED <<headers, freelist, bfwanted, basyncnt, basynwait, spacevars>>
    <2>1. /\ b_flags'[b] = fl \ {"WANTED"} /\ (\A c \in Buf \ {b} : b_flags'[c] = b_flags[c])
          /\ UNCHANGED <<b_length, pool, reswant, freelist, bfwanted, basyncnt, basynwait>>
          /\ \A q \in Proc : chan'[q] = IF chan[q] = b THEN "none" ELSE chan[q]
        BY <1>6 DEF headers, spacevars, Wakeup, TypeInv, TypeOK, HeaderType
    <2>2. ASSUME NEW q \in Proc PROVE Placed(q)'
        <3>1. Placed(q)
            BY DEF WakeInv
        <3>2. CASE pc[q] \in {"capture", "bwpost"}
            BY <1>2, <3>1, <3>2 DEF Placed
        <3>3. CASE Owns(q, b)
            <4>1. pc[q] = "iowait" /\ bp[q] = b
                BY <1>2, <3>3 DEF OwnInv, OwnOK, OwnerOK, Owns
            <4> QED BY <1>2, <1>3, <2>1, <4>1 DEF Placed
        <3>4. CASE pc[q] \notin {"capture", "bwpost"} /\ ~Owns(q, b)
            <4>1. \A c \in Buf : Calm(c) \/ ~Owns(q, c)
                BY <1>2, <2>1, <3>4 DEF Calm
            <4> QED BY <1>2, <3>1, <3>4, <4>1, PlacedKept
        <3> QED BY <3>2, <3>3, <3>4
    <2>3. ASSUME NEW q \in Proc PROVE Asleep(q)'
        <3>1. Asleep(q)
            BY DEF WakeInv
        <3>2. CASE chan[q] = b
            BY <2>1, <3>2, Awake
        <3>3. CASE chan[q] # b
            <4>1. chan'[q] = chan[q]
                BY <2>1, <3>3
            <4>2. chan[q] \in Buf =>
                    \/ pc[q] = "find" /\ {"BUSY", "WANTED"} \subseteq b_flags'[chan[q]]
                    \/ pc[q] = "iowait" /\ chan[q] = bp[q] /\ bp[q] \in io'
                BY <1>2, <2>1, <3>1, <3>3 DEF Asleep
            <4>3. \A c \in Buf : Unexposed(c)
                BY <1>3, <2>1 DEF Unexposed
            <4>4. chan[q] \in Res => Strippable(chan[q])' = {}
                <5> SUFFICES ASSUME chan[q] \in Res PROVE Strippable(chan[q])' = {}
                    OBVIOUS
                <5>1. PICK r \in Res : r = chan[q]
                    OBVIOUS
                <5>2. Strippable(r)' = {}
                    BY <3>1, <4>3, <5>1, NothingNewToStrip DEF Asleep
                <5> QED BY <4>1, <5>1, <5>2
            <4> QED BY <1>2, <2>1, <3>1, <4>1, <4>2, <4>4 DEF Asleep
        <3> QED BY <3>2, <3>3
    <2>4. AsyncCount'
        <3>1. AsyncWrites' = AsyncWrites
            BY <1>2, <1>3, <1>6, <2>1 DEF AsyncWrites, TypeInv, TypeOK, IoType
        <3> QED BY <1>4, <2>1, <3>1, CountDef, CountDefNext
    <2> QED BY <2>2, <2>3, <2>4 DEF WakeInv
<1> QED BY <1>1, <1>5, <1>6, Zenon

-----------------------------------------------------------------------------
LEMMA WakeStutter ==
    ASSUME WakeInv, UNCHANGED vars
    PROVE  WakeInv'
<1>1. UNCHANGED <<b_flags, b_length, hashed, freelist, bfwanted, io, basyncnt, basynwait,
                  pool, reswant, pc, chan, bp, wflag, cur>>
    BY DEF vars, headers, iovars, spacevars, locals
<1>2. ASSUME NEW q \in Proc PROVE Asleep(q)' /\ Placed(q)'
    <2>1. Asleep(q) /\ Placed(q)
        BY DEF WakeInv
    <2>2. Strippable(chan[q])' = Strippable(chan[q])
        BY <1>1 DEF Strippable, OnFreelist
    <2> QED BY <1>1, <2>1, <2>2 DEF Asleep, Placed
<1>3. AsyncCount'
    BY <1>1 DEF WakeInv, AsyncCount
<1> QED BY <1>2, <1>3 DEF WakeInv

LEMMA WakeNext == TypeInv /\ OwnInv /\ WakeInv /\ [Next]_vars => WakeInv'
<1> SUFFICES ASSUME TypeInv, OwnInv, WakeInv, [Next]_vars PROVE WakeInv'
    OBVIOUS
<1>t. TypeInv' /\ OwnInv'
    BY TypeNext, OwnNext
<1>1. ASSUME NEW p \in Proc, Enter(p) PROVE WakeInv'
    BY <1>1, <1>t, EnterWakes
<1>2. ASSUME NEW p \in Proc, Getblk(p) PROVE WakeInv'
    BY <1>2, <1>t, FindWakes, CaptureBusyWakes, CaptureMisshapenWakes, CaptureHitWakes,
       NewBufEmptyWakes, NewBufDirtyWakes, NewBufCleanWakes, SpaceGrantedWakes,
       SpaceUncachedWakes, SpaceSleepWakes, PagesSleepWakes, PagesThereWakes,
       InsertBlockWakes, InsertEmptyWakes, GotBlockWakes DEF Getblk
<1>3. ASSUME NEW p \in Proc, Transferring(p) PROVE WakeInv'
    BY <1>3, <1>t, StrategyWakes, BwritePostWakes, IowaitSleepWakes, IowaitReadWakes,
       IowaitWrittenWakes DEF Transferring
<1>4. ASSUME NEW p \in Proc, Holder(p) PROVE WakeInv'
    BY <1>4, <1>t, ReleaseActionWakes, WriteNowWakes, bdwriteWakes DEF Holder, bwrite, bawrite
<1>5. ASSUME NEW p \in Proc, Sweep(p) PROVE WakeInv'
    BY <1>5, <1>t, btossWakes, bflushWakes, bdsyncWakes, bdwaitWakes, binvalWakes,
       binvalfreeWakes DEF Sweep
<1>6. ASSUME NEW b \in Buf, iodone(b) PROVE WakeInv'
    BY <1>6, <1>t, iodoneWakes
<1>7. CASE UNCHANGED vars
    BY <1>7, WakeStutter
<1> QED BY <1>1, <1>2, <1>3, <1>4, <1>5, <1>6, <1>7 DEF Next, Step

LEMMA WakeInvariant == Spec => [](TypeInv /\ OwnInv /\ WakeInv)
<1>1. Init => WakeInv
    BY WakeInit
<1>2. TypeInv /\ OwnInv /\ WakeInv /\ [Next]_vars => WakeInv'
    BY WakeNext
<1> QED BY <1>1, <1>2, OwnInvariant, PTL DEF Spec

-----------------------------------------------------------------------------
\* Whoever sleeps in getblk(), getnewbuf(), bio_alloc*(), iowait() or bdwait()
\* sleeps for something that is not there, and has left the mark that makes the
\* one who brings it call wakeup(): no wakeup is ever lost.
THEOREM WakeupsKept == Spec => []NoLostWakeup
<1>1. ASSUME NEW p \in Proc, Asleep(p)
      PROVE  /\ chan[p] \in Buf /\ pc[p] = "find" => {"BUSY", "WANTED"} \subseteq b_flags[chan[p]]
             /\ chan[p] \in Buf /\ pc[p] = "iowait" => bp[p] \in io
             /\ chan[p] = "freelist" => bfwanted /\ freelist = <<>>
             /\ chan[p] = "basyncnt" => basynwait /\ basyncnt > 0
             /\ chan[p] \in Res => /\ chan[p] \in reswant
                                   /\ pool[chan[p]] < b_length[bp[p]]
                                   /\ Strippable(chan[p]) = {}
    BY <1>1 DEF Asleep
<1>2. WakeInv => NoLostWakeup
    BY <1>1 DEF WakeInv, NoLostWakeup
<1> QED BY <1>2, WakeInvariant, PTL

\* basyncnt is the number of asynchronous writes the driver has, but for the one
\* whose bwrite() the interrupt has overtaken; it is what bdwait() may go by.
THEOREM AsyncCounted == Spec => []AsyncCount
<1>1. WakeInv => AsyncCount
    BY DEF WakeInv
<1> QED BY <1>1, WakeInvariant, PTL

-------------------------------------------------------------------------------
(***************************************************************************)
(* What the buffers hold.  As long as no getblk() enters a block after a   *)
(* sleep, no block is cached twice; and then, as long as no unmount meets  *)
(* a write that waits for DMA space, who reads a block gets what was last  *)
(* written, nothing that was written is dropped before it is on the disk,  *)
(* and binval() finds nothing left to write.                               *)
(***************************************************************************)

\* Nothing is unmounted, or no write of one who does not use the files (bdsync(),
\* bflush(), the writes geteblk() needs for a buffer) waits for DMA space: bdwait()
\* does not count it, and binval() would mark its buffer invalid (finding 2).
NoUmount == \A c \in Call : c.op # "umount"
NobodyWaits ==
    NoUmount \/
    \A p \in Proc : pc[p] = "dma" /\ chan[p] = "DMA" => call[p].op \in FileOp \cup {"umount"}

FileUse(p) == call[p].op \in {"bread", "getblk"}

\* The process has a buffer for a block that is not in the hash chains yet.
NewLabel == {"newmem", "newpages", "newkmap", "insert"}

\* getblk() has searched the chains in vain, and has not slept since.
Looking(p) ==
    /\ FileUse(p) /\ ~slept[p]
    /\ \/ pc[p] \in NewLabel \cup {"newbuf"}
       \/ pc[p] \in {"dma", "bwpost", "iowait"} /\ ret[p] = "newbuf"

\* Nobody else has run since the search, and what it found still holds.
SearchOK(p) ==
    /\ Looking(p) => cur = p /\ Match(p) = {}
    /\ pc[p] \in NewLabel => b_length[bp[p]] = call[p].len

SearchInv == (\A p \in Proc : SearchOK(p)) /\ OneCopy

\* The buffer has the newest contents of all its blocks.
Full(b) == fresh[b] = Blocks(b)

\* The buffer is to be written, or being written.
Owed(b) ==
    \/ "DELWRI" \in b_flags[b]
    \/ b \in io /\ "READ" \notin b_flags[b]
    \/ \E p \in Proc : pc[p] = "dma" /\ bp[p] = b /\ "READ" \notin b_flags[b]

Safe(k) == k \in disk \/ \E b \in Buf : k \in fresh[b] /\ Owed(b)

Stored == \A k \in Block : Safe(k)

\* What the flags of a buffer say about its contents.
Sound(b) ==
    /\ "DELWRI" \in b_flags[b] =>
          Valid(b) /\ "DONE" \in b_flags[b] /\ "ERROR" \notin b_flags[b]
    /\ b \in io => Valid(b) /\ ("READ" \notin b_flags[b] => Full(b))
    /\ Valid(b) => /\ Blocks(b) \subseteq Block
                   /\ "DONE" \in b_flags[b] /\ "ERROR" \notin b_flags[b] => Full(b)

\* The process has got, or is reading, the extent it asked for.
Reader(p) ==
    \/ pc[p] \in {"hitkmap", "got"}
    \/ pc[p] \in {"dma", "iowait"} /\ ret[p] = "hold"
    \/ pc[p] = "hold" /\ FileUse(p)

\* What a process knows of the contents of its buffer where it stands.  A buffer
\* that is found may be gone when it is captured, and has then no length.
Using(p) ==
    /\ pc[p] = "capture" => Valid(bp[p]) \/ b_length[bp[p]] = 0
    /\ pc[p] \in NewLabel => b_flags[bp[p]] \cap {"DONE", "DELWRI", "ERROR", "INVAL"} = {}
    /\ Reader(p) \/ pc[p] \in {"dma", "iowait"} => Valid(bp[p])
    /\ Reader(p) => b_blkno[bp[p]] = call[p].blkno /\ b_length[bp[p]] = call[p].len
    /\ pc[p] \in {"dma", "iowait"} => (ret[p] = "hold" <=> "READ" \in b_flags[bp[p]])
    /\ pc[p] = "dma" /\ ret[p] # "hold" => Full(bp[p])
    /\ pc[p] = "hold" /\ call[p].op = "bread" /\ "ERROR" \notin b_flags[bp[p]]
          => "DONE" \in b_flags[bp[p]]
    /\ pc[p] = "edma" => ~FileUse(p)

ContentInv == (\A b \in Buf : Sound(b)) /\ (\A p \in Proc : Using(p)) /\ Stored

\* The conditions under which the contents are right.  H says whether unmounts have
\* been kept from doing harm (SweepInv); what does not depend on that is so of both.
Good(H) == H /\ ~raced

DataInv(H) == SearchInv /\ (Good(H) => ContentInv)

-----------------------------------------------------------------------------
(***************************************************************************)
(* Buffers and processes a step leaves alone.                              *)
(***************************************************************************)
ContentFlags == {"DONE", "READ", "DELWRI", "ERROR", "INVAL"}

\* Buffer c caches what it cached.
SameBlocks(c) ==
    /\ b_dev'[c] = b_dev[c] /\ b_blkno'[c] = b_blkno[c] /\ b_length'[c] = b_length[c]
    /\ c \in hashed' <=> c \in hashed

\* And its state is the same; if it had the newest contents it has them.
Still(c) ==
    /\ SameBlocks(c)
    /\ \A x \in ContentFlags : x \in b_flags'[c] <=> x \in b_flags[c]
    /\ c \in io' <=> c \in io
    /\ Valid(c) /\ Full(c) => Full(c)'

\* Buffer c is not made to cache something new.
NoMore(c) == Valid(c)' => Valid(c) /\ Blocks(c)' = Blocks(c)

\* Process p moves, and nobody else does.
OthersIdle(p) ==
    \A q \in Proc \ {p} :
        /\ pc'[q] = pc[q] /\ bp'[q] = bp[q] /\ ret'[q] = ret[q]
        /\ call'[q] = call[q] /\ slept'[q] = slept[q]

LEMMA StillBlocks ==
    ASSUME NEW c \in Buf, SameBlocks(c)
    PROVE  Blocks(c)' = Blocks(c)
BY DEF SameBlocks, Blocks

LEMMA StillValid ==
    ASSUME NEW c \in Buf, Still(c)
    PROVE  (Valid(c)' <=> Valid(c)) /\ NoMore(c) /\ Blocks(c)' = Blocks(c)
<1>1. Blocks(c)' = Blocks(c)
    BY StillBlocks DEF Still
<1>2. Valid(c)' <=> Valid(c)
    BY DEF Still, SameBlocks, ContentFlags, Valid
<1> QED BY <1>1, <1>2 DEF NoMore

LEMMA StillSound ==
    ASSUME NEW c \in Buf, Still(c), Sound(c)
    PROVE  Sound(c)'
<1>1. (Valid(c)' <=> Valid(c)) /\ Blocks(c)' = Blocks(c)
    BY StillValid
<1>2. \A x \in ContentFlags : x \in b_flags'[c] <=> x \in b_flags[c]
    BY DEF Still
<1>3. (c \in io' <=> c \in io) /\ (Valid(c) /\ Full(c) => Full(c)')
    BY DEF Still
<1>4. /\ "DELWRI" \in b_flags'[c] <=> "DELWRI" \in b_flags[c]
      /\ "DONE" \in b_flags'[c] <=> "DONE" \in b_flags[c]
      /\ "READ" \in b_flags'[c] <=> "READ" \in b_flags[c]
      /\ "ERROR" \in b_flags'[c] <=> "ERROR" \in b_flags[c]
    BY <1>2 DEF ContentFlags
<1> QED BY <1>1, <1>3, <1>4 DEF Sound

\* A process that does not move, with a buffer that is left alone.
LEMMA StillUsing ==
    ASSUME TypeInv, NEW q \in Proc, Using(q),
           pc'[q] = pc[q], bp'[q] = bp[q], ret'[q] = ret[q], call'[q] = call[q],
           pc[q] # "capture", pc[q] \in Owning => Still(bp[q])
    PROVE  Using(q)'
<1>1. CASE pc[q] \in Owning
    <2>1. PICK c \in Buf : c = bp[q]
        BY <1>1 DEF TypeInv, LocalOK, Local
    <2>2. Still(c)
        BY <1>1, <2>1
    <2>3. (Valid(c)' <=> Valid(c)) /\ (Valid(c) /\ Full(c) => Full(c)')
        BY <2>2, StillValid DEF Still
    <2>4. /\ "DELWRI" \in b_flags'[c] <=> "DELWRI" \in b_flags[c]
          /\ "DONE" \in b_flags'[c] <=> "DONE" \in b_flags[c]
          /\ "READ" \in b_flags'[c] <=> "READ" \in b_flags[c]
          /\ "ERROR" \in b_flags'[c] <=> "ERROR" \in b_flags[c]
          /\ "INVAL" \in b_flags'[c] <=> "INVAL" \in b_flags[c]
          /\ b_blkno'[c] = b_blkno[c] /\ b_length'[c] = b_length[c]
        BY <2>2 DEF Still, SameBlocks, ContentFlags
    <2>5. bp'[q] = c /\ (Reader(q)' <=> Reader(q))
        BY <2>1 DEF Reader, FileUse
    <2>6. FileUse(q)' <=> FileUse(q)
        BY DEF FileUse
    <2> QED BY <2>1, <2>3, <2>4, <2>5, <2>6 DEF Using
<1>2. CASE pc[q] \notin Owning
    BY <1>2 DEF Using, Reader, Owning, NewLabel
<1> QED BY <1>1, <1>2

LEMMA StillOwed ==
    ASSUME NEW c \in Buf, Still(c), Owed(c), NEW p \in Proc, OthersIdle(p),
           pc[p] = "dma" /\ bp[p] = c => pc'[p] = "dma" /\ bp'[p] = c
    PROVE  Owed(c)'
<1>1. /\ "DELWRI" \in b_flags'[c] <=> "DELWRI" \in b_flags[c]
      /\ "READ" \in b_flags'[c] <=> "READ" \in b_flags[c]
      /\ c \in io' <=> c \in io
    BY DEF Still, ContentFlags
<1>2. CASE \E q \in Proc : pc[q] = "dma" /\ bp[q] = c /\ "READ" \notin b_flags[c]
    <2>1. PICK q \in Proc : pc[q] = "dma" /\ bp[q] = c /\ "READ" \notin b_flags[c]
        BY <1>2
    <2>2. pc'[q] = "dma" /\ bp'[q] = c
        BY <2>1 DEF OthersIdle
    <2> QED BY <1>1, <2>1, <2>2 DEF Owed
<1> QED BY <1>1, <1>2 DEF Owed

-----------------------------------------------------------------------------
(***************************************************************************)
(* What the search has found.                                              *)
(***************************************************************************)
LEMMA NoMatch ==
    ASSUME TypeInv, TypeInv', NEW p \in Proc, call'[p] = call[p], Match(p) = {},
           \A c \in Buf : NoMore(c)
    PROVE  Match(p)' = {}
<1> SUFFICES ASSUME NEW c \in Match(p)' PROVE FALSE
    OBVIOUS
<1>1. c \in Buf /\ Valid(c)' /\ Blocks(c)' \cap Wanted(p)' # {}
    BY DEF Match, Valid, TypeInv, TypeOK, HeaderType
<1>2. Wanted(p)' = Wanted(p)
    BY DEF Wanted
<1>3. Valid(c) /\ Blocks(c)' = Blocks(c)
    BY <1>1 DEF NoMore
<1>4. c \in Match(p)
    BY <1>1, <1>2, <1>3 DEF Match, Valid
<1> QED BY <1>4

LEMMA StillOnce ==
    ASSUME CachedOnce, \A c \in Buf : NoMore(c)
    PROVE  CachedOnce'
BY DEF CachedOnce, NoMore

\* While p runs nobody else is between its search and the entry of its block.
LEMMA NobodyLooks ==
    ASSUME SearchInv, NEW p \in Proc, cur \in {p, NoProc}, NEW q \in Proc \ {p}
    PROVE  ~Looking(q)
BY NamesAssumption DEF SearchInv, SearchOK

\* A step of process p that enters no block.
LEMMA SearchStep ==
    ASSUME TypeInv, TypeInv', OwnInv, SearchInv, NEW p \in Proc, cur \in {p, NoProc},
           OthersIdle(p), NEW S \in SUBSET Buf, \A c \in Buf \ S : b_length'[c] = b_length[c],
           \A c \in S : Mine(p, c), \A c \in Buf : NoMore(c), UNCHANGED raced,
           Looking(p)' => cur' = p /\ call'[p] = call[p] /\ Match(p) = {},
           pc'[p] \in NewLabel => b_length'[bp'[p]] = call'[p].len
    PROVE  SearchInv'
<1>2. OneCopy'
    BY StillOnce DEF SearchInv, OneCopy
<1>3. SearchOK(p)'
    BY NoMatch DEF SearchOK
<1>4. ASSUME NEW q \in Proc \ {p} PROVE SearchOK(q)'
    <2>1. ~Looking(q)'
        <3>1. ~Looking(q)
            BY NobodyLooks
        <3> QED BY <3>1 DEF Looking, FileUse, OthersIdle
    <2>2. ASSUME pc[q] \in NewLabel PROVE b_length'[bp'[q]] = call'[q].len
        <3>1. PICK c \in Buf : c = bp[q]
            BY <2>2 DEF TypeInv, LocalOK, Local, Owning, NewLabel
        <3>2. Owns(q, c)
            BY <2>2, <3>1 DEF Owns, Owning, NewLabel
        <3>3. c \notin S
            BY <3>2, MineAlone
        <3>4. b_length'[c] = b_length[c]
            BY <3>3
        <3> QED BY <2>2, <3>1, <3>4 DEF SearchInv, SearchOK, OthersIdle
    <2> QED BY <2>1, <2>2 DEF SearchOK, OthersIdle
<1> QED BY <1>2, <1>3, <1>4 DEF SearchInv

\* A step of process p that changes the contents of the buffers in S, which are
\* its own or free, and makes newest copies of the blocks in X.
Change(p, S, X) ==
    /\ \A c \in Buf \ S : Still(c) /\ fresh[c] \ X \subseteq fresh'[c]
    /\ \A c \in S : Mine(p, c) /\ Sound(c)' /\ (Owed(c) => \A k \in fresh[c] : Safe(k)')
    /\ disk \ X \subseteq disk' /\ \A k \in X : Safe(k)'
    /\ pc[p] = "dma" => bp[p] \in S \/ (pc'[p] = "dma" /\ bp'[p] = bp[p])

LEMMA ContentStep ==
    ASSUME TypeInv, TypeInv', OwnInv, WakeInv, ContentInv, NEW p \in Proc, cur \in {p, NoProc},
           OthersIdle(p), Using(p)', NEW S \in SUBSET Buf, NEW X, Change(p, S, X)
    PROVE  ContentInv'
<1>0. /\ \A c \in Buf \ S : Still(c) /\ fresh[c] \ X \subseteq fresh'[c]
      /\ \A c \in S : Mine(p, c) /\ Sound(c)' /\ (Owed(c) => \A k \in fresh[c] : Safe(k)')
      /\ disk \ X \subseteq disk' /\ (\A k \in X : Safe(k)')
      /\ pc[p] = "dma" => bp[p] \in S \/ (pc'[p] = "dma" /\ bp'[p] = bp[p])
    BY DEF Change
<1>1. ASSUME NEW c \in Buf PROVE Sound(c)'
    BY <1>0, StillSound DEF ContentInv
<1>2. ASSUME NEW q \in Proc \ {p} PROVE Using(q)'
    <2>1. pc[q] # "capture" /\ Using(q)
        BY NamesAssumption DEF WakeInv, Placed, ContentInv
    <2>2. ASSUME pc[q] \in Owning PROVE Still(bp[q])
        <3>1. bp[q] \in Buf /\ Owns(q, bp[q])
            BY <2>2 DEF TypeInv, LocalOK, Local, Owns
        <3>2. bp[q] \notin S
            BY <1>0, <3>1, MineAlone
        <3> QED BY <1>0, <3>1, <3>2
    <2> QED BY <2>1, <2>2, StillUsing DEF OthersIdle
<1>3. ASSUME NEW k \in Block PROVE Safe(k)'
    <2>1. CASE k \in X
        BY <1>0, <2>1
    <2>2. CASE k \notin X /\ k \in disk
        BY <1>0, <2>2 DEF Safe
    <2>3. CASE k \notin X /\ k \notin disk
        <3>1. PICK c \in Buf : k \in fresh[c] /\ Owed(c)
            BY <2>3 DEF ContentInv, Stored, Safe
        <3>2. CASE c \in S
            BY <1>0, <3>1, <3>2
        <3>3. CASE c \notin S
            <4>1. Owed(c)' /\ k \in fresh'[c]
                BY <1>0, <2>3, <3>1, <3>3, StillOwed
            <4> QED BY <4>1 DEF Safe
        <3> QED BY <3>2, <3>3
    <2> QED BY <2>1, <2>2, <2>3
<1> QED BY <1>1, <1>2, <1>3 DEF ContentInv, Stored

-----------------------------------------------------------------------------
(***************************************************************************)
(* The steps that many actions share.                                      *)
(***************************************************************************)
\* Process p moves, and no buffer changes its contents.
LEMMA QuietData ==
    ASSUME TypeInv, TypeInv', OwnInv, WakeInv,
           NEW H \in BOOLEAN, DataInv(H), NEW p \in Proc, cur \in {p, NoProc},
           OthersIdle(p), \A c \in Buf : Still(c), UNCHANGED <<raced, fresh, disk>>,
           Looking(p)' => cur' = p /\ call'[p] = call[p] /\ Match(p) = {},
           pc'[p] \in NewLabel => b_length'[bp'[p]] = call'[p].len,
           Good(H) => Using(p)',
           pc[p] = "dma" => pc'[p] = "dma" /\ bp'[p] = bp[p]
    PROVE  DataInv(H)'
<1>1. SearchInv'
    <2>1. /\ {} \in SUBSET Buf /\ (\A c \in Buf \ {} : b_length'[c] = b_length[c])
          /\ \A c \in {} : Mine(p, c)
        BY DEF Still, SameBlocks
    <2>2. \A c \in Buf : NoMore(c)
        BY StillValid
    <2> QED BY <2>1, <2>2, SearchStep DEF DataInv
<1>2. ASSUME Good(H) PROVE ContentInv'
    <2>1. Change(p, {}, {})
        BY DEF Change
    <2>2. ContentInv /\ Using(p)'
        BY <1>2 DEF DataInv
    <2> QED BY <2>1, <2>2, ContentStep
<1> QED BY <1>1, <1>2 DEF DataInv, Good

\* Process p changes the state or the contents of buffer b, which it has or
\* which is free.
LEMMA BufferData ==
    ASSUME TypeInv, TypeInv', OwnInv, WakeInv,
           NEW H \in BOOLEAN, DataInv(H), NEW p \in Proc, cur \in {p, NoProc},
           OthersIdle(p), NEW b \in Buf, \A c \in Buf \ {b} : Still(c), Mine(p, b), NoMore(b),
           UNCHANGED raced,
           Looking(p)' => cur' = p /\ call'[p] = call[p] /\ Match(p) = {},
           pc'[p] \in NewLabel => b_length'[bp'[p]] = call'[p].len,
           Good(H) => /\ Using(p)' /\ Sound(b)'
                      /\ disk \subseteq disk'
                      /\ Owed(b) => \A k \in fresh[b] : Safe(k)',
           \A c \in Buf \ {b} : fresh'[c] = fresh[c],
           pc[p] = "dma" => bp[p] = b \/ (pc'[p] = "dma" /\ bp'[p] = bp[p])
    PROVE  DataInv(H)'
<1>1. SearchInv'
    <2>1. /\ {b} \in SUBSET Buf /\ (\A c \in Buf \ {b} : b_length'[c] = b_length[c])
          /\ \A c \in {b} : Mine(p, c)
        BY DEF Still, SameBlocks
    <2>2. \A c \in Buf : NoMore(c)
        BY StillValid
    <2> QED BY <2>1, <2>2, SearchStep DEF DataInv
<1>2. ASSUME Good(H) PROVE ContentInv'
    <2>1. /\ Mine(p, b) /\ Sound(b)' /\ disk \subseteq disk'
          /\ Owed(b) => \A k \in fresh[b] : Safe(k)'
        BY <1>2
    <2>2. Change(p, {b}, {})
        BY <2>1 DEF Change
    <2>3. ContentInv /\ Using(p)'
        BY <1>2 DEF DataInv
    <2> QED BY <2>2, <2>3, ContentStep
<1> QED BY <1>1, <1>2 DEF DataInv, Good

\* A buffer of which only B_BUSY, B_WANTED, B_AGE or a mapping changes.
LEMMA OtherFlags ==
    ASSUME NEW c \in Buf, SameBlocks(c), fresh'[c] = fresh[c], c \in io' <=> c \in io,
           \A x \in ContentFlags : x \in b_flags'[c] <=> x \in b_flags[c]
    PROVE  Still(c)
BY StillBlocks DEF Still, Full

LEMMA Untouched ==
    ASSUME UNCHANGED <<headers, io, fresh>>, NEW c \in Buf, b_flags'[c] = b_flags[c]
    PROVE  Still(c)
BY OtherFlags DEF headers, SameBlocks

-----------------------------------------------------------------------------
(***************************************************************************)
(* The actions.                                                            *)
(***************************************************************************)
LEMMA DataInit ==
    ASSUME Init, NEW H \in BOOLEAN
    PROVE  DataInv(H)
<1>1. \A b \in Buf : ~Valid(b) /\ b \notin io /\ "DELWRI" \notin b_flags[b]
    BY DEF Init, Valid
<1>2. \A p \in Proc : pc[p] = "user"
    BY DEF Init
<1>3. SearchInv
    BY <1>1, <1>2 DEF SearchInv, SearchOK, Looking, NewLabel, OneCopy, CachedOnce
<1>4. (\A b \in Buf : Sound(b)) /\ \A p \in Proc : Using(p)
    BY <1>1, <1>2 DEF Sound, Using, Reader, NewLabel
<1>5. Stored
    BY DEF Init, Stored, Safe
<1> QED BY <1>3, <1>4, <1>5 DEF DataInv, ContentInv

LEMMA FindData ==
    ASSUME TypeInv, TypeInv', OwnInv, WakeInv,
           NEW H \in BOOLEAN, DataInv(H), NEW p \in Proc, Find(p)
    PROVE  DataInv(H)'
<1>1. /\ cur \in {p, NoProc} /\ pc[p] = "find"
      /\ UNCHANGED <<b_flags, headers, io, fresh, disk, raced, call>>
    BY DEF Find, Runs, iovars, data
<1>2. OthersIdle(p)
    BY DEF Find, Goto, OthersIdle, TypeInv, TypeOK, ProcType, WantType
<1>3. \A c \in Buf : Still(c)
    BY <1>1, Untouched
<1>4. \/ pc'[p] = "newbuf" /\ Match(p) = {} /\ cur' = p
      \/ pc'[p] = "capture" /\ bp'[p] \in Match(p)
    BY DEF Find, Goto, TypeInv, TypeOK, ProcType
<1>5. Using(p)'
    <2>1. ASSUME NEW c \in Match(p) PROVE Valid(c)'
        BY <1>1, <2>1 DEF Match, Valid, headers
    <2> QED BY <1>4, <2>1 DEF Using, Reader, NewLabel
<1>6. Looking(p)' => cur' = p /\ call'[p] = call[p] /\ Match(p) = {}
    BY <1>1, <1>4 DEF Looking, NewLabel
<1>7. pc'[p] \notin NewLabel /\ pc[p] # "dma"
    BY <1>1, <1>4 DEF NewLabel
<1> QED BY <1>1, <1>2, <1>3, <1>5, <1>6, <1>7, QuietData

LEMMA CaptureBusyData ==
    ASSUME TypeInv, TypeInv', OwnInv, WakeInv,
           NEW H \in BOOLEAN, DataInv(H), NEW p \in Proc, CaptureBusy(p)
    PROVE  DataInv(H)'
<1>1. /\ cur \in {p, NoProc} /\ pc[p] = "capture"
      /\ UNCHANGED <<headers, io, fresh, disk, raced, call>>
    BY DEF CaptureBusy, Runs, iovars, data
<1>2. OthersIdle(p) /\ pc'[p] = "find"
    BY DEF CaptureBusy, SleepOn, OthersIdle, TypeInv, TypeOK, ProcType, WantType
<1>3. ASSUME NEW c \in Buf PROVE Still(c)
    <2>1. \A x \in ContentFlags : x \in b_flags'[c] <=> x \in b_flags[c]
        BY DEF CaptureBusy, ContentFlags, TypeInv, TypeOK, HeaderType
    <2>2. SameBlocks(c)
        BY <1>1 DEF SameBlocks, headers
    <2> QED BY <1>1, <2>1, <2>2, OtherFlags
<1>4. Using(p)' /\ ~Looking(p)' /\ pc'[p] \notin NewLabel /\ pc[p] # "dma"
    BY <1>1, <1>2 DEF Using, Reader, NewLabel, Looking
<1> QED BY <1>1, <1>2, <1>3, <1>4, QuietData

LEMMA NewBufEmptyData ==
    ASSUME TypeInv, TypeInv', OwnInv, WakeInv,
           NEW H \in BOOLEAN, DataInv(H), NEW p \in Proc, NewBufEmpty(p)
    PROVE  DataInv(H)'
<1>1. /\ cur \in {p, NoProc} /\ pc[p] = "newbuf"
      /\ UNCHANGED <<b_flags, headers, io, fresh, disk, raced, call>>
    BY DEF NewBufEmpty, Runs, iovars, data
<1>2. OthersIdle(p) /\ pc'[p] = "newbuf" /\ slept'[p]
    BY DEF NewBufEmpty, SleepOn, OthersIdle, TypeInv, TypeOK, ProcType, WantType
<1>3. \A c \in Buf : Still(c)
    BY <1>1, Untouched
<1>4. Using(p)' /\ ~Looking(p)' /\ pc'[p] \notin NewLabel /\ pc[p] # "dma"
    BY <1>1, <1>2 DEF Using, Reader, NewLabel, Looking
<1> QED BY <1>1, <1>2, <1>3, <1>4, QuietData

LEMMA CaptureHitData ==
    ASSUME TypeInv, TypeInv', OwnInv, WakeInv,
           NEW H \in BOOLEAN, DataInv(H), NEW p \in Proc, CaptureHit(p)
    PROVE  DataInv(H)'
<1>1. /\ cur \in {p, NoProc} /\ pc[p] = "capture" /\ ~Misshapen(p, bp[p])
      /\ UNCHANGED <<headers, io, fresh, disk, raced, call, bp>>
    BY DEF CaptureHit, Runs, iovars, data, locals
<1>2. OthersIdle(p) /\ pc'[p] \in {"got", "hitkmap"}
    BY DEF CaptureHit, Goto, locals, OthersIdle, TypeInv, TypeOK, ProcType, WantType
<1>3. ASSUME NEW c \in Buf PROVE Still(c)
    <2>1. \A x \in ContentFlags : x \in b_flags'[c] <=> x \in b_flags[c]
        BY DEF CaptureHit, ContentFlags, TypeInv, TypeOK, HeaderType
    <2>2. SameBlocks(c)
        BY <1>1 DEF SameBlocks, headers
    <2> QED BY <1>1, <2>1, <2>2, OtherFlags
<1>4. ASSUME Good(H) PROVE Using(p)'
    <2>1. bp[p] \in Buf
        BY <1>1 DEF TypeInv, LocalOK, Local
    <2>2. b_blkno[bp[p]] = call[p].blkno /\ b_length[bp[p]] = call[p].len /\ b_length[bp[p]] # 0
        <3>1. call[p].len \in Nat \ {0}
            BY CallAssumption, NoCallType DEF TypeInv, TypeOK, ProcType
        <3> QED BY <1>1, <3>1 DEF Misshapen
    <2>3. Valid(bp[p])
        BY <1>1, <1>4, <2>2 DEF DataInv, ContentInv, Using
    <2>4. Valid(bp[p])'
        BY <1>1, <1>3, <2>1, <2>3, StillValid
    <2>5. b_blkno'[bp'[p]] = call'[p].blkno /\ b_length'[bp'[p]] = call'[p].len
        BY <1>1, <2>2 DEF headers
    <2> QED BY <1>2, <2>4, <2>5 DEF Using, NewLabel
<1>5. ~Looking(p)' /\ pc'[p] \notin NewLabel /\ pc[p] # "dma"
    BY <1>1, <1>2 DEF NewLabel, Looking
<1> QED BY <1>1, <1>2, <1>3, <1>4, <1>5, QuietData

\* Space is added to what the buffer has; its contents are the same.
LEMMA SpaceGrantedData ==
    ASSUME TypeInv, TypeInv', OwnInv, WakeInv,
           NEW H \in BOOLEAN, DataInv(H), NEW p \in Proc, NEW l \in SpaceLabel,
           SpaceGranted(p, l)
    PROVE  DataInv(H)'
<1>1. /\ cur \in {p, NoProc} /\ pc[p] = l /\ Space(l) \in Res
      /\ UNCHANGED <<headers, io, fresh, disk, raced, call, bp, ret, slept>>
    BY SpaceLabels DEF SpaceGranted, SpaceNeeded, Runs, iovars, data, locals
<1>2. /\ AfterSpace(l) \in {"newpages", "insert", "got", "dma", "hold"}
      /\ AfterSpace(l) = "dma" <=> l = "dma"
      /\ AfterSpace(l) \in NewLabel <=> l \in NewLabel
      /\ AfterSpace(l) = "got" <=> l = "hitkmap"
      /\ AfterSpace(l) = "hold" <=> l = "edma"
    BY DEF AfterSpace, SpaceLabel, NewLabel
<1>3. OthersIdle(p) /\ pc'[p] = AfterSpace(l) /\ (AfterSpace(l) # "hold" => cur' = p)
    BY <1>2 DEF SpaceGranted, Goto, locals, OthersIdle, TypeInv, TypeOK, ProcType, WantType
<1>4. PICK b \in Buf : b = bp[p]
    BY <1>1, SpaceLabels DEF TypeInv, LocalOK, Local
<1>5. ASSUME NEW c \in Buf PROVE Still(c)
    <2>1. \A x \in ContentFlags : x \in b_flags'[c] <=> x \in b_flags[c]
        <3>1. Space(l) \notin ContentFlags
            BY <1>1 DEF Res, ContentFlags
        <3>2. b_flags'[c] = IF c = b THEN b_flags[c] \cup {Space(l)} ELSE b_flags[c]
            BY <1>4 DEF SpaceGranted, TypeInv, TypeOK, HeaderType
        <3> QED BY <3>1, <3>2
    <2>2. SameBlocks(c)
        BY <1>1 DEF SameBlocks, headers
    <2> QED BY <1>1, <2>1, <2>2, OtherFlags
<1>6. ASSUME Good(H) PROVE Using(p)'
    <2>1. Using(p)
        BY <1>6 DEF DataInv, ContentInv
    <2>2. (Valid(b)' <=> Valid(b)) /\ (Valid(b) /\ Full(b) => Full(b)')
        BY <1>5, StillValid DEF Still
    <2>3. /\ "DELWRI" \in b_flags'[b] <=> "DELWRI" \in b_flags[b]
          /\ "DONE" \in b_flags'[b] <=> "DONE" \in b_flags[b]
          /\ "READ" \in b_flags'[b] <=> "READ" \in b_flags[b]
          /\ "ERROR" \in b_flags'[b] <=> "ERROR" \in b_flags[b]
          /\ "INVAL" \in b_flags'[b] <=> "INVAL" \in b_flags[b]
          /\ b_blkno'[b] = b_blkno[b] /\ b_length'[b] = b_length[b]
        BY <1>5 DEF Still, SameBlocks, ContentFlags
    <2>4. FileUse(p)' <=> FileUse(p)
        BY <1>1 DEF FileUse
    <2>5. /\ Reader(p)' => Reader(p) /\ pc'[p] # "hold"
          /\ pc'[p] = "hold" => call'[p].op # "bread"
        BY <1>1, <1>2, <1>3, <2>1, <2>4 DEF Reader, Using, FileUse
    <2> QED BY <1>1, <1>2, <1>3, <1>4, <2>1, <2>2, <2>3, <2>4, <2>5 DEF Using
<1>7. Looking(p)' => cur' = p /\ call'[p] = call[p] /\ Match(p) = {}
    <2>1. Looking(p)' => Looking(p) /\ AfterSpace(l) # "hold"
        BY <1>1, <1>2, <1>3 DEF Looking, FileUse, NewLabel
    <2> QED BY <1>1, <1>3, <2>1 DEF DataInv, SearchInv, SearchOK
<1>8. pc'[p] \in NewLabel => b_length'[bp'[p]] = call'[p].len
    BY <1>1, <1>2, <1>3 DEF headers, DataInv, SearchInv, SearchOK
<1>9. pc[p] = "dma" => pc'[p] = "dma" /\ bp'[p] = bp[p]
    BY <1>1, <1>2, <1>3
<1> QED BY <1>1, <1>3, <1>5, <1>6, <1>7, <1>8, <1>9, QuietData

\* A process that goes to sleep where it is.
LEMMA SleepData ==
    ASSUME TypeInv, TypeInv', OwnInv, WakeInv,
           NEW H \in BOOLEAN, DataInv(H), NEW p \in Proc, cur \in {p, NoProc},
           NEW c, SleepOn(p, c, pc[p]), pc[p] # "capture",
           UNCHANGED <<b_flags, headers, io, fresh, disk, raced, call, bp, ret>>
    PROVE  DataInv(H)'
<1>1. OthersIdle(p) /\ pc' = pc /\ slept'[p]
    BY DEF SleepOn, OthersIdle, TypeInv, TypeOK, ProcType, WantType
<1>2. \A b \in Buf : Still(b)
    BY Untouched
<1>3. ASSUME Good(H) PROVE Using(p)'
    <2>1. pc[p] \in Owning => Still(bp[p])
        BY <1>2 DEF TypeInv, LocalOK, Local
    <2>2. Using(p)
        BY <1>3 DEF DataInv, ContentInv
    <2> QED BY <1>1, <2>1, <2>2, StillUsing
<1>4. ~Looking(p)'
    BY <1>1 DEF Looking
<1>5. pc'[p] \in NewLabel => b_length'[bp'[p]] = call'[p].len
    BY <1>1 DEF headers, DataInv, SearchInv, SearchOK
<1> QED BY <1>1, <1>2, <1>3, <1>4, <1>5, QuietData

LEMMA SpaceSleepData ==
    ASSUME TypeInv, TypeInv', OwnInv, WakeInv,
           NEW H \in BOOLEAN, DataInv(H), NEW p \in Proc, NEW l \in SpaceLabel,
           SpaceSleep(p, l)
    PROVE  DataInv(H)'
<1>1. /\ cur \in {p, NoProc} /\ pc[p] = l /\ l # "capture" /\ SleepOn(p, Space(l), l)
      /\ UNCHANGED <<b_flags, headers, io, fresh, disk, raced, call, bp, ret>>
    BY DEF SpaceSleep, SpaceNeeded, Runs, iovars, data, SpaceLabel
<1> QED BY <1>1, SleepData

LEMMA PagesSleepData ==
    ASSUME TypeInv, TypeInv', OwnInv, WakeInv,
           NEW H \in BOOLEAN, DataInv(H), NEW p \in Proc, PagesSleep(p)
    PROVE  DataInv(H)'
<1>1. /\ cur \in {p, NoProc} /\ pc[p] = "newpages" /\ SleepOn(p, "none", "newpages")
      /\ UNCHANGED <<b_flags, headers, io, fresh, disk, raced, call, bp, ret>>
    BY DEF PagesSleep, Runs, iovars, data
<1> QED BY <1>1, SleepData

LEMMA IowaitSleepData ==
    ASSUME TypeInv, TypeInv', OwnInv, WakeInv,
           NEW H \in BOOLEAN, DataInv(H), NEW p \in Proc, IowaitSleep(p)
    PROVE  DataInv(H)'
<1>1. /\ cur \in {p, NoProc} /\ pc[p] = "iowait" /\ SleepOn(p, bp[p], "iowait")
      /\ UNCHANGED <<b_flags, headers, io, fresh, disk, raced, call, bp, ret>>
    BY DEF IowaitSleep, Runs, iovars, data
<1> QED BY <1>1, SleepData

LEMMA PagesThereData ==
    ASSUME TypeInv, TypeInv', OwnInv, WakeInv,
           NEW H \in BOOLEAN, DataInv(H), NEW p \in Proc, PagesThere(p)
    PROVE  DataInv(H)'
<1>1. /\ cur \in {p, NoProc} /\ pc[p] = "newpages"
      /\ UNCHANGED <<b_flags, headers, io, fresh, disk, raced, call, bp, ret, slept>>
    BY DEF PagesThere, Runs, iovars, data, locals
<1>2. OthersIdle(p) /\ pc'[p] = "newkmap" /\ cur' = p
    BY <1>1 DEF PagesThere, Goto, OthersIdle, TypeInv, TypeOK, ProcType
<1>3. \A c \in Buf : Still(c)
    BY <1>1, Untouched
<1>4. ASSUME Good(H) PROVE Using(p)'
    BY <1>1, <1>2, <1>4 DEF Using, Reader, NewLabel, DataInv, ContentInv
<1>5. Looking(p)' => cur' = p /\ call'[p] = call[p] /\ Match(p) = {}
    BY <1>1, <1>2 DEF Looking, FileUse, NewLabel, DataInv, SearchInv, SearchOK
<1>6. pc'[p] \in NewLabel => b_length'[bp'[p]] = call'[p].len
    BY <1>1, <1>2 DEF NewLabel, headers, DataInv, SearchInv, SearchOK
<1> QED BY <1>1, <1>2, <1>3, <1>4, <1>5, <1>6, QuietData

LEMMA IowaitReadData ==
    ASSUME TypeInv, TypeInv', OwnInv, WakeInv,
           NEW H \in BOOLEAN, DataInv(H), NEW p \in Proc, IowaitRead(p)
    PROVE  DataInv(H)'
<1>1. /\ cur \in {p, NoProc} /\ pc[p] = "iowait" /\ ret[p] = "hold" /\ "DONE" \in b_flags[bp[p]]
      /\ UNCHANGED <<b_flags, headers, io, fresh, disk, raced, call, bp, slept>>
    BY DEF IowaitRead, Runs, iovars, data
<1>2. OthersIdle(p) /\ pc'[p] = "hold"
    BY <1>1 DEF IowaitRead, Goto, OthersIdle, TypeInv, TypeOK, ProcType
<1>3. \A c \in Buf : Still(c)
    BY <1>1, Untouched
<1>4. ASSUME Good(H) PROVE Using(p)'
    <2>1. Valid(bp[p])' <=> Valid(bp[p])
        BY <1>1 DEF Valid, headers
    <2>2. Using(p) /\ Reader(p)
        BY <1>1, <1>4 DEF Reader, DataInv, ContentInv
    <2> QED BY <1>1, <1>2, <2>1, <2>2 DEF Using, NewLabel, headers
<1>5. ~Looking(p)' /\ pc'[p] \notin NewLabel
    BY <1>2 DEF Looking, NewLabel
<1> QED BY <1>1, <1>2, <1>3, <1>4, <1>5, QuietData

\* Back in the loop that called bwrite(), or in user mode.
LEMMA Returned ==
    ASSUME TypeInv, NEW p \in Proc, NEW l, Return(p, l), l \notin Owning \cup {"capture", "bwpost"}
    PROVE  /\ OthersIdle(p) /\ pc'[p] = l /\ pc'[p] \notin NewLabel
           /\ Using(p)'
           /\ Looking(p)' => /\ l = "newbuf" /\ FileUse(p) /\ ~slept[p]
                             /\ cur' = p /\ call'[p] = call[p]
<1> USE DEF TypeInv, TypeOK, ProcType, WantType
<1>1. OthersIdle(p)
    BY DEF Return, Goto, OthersIdle
<1>2. pc'[p] = l /\ l \notin NewLabel
    BY DEF Return, Goto, NewLabel, Owning
<1>3. Using(p)'
    BY <1>2 DEF Using, Reader, Owning
<1>4. ASSUME Looking(p)'
      PROVE  l = "newbuf" /\ FileUse(p) /\ ~slept[p] /\ cur' = p /\ call'[p] = call[p]
    <2>1. l = "newbuf" /\ FileUse(p)' /\ ~slept'[p]
        BY <1>2, <1>4 DEF Looking, Owning
    <2>2. call'[p] = call[p] /\ (slept'[p] <=> slept[p]) /\ cur' = p
        BY <2>1 DEF Return, Goto
    <2> QED BY <2>1, <2>2 DEF FileUse
<1> QED BY <1>1, <1>2, <1>3, <1>4

LEMMA BwritePostData ==
    ASSUME TypeInv, TypeInv', OwnInv, WakeInv,
           NEW H \in BOOLEAN, DataInv(H), NEW p \in Proc, BwritePost(p)
    PROVE  DataInv(H)'
<1>1. /\ cur \in {p, NoProc} /\ pc[p] = "bwpost" /\ Return(p, ret[p])
      /\ UNCHANGED <<headers, io, fresh, disk, raced>>
    BY DEF BwritePost, Runs, data
<1>2. ret[p] \notin Owning \cup {"capture", "bwpost", "binval"}
    BY <1>1 DEF TypeInv, LocalOK, Local, RetLabel, Owning
<1>3. ASSUME NEW c \in Buf PROVE Still(c)
    <2>1. \A x \in ContentFlags : x \in b_flags'[c] <=> x \in b_flags[c]
        BY DEF BwritePost, ContentFlags, TypeInv, TypeOK, HeaderType
    <2>2. SameBlocks(c)
        BY <1>1 DEF SameBlocks, headers
    <2> QED BY <1>1, <2>1, <2>2, OtherFlags
<1>4. OthersIdle(p) /\ Using(p)' /\ pc'[p] \notin NewLabel
    BY <1>1, <1>2, Returned
<1>5. ASSUME Looking(p)' PROVE cur' = p /\ call'[p] = call[p] /\ Match(p) = {}
    <2>1. ret[p] = "newbuf" /\ FileUse(p) /\ ~slept[p] /\ cur' = p /\ call'[p] = call[p]
        BY <1>1, <1>2, <1>5, Returned
    <2> QED BY <1>1, <2>1 DEF Looking, DataInv, SearchInv, SearchOK
<1> QED BY <1>1, <1>3, <1>4, <1>5, QuietData

LEMMA LoopDoneData ==
    ASSUME TypeInv, TypeInv', OwnInv, WakeInv,
           NEW H \in BOOLEAN, DataInv(H), NEW p \in Proc, cur \in {p, NoProc},
           pc[p] # "dma", NEW l \in {"user", "bdwait", "binval"}, LoopDone(p, l)
    PROVE  DataInv(H)'
<1>1. Return(p, l) /\ UNCHANGED <<b_flags, headers, io, fresh, disk, raced>>
    BY DEF LoopDone, iovars, data
<1>2. l \notin Owning \cup {"capture", "bwpost", "newbuf"}
    BY DEF Owning
<1>3. \A c \in Buf : Still(c)
    BY <1>1, Untouched
<1>4. OthersIdle(p) /\ Using(p)' /\ pc'[p] \notin NewLabel /\ ~Looking(p)'
    BY <1>1, <1>2, Returned
<1> QED BY <1>1, <1>3, <1>4, QuietData

LEMMA bdwaitData ==
    ASSUME TypeInv, TypeInv', OwnInv, WakeInv,
           NEW H \in BOOLEAN, DataInv(H), NEW p \in Proc, bdwait(p)
    PROVE  DataInv(H)'
<1>1. cur \in {p, NoProc} /\ pc[p] = "bdwait"
    BY DEF bdwait, Runs
<1>2. CASE LoopDone(p, IF call[p].op = "umount" THEN "binval" ELSE "user")
    <2> DEFINE l == IF call[p].op = "umount" THEN "binval" ELSE "user"
    <2>1. l \in {"user", "bdwait", "binval"}
        OBVIOUS
    <2>2. LoopDone(p, l)
        BY <1>2
    <2> HIDE DEF l
    <2> QED BY <1>1, <2>1, <2>2, LoopDoneData
<1>3. CASE /\ SleepOn(p, "basyncnt", "bdwait")
           /\ UNCHANGED <<b_flags, headers, freelist, bfwanted, io, basyncnt, spacevars, bp,
                          call, ret, wflag, data, raced, tossed>>
    BY <1>1, <1>3, SleepData DEF data
<1> QED BY <1>2, <1>3 DEF bdwait

LEMMA EnterData ==
    ASSUME TypeInv, TypeInv', OwnInv, WakeInv,
           NEW H \in BOOLEAN, DataInv(H), NEW p \in Proc, Enter(p)
    PROVE  DataInv(H)'
<1>1. /\ cur \in {p, NoProc} /\ pc[p] = "user"
      /\ UNCHANGED <<b_flags, headers, io, fresh, disk, raced, bp, ret, slept>>
    BY DEF Enter, Runs, iovars, data
<1>2. PICK c \in Call : call' = [call EXCEPT ![p] = c] /\ Goto(p, Entry(c.op))
    BY DEF Enter
<1>3. /\ OthersIdle(p) /\ pc'[p] = Entry(c.op) /\ call'[p] = c
    BY <1>1, <1>2 DEF Goto, OthersIdle, TypeInv, TypeOK, ProcType
<1>4. /\ Entry(c.op) \in {"find", "newbuf", "toss", "flush", "sync", "bdwait", "invalfree"}
      /\ Entry(c.op) = "newbuf" => c.op \notin {"bread", "getblk"}
    <2>1. c.op \in Op
        BY CallAssumption
    <2> QED BY <2>1 DEF Entry, Op
<1>5. \A b \in Buf : Still(b)
    BY <1>1, Untouched
<1>6. Using(p)' /\ pc'[p] \notin NewLabel /\ ~Looking(p)'
    BY <1>3, <1>4 DEF Using, Reader, NewLabel, Looking, FileUse
<1> QED BY <1>1, <1>3, <1>5, <1>6, QuietData

-----------------------------------------------------------------------------
\* A buffer that a process has, and is not writing, is owed only if it is dirty.
LEMMA NotOwed ==
    ASSUME TypeInv, OwnInv, NEW p \in Proc, NEW b \in Buf, Mine(p, b), pc[p] # "dma",
           "DELWRI" \notin b_flags[b]
    PROVE  ~Owed(b)
<1>1. b \notin io /\ \A q \in Proc \ {p} : ~Owns(q, b)
    BY MineAlone
<1> QED BY <1>1 DEF Owed, Owns, Owning

LEMMA WriteOutData ==
    ASSUME TypeInv, TypeInv', OwnInv, WakeInv,
           NEW H \in BOOLEAN, DataInv(H), NEW p \in Proc, NEW b \in Buf,
           "BUSY" \notin b_flags[b], "DELWRI" \in b_flags[b], cur \in {p, NoProc}, pc[p] # "dma",
           NEW back \in RetLabel \ {"hold"}, back = "newbuf" => pc[p] = "newbuf",
           WriteOut(p, b, back)
    PROVE  DataInv(H)'
<1>1. UNCHANGED <<headers, io, fresh, disk, raced, call, slept>>
    BY DEF WriteOut, iovars, data
<1>2. /\ OthersIdle(p) /\ pc'[p] = "dma" /\ bp'[p] = b /\ ret'[p] = back /\ cur' = p
    BY <1>1 DEF WriteOut, Bwrite, Goto, OthersIdle, TypeInv, TypeOK, ProcType
<1>3. /\ b_flags'[b] = (b_flags[b] \cup {"BUSY", "ASYNC"}) \ {"READ", "DONE", "ERROR", "DELWRI"}
      /\ \A c \in Buf \ {b} : b_flags'[c] = b_flags[c]
    BY DEF WriteOut, Bwrite, TypeInv, TypeOK, HeaderType
<1>4. (\A c \in Buf \ {b} : Still(c)) /\ Mine(p, b)
    BY <1>1, <1>3, Untouched DEF Mine
<1>5. (Valid(b)' <=> Valid(b)) /\ Blocks(b)' = Blocks(b) /\ (Full(b)' <=> Full(b))
    BY <1>1, <1>3 DEF Valid, Blocks, Full, headers
<1>6. NoMore(b)
    BY <1>5 DEF NoMore
<1>7. Looking(p)' => cur' = p /\ call'[p] = call[p] /\ Match(p) = {}
    <2>1. Looking(p)' => Looking(p)
        BY <1>1, <1>2 DEF Looking, FileUse, NewLabel
    <2> QED BY <1>1, <1>2, <2>1 DEF DataInv, SearchInv, SearchOK
<1>8. pc'[p] \notin NewLabel
    BY <1>2 DEF NewLabel
<1>9. ASSUME Good(H)
      PROVE  /\ Using(p)' /\ Sound(b)' /\ disk \subseteq disk'
             /\ Owed(b) => \A k \in fresh[b] : Safe(k)'
    <2>1. Sound(b)
        BY <1>9 DEF DataInv, ContentInv
    <2>2. Valid(b) /\ Full(b) /\ Blocks(b) \subseteq Block
        BY <2>1 DEF Sound
    <2>3. b \notin io'
        BY <1>1, <1>4, MineAlone
    <2>4. /\ "DELWRI" \notin b_flags'[b] /\ "DONE" \notin b_flags'[b] /\ "READ" \notin b_flags'[b]
        BY <1>3
    <2>5. Sound(b)'
        BY <1>5, <2>2, <2>3, <2>4 DEF Sound
    <2>6. Using(p)'
        BY <1>2, <1>5, <2>2, <2>4 DEF Using, Reader, NewLabel
    <2>7. Owed(b)'
        BY <1>2, <2>4 DEF Owed
    <2>8. \A k \in fresh[b] : Safe(k)'
        BY <1>1, <2>7 DEF Safe
    <2> QED BY <1>1, <2>5, <2>6, <2>8
<1> QED BY <1>1, <1>2, <1>4, <1>6, <1>7, <1>8, <1>9, BufferData

LEMMA BrelseOthers ==
    ASSUME TypeInv, NEW b \in Buf, NEW fl, NEW fr, NEW f \in [Buf -> SUBSET Nat], NEW extra,
           Brelse(b, fl, fr, f, extra), NEW c \in Buf \ {b}
    PROVE  /\ b_flags'[c] = b_flags[c] /\ b_dev'[c] = b_dev[c]
           /\ b_length'[c] = b_length[c] /\ fresh'[c] = f[c]
BY DEF Brelse, TypeInv, TypeOK, HeaderType

\* brelse() drops what an invalid buffer has, and keeps another as it is.
LEMMA BrelseDrops ==
    ASSUME TypeInv, NEW b \in Buf, NEW fl \in SUBSET Flag, NEW fr, NEW f \in [Buf -> SUBSET Nat],
           NEW extra, Brelse(b, fl, fr, f, extra), fl \cap {"ERROR", "INVAL"} # {}
    PROVE  /\ "INVAL" \in b_flags'[b] /\ "DELWRI" \notin b_flags'[b]
           /\ b_length'[b] = 0 /\ fresh'[b] = {}
BY DEF Brelse, Res, TypeInv, TypeOK, HeaderType

LEMMA BrelseStays ==
    ASSUME TypeInv, NEW b \in Buf, NEW fl \in SUBSET Flag, NEW fr, NEW f \in [Buf -> SUBSET Nat],
           NEW extra, Brelse(b, fl, fr, f, extra), fl \cap {"ERROR", "INVAL"} = {}
    PROVE  /\ b_flags'[b] \cap ContentFlags = fl \cap ContentFlags
           /\ b_dev'[b] = b_dev[b] /\ b_length'[b] = b_length[b] /\ fresh'[b] = f[b]
BY DEF Brelse, ContentFlags, TypeInv, TypeOK, HeaderType

\* brelse() of a buffer whose contents the caller has not changed, and btoss().
LEMMA ReleaseData ==
    ASSUME TypeInv, TypeInv', OwnInv, WakeInv,
           NEW H \in BOOLEAN, DataInv(H), NEW p \in Proc, cur \in {p, NoProc},
           OthersIdle(p), NEW b \in Buf, Mine(p, b), NEW fl \in SUBSET Flag, NEW fr, NEW extra,
           Brelse(b, fl, fr, fresh, extra), b_flags[b] \subseteq fl,
           fl \cap {"ERROR", "INVAL"} = {} => fl = b_flags[b],
           fl \cap {"ERROR", "INVAL"} # {} /\ Good(H) /\ "DELWRI" \in b_flags[b] => fresh[b] \subseteq disk',
           UNCHANGED <<b_blkno, hashed, io, raced>>, disk \subseteq disk',
           Looking(p)' => cur' = p /\ call'[p] = call[p] /\ Match(p) = {},
           pc'[p] \notin NewLabel, Using(p)', pc[p] # "dma"
    PROVE  DataInv(H)'
<1>1. fresh \in [Buf -> SUBSET Nat]
    BY DEF TypeInv, TypeOK, IoType
<1>2. \A c \in Buf \ {b} : /\ b_flags'[c] = b_flags[c] /\ b_dev'[c] = b_dev[c]
                           /\ b_length'[c] = b_length[c] /\ fresh'[c] = fresh[c]
    BY <1>1, BrelseOthers
<1>3. \A c \in Buf \ {b} : Still(c)
    BY <1>2, OtherFlags DEF SameBlocks
<1>4. CASE fl \cap {"ERROR", "INVAL"} # {}
    <2>1. "INVAL" \in b_flags'[b] /\ "DELWRI" \notin b_flags'[b]
        BY <1>1, <1>4, BrelseDrops
    <2>2. ~Valid(b)' /\ NoMore(b) /\ b \notin io'
        BY <2>1, MineAlone DEF Valid, NoMore
    <2>3. Sound(b)'
        BY <2>1, <2>2 DEF Sound
    <2>4. ASSUME Good(H), Owed(b), NEW k \in fresh[b] PROVE Safe(k)'
        <3>1. k \in disk'
            BY <1>4, <2>4, NotOwed
        <3> QED BY <3>1 DEF Safe
    <2> QED BY <1>2, <1>3, <2>2, <2>3, <2>4, BufferData
<1>5. CASE fl \cap {"ERROR", "INVAL"} = {}
    <2>1. /\ \A x \in ContentFlags : x \in b_flags'[b] <=> x \in b_flags[b]
          /\ b_dev'[b] = b_dev[b] /\ b_length'[b] = b_length[b] /\ fresh'[b] = fresh[b]
        <3>1. /\ b_flags'[b] \cap ContentFlags = fl \cap ContentFlags
              /\ b_dev'[b] = b_dev[b] /\ b_length'[b] = b_length[b] /\ fresh'[b] = fresh[b]
            BY <1>1, <1>5, BrelseStays
        <3> QED BY <1>5, <3>1
    <2>2. Still(b)
        BY <2>1, OtherFlags DEF SameBlocks
    <2>3. NoMore(b) /\ (Good(H) => Sound(b)')
        BY <2>2, StillValid, StillSound DEF DataInv, ContentInv
    <2>4. ASSUME Owed(b), NEW k \in fresh[b] PROVE Safe(k)'
        <3>1. Owed(b)'
            BY <2>2, <2>4, StillOwed
        <3> QED BY <2>1, <3>1 DEF Safe
    <2> QED BY <1>2, <1>3, <2>3, <2>4, BufferData
<1> QED BY <1>4, <1>5

LEMMA CaptureMisshapenData ==
    ASSUME TypeInv, TypeInv', OwnInv, WakeInv,
           NEW H \in BOOLEAN, DataInv(H), NEW p \in Proc, CaptureMisshapen(p)
    PROVE  DataInv(H)'
<1>1. PICK b \in Buf : b = bp[p]
    BY DEF CaptureMisshapen, Runs, TypeInv, LocalOK, Local
<1>2. /\ "BUSY" \notin b_flags[b] /\ cur \in {p, NoProc} /\ pc[p] = "capture" /\ Mine(p, b)
    BY <1>1 DEF CaptureMisshapen, Runs, Mine
<1>3. CASE "DELWRI" \in b_flags[b] /\ WriteOut(p, b, "find")
    BY <1>2, <1>3, WriteOutData DEF RetLabel
<1>4. CASE /\ "DELWRI" \notin b_flags[b]
           /\ Brelse(b, b_flags[b] \cup {"BUSY", "INVAL"}, Without(b), fresh, {})
           /\ bp' = [bp EXCEPT ![p] = NoBuf] /\ Goto(p, "find")
           /\ UNCHANGED <<b_blkno, hashed, iovars, call, ret, wflag, slept, disk, raced, tossed>>
    <2>1. OthersIdle(p) /\ pc'[p] = "find" /\ UNCHANGED <<b_blkno, hashed, io, raced, disk>>
        BY <1>4 DEF OthersIdle, Goto, iovars, TypeInv, TypeOK, ProcType
    <2>2. Using(p)' /\ ~Looking(p)' /\ pc'[p] \notin NewLabel
        BY <2>1 DEF Using, Reader, NewLabel, Looking
    <2>3. b_flags[b] \cup {"BUSY", "INVAL"} \in SUBSET Flag
        BY DEF Flag, TypeInv, TypeOK, HeaderType
    <2> DEFINE fl == b_flags[b] \cup {"BUSY", "INVAL"}
    <2>4. fl \cap {"ERROR", "INVAL"} # {} /\ b_flags[b] \subseteq fl
        OBVIOUS
    <2>5. fl \in SUBSET Flag /\ Brelse(b, fl, Without(b), fresh, {})
        BY <1>4, <2>3
    <2> HIDE DEF fl
    <2> QED BY <1>2, <1>4, <2>1, <2>2, <2>4, <2>5, ReleaseData
<1> QED BY <1>1, <1>3, <1>4 DEF CaptureMisshapen

LEMMA NewBufDirtyData ==
    ASSUME TypeInv, TypeInv', OwnInv, WakeInv,
           NEW H \in BOOLEAN, DataInv(H), NEW p \in Proc, NewBufDirty(p)
    PROVE  DataInv(H)'
<1>1. PICK b \in Buf : b = Head(freelist) /\ "BUSY" \notin b_flags[b]
    BY DEF NewBufDirty, OwnInv, FreeIffNotBusy, OnFreelist, TypeInv, TypeOK, HeaderType
<1>2. /\ WriteOut(p, b, "newbuf") /\ cur \in {p, NoProc} /\ pc[p] = "newbuf"
      /\ "DELWRI" \in b_flags[b]
    BY <1>1 DEF NewBufDirty, Runs
<1> QED BY <1>1, <1>2, WriteOutData DEF RetLabel

LEMMA bflushData ==
    ASSUME TypeInv, TypeInv', OwnInv, WakeInv,
           NEW H \in BOOLEAN, DataInv(H), NEW p \in Proc, bflush(p)
    PROVE  DataInv(H)'
<1>1. pc[p] = "flush" /\ cur \in {p, NoProc}
    BY DEF bflush, Runs
<1>2. CASE Dirty # {} /\ WriteOut(p, FirstOf(Dirty), "flush")
    <2>1. FirstOf(Dirty) \in Dirty
        <3>1. Dirty \subseteq OnFreelist
            BY DEF Dirty
        <3> QED BY <1>2, <3>1, FirstOfIn DEF TypeInv, TypeOK, HeaderType
    <2>2. PICK b \in Dirty : WriteOut(p, b, "flush")
        BY <1>2, <2>1
    <2>3. b \in Buf /\ "BUSY" \notin b_flags[b] /\ "DELWRI" \in b_flags[b]
        BY DEF Dirty, OwnInv, FreeIffNotBusy
    <2> QED BY <1>1, <2>2, <2>3, WriteOutData DEF RetLabel
<1>3. CASE \E l \in {"user", "bdwait"} : LoopDone(p, l)
    BY <1>1, <1>3, LoopDoneData
<1> QED BY <1>2, <1>3 DEF bflush

LEMMA bdsyncData ==
    ASSUME TypeInv, TypeInv', OwnInv, WakeInv,
           NEW H \in BOOLEAN, DataInv(H), NEW p \in Proc, bdsync(p)
    PROVE  DataInv(H)'
<1>1. pc[p] = "sync" /\ cur \in {p, NoProc}
    BY DEF bdsync, Runs
<1>2. CASE \E b \in Buf : /\ "DELWRI" \in b_flags[b] /\ b_flags[b] \cap {"BUSY", "INVAL"} = {}
                          /\ WriteOut(p, b, "sync")
    <2>1. PICK b \in Buf : /\ "BUSY" \notin b_flags[b] /\ "DELWRI" \in b_flags[b]
                           /\ WriteOut(p, b, "sync")
        BY <1>2
    <2> QED BY <1>1, <2>1, WriteOutData DEF RetLabel
<1>3. CASE LoopDone(p, "user")
    BY <1>1, <1>3, LoopDoneData
<1> QED BY <1>2, <1>3 DEF bdsync

\* A clean buffer that is made invalid has nothing to lose.
LEMMA binvalfreeData ==
    ASSUME TypeInv, TypeInv', OwnInv, WakeInv,
           NEW H \in BOOLEAN, DataInv(H), NEW p \in Proc, binvalfree(p)
    PROVE  DataInv(H)'
<1>1. pc[p] = "invalfree" /\ cur \in {p, NoProc}
    BY DEF binvalfree, Runs
<1>2. CASE OfDevice # {}
    <2>1. PICK b \in OfDevice : b = FirstOf(OfDevice)
        <3>1. OfDevice \subseteq OnFreelist
            BY DEF OfDevice
        <3> QED BY <1>2, <3>1, FirstOfIn DEF TypeInv, TypeOK, HeaderType
    <2>2. b \in Buf /\ "BUSY" \notin b_flags[b]
        BY DEF OfDevice, OwnInv, FreeIffNotBusy
    <2>3. CASE "DELWRI" \in b_flags[b] /\ WriteOut(p, b, "invalfree")
        BY <1>1, <2>2, <2>3, WriteOutData DEF RetLabel
    <2>4. CASE /\ "DELWRI" \notin b_flags[b]
               /\ b_flags' = [b_flags EXCEPT ![b] = @ \cup {"INVAL"}]
               /\ b_dev' = [b_dev EXCEPT ![b] = "nodev"]
               /\ Goto(p, "invalfree")
               /\ UNCHANGED <<b_blkno, b_length, hashed, freelist, bfwanted, iovars, spacevars,
                              chan, locals, data, raced, tossed>>
        <3>1. UNCHANGED <<b_blkno, b_length, hashed, io, fresh, disk, raced>>
            BY <2>4 DEF iovars, data
        <3>2. OthersIdle(p) /\ pc'[p] = "invalfree"
            BY <2>4 DEF Goto, OthersIdle, locals, TypeInv, TypeOK, ProcType
        <3>3. /\ b_flags'[b] = b_flags[b] \cup {"INVAL"}
              /\ \A c \in Buf \ {b} : b_flags'[c] = b_flags[c] /\ b_dev'[c] = b_dev[c]
            BY <2>2, <2>4 DEF TypeInv, TypeOK, HeaderType
        <3>4. \A c \in Buf \ {b} : Still(c)
            BY <3>1, <3>3, OtherFlags DEF SameBlocks
        <3>5. Mine(p, b) /\ ~Valid(b)' /\ NoMore(b)
            BY <2>2, <3>3 DEF Mine, Valid, NoMore
        <3>6. b \notin io /\ ~Owed(b)
            BY <1>1, <2>2, <2>4, <3>5, MineAlone, NotOwed
        <3>7. Sound(b)'
            BY <2>4, <3>1, <3>3, <3>5, <3>6 DEF Sound
        <3>8. Using(p)' /\ ~Looking(p)' /\ pc'[p] \notin NewLabel
            BY <3>2 DEF Using, Reader, NewLabel, Looking
        <3> QED BY <1>1, <2>2, <3>1, <3>2, <3>4, <3>5, <3>6, <3>7, <3>8, BufferData
    <2> QED BY <1>2, <2>1, <2>3, <2>4 DEF binvalfree
<1>3. CASE OfDevice = {}
    <2>1. LoopDone(p, "user")
        BY <1>3 DEF binvalfree
    <2> QED BY <1>1, <2>1, LoopDoneData
<1> QED BY <1>2, <1>3

LEMMA btossData ==
    ASSUME TypeInv, TypeInv', OwnInv, WakeInv,
           NEW H \in BOOLEAN, DataInv(H), NEW p \in Proc, btoss(p)
    PROVE  DataInv(H)'
<1>1. pc[p] = "toss" /\ cur \in {p, NoProc}
    BY DEF btoss, Runs
<1>2. CASE Tossable(p) # {}
    <2>1. PICK b \in Tossable(p) :
            /\ Brelse(b, b_flags[b] \cup {"BUSY", "INVAL"}, Without(b), fresh, {})
            /\ disk' = disk \cup fresh[b]
            /\ Goto(p, "toss") /\ UNCHANGED <<b_blkno, hashed, io, raced, locals>>
        <3>1. Tossable(p) \subseteq OnFreelist
            BY DEF Tossable
        <3>2. FirstOf(Tossable(p)) \in Tossable(p)
            BY <1>2, <3>1, FirstOfIn DEF TypeInv, TypeOK, HeaderType
        <3> QED BY <1>2, <3>2 DEF btoss, iovars
    <2>2. b \in Buf /\ "BUSY" \notin b_flags[b] /\ Mine(p, b)
        BY DEF Tossable, OnFreelist, Mine, TypeInv, TypeOK, HeaderType
    <2>3. OthersIdle(p) /\ pc'[p] = "toss"
        BY <2>1 DEF Goto, OthersIdle, locals, TypeInv, TypeOK, ProcType
    <2>4. Using(p)' /\ ~Looking(p)' /\ pc'[p] \notin NewLabel
        BY <2>3 DEF Using, Reader, NewLabel, Looking
    <2> DEFINE fl == b_flags[b] \cup {"BUSY", "INVAL"}
    <2>5. fl \cap {"ERROR", "INVAL"} # {} /\ b_flags[b] \subseteq fl
        OBVIOUS
    <2>6. fl \in SUBSET Flag
        BY <2>2 DEF Flag, TypeInv, TypeOK, HeaderType
    <2>7. Brelse(b, fl, Without(b), fresh, {}) /\ fresh[b] \subseteq disk' /\ disk \subseteq disk'
        BY <2>1
    <2> HIDE DEF fl
    <2> QED BY <1>1, <2>1, <2>2, <2>3, <2>4, <2>5, <2>6, <2>7, ReleaseData
<1>3. CASE Tossable(p) = {}
    <2>1. LoopDone(p, "user")
        BY <1>3 DEF btoss, LoopDone
    <2> QED BY <1>1, <2>1, LoopDoneData
<1> QED BY <1>2, <1>3

\* The buffer a process has, which the driver has not.
LEMMA OwnBuffer ==
    ASSUME TypeInv, OwnInv, NEW p \in Proc, pc[p] \in Owning \ {"iowait"}
    PROVE  bp[p] \in Buf /\ Mine(p, bp[p]) /\ bp[p] \notin io /\ "BUSY" \in b_flags[bp[p]]
BY OwnerFacts DEF OwnerOK, Mine

\* A reassigned buffer caches nothing.
LEMMA NewBufCleanData ==
    ASSUME TypeInv, TypeInv', OwnInv, WakeInv,
           NEW H \in BOOLEAN, DataInv(H), NEW p \in Proc, NewBufClean(p)
    PROVE  DataInv(H)'
<1>1. PICK b \in Buf : b = Head(freelist) /\ "BUSY" \notin b_flags[b]
    BY DEF NewBufClean, OwnInv, FreeIffNotBusy, OnFreelist, TypeInv, TypeOK, HeaderType
<1> DEFINE same == b_length[b] = call[p].len
<1>2. /\ pc[p] = "newbuf" /\ cur \in {p, NoProc} /\ "DELWRI" \notin b_flags[b]
      /\ UNCHANGED <<io, b_dev, b_blkno, call, ret, slept, disk, raced>>
      /\ hashed' = hashed \ {b} /\ bp' = [bp EXCEPT ![p] = b]
      /\ b_flags' = [b_flags EXCEPT ![b] = NewFlags(b, same)]
      /\ b_length' = [b_length EXCEPT ![b] = call[p].len]
      /\ fresh' = [fresh EXCEPT ![b] = {}]
    BY <1>1 DEF NewBufClean, Runs, iovars
<1>3. OthersIdle(p) /\ pc'[p] \in {"newmem", "insert", "newkmap"} /\ bp'[p] = b /\ cur' = p
    BY <1>1, <1>2 DEF NewBufClean, Goto, OthersIdle, TypeInv, TypeOK, ProcType
<1>4. /\ b_flags'[b] = NewFlags(b, same) /\ b_length'[b] = call[p].len
      /\ \A c \in Buf \ {b} : /\ b_flags'[c] = b_flags[c] /\ b_length'[c] = b_length[c]
                              /\ fresh'[c] = fresh[c]
    BY <1>2 DEF TypeInv, TypeOK, HeaderType, IoType
<1>5. b_flags'[b] \cap {"DONE", "DELWRI", "ERROR", "INVAL"} = {}
    BY <1>4 DEF NewFlags, Res
<1>6. \A c \in Buf \ {b} : Still(c)
    BY <1>2, <1>4, OtherFlags DEF SameBlocks
<1>7. Mine(p, b) /\ ~Valid(b)' /\ NoMore(b)
    BY <1>1, <1>2 DEF Mine, Valid, NoMore
<1>8. b \notin io' /\ ~Owed(b)
    BY <1>2, <1>7, MineAlone, NotOwed
<1>9. Sound(b)'
    BY <1>5, <1>7, <1>8 DEF Sound
<1>10. Using(p)'
    BY <1>3, <1>5 DEF Using, Reader
<1>11. Looking(p)' => cur' = p /\ call'[p] = call[p] /\ Match(p) = {}
    <2>1. Looking(p)' => Looking(p)
        BY <1>2 DEF Looking, FileUse
    <2> QED BY <1>2, <1>3, <2>1 DEF DataInv, SearchInv, SearchOK
<1>12. b_length'[bp'[p]] = call'[p].len /\ pc[p] # "dma"
    BY <1>2, <1>3, <1>4
<1> QED BY <1>2, <1>3, <1>4, <1>6, <1>7, <1>8, <1>9, <1>10, <1>11, <1>12, BufferData

\* A clean buffer loses its memory, or any buffer a mapping.
LEMMA SpaceUncachedData ==
    ASSUME TypeInv, TypeInv', OwnInv, WakeInv,
           NEW H \in BOOLEAN, DataInv(H), NEW p \in Proc, NEW l \in SpaceLabel,
           SpaceUncached(p, l)
    PROVE  DataInv(H)'
<1> DEFINE r == Space(l)
<1>1. /\ pc[p] = l /\ r \in Res /\ cur \in {p, NoProc} /\ l \in Owning
      /\ l \notin {"iowait", "user", "hold", "capture"}
      /\ UNCHANGED <<b_dev, b_blkno, hashed, io, call, ret, slept, bp, disk, raced>>
    BY SpaceLabels DEF SpaceUncached, SpaceNeeded, Runs, locals, iovars, SpaceLabel
<1>2. pc' = pc /\ cur' = p /\ OthersIdle(p)
    BY <1>1 DEF SpaceUncached, Goto, OthersIdle, TypeInv, TypeOK, ProcType
<1>3. PICK b \in Strippable(r) : Strip(b, r)
    <2>1. Strippable(r) \subseteq OnFreelist /\ Strippable(r) # {}
        BY DEF SpaceUncached, Strippable
    <2>2. FirstOf(Strippable(r)) \in Strippable(r)
        BY <2>1, FirstOfIn DEF TypeInv, TypeOK, HeaderType
    <2> QED BY <2>2 DEF SpaceUncached
<1>m. r = "MEM" => pc[p] # "dma"
    BY <1>1 DEF Space, SpaceLabel
<1> HIDE DEF r
<1>4. b \in Buf /\ "BUSY" \notin b_flags[b] /\ (r = "MEM" => "DELWRI" \notin b_flags[b])
    BY <1>3 DEF Strippable, OnFreelist, TypeInv, TypeOK, HeaderType
<1>5. /\ b_flags'[b] = (b_flags[b] \ Gone(r)) \cup IF r = "MEM" THEN {"INVAL"} ELSE {}
      /\ b_length'[b] = IF r = "MEM" THEN 0 ELSE b_length[b]
      /\ fresh'[b] = IF r = "MEM" THEN {} ELSE fresh[b]
      /\ \A c \in Buf \ {b} : /\ b_flags'[c] = b_flags[c] /\ b_length'[c] = b_length[c]
                              /\ fresh'[c] = fresh[c]
    BY <1>3, <1>4 DEF Strip, TypeInv, TypeOK, HeaderType, IoType
<1>6. \A c \in Buf \ {b} : Still(c)
    BY <1>1, <1>5, OtherFlags DEF SameBlocks
<1>7. Mine(p, b) /\ b \notin io /\ bp[p] \in Buf \ {b}
    BY <1>1, <1>4, OwnBuffer, MineAlone DEF Mine
<1>8. ASSUME Good(H) PROVE Using(p)'
    <2>1. Using(p) /\ Still(bp[p])
        BY <1>6, <1>7, <1>8 DEF DataInv, ContentInv
    <2> QED BY <1>1, <1>2, <2>1, StillUsing
<1>9. Looking(p)' => cur' = p /\ call'[p] = call[p] /\ Match(p) = {}
    <2>1. Looking(p)' => Looking(p)
        BY <1>1, <1>2 DEF Looking, FileUse
    <2> QED BY <1>1, <1>2, <2>1 DEF DataInv, SearchInv, SearchOK
<1>10. pc'[p] \in NewLabel => b_length'[bp'[p]] = call'[p].len
    BY <1>1, <1>2, <1>5, <1>7 DEF DataInv, SearchInv, SearchOK
<1>11. CASE r = "MEM"
    <2>1. ~Valid(b)' /\ NoMore(b)
        BY <1>5, <1>11 DEF Valid, NoMore
    <2>2. "DELWRI" \notin b_flags'[b]
        BY <1>4, <1>5, <1>11
    <2>3. Sound(b)' /\ ~Owed(b)
        BY <1>1, <1>4, <1>7, <1>m, <1>11, <2>1, <2>2, NotOwed DEF Sound
    <2> QED BY <1>1, <1>2, <1>4, <1>5, <1>6, <1>7, <1>8, <1>9, <1>10, <2>1, <2>3, BufferData
<1>12. CASE r # "MEM"
    <2>1. r \notin ContentFlags /\ b_flags'[b] = b_flags[b] \ {r}
        BY <1>1, <1>5, <1>12 DEF Gone, Res, ContentFlags
    <2>2. \A x \in ContentFlags : x \in b_flags'[b] <=> x \in b_flags[b]
        BY <2>1
    <2>3. Still(b)
        BY <1>1, <1>4, <1>5, <1>12, <2>2, OtherFlags DEF SameBlocks
    <2>4. \A c \in Buf : Still(c)
        BY <1>6, <2>3
    <2>5. fresh' = fresh
        BY <1>3, <1>4, <1>5, <1>12 DEF Strip, TypeInv, TypeOK, IoType
    <2> QED BY <1>1, <1>2, <1>8, <1>9, <1>10, <2>4, <2>5, QuietData
<1> QED BY <1>11, <1>12

\* geteblk() gives a buffer without a block.
LEMMA InsertEmptyData ==
    ASSUME TypeInv, TypeInv', OwnInv, WakeInv,
           NEW H \in BOOLEAN, DataInv(H), NEW p \in Proc, InsertEmpty(p)
    PROVE  DataInv(H)'
<1>1. /\ pc[p] = "insert" /\ cur \in {p, NoProc} /\ call[p].op \in {"geteblk", "getdmablk"}
      /\ UNCHANGED <<b_blkno, b_length, hashed, io, call, bp, ret, slept, fresh, disk, raced>>
    BY DEF InsertEmpty, Runs, iovars, locals, data
<1>2. OthersIdle(p) /\ pc'[p] \in {"hold", "edma"}
    BY <1>1 DEF InsertEmpty, Goto, OthersIdle, TypeInv, TypeOK, ProcType
<1>3. PICK b \in Buf : b = bp[p] /\ Mine(p, b) /\ b \notin io
    BY <1>1, OwnBuffer DEF Owning
<1>4. /\ b_flags'[b] = {"BUSY", "AGE", "INVAL"} \cup (b_flags[b] \cap {"MEM", "KMAP"})
      /\ \A c \in Buf \ {b} : b_flags'[c] = b_flags[c] /\ b_dev'[c] = b_dev[c]
    BY <1>3 DEF InsertEmpty, TypeInv, TypeOK, HeaderType
<1>5. \A c \in Buf \ {b} : Still(c)
    BY <1>1, <1>4, OtherFlags DEF SameBlocks
<1>6. ~Valid(b)' /\ NoMore(b) /\ "DELWRI" \notin b_flags'[b]
    BY <1>4 DEF Valid, NoMore
<1>7. Sound(b)'
    BY <1>1, <1>3, <1>6 DEF Sound
<1>8. ~FileUse(p)' /\ call'[p].op # "bread"
    BY <1>1 DEF FileUse
<1>9. Using(p)' /\ ~Looking(p)' /\ pc'[p] \notin NewLabel
    BY <1>2, <1>8 DEF Using, Reader, NewLabel, Looking
<1>10. Good(H) => ~Owed(b)
    <2>1. Good(H) => "DELWRI" \notin b_flags[b]
        BY <1>1, <1>3 DEF DataInv, ContentInv, Using, NewLabel
    <2> QED BY <1>1, <1>3, <2>1, NotOwed
<1> QED BY <1>1, <1>2, <1>3, <1>5, <1>6, <1>7, <1>9, <1>10, BufferData

\* bread() begins to read a block of which the cache has no contents.
LEMMA GotBlockData ==
    ASSUME TypeInv, TypeInv', OwnInv, WakeInv,
           NEW H \in BOOLEAN, DataInv(H), NEW p \in Proc, GotBlock(p)
    PROVE  DataInv(H)'
<1>1. /\ pc[p] = "got" /\ cur \in {p, NoProc}
      /\ UNCHANGED <<headers, io, call, bp, slept, fresh, disk, raced>>
    BY DEF GotBlock, Runs, iovars, data
<1>2. PICK b \in Buf : b = bp[p] /\ Mine(p, b) /\ b \notin io
    BY <1>1, OwnBuffer DEF Owning
<1> DEFINE ready == call[p].op = "getblk" \/ "DONE" \in b_flags[b]
<1>3. OthersIdle(p) /\ pc'[p] = (IF ready THEN "hold" ELSE "dma")
    BY <1>1, <1>2 DEF GotBlock, Goto, OthersIdle, TypeInv, TypeOK, ProcType
<1>4. /\ b_flags'[b] = IF ready THEN b_flags[b] ELSE b_flags[b] \cup {"READ"}
      /\ \A c \in Buf \ {b} : b_flags'[c] = b_flags[c]
      /\ ~ready => ret'[p] = "hold"
    BY <1>2 DEF GotBlock, TypeInv, TypeOK, HeaderType, ProcType
<1>5. \A c \in Buf \ {b} : Still(c)
    BY <1>1, <1>4, Untouched
<1>6. (Valid(b)' <=> Valid(b)) /\ Blocks(b)' = Blocks(b) /\ (Full(b)' <=> Full(b))
    BY <1>1, <1>4 DEF Valid, Blocks, Full, headers
<1>7. Good(H) => /\ Valid(b) /\ Sound(b)
                 /\ b_blkno[b] = call[p].blkno /\ b_length[b] = call[p].len
    BY <1>1, <1>2 DEF DataInv, ContentInv, Using, Reader
<1>8. ~Looking(p)' /\ pc'[p] \notin NewLabel /\ NoMore(b) /\ (Good(H) => Using(p)')
    <2>1. pc'[p] \notin NewLabel
        BY <1>3 DEF NewLabel
    <2>2. ~Looking(p)'
        BY <1>3, <1>4, <2>1 DEF Looking
    <2>3. ASSUME Good(H) PROVE Using(p)'
        <3>1. Valid(bp[p])' /\ b_blkno'[bp'[p]] = call'[p].blkno /\ b_length'[bp'[p]] = call'[p].len
            BY <1>1, <1>2, <1>6, <1>7, <2>3 DEF headers
        <3>2. CASE ready
            BY <1>1, <1>2, <1>3, <1>4, <2>1, <3>1, <3>2 DEF Using
        <3>3. CASE ~ready
            <4>1. pc'[p] = "dma" /\ ret'[p] = "hold" /\ "READ" \in b_flags'[bp'[p]]
                BY <1>1, <1>2, <1>3, <1>4, <3>3
            <4> HIDE DEF ready
            <4> QED BY <1>1, <2>1, <3>1, <4>1 DEF Using
        <3> QED BY <3>2, <3>3
    <2> QED BY <1>6, <2>1, <2>2, <2>3 DEF NoMore
<1>9. ASSUME Good(H) PROVE Sound(b)' /\ (Owed(b) => \A k \in fresh[b] : Safe(k)')
    <2>1. CASE ready
        <3>1. Still(b)
            BY <1>1, <1>4, <2>1, Untouched
        <3>2. Sound(b)'
            BY <1>7, <1>9, <3>1, StillSound
        <3>3. Owed(b) => Owed(b)'
            BY <1>1, <1>3, <3>1, StillOwed
        <3> QED BY <1>1, <3>2, <3>3 DEF Safe
    <2>2. CASE ~ready
        <3>1. "DONE" \notin b_flags[b] /\ "DELWRI" \notin b_flags[b]
            BY <1>7, <1>9, <2>2 DEF Sound
        <3>2. "DONE" \notin b_flags'[b] /\ "DELWRI" \notin b_flags'[b]
            BY <1>4, <3>1
        <3>3. Sound(b)'
            BY <1>1, <1>2, <1>6, <1>7, <1>9, <3>2 DEF Sound
        <3>4. ~Owed(b)
            BY <1>1, <1>2, <3>1, NotOwed
        <3> QED BY <3>3, <3>4
    <2> QED BY <2>1, <2>2
<1> HIDE DEF ready
<1> QED BY <1>1, <1>2, <1>3, <1>5, <1>8, <1>9, BufferData

\* The end of getblk() for a block that was not found: if nobody else has run
\* since the search, no buffer has any part of it.
LEMMA InsertBlockData ==
    ASSUME TypeInv, TypeInv', OwnInv, WakeInv,
           NEW H \in BOOLEAN, DataInv(H), NEW p \in Proc, InsertBlock(p)
    PROVE  DataInv(H)'
<1>1. /\ pc[p] = "insert" /\ cur \in {p, NoProc} /\ FileUse(p)
      /\ UNCHANGED <<b_flags, b_length, io, call, bp, ret, slept, fresh, disk>>
      /\ (raced' <=> raced \/ slept[p])
    BY DEF InsertBlock, Runs, FileUse, iovars, locals, data
<1>2. OthersIdle(p) /\ pc'[p] = "got"
    BY <1>1 DEF InsertBlock, Goto, OthersIdle, TypeInv, TypeOK, ProcType
<1>3. PICK b \in Buf : b = bp[p] /\ Mine(p, b) /\ b \notin io
    BY <1>1, OwnBuffer DEF Owning
<1>4. /\ hashed' = hashed \cup {b} /\ b_dev'[b] = "dev" /\ b_blkno'[b] = call[p].blkno
      /\ \A c \in Buf \ {b} : b_dev'[c] = b_dev[c] /\ b_blkno'[c] = b_blkno[c]
    BY <1>3 DEF InsertBlock, TypeInv, TypeOK, HeaderType
<1>5. \A c \in Buf \ {b} : Still(c)
    BY <1>1, <1>4, OtherFlags DEF SameBlocks
<1>6. b_length'[b] = call[p].len /\ Blocks(b)' = Wanted(p)
    <2>1. b_length[b] = call[p].len
        BY <1>1, <1>3 DEF NewLabel, DataInv, SearchInv, SearchOK
    <2> QED BY <1>1, <1>4, <2>1 DEF Blocks, Wanted
<1>7. OneCopy'
    <2> SUFFICES ASSUME ~raced' PROVE CachedOnce'
        BY DEF OneCopy
    <2>1. CachedOnce /\ Match(p) = {}
        BY <1>1 DEF Looking, NewLabel, DataInv, SearchInv, SearchOK, OneCopy
    <2>2. ASSUME NEW c \in Buf \ {b}, Valid(c)' PROVE Valid(c) /\ Blocks(c)' \cap Blocks(b)' = {}
        <3>1. Valid(c) /\ Blocks(c)' = Blocks(c)
            BY <1>5, <2>2, StillValid
        <3>2. c \notin Match(p)
            BY <2>1
        <3> QED BY <1>6, <3>1, <3>2 DEF Match, Valid
    <2>3. ASSUME NEW c \in Buf, NEW d \in Buf, Valid(c)', Valid(d)', c # d
          PROVE  Blocks(c)' \cap Blocks(d)' = {}
        <3>1. CASE c = b \/ d = b
            BY <2>2, <2>3, <3>1
        <3>2. CASE c # b /\ d # b
            <4>1. Valid(c) /\ Valid(d) /\ Blocks(c)' = Blocks(c) /\ Blocks(d)' = Blocks(d)
                BY <1>5, <2>3, <3>2, StillValid
            <4> QED BY <2>1, <2>3, <4>1 DEF CachedOnce
        <3> QED BY <3>1, <3>2
    <2> QED BY <2>3 DEF CachedOnce
<1>8. ASSUME NEW q \in Proc PROVE SearchOK(q)'
    <2>1. CASE q = p
        BY <1>2, <2>1 DEF SearchOK, Looking, NewLabel
    <2>2. CASE q # p
        <3>1. ~Looking(q)
            BY <1>1, <2>2, NobodyLooks DEF DataInv
        <3>2. ~Looking(q)'
            BY <1>2, <2>2, <3>1 DEF Looking, FileUse, OthersIdle
        <3> QED BY <1>1, <1>2, <2>2, <3>2 DEF DataInv, SearchInv, SearchOK, OthersIdle
    <2> QED BY <2>1, <2>2
<1>9. ASSUME Good(H), ContentInv PROVE ContentInv'
    <2>1. b_flags[b] \cap {"DONE", "DELWRI", "ERROR", "INVAL"} = {}
        BY <1>1, <1>3, <1>9 DEF ContentInv, Using, NewLabel
    <2>2. Valid(b)'
        BY <1>1, <1>4, <2>1 DEF Valid
    <2>3. Wanted(p) \subseteq Block
        <3>1. call[p] \in Call
            BY <1>1 DEF FileUse, NoCall, TypeInv, TypeOK, ProcType
        <3> QED BY <1>1, <3>1, BlockAssumption DEF FileUse, Wanted
    <2>4. Sound(b)'
        BY <1>1, <1>3, <1>6, <2>1, <2>3 DEF Sound
    <2>5. Using(p)'
        BY <1>1, <1>2, <1>3, <1>4, <1>6, <2>2 DEF Using, NewLabel
    <2>6. ~Owed(b)
        BY <1>1, <1>3, <2>1, NotOwed
    <2>7. Change(p, {b}, {})
        BY <1>1, <1>3, <1>5, <2>4, <2>6 DEF Change
    <2> QED BY <1>1, <1>2, <1>9, <2>5, <2>7, ContentStep
<1> QED BY <1>1, <1>7, <1>8, <1>9 DEF DataInv, SearchInv, Good

\* The driver gets the buffer that was to be read or written.
LEMMA StrategyData ==
    ASSUME TypeInv, TypeInv', OwnInv, WakeInv,
           NEW H \in BOOLEAN, DataInv(H), NEW p \in Proc, Strategy(p)
    PROVE  DataInv(H)'
<1>1. /\ pc[p] = "dma" /\ cur \in {p, NoProc} /\ io' = io \cup {bp[p]}
      /\ UNCHANGED <<b_flags, headers, call, bp, ret, slept, fresh, disk, raced>>
    BY DEF Strategy, Runs, locals, data
<1>2. OthersIdle(p) /\ pc'[p] \in {"bwpost", "iowait"} /\ cur' = p
    BY <1>1 DEF Strategy, Goto, OthersIdle, TypeInv, TypeOK, ProcType
<1>3. PICK b \in Buf : b = bp[p] /\ Mine(p, b) /\ b \notin io
    BY <1>1, OwnBuffer DEF Owning
<1>4. ASSUME NEW c \in Buf \ {b} PROVE Still(c)
    <2>1. SameBlocks(c)
        BY <1>1 DEF SameBlocks, headers
    <2> QED BY <1>1, <1>3, <2>1, OtherFlags
<1>5. (Valid(b)' <=> Valid(b)) /\ Blocks(b)' = Blocks(b) /\ (Full(b)' <=> Full(b))
    BY <1>1 DEF Valid, Blocks, Full, headers
<1>6. NoMore(b) /\ pc'[p] \notin NewLabel
    BY <1>2, <1>5 DEF NoMore, NewLabel
<1>7. Looking(p)' => cur' = p /\ call'[p] = call[p] /\ Match(p) = {}
    <2>1. Looking(p)' => Looking(p)
        BY <1>1, <1>2 DEF Looking, FileUse, NewLabel
    <2> QED BY <1>1, <1>2, <2>1 DEF DataInv, SearchInv, SearchOK
<1>8. ASSUME Good(H) PROVE Sound(b)' /\ Using(p)'
    <2>1. Sound(b) /\ Using(p)
        BY <1>8 DEF DataInv, ContentInv
    <2>2. Valid(b) /\ ("READ" \notin b_flags[b] => Full(b))
        BY <1>1, <1>3, <2>1 DEF Using
    <2>3. Sound(b)'
        BY <1>1, <1>5, <2>1, <2>2 DEF Sound
    <2>4. Reader(p)' => Reader(p)
        BY <1>1, <1>2 DEF Reader
    <2> QED BY <1>1, <1>2, <1>3, <1>5, <2>1, <2>2, <2>3, <2>4 DEF Using, NewLabel, headers
<1>9. ASSUME Owed(b), NEW k \in fresh[b] PROVE Safe(k)'
    <2>1. Owed(b)'
        BY <1>1, <1>3, <1>9 DEF Owed
    <2> QED BY <1>1, <1>9, <2>1 DEF Safe
<1> QED BY <1>1, <1>2, <1>3, <1>4, <1>6, <1>7, <1>8, <1>9, BufferData

\* A buffer that is to be written has neither B_ERROR nor B_INVAL.
LEMMA DirtyStays ==
    ASSUME NEW H \in BOOLEAN, DataInv(H), Good(H), NEW b \in Buf, "DELWRI" \in b_flags[b]
    PROVE  b_flags[b] \cap {"ERROR", "INVAL"} = {}
BY DEF DataInv, ContentInv, Sound, Valid

LEMMA IowaitWrittenData ==
    ASSUME TypeInv, TypeInv', OwnInv, WakeInv,
           NEW H \in BOOLEAN, DataInv(H), NEW p \in Proc, IowaitWritten(p)
    PROVE  DataInv(H)'
<1>1. /\ cur \in {p, NoProc} /\ pc[p] = "iowait" /\ ret[p] # "hold" /\ "DONE" \in b_flags[bp[p]]
      /\ Return(p, ret[p]) /\ UNCHANGED <<b_blkno, hashed, io, raced, disk>>
    BY DEF IowaitWritten, Runs, iovars
<1>2. PICK b \in Buf : b = bp[p] /\ Mine(p, b) /\ b \notin io
    BY <1>1, IowaitOver DEF Mine, Owning
<1>3. Brelse(b, b_flags[b], freelist, fresh, {}) /\ b_flags[b] \in SUBSET Flag
    BY <1>2 DEF IowaitWritten, TypeInv, TypeOK, HeaderType
<1>4. ret[p] \notin Owning \cup {"capture", "bwpost", "binval"}
    BY <1>1 DEF TypeInv, LocalOK, Local, RetLabel, Owning
<1>5. OthersIdle(p) /\ Using(p)' /\ pc'[p] \notin NewLabel
    BY <1>1, <1>4, Returned
<1>6. ASSUME Looking(p)' PROVE cur' = p /\ call'[p] = call[p] /\ Match(p) = {}
    <2>1. ret[p] = "newbuf" /\ FileUse(p) /\ ~slept[p] /\ cur' = p /\ call'[p] = call[p]
        BY <1>1, <1>4, <1>6, Returned
    <2> QED BY <1>1, <2>1 DEF Looking, DataInv, SearchInv, SearchOK
<1> QED BY <1>1, <1>2, <1>3, <1>5, <1>6, DirtyStays, ReleaseData

LEMMA ReleaseActionData ==
    ASSUME TypeInv, TypeInv', OwnInv, WakeInv,
           NEW H \in BOOLEAN, DataInv(H), NEW p \in Proc, Release(p)
    PROVE  DataInv(H)'
<1>1. /\ cur \in {p, NoProc} /\ pc[p] = "hold"
      /\ Return(p, "user") /\ UNCHANGED <<b_blkno, hashed, io, raced, disk>>
    BY DEF Release, Runs, iovars
<1>2. PICK b \in Buf : b = bp[p] /\ Mine(p, b) /\ b \notin io
    BY <1>1, OwnBuffer DEF Owning
<1>3. Brelse(b, b_flags[b], freelist, fresh, {}) /\ b_flags[b] \in SUBSET Flag
    BY <1>2 DEF Release, TypeInv, TypeOK, HeaderType
<1>4. OthersIdle(p) /\ Using(p)' /\ pc'[p] \notin NewLabel /\ ~Looking(p)'
    BY <1>1, Returned DEF Owning
<1> QED BY <1>1, <1>2, <1>3, <1>4, DirtyStays, ReleaseData

\* The holder of a buffer writes to it: its copy becomes the newest one, and it
\* is to be written to the disk.
LEMMA FillData ==
    ASSUME TypeInv, TypeInv', OwnInv, WakeInv,
           NEW H \in BOOLEAN, DataInv(H), NEW p \in Proc, NEW b \in Buf,
           cur \in {p, NoProc}, pc[p] = "hold", FileUse(p), b = bp[p], OthersIdle(p),
           UNCHANGED <<b_blkno, hashed, io, raced>>, disk' = disk \ Blocks(b),
           \A c \in Buf \ {b} : /\ b_flags'[c] = b_flags[c] /\ b_dev'[c] = b_dev[c]
                                /\ b_length'[c] = b_length[c] /\ fresh'[c] = fresh[c] \ Blocks(b),
           NoMore(b), ~Looking(p)', pc'[p] \notin NewLabel,
           Good(H) /\ Valid(b) =>
               /\ Valid(b)' /\ Full(b)' /\ Owed(b)' /\ Using(p)'
               /\ "DELWRI" \in b_flags'[b] => "DONE" \in b_flags'[b] /\ "ERROR" \notin b_flags'[b]
    PROVE  DataInv(H)'
<1>1. Mine(p, b) /\ b \notin io
    BY OwnBuffer DEF Owning
<1>2. ASSUME NEW c \in Buf \ {b} PROVE SameBlocks(c) /\ NoMore(c)
    BY DEF SameBlocks, NoMore, Valid, Blocks
<1>3. SearchInv'
    <2>1. /\ {b} \in SUBSET Buf /\ (\A c \in Buf \ {b} : b_length'[c] = b_length[c])
          /\ \A c \in {b} : Mine(p, c)
        BY <1>1
    <2>2. \A c \in Buf : NoMore(c)
        BY <1>2
    <2> QED BY <2>1, <2>2, SearchStep DEF DataInv
<1>4. ASSUME Good(H) PROVE ContentInv'
    <2>1. ContentInv /\ CachedOnce
        BY <1>4 DEF DataInv, SearchInv, OneCopy, Good
    <2>2. Valid(b) /\ Sound(b)
        BY <2>1 DEF ContentInv, Using, Reader
    <2>3. Valid(b)' /\ Full(b)' /\ Owed(b)' /\ Using(p)' /\ Blocks(b)' = Blocks(b)
        BY <1>4, <2>2 DEF NoMore
    <2>4. ASSUME NEW c \in Buf \ {b} PROVE Still(c)
        <3>1. ASSUME Valid(c), Full(c) PROVE Full(c)'
            <4>1. Blocks(c) \cap Blocks(b) = {}
                BY <2>1, <2>2, <3>1 DEF CachedOnce
            <4>4. fresh'[c] = fresh[c] \ Blocks(b) /\ fresh[c] = Blocks(c)
                BY <3>1 DEF Full
            <4>2. fresh'[c] = Blocks(c)
                BY <4>1, <4>4
            <4>3. Blocks(c)' = Blocks(c)
                BY <1>2, StillBlocks
            <4> QED BY <4>2, <4>3 DEF Full
        <3> QED BY <1>2, <3>1 DEF Still
    <2>5. Sound(b)'
        BY <1>1, <1>4, <2>2, <2>3 DEF Sound
    <2>6. ASSUME NEW k \in Blocks(b) PROVE Safe(k)'
        BY <2>3 DEF Safe, Full
    <2>7. ASSUME Owed(b), NEW k \in fresh[b] PROVE Safe(k)'
        <3>1. "DELWRI" \in b_flags[b]
            BY <1>1, <2>7, NotOwed
        <3>2. k \in Blocks(b)
            BY <2>2, <2>7, <3>1 DEF Sound, Full
        <3> QED BY <2>6, <3>2
    <2>8. Change(p, {b}, Blocks(b))
        BY <1>1, <2>4, <2>5, <2>6, <2>7 DEF Change
    <2> QED BY <2>1, <2>3, <2>8, ContentStep
<1> QED BY <1>3, <1>4 DEF DataInv, Good

LEMMA FilledBy ==
    ASSUME NEW b \in Buf
    PROVE  /\ Filled(b)[b] = Blocks(b)
           /\ \A c \in Buf \ {b} : Filled(b)[c] = fresh[c] \ Blocks(b)
BY DEF Filled

LEMMA WriteNowData ==
    ASSUME TypeInv, TypeInv', OwnInv, WakeInv,
           NEW H \in BOOLEAN, DataInv(H), NEW p \in Proc,
           NEW mode \in {{}, {"ASYNC"}}, WriteNow(p, mode)
    PROVE  DataInv(H)'
<1>1. /\ cur \in {p, NoProc} /\ pc[p] = "hold" /\ FileUse(p)
      /\ UNCHANGED <<headers, io, raced, call, slept>>
    BY DEF WriteNow, Writable, Runs, FileUse, iovars
<1>2. PICK b \in Buf : b = bp[p] /\ Mine(p, b) /\ b \notin io
    BY <1>1, OwnBuffer DEF Owning
<1>3. /\ OthersIdle(p) /\ pc'[p] = "dma" /\ ret'[p] = "user" /\ bp'[p] = b
    BY <1>1, <1>2 DEF WriteNow, Bwrite, Goto, OthersIdle, TypeInv, TypeOK, ProcType
<1>4. /\ b_flags'[b] = (b_flags[b] \cup mode) \ {"READ", "DONE", "ERROR", "DELWRI"}
      /\ \A c \in Buf \ {b} : b_flags'[c] = b_flags[c]
    BY <1>2 DEF WriteNow, Bwrite, TypeInv, TypeOK, HeaderType
<1>5. /\ disk' = disk \ Blocks(b) /\ fresh'[b] = Blocks(b)
      /\ \A c \in Buf \ {b} : fresh'[c] = fresh[c] \ Blocks(b)
    BY <1>2, FilledBy DEF WriteNow
<1>6. (Valid(b)' <=> Valid(b)) /\ Blocks(b)' = Blocks(b)
    BY <1>1, <1>4 DEF Valid, Blocks, headers
<1>7. NoMore(b) /\ Full(b)'
    BY <1>5, <1>6 DEF NoMore, Full
<1>8. ~Looking(p)' /\ pc'[p] \notin NewLabel
    BY <1>3 DEF Looking, NewLabel
<1>9. "READ" \notin b_flags'[b] /\ "DELWRI" \notin b_flags'[b]
    BY <1>4
<1>10. Owed(b)'
    BY <1>3, <1>9 DEF Owed
<1>11. Valid(b)' => Using(p)'
    BY <1>3, <1>7, <1>9 DEF Using, Reader, NewLabel
<1> QED BY <1>1, <1>2, <1>3, <1>4, <1>5, <1>6, <1>7, <1>8, <1>9, <1>10, <1>11, FillData DEF headers

LEMMA bdwriteData ==
    ASSUME TypeInv, TypeInv', OwnInv, WakeInv,
           NEW H \in BOOLEAN, DataInv(H), NEW p \in Proc, bdwrite(p)
    PROVE  DataInv(H)'
<1>1. /\ cur \in {p, NoProc} /\ pc[p] = "hold" /\ FileUse(p) /\ "ERROR" \notin b_flags[bp[p]]
      /\ Return(p, "user") /\ UNCHANGED <<b_blkno, hashed, io, raced>>
    BY DEF bdwrite, Writable, Runs, FileUse, iovars
<1>2. PICK b \in Buf : b = bp[p] /\ Mine(p, b) /\ b \notin io
    BY <1>1, OwnBuffer DEF Owning
<1> DEFINE fl == b_flags[b] \cup {"DELWRI", "DONE"}
<1>3. /\ Brelse(b, fl, freelist, Filled(b), {}) /\ disk' = disk \ Blocks(b)
      /\ fl \in SUBSET Flag /\ Filled(b) \in [Buf -> SUBSET Nat]
    BY <1>2, FilledType DEF bdwrite, Flag, TypeInv, TypeOK, HeaderType
<1>4. \A c \in Buf \ {b} : /\ b_flags'[c] = b_flags[c] /\ b_dev'[c] = b_dev[c]
                           /\ b_length'[c] = b_length[c] /\ fresh'[c] = fresh[c] \ Blocks(b)
    BY <1>3, BrelseOthers, FilledBy
<1>5. OthersIdle(p) /\ Using(p)' /\ pc'[p] \notin NewLabel /\ ~Looking(p)'
    BY <1>1, Returned DEF Owning
<1>6. CASE "INVAL" \in b_flags[b]
    <2>1. fl \cap {"ERROR", "INVAL"} # {}
        BY <1>6
    <2>2. ~Valid(b) /\ ~Valid(b)'
        BY <1>3, <1>6, <2>1, BrelseDrops DEF Valid
    <2> QED BY <1>1, <1>2, <1>3, <1>4, <1>5, <2>2, FillData DEF NoMore
<1>7. CASE "INVAL" \notin b_flags[b]
    <2>1. fl \cap {"ERROR", "INVAL"} = {}
        BY <1>1, <1>2, <1>7
    <2>2. /\ b_flags'[b] \cap ContentFlags = fl \cap ContentFlags
          /\ b_dev'[b] = b_dev[b] /\ b_length'[b] = b_length[b] /\ fresh'[b] = Blocks(b)
        BY <1>3, <2>1, BrelseStays, FilledBy
    <2>3. /\ "DELWRI" \in b_flags'[b] /\ "DONE" \in b_flags'[b]
          /\ "ERROR" \notin b_flags'[b] /\ "INVAL" \notin b_flags'[b]
        BY <2>1, <2>2 DEF ContentFlags
    <2>4. (Valid(b)' <=> Valid(b)) /\ Blocks(b)' = Blocks(b)
        BY <1>1, <1>7, <2>2, <2>3 DEF Valid, Blocks
    <2>5. NoMore(b) /\ Full(b)' /\ Owed(b)'
        BY <2>2, <2>3, <2>4 DEF NoMore, Full, Owed
    <2> QED BY <1>1, <1>2, <1>3, <1>4, <1>5, <2>3, <2>4, <2>5, FillData
<1> QED BY <1>6, <1>7

-----------------------------------------------------------------------------
(***************************************************************************)
(* The interrupt.                                                          *)
(***************************************************************************)
\* What is to be written is the newest copy, in a buffer that is in the cache.
LEMMA OwedFull ==
    ASSUME ContentInv, NEW c \in Buf, Owed(c)
    PROVE  Valid(c) /\ Full(c)
<1>1. Sound(c) /\ \A q \in Proc : Using(q)
    BY DEF ContentInv
<1>2. CASE "DELWRI" \in b_flags[c]
    BY <1>1, <1>2 DEF Sound
<1>3. CASE c \in io /\ "READ" \notin b_flags[c]
    BY <1>1, <1>3 DEF Sound
<1>4. CASE \E q \in Proc : pc[q] = "dma" /\ bp[q] = c /\ "READ" \notin b_flags[c]
    BY <1>1, <1>4 DEF Using
<1> QED BY <1>2, <1>3, <1>4 DEF Owed

\* What is read from the disk is the newest copy: who has a newer one would be
\* found in the cache instead.
LEMMA ReadsDisk ==
    ASSUME ContentInv, CachedOnce, NEW b \in Buf, Valid(b), ~Owed(b)
    PROVE  Blocks(b) \subseteq disk
<1> SUFFICES ASSUME NEW k \in Blocks(b), k \notin disk PROVE FALSE
    OBVIOUS
<1>1. k \in Block
    BY DEF ContentInv, Sound
<1>2. PICK c \in Buf : k \in fresh[c] /\ Owed(c)
    BY <1>1 DEF ContentInv, Stored, Safe
<1>3. Valid(c) /\ k \in Blocks(c) /\ c # b
    BY <1>2, OwedFull DEF Full
<1> QED BY <1>3 DEF CachedOnce

LEMMA Transferred ==
    ASSUME NEW b \in Buf, NEW ok \in BOOLEAN
    PROVE  /\ "READ" \in b_flags[b] => Transfer(b, ok).disk = disk
           /\ "READ" \in b_flags[b] /\ ok => Transfer(b, ok).copy = disk \cap Blocks(b)
           /\ "READ" \notin b_flags[b] /\ ok => /\ Transfer(b, ok).copy = fresh[b]
                                                /\ Transfer(b, ok).disk = (disk \ Blocks(b)) \cup fresh[b]
           /\ "READ" \notin b_flags[b] /\ ~ok => Transfer(b, ok).disk = disk \cup fresh[b]
<1>1. CASE "READ" \in b_flags[b]
    BY <1>1 DEF Transfer
<1>2. CASE "READ" \notin b_flags[b] /\ ok
    BY <1>2 DEF Transfer
<1>3. CASE "READ" \notin b_flags[b] /\ ~ok
    BY <1>3 DEF Transfer
<1> QED BY <1>1, <1>2, <1>3

\* The flags iodone() finds, and what becomes of the buffer: brelse() drops it, or
\* it stays what it is.
DoneFlags(b, ok) == b_flags[b] \cup {"DONE"} \cup IF ok THEN {} ELSE {"ERROR"}

Dropped(b) ==
    /\ "INVAL" \in b_flags'[b] /\ "DELWRI" \notin b_flags'[b] /\ b_length'[b] = 0
    /\ "ASYNC" \in b_flags[b]

Completed(b, ok) ==
    /\ b_dev'[b] = b_dev[b] /\ b_length'[b] = b_length[b]
    /\ b_flags'[b] \cap ContentFlags = DoneFlags(b, ok) \cap ContentFlags
    /\ fresh'[b] = Transfer(b, ok).copy

LEMMA iodoneEffect ==
    ASSUME TypeInv, OwnInv, NEW b \in Buf, iodone(b)
    PROVE  \E ok \in BOOLEAN :
             /\ b \in io /\ io' = io \ {b} /\ disk' = Transfer(b, ok).disk
             /\ UNCHANGED <<pc, bp, call, ret, slept, cur, raced, b_blkno, hashed>>
             /\ \A c \in Buf \ {b} : /\ b_flags'[c] = b_flags[c] /\ b_dev'[c] = b_dev[c]
                                     /\ b_length'[c] = b_length[c] /\ fresh'[c] = fresh[c]
             /\ Dropped(b) \/ Completed(b, ok)
<1>1. PICK ok \in IoResult :
        LET fl == b_flags[b] \cup {"DONE"} \cup IF ok THEN {} ELSE {"ERROR"}
            t == Transfer(b, ok)
            f == [fresh EXCEPT ![b] = t.copy]
            count == IF "READ" \in fl THEN basyncnt ELSE basyncnt - 1
            idle == count = 0 /\ basynwait
        IN  /\ b \in io /\ io' = io \ {b} /\ disk' = t.disk
            /\ \/ /\ "ASYNC" \in fl
                  /\ Brelse(b, fl, freelist, f, IF idle THEN {"basyncnt"} ELSE {})
                  /\ UNCHANGED <<b_blkno, hashed>>
               \/ /\ b_flags' = [b_flags EXCEPT ![b] = fl \ {"WANTED"}]
                  /\ fresh' = f
                  /\ UNCHANGED headers
            /\ UNCHANGED <<pc, locals, cur, raced, tossed>>
    BY Zenon DEF iodone
<1> DEFINE fl == DoneFlags(b, ok)
           f == [fresh EXCEPT ![b] = Transfer(b, ok).copy]
<1>2. ok \in BOOLEAN /\ b \in io /\ io' = io \ {b} /\ disk' = Transfer(b, ok).disk
    BY <1>1, IoAssumption
<1>3. UNCHANGED <<pc, bp, call, ret, slept, cur, raced, b_blkno, hashed>>
    BY <1>1 DEF locals, headers
<1>4. fl \in SUBSET Flag /\ ("ASYNC" \in fl => "ASYNC" \in b_flags[b])
    BY DEF DoneFlags, Flag, TypeInv, TypeOK, HeaderType
<1>5. f \in [Buf -> SUBSET Nat] /\ f[b] = Transfer(b, ok).copy /\ \A c \in Buf \ {b} : f[c] = fresh[c]
    <2>1. fresh[b] \subseteq Nat /\ disk \subseteq Nat /\ fresh \in [Buf -> SUBSET Nat]
        BY DEF TypeInv, TypeOK, IoType
    <2>2. Transfer(b, ok).copy \subseteq Nat
        BY <1>2, <2>1 DEF Transfer
    <2> QED BY <2>1, <2>2
<1>6. CASE "ASYNC" \in fl /\ \E extra : Brelse(b, fl, freelist, f, extra)
    <2>1. PICK extra : Brelse(b, fl, freelist, f, extra)
        BY <1>6
    <2> HIDE DEF fl, f
    <2>2. \A c \in Buf \ {b} : /\ b_flags'[c] = b_flags[c] /\ b_dev'[c] = b_dev[c]
                               /\ b_length'[c] = b_length[c] /\ fresh'[c] = fresh[c]
        BY <1>5, <2>1, BrelseOthers
    <2>3. CASE fl \cap {"ERROR", "INVAL"} # {}
        <3>1. Dropped(b)
            BY <1>4, <1>5, <1>6, <2>1, <2>3, BrelseDrops DEF Dropped
        <3> QED BY <1>2, <1>3, <2>2, <3>1
    <2>4. CASE fl \cap {"ERROR", "INVAL"} = {}
        <3>1. /\ b_flags'[b] \cap ContentFlags = fl \cap ContentFlags
              /\ b_dev'[b] = b_dev[b] /\ b_length'[b] = b_length[b] /\ fresh'[b] = f[b]
            BY <1>4, <1>5, <2>1, <2>4, BrelseStays
        <3>2. Completed(b, ok)
            BY <1>5, <3>1 DEF Completed, fl
        <3> QED BY <1>2, <1>3, <2>2, <3>2
    <2> QED BY <2>3, <2>4
<1>7. CASE b_flags' = [b_flags EXCEPT ![b] = fl \ {"WANTED"}] /\ fresh' = f /\ UNCHANGED headers
    <2>1. b_flags'[b] = fl \ {"WANTED"} /\ \A c \in Buf \ {b} : b_flags'[c] = b_flags[c]
        BY <1>7 DEF TypeInv, TypeOK, HeaderType
    <2>2. \A c \in Buf : b_dev'[c] = b_dev[c] /\ b_length'[c] = b_length[c]
        BY <1>7 DEF headers
    <2>3. fresh'[b] = Transfer(b, ok).copy /\ \A c \in Buf \ {b} : fresh'[c] = fresh[c]
        BY <1>5, <1>7
    <2>4. b_flags'[b] \cap ContentFlags = DoneFlags(b, ok) \cap ContentFlags
        BY <2>1 DEF ContentFlags
    <2>5. Completed(b, ok)
        BY <2>2, <2>3, <2>4 DEF Completed
    <2> QED BY <1>2, <1>3, <2>1, <2>2, <2>3, <2>5
<1>8. \/ "ASYNC" \in fl /\ \E extra : Brelse(b, fl, freelist, f, extra)
      \/ b_flags' = [b_flags EXCEPT ![b] = fl \ {"WANTED"}] /\ fresh' = f /\ UNCHANGED headers
    BY <1>1, Zenon DEF DoneFlags
<1> QED BY <1>6, <1>7, <1>8

\* The owner of a buffer that the driver has waits for it; and an asynchronous
\* transfer has no owner.
LEMMA DriverOwner ==
    ASSUME TypeInv, OwnInv, NEW b \in Buf, b \in io, NEW q \in Proc, Owns(q, b)
    PROVE  pc[q] = "iowait" /\ bp[q] = b /\ "ASYNC" \notin b_flags[b]
BY DEF OwnInv, OwnOK, OwnerOK, Owns, TypeInv, LocalOK, Local

LEMMA iodoneData ==
    ASSUME TypeInv, TypeInv', OwnInv, WakeInv, NEW H \in BOOLEAN, DataInv(H), NEW b \in Buf,
           iodone(b)
    PROVE  DataInv(H)'
<1>1. PICK ok \in BOOLEAN :
             /\ b \in io /\ io' = io \ {b} /\ disk' = Transfer(b, ok).disk
             /\ UNCHANGED <<pc, bp, call, ret, slept, cur, raced, b_blkno, hashed>>
             /\ \A c \in Buf \ {b} : /\ b_flags'[c] = b_flags[c] /\ b_dev'[c] = b_dev[c]
                                     /\ b_length'[c] = b_length[c] /\ fresh'[c] = fresh[c]
             /\ Dropped(b) \/ Completed(b, ok)
    BY iodoneEffect
<1>2. \A c \in Buf \ {b} : Still(c)
    BY <1>1, OtherFlags DEF SameBlocks
<1>3. ASSUME Dropped(b) PROVE ~Valid(b)' /\ \A q \in Proc : ~Owns(q, b)
    BY <1>1, <1>3, DriverOwner DEF Dropped, Valid
<1>4. ASSUME Completed(b, ok)
      PROVE  /\ (Valid(b)' <=> Valid(b)) /\ Blocks(b)' = Blocks(b) /\ b_length'[b] = b_length[b]
             /\ "DELWRI" \in b_flags'[b] <=> "DELWRI" \in b_flags[b]
             /\ "READ" \in b_flags'[b] <=> "READ" \in b_flags[b]
             /\ "ERROR" \notin b_flags'[b] => ok
    <2>1. /\ "DELWRI" \in b_flags'[b] <=> "DELWRI" \in b_flags[b]
          /\ "READ" \in b_flags'[b] <=> "READ" \in b_flags[b]
          /\ "INVAL" \in b_flags'[b] <=> "INVAL" \in b_flags[b]
          /\ "ERROR" \notin b_flags'[b] => ok
        BY <1>4 DEF Completed, ContentFlags, DoneFlags
    <2> QED BY <1>1, <1>4, <2>1 DEF Completed, Valid, Blocks
<1>5. \A c \in Buf : NoMore(c)
    <2>1. NoMore(b)
        BY <1>1, <1>3, <1>4 DEF NoMore
    <2> QED BY <1>2, <2>1, StillValid
<1>6. SearchInv'
    <2>1. OneCopy'
        BY <1>1, <1>5, StillOnce DEF DataInv, SearchInv, OneCopy
    <2>2. ASSUME NEW q \in Proc PROVE SearchOK(q)'
        <3>1. SearchOK(q) /\ (Looking(q)' <=> Looking(q))
            BY <1>1 DEF Looking, FileUse, DataInv, SearchInv
        <3>2. Looking(q)' => Match(q)' = {} /\ cur' = q
            BY <1>1, <1>5, <3>1, NoMatch DEF SearchOK
        <3>3. pc[q] \in NewLabel => bp[q] \in Buf \ {b}
            <4> SUFFICES ASSUME pc[q] \in NewLabel PROVE bp[q] \in Buf \ {b}
                OBVIOUS
            <4>1. pc[q] \in Owning \ {"iowait"}
                BY DEF NewLabel, Owning
            <4> QED BY <1>1, <4>1, OwnBuffer
        <3> QED BY <1>1, <3>1, <3>2, <3>3 DEF SearchOK
    <2> QED BY <2>1, <2>2 DEF SearchInv
<1>7. ASSUME Good(H) PROVE ContentInv'
    <2>1. ContentInv /\ CachedOnce
        BY <1>7 DEF DataInv, SearchInv, OneCopy, Good
    <2>2. Sound(b) /\ Valid(b)
        BY <1>1, <2>1 DEF ContentInv, Sound
    <2>3. "DELWRI" \notin b_flags[b] /\ b \notin io'
        BY <1>1, <2>2 DEF Sound, OwnInv, OwnOK, BufOK
    <2>4. /\ disk \subseteq disk'
          /\ Owed(b) => fresh[b] \subseteq disk'
          /\ ok /\ Completed(b, ok) => fresh'[b] = Blocks(b)
        <3>1. CASE "READ" \in b_flags[b]
            <4>1. ~Owed(b)
                BY <2>3, <3>1 DEF Owed
            <4>2. Blocks(b) \subseteq disk
                BY <2>1, <2>2, <4>1, ReadsDisk
            <4>3. Transfer(b, ok).disk = disk /\ (ok => Transfer(b, ok).copy = Blocks(b))
                BY <3>1, <4>2, Transferred
            <4> QED BY <1>1, <4>1, <4>3 DEF Completed
        <3>2. CASE "READ" \notin b_flags[b]
            <4>1. fresh[b] = Blocks(b)
                BY <1>1, <2>2, <3>2 DEF Sound, Full
            <4>2. CASE ok
                <5>1. Transfer(b, ok).disk = (disk \ Blocks(b)) \cup Blocks(b)
                    BY <3>2, <4>1, <4>2, Transferred
                <5>2. Transfer(b, ok).copy = Blocks(b)
                    BY <3>2, <4>1, <4>2, Transferred
                <5> QED BY <1>1, <4>1, <5>1, <5>2 DEF Completed
            <4>3. CASE ~ok
                <5>1. Transfer(b, ok).disk = disk \cup fresh[b]
                    BY <3>2, <4>3, Transferred
                <5> QED BY <1>1, <4>3, <5>1
            <4> QED BY <4>2, <4>3
        <3> QED BY <3>1, <3>2
    <2>5. Sound(b)'
        <3>1. CASE Dropped(b)
            BY <1>3, <2>3, <3>1 DEF Sound, Dropped
        <3>2. CASE Completed(b, ok)
            <4>1. Blocks(b)' \subseteq Block
                BY <1>4, <2>2, <3>2 DEF Sound
            <4>2. "ERROR" \notin b_flags'[b] => Full(b)'
                BY <1>4, <2>4, <3>2 DEF Full
            <4> QED BY <1>4, <2>3, <3>2, <4>1, <4>2 DEF Sound
        <3> QED BY <1>1, <3>1, <3>2
    <2>6. \A c \in Buf : Sound(c)'
        BY <1>2, <2>1, <2>5, StillSound DEF ContentInv
    <2>7. ASSUME NEW q \in Proc PROVE Using(q)'
        <3>1. Using(q)
            BY <2>1 DEF ContentInv
        <3>2. CASE Owns(q, b)
            <4>1. pc[q] = "iowait" /\ bp[q] = b /\ Completed(b, ok)
                BY <1>1, <3>2, DriverOwner DEF Dropped
            <4>2. Valid(b)' /\ ("READ" \in b_flags'[b] <=> "READ" \in b_flags[b])
                BY <1>4, <2>2, <4>1
            <4>3. Reader(q)' <=> Reader(q)
                BY <1>1 DEF Reader, FileUse
            <4>4. b_length'[b] = b_length[b] /\ b_blkno'[b] = b_blkno[b]
                BY <1>1, <1>4, <4>1
            <4> QED BY <1>1, <3>1, <4>1, <4>2, <4>3, <4>4 DEF Using, NewLabel
        <3>3. CASE pc[q] = "capture"
            <4>1. PICK c \in Buf : c = bp[q]
                BY <3>3 DEF TypeInv, LocalOK, Local
            <4>2. Valid(c) \/ b_length[c] = 0
                BY <3>1, <3>3, <4>1 DEF Using
            <4>3. Valid(c)' \/ b_length'[c] = 0
                <5>1. CASE c = b
                    BY <1>1, <1>4, <2>2, <5>1 DEF Dropped
                <5>2. CASE c # b
                    BY <1>1, <1>2, <4>2, <5>2, StillValid
                <5> QED BY <5>1, <5>2
            <4>4. pc'[q] = "capture" /\ bp'[q] = c
                BY <1>1, <3>3, <4>1
            <4> QED BY <4>3, <4>4 DEF Using, Reader, NewLabel
        <3>4. CASE pc[q] # "capture" /\ ~Owns(q, b)
            <4>1. pc[q] \in Owning => Still(bp[q])
                BY <1>2, <3>4 DEF Owns, TypeInv, LocalOK, Local
            <4> QED BY <1>1, <3>1, <3>4, <4>1, StillUsing
        <3> QED BY <3>2, <3>3, <3>4
    <2>8. ASSUME NEW k \in Block PROVE Safe(k)'
        <3>1. CASE k \in disk
            BY <2>4, <3>1 DEF Safe
        <3>2. CASE k \notin disk
            <4>1. PICK c \in Buf : k \in fresh[c] /\ Owed(c)
                BY <2>1, <3>2 DEF ContentInv, Stored, Safe
            <4>2. CASE c = b
                BY <2>4, <4>1, <4>2 DEF Safe
            <4>3. CASE c # b
                <5>1. Owed(c)' /\ k \in fresh'[c]
                    BY <1>1, <4>1, <4>3 DEF Owed
                <5> QED BY <5>1 DEF Safe
            <4> QED BY <4>2, <4>3
        <3> QED BY <3>1, <3>2
    <2> QED BY <2>6, <2>7, <2>8 DEF ContentInv, Stored
<1> QED BY <1>1, <1>6, <1>7 DEF DataInv, Good

-----------------------------------------------------------------------------
LEMMA DataStutter ==
    ASSUME TypeInv, TypeInv', NEW H \in BOOLEAN, DataInv(H), UNCHANGED vars
    PROVE  DataInv(H)'
<1>1. UNCHANGED <<b_flags, b_dev, b_blkno, b_length, hashed, io, pc, bp, ret, call, slept,
                  cur, fresh, disk, raced>>
    BY DEF vars, headers, iovars, locals, data
<1>2. ASSUME NEW c \in Buf
      PROVE  /\ (Valid(c)' <=> Valid(c)) /\ Blocks(c)' = Blocks(c) /\ NoMore(c)
             /\ (Full(c)' <=> Full(c)) /\ (Owed(c)' <=> Owed(c))
    <2>1. (Valid(c)' <=> Valid(c)) /\ Blocks(c)' = Blocks(c)
        BY <1>1 DEF Valid, Blocks
    <2> QED BY <1>1, <2>1 DEF NoMore, Full, Owed
<1>3. SearchInv'
    <2>1. OneCopy'
        BY <1>1, <1>2, StillOnce DEF DataInv, SearchInv, OneCopy
    <2>2. ASSUME NEW q \in Proc PROVE SearchOK(q)'
        <3>1. SearchOK(q) /\ (Looking(q)' <=> Looking(q))
            BY <1>1 DEF Looking, FileUse, DataInv, SearchInv
        <3>2. Match(q)' = Match(q)
            BY <1>1 DEF Match, Blocks, Wanted
        <3> QED BY <1>1, <3>1, <3>2 DEF SearchOK
    <2> QED BY <2>1, <2>2 DEF SearchInv
<1>4. ASSUME ContentInv PROVE ContentInv'
    <2>1. \A c \in Buf : Sound(c)'
        BY <1>1, <1>2, <1>4 DEF ContentInv, Sound
    <2>2. ASSUME NEW q \in Proc PROVE Using(q)'
        <3>1. Using(q) /\ (Reader(q)' <=> Reader(q)) /\ (FileUse(q)' <=> FileUse(q))
            BY <1>1, <1>4 DEF ContentInv, Reader, FileUse
        <3>2. (Valid(bp[q])' <=> Valid(bp[q])) /\ (Full(bp[q])' <=> Full(bp[q]))
            BY <1>1 DEF Valid, Full, Blocks
        <3> QED BY <1>1, <3>1, <3>2 DEF Using
    <2>3. Stored'
        BY <1>1, <1>2, <1>4 DEF ContentInv, Stored, Safe
    <2> QED BY <2>1, <2>2, <2>3 DEF ContentInv
<1> QED BY <1>1, <1>3, <1>4 DEF DataInv, Good

-----------------------------------------------------------------------------
(***************************************************************************)
(* Unmounting.  Who comes where, and whom the unmounting process has       *)
(* beside it, whatever happens; and, as long as no write of the others     *)
(* waits for DMA space, that nothing is left to be written when it comes   *)
(* to binval().                                                            *)
(***************************************************************************)
Path(p) ==
    /\ pc[p] \in {"find", "capture", "hitkmap", "got", "iowait"} => FileUse(p)
    /\ pc[p] = "dma" => FileUse(p) \/ "ASYNC" \in wflag[p]
    /\ pc[p] \in {"dma", "bwpost"} /\ ret[p] \in {"find", "hold"} => FileUse(p)
    /\ pc[p] = "edma" \/ (pc[p] = "hold" /\ ~FileUse(p)) => bp[p] \notin hashed
    /\ pc[p] = "binval" => call[p].op = "umount" /\ cur = p

\* A process that unmounts is the only one that uses the file system.
Unmounting(p) == pc[p] # "user" /\ call[p].op = "umount"
Alone(p) ==
    \A q \in Proc \ {p} : Unmounting(p) /\ pc[q] # "user" => call[q].op \notin FileOp \cup {"umount"}

\* An asynchronous transfer is a write.
NotBoth(b) == "ASYNC" \in b_flags[b] => "READ" \notin b_flags[b]

PathInv == (\A p \in Proc : Path(p) /\ Alone(p)) /\ (\A b \in Buf : NotBoth(b))

\* What bflush() and bdwait() have achieved.
SweepInv ==
    NoUmount \/
    /\ \A p \in Proc : pc[p] = "dma" => call[p].op \in FileOp \cup {"umount"} \/ cur = p
    /\ \A p \in Proc : call[p].op = "umount" /\ pc[p] \in {"bdwait", "binval"}
          => \A b \in Buf : "DELWRI" \notin b_flags[b]
    /\ \A p \in Proc : pc[p] = "binval" => io = {}

\* A step of process p but for the entry of a call: where it comes, ...
Walks(p) ==
    /\ cur \in {p, NoProc} /\ OthersIdle(p) /\ pc[p] # "user"
    /\ \A q \in Proc \ {p} : wflag'[q] = wflag[q]
    /\ pc'[p] # "user" => call'[p] = call[p]
    /\ pc'[p] = "dma" => cur' = p \/ chan'[p] = "DMA"
    /\ pc'[p] \in {"bdwait", "binval"} => pc[p] \in {"flush", "bdwait"}
    /\ Path(p)'

\* ... and what becomes of the buffers.
Marks(p) ==
    /\ \A c \in Buf : NotBoth(c) => NotBoth(c)'
    /\ \A c \in Buf : "DELWRI" \in b_flags'[c] => "DELWRI" \in b_flags[c] \/ FileUse(p)
    /\ \A c \in Buf : c \in hashed' => c \in hashed \/ Owns(p, c)

LEMMA PathStep ==
    ASSUME TypeInv, OwnInv, PathInv, NEW p \in Proc, Walks(p), Marks(p)
    PROVE  PathInv'
<1>1. ASSUME NEW q \in Proc \ {p} PROVE Path(q)'
    <2>1. /\ pc'[q] = pc[q] /\ bp'[q] = bp[q] /\ ret'[q] = ret[q] /\ call'[q] = call[q]
          /\ wflag'[q] = wflag[q] /\ Path(q)
        BY DEF Walks, OthersIdle, PathInv
    <2>2. pc[q] # "binval"
        BY <2>1, NamesAssumption DEF Walks, Path
    <2>3. ASSUME pc[q] \in {"edma", "hold"}, bp[q] \notin hashed PROVE bp[q] \notin hashed'
        <3>1. bp[q] \in Buf /\ Owns(q, bp[q])
            BY <2>3 DEF TypeInv, LocalOK, Local, Owns, Owning
        <3>2. ~Owns(p, bp[q])
            BY <3>1 DEF Owns, OwnInv, OwnOK
        <3> QED BY <2>3, <3>1, <3>2 DEF Marks
    <2> QED BY <2>1, <2>2, <2>3 DEF Path, FileUse
<1>2. ASSUME NEW q \in Proc PROVE Alone(q)'
    <2>1. ASSUME NEW r \in Proc PROVE pc'[r] # "user" => pc[r] # "user" /\ call'[r] = call[r]
        BY DEF Walks, OthersIdle
    <2> QED BY <2>1 DEF PathInv, Alone, Unmounting
<1>3. \A b \in Buf : NotBoth(b)'
    BY DEF Marks, PathInv
<1> QED BY <1>1, <1>2, <1>3 DEF PathInv, Walks

LEMMA SweepStep ==
    ASSUME TypeInv, PathInv, SweepInv, NobodyWaits', NEW p \in Proc, Walks(p), Marks(p),
           ~NoUmount /\ Unmounting(p) /\ pc'[p] \in {"bdwait", "binval"}
              => \A b \in Buf : "DELWRI" \notin b_flags'[b],
           ~NoUmount /\ pc'[p] = "binval" => io' = {}
    PROVE  SweepInv'
<1> SUFFICES ASSUME ~NoUmount PROVE SweepInv'
    BY DEF SweepInv, NoUmount
<1>1. /\ \A q \in Proc : pc[q] = "dma" => call[q].op \in FileOp \cup {"umount"} \/ cur = q
      /\ \A q \in Proc : call[q].op = "umount" /\ pc[q] \in {"bdwait", "binval"}
            => \A b \in Buf : "DELWRI" \notin b_flags[b]
    BY DEF SweepInv
<1>2. ASSUME NEW q \in Proc, pc'[q] = "dma" PROVE call'[q].op \in FileOp \cup {"umount"} \/ cur' = q
    <2>1. CASE q = p
        <3>1. chan'[p] = "DMA" => call'[p].op \in FileOp \cup {"umount"}
            BY <1>2, <2>1 DEF NobodyWaits, NoUmount
        <3> QED BY <1>2, <2>1, <3>1 DEF Walks
    <2>2. CASE q # p
        BY <1>1, <1>2, <2>2, NamesAssumption DEF Walks, OthersIdle
    <2> QED BY <2>1, <2>2
<1>3. ASSUME NEW q \in Proc, call'[q].op = "umount", pc'[q] \in {"bdwait", "binval"}, NEW b \in Buf
      PROVE  "DELWRI" \notin b_flags'[b]
    <2>1. CASE q = p
        BY <1>3, <2>1 DEF Walks, Unmounting
    <2>2. CASE q # p
        <3>1. pc[q] \in {"bdwait", "binval"} /\ call[q].op = "umount"
            BY <1>3, <2>2 DEF Walks, OthersIdle
        <3>2. call[p].op \notin FileOp
            BY <2>2, <3>1 DEF PathInv, Alone, Unmounting, Walks
        <3> QED BY <1>1, <3>1, <3>2 DEF Marks, FileUse, FileOp
    <2> QED BY <2>1, <2>2
<1>4. ASSUME NEW q \in Proc, pc'[q] = "binval" PROVE io' = {}
    <2>1. CASE q = p
        BY <1>4, <2>1
    <2>2. CASE q # p
        <3>1. pc[q] = "binval"
            BY <1>4, <2>2 DEF Walks, OthersIdle
        <3>2. cur = q
            BY <3>1 DEF PathInv, Path
        <3> QED BY <2>2, <3>2, NamesAssumption DEF Walks
    <2> QED BY <2>1, <2>2
<1> QED BY <1>2, <1>3, <1>4 DEF SweepInv, NoUmount

\* A step that leaves the flags and the chains alone.
LEMMA MarksNothing ==
    ASSUME NEW p \in Proc, UNCHANGED hashed,
           \A c \in Buf : b_flags'[c] \cap {"READ", "ASYNC", "DELWRI"}
                              \subseteq b_flags[c] \cap {"READ", "ASYNC", "DELWRI"}
    PROVE  Marks(p)
BY DEF Marks, NotBoth

\* binval() makes buffers invalid, whoever has them; when it is called nobody has one
\* in the chains, and everything is on the disk.
LEMMA binvalData ==
    ASSUME TypeInv, TypeInv', OwnInv, WakeInv, PathInv,
           NEW H \in BOOLEAN, Good(H) => SweepInv, DataInv(H), NEW p \in Proc, binval(p)
    PROVE  DataInv(H)'
<1>1. /\ cur \in {p, NoProc} /\ pc[p] = "binval" /\ Return(p, "user")
      /\ UNCHANGED <<headers, io, fresh, disk, raced>>
    BY DEF binval, Runs, iovars, data
<1>2. ASSUME NEW c \in Buf
      PROVE  b_flags'[c] = IF c \in hashed /\ b_dev[c] = "dev"
                           THEN b_flags[c] \cup {"INVAL", "AGE"} ELSE b_flags[c]
    BY DEF binval
<1>3. ASSUME NEW c \in Buf PROVE NoMore(c)
    BY <1>1, <1>2 DEF NoMore, Valid, Blocks, headers
<1>4. OthersIdle(p) /\ pc'[p] \notin NewLabel /\ ~Looking(p)' /\ Using(p)'
    BY <1>1, Returned DEF Owning
<1>5. ASSUME NEW q \in Proc \ {p} PROVE SearchOK(q)'
    <2>1. ~Looking(q)
        BY <1>1, NobodyLooks DEF DataInv
    <2>2. ~Looking(q)'
        BY <1>4, <2>1 DEF Looking, FileUse, OthersIdle
    <2> QED BY <1>1, <1>4, <2>2 DEF DataInv, SearchInv, SearchOK, OthersIdle, headers
<1>6. SearchOK(p)'
    BY <1>4 DEF SearchOK
<1>7. OneCopy'
    BY <1>1, <1>3, StillOnce DEF DataInv, SearchInv, OneCopy
<1>8. ASSUME Good(H) PROVE ContentInv'
    <2>1. ContentInv /\ SweepInv
        BY <1>8 DEF DataInv
    <2>2. Unmounting(p) /\ ~NoUmount
        <3>1. call[p].op = "umount" /\ call[p] \in Call \cup {NoCall}
            BY <1>1 DEF PathInv, Path, TypeInv, TypeOK, ProcType
        <3> QED BY <1>1, <3>1 DEF NoUmount, NoCall, Unmounting
    <2>3. (\A b \in Buf : "DELWRI" \notin b_flags[b]) /\ io = {}
        BY <1>1, <2>1, <2>2 DEF SweepInv, Unmounting
    <2>4. ASSUME NEW q \in Proc \ {p}, pc[q] # "user"
          PROVE  ~FileUse(q) /\ pc[q] \notin {"find", "capture", "hitkmap", "got", "iowait", "dma"}
        <3>1. call[q].op \notin FileOp \cup {"umount"}
            BY <2>2, <2>4 DEF PathInv, Alone
        <3>2. ~FileUse(q)
            BY <3>1 DEF FileOp, FileUse
        <3>3. pc[q] # "dma"
            BY <1>1, <2>1, <2>2, <3>1, NamesAssumption DEF SweepInv
        <3> QED BY <3>2, <3>3 DEF PathInv, Path
    <2>5. ASSUME NEW b \in Buf PROVE Sound(b)'
        <3>1. ~Valid(b)'
            BY <1>1, <1>2 DEF Valid, headers
        <3>2. "DELWRI" \notin b_flags'[b]
            <4>1. b_flags'[b] \subseteq b_flags[b] \cup {"INVAL", "AGE"}
                BY <1>2, Zenon
            <4> QED BY <2>3, <4>1
        <3>3. b \notin io'
            BY <1>1, <2>3
        <3> QED BY <3>1, <3>2, <3>3 DEF Sound
    <2>6. ASSUME NEW q \in Proc \ {p} PROVE Using(q)'
        <3>1. /\ pc'[q] = pc[q] /\ bp'[q] = bp[q] /\ call'[q] = call[q] /\ ret'[q] = ret[q]
              /\ Using(q)
            BY <1>4, <2>1 DEF OthersIdle, ContentInv
        <3>2. CASE pc[q] \in NewLabel
            <4>1. bp[q] \in Buf /\ bp[q] \notin hashed
                BY <3>2 DEF WakeInv, Placed, NewLabel, TypeInv, LocalOK, Local, Owning
            <4>2. b_flags'[bp[q]] = b_flags[bp[q]]
                BY <1>2, <4>1
            <4> QED BY <3>1, <3>2, <4>2 DEF Using, Reader, NewLabel
        <3>3. CASE pc[q] \notin NewLabel
            <4>1. ~Reader(q)' /\ pc[q] \notin {"capture", "dma", "iowait"}
                BY <2>4, <3>1 DEF Reader, FileUse
            <4>2. pc[q] \in {"hold", "edma"} => ~FileUse(q)
                BY <2>4
            <4> QED BY <3>1, <3>3, <4>1, <4>2 DEF Using, FileUse
        <3> QED BY <3>2, <3>3
    <2>7. ASSUME NEW k \in Block PROVE Safe(k)'
        <3>1. ASSUME NEW b \in Buf, Owed(b) PROVE FALSE
            <4>1. PICK q \in Proc : pc[q] = "dma"
                BY <2>3, <3>1 DEF Owed
            <4> QED BY <1>1, <2>4, <4>1
        <3>2. k \in disk
            BY <2>1, <3>1 DEF ContentInv, Stored, Safe
        <3> QED BY <1>1, <3>2 DEF Safe
    <2> QED BY <1>4, <2>5, <2>6, <2>7 DEF ContentInv, Stored
<1> QED BY <1>1, <1>5, <1>6, <1>7, <1>8 DEF DataInv, SearchInv, Good

\* brelse() of a buffer that was dirty before, unless its caller has written to it.
LEMMA BrelseMarks ==
    ASSUME TypeInv, NEW p \in Proc, NEW b \in Buf, NEW fl, NEW fr, NEW f, NEW extra,
           Brelse(b, fl, fr, f, extra), UNCHANGED hashed,
           "DELWRI" \in fl => "DELWRI" \in b_flags[b] \/ FileUse(p)
    PROVE  Marks(p)
<1>1. "ASYNC" \notin b_flags'[b] /\ ("DELWRI" \in b_flags'[b] => "DELWRI" \in fl)
    BY DEF Brelse, TypeInv, TypeOK, HeaderType
<1>2. \A c \in Buf \ {b} : b_flags'[c] = b_flags[c]
    BY DEF Brelse, TypeInv, TypeOK, HeaderType
<1> QED BY <1>1, <1>2 DEF Marks, NotBoth

\* The actions of a process, one by one: where it comes, and which buffers it marks.
LEMMA FindSteps ==
    ASSUME TypeInv, OwnInv, WakeInv, PathInv, NEW p \in Proc, Find(p)
    PROVE  Walks(p) /\ Marks(p)
<1> USE DEF TypeInv, TypeOK, ProcType, WantType, HeaderType
<1>1. Path(p)
    BY DEF PathInv
<1>2. Walks(p)
    BY <1>1 DEF Find, Runs, Goto, Walks, OthersIdle, Path, FileUse, headers, locals
<1>3. Marks(p)
    BY MarksNothing DEF Find, headers
<1> QED BY <1>2, <1>3

LEMMA CaptureBusySteps ==
    ASSUME TypeInv, OwnInv, WakeInv, PathInv, NEW p \in Proc, CaptureBusy(p)
    PROVE  Walks(p) /\ Marks(p)
<1> USE DEF TypeInv, TypeOK, ProcType, WantType, HeaderType
<1>1. Path(p)
    BY DEF PathInv
<1>2. Walks(p)
    BY <1>1 DEF CaptureBusy, Runs, SleepOn, Walks, OthersIdle, Path, FileUse, headers, locals
<1>3. Marks(p)
    BY MarksNothing DEF CaptureBusy, headers
<1> QED BY <1>2, <1>3

LEMMA CaptureHitSteps ==
    ASSUME TypeInv, OwnInv, WakeInv, PathInv, NEW p \in Proc, CaptureHit(p)
    PROVE  Walks(p) /\ Marks(p)
<1> USE DEF TypeInv, TypeOK, ProcType, WantType, HeaderType
<1>1. Path(p)
    BY DEF PathInv
<1>2. Walks(p)
    BY <1>1 DEF CaptureHit, Runs, Goto, Walks, OthersIdle, Path, FileUse, headers, locals
<1>3. Marks(p)
    BY MarksNothing DEF CaptureHit, headers
<1> QED BY <1>2, <1>3

LEMMA NewBufEmptySteps ==
    ASSUME TypeInv, OwnInv, WakeInv, PathInv, NEW p \in Proc, NewBufEmpty(p)
    PROVE  Walks(p) /\ Marks(p)
<1> USE DEF TypeInv, TypeOK, ProcType, WantType, HeaderType
<1>1. Path(p)
    BY DEF PathInv
<1>2. Walks(p)
    BY <1>1 DEF NewBufEmpty, Runs, SleepOn, Walks, OthersIdle, Path, FileUse, headers, locals
<1>3. Marks(p)
    BY MarksNothing DEF NewBufEmpty, headers
<1> QED BY <1>2, <1>3

LEMMA SpaceGrantedSteps ==
    ASSUME TypeInv, OwnInv, WakeInv, PathInv, NEW p \in Proc, NEW l \in SpaceLabel,
           SpaceGranted(p, l)
    PROVE  Walks(p) /\ Marks(p)
<1> USE DEF TypeInv, TypeOK, ProcType, WantType, HeaderType
<1>1. Path(p)
    BY DEF PathInv
<1>2. Walks(p)
    BY <1>1 DEF SpaceGranted, Runs, Goto, SpaceNeeded, AfterSpace, SpaceLabel, Walks,
           OthersIdle, Path, FileUse, headers, locals
<1>3. Marks(p)
    BY MarksNothing DEF SpaceGranted, Space, SpaceLabel, headers
<1> QED BY <1>2, <1>3

LEMMA SpaceUncachedSteps ==
    ASSUME TypeInv, OwnInv, WakeInv, PathInv, NEW p \in Proc, NEW l \in SpaceLabel,
           SpaceUncached(p, l)
    PROVE  Walks(p) /\ Marks(p)
<1> USE DEF TypeInv, TypeOK, ProcType, WantType, HeaderType
<1>1. Path(p)
    BY DEF PathInv
<1>2. Walks(p)
    BY <1>1 DEF SpaceUncached, Runs, Goto, SpaceNeeded, SpaceLabel, Walks, OthersIdle, Path,
           FileUse, headers, locals
<1>3. Marks(p)
    BY MarksNothing DEF SpaceUncached, Strip, Gone, Res
<1> QED BY <1>2, <1>3

LEMMA SpaceSleepSteps ==
    ASSUME TypeInv, OwnInv, WakeInv, PathInv, NEW p \in Proc, NEW l \in SpaceLabel, SpaceSleep(p, l)
    PROVE  Walks(p) /\ Marks(p)
<1> USE DEF TypeInv, TypeOK, ProcType, WantType, HeaderType
<1>1. Path(p)
    BY DEF PathInv
<1>2. Walks(p)
    BY <1>1 DEF SpaceSleep, Runs, SleepOn, Space, SpaceNeeded, SpaceLabel, Walks, OthersIdle,
           Path, FileUse, headers, locals
<1>3. Marks(p)
    BY MarksNothing DEF SpaceSleep, headers
<1> QED BY <1>2, <1>3

LEMMA PagesSleepSteps ==
    ASSUME TypeInv, OwnInv, WakeInv, PathInv, NEW p \in Proc, PagesSleep(p)
    PROVE  Walks(p) /\ Marks(p)
<1> USE DEF TypeInv, TypeOK, ProcType, WantType, HeaderType
<1>1. Path(p)
    BY DEF PathInv
<1>2. Walks(p)
    BY <1>1 DEF PagesSleep, Runs, SleepOn, Walks, OthersIdle, Path, FileUse, headers, locals
<1>3. Marks(p)
    BY MarksNothing DEF PagesSleep, headers
<1> QED BY <1>2, <1>3

LEMMA PagesThereSteps ==
    ASSUME TypeInv, OwnInv, WakeInv, PathInv, NEW p \in Proc, PagesThere(p)
    PROVE  Walks(p) /\ Marks(p)
<1> USE DEF TypeInv, TypeOK, ProcType, WantType, HeaderType
<1>1. Path(p)
    BY DEF PathInv
<1>2. Walks(p)
    BY <1>1 DEF PagesThere, Runs, Goto, Walks, OthersIdle, Path, FileUse, headers, locals
<1>3. Marks(p)
    BY MarksNothing DEF PagesThere, headers
<1> QED BY <1>2, <1>3

LEMMA InsertBlockSteps ==
    ASSUME TypeInv, OwnInv, WakeInv, PathInv, NEW p \in Proc, InsertBlock(p)
    PROVE  Walks(p) /\ Marks(p)
<1> USE DEF TypeInv, TypeOK, ProcType, WantType, HeaderType
<1>1. Path(p)
    BY DEF PathInv
<1>2. Walks(p)
    BY <1>1 DEF InsertBlock, Runs, Goto, Walks, OthersIdle, Path, FileUse, headers, locals
<1>3. Marks(p)
    BY DEF InsertBlock, Runs, Marks, NotBoth, Owns, Owning, LocalOK, Local
<1> QED BY <1>2, <1>3

LEMMA InsertEmptySteps ==
    ASSUME TypeInv, OwnInv, WakeInv, PathInv, NEW p \in Proc, InsertEmpty(p)
    PROVE  Walks(p) /\ Marks(p)
<1> USE DEF TypeInv, TypeOK, ProcType, WantType, HeaderType
<1>1. Path(p)
    BY DEF PathInv
<1>2. Walks(p)
    BY <1>1 DEF InsertEmpty, Runs, Goto, Walks, OthersIdle, Path, FileUse, headers, locals,
           WakeInv, Placed
<1>3. Marks(p)
    BY MarksNothing DEF InsertEmpty
<1> QED BY <1>2, <1>3

LEMMA GotBlockSteps ==
    ASSUME TypeInv, OwnInv, WakeInv, PathInv, NEW p \in Proc, GotBlock(p)
    PROVE  Walks(p) /\ Marks(p)
<1> USE DEF TypeInv, TypeOK, ProcType, WantType, HeaderType
<1>1. Path(p)
    BY DEF PathInv
<1>2. Walks(p)
    BY <1>1 DEF GotBlock, Runs, Goto, Walks, OthersIdle, Path, FileUse, headers, locals
<1>3. Marks(p)
    BY DEF GotBlock, Runs, Marks, NotBoth, OwnInv, OwnOK, OwnerOK, Owning, LocalOK, Local, headers
<1> QED BY <1>2, <1>3

LEMMA StrategySteps ==
    ASSUME TypeInv, OwnInv, WakeInv, PathInv, NEW p \in Proc, Strategy(p)
    PROVE  Walks(p) /\ Marks(p)
<1> USE DEF TypeInv, TypeOK, ProcType, WantType, HeaderType
<1>1. Path(p)
    BY DEF PathInv
<1>2. Walks(p)
    BY <1>1 DEF Strategy, Runs, Goto, Walks, OthersIdle, Path, FileUse, headers, locals
<1>3. Marks(p)
    BY MarksNothing DEF Strategy, headers
<1> QED BY <1>2, <1>3

LEMMA BwritePostSteps ==
    ASSUME TypeInv, OwnInv, WakeInv, PathInv, NEW p \in Proc, BwritePost(p)
    PROVE  Walks(p) /\ Marks(p)
<1> USE DEF TypeInv, TypeOK, ProcType, WantType, HeaderType
<1>1. Path(p)
    BY DEF PathInv
<1>2. Walks(p)
    BY <1>1 DEF BwritePost, Runs, Goto, Return, Walks, OthersIdle, Path, FileUse, headers,
           locals, LocalOK, Local, RetLabel
<1>3. Marks(p)
    BY MarksNothing DEF BwritePost, headers
<1> QED BY <1>2, <1>3

LEMMA IowaitSleepSteps ==
    ASSUME TypeInv, OwnInv, WakeInv, PathInv, NEW p \in Proc, IowaitSleep(p)
    PROVE  Walks(p) /\ Marks(p)
<1> USE DEF TypeInv, TypeOK, ProcType, WantType, HeaderType
<1>1. Path(p)
    BY DEF PathInv
<1>2. Walks(p)
    BY <1>1 DEF IowaitSleep, Runs, SleepOn, Walks, OthersIdle, Path, FileUse, headers, locals
<1>3. Marks(p)
    BY MarksNothing DEF IowaitSleep, headers
<1> QED BY <1>2, <1>3

LEMMA IowaitReadSteps ==
    ASSUME TypeInv, OwnInv, WakeInv, PathInv, NEW p \in Proc, IowaitRead(p)
    PROVE  Walks(p) /\ Marks(p)
<1> USE DEF TypeInv, TypeOK, ProcType, WantType, HeaderType
<1>1. Path(p)
    BY DEF PathInv
<1>2. Walks(p)
    BY <1>1 DEF IowaitRead, Runs, Goto, Walks, OthersIdle, Path, FileUse, headers, locals
<1>3. Marks(p)
    BY MarksNothing DEF IowaitRead, headers
<1> QED BY <1>2, <1>3

LEMMA IowaitWrittenSteps ==
    ASSUME TypeInv, OwnInv, WakeInv, PathInv, NEW p \in Proc, IowaitWritten(p)
    PROVE  Walks(p) /\ Marks(p)
<1> USE DEF TypeInv, TypeOK, ProcType, WantType, HeaderType
<1>1. Path(p)
    BY DEF PathInv
<1>2. Walks(p)
    BY <1>1 DEF IowaitWritten, Runs, Goto, Return, Walks, OthersIdle, Path, FileUse, headers,
           locals, LocalOK, Local, RetLabel
<1>3. Marks(p)
    <2>1. bp[p] \in Buf /\ UNCHANGED hashed
        BY DEF IowaitWritten, Runs, LocalOK, Local, Owning
    <2> QED BY <2>1, BrelseMarks DEF IowaitWritten
<1> QED BY <1>2, <1>3

LEMMA ReleaseSteps ==
    ASSUME TypeInv, OwnInv, WakeInv, PathInv, NEW p \in Proc, Release(p)
    PROVE  Walks(p) /\ Marks(p)
<1> USE DEF TypeInv, TypeOK, ProcType, WantType, HeaderType
<1>1. Path(p)
    BY DEF PathInv
<1>2. Walks(p)
    BY <1>1 DEF Release, Runs, Goto, Return, Walks, OthersIdle, Path, FileUse, headers, locals
<1>3. Marks(p)
    <2>1. bp[p] \in Buf /\ UNCHANGED hashed
        BY DEF Release, Runs, LocalOK, Local, Owning
    <2> QED BY <2>1, BrelseMarks DEF Release
<1> QED BY <1>2, <1>3

LEMMA bdwriteSteps ==
    ASSUME TypeInv, OwnInv, WakeInv, PathInv, NEW p \in Proc, bdwrite(p)
    PROVE  Walks(p) /\ Marks(p)
<1> USE DEF TypeInv, TypeOK, ProcType, WantType, HeaderType
<1>1. Path(p)
    BY DEF PathInv
<1>2. Walks(p)
    BY <1>1 DEF bdwrite, Runs, Goto, Return, Writable, Walks, OthersIdle, Path, FileUse,
           headers, locals
<1>3. Marks(p)
    <2>1. bp[p] \in Buf /\ UNCHANGED hashed
        BY DEF bdwrite, Writable, Runs, LocalOK, Local, Owning
    <2> QED BY <2>1, BrelseMarks DEF bdwrite, Writable, FileUse
<1> QED BY <1>2, <1>3

LEMMA WriteNowSteps ==
    ASSUME TypeInv, OwnInv, WakeInv, PathInv, NEW p \in Proc, NEW mode \in {{}, {"ASYNC"}},
           WriteNow(p, mode)
    PROVE  Walks(p) /\ Marks(p)
<1> USE DEF TypeInv, TypeOK, ProcType, WantType, HeaderType
<1>1. Path(p)
    BY DEF PathInv
<1>2. Walks(p)
    BY <1>1 DEF WriteNow, Runs, Bwrite, Goto, Writable, Walks, OthersIdle, Path, FileUse,
           headers, locals
<1>3. Marks(p)
    <2>1. /\ bp[p] \in Buf /\ FileUse(p) /\ UNCHANGED hashed
          /\ b_flags' = [b_flags EXCEPT ![bp[p]] =
                            (b_flags[bp[p]] \cup mode) \ {"READ", "DONE", "ERROR", "DELWRI"}]
        BY DEF WriteNow, Bwrite, Writable, Runs, LocalOK, Local, Owning, FileUse, headers
    <2> QED BY <2>1 DEF Marks, NotBoth
<1> QED BY <1>2, <1>3

LEMMA WriteOutSteps ==
    ASSUME TypeInv, OwnInv, WakeInv, PathInv, NEW p \in Proc, NEW b \in Buf,
           NEW back \in RetLabel \ {"hold"}, cur \in {p, NoProc}, pc[p] # "user",
           back = "find" => FileUse(p), WriteOut(p, b, back)
    PROVE  Walks(p) /\ Marks(p)
<1> USE DEF TypeInv, TypeOK, ProcType, WantType, HeaderType
<1>1. Path(p)
    BY DEF PathInv
<1>2. Walks(p)
    BY <1>1 DEF WriteOut, Runs, Bwrite, Goto, Walks, OthersIdle, Path, FileUse, headers, locals
<1>3. Marks(p)
    BY DEF WriteOut, Bwrite, Marks, NotBoth, headers
<1> QED BY <1>2, <1>3

LEMMA NewBufCleanSteps ==
    ASSUME TypeInv, OwnInv, WakeInv, PathInv, NEW p \in Proc, NewBufClean(p)
    PROVE  Walks(p) /\ Marks(p)
<1> USE DEF TypeInv, TypeOK, ProcType, WantType, HeaderType
<1>1. Path(p)
    BY DEF PathInv
<1>2. Walks(p)
    BY <1>1 DEF NewBufClean, Runs, Goto, Walks, OthersIdle, Path, FileUse, headers, locals
<1>3. Marks(p)
    BY DEF NewBufClean, NewFlags, Marks, NotBoth, Res
<1> QED BY <1>2, <1>3

LEMMA btossSteps ==
    ASSUME TypeInv, OwnInv, WakeInv, PathInv, NEW p \in Proc, btoss(p)
    PROVE  Walks(p) /\ Marks(p)
<1> USE DEF TypeInv, TypeOK, ProcType, WantType, HeaderType
<1>1. Path(p)
    BY DEF PathInv
<1>2. Walks(p)
    BY <1>1 DEF btoss, Runs, Goto, Return, Walks, OthersIdle, Path, FileUse, headers, locals
<1>3. Marks(p)
    <2>1. CASE Tossable(p) = {}
        BY <2>1, MarksNothing DEF btoss, headers
    <2>2. CASE Tossable(p) # {}
        <3>1. FirstOf(Tossable(p)) \in Tossable(p)
            <4>1. Tossable(p) \subseteq OnFreelist
                BY DEF Tossable
            <4> QED BY <2>2, <4>1, FirstOfIn
        <3>2. PICK b \in Buf : b = FirstOf(Tossable(p))
            BY <3>1 DEF Tossable, OwnInv, FreeIffNotBusy
        <3>3. /\ Brelse(b, b_flags[b] \cup {"BUSY", "INVAL"}, Without(b), fresh, {})
              /\ UNCHANGED hashed
            BY <2>2, <3>2 DEF btoss
        <3>4. "DELWRI" \in b_flags[b] \cup {"BUSY", "INVAL"} => "DELWRI" \in b_flags[b]
            OBVIOUS
        <3> QED BY <3>2, <3>3, <3>4, BrelseMarks
    <2> QED BY <2>1, <2>2
<1> QED BY <1>2, <1>3

LEMMA LoopDoneSteps ==
    ASSUME TypeInv, OwnInv, WakeInv, PathInv, NEW p \in Proc,
           NEW l \in {"user", "bdwait", "binval"}, LoopDone(p, l), cur \in {p, NoProc},
           pc[p] \notin {"user"}, l = "binval" => call[p].op = "umount",
           l # "user" => pc[p] \in {"flush", "bdwait"}
    PROVE  Walks(p) /\ Marks(p)
<1> USE DEF TypeInv, TypeOK, ProcType, WantType, HeaderType
<1>1. Path(p)
    BY DEF PathInv
<1>2. Walks(p)
    BY <1>1 DEF LoopDone, Runs, Goto, Return, Walks, OthersIdle, Path, FileUse, headers, locals
<1>3. Marks(p)
    BY MarksNothing DEF LoopDone, headers
<1> QED BY <1>2, <1>3

LEMMA binvalSteps ==
    ASSUME TypeInv, OwnInv, WakeInv, PathInv, NEW p \in Proc, binval(p)
    PROVE  Walks(p) /\ Marks(p)
<1> USE DEF TypeInv, TypeOK, ProcType, WantType, HeaderType
<1>1. Path(p)
    BY DEF PathInv
<1>2. Walks(p)
    BY <1>1 DEF binval, Runs, Goto, Return, Walks, OthersIdle, Path, FileUse, headers, locals
<1>3. Marks(p)
    BY MarksNothing DEF binval, headers
<1> QED BY <1>2, <1>3

LEMMA CaptureMisshapenSteps ==
    ASSUME TypeInv, OwnInv, WakeInv, PathInv, NEW p \in Proc, CaptureMisshapen(p)
    PROVE  Walks(p) /\ Marks(p)
<1>1. PICK b \in Buf : b = bp[p]
    BY DEF CaptureMisshapen, Runs, TypeInv, LocalOK, Local
<1>2. pc[p] = "capture" /\ FileUse(p) /\ cur \in {p, NoProc}
    BY DEF CaptureMisshapen, Runs, PathInv, Path
<1>3. CASE WriteOut(p, b, "find")
    BY <1>2, <1>3, WriteOutSteps DEF RetLabel
<1>4. CASE /\ Brelse(b, b_flags[b] \cup {"BUSY", "INVAL"}, Without(b), fresh, {})
           /\ bp' = [bp EXCEPT ![p] = NoBuf] /\ Goto(p, "find")
           /\ UNCHANGED <<b_blkno, hashed, iovars, call, ret, wflag, slept, disk, raced, tossed>>
    <2>1. Walks(p)
        BY <1>2, <1>4 DEF Goto, Walks, OthersIdle, Path, FileUse, TypeInv, TypeOK, ProcType
    <2>2. Marks(p)
        BY <1>2, <1>4, BrelseMarks
    <2> QED BY <2>1, <2>2
<1> QED BY <1>1, <1>3, <1>4 DEF CaptureMisshapen

LEMMA NewBufDirtySteps ==
    ASSUME TypeInv, OwnInv, WakeInv, PathInv, NEW p \in Proc, NewBufDirty(p)
    PROVE  Walks(p) /\ Marks(p)
<1>1. PICK b \in Buf : b = Head(freelist)
    BY DEF NewBufDirty, TypeInv, TypeOK, HeaderType
<1>2. WriteOut(p, b, "newbuf") /\ cur \in {p, NoProc} /\ pc[p] = "newbuf"
    BY <1>1 DEF NewBufDirty, Runs
<1> QED BY <1>2, WriteOutSteps DEF RetLabel

LEMMA bflushSteps ==
    ASSUME TypeInv, OwnInv, WakeInv, PathInv, NEW p \in Proc, bflush(p)
    PROVE  Walks(p) /\ Marks(p)
<1>1. pc[p] = "flush" /\ cur \in {p, NoProc}
    BY DEF bflush, Runs
<1>2. CASE Dirty # {} /\ WriteOut(p, FirstOf(Dirty), "flush")
    <2>1. FirstOf(Dirty) \in Dirty
        <3>1. Dirty \subseteq OnFreelist
            BY DEF Dirty
        <3> QED BY <1>2, <3>1, FirstOfIn DEF TypeInv, TypeOK, HeaderType
    <2>2. PICK b \in Buf : b = FirstOf(Dirty)
        BY <2>1 DEF Dirty, OwnInv, FreeIffNotBusy
    <2> QED BY <1>1, <1>2, <2>2, WriteOutSteps DEF RetLabel
<1>3. CASE \E l \in {"user", "bdwait"} : LoopDone(p, l)
    BY <1>1, <1>3, LoopDoneSteps
<1> QED BY <1>2, <1>3 DEF bflush

LEMMA bdsyncSteps ==
    ASSUME TypeInv, OwnInv, WakeInv, PathInv, NEW p \in Proc, bdsync(p)
    PROVE  Walks(p) /\ Marks(p)
<1>1. pc[p] = "sync" /\ cur \in {p, NoProc}
    BY DEF bdsync, Runs
<1>2. CASE \E b \in Buf : WriteOut(p, b, "sync")
    BY <1>1, <1>2, WriteOutSteps DEF RetLabel
<1>3. CASE LoopDone(p, "user")
    BY <1>1, <1>3, LoopDoneSteps
<1> QED BY <1>2, <1>3 DEF bdsync

LEMMA bdwaitSteps ==
    ASSUME TypeInv, OwnInv, WakeInv, PathInv, NEW p \in Proc, bdwait(p)
    PROVE  Walks(p) /\ Marks(p)
<1>1. pc[p] = "bdwait" /\ cur \in {p, NoProc}
    BY DEF bdwait, Runs
<1>2. CASE LoopDone(p, IF call[p].op = "umount" THEN "binval" ELSE "user")
    BY <1>1, <1>2, LoopDoneSteps
<1>3. CASE /\ SleepOn(p, "basyncnt", "bdwait")
           /\ UNCHANGED <<b_flags, headers, freelist, bfwanted, io, basyncnt, spacevars, bp,
                          call, ret, wflag, data, raced, tossed>>
    <2>1. Walks(p)
        BY <1>1, <1>3 DEF SleepOn, Walks, OthersIdle, Path, FileUse, TypeInv, TypeOK,
               ProcType, WantType
    <2>2. Marks(p)
        BY <1>3, MarksNothing DEF headers
    <2> QED BY <2>1, <2>2
<1> QED BY <1>2, <1>3 DEF bdwait

LEMMA binvalfreeSteps ==
    ASSUME TypeInv, OwnInv, WakeInv, PathInv, NEW p \in Proc, binvalfree(p)
    PROVE  Walks(p) /\ Marks(p)
<1>1. pc[p] = "invalfree" /\ cur \in {p, NoProc}
    BY DEF binvalfree, Runs
<1>2. CASE OfDevice # {}
    <2>1. FirstOf(OfDevice) \in OfDevice
        <3>1. OfDevice \subseteq OnFreelist
            BY DEF OfDevice
        <3> QED BY <1>2, <3>1, FirstOfIn DEF TypeInv, TypeOK, HeaderType
    <2>2. PICK b \in Buf : b = FirstOf(OfDevice)
        BY <2>1 DEF OfDevice, OwnInv, FreeIffNotBusy
    <2>3. CASE WriteOut(p, b, "invalfree")
        BY <1>1, <2>3, WriteOutSteps DEF RetLabel
    <2>4. CASE /\ b_flags' = [b_flags EXCEPT ![b] = @ \cup {"INVAL"}]
               /\ Goto(p, "invalfree")
               /\ UNCHANGED <<b_blkno, b_length, hashed, freelist, bfwanted, iovars, spacevars,
                              chan, locals, data, raced, tossed>>
        <3>1. Walks(p)
            BY <1>1, <2>4 DEF Goto, Walks, OthersIdle, Path, FileUse, locals, TypeInv,
                   TypeOK, ProcType, WantType
        <3>2. Marks(p)
            BY <2>4, MarksNothing DEF TypeInv, TypeOK, HeaderType
        <3> QED BY <3>1, <3>2
    <2> QED BY <1>2, <2>2, <2>3, <2>4 DEF binvalfree
<1>3. CASE LoopDone(p, "user")
    BY <1>1, <1>3, LoopDoneSteps
<1> QED BY <1>2, <1>3 DEF binvalfree

LEMMA StepSteps ==
    ASSUME TypeInv, OwnInv, WakeInv, PathInv, NEW p \in Proc, Step(p)
    PROVE  Walks(p) /\ Marks(p)
<1>1. CASE Getblk(p)
    BY <1>1, FindSteps, CaptureBusySteps, CaptureMisshapenSteps, CaptureHitSteps,
       NewBufEmptySteps, NewBufDirtySteps, NewBufCleanSteps, SpaceGrantedSteps,
       SpaceUncachedSteps, SpaceSleepSteps, PagesSleepSteps, PagesThereSteps,
       InsertBlockSteps, InsertEmptySteps, GotBlockSteps DEF Getblk
<1>2. CASE Transferring(p)
    BY <1>2, StrategySteps, BwritePostSteps, IowaitSleepSteps, IowaitReadSteps,
       IowaitWrittenSteps DEF Transferring
<1>3. CASE Holder(p)
    BY <1>3, ReleaseSteps, WriteNowSteps, bdwriteSteps DEF Holder, bwrite, bawrite
<1>4. CASE Sweep(p)
    BY <1>4, btossSteps, bflushSteps, bdsyncSteps, bdwaitSteps, binvalSteps, binvalfreeSteps
       DEF Sweep
<1> QED BY <1>1, <1>2, <1>3, <1>4 DEF Step

\* Nobody moves, and no buffer is marked.
LEMMA QuietPath ==
    ASSUME TypeInv, PathInv, UNCHANGED <<pc, bp, ret, wflag, call, cur, hashed>>, io' \subseteq io,
           \A c \in Buf : b_flags'[c] \cap {"READ", "ASYNC", "DELWRI"}
                              \subseteq b_flags[c] \cap {"READ", "ASYNC", "DELWRI"}
    PROVE  PathInv' /\ (SweepInv => SweepInv')
<1>1. ASSUME NEW q \in Proc PROVE Path(q)' /\ Alone(q)'
    BY DEF PathInv, Path, FileUse, Alone, Unmounting
<1>2. \A b \in Buf : NotBoth(b)'
    BY DEF PathInv, NotBoth
<1>3. SweepInv => SweepInv'
    BY DEF SweepInv, NoUmount
<1> QED BY <1>1, <1>2, <1>3 DEF PathInv

LEMMA iodoneQuiet ==
    ASSUME TypeInv, NEW b \in Buf, iodone(b)
    PROVE  /\ UNCHANGED <<pc, bp, ret, wflag, call, cur, hashed, raced>> /\ io' \subseteq io
           /\ \A c \in Buf : b_flags'[c] \cap {"READ", "ASYNC", "DELWRI"}
                                 \subseteq b_flags[c] \cap {"READ", "ASYNC", "DELWRI"}
<1>1. UNCHANGED <<pc, bp, ret, wflag, call, cur, hashed, raced>> /\ io' \subseteq io
    BY DEF iodone, headers, locals
<1>2. PICK fl : /\ fl \subseteq b_flags[b] \cup {"DONE", "ERROR"}
                /\ \/ \E fr, f, extra : Brelse(b, fl, fr, f, extra)
                   \/ b_flags' = [b_flags EXCEPT ![b] = fl \ {"WANTED"}]
    BY Zenon DEF iodone
<1>3. \A c \in Buf \ {b} : b_flags'[c] = b_flags[c]
    BY <1>2 DEF Brelse, TypeInv, TypeOK, HeaderType
<1>4. b_flags'[b] \subseteq fl \cup {"INVAL"}
    BY <1>2 DEF Brelse, TypeInv, TypeOK, HeaderType
<1> QED BY <1>1, <1>2, <1>3, <1>4

LEMMA EnterPath ==
    ASSUME TypeInv, PathInv, NEW p \in Proc, Enter(p)
    PROVE  PathInv' /\ UNCHANGED raced /\ (SweepInv => SweepInv')
<1>1. /\ cur \in {p, NoProc} /\ pc[p] = "user"
      /\ UNCHANGED <<b_flags, hashed, io, raced, bp, ret, wflag>>
    BY DEF Enter, Runs, iovars, headers
<1>2. PICK c \in Call : call' = [call EXCEPT ![p] = c] /\ Goto(p, Entry(c.op)) /\ Admitted(c.op)
    BY DEF Enter
<1>3. /\ pc'[p] = Entry(c.op) /\ call'[p] = c
      /\ \A q \in Proc \ {p} : pc'[q] = pc[q] /\ call'[q] = call[q]
    BY <1>2 DEF Goto, TypeInv, TypeOK, ProcType
<1>4. /\ Entry(c.op) \in {"find", "newbuf", "toss", "flush", "sync", "bdwait", "invalfree"}
      /\ Entry(c.op) = "find" => c.op \in {"bread", "getblk"}
      /\ Entry(c.op) = "bdwait" => c.op # "umount"
    <2>1. c.op \in Op
        BY CallAssumption
    <2> QED BY <2>1 DEF Entry, Op
<1>5. ASSUME NEW q \in Proc PROVE Path(q)'
    <2>1. CASE q = p
        BY <1>3, <1>4, <2>1 DEF Path, FileUse
    <2>2. CASE q # p
        <3>1. Path(q) /\ pc[q] # "binval"
            BY <1>1, <2>2, NamesAssumption DEF PathInv, Path
        <3> QED BY <1>1, <1>3, <2>2, <3>1 DEF Path, FileUse
    <2> QED BY <2>1, <2>2
<1>6. ASSUME NEW q \in Proc, NEW r \in Proc \ {q}, Unmounting(q)', pc'[r] # "user"
      PROVE  call'[r].op \notin FileOp \cup {"umount"}
    <2>1. CASE q = p
        BY <1>2, <1>3, <1>6, <2>1 DEF Admitted, Unmounting
    <2>2. CASE r = p
        BY <1>2, <1>3, <1>6, <2>2 DEF Admitted, Unmounting
    <2>3. CASE q # p /\ r # p
        BY <1>3, <1>6, <2>3 DEF PathInv, Alone, Unmounting
    <2> QED BY <2>1, <2>2, <2>3
<1>7. PathInv'
    BY <1>1, <1>5, <1>6 DEF PathInv, NotBoth, Alone
<1>8. ASSUME SweepInv PROVE SweepInv'
    <2>1. ASSUME NEW q \in Proc, ~NoUmount, pc'[q] = "dma"
          PROVE  call'[q].op \in FileOp \cup {"umount"}
        BY <1>1, <1>3, <1>4, <1>8, <2>1, NamesAssumption DEF SweepInv
    <2> QED BY <1>1, <1>3, <1>4, <1>8, <2>1 DEF SweepInv, NoUmount
<1> QED BY <1>1, <1>7, <1>8

LEMMA PathNext == TypeInv /\ OwnInv /\ WakeInv /\ PathInv /\ [Next]_vars => PathInv'
<1> SUFFICES ASSUME TypeInv, OwnInv, WakeInv, PathInv, [Next]_vars PROVE PathInv'
    OBVIOUS
<1>1. ASSUME NEW p \in Proc, Enter(p) PROVE PathInv'
    BY <1>1, EnterPath
<1>2. ASSUME NEW p \in Proc, Step(p) PROVE PathInv'
    BY <1>2, StepSteps, PathStep
<1>3. ASSUME NEW b \in Buf, iodone(b) PROVE PathInv'
    BY <1>3, iodoneQuiet, QuietPath
<1>4. CASE UNCHANGED vars
    <2>1. UNCHANGED <<pc, bp, ret, wflag, call, cur, hashed, io, b_flags>>
        BY <1>4 DEF vars, headers, iovars, locals
    <2> QED BY <2>1, QuietPath
<1> QED BY <1>1, <1>2, <1>3, <1>4 DEF Next

LEMMA PathInvariant == Spec => [](TypeInv /\ OwnInv /\ WakeInv /\ PathInv)
<1>1. Init => PathInv
    BY DEF Init, PathInv, Path, Alone, Unmounting, NotBoth
<1>2. TypeInv /\ OwnInv /\ WakeInv /\ PathInv /\ [Next]_vars => PathInv'
    BY PathNext
<1> QED BY <1>1, <1>2, WakeInvariant, PTL DEF Spec

-----------------------------------------------------------------------------
LEMMA DataNext ==
    ASSUME TypeInv, OwnInv, WakeInv, PathInv, NEW H \in BOOLEAN, Good(H) => SweepInv,
           DataInv(H), [Next]_vars
    PROVE  DataInv(H)'
<1>t. TypeInv'
    BY TypeNext
<1>1. ASSUME NEW p \in Proc, Enter(p) PROVE DataInv(H)'
    BY <1>1, <1>t, EnterData
<1>2. ASSUME NEW p \in Proc, Getblk(p) PROVE DataInv(H)'
    BY <1>2, <1>t, FindData, CaptureBusyData, CaptureMisshapenData, CaptureHitData,
       NewBufEmptyData, NewBufDirtyData, NewBufCleanData, SpaceGrantedData, SpaceUncachedData,
       SpaceSleepData, PagesSleepData, PagesThereData, InsertBlockData, InsertEmptyData,
       GotBlockData DEF Getblk
<1>3. ASSUME NEW p \in Proc, Transferring(p) PROVE DataInv(H)'
    BY <1>3, <1>t, StrategyData, BwritePostData, IowaitSleepData, IowaitReadData,
       IowaitWrittenData DEF Transferring
<1>4. ASSUME NEW p \in Proc, Holder(p) PROVE DataInv(H)'
    BY <1>4, <1>t, ReleaseActionData, WriteNowData, bdwriteData DEF Holder, bwrite, bawrite
<1>5. ASSUME NEW p \in Proc, Sweep(p) PROVE DataInv(H)'
    BY <1>5, <1>t, btossData, bflushData, bdsyncData, bdwaitData, binvalData, binvalfreeData
       DEF Sweep
<1>6. ASSUME NEW b \in Buf, iodone(b) PROVE DataInv(H)'
    BY <1>6, <1>t, iodoneData
<1>7. CASE UNCHANGED vars
    BY <1>7, <1>t, DataStutter
<1> QED BY <1>1, <1>2, <1>3, <1>4, <1>5, <1>6, <1>7 DEF Next, Step

\* What is so whatever is unmounted.
Searched == DataInv(FALSE)

LEMMA SearchInvariant == Spec => [](TypeInv /\ OwnInv /\ WakeInv /\ PathInv /\ Searched)
<1>1. Init => Searched
    BY DataInit DEF Searched
<1>2. TypeInv /\ OwnInv /\ WakeInv /\ PathInv /\ Searched /\ [Next]_vars => Searched'
    BY DataNext DEF Searched, Good
<1> QED BY <1>1, <1>2, PathInvariant, PTL DEF Spec

\* No block is ever in two buffers of the cache, until a getblk() enters a block
\* it looked for before it slept.  This is so with unmounts, too.
THEOREM BlocksCachedOnce == Spec => []OneCopy
<1>1. Searched => OneCopy
    BY DEF Searched, DataInv, SearchInv
<1> QED BY <1>1, SearchInvariant, PTL

-----------------------------------------------------------------------------
(***************************************************************************)
(* The unmounting process comes from bflush() to bdwait(), and from there  *)
(* to binval().                                                            *)
(***************************************************************************)
LEMMA FlushOrWait ==
    ASSUME NEW p \in Proc, Step(p), pc[p] \in {"flush", "bdwait"}
    PROVE  bflush(p) \/ bdwait(p)
<1>1. ~Getblk(p)
    <2>1. ~(Find(p) \/ CaptureBusy(p) \/ CaptureMisshapen(p) \/ CaptureHit(p))
        BY DEF Find, CaptureBusy, CaptureMisshapen, CaptureHit, Runs
    <2>2. ~(NewBufEmpty(p) \/ NewBufDirty(p) \/ NewBufClean(p))
        BY DEF NewBufEmpty, NewBufDirty, NewBufClean, Runs
    <2>3. \A l \in SpaceLabel :
             l # pc[p] /\ ~(SpaceGranted(p, l) \/ SpaceUncached(p, l) \/ SpaceSleep(p, l))
        BY DEF SpaceLabel, SpaceGranted, SpaceUncached, SpaceSleep, SpaceNeeded, Runs
    <2>4. ~(PagesSleep(p) \/ PagesThere(p) \/ InsertBlock(p) \/ InsertEmpty(p) \/ GotBlock(p))
        BY DEF PagesSleep, PagesThere, InsertBlock, InsertEmpty, GotBlock, Runs
    <2> QED BY <2>1, <2>2, <2>3, <2>4 DEF Getblk
<1>2. ~Transferring(p)
    BY DEF Transferring, Strategy, BwritePost, IowaitSleep, IowaitRead, IowaitWritten, Runs
<1>3. ~Holder(p)
    BY DEF Holder, bwrite, bawrite, bdwrite, Release, WriteNow, Writable, Runs
<1>4. ~btoss(p) /\ ~bdsync(p) /\ ~binval(p) /\ ~binvalfree(p)
    BY DEF btoss, bdsync, binval, binvalfree, Runs
<1> QED BY <1>1, <1>2, <1>3, <1>4 DEF Step, Sweep

\* What has once gone wrong stays so.
LEMMA RacedStays ==
    ASSUME NEW p \in Proc, Step(p), raced
    PROVE  raced'
<1>1. CASE Getblk(p)
    BY <1>1 DEF Getblk, Find, CaptureBusy, CaptureMisshapen, CaptureHit, NewBufEmpty, NewBufDirty,
           NewBufClean, SpaceGranted, SpaceUncached, SpaceSleep, PagesSleep,
           PagesThere, InsertBlock, InsertEmpty, GotBlock, WriteOut
<1>2. CASE Transferring(p)
    BY <1>2 DEF Transferring, Strategy, BwritePost, IowaitSleep, IowaitRead, IowaitWritten
<1>3. CASE Holder(p)
    BY <1>3 DEF Holder, bwrite, bawrite, bdwrite, Release, WriteNow
<1>4. CASE Sweep(p)
    BY <1>4 DEF Sweep, btoss, bflush, bdsync, bdwait, binval, binvalfree, WriteOut, LoopDone
<1> QED BY <1>1, <1>2, <1>3, <1>4 DEF Step

\* bflush() has found nothing dirty on the free list: there is nothing dirty, for
\* nobody who could hold a dirty buffer is there.
LEMMA NothingDirty ==
    ASSUME TypeInv, OwnInv, WakeInv, PathInv, ContentInv, NEW p \in Proc,
           pc[p] = "flush", call[p].op = "umount", Dirty = {}, NEW b \in Buf
    PROVE  "DELWRI" \notin b_flags[b]
<1> SUFFICES ASSUME "DELWRI" \in b_flags[b] PROVE FALSE
    OBVIOUS
<1>1. Valid(b) /\ "DONE" \in b_flags[b]
    BY DEF ContentInv, Sound
<1>2. "BUSY" \in b_flags[b]
    BY <1>1 DEF Dirty, Valid, OwnInv, FreeIffNotBusy
<1>3. ~AsyncIo(b)
    BY <1>1 DEF AsyncIo, OwnInv, OwnOK, BufOK
<1>4. PICK q \in Proc : Owns(q, b)
    BY <1>2, <1>3 DEF OwnInv, OwnOK, Kept
<1>5. q # p /\ pc[q] # "user" /\ pc[q] # "dma"
    BY <1>1, <1>4 DEF Owns, Owning, OwnInv, OwnOK, OwnerOK
<1>6. ~FileUse(q)
    BY <1>5 DEF PathInv, Alone, Unmounting, FileOp, FileUse
<1>7. pc[q] \notin {"hitkmap", "got", "iowait"} /\ (pc[q] \in {"edma", "hold"} => bp[q] \notin hashed)
    BY <1>6 DEF PathInv, Path
<1>8. pc[q] \in NewLabel => bp[q] \notin hashed
    BY DEF WakeInv, Placed, NewLabel
<1> QED BY <1>1, <1>4, <1>5, <1>7, <1>8 DEF Owns, Owning, NewLabel, Valid

\* bdwait() has found basyncnt zero: the driver has nothing.
LEMMA NothingOut ==
    ASSUME TypeInv, OwnInv, WakeInv, PathInv, NEW p \in Proc, cur \in {p, NoProc},
           pc[p] = "bdwait", call[p].op = "umount", basyncnt = 0
    PROVE  io = {}
<1>1. AtPost = {}
    BY NamesAssumption DEF AtPost, WakeInv, Placed
<1>2. AsyncWrites = {}
    BY <1>1, CountDef, WritesFinite, FS_EmptySet DEF WakeInv
<1> SUFFICES ASSUME NEW b \in Buf, b \in io PROVE FALSE
    BY DEF TypeInv, TypeOK, IoType
<1>3. ~AsyncIo(b)
    BY <1>2 DEF AsyncIo, AsyncWrites, PathInv, NotBoth
<1>4. PICK q \in Proc : Owns(q, b)
    BY <1>3 DEF OwnInv, OwnOK, BufOK, Kept
<1>5. pc[q] = "iowait" /\ q # p
    BY <1>4, DriverOwner
<1>6. FileUse(q)
    BY <1>5 DEF PathInv, Path
<1> QED BY <1>5, <1>6 DEF PathInv, Alone, Unmounting, FileOp, FileUse

\* What holds as long as nobody's write is in the way of an unmount.
KeptInv == DataInv(TRUE) /\ (~raced => SweepInv)

LEMMA SweepProc ==
    ASSUME TypeInv, OwnInv, WakeInv, PathInv, ContentInv, SweepInv, NobodyWaits',
           NEW p \in Proc, Step(p)
    PROVE  SweepInv'
<1>1. Walks(p) /\ Marks(p)
    BY StepSteps
<1>2. ASSUME pc'[p] \in {"bdwait", "binval"}, ~NoUmount, call[p].op = "umount"
      PROVE  /\ \A b \in Buf : "DELWRI" \notin b_flags'[b]
             /\ pc'[p] = "binval" => io' = {}
    <2>1. bflush(p) \/ bdwait(p)
        BY <1>1, <1>2, FlushOrWait DEF Walks
    <2>2. CASE bflush(p)
        <3>1. pc[p] = "flush"
            BY <2>2 DEF bflush, Runs
        <3>2. Dirty = {} /\ LoopDone(p, "bdwait")
            BY <1>2, <2>2 DEF bflush, WriteOut, Bwrite, Goto, TypeInv, TypeOK, ProcType
        <3>3. pc'[p] = "bdwait" /\ b_flags' = b_flags
            BY <3>2 DEF LoopDone, Return, Goto, TypeInv, TypeOK, ProcType
        <3> QED BY <1>2, <3>1, <3>2, <3>3, NothingDirty
    <2>3. CASE bdwait(p)
        <3>1. pc[p] = "bdwait" /\ cur \in {p, NoProc} /\ b_flags' = b_flags /\ io' = io
            BY <2>3 DEF bdwait, Runs, LoopDone, iovars
        <3>2. \A b \in Buf : "DELWRI" \notin b_flags[b]
            BY <1>2, <3>1 DEF SweepInv
        <3>3. pc'[p] = "binval" => basyncnt = 0
            BY <2>3 DEF bdwait, SleepOn, TypeInv, TypeOK, ProcType
        <3> QED BY <1>2, <3>1, <3>2, <3>3, NothingOut
    <2> QED BY <2>1, <2>2, <2>3
<1>3. pc'[p] = "binval" => call[p].op = "umount"
    BY <1>1 DEF Walks, Path
<1> QED BY <1>1, <1>2, <1>3, SweepStep DEF Unmounting

LEMMA KeptNext ==
    TypeInv /\ OwnInv /\ WakeInv /\ PathInv /\ KeptInv /\ NobodyWaits' /\ [Next]_vars => KeptInv'
<1> SUFFICES ASSUME TypeInv, OwnInv, WakeInv, PathInv, KeptInv, NobodyWaits', [Next]_vars
             PROVE  KeptInv'
    OBVIOUS
<1>1. DataInv(TRUE)'
    BY DataNext DEF KeptInv, Good
<1>2. ~raced => ContentInv /\ SweepInv
    BY DEF KeptInv, DataInv, Good
<1>3. ASSUME NEW p \in Proc, Enter(p), ~raced' PROVE SweepInv'
    BY <1>2, <1>3, EnterPath
<1>4. ASSUME NEW p \in Proc, Step(p), ~raced' PROVE SweepInv'
    BY <1>2, <1>4, RacedStays, SweepProc
<1>5. ASSUME NEW b \in Buf, iodone(b), ~raced' PROVE SweepInv'
    BY <1>2, <1>5, iodoneQuiet, QuietPath
<1>6. ASSUME UNCHANGED vars, ~raced' PROVE SweepInv'
    <2>1. UNCHANGED <<pc, bp, ret, wflag, call, cur, hashed, io, b_flags, raced>>
        BY <1>6 DEF vars, headers, iovars, locals
    <2> QED BY <1>2, <1>6, <2>1, QuietPath
<1> QED BY <1>1, <1>3, <1>4, <1>5, <1>6 DEF KeptInv, Next

LEMMA KeptInvariant ==
    Spec /\ []NobodyWaits => [](TypeInv /\ OwnInv /\ WakeInv /\ PathInv /\ KeptInv)
<1>1. Init => KeptInv
    <2>1. Init => SweepInv
        BY DEF Init, SweepInv
    <2> QED BY <2>1, DataInit DEF KeptInv
<1>2. TypeInv /\ OwnInv /\ WakeInv /\ PathInv /\ KeptInv /\ NobodyWaits' /\ [Next]_vars => KeptInv'
    BY KeptNext
<1> QED BY <1>1, <1>2, PathInvariant, PTL DEF Spec

\* As long as no write of bdsync() and the like waits for DMA space while something
\* can be unmounted, and until a getblk() enters a block it looked for before it
\* slept: the buffer that bread() returns without B_ERROR has what was last written
\* to every block of it.
THEOREM ReadsAreRight == Spec /\ []NobodyWaits => []ReadsRight
<1>1. ASSUME TypeInv, KeptInv PROVE ReadsNewest
    <2> SUFFICES ASSUME ~raced, NEW p \in Proc, pc[p] = "hold", call[p].op = "bread",
                        "ERROR" \notin b_flags[bp[p]]
                 PROVE  fresh[bp[p]] = Wanted(p)
        BY DEF ReadsNewest
    <2>1. ContentInv
        BY <1>1 DEF KeptInv, DataInv, Good
    <2>2. PICK b \in Buf : b = bp[p]
        BY <1>1 DEF TypeInv, LocalOK, Local, Owning
    <2>3. /\ Valid(b) /\ "DONE" \in b_flags[b]
          /\ b_blkno[b] = call[p].blkno /\ b_length[b] = call[p].len
        BY <2>1, <2>2 DEF ContentInv, Using, Reader, FileUse
    <2>4. Full(b)
        BY <2>1, <2>2, <2>3 DEF ContentInv, Sound
    <2> QED BY <2>2, <2>3, <2>4 DEF Full, Blocks, Wanted
<1>2. TypeInv /\ KeptInv => ReadsRight
    BY <1>1 DEF ReadsRight, KeptInv, DataInv, SearchInv
<1> QED BY <1>2, KeptInvariant, PTL

\* Under the same conditions, the newest contents of every block are on the disk, or
\* in a buffer that is dirty or on its way to the driver: brelse(), getnewbuf(),
\* binval() and a failed transfer drop nothing that was written.
THEOREM WritesAreKept == Spec /\ []NobodyWaits => []NothingLost
<1>1. ASSUME KeptInv PROVE NothingLost
    <2> SUFFICES ASSUME ~raced, NEW k \in Block, k \notin disk
                 PROVE  \E b \in Buf : /\ k \in fresh[b]
                                       /\ \/ "DELWRI" \in b_flags[b]
                                          \/ b \in io
                                          \/ \E p \in Proc : pc[p] = "dma" /\ bp[p] = b
        BY DEF NothingLost
    <2>1. PICK b \in Buf : k \in fresh[b] /\ Owed(b)
        BY <1>1 DEF KeptInv, DataInv, Good, ContentInv, Stored, Safe
    <2> QED BY <2>1 DEF Owed
<1>2. KeptInv => NothingLost
    BY <1>1
<1> QED BY <1>2, KeptInvariant, PTL

\* And when bflush() and bdwait() have returned to the process that unmounts, every
\* block is on the disk: binval() may forget the buffers.
THEOREM UnmountFlushes == Spec /\ []NobodyWaits => []FlushedOut
<1>1. ASSUME TypeInv, PathInv, KeptInv PROVE FlushedOut
    <2> SUFFICES ASSUME ~raced, NEW p \in Proc, pc[p] = "binval", NEW k \in Block, k \notin disk
                 PROVE  FALSE
        BY DEF FlushedOut
    <2>1. ContentInv /\ SweepInv
        BY <1>1 DEF KeptInv, DataInv, Good
    <2>2. Unmounting(p) /\ cur = p /\ ~NoUmount
        <3>1. call[p].op = "umount" /\ cur = p /\ call[p] \in Call \cup {NoCall}
            BY <1>1 DEF PathInv, Path, TypeInv, TypeOK, ProcType
        <3> QED BY <3>1 DEF NoUmount, NoCall, Unmounting
    <2>3. (\A b \in Buf : "DELWRI" \notin b_flags[b]) /\ io = {}
        BY <2>1, <2>2 DEF SweepInv, Unmounting
    <2>4. PICK b \in Buf : Owed(b)
        BY <2>1 DEF ContentInv, Stored, Safe
    <2>5. PICK q \in Proc : pc[q] = "dma"
        BY <2>3, <2>4 DEF Owed
    <2>6. call[q].op \in FileOp \cup {"umount"} /\ q # p
        BY <2>1, <2>2, <2>5 DEF SweepInv
    <2> QED BY <1>1, <2>2, <2>5, <2>6 DEF PathInv, Alone
<1>2. TypeInv /\ PathInv /\ KeptInv => FlushedOut
    BY <1>1
<1> QED BY <1>2, KeptInvariant, PTL
==============================================================================
