----------------------------- MODULE BufferCache -----------------------------
(***************************************************************************)
(* The block buffer cache of sys/sys/fs_bio.c.                             *)
(*                                                                         *)
(* The kernel is not preemptive: a process runs in it until it sleeps or   *)
(* returns to its caller, and only the disk interrupt (iodone) comes in    *)
(* between.  `cur' is the process that is inside the kernel between two    *)
(* steps; no other process moves until it sleeps or is back at "user" or   *)
(* "hold" (its caller may sleep while it holds the buffer).  One action is *)
(* a stretch of code that an interrupt cannot tell from a single step, or  *)
(* that runs at spl6.                                                      *)
(*                                                                         *)
(* One block device is modelled, cut into blocks; a buffer caches the      *)
(* extent b_blkno .. b_blkno + b_length - 1 of it.  Contents are reduced   *)
(* to whether a copy is the newest one: fresh[b] is the set of blocks of   *)
(* which buffer b holds the newest contents, disk the set of blocks of     *)
(* which the disk does.                                                    *)
(***************************************************************************)
EXTENDS Integers, Sequences, FiniteSets, FiniteSetsExt

CONSTANTS
    Proc, Buf,      \* processes that use the cache; buffer headers (nbuf)
    NoProc, NoBuf,
    Block,          \* the blocks of the device
    Call,           \* the calls processes make: records [op, blkno, len]
    Total,          \* units of memory, kernel map and DMA map
    IoResult        \* what the drive may answer: TRUE for done, FALSE for error

\* Space a buffer holds, each from a resource map of its own: bio_memmap,
\* kernelmap and mbmap.  B_KMAP and B_DMA are flags of the source; "MEM" stands
\* for b_memaddr # 0.
Res == {"MEM", "KMAP", "DMA"}

Flag == {"BUSY", "WANTED", "DONE", "READ", "ASYNC", "DELWRI", "ERROR",
         "INVAL", "AGE"} \cup Res

Op == {"bread", "getblk", "geteblk", "getdmablk",
       "btoss", "bflush", "bdsync", "bdwait", "binvalfree", "umount"}

Label == {"user", "find", "capture", "newbuf", "newmem", "newpages", "newkmap", "hitkmap",
          "insert", "got", "dma", "edma", "bwpost", "iowait", "hold",
          "toss", "flush", "sync", "bdwait", "binval", "invalfree"}

ASSUME CallAssumption ==
    Call \subseteq [op : Op, blkno : Nat, len : Nat \ {0}]
ASSUME BlockAssumption ==
    /\ Block \subseteq Nat
    /\ \A c \in Call : c.op \in {"bread", "getblk"} => c.blkno .. (c.blkno + c.len - 1) \subseteq Block
ASSUME NamesAssumption ==
    /\ IsFiniteSet(Buf)
    /\ NoProc \notin Proc /\ NoBuf \notin Buf
    /\ Buf \cap (Res \cup {"none", "freelist", "basyncnt"}) = {}
ASSUME PoolAssumption == Total \in [Res -> Nat]
ASSUME IoAssumption == IoResult \subseteq BOOLEAN

NoCall == [op |-> "bdwait", blkno |-> 0, len |-> 1]

VARIABLES
    b_flags, b_dev, b_blkno, b_length,  \* the buffer headers
    hashed,     \* buffers on a chain of hbuf[]
    freelist,   \* the buffers of bfreelist, head first
    bfwanted,   \* B_WANTED in bfreelist.b_flags
    io,         \* buffers the driver's strategy routine has and has not finished
    basyncnt, basynwait,
    pool,       \* free units of each resource map
    reswant,    \* bio_mem_wanted, kmap_wanted, mbmapwant
    pc, chan,   \* where a process is, and what it sleeps on ("none")
    bp, call, ret, wflag,   \* its locals: buffer, arguments, bwrite's return
                            \* point and bwrite's saved flags
    tossed,     \* units bio_uncache_* has got for it so far
    slept,      \* it has slept since getblk last searched the hash chains
    cur,        \* the process running in the kernel
    fresh, disk,    \* history: where the newest contents are
    raced       \* history: a block was entered in the cache by a getblk that
                \* had slept since its search

headers == <<b_dev, b_blkno, b_length, hashed>>
locals == <<bp, call, ret, wflag, slept>>
iovars == <<io, basyncnt, basynwait>>
spacevars == <<pool, reswant>>
data == <<fresh, disk>>
vars == <<b_flags, headers, freelist, bfwanted, iovars, spacevars, pc, chan,
          locals, tossed, cur, data, raced>>

Blocks(b) == b_blkno[b] .. (b_blkno[b] + b_length[b] - 1)
Wanted(p) == call[p].blkno .. (call[p].blkno + call[p].len - 1)
OnFreelist == {freelist[i] : i \in DOMAIN freelist}
Position(b) == CHOOSE i \in DOMAIN freelist : freelist[i] = b

\* bremfree.
Without(b) ==
    [i \in 1 .. (Len(freelist) - 1) |->
        IF i < Position(b) THEN freelist[i] ELSE freelist[i + 1]]

\* The first buffer of S on the free list.
FirstOf(S) ==
    freelist[CHOOSE i \in DOMAIN freelist :
                freelist[i] \in S /\ \A j \in 1..(i-1) : freelist[j] \notin S]

Runs(p, l) == pc[p] = l /\ chan[p] = "none" /\ cur \in {p, NoProc}

Goto(p, l) ==
    /\ pc' = [pc EXCEPT ![p] = l]
    /\ cur' = IF l \in {"user", "hold"} THEN NoProc ELSE p

\* sleep(): the process is to continue at l.
SleepOn(p, c, l) ==
    /\ pc' = [pc EXCEPT ![p] = l]
    /\ chan' = [chan EXCEPT ![p] = c]
    /\ slept' = [slept EXCEPT ![p] = TRUE]
    /\ cur' = NoProc

\* wakeup() of every channel in C.
Wakeup(C) == chan' = [p \in Proc |-> IF chan[p] \in C THEN "none" ELSE chan[p]]

\* The pools after buffer b, with flags fl, gives back what it holds of R.
GiveBack(b, fl, R) ==
    [r \in Res |-> pool[r] + IF r \in R \cap fl THEN b_length[b] ELSE 0]

(***************************************************************************)
(* brelse(): fl are the flags of b on entry, fr the free list without b,   *)
(* f the contents, extra what the caller has woken on top.                 *)
(***************************************************************************)
Brelse(b, fl, fr, f, extra) ==
    LET inval == fl \cap {"ERROR", "INVAL"} # {}
        fl2 == IF inval THEN (fl \cup {"INVAL"}) \ ({"DELWRI"} \cup Res) ELSE fl
    IN  /\ b_dev' = IF "ERROR" \in fl THEN [b_dev EXCEPT ![b] = "nodev"] ELSE b_dev
        /\ b_length' = IF inval THEN [b_length EXCEPT ![b] = 0] ELSE b_length
        /\ pool' = IF inval THEN GiveBack(b, fl, Res) ELSE pool
        /\ fresh' = IF inval THEN [f EXCEPT ![b] = {}] ELSE f
        /\ freelist' = IF fl2 \cap {"AGE", "INVAL"} # {} THEN <<b>> \o fr
                                                         ELSE fr \o <<b>>
        /\ b_flags' = [b_flags EXCEPT ![b] =
                          fl2 \ {"WANTED", "BUSY", "ASYNC", "AGE"}]
        /\ bfwanted' = FALSE
        /\ reswant' = {}
        /\ Wakeup(extra \cup (IF "WANTED" \in fl THEN {b} ELSE {})
                        \cup (IF bfwanted THEN {"freelist"} ELSE {})
                        \cup reswant)

\* A mutant: B_DONE of an earlier transfer is left on.
MutBwriteDoneKept(p, b, fl, fr, back) ==
    /\ b_flags' = [b_flags EXCEPT ![b] = fl \ {"READ", "ERROR", "DELWRI"}]
    /\ wflag' = [wflag EXCEPT ![p] = fl \cap {"ASYNC", "DELWRI"}]
    /\ ret' = [ret EXCEPT ![p] = back]
    /\ bp' = [bp EXCEPT ![p] = b]
    /\ freelist' = fr
    /\ Goto(p, "dma")

(***************************************************************************)
(* bwrite() up to the point where it needs DMA space.  fl are the flags of *)
(* b on entry; the process continues at `back' when bwrite returns.        *)
(***************************************************************************)
Bwrite(p, b, fl, fr, back) ==
    /\ b_flags' = [b_flags EXCEPT ![b] = fl \ {"READ", "DONE", "ERROR", "DELWRI"}]
    /\ wflag' = [wflag EXCEPT ![p] = fl \cap {"ASYNC", "DELWRI"}]
    /\ ret' = [ret EXCEPT ![p] = back]
    /\ bp' = [bp EXCEPT ![p] = b]
    /\ freelist' = fr
    /\ Goto(p, "dma")

\* notavail() of a dirty buffer, B_ASYNC, bwrite().
WriteOut(p, b, back) ==
    /\ Bwrite(p, b, b_flags[b] \cup {"BUSY", "ASYNC"}, Without(b), back)
    /\ UNCHANGED <<headers, bfwanted, iovars, spacevars, chan, call, slept, data, raced, tossed>>

-----------------------------------------------------------------------------
(***************************************************************************)
(* getblk(): search, capture.                                              *)
(***************************************************************************)
\* A mutant: only a buffer that begins with the wanted block is looked for.
MutMatchFirstBlock(p) ==
    {b \in hashed : /\ b_dev[b] = "dev" /\ "INVAL" \notin b_flags[b]
                    /\ b_blkno[b] = call[p].blkno}

Match(p) ==
    {b \in hashed : /\ b_dev[b] = "dev" /\ "INVAL" \notin b_flags[b]
                    /\ Blocks(b) \cap Wanted(p) # {}}

Find(p) ==
    /\ Runs(p, "find")
    /\ \/ \E b \in Match(p) : bp' = [bp EXCEPT ![p] = b] /\ Goto(p, "capture")
       \/ Match(p) = {} /\ Goto(p, "newbuf") /\ UNCHANGED bp
    /\ slept' = [slept EXCEPT ![p] = FALSE]
    /\ UNCHANGED <<b_flags, headers, freelist, bfwanted, iovars, spacevars, chan,
                   call, ret, wflag, data, raced, tossed>>

\* A mutant: B_WANTED is not set before the sleep.
MutCaptureBusyUnwanted(p) ==
    LET b == bp[p] IN
    /\ Runs(p, "capture") /\ "BUSY" \in b_flags[b]
    /\ SleepOn(p, b, "find")
    /\ bp' = [bp EXCEPT ![p] = NoBuf]
    /\ UNCHANGED <<b_flags, headers, freelist, bfwanted, iovars, spacevars, call, ret, wflag,
                   data, raced, tossed>>

\* The buffer is busy: wait for whoever has it, then search again.
CaptureBusy(p) ==
    LET b == bp[p] IN
    /\ Runs(p, "capture") /\ "BUSY" \in b_flags[b]
    /\ b_flags' = [b_flags EXCEPT ![b] = @ \cup {"WANTED"}]
    /\ SleepOn(p, b, "find")
    /\ bp' = [bp EXCEPT ![p] = NoBuf]
    /\ UNCHANGED <<headers, freelist, bfwanted, iovars, spacevars, call, ret, wflag,
                   data, raced, tossed>>

Misshapen(p, b) == b_blkno[b] # call[p].blkno \/ b_length[b] # call[p].len

\* A mutant: a dirty buffer of the wrong shape is tossed like a clean one.
MutCaptureMisshapenTossed(p) ==
    LET b == bp[p] IN
    /\ Runs(p, "capture") /\ "BUSY" \notin b_flags[b] /\ Misshapen(p, b)
    /\ Brelse(b, b_flags[b] \cup {"BUSY", "INVAL"}, Without(b), fresh, {})
    /\ bp' = [bp EXCEPT ![p] = NoBuf]
    /\ Goto(p, "find")
    /\ UNCHANGED <<b_blkno, hashed, iovars, call, ret, wflag, slept, disk, raced, tossed>>

CaptureMisshapen(p) ==
    LET b == bp[p] IN
    /\ Runs(p, "capture") /\ "BUSY" \notin b_flags[b] /\ Misshapen(p, b)
    /\ \/ "DELWRI" \in b_flags[b] /\ WriteOut(p, b, "find")
       \/ /\ "DELWRI" \notin b_flags[b]
          /\ Brelse(b, b_flags[b] \cup {"BUSY", "INVAL"}, Without(b), fresh, {})
          /\ bp' = [bp EXCEPT ![p] = NoBuf]
          /\ Goto(p, "find")
          /\ UNCHANGED <<b_blkno, hashed, iovars, call, ret, wflag, slept, disk, raced, tossed>>

\* A mutant: the buffer is marked busy but stays on the free list.
MutCaptureHitStillFree(p) ==
    LET b == bp[p] IN
    /\ Runs(p, "capture") /\ "BUSY" \notin b_flags[b] /\ ~Misshapen(p, b)
    /\ b_flags' = [b_flags EXCEPT ![b] = @ \cup {"BUSY"}]
    /\ Goto(p, IF "KMAP" \in b_flags[b] THEN "got" ELSE "hitkmap")
    /\ UNCHANGED <<headers, freelist, bfwanted, iovars, spacevars, chan, locals, data, raced,
                   tossed>>

CaptureHit(p) ==
    LET b == bp[p] IN
    /\ Runs(p, "capture") /\ "BUSY" \notin b_flags[b] /\ ~Misshapen(p, b)
    /\ b_flags' = [b_flags EXCEPT ![b] = @ \cup {"BUSY"}]
    /\ freelist' = Without(b)
    /\ Goto(p, IF "KMAP" \in b_flags[b] THEN "got" ELSE "hitkmap")
    /\ UNCHANGED <<headers, bfwanted, iovars, spacevars, chan, locals, data, raced, tossed>>

(***************************************************************************)
(* getnewbuf().                                                            *)
(***************************************************************************)
NewBufEmpty(p) ==
    /\ Runs(p, "newbuf") /\ freelist = <<>>
    /\ bfwanted' = TRUE
    /\ SleepOn(p, "freelist", "newbuf")
    /\ UNCHANGED <<b_flags, headers, freelist, iovars, spacevars, bp, call, ret, wflag,
                   data, raced, tossed>>

NewBufDirty(p) ==
    /\ Runs(p, "newbuf") /\ freelist # <<>>
    /\ "DELWRI" \in b_flags[Head(freelist)]
    /\ WriteOut(p, Head(freelist), "newbuf")

\* A mutant: B_DONE survives the reassignment of the buffer.
MutNewFlagsDone(b, same) == {"BUSY"} \cup IF same THEN b_flags[b] \cap (Res \cup {"DONE"}) ELSE {}

\* A reassigned buffer keeps nothing but its mappings, when they fit.
NewFlags(b, same) == {"BUSY"} \cup IF same THEN b_flags[b] \cap Res ELSE {}

NewBufClean(p) ==
    LET b == Head(freelist)
        kept == b_flags[b] \cap Res
        same == b_length[b] = call[p].len
    IN
    /\ Runs(p, "newbuf") /\ freelist # <<>> /\ "DELWRI" \notin b_flags[b]
    /\ freelist' = Tail(freelist)
    /\ hashed' = hashed \ {b}
    /\ bp' = [bp EXCEPT ![p] = b]
    /\ b_flags' = [b_flags EXCEPT ![b] = NewFlags(b, same)]
    /\ b_length' = [b_length EXCEPT ![b] = call[p].len]
    /\ pool' = IF same THEN pool ELSE GiveBack(b, kept, Res)
    /\ reswant' = IF same THEN reswant ELSE reswant \ kept
    /\ Wakeup(IF same THEN {} ELSE reswant \cap kept)
    /\ fresh' = [fresh EXCEPT ![b] = {}]
    /\ Goto(p, IF ~same THEN "newmem" ELSE IF "KMAP" \in kept THEN "insert" ELSE "newkmap")
    /\ UNCHANGED <<b_dev, b_blkno, bfwanted, iovars, call, ret, wflag, slept, disk, raced, tossed>>

(***************************************************************************)
(* bio_allocmem(), bio_allockmap() and bio_dma_alloc(), with kmap_alloc()  *)
(* and mballoc(): take b_length units of r; when there are not enough,     *)
(* take them from buffers on the free list; when that gives nothing,       *)
(* sleep.  The loop runs at spl6.                                          *)
(***************************************************************************)
Space(l) == CASE l = "newmem" -> "MEM"
              [] l \in {"newkmap", "hitkmap"} -> "KMAP"
              [] l \in {"dma", "edma"} -> "DMA"

AfterSpace(l) == CASE l = "newmem" -> "newpages"
                   [] l = "newkmap" -> "insert"
                   [] l = "hitkmap" -> "got"
                   [] l = "dma" -> "dma"
                   [] l = "edma" -> "hold"

SpaceLabel == {"newmem", "newkmap", "hitkmap", "dma", "edma"}

\* Buffers that bio_uncache_mem, bio_uncache_kmap or bio_uncache_dma may strip.
Strippable(r) ==
    {b \in OnFreelist :
        /\ b_flags[b] \cap {"BUSY", "INVAL"} = {}
        /\ r \in b_flags[b]
        /\ r = "MEM" => "DELWRI" \notin b_flags[b]}

\* bio_uncache_mem is asked for one unit and strips a buffer of everything; the
\* others are asked for what is missing and take only the one mapping.
Amount(r, need) == IF r = "MEM" THEN 1 ELSE need
Gone(r) == IF r = "MEM" THEN Res ELSE {r}

Strip(b, r) ==
    /\ b_flags' = [b_flags EXCEPT ![b] =
                      (@ \ Gone(r)) \cup IF r = "MEM" THEN {"INVAL"} ELSE {}]
    /\ pool' = GiveBack(b, b_flags[b], Gone(r))
    /\ b_length' = [b_length EXCEPT ![b] = IF r = "MEM" THEN 0 ELSE @]
    /\ fresh' = [fresh EXCEPT ![b] = IF r = "MEM" THEN {} ELSE @]
    /\ reswant' = reswant \ (Gone(r) \cap b_flags[b])
    /\ Wakeup(reswant \cap Gone(r) \cap b_flags[b])

SpaceNeeded(p, l) == Runs(p, l) /\ Space(l) \notin b_flags[bp[p]]

\* bio_uncache_* has begun and goes on down the free list.
Stripping(p, r) ==
    /\ tossed[p] > 0 /\ tossed[p] < Amount(r, b_length[bp[p]])
    /\ Strippable(r) # {}

\* A mutant: the answer of rmalloc() is not looked at.
MutSpaceGrantedUnchecked(p, l) ==
    LET b == bp[p]  r == Space(l) IN
    /\ SpaceNeeded(p, l) /\ ~Stripping(p, r)
    /\ pool' = [pool EXCEPT ![r] = @ - b_length[b]]
    /\ b_flags' = [b_flags EXCEPT ![b] = @ \cup {r}]
    /\ tossed' = [tossed EXCEPT ![p] = 0]
    /\ Goto(p, AfterSpace(l))
    /\ UNCHANGED <<headers, freelist, bfwanted, iovars, reswant, chan, locals, data, raced>>

SpaceGranted(p, l) ==
    LET b == bp[p]  r == Space(l) IN
    /\ SpaceNeeded(p, l) /\ ~Stripping(p, r) /\ pool[r] >= b_length[b]
    /\ pool' = [pool EXCEPT ![r] = @ - b_length[b]]
    /\ b_flags' = [b_flags EXCEPT ![b] = @ \cup {r}]
    /\ tossed' = [tossed EXCEPT ![p] = 0]
    /\ Goto(p, AfterSpace(l))
    /\ UNCHANGED <<headers, freelist, bfwanted, iovars, reswant, chan, locals, data, raced>>

SpaceUncached(p, l) ==
    LET r == Space(l)  b == FirstOf(Strippable(r)) IN
    /\ SpaceNeeded(p, l) /\ Strippable(r) # {}
    /\ Stripping(p, r) \/ pool[r] < b_length[bp[p]]
    /\ Strip(b, r)
    /\ tossed' = [tossed EXCEPT ![p] = b_length[b] + IF Stripping(p, r) THEN @ ELSE 0]
    /\ Goto(p, l)
    /\ UNCHANGED <<b_dev, b_blkno, hashed, freelist, bfwanted, iovars, locals, disk, raced>>

SpaceSleep(p, l) ==
    LET r == Space(l) IN
    /\ SpaceNeeded(p, l) /\ pool[r] < b_length[bp[p]] /\ Strippable(r) = {}
    /\ reswant' = reswant \cup {r}
    /\ tossed' = [tossed EXCEPT ![p] = 0]
    /\ SleepOn(p, r, l)
    /\ UNCHANGED <<b_flags, headers, freelist, bfwanted, iovars, pool, bp, call, ret,
                   wflag, data, raced>>

\* The page frames behind the memory.  vmemall(), or the wait for another buffer
\* that is getting the same page, may sleep; the pager ends that sleep, whatever
\* the cache does.
PagesSleep(p) ==
    /\ Runs(p, "newpages") /\ cur = p
    /\ SleepOn(p, "none", "newpages")
    /\ UNCHANGED <<b_flags, headers, freelist, bfwanted, iovars, spacevars, bp, call, ret,
                   wflag, data, raced, tossed>>

PagesThere(p) ==
    /\ Runs(p, "newpages")
    /\ Goto(p, "newkmap")
    /\ UNCHANGED <<b_flags, headers, freelist, bfwanted, iovars, spacevars, chan, locals,
                   data, raced, tossed>>

(***************************************************************************)
(* The end of getblk(): the new buffer is entered in the hash chains.  The *)
(* chains are not searched again.                                          *)
(***************************************************************************)
InsertBlock(p) ==
    LET b == bp[p] IN
    /\ Runs(p, "insert") /\ call[p].op \in {"bread", "getblk"}
    /\ hashed' = hashed \cup {b}
    /\ b_dev' = [b_dev EXCEPT ![b] = "dev"]
    /\ b_blkno' = [b_blkno EXCEPT ![b] = call[p].blkno]
    /\ raced' = (raced \/ slept[p])
    /\ Goto(p, "got")
    /\ UNCHANGED <<b_flags, b_length, freelist, bfwanted, iovars, spacevars, chan, locals,
                   data, tossed>>

\* A mutant: B_DMA is cleared but the DMA space is not given back.
MutInsertEmptyLeak(p) ==
    LET b == bp[p] IN
    /\ Runs(p, "insert") /\ call[p].op \in {"geteblk", "getdmablk"}
    /\ b_flags' = [b_flags EXCEPT ![b] =
                      {"BUSY", "AGE", "INVAL"} \cup (@ \cap {"MEM", "KMAP"})]
    /\ b_dev' = [b_dev EXCEPT ![b] = "nodev"]
    /\ Goto(p, IF call[p].op = "geteblk" THEN "hold" ELSE "edma")
    /\ UNCHANGED <<b_blkno, b_length, hashed, freelist, bfwanted, iovars, spacevars, chan,
                   locals, data, raced, tossed>>

\* The end of geteblk(): no block, no DMA space.  getdmablk() takes it again.
InsertEmpty(p) ==
    LET b == bp[p] IN
    /\ Runs(p, "insert") /\ call[p].op \in {"geteblk", "getdmablk"}
    /\ b_flags' = [b_flags EXCEPT ![b] =
                      {"BUSY", "AGE", "INVAL"} \cup (@ \cap {"MEM", "KMAP"})]
    /\ b_dev' = [b_dev EXCEPT ![b] = "nodev"]
    /\ pool' = GiveBack(b, b_flags[b], {"DMA"})
    /\ reswant' = reswant \ (b_flags[b] \cap {"DMA"})
    /\ Wakeup(reswant \cap b_flags[b] \cap {"DMA"})
    /\ Goto(p, IF call[p].op = "geteblk" THEN "hold" ELSE "edma")
    /\ UNCHANGED <<b_blkno, b_length, hashed, freelist, bfwanted, iovars, locals, data,
                   raced, tossed>>

(***************************************************************************)
(* bread(): done if the buffer was found with its contents.                *)
(***************************************************************************)
GotBlock(p) ==
    LET b == bp[p]
        ready == call[p].op = "getblk" \/ "DONE" \in b_flags[b]
    IN
    /\ Runs(p, "got")
    /\ b_flags' = [b_flags EXCEPT ![b] = IF ready THEN @ ELSE @ \cup {"READ"}]
    /\ ret' = [ret EXCEPT ![p] = IF ready THEN @ ELSE "hold"]
    /\ Goto(p, IF ready THEN "hold" ELSE "dma")
    /\ UNCHANGED <<headers, freelist, bfwanted, iovars, spacevars, chan, bp, call, wflag,
                   slept, data, raced, tossed>>

\* (*d_strategy)(bp): from here on the interrupt may come.
Strategy(p) ==
    LET b == bp[p] IN
    /\ Runs(p, "dma") /\ "DMA" \in b_flags[b]
    /\ io' = io \cup {b}
    /\ Goto(p, IF "ASYNC" \in wflag[p] THEN "bwpost" ELSE "iowait")
    /\ UNCHANGED <<b_flags, headers, freelist, bfwanted, basyncnt, basynwait, spacevars,
                   chan, locals, data, raced, tossed>>

\* The process is back in the code that called bwrite(), or in user mode.
Return(p, l) ==
    /\ Goto(p, l)
    /\ bp' = [bp EXCEPT ![p] = NoBuf]
    /\ wflag' = [wflag EXCEPT ![p] = {}]
    /\ ret' = [ret EXCEPT ![p] = "user"]
    /\ call' = [call EXCEPT ![p] = IF l = "user" THEN NoCall ELSE @]
    /\ slept' = [slept EXCEPT ![p] = l # "user" /\ @]

\* A mutant: only delayed writes are counted.
MutBwritePostDelayedOnly(p) ==
    LET b == bp[p] IN
    /\ Runs(p, "bwpost")
    /\ basyncnt' = IF "DELWRI" \in wflag[p] THEN basyncnt + 1 ELSE basyncnt
    /\ b_flags' = [b_flags EXCEPT ![b] =
                      IF "DELWRI" \in wflag[p] THEN @ \cup {"AGE"} ELSE @]
    /\ Return(p, ret[p])
    /\ UNCHANGED <<headers, freelist, bfwanted, io, basynwait, spacevars, chan, data, raced,
                   tossed>>

\* bwrite() after an asynchronous strategy: the write is counted only now,
\* when the buffer may be done, released and somebody else's.
BwritePost(p) ==
    LET b == bp[p] IN
    /\ Runs(p, "bwpost")
    /\ basyncnt' = basyncnt + 1
    /\ b_flags' = [b_flags EXCEPT ![b] =
                      IF "DELWRI" \in wflag[p] THEN @ \cup {"AGE"} ELSE @]
    /\ Return(p, ret[p])
    /\ UNCHANGED <<headers, freelist, bfwanted, io, basynwait, spacevars, chan, data, raced, tossed>>

IowaitSleep(p) ==
    LET b == bp[p] IN
    /\ Runs(p, "iowait") /\ "DONE" \notin b_flags[b]
    /\ SleepOn(p, b, "iowait")
    /\ UNCHANGED <<b_flags, headers, freelist, bfwanted, iovars, spacevars, bp, call, ret,
                   wflag, data, raced, tossed>>

\* bread() returns the buffer to its caller, a synchronous bwrite() releases it.
IowaitRead(p) ==
    /\ Runs(p, "iowait") /\ "DONE" \in b_flags[bp[p]] /\ ret[p] = "hold"
    /\ ret' = [ret EXCEPT ![p] = "user"]
    /\ Goto(p, "hold")
    /\ UNCHANGED <<b_flags, headers, freelist, bfwanted, iovars, spacevars, chan, bp, call,
                   wflag, slept, data, raced, tossed>>

\* A mutant: a synchronous write that failed returns without brelse().
MutIowaitWrittenLeak(p) ==
    LET b == bp[p] IN
    /\ Runs(p, "iowait") /\ "DONE" \in b_flags[b] /\ ret[p] # "hold"
    /\ \/ /\ "ERROR" \notin b_flags[b]
          /\ Brelse(b, b_flags[b], freelist, fresh, {})
       \/ /\ "ERROR" \in b_flags[b]
          /\ UNCHANGED <<b_flags, b_dev, b_length, freelist, bfwanted, spacevars, chan, fresh>>
    /\ Return(p, ret[p])
    /\ UNCHANGED <<b_blkno, hashed, iovars, disk, raced, tossed>>

IowaitWritten(p) ==
    LET b == bp[p] IN
    /\ Runs(p, "iowait") /\ "DONE" \in b_flags[b] /\ ret[p] # "hold"
    /\ Brelse(b, b_flags[b], freelist, fresh, {})
    /\ Return(p, ret[p])
    /\ UNCHANGED <<b_blkno, hashed, iovars, disk, raced, tossed>>

(***************************************************************************)
(* What the caller does with the buffer it holds.  After an error it only  *)
(* releases it; a buffer of geteblk() has no block to be written to.  A    *)
(* write fills the whole buffer, so that it holds the newest contents.     *)
(***************************************************************************)
Release(p) ==
    LET b == bp[p] IN
    /\ Runs(p, "hold")
    /\ Brelse(b, b_flags[b], freelist, fresh, {})
    /\ Return(p, "user")
    /\ UNCHANGED <<b_blkno, hashed, iovars, disk, raced, tossed>>

Writable(p) ==
    /\ Runs(p, "hold") /\ "ERROR" \notin b_flags[bp[p]]
    /\ call[p].op \in {"bread", "getblk"}

Filled(b) == [c \in Buf |-> IF c = b THEN Blocks(b) ELSE fresh[c] \ Blocks(b)]

WriteNow(p, mode) ==
    LET b == bp[p] IN
    /\ Writable(p)
    /\ Bwrite(p, b, b_flags[b] \cup mode, freelist, "user")
    /\ fresh' = Filled(b) /\ disk' = disk \ Blocks(b)
    /\ UNCHANGED <<headers, bfwanted, iovars, spacevars, chan, call, slept, raced, tossed>>

bwrite(p) == WriteNow(p, {})
bawrite(p) == WriteNow(p, {"ASYNC"})

bdwrite(p) ==
    LET b == bp[p] IN
    /\ Writable(p)
    /\ Brelse(b, b_flags[b] \cup {"DELWRI", "DONE"}, freelist, Filled(b), {})
    /\ disk' = disk \ Blocks(b)
    /\ Return(p, "user")
    /\ UNCHANGED <<b_blkno, hashed, iovars, raced, tossed>>

(***************************************************************************)
(* iodone(), from the disk interrupt.  The driver sets B_ERROR (berror)    *)
(* when the transfer failed.  A write that fails loses its data: the       *)
(* disk's copy is then the one that counts.                                *)
(***************************************************************************)
Transfer(b, ok) ==
    CASE "READ" \in b_flags[b] ->
            [disk |-> disk, copy |-> IF ok THEN disk \cap Blocks(b) ELSE {}]
      [] "READ" \notin b_flags[b] /\ ok ->
            [disk |-> (disk \ Blocks(b)) \cup fresh[b], copy |-> fresh[b]]
      [] "READ" \notin b_flags[b] /\ ~ok ->
            [disk |-> disk \cup fresh[b], copy |-> {}]

iodone(b) ==
    \E ok \in IoResult :
    LET fl == b_flags[b] \cup {"DONE"} \cup IF ok THEN {} ELSE {"ERROR"}
        t == Transfer(b, ok)
        f == [fresh EXCEPT ![b] = t.copy]
        count == IF "READ" \in fl THEN basyncnt ELSE basyncnt - 1
        idle == count = 0 /\ basynwait
    IN
    /\ b \in io
    /\ io' = io \ {b}
    /\ disk' = t.disk
    /\ \/ /\ "ASYNC" \in fl
          /\ basyncnt' = count
          /\ basynwait' = (basynwait /\ ~idle)
          /\ Brelse(b, fl, freelist, f, IF idle THEN {"basyncnt"} ELSE {})
          /\ UNCHANGED <<b_blkno, hashed>>
       \/ /\ "ASYNC" \notin fl
          /\ b_flags' = [b_flags EXCEPT ![b] = fl \ {"WANTED"}]
          /\ fresh' = f
          /\ Wakeup({b})
          /\ UNCHANGED <<headers, freelist, bfwanted, basyncnt, basynwait, spacevars>>
    /\ UNCHANGED <<pc, locals, cur, raced, tossed>>

(***************************************************************************)
(* btoss(): buffers wholly within the freed blocks are dropped, dirty or   *)
(* not.  The contents of a freed block no longer matter.                   *)
(***************************************************************************)
Tossable(p) ==
    {b \in OnFreelist :
        /\ b_dev[b] = "dev" /\ b_flags[b] \cap {"BUSY", "INVAL"} = {}
        /\ b_blkno[b] >= call[p].blkno
        /\ b_blkno[b] + b_length[b] <= call[p].blkno + call[p].len}

btoss(p) ==
    /\ Runs(p, "toss")
    /\ \/ /\ Tossable(p) # {}
          /\ LET b == FirstOf(Tossable(p)) IN
              /\ Brelse(b, b_flags[b] \cup {"BUSY", "INVAL"}, Without(b), fresh, {})
              /\ disk' = disk \cup fresh[b]
          /\ Goto(p, "toss")
          /\ UNCHANGED <<b_blkno, hashed, iovars, locals, raced, tossed>>
       \/ /\ Tossable(p) = {}
          /\ Return(p, "user")
          /\ UNCHANGED <<b_flags, headers, freelist, bfwanted, iovars, spacevars, chan,
                         data, raced, tossed>>

\* The rest of a call when its loop has nothing left to do.
LoopDone(p, l) ==
    /\ Return(p, l)
    /\ UNCHANGED <<b_flags, headers, freelist, bfwanted, iovars, spacevars, chan, data,
                   raced, tossed>>

(***************************************************************************)
(* bflush(), bdsync(), bdwait(), binval(), binvalfree().  umount is        *)
(* efs_umount()'s use of them: bflush; bdwait; binval.                     *)
(***************************************************************************)
Dirty == {b \in OnFreelist : "DELWRI" \in b_flags[b] /\ b_dev[b] = "dev"}

bflush(p) ==
    /\ Runs(p, "flush")
    /\ \/ Dirty # {} /\ WriteOut(p, FirstOf(Dirty), "flush")
       \/ Dirty = {} /\ LoopDone(p, IF call[p].op = "umount" THEN "bdwait" ELSE "user")

\* The age of the buffer, the rotor and the number of writes allowed per second
\* decide which dirty buffers are written.
bdsync(p) ==
    /\ Runs(p, "sync")
    /\ \/ \E b \in Buf :
             /\ "DELWRI" \in b_flags[b] /\ b_flags[b] \cap {"BUSY", "INVAL"} = {}
             /\ WriteOut(p, b, "sync")
       \/ LoopDone(p, "user")

\* A mutant: it returns after the first wakeup, and at once if nobody waits.
MutBdwaitNoWait(p) ==
    Runs(p, "bdwait") /\ LoopDone(p, IF call[p].op = "umount" THEN "binval" ELSE "user")

bdwait(p) ==
    /\ Runs(p, "bdwait")
    /\ \/ /\ basyncnt # 0
          /\ basynwait' = TRUE
          /\ SleepOn(p, "basyncnt", "bdwait")
          /\ UNCHANGED <<b_flags, headers, freelist, bfwanted, io, basyncnt, spacevars, bp,
                         call, ret, wflag, data, raced, tossed>>
       \/ /\ basyncnt = 0
          /\ LoopDone(p, IF call[p].op = "umount" THEN "binval" ELSE "user")

binval(p) ==
    /\ Runs(p, "binval")
    /\ b_flags' = [b \in Buf |-> IF b \in hashed /\ b_dev[b] = "dev"
                                 THEN b_flags[b] \cup {"INVAL", "AGE"}
                                 ELSE b_flags[b]]
    /\ Return(p, "user")
    /\ UNCHANGED <<headers, freelist, bfwanted, iovars, spacevars, chan, data, raced, tossed>>

OfDevice == {b \in OnFreelist : b_dev[b] = "dev"}

binvalfree(p) ==
    LET b == FirstOf(OfDevice) IN
    /\ Runs(p, "invalfree")
    /\ \/ /\ OfDevice # {} /\ "DELWRI" \in b_flags[b]
          /\ WriteOut(p, b, "invalfree")
       \/ /\ OfDevice # {} /\ "DELWRI" \notin b_flags[b]
          /\ b_flags' = [b_flags EXCEPT ![b] = @ \cup {"INVAL"}]
          /\ b_dev' = [b_dev EXCEPT ![b] = "nodev"]
          /\ Goto(p, "invalfree")
          /\ UNCHANGED <<b_blkno, b_length, hashed, freelist, bfwanted, iovars, spacevars,
                         chan, locals, data, raced, tossed>>
       \/ OfDevice = {} /\ LoopDone(p, "user")

(***************************************************************************)
(* A process calls into the cache.  umount holds off the users of the      *)
(* device: iflush() fails while one of its inodes is in use.               *)
(***************************************************************************)
Entry(op) == CASE op \in {"bread", "getblk"} -> "find"
               [] op \in {"geteblk", "getdmablk"} -> "newbuf"
               [] op = "btoss" -> "toss"
               [] op \in {"bflush", "umount"} -> "flush"
               [] op = "bdsync" -> "sync"
               [] op = "bdwait" -> "bdwait"
               [] op = "binvalfree" -> "invalfree"

FileOp == {"bread", "getblk", "btoss", "binvalfree"}
Admitted(op) ==
    \A q \in Proc : pc[q] # "user" =>
        /\ op = "umount" => call[q].op \notin FileOp \cup {"umount"}
        /\ call[q].op = "umount" => op \notin FileOp

Enter(p) ==
    \E c \in Call :
    /\ Runs(p, "user") /\ Admitted(c.op)
    /\ call' = [call EXCEPT ![p] = c]
    /\ Goto(p, Entry(c.op))
    /\ UNCHANGED <<b_flags, headers, freelist, bfwanted, iovars, spacevars, chan, bp, ret,
                   wflag, slept, data, raced, tossed>>

\* init_bio(): every buffer invalid, without space, and on the free list.
Init ==
    /\ b_flags = [b \in Buf |-> {"INVAL"}]
    /\ b_dev = [b \in Buf |-> "nodev"]
    /\ b_blkno = [b \in Buf |-> 0]
    /\ b_length = [b \in Buf |-> 0]
    /\ hashed = {}
    /\ freelist \in [1..Cardinality(Buf) -> Buf]
    /\ \A i, j \in DOMAIN freelist : freelist[i] = freelist[j] => i = j
    /\ OnFreelist = Buf
    /\ bfwanted = FALSE
    /\ io = {} /\ basyncnt = 0 /\ basynwait = FALSE
    /\ pool = Total /\ reswant = {}
    /\ pc = [p \in Proc |-> "user"] /\ chan = [p \in Proc |-> "none"]
    /\ bp = [p \in Proc |-> NoBuf] /\ call = [p \in Proc |-> NoCall]
    /\ ret = [p \in Proc |-> "user"] /\ wflag = [p \in Proc |-> {}]
    /\ slept = [p \in Proc |-> FALSE] /\ tossed = [p \in Proc |-> 0]
    /\ cur = NoProc
    /\ fresh = [b \in Buf |-> {}]
    /\ disk = Block
    /\ raced = FALSE

Getblk(p) ==
    \/ Find(p) \/ CaptureBusy(p) \/ CaptureMisshapen(p) \/ CaptureHit(p)
    \/ NewBufEmpty(p) \/ NewBufDirty(p) \/ NewBufClean(p)
    \/ (\E l \in SpaceLabel : SpaceGranted(p, l) \/ SpaceUncached(p, l) \/ SpaceSleep(p, l))
    \/ PagesSleep(p) \/ PagesThere(p)
    \/ InsertBlock(p) \/ InsertEmpty(p) \/ GotBlock(p)

Transferring(p) ==
    \/ Strategy(p) \/ BwritePost(p)
    \/ IowaitSleep(p) \/ IowaitRead(p) \/ IowaitWritten(p)

Holder(p) == Release(p) \/ bwrite(p) \/ bawrite(p) \/ bdwrite(p)

Sweep(p) ==
    btoss(p) \/ bflush(p) \/ bdsync(p) \/ bdwait(p) \/ binval(p) \/ binvalfree(p)

Step(p) == Getblk(p) \/ Transferring(p) \/ Holder(p) \/ Sweep(p)

Next == (\E p \in Proc : Enter(p) \/ Step(p)) \/ (\E b \in Buf : iodone(b))

Spec == Init /\ [][Next]_vars

\* The scheduler runs every runnable process sooner or later, the drive answers
\* every request, and callers do not keep a buffer for ever.
Fairness ==
    /\ \A p \in Proc : SF_vars(Step(p))
    /\ \A b \in Buf : WF_vars(iodone(b))

FairSpec == Spec /\ Fairness

-----------------------------------------------------------------------------
Owning == {"newmem", "newpages", "newkmap", "hitkmap", "insert", "got", "dma", "edma", "iowait", "hold"}

\* The process that has the buffer for itself.
Owns(p, b) == pc[p] \in Owning /\ bp[p] = b

AsyncIo(b) == b \in io /\ "ASYNC" \in b_flags[b]

Chan == Buf \cup Res \cup {"none", "freelist", "basyncnt"}

HeaderType ==
    /\ b_flags \in [Buf -> SUBSET Flag] /\ b_dev \in [Buf -> {"dev", "nodev"}]
    /\ b_blkno \in [Buf -> Nat] /\ b_length \in [Buf -> Nat]
    /\ hashed \subseteq Buf /\ freelist \in Seq(Buf)
IoType ==
    /\ io \subseteq Buf /\ basyncnt \in Int
    /\ pool \in [Res -> Nat] /\ reswant \subseteq Res
    /\ fresh \in [Buf -> SUBSET Nat] /\ disk \subseteq Nat
ProcType ==
    /\ pc \in [Proc -> Label] /\ chan \in [Proc -> Chan]
    /\ bp \in [Proc -> Buf \cup {NoBuf}] /\ call \in [Proc -> Call \cup {NoCall}]
    /\ ret \in [Proc -> Label] /\ wflag \in [Proc -> SUBSET Flag]
    /\ tossed \in [Proc -> Nat] /\ cur \in Proc \cup {NoProc}
WantType ==
    /\ bfwanted \in BOOLEAN /\ basynwait \in BOOLEAN
    /\ slept \in [Proc -> BOOLEAN] /\ raced \in BOOLEAN

\* Every variable has its type; in particular the resource maps are never
\* overdrawn.
TypeOK == HeaderType /\ IoType /\ ProcType /\ WantType

\* A buffer is on the free list, once, exactly when it is not B_BUSY.
FreeIffNotBusy ==
    /\ \A i, j \in DOMAIN freelist : freelist[i] = freelist[j] => i = j
    /\ OnFreelist = {b \in Buf : "BUSY" \notin b_flags[b]}

\* A busy buffer has exactly one owner: a process, or an asynchronous transfer
\* that iodone() will release it from.
OneOwner ==
    /\ \A p, q \in Proc : \A b \in Buf : Owns(p, b) /\ Owns(q, b) => p = q
    /\ \A b \in Buf : "BUSY" \in b_flags[b] <=> (AsyncIo(b) \/ \E p \in Proc : Owns(p, b))
    /\ \A p \in Proc : \A b \in Buf : Owns(p, b) => ~AsyncIo(b)

\* The driver only has buffers that are busy, mapped for DMA and not B_DONE, so
\* iodone()'s ASSERT(!(bp->b_flags & B_DONE)) holds.
DriverHas ==
    \A b \in io : {"BUSY", "DMA", "MEM"} \subseteq b_flags[b] /\ "DONE" \notin b_flags[b]

\* Between getblk() and brelse() a buffer has one owner, which it is given from
\* the free list and gives back to it; the driver has it only in between.
Ownership == TypeOK /\ FreeIffNotBusy /\ OneOwner /\ DriverHas

\* Nobody sleeps for something that is already there: whoever sleeps will be
\* woken by the one who has what it waits for.
NoLostWakeup ==
    \A p \in Proc :
        /\ chan[p] \in Buf /\ pc[p] = "find" => {"BUSY", "WANTED"} \subseteq b_flags[chan[p]]
        /\ chan[p] \in Buf /\ pc[p] = "iowait" => bp[p] \in io
        /\ chan[p] = "freelist" => bfwanted /\ freelist = <<>>
        /\ chan[p] = "basyncnt" => basynwait /\ basyncnt > 0
        /\ chan[p] \in Res => /\ chan[p] \in reswant
                              /\ pool[chan[p]] < b_length[bp[p]]
                              /\ Strippable(chan[p]) = {}

\* basyncnt counts the asynchronous writes in flight, but for the one whose
\* bwrite() has not reached its increment.
AsyncCount ==
    basyncnt + Cardinality({p \in Proc : pc[p] = "bwpost"})
        = Cardinality({b \in io : "ASYNC" \in b_flags[b] /\ "READ" \notin b_flags[b]})

\* What the buffers hold and what the maps have free adds up.
SpaceConserved ==
    \A r \in Res :
        pool[r] + MapThenSumSet(LAMBDA b : b_length[b], {b \in Buf : r \in b_flags[b]})
            = Total[r]

Valid(b) == b \in hashed /\ b_dev[b] = "dev" /\ "INVAL" \notin b_flags[b]

\* No block is cached by two buffers (bio_allocmem(): "insure that the same disk
\* address does not get cached by an improper getblk").
CachedOnce ==
    \A b, c \in Buf : Valid(b) /\ Valid(c) /\ b # c => Blocks(b) \cap Blocks(c) = {}

\* No block is cached by two buffers, as long as no getblk() slept between its
\* search and the entry of its buffer.
OneCopy ==
    ~raced => CachedOnce

\* What bread() returns without error are the newest contents of its blocks.
ReadsNewest ==
    ~raced => \A p \in Proc :
        pc[p] = "hold" /\ call[p].op = "bread" /\ "ERROR" \notin b_flags[bp[p]]
            => fresh[bp[p]] = Wanted(p)

\* Nobody has an old copy of a block beside the newest one, and who reads a block
\* gets what was last written.
ReadsRight == OneCopy /\ ReadsNewest

\* The newest contents of every block are on the disk, or in a buffer that is
\* dirty or being written: neither brelse() nor getnewbuf() nor a failed read
\* drops what was written.
NothingLost ==
    ~raced => \A k \in Block :
        \/ k \in disk
        \/ \E b \in Buf :
             /\ k \in fresh[b]
             /\ \/ "DELWRI" \in b_flags[b]
                \/ b \in io
                \/ \E p \in Proc : pc[p] = "dma" /\ bp[p] = b

\* A process that waits for a buffer, for its I/O or for any free buffer is
\* woken.  (It may find the buffer busy again: getblk() promises no more.)
SleepEnds ==
    \A p \in Proc : chan[p] \in Buf \cup {"freelist"} ~> chan[p] = "none"

\* Once the cache has been swept for umount, every block is on the disk.
\* (bflush(): "make sure all write-behind blocks on dev ... are flushed out")
FlushedOut ==
    ~raced => \A p \in Proc : pc[p] = "binval" => Block \subseteq disk
=============================================================================
