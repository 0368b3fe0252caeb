---------------------------- MODULE MCBufferCache ----------------------------
(***************************************************************************)
(* Model-checking instances of BufferCache.  Two processes share two       *)
(* buffer headers; the calls of an instance decide which code they meet in.*)
(***************************************************************************)
EXTENDS BufferCache, TLC

C(op, blkno, len) == [op |-> op, blkno |-> blkno, len |-> len]
Plain(op) == C(op, 0, 1)

\* An extent that overlaps two others at either end.
CallsContents == {C("bread", 0, 1), C("getblk", 0, 2), C("bread", 1, 1)}

\* Every operation of the cache, on two blocks.
CallsAll == {C("bread", 0, 2), C("getblk", 1, 1), C("geteblk", 0, 1), C("btoss", 0, 2),
             Plain("bflush"), Plain("bdsync"), Plain("bdwait"), Plain("binvalfree")}

\* Buffers with and without a block compete for space.
CallsSpace == {C("getblk", 0, 2), C("bread", 2, 1), C("getdmablk", 0, 1), Plain("bdsync")}

\* A file system is unmounted while the delayed writes are being synced.
CallsUmount == {C("bread", 0, 1), C("getblk", 1, 1), Plain("umount"), Plain("bdsync")}

\* A block and a rival for the headers.
CallsLive == {C("bread", 0, 1), Plain("geteblk")}

TotalAmple == [r \in Res |-> 6]
TotalScarce == [r \in Res |-> 2]
TotalDmaScarce == [r \in Res |-> IF r = "DMA" THEN 1 ELSE 4]

Symmetry == Permutations(Proc) \cup Permutations(Buf)
=============================================================================
