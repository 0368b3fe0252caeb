----------------------------- MODULE ResourceMap -----------------------------
(***************************************************************************)
(* The resource map allocator of sys/sys/subr_rmap.c: rminit, rmalloc and  *)
(* rmfree.  The kernel keeps the buffer cache's memory (bio_memmap), the   *)
(* kernel page map (kernelmap), the Multibus DMA map (mbmap) and the swap  *)
(* area (swapmap) in such maps.                                            *)
(*                                                                         *)
(* A map is a dense array of segments <<addr, size>> in address order,     *)
(* closed by a delimiter of size 0.  The array is modelled slot by slot:   *)
(* the delimiter is never written by an insertion, rmfree relies on the    *)
(* slots behind it being zero already.                                     *)
(*                                                                         *)
(* `used' and `lost' are history variables: the units clients hold, and    *)
(* the units discarded by the overflow branch of rmfree.                   *)
(***************************************************************************)
EXTENDS Naturals, FiniteSets

CONSTANTS
    Slots,      \* segments the array can hold, delimiter included (mapsize - 1)
    Base,       \* first unit handed to rminit; 0 is not a legal address
    Units       \* number of units handed to rminit

ASSUME SlotsAssumption == Slots \in Nat /\ Slots >= 2
ASSUME UnitsAssumption == Base \in Nat \ {0} /\ Units \in Nat \ {0}

VARIABLES
    map,        \* the array of segments behind the map header
    used,       \* units currently allocated
    lost        \* units discarded by "rmap ovflo"

mapVars == <<map, used, lost>>

Slot == 1..Slots
Pool == Base .. (Base + Units - 1)
Extent(addr, size) == addr .. (addr + size - 1)
NoSegment == [addr |-> 0, size |-> 0]

\* A scan of the array stops at the first slot that meets its exit condition.
Delimiter(m) ==
    CHOOSE i \in Slot : m[i].size = 0 /\ \A j \in 1..(i-1) : m[j].size # 0
Segments(m) == 1 .. (Delimiter(m) - 1)
FreeUnits(m) == UNION {Extent(m[i].addr, m[i].size) : i \in Segments(m)}

\* Copy the slots behind i one to the left, the delimiter included.
CloseGap(m, i) ==
    [j \in Slot |-> IF j >= i /\ j < Delimiter(m) THEN m[j + 1] ELSE m[j]]

-----------------------------------------------------------------------------
rminit ==
    /\ map = [i \in Slot |-> IF i = 1 THEN [addr |-> Base, size |-> Units]
                                      ELSE NoSegment]
    /\ used = {} /\ lost = {}

(***************************************************************************)
(* rmalloc: first fit.                                                     *)
(***************************************************************************)
MutFitsNoSizeTest(size) == Segments(map)
MutFitsExactRefused(size) == {i \in Segments(map) : map[i].size > size}

Fits(size) == {i \in Segments(map) : map[i].size >= size}

\* A mutant: the piece shrinks but its address is not advanced.
MutRmallocStays(size) ==
    \E i \in Fits(size) :
        /\ \A j \in Fits(size) : i <= j
        /\ used' = used \cup Extent(map[i].addr, size)
        /\ LET m == [map EXCEPT ![i].size = @ - size]
           IN  map' = IF m[i].size = 0 THEN CloseGap(map, i) ELSE m
        /\ UNCHANGED lost

RmallocOk(size) ==
    \E i \in Fits(size) :
        /\ \A j \in Fits(size) : i <= j
        /\ used' = used \cup Extent(map[i].addr, size)
        /\ LET m == [map EXCEPT ![i] = [addr |-> @.addr + size,
                                        size |-> @.size - size]]
           IN  map' = IF m[i].size = 0 THEN CloseGap(map, i) ELSE m
        /\ UNCHANGED lost

\* "return (0)": nothing changes.
RmallocFail(size) == Fits(size) = {} /\ UNCHANGED mapVars

rmalloc(size) == RmallocOk(size) \/ RmallocFail(size)

(***************************************************************************)
(* rmfree(size, addr).  k is the piece that starts after the returned      *)
(* space, or the delimiter.                                                *)
(***************************************************************************)
After(addr) ==
    CHOOSE i \in Slot :
        /\ map[i].size = 0 \/ map[i].addr > addr
        /\ \A j \in 1..(i-1) : map[j].size # 0 /\ map[j].addr <= addr
End(i) == map[i].addr + map[i].size
AbutsLeft(k, addr) == k > 1 /\ End(k - 1) >= addr
MutAbutsRightOff(k, addr, size) == map[k].size # 0 /\ addr + size > map[k].addr

AbutsRight(k, addr, size) == map[k].size # 0 /\ addr + size >= map[k].addr

\* The same question, asked of a piece that abuts on the left: here the code
\* takes the address for the sign of a segment.
AbutsBoth(k, addr, size) == map[k].addr # 0 /\ addr + size >= map[k].addr

\* A mutant: the overlap test is off by one.
MutBadRmfreeOff(size, addr) ==
    LET k == After(addr)
    IN  \/ addr <= 0 \/ size <= 0
        \/ AbutsLeft(k, addr) /\ End(k - 1) >= addr
        \/ AbutsLeft(k, addr) /\ AbutsBoth(k, addr, size) /\ addr + size > map[k].addr
        \/ ~AbutsLeft(k, addr) /\ AbutsRight(k, addr, size) /\ addr + size > map[k].addr

\* The protocol has broken down: panic("bad rmfree"), the system stops here.
BadRmfree(size, addr) ==
    LET k == After(addr)
    IN  \/ addr <= 0 \/ size <= 0
        \/ AbutsLeft(k, addr) /\ End(k - 1) > addr
        \/ AbutsLeft(k, addr) /\ AbutsBoth(k, addr, size) /\ addr + size > map[k].addr
        \/ ~AbutsLeft(k, addr) /\ AbutsRight(k, addr, size) /\ addr + size > map[k].addr

JoinLeft(k, addr, size) ==
    LET grown == [map EXCEPT ![k-1].size = @ + size]
    IN  /\ map' = IF AbutsBoth(k, addr, size)
                  THEN CloseGap([grown EXCEPT ![k-1].size = @ + map[k].size], k)
                  ELSE grown
        /\ used' = used \ Extent(addr, size)
        /\ UNCHANGED lost

JoinRight(k, addr, size) ==
    /\ map' = [map EXCEPT ![k] = [addr |-> @.addr - size, size |-> @.size + size]]
    /\ used' = used \ Extent(addr, size)
    /\ UNCHANGED lost

\* The new array: a segment is put in front of slot k, the rest moves right.
\* The slot that becomes the delimiter is not written.
OpenGap(k, addr, size) ==
    [j \in Slot |-> IF j < k \/ j > Delimiter(map) THEN map[j]
                    ELSE IF j = k THEN [addr |-> addr, size |-> size]
                    ELSE map[j - 1]]

MutOverflowNoDelimiter(m) == [m EXCEPT ![Slots - 1] = m[Slots]]

\* No room for the delimiter: the second to last segment is discarded.
Overflow(m) ==
    [m EXCEPT ![Slots - 1] = m[Slots], ![Slots] = NoSegment]

NewEntry(k, addr, size) ==
    LET m == OpenGap(k, addr, size)
        full == Delimiter(map) = Slots
    IN  /\ map' = IF full THEN Overflow(m) ELSE m
        /\ lost' = IF full
                   THEN lost \cup Extent(m[Slots-1].addr, m[Slots-1].size)
                   ELSE lost
        /\ used' = used \ Extent(addr, size)

rmfree(size, addr) ==
    LET k == After(addr)
        left == AbutsLeft(k, addr)
        right == AbutsRight(k, addr, size)
    IN  /\ ~BadRmfree(size, addr)
        /\ \/ left /\ JoinLeft(k, addr, size)
           \/ ~left /\ right /\ JoinRight(k, addr, size)
           \/ ~left /\ ~right /\ NewEntry(k, addr, size)

(***************************************************************************)
(* The map's clients free only what they hold, in whole or in part.        *)
(***************************************************************************)
Held == {h \in used \X (1..Units) : Extent(h[1], h[2]) \subseteq used}

Alloc == \E size \in 1..Units : rmalloc(size)
Free == \E h \in Held : rmfree(h[2], h[1])

Clients == Alloc \/ Free
MapSpec == rminit /\ [][Clients]_mapVars

-----------------------------------------------------------------------------
SlotType == [addr : Nat, size : Nat]

\* The array holds segments of non-negative size (rmalloc never takes more than
\* a segment has), and only units given to rminit are ever held or lost.
MapTypeOK ==
    /\ map \in [Slot -> SlotType]
    /\ used \subseteq Pool /\ lost \subseteq Pool

\* The map is terminated inside its array, and every slot from the delimiter
\* on is zero, which the next insertion relies on: it moves the segments right
\* and never writes a delimiter itself.
Terminated ==
    \E d \in Slot : /\ \A i \in 1..(d-1) : map[i].size > 0
                    /\ \A i \in d..Slots : map[i] = NoSegment

\* Segments are in address order and no two abut: rmfree coalesced every pair.
Coalesced ==
    \A i \in 1..(Slots-1) :
        map[i+1].size > 0 => map[i].size > 0 /\ map[i].addr + map[i].size < map[i+1].addr

\* The array is well formed after any rmalloc and rmfree, overflows included.
WellFormed == MapTypeOK /\ Terminated /\ Coalesced

\* Each unit of the pool is exactly one of free in the map, held by a client or
\* lost to an overflow: none is handed out twice and none leaks silently.
Partition ==
    /\ FreeUnits(map) \cup used \cup lost = Pool
    /\ FreeUnits(map) \cap used = {}
    /\ FreeUnits(map) \cap lost = {}
    /\ used \cap lost = {}

\* A client that frees what it was given, in whole or in part, never hits
\* panic("bad rmfree"), the protocol check in rmfree.
NeverBad == \A h \in Held : ~BadRmfree(h[2], h[1])

\* What the map's clients see is an ExtentPool: rmalloc hands out the lowest
\* run that is long enough and fails only when there is none, and units are
\* lost only by a free that leaves more runs than the array has room for.
AsPool == INSTANCE ExtentPool WITH free <- FreeUnits(map), MaxRuns <- Slots - 1
ImplementsPool == AsPool!Spec
=============================================================================
