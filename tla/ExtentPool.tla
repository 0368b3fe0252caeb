------------------------------ MODULE ExtentPool ------------------------------
(***************************************************************************)
(* What the resource map of sys/sys/subr_rmap.c promises its clients, with *)
(* no array in sight: a set of free units from which runs are handed out   *)
(* first fit, and to which runs are returned.  A map remembers at most     *)
(* MaxRuns separate runs; a return that would make one more loses a run.   *)
(***************************************************************************)
EXTENDS Naturals, FiniteSets

CONSTANTS Base, Units, MaxRuns

VARIABLES free, used, lost

vars == <<free, used, lost>>

Pool == Base .. (Base + Units - 1)
Extent(addr, size) == addr .. (addr + size - 1)

\* The first units of the maximal runs of S.
RunStarts(S) == {a \in S : a - 1 \notin S}
\* The maximal run of S that begins at a.
Run(S, a) == {b \in S : a <= b /\ a..b \subseteq S}

Init == free = Pool /\ used = {} /\ lost = {}

Candidates(size) == {a \in free : Extent(a, size) \subseteq free}

Allocate(size) ==
    /\ \E a \in Candidates(size) :
         /\ \A b \in Candidates(size) : a <= b
         /\ free' = free \ Extent(a, size)
         /\ used' = used \cup Extent(a, size)
    /\ UNCHANGED lost

\* Allocation fails only when no run is long enough.
Refuse(size) == Candidates(size) = {} /\ UNCHANGED vars

Release(addr, size) ==
    LET whole == free \cup Extent(addr, size)
    IN  /\ Extent(addr, size) \subseteq used
        /\ used' = used \ Extent(addr, size)
        /\ \/ /\ Cardinality(RunStarts(whole)) <= MaxRuns
              /\ free' = whole /\ UNCHANGED lost
           \/ /\ Cardinality(RunStarts(whole)) > MaxRuns
              /\ \E a \in RunStarts(whole) :
                    /\ free' = whole \ Run(whole, a)
                    /\ lost' = lost \cup Run(whole, a)

Next == \E size \in 1..Units :
            \/ Allocate(size) \/ Refuse(size)
            \/ \E addr \in used : Release(addr, size)

Spec == Init /\ [][Next]_vars
=============================================================================
