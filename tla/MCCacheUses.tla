---------------------------- MODULE MCCacheUses ----------------------------
(* Several instances of BufferCache for TLC, one after the other. *)
EXTENDS MCBufferCache

\* A run covers several instances, each a choice of calls, space and answers of
\* the drive; use says which one a behaviour is of.
CallsEvery == CallsContents \cup CallsAll \cup CallsSpace \cup CallsUmount

VARIABLE use

All      == INSTANCE BufferCache WITH Call <- CallsAll,      Total <- TotalAmple,  IoResult <- BOOLEAN
Contents == INSTANCE BufferCache WITH Call <- CallsContents, Total <- TotalAmple,  IoResult <- {TRUE}
Scarce   == INSTANCE BufferCache WITH Call <- CallsSpace,    Total <- TotalScarce, IoResult <- {TRUE}
Umount   == INSTANCE BufferCache WITH Call <- CallsUmount,   Total <- TotalAmple,  IoResult <- {TRUE}

\* The one for liveness has few calls and a run of its own.
Live     == INSTANCE BufferCache WITH Call <- CallsLive,     Total <- TotalAmple,  IoResult <- {TRUE}

AnyInit ==
    \/ use = "all"      /\ All!Init
    \/ use = "contents" /\ Contents!Init
    \/ use = "scarce"   /\ Scarce!Init
    \/ use = "umount"   /\ Umount!Init

AnyNext ==
    /\ UNCHANGED use
    /\ \/ use = "all"      /\ All!Next
       \/ use = "contents" /\ Contents!Next
       \/ use = "scarce"   /\ Scarce!Next
       \/ use = "umount"   /\ Umount!Next

AnySpec == AnyInit /\ [][AnyNext]_<<vars, use>>

LiveSpec ==
    /\ use = "live" /\ Live!Init
    /\ [][UNCHANGED use /\ Live!Next]_<<vars, use>>
    /\ Live!Fairness

\* What the buffers hold and what bio_memmap, kernelmap and mbmap have free adds
\* up to what there was, and basyncnt is what bdwait() takes it for.
CountsAddUp ==
    /\ AsyncCount
    /\ IF use = "scarce" THEN Scarce!SpaceConserved ELSE All!SpaceConserved
=============================================================================
