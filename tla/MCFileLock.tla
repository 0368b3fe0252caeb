---------------------------- MODULE MCFileLock ----------------------------
(***************************************************************************)
(* FileLock for TLC.  use says what a behaviour is of; the other variables *)
(* keep their initial values.  FileLock itself, with the constants of the  *)
(* configuration, is the one where three processes wait for each other and *)
(* let go; two further instances share the variables of another file.      *)
(***************************************************************************)
EXTENDS FileLock, TLC

CONSTANTS q1, q2

Asks(C, T, last, lens) == {r \in [cmd : C, type : T, start : 0 .. last, end : 0 .. last] :
                              r.end - r.start + 1 \in lens}

\* Every range and type, without waiting.
AllRanges == Asks({"SETLK"}, {"RD", "WR", "UN"}, 3, 1 .. 4)

\* Every range and type, waiting, with read() and write() among them.
Waiting == Asks({"SETLKW"}, {"RD", "WR", "UN"}, 2, 1 .. 3) \cup Asks({"CHECK"}, {"WR"}, 2, {2})

\* One byte each, waiting, and unlocking everything.
OneByte == Asks({"SETLKW"}, {"WR"}, 2, {1}) \cup Asks({"SETLKW"}, {"UN"}, 2, {3})

VARIABLES use, locks2, slp2, pc2, req2

vars2 == <<locks2, slp2, pc2, req2>>

\* Three records for four bytes: all shapes of overlap, and ENOLCK.
Ranges == INSTANCE FileLock WITH Proc <- {q1, q2}, MaxEnd <- 3, Recs <- 3,
    Requests <- AllRanges, locks <- locks2, slp <- slp2, pc <- pc2, req <- req2
\* Records change under a sleeper in every way.
Waits == INSTANCE FileLock WITH Proc <- {q1, q2}, MaxEnd <- 2, Recs <- 5,
    Requests <- Waiting, locks <- locks2, slp <- slp2, pc <- pc2, req <- req2

ASSUME InstanceConstants ==
    /\ Ranges!LockConstants
    /\ Waits!LockConstants

MCInit ==
    /\ Init
    /\ \/ use = "cycle"  /\ Waits!Init
       \/ use = "ranges" /\ Ranges!Init
       \/ use = "waits"  /\ Waits!Init

MCNext ==
    /\ UNCHANGED use
    /\ \/ use = "cycle"  /\ Next        /\ UNCHANGED vars2
       \/ use = "ranges" /\ Ranges!Next /\ UNCHANGED vars
       \/ use = "waits"  /\ Waits!Next  /\ UNCHANGED vars

allVars == <<use, vars, vars2>>

\* The fairness of FileLock.
Fairness ==
    /\ \A p \in Proc : /\ []<>(pc[p] # "woken")
                       /\ WF_allVars(Cleanlocks(p) /\ UNCHANGED <<use, vars2>>)
    /\ <>[][use = "cycle" => \E p \in Proc : GoesOn(p)]_allVars

MCSpec == MCInit /\ [][MCNext]_allVars /\ Fairness

---------------------------------------------------------------------------
(* Properties, with Acyclic and WaitEnds of FileLock. *)

\* i_filocks is ordered, the locks of a process are disjoint and coalesced, and no
\* byte is locked for writing by one process and locked by another; no more records
\* are in use than flckinfo.recs.
ListRight ==
    /\ use = "ranges" => Ranges!TypeOK /\ Ranges!WellFormed /\ Ranges!Exclusive
    /\ use = "waits"  => Waits!TypeOK /\ Waits!WellFormed /\ Waits!Exclusive
    /\ use = "cycle"  => TypeOK

\* A process asleep is found by the WAKEUP of a record that is in its way.
SleepersFound == NoLostWakeup /\ (use = "waits" => Waits!NoLostWakeup)

\* flckadj() implements the table of bytes, also when it runs out of records.
RangesAreTable ==
    /\ use = "ranges" => Ranges!Table!TInit
    /\ [][use = "ranges" => Ranges!Table!TStep]_allVars
===========================================================================
