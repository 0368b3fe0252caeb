------------------------------- MODULE MCIpc -------------------------------
(***************************************************************************)
(* MessageQueue and two instances of Semaphore for TLC.  use says what a   *)
(* behaviour is of:                                                        *)
(*   mixed      messages: two calls at a time on one queue, with every     *)
(*              kind of message and selection, lowered limits and removal; *)
(*   pools      messages: three calls at a time on two queues, of one type *)
(*              of message, to wait for every resource;                    *)
(*   semops, sempaging   semaphores.                                       *)
(* Every step of mixed and pools is a step of MessageQueue with the        *)
(* constants of the configuration.  The queues of the others stay as they  *)
(* were made.                                                              *)
(***************************************************************************)
EXTENDS MessageQueue, TLC

CONSTANTS p1, p2, p3

Two   == {p1, p2}
Three == {p1, p2, p3}
Perms == Permutations(Three) \cup Permutations(Queue)

VARIABLES
    use, spc, scall, schan, salloc, sseq,
    nsems, held, semval, semncnt, semzcnt, has, ent, semunp, base

semVars == <<spc, scall, schan, salloc, sseq, nsems, held, semval, semncnt, semzcnt,
             has, ent, semunp, base>>

NoSem ==
    /\ spc = 0 /\ scall = 0 /\ schan = 0 /\ salloc = 0 /\ sseq = 0
    /\ nsems = 0 /\ held = 0 /\ semval = 0 /\ semncnt = 0 /\ semzcnt = 0
    /\ has = 0 /\ ent = 0 /\ semunp = 0 /\ base = 0

----------------------------------------------------------------------------
(* Messages *)

Snd(t, n, w) == [type |-> t, size |-> n, nowait |-> w]
Rcv(t, n, w, e) == [msgtyp |-> t, size |-> n, nowait |-> w, noerror |-> e]

\* One type of message, with a text and without.
PlainCalls == {Snd(1, 1, FALSE), Snd(1, 0, FALSE), Rcv(0, 1, FALSE, TRUE)}

\* Texts of 0, 1 and 2 bytes of two types; any, one type, up to a type; with
\* a buffer that is too short.
AllSends    == {Snd(1, 1, FALSE), Snd(1, 0, FALSE), Snd(2, 2, FALSE), Snd(2, 0, TRUE)}
AllReceives == {Rcv(0, 1, FALSE, TRUE), Rcv(2, 2, FALSE, FALSE), Rcv(-2, 1, TRUE, FALSE)}

Calling == {p \in Proc : pc[p] # "user"}

Mixed == /\ Next
         /\ Cardinality(Calling') <= 2
         /\ Cardinality({q \in Queue : alloc'[q]}) <= 1

Pools == /\ Next /\ seq' = seq
         /\ \A q \in Queue : alloc[q] => qbytes'[q] = qbytes[q]
         /\ \A p \in Calling' : call'[p].arg \in PlainCalls

----------------------------------------------------------------------------
(* Semaphores *)

Op(n, o, u, w) == [num |-> n, op |-> o, undo |-> u, nowait |-> w]
P(n) == Op(n, -1, TRUE, FALSE)
V(n) == Op(n, 1, TRUE, FALSE)

\* Two semaphores, every semaphore at most once in a list: P and V with undo,
\* a double P whose second half sleeps, a V undone because a later P sleeps,
\* waiting for zero behind a V, and a P that does not wait.
MixedLists == {<<P(0)>>, <<V(0)>>, <<P(0), P(1)>>, <<V(1), P(0)>>,
               <<V(1), Op(0, 0, FALSE, FALSE)>>,
               <<Op(1, 1, FALSE, FALSE), Op(0, -1, TRUE, TRUE)>>}

\* One semaphore: P, V, and waiting for zero.
PlainLists == {<<Op(0, -1, FALSE, FALSE)>>, <<Op(0, 1, FALSE, FALSE)>>,
               <<Op(0, 0, FALSE, FALSE)>>}

\* Lists of two operations, resident buffers; and buffers that may be paged in.
SemOps == INSTANCE Semaphore WITH
    pc <- spc, call <- scall, chan <- schan, alloc <- salloc, seq <- sseq,
    Proc <- Two, Super <- {}, NSems <- 2, semvmx <- 2, semaem <- 1, semume <- 2, semmnu <- 2,
    OpLists <- MixedLists, PagesOut <- FALSE, MaxSeq <- 1
SemPaging == INSTANCE Semaphore WITH
    pc <- spc, call <- scall, chan <- schan, alloc <- salloc, seq <- sseq,
    Proc <- Three, Super <- Three, NSems <- 1, semvmx <- 1, semaem <- 1, semume <- 1, semmnu <- 2,
    OpLists <- PlainLists, PagesOut <- TRUE, MaxSeq <- 1

----------------------------------------------------------------------------
ASSUME InstanceConstants ==
    /\ MsgConstants
    /\ SemOps!SemConstants
    /\ SemPaging!SemConstants

MCInit ==
    /\ Init
    /\ \/ use \in {"mixed", "pools"} /\ NoSem
       \/ use = "semops"    /\ SemOps!Init
       \/ use = "sempaging" /\ SemPaging!Init

MCNext ==
    /\ UNCHANGED use
    /\ \/ use = "mixed"     /\ Mixed          /\ UNCHANGED semVars
       \/ use = "pools"     /\ Pools          /\ UNCHANGED semVars
       \/ use = "semops"    /\ SemOps!Next    /\ UNCHANGED vars
       \/ use = "sempaging" /\ SemPaging!Next /\ UNCHANGED vars

MCvars == <<use, semVars, vars>>

MCSpec == MCInit /\ [][MCNext]_MCvars

----------------------------------------------------------------------------
(* Properties, with MsgSleepers and MessagesKept of MessageQueue.  The      *)
(* modules say what their parts are about; the invariants of Semaphore hold *)
(* in the states of its own instances.                                      *)

Sem(Ops, Paging) == (use = "semops" => Ops) /\ (use = "sempaging" => Paging)

\* A process asleep in semop() is counted in semncnt or semzcnt, so that it is
\* woken; it sleeps for a set that is still there, and only while its operations
\* cannot all be done.
SemSleepers == Sem(
    SemOps!NoLostSleeper /\ SemOps!NoneSleepsForRemoved /\ SemOps!NoSleepWhenReady,
    SemPaging!NoLostSleeper)

\* With the undo entries of the living taken back, a semaphore has the value that
\* operations without SEM_UNDO gave it; the undo structures on the chain are those
\* with entries, and values and entries keep to semvmx, semaem and semume.
UndoRight == Sem(
    SemOps!UndoBalance /\ SemOps!UndoChained /\ SemOps!TypeOK,
    SemPaging!TypeOK)

\* A semop() that sleeps or fails leaves no trace of the operations it has done.
AllOrNothing == [][use = "semops" => SemOps!LeavesNoTrace]_MCvars
=============================================================================
