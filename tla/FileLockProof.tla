---------------------------- MODULE FileLockProof ----------------------------
(***************************************************************************)
(* The chain sleeplcks of fs_flock.c never closes, for any number of       *)
(* processes and any requests: the search of deadflck() ends.              *)
(*                                                                         *)
(* The induction needs no more than that every process has an entry, so    *)
(* that what flckadj() makes of the list does not matter to it.            *)
(***************************************************************************)
EXTENDS FileLock, TLAPS

ChainInv == slp = [p \in Proc |-> slp[p]] /\ Acyclic

-----------------------------------------------------------------------------
(* The edges, as a function S on the processes. *)

\* An entry that is taken off the chain closes nothing.
LEMMA EdgeRemoved ==
    ASSUME NEW S, NoCycle(S), S = [x \in Proc |-> S[x]], NEW p \in Proc
    PROVE  /\ NoCycle([S EXCEPT ![p] = None])
           /\ [S EXCEPT ![p] = None] = [x \in Proc |-> [S EXCEPT ![p] = None][x]]
<1> DEFINE T == [S EXCEPT ![p] = None]
<1>1. T = [x \in Proc |-> T[x]] /\ T[p] = None /\ \A x \in Proc : x # p => T[x] = S[x]
    OBVIOUS
<1>2. None \notin Proc
    BY LockAssumption DEF LockConstants
<1> HIDE DEF T
<1>3. ASSUME NEW C \in SUBSET Proc, C # {} PROVE \E x \in C : T[x] \notin C
    <2>1. CASE p \in C
        BY <1>1, <1>2, <2>1
    <2>2. CASE p \notin C
        BY <1>1, <1>3, <2>2 DEF NoCycle
    <2> QED BY <2>1, <2>2
<1>4. NoCycle(T)
    BY <1>3 DEF NoCycle
<1> QED BY <1>1, <1>4 DEF T

\* When the search from q does not come to p, an entry by which p waits for q does
\* not close a cycle: the processes that q waits for, one behind the other, are in a
\* set without p, and a cycle that has p and q would leave a cycle in that set.
LEMMA EdgeAdded ==
    ASSUME NEW S, NoCycle(S), S = [x \in Proc |-> S[x]], NEW p \in Proc, NEW q,
           ~deadflck(q, p, S)
    PROVE  /\ NoCycle([S EXCEPT ![p] = q])
           /\ [S EXCEPT ![p] = q] = [x \in Proc |-> [S EXCEPT ![p] = q][x]]
<1> DEFINE T == [S EXCEPT ![p] = q]
<1>1. T = [x \in Proc |-> T[x]] /\ T[p] = q /\ \A x \in Proc : x # p => T[x] = S[x]
    OBVIOUS
<1>2. None \notin Proc
    BY LockAssumption DEF LockConstants
<1>3. PICK C \in SUBSET Proc : /\ q \in C /\ p \notin C
                               /\ \A x \in C : S[x] # None => S[x] \in C
    BY DEF deadflck
<1> HIDE DEF T
<1>4. ASSUME NEW D \in SUBSET Proc, \A x \in D : T[x] \in D PROVE D = {}
    <2>1. p \notin D => D = {}
        BY <1>1, <1>4 DEF NoCycle
    <2>2. CASE p \in D
        <3> DEFINE E == D \cap C
        <3>1. q \in E /\ E \in SUBSET Proc
            BY <1>1, <1>3, <1>4, <2>2
        <3>2. ASSUME NEW x \in E PROVE S[x] \in E
            <4>1. x # p /\ x \in Proc /\ x \in D /\ x \in C
                BY <1>3, <3>2
            <4>2. S[x] \in D /\ S[x] # None
                BY <1>1, <1>2, <1>4, <4>1
            <4> QED BY <1>3, <4>1, <4>2
        <3> HIDE DEF E
        <3> QED BY <3>1, <3>2 DEF NoCycle
    <2> QED BY <2>1, <2>2
<1>5. NoCycle(T)
    BY <1>4 DEF NoCycle
<1> QED BY <1>1, <1>5 DEF T

-----------------------------------------------------------------------------
(* The calls. *)

\* One pass of reclock() leaves the entries as they are, or adds one after a search.
LEMMA TryKeeps ==
    ASSUME NEW S, NoCycle(S), S = [x \in Proc |-> S[x]], NEW p \in Proc, NEW rq, Try(p, rq, S)
    PROVE  ChainInv'
<1>1. CASE Adjust(p, rq, S) \/ Refuse(p, rq, S)
    <2>1. slp' = S
        BY <1>1, Zenon DEF Adjust, Refuse
    <2> QED BY <2>1 DEF ChainInv, Acyclic
<1>2. CASE Sleep(p, rq, S)
    <2>1. PICK q : ~deadflck(q, p, S) /\ slp' = [S EXCEPT ![p] = q]
        BY <1>2, Zenon DEF Sleep
    <2>2. /\ NoCycle([S EXCEPT ![p] = q])
          /\ [S EXCEPT ![p] = q] = [x \in Proc |-> [S EXCEPT ![p] = q][x]]
        BY <2>1, EdgeAdded, Zenon
    <2> QED BY <2>1, <2>2, Zenon DEF ChainInv, Acyclic
<1> QED BY <1>1, <1>2 DEF Try

LEMMA StepKeeps == ASSUME ChainInv, [Next]_vars PROVE ChainInv'
<1> DEFINE Without(p) == [slp EXCEPT ![p] = None]
<1>1. ASSUME NEW p \in Proc
      PROVE  NoCycle(Without(p)) /\ Without(p) = [x \in Proc |-> Without(p)[x]]
    BY EdgeRemoved, Zenon DEF ChainInv, Acyclic
<1>2. ASSUME NEW p \in Proc, slp' = Without(p) PROVE ChainInv'
    BY <1>1, <1>2, Zenon DEF ChainInv, Acyclic
<1>3. ASSUME NEW p \in Proc, NEW rq \in Requests, Reclock(p, rq) PROVE ChainInv'
    BY <1>3, TryKeeps DEF Reclock, ChainInv, Acyclic
<1>4. ASSUME NEW p \in Proc, Resume(p) PROVE ChainInv'
    <2>1. slp' = Without(p) \/ Try(p, req[p], Without(p))
        BY <1>4, Zenon DEF Resume
    <2>2. CASE Try(p, req[p], Without(p))
        <3> HIDE DEF Without
        <3> QED BY <1>1, <2>2, TryKeeps
    <2> QED BY <1>2, <2>1, <2>2
<1>5. ASSUME NEW p \in Proc, TryAgain(p) PROVE ChainInv'
    BY <1>5, TryKeeps DEF TryAgain, ChainInv, Acyclic
<1>6. ASSUME NEW p \in Proc, Interrupted(p) PROVE ChainInv'
    BY <1>2, <1>6, Zenon DEF Interrupted
<1>7. ASSUME slp' = slp PROVE ChainInv'
    BY <1>7 DEF ChainInv, Acyclic
<1>8. ASSUME NEW p \in Proc, Cleanlocks(p) PROVE ChainInv'
    BY <1>7, <1>8, Zenon DEF Cleanlocks
<1>9. CASE UNCHANGED vars
    BY <1>7, <1>9, Zenon DEF vars
<1> QED BY <1>3, <1>4, <1>5, <1>6, <1>8, <1>9 DEF Next

\* The processes that sleep for record locks never wait for each other in a circle,
\* along entries of sleeplcks that were made at different times and stay behind when
\* their sleepers have been woken: deadflck() ends, and somebody is not asleep.
THEOREM ChainAcyclic == Spec => []Acyclic
<1>1. Init => ChainInv
    <2>1. None \notin Proc
        BY LockAssumption DEF LockConstants
    <2> QED BY <2>1 DEF Init, ChainInv, Acyclic, NoCycle
<1>2. ChainInv /\ [Next]_vars => ChainInv'
    BY StepKeeps
<1>3. ChainInv => Acyclic
    BY DEF ChainInv
<1> QED BY <1>1, <1>2, <1>3, PTL DEF Spec
==============================================================================
