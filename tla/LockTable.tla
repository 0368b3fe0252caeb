----------------------------- MODULE LockTable -----------------------------
(***************************************************************************)
(* What the record locks of one file are: for every process and byte, no   *)
(* lock, a read lock or a write lock.  A lock is granted whole and only if *)
(* no other process has a conflicting one in the range; a call that fails  *)
(* for want of lock structures leaves the table alone or has released the  *)
(* caller's part of the range.                                             *)
(***************************************************************************)
EXTENDS Integers

CONSTANTS Proc, MaxEnd

Byte == 0 .. MaxEnd

VARIABLE table

Conflict(s, t) == "WR" \in {s, t} /\ "none" \notin {s, t}

TInit == table = [p \in Proc |-> [b \in Byte |-> "none"]]

Put(p, lo, hi, t) == [table EXCEPT ![p] =
    [b \in Byte |-> IF b \in lo .. hi THEN t ELSE table[p][b]]]

Grant(p, lo, hi, t) ==
    /\ \A q \in Proc \ {p}, b \in lo .. hi : ~Conflict(t, table[q][b])
    /\ table' = Put(p, lo, hi, t)

Release(p, lo, hi) == table' = Put(p, lo, hi, "none")

TNext == \E p \in Proc, lo, hi \in Byte : lo <= hi /\
    (Release(p, lo, hi) \/ \E t \in {"RD", "WR"} : Grant(p, lo, hi, t))

TStep == TNext \/ UNCHANGED table

TSpec == TInit /\ [][TStep]_table

\* No byte is locked for writing by one process and locked by another.
Exclusive == \A p, q \in Proc, b \in Byte :
    p # q => ~Conflict(table[p][b], table[q][b])
============================================================================
