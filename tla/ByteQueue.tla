----------------------------- MODULE ByteQueue -----------------------------
(***************************************************************************)
(* What a pipe promises: bytes come out in the order in which they went in, *)
(* and what is not read is dropped only when nobody has the pipe open.     *)
(***************************************************************************)
EXTENDS Integers, Sequences, SequencesExt

CONSTANT Capacity
VARIABLES q, users

Init == q = <<>> /\ users = {}

Put   == Len(q') \in Len(q) + 1 .. Capacity /\ IsPrefix(q, q') /\ users' = users
Take  == Len(q') < Len(q) /\ IsSuffix(q', q) /\ users' = users
Open  == users' # {} /\ q' = q
Close == users' = {} /\ q' = <<>>

Step == Put \/ Take \/ Open \/ Close \/ UNCHANGED <<q, users>>

Spec == Init /\ [][Step]_<<q, users>>
=============================================================================
