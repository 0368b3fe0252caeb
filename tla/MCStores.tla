------------------------------ MODULE MCStores ------------------------------
(***************************************************************************)
(* ResourceMap and Pipe for TLC: the two stores of fixed size that         *)
(* implement a simpler one, a pool of units and a queue of bytes.  use     *)
(* says which of them a behaviour is of; the other stays as it was made.   *)
(***************************************************************************)
EXTENDS ResourceMap, Pipe, TLC

VARIABLE use

Perms == Permutations(Proc)

MCInit == rminit /\ Init /\ use \in {"map", "pipe"}

MCNext ==
    /\ UNCHANGED use
    /\ \/ use = "map"  /\ Clients /\ UNCHANGED vars
       \/ use = "pipe" /\ Next    /\ UNCHANGED mapVars

MCSpec == MCInit /\ [][MCNext]_<<use, mapVars, vars>>
=============================================================================
