------------------------------- MODULE MCNfs -------------------------------
(***************************************************************************)
(* RpcClient and NfsServer for TLC.  use says what a behaviour is of; the  *)
(* variables of the other instances keep their initial values, or stay 0.  *)
(* RpcClient and NfsServer themselves, with the constants of the           *)
(* configuration, are the instances where two processes share a handle and *)
(* everything happens to their calls, and where one daemon serves every    *)
(* procedure and requests are sent again until they are answered.          *)
(***************************************************************************)
EXTENDS RpcClient, NfsServer, TLC

CONSTANTS h1, h2, s1, n1, n2, n3

Perms == Permutations(Proc) \cup Permutations({h1, h2}) \cup Permutations({n2, n3})

VARIABLES
    use, hch, hcku, hifq, hsent, hrcv, htimo, hxid, hpr

handleVars == <<hch, hcku, hifq, hsent, hrcv, htimo, hxid, hpr>>

NoHandles == /\ hch = 0 /\ hcku = 0 /\ hifq = 0 /\ hsent = 0 /\ hrcv = 0
             /\ htimo = 0 /\ hxid = 0 /\ hpr = 0
NoNfs == NfsInit /\ files = {}

\* Three processes compete for two handles.
Handles == INSTANCE RpcClient WITH Proc <- {h1, h2, s1}, Hard <- {h1, h2}, MAXCLIENTS <- 2,
    retrys <- 1, RECVTRIES <- 1, Faults <- {"fatalsig", "unavail"}, MaxXid <- 3, QMax <- 1,
    ch <- hch, cku <- hcku, ifq <- hifq, sent <- hsent, rcv <- hrcv, timo <- htimo,
    nextxid <- hxid, pr <- hpr

\* Two daemons, copies of create and write requests that come at any time, and a
\* reboot of the client.
Creates == INSTANCE NfsServer WITH Nfsd <- {n2, n3}, Ops <- {"create", "write"},
    MAXDUPREQS <- 9, Late <- TRUE, Reboots <- 1

ASSUME InstanceConstants ==
    /\ Handles!RpcClientConstants
    /\ Creates!NfsServerConstants

MCInit ==
    /\ Init
    /\ \/ use = "calls"   /\ NoHandles    /\ NoNfs
       \/ use = "handles" /\ Handles!Init /\ NoNfs
       \/ use = "onenfsd" /\ NoHandles    /\ NfsInit
       \/ use = "creates" /\ NoHandles    /\ Creates!NfsInit

MCNext ==
    /\ UNCHANGED use
    /\ \/ use = "calls"   /\ Next         /\ UNCHANGED <<handleVars, nfsVars>>
       \/ use = "handles" /\ Handles!Next /\ UNCHANGED <<vars, nfsVars>>
       \/ use = "onenfsd" /\ NfsNext      /\ UNCHANGED <<vars, handleVars>>
       \/ use = "creates" /\ Creates!NfsNext /\ UNCHANGED <<vars, handleVars>>

allVars == <<use, vars, handleVars, nfsVars>>

MCSpec == MCInit /\ [][MCNext]_allVars

----------------------------------------------------------------------------
(* Properties, with CallIntact and NobodyForgotten of RpcClient and         *)
(* NoFalseError and AckedKept of NfsServer.  The modules say what their     *)
(* parts are about.                                                         *)

\* With several handles too, for hard and soft mounts, a handle is with one process
\* at a time, which clntkudp_callit() gives the reply to its call, and nobody sleeps
\* in clget() while there is an entry for it, or for a reply without a timer.
\* With one daemon a file that the client has been told is created holds nothing of
\* what was written before.
InstancesRight ==
    /\ use = "handles" => Handles!CallIntact /\ Handles!NobodyForgotten
    /\ use = "onenfsd" => NfsType /\ CreateEmpties
    /\ use = "creates" => Creates!NfsType
=============================================================================
