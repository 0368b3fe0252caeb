------------------------------ MODULE MCClock ------------------------------
(***************************************************************************)
(* Instances for TLC of what depends on the clock: Clock and Callout, the  *)
(* two halves of hardclock(), and RpcClient, whose calls end by timeouts.  *)
(* use says which one a behaviour is of.                                   *)
(***************************************************************************)
EXTENDS Clock, Callout, TLC

CONSTANTS f1, f2, p1, p2

\* Small and large, forward and backward.
SomeDeltas == {-25, -3, 0, 4, 9, 40}

VARIABLES
    use,
    ch, cku, ifq, sent, rcv, timo, nextxid, pr

rpcVars == <<ch, cku, ifq, sent, rcv, timo, nextxid, pr>>
allVars == <<use, vars, calloutVars, rpcVars>>

NoCallout == todo = <<>> /\ callfree = ncallout /\ want = 0 /\ soft = "idle"
NoRpc == /\ ch = 0 /\ cku = 0 /\ ifq = 0 /\ sent = 0 /\ rcv = 0 /\ timo = 0
         /\ nextxid = 0 /\ pr = 0

\* The callout list of the configuration; and one whose clock goes on.
Live == INSTANCE Callout WITH Fun <- {f1}, Ticks <- {1, 3}

\* A server that may never answer, a hard mount and a soft one.
Rpc == INSTANCE RpcClient WITH Proc <- {p1, p2}, Hard <- {p1}, MAXCLIENTS <- 2, retrys <- 2,
    RECVTRIES <- 1, Faults <- {"send"}, MaxXid <- 2, QMax <- 1

ASSUME InstanceConstants ==
    /\ Live!CalloutConstants
    /\ Rpc!RpcClientConstants

AnyInit ==
    /\ Init
    /\ \/ use = "clock" /\ NoCallout /\ NoRpc
       \/ use = "list"  /\ time = 0 /\ CalloutInit /\ NoRpc
       \/ use = "live"  /\ time = 0 /\ Live!CalloutInit /\ NoRpc
       \/ use = "rpc"   /\ time = 0 /\ Rpc!Init  /\ NoCallout

AnyNext ==
    /\ UNCHANGED use
    /\ \/ use = "clock" /\ Next      /\ UNCHANGED <<calloutVars, rpcVars>>
       \/ use = "list"  /\ CalloutNext /\ UNCHANGED <<vars, rpcVars>>
       \/ use = "live"  /\ Live!CalloutNext /\ UNCHANGED <<vars, rpcVars>>
       \/ use = "rpc"   /\ Rpc!Next  /\ UNCHANGED <<vars, calloutVars>>

LiveStep(A) == use = "live" /\ A /\ UNCHANGED <<use, vars, rpcVars>>
RpcStep(A)  == use = "rpc" /\ A /\ UNCHANGED <<use, vars, calloutVars>>

\* The fairness of Callout and of RpcClient: the clock ticks, and interrupts end;
\* processes get the processor, timers expire, and interfaces send.
AnySpec ==
    /\ AnyInit /\ [][AnyNext]_allVars
    /\ WF_allVars(LiveStep(Live!hardclock_todo)) /\ WF_allVars(LiveStep(Live!SoftclockStarts))
    /\ WF_allVars(LiveStep(Live!SoftclockCalls)) /\ WF_allVars(LiveStep(Live!SoftclockReturns))
    /\ WF_allVars(LiveStep(Live!SoftclockEnds))
    /\ \A p \in {p1, p2} : /\ WF_allVars(RpcStep(Rpc!Runs(p)))
                           /\ WF_allVars(RpcStep(Rpc!clget(p) /\ pr[p].pc = "clget"))
    /\ \A s \in 1 .. 2 : /\ WF_allVars(RpcStep(Rpc!ckuwakeup(s)))
                         /\ WF_allVars(RpcStep(Rpc!buffree(s)))

\* Every entry of calltodo is called, or taken off.
Called == \A i \in 1 .. 3 :
    (use = "live" /\ \E k \in DOMAIN todo : todo[k].id = i) ~> (\A k \in DOMAIN todo : todo[k].id # i)

\* A call of clntkudp_callit() ends, whatever the network does.
CallEnds == \A p \in {p1, p2} :
    (use = "rpc" /\ pr[p].pc = "again") ~> (use = "rpc" /\ pr[p].pc = "ret")
=============================================================================
