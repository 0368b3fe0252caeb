------------------------------ MODULE Callout ------------------------------
(***************************************************************************)
(* The callout list: timeout(), untimeout(), untimeout_id(), the part of   *)
(* hardclock() that counts it down, and softclock(), which runs what is    *)
(* due (src/sys/sys/clock.c; src/sys/ipII/locore.c calls softclock()).     *)
(*                                                                         *)
(* An entry keeps the ticks by which it follows the one before it, and the *)
(* clock counts down the first only.  softclock() runs when no interrupt   *)
(* is being handled, any number of ticks late; the number is bounded here  *)
(* by MaxLate.  Functions called from softclock() may call timeout() like  *)
(* everybody else, which needs no step of its own.                         *)
(***************************************************************************)
EXTENDS Integers, FiniteSets, FiniteSetsExt, Sequences, SequencesExt

CONSTANTS
    Fun,        \* functions with their arguments
    ncallout,   \* size of the callout table
    Ticks,      \* times given to timeout()
    MaxLate     \* bound: how far the first entry may be overdue

CalloutConstants ==
    /\ ncallout \in Nat \ {0} /\ Ticks \subseteq Nat /\ MaxLate \in Nat \ {0}

ASSUME CalloutAssumption == CalloutConstants

\* An entry has its time, function and id, and for the properties the ticks
\* that are left until it should be called, and by how much the first entry
\* was overdue when it was made.
VARIABLES
    todo,       \* the list calltodo
    callfree,   \* how many entries are free
    want,       \* wantsoftclock: 0, 1, or -1 while softclock() runs
    soft        \* where softclock() is: not called, in its loop, returning

calloutVars == <<todo, callfree, want, soft>>

CalloutInit == todo = <<>> /\ callfree = ncallout /\ want = 0 /\ soft = "idle"

----------------------------------------------------------------------------
\* An identification that no entry has.  (The code counts them up.)
FreshId == CHOOSE i \in 1 .. ncallout : \A k \in DOMAIN todo : todo[k].id # i

Overdue == IF todo # <<>> /\ todo[1].time < 0 THEN -todo[1].time ELSE 0

\* f[1] + ... + f[k].
UpTo(f, k) ==
    LET sum[i \in 0 .. k] == IF i = 0 THEN 0 ELSE sum[i - 1] + f[i]
    IN  sum[k]

\* What the search of timeout() takes off for the first k entries.
Ahead(k) == UpTo([j \in DOMAIN todo |-> IF todo[j].time > 0 THEN todo[j].time ELSE 0], k)

\* The entry after the new one then follows it.
Deduct(e, t) == [e EXCEPT !.time = @ - t]

\* The panic of an exhausted table ends the system.
timeout(f, tim) ==
    LET t == IF tim = 0 THEN 1 ELSE tim
        k == Min({i \in 0 .. Len(todo) :
                    i = Len(todo) \/ todo[i + 1].time >= t - Ahead(i)})
        d == t - Ahead(k)
        new == [time |-> d, fun |-> f, id |-> FreshId, left |-> t, late |-> Overdue]
        rest == SubSeq(todo, k + 1, Len(todo))
    IN  /\ callfree > 0 /\ callfree' = callfree - 1
        /\ todo' = SubSeq(todo, 1, k) \o <<new>>
                   \o (IF rest = <<>> THEN rest ELSE <<Deduct(Head(rest), d)>> \o Tail(rest))
        /\ UNCHANGED <<want, soft>>

MutTakenOff(k) == RemoveAt(todo, k)

\* The list without entry k, whose time goes to the next one.
TakenOff(k) ==
    RemoveAt(IF k = Len(todo) THEN todo
             ELSE [todo EXCEPT ![k + 1].time = @ + todo[k].time], k)

MutUntimeout(f) ==
    LET S == {k \in DOMAIN todo : todo[k].fun = f}
    IN  /\ S # {} /\ todo' = TakenOff(Min(S)) /\ UNCHANGED <<callfree, want, soft>>

\* The first entry of the function.
untimeout(f) ==
    LET S == {k \in DOMAIN todo : todo[k].fun = f}
    IN  /\ S # {} /\ todo' = TakenOff(Min(S))
        /\ callfree' = callfree + 1 /\ UNCHANGED <<want, soft>>

untimeout_id(id) ==
    \E k \in DOMAIN todo :
        /\ todo[k].id = id /\ todo' = TakenOff(k)
        /\ callfree' = callfree + 1 /\ UNCHANGED <<want, soft>>

MutDue(e) == e.time = 0

\* What makes hardclock() ask for softclock().
Due(e) == e.time <= 0

\* At the bound MaxLate a tick is not counted any more.
hardclock_todo ==
    LET d == IF todo[1].time > -MaxLate THEN 1 ELSE 0
    IN  /\ todo # <<>>
        /\ todo' = [k \in DOMAIN todo |->
              [todo[k] EXCEPT !.time = IF k = 1 THEN @ - d ELSE @, !.left = @ - d]]
        /\ want' = IF Due(todo'[1]) /\ want = 0 THEN 1 ELSE want
        /\ UNCHANGED <<callfree, soft>>

\* The way out of an interrupt, with nothing else interrupted.
SoftclockStarts ==
    want = 1 /\ want' = -1 /\ soft' = "loop" /\ UNCHANGED <<todo, callfree>>

\* One turn of the loop of softclock(): the entry is free before its function
\* is called.
SoftclockCalls ==
    /\ soft = "loop" /\ todo # <<>> /\ todo[1].time <= 0
    /\ todo' = TakenOff(1) /\ callfree' = callfree + 1 /\ UNCHANGED <<want, soft>>

SoftclockReturns ==
    /\ soft = "loop" /\ ~(todo # <<>> /\ todo[1].time <= 0)
    /\ soft' = "returning" /\ UNCHANGED <<todo, callfree, want>>

\* The clock may have ticked since softclock() looked.
SoftclockEnds ==
    /\ soft = "returning"
    /\ soft' = "idle" /\ want' = 0 /\ UNCHANGED <<todo, callfree>>

CalloutNext ==
    \/ \E f \in Fun, t \in Ticks : timeout(f, t)
    \/ \E f \in Fun : untimeout(f)
    \/ \E id \in 1 .. ncallout : untimeout_id(id)
    \/ hardclock_todo \/ SoftclockStarts \/ SoftclockCalls
    \/ SoftclockReturns \/ SoftclockEnds

CalloutSpec == CalloutInit /\ [][CalloutNext]_calloutVars

\* The clock ticks, and interrupts end.
CalloutFairSpec ==
    /\ CalloutSpec
    /\ WF_calloutVars(hardclock_todo) /\ WF_calloutVars(SoftclockStarts)
    /\ WF_calloutVars(SoftclockCalls) /\ WF_calloutVars(SoftclockReturns)
    /\ WF_calloutVars(SoftclockEnds)

----------------------------------------------------------------------------
(* Properties *)

Entry == [time : Int, fun : Fun, id : 1 .. ncallout, left : Int, late : 0 .. MaxLate]

\* An entry is free or on the list, and softclock() runs once at a time.
CalloutType ==
    /\ todo \in Seq(Entry)
    /\ callfree = ncallout - Len(todo) /\ want \in {-1, 0, 1}
    /\ soft \in {"idle", "loop", "returning"} /\ (soft # "idle" <=> want = -1)

\* Ticks until the k-th entry is called, if softclock() is not late.
Until(k) == UpTo([j \in DOMAIN todo |-> todo[j].time], k)

\* Counting down one entry counts down all: after any insertions, removals
\* and late calls each entry is as far off as it should be, less what the
\* first entry was overdue when it was made.  Only the first may be overdue.
Differences == \A k \in DOMAIN todo :
    /\ Until(k) = todo[k].left - todo[k].late
    /\ k > 1 => todo[k].time >= 0

\* Each entry of calltodo is as far off as it should be, although only the first
\* is counted down; entries are free or on the list, and softclock() runs once.
CalloutList == CalloutType /\ Differences

\* clock.c:285: timeout() arranges "that fun(arg) is called in tim/HZ seconds".
\* An entry that softclock() may call has waited for that long.
NotEarly == \A e \in {todo[k] : k \in DOMAIN todo \cap {1}} : e.time <= 0 => e.left <= 0
=============================================================================
