------------------------------- MODULE Clock -------------------------------
(***************************************************************************)
(* The time of day: the part of hardclock() that advances it, adjtime()    *)
(* and stime() (src/sys/sys/clock.c, src/sys/sys/sys4.c).  adjtime() slews *)
(* the clock by a few microseconds a tick, and hardclock() turns what has  *)
(* gathered into a tick more or a tick less.                               *)
(***************************************************************************)
EXTENDS Integers

CONSTANTS
    HZ,         \* ticks in a second
    TICK,       \* microseconds in a tick, 1000000/HZ
    TICKADJ,    \* microseconds of slew in a tick
    BIGADJ,     \* above this the slew is ten times as fast
    Deltas,     \* adjustments asked of adjtime(), in microseconds
    Times,      \* arguments of stime()
    MaxTicks    \* bound on lbolt

ASSUME ClockConstants ==
    /\ HZ \in Nat /\ HZ > 1 /\ TICK \in Nat /\ TICKADJ \in Nat \ {0}
    /\ 10 * TICKADJ < TICK /\ BIGADJ \in Nat
    /\ Deltas \subseteq Int /\ Times \subseteq Nat /\ MaxTicks \in Nat

VARIABLES time, time_ticks, time_usec, timedelta, tickdelta, lbolt
vars == <<time, time_ticks, time_usec, timedelta, tickdelta, lbolt>>

Init ==
    /\ time \in Times /\ time_ticks = 0 /\ time_usec = 0
    /\ timedelta = 0 /\ tickdelta = 0 /\ lbolt = 0

MutSlew == tickdelta

\* What this tick adds or takes away.
Slew == IF timedelta # 0 THEN tickdelta ELSE 0

\* How many ticks an interrupt counts with us microseconds gathered.
Gain(us) == IF us < 0 THEN 0 ELSE IF us >= TICK THEN 2 ELSE 1

MutCarry(tk) == tk > HZ

\* A second is over.
Carry(tk) == tk >= HZ

hardclock ==
    LET us == time_usec + Slew
        n  == Gain(us)
        tk == time_ticks + n
    IN  /\ lbolt < MaxTicks
        /\ timedelta' = IF timedelta # 0 THEN timedelta - 1 ELSE 0
        /\ time_usec' = us + (1 - n) * TICK /\ lbolt' = lbolt + n
        /\ time_ticks' = IF Carry(tk) THEN tk - HZ ELSE tk
        /\ time' = IF Carry(tk) THEN time + 1 ELSE time
        /\ UNCHANGED tickdelta

\* adjtime_sub(): in steps of TICKADJ, or of ten times that.
adjtime(delta) ==
    LET d == (IF delta < 0 THEN -delta ELSE delta) \div TICKADJ
        sign == IF delta < 0 THEN -1 ELSE 1
        big == d > BIGADJ \div TICKADJ
    IN  /\ timedelta' = IF big THEN d \div 10 ELSE d
        /\ tickdelta' = sign * TICKADJ * (IF big THEN 10 ELSE 1)
        /\ UNCHANGED <<time, time_ticks, time_usec, lbolt>>

stime(t) ==
    /\ time' = t /\ timedelta' = 0 /\ time_ticks' = 0 /\ time_usec' = 0
    /\ UNCHANGED <<tickdelta, lbolt>>

Next ==
    \/ hardclock
    \/ \E delta \in Deltas : adjtime(delta)
    \/ \E t \in Times : stime(t)

Spec == Init /\ [][Next]_vars

----------------------------------------------------------------------------
(* Properties *)

\* What microtime() adds to the seconds stays below a second.
TypeOK ==
    /\ time \in Nat /\ lbolt \in Nat
    /\ time_ticks \in 0 .. HZ - 1 /\ time_usec \in 0 .. TICK - 1
    /\ timedelta \in Nat /\ tickdelta \in -10 * TICKADJ .. 10 * TICKADJ

\* The time in microseconds, and the adjustment that is outstanding.
Micro == (time * HZ + time_ticks) * TICK + time_usec
Outstanding == timedelta * tickdelta

\* Unless it is set, the clock goes at every tick by a tick and by what comes off
\* the adjustment; only taking up a new adjustment leaves it where it is.
Slews == [][\/ \E t \in Times : stime(t)
            \/ (\E delta \in Deltas : adjtime(delta)) /\ Micro' = Micro
            \/ Micro' - Micro = TICK + Outstanding - Outstanding']_vars

\* So it never goes back, whatever adjustments are asked for (clock.c:50:
\* "keeping time monotonically increasing").
Monotone == [][(\E t \in Times : stime(t)) \/ Micro' >= Micro]_vars
=============================================================================
