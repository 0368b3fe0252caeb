----------------------------- MODULE ClockProof -----------------------------
(***************************************************************************)
(* The clock of hardclock() keeps its range and goes at the rate it should *)
(* for every HZ and every slew below a tick.                               *)
(***************************************************************************)
EXTENDS Clock, Callout, FiniteSetTheorems, WellFoundedInduction, TLAPS

USE DEF Gain, Carry, Slew

\* hardclock() keeps the microseconds within a tick and the ticks within a
\* second, whether it counts no tick, one or two.
LEMMA HardclockType == TypeOK /\ hardclock => TypeOK'
<1> SUFFICES ASSUME TypeOK, hardclock PROVE TypeOK'
  OBVIOUS
<1> DEFINE us == time_usec + Slew
<1>1. /\ Slew \in Int /\ -TICK < Slew /\ Slew < TICK /\ TICK \in Nat /\ HZ \in Nat /\ HZ > 1
  BY ClockConstants DEF TypeOK
<1>2. /\ us \in Int /\ us > -TICK /\ us < 2 * TICK - 1
  BY <1>1 DEF TypeOK
<1>3. timedelta' \in Nat /\ tickdelta' \in -10 * TICKADJ .. 10 * TICKADJ
  BY ClockConstants DEF TypeOK, hardclock
<1>4. time' \in Nat /\ lbolt' \in Nat /\ time_ticks' \in 0 .. HZ - 1
  BY <1>1 DEF TypeOK, hardclock
<1>5. time_usec' \in 0 .. TICK - 1
  <2>1. CASE us < 0
    BY <1>1, <1>2, <2>1 DEF TypeOK, hardclock
  <2>2. CASE us >= TICK
    BY <1>1, <1>2, <2>2 DEF TypeOK, hardclock
  <2>3. CASE us >= 0 /\ us < TICK
    BY <1>1, <1>2, <2>3 DEF TypeOK, hardclock
  <2> QED BY <1>1, <1>2, <2>1, <2>2, <2>3
<1> QED BY <1>3, <1>4, <1>5 DEF TypeOK

\* What adjtime() starts is at most ten steps of slew a tick.
LEMMA AdjtimeType == ASSUME NEW delta \in Deltas, TypeOK, adjtime(delta) PROVE TypeOK'
<1>1. delta \in Int /\ TICKADJ \in Nat /\ TICKADJ > 0
  BY ClockConstants
<1> DEFINE a == IF delta < 0 THEN -delta ELSE delta
           d == a \div TICKADJ
<1>2. a \in Nat
  BY <1>1
<1>3. d \in Nat
  BY <1>1, <1>2
<1>4. d \div 10 \in Nat
  BY <1>3
<1>5. timedelta' \in Nat
  BY <1>3, <1>4 DEF adjtime
<1>6. tickdelta' \in {-TICKADJ * 10, -TICKADJ, TICKADJ, TICKADJ * 10}
  <2>1. tickdelta' = (IF delta < 0 THEN -1 ELSE 1) * TICKADJ
                     * (IF d > BIGADJ \div TICKADJ THEN 10 ELSE 1)
    BY DEF adjtime
  <2> HIDE DEF d
  <2> QED BY <1>1, <2>1
<1>7. tickdelta' \in -10 * TICKADJ .. 10 * TICKADJ
  BY <1>1, <1>6
<1> QED BY <1>5, <1>7 DEF TypeOK, adjtime

\* The range of the clock holds always.
THEOREM ClockType == Spec => []TypeOK
<1>1. Init => TypeOK
  BY ClockConstants DEF Init, TypeOK
<1>2. TypeOK /\ [Next]_vars => TypeOK'
  <2> SUFFICES ASSUME TypeOK, [Next]_vars PROVE TypeOK'
    OBVIOUS
  <2>1. CASE hardclock
    BY <2>1, HardclockType
  <2>2. ASSUME NEW delta \in Deltas, adjtime(delta) PROVE TypeOK'
    BY <2>2, AdjtimeType
  <2>3. ASSUME NEW t \in Times, stime(t) PROVE TypeOK'
    BY <2>3, ClockConstants DEF TypeOK, stime
  <2>4. CASE UNCHANGED vars
    BY <2>4 DEF TypeOK, vars
  <2> QED BY <2>1, <2>2, <2>3, <2>4 DEF Next
<1> QED BY <1>1, <1>2, PTL DEF Spec

\* A tick takes from the outstanding adjustment what it adds to the clock.
LEMMA Spent == TypeOK /\ hardclock => Slew = Outstanding - Outstanding'
<1> SUFFICES ASSUME TypeOK, hardclock PROVE Slew = Outstanding - Outstanding'
  OBVIOUS
<1>1. timedelta \in Nat /\ tickdelta \in Int /\ tickdelta' = tickdelta
  BY ClockConstants DEF TypeOK, hardclock
<1>2. CASE timedelta = 0
  BY <1>1, <1>2 DEF hardclock, Outstanding
<1>3. CASE timedelta # 0
  <2>1. timedelta' = timedelta - 1 /\ Slew = tickdelta
    BY <1>3 DEF hardclock
  <2>2. (timedelta - 1) * tickdelta = timedelta * tickdelta - tickdelta
    BY <1>1
  <2> QED BY <1>1, <2>1, <2>2 DEF Outstanding
<1> QED BY <1>2, <1>3

\* An interrupt advances the time by a tick and the slew, with a carry into
\* the seconds or without.
LEMMA Advance == TypeOK /\ hardclock => Micro' - Micro = TICK + Slew
<1> SUFFICES ASSUME TypeOK, hardclock PROVE Micro' - Micro = TICK + Slew
  OBVIOUS
<1> DEFINE us == time_usec + Slew
           n  == Gain(us)
           count == time * HZ + time_ticks
<1>1. /\ time \in Nat /\ time_ticks \in Nat /\ time_usec \in Int /\ Slew \in Int
      /\ HZ \in Nat /\ TICK \in Nat
  BY ClockConstants DEF TypeOK
<1>2. n \in {0, 1, 2} /\ us \in Int
  BY <1>1
<1>3. (time' * HZ + time_ticks') = count + n
  <2> HIDE DEF n
  <2>1. CASE Carry(time_ticks + n)
    <3>1. time' = time + 1 /\ time_ticks' = time_ticks + n - HZ
      BY <2>1, <1>1, <1>2 DEF hardclock, n
    <3>2. (time + 1) * HZ = time * HZ + HZ /\ time * HZ \in Int
      BY <1>1
    <3> QED BY <1>1, <1>2, <3>1, <3>2
  <2>2. CASE ~Carry(time_ticks + n)
    <3>1. time' = time /\ time_ticks' = time_ticks + n
      BY <2>2 DEF hardclock, n
    <3>2. time * HZ \in Int
      BY <1>1
    <3> QED BY <1>1, <1>2, <3>1, <3>2
  <2> QED BY <2>1, <2>2
<1>4. time_usec' = us + (1 - n) * TICK
  BY DEF hardclock
<1>5. count \in Int
  BY <1>1
<1> HIDE DEF n, us, count
<1>6. (count + n) * TICK = count * TICK + n * TICK /\ (1 - n) * TICK = TICK - n * TICK
      /\ count * TICK \in Int /\ n * TICK \in Int
  BY <1>1, <1>2, <1>5
<1>7. Micro' = count * TICK + n * TICK + us + TICK - n * TICK
  <2>1. Micro' = (time' * HZ + time_ticks') * TICK + time_usec'
    BY DEF Micro
  <2> QED BY <2>1, <1>1, <1>2, <1>3, <1>4, <1>6
<1>8. Micro = count * TICK + time_usec
  BY DEF Micro, count
<1>9. us = time_usec + Slew
  BY DEF us
<1> HIDE DEF Slew
<1> QED BY <1>1, <1>2, <1>6, <1>7, <1>8, <1>9

\* Slews: hardclock(), adjtime() and stime() one by one.
LEMMA SlewsStep ==
    TypeOK /\ [Next]_vars =>
      [\/ \E t \in Times : stime(t)
       \/ (\E delta \in Deltas : adjtime(delta)) /\ Micro' = Micro
       \/ Micro' - Micro = TICK + Outstanding - Outstanding']_vars
<1> SUFFICES ASSUME TypeOK, Next
             PROVE  \/ \E t \in Times : stime(t)
                    \/ (\E delta \in Deltas : adjtime(delta)) /\ Micro' = Micro
                    \/ Micro' - Micro = TICK + Outstanding - Outstanding'
  OBVIOUS
<1>1. CASE hardclock
  <2>1. Slew \in Int /\ TICK \in Int /\ Outstanding \in Int /\ Outstanding' \in Int
    BY <1>1, HardclockType, ClockConstants DEF TypeOK, Outstanding
  <2>2. Micro' - Micro = TICK + Slew /\ Slew = Outstanding - Outstanding'
    BY <1>1, Spent, Advance
  <2> HIDE DEF Slew
  <2> QED BY <2>1, <2>2
<1>2. ASSUME NEW delta \in Deltas, adjtime(delta) PROVE Micro' = Micro
  BY <1>2 DEF adjtime, Micro
<1> QED BY <1>1, <1>2 DEF Next

\* The clock goes by a tick and by what comes off the adjustment.
THEOREM ClockSlews == Spec => Slews
<1>1. ASSUME TypeOK, [Next]_vars
      PROVE  [\/ \E t \in Times : stime(t)
              \/ (\E delta \in Deltas : adjtime(delta)) /\ Micro' = Micro
              \/ Micro' - Micro = TICK + Outstanding - Outstanding']_vars
  BY <1>1, SlewsStep
<1> QED BY <1>1, ClockType, PTL DEF Spec, Slews

\* Unless stime() sets it, the clock never goes back: a slew is less than a
\* tick.
THEOREM ClockMonotone == Spec => Monotone
<1>1. ASSUME TypeOK, [Next]_vars
      PROVE  [(\E t \in Times : stime(t)) \/ Micro' >= Micro]_vars
  <2> SUFFICES ASSUME Next PROVE (\E t \in Times : stime(t)) \/ Micro' >= Micro
    BY <1>1
  <2>0. (Micro \in Int /\ Micro' \in Int) \/ \E t \in Times : stime(t)
    <3>1. CASE hardclock
      BY <1>1, <3>1, HardclockType, ClockConstants DEF TypeOK, Micro
    <3>2. ASSUME NEW delta \in Deltas, adjtime(delta) PROVE Micro \in Int /\ Micro' \in Int
      BY <1>1, <3>2, AdjtimeType, ClockConstants DEF TypeOK, Micro
    <3> QED BY <3>1, <3>2 DEF Next
  <2>1. CASE hardclock
    <3>1. Slew \in Int /\ -TICK < Slew /\ TICK \in Nat
      BY <1>1, ClockConstants DEF TypeOK
    <3>2. Micro' - Micro = TICK + Slew
      BY <1>1, <2>1, Advance
    <3> HIDE DEF Slew
    <3> QED BY <2>0, <3>1, <3>2
  <2>2. ASSUME NEW delta \in Deltas, adjtime(delta) PROVE Micro' = Micro
    BY <2>2 DEF adjtime, Micro
  <2> QED BY <2>0, <2>1, <2>2 DEF Next
<1> QED BY <1>1, ClockType, PTL DEF Spec, Monotone

-----------------------------------------------------------------------------
(***************************************************************************)
(* The callout list.                                                       *)
(***************************************************************************)
\* A non-empty set of naturals has a least element.
LEMMA Smallest ==
    ASSUME NEW T \in SUBSET Nat, T # {}
    PROVE  \E n \in T : \A m \in T : n <= m
<1> DEFINE R == OpToRel(<, Nat)
<1>1. IsWellFoundedOn(R, Nat)
    BY NatLessThanWellFounded, Zenon
<1>2. PICK n \in T : \A m \in T : <<m, n>> \notin R
    <2> HIDE DEF R
    <2> QED BY <1>1, WFMin, Zenon
<1>3. \A m \in T : ~(m < n)
    BY <1>2 DEF OpToRel
<1> QED BY <1>3

\* The sum of the first k terms is what grows by each term in turn.
LEMMA SumIs ==
    ASSUME NEW k \in Nat, NEW f, \A i \in 1 .. k : f[i] \in Int,
           NEW g, g[0] = 0, \A i \in 1 .. k : g[i] = g[i - 1] + f[i]
    PROVE  UpTo(f, k) = g[k]
<1> DEFINE Eq(s) == s = [i \in 0 .. k |-> IF i = 0 THEN 0 ELSE s[i - 1] + f[i]]
           sum == CHOOSE s : Eq(s)
           h == [i \in 0 .. k |-> g[i]]
<1>1. ASSUME NEW i \in 0 .. k PROVE h[i] = IF i = 0 THEN 0 ELSE h[i - 1] + f[i]
    <2>1. CASE i = 0
        BY <2>1
    <2>2. CASE i # 0
        <3>1. i - 1 \in 0 .. k /\ i \in 1 .. k
            BY <2>2
        <3> QED BY <2>2, <3>1
    <2> QED BY <2>1, <2>2
<1>2. Eq(h)
    <2>1. h = [i \in 0 .. k |-> h[i]]
        OBVIOUS
    <2> HIDE DEF h
    <2> QED BY <1>1, <2>1
<1>3. Eq(sum)
    <2> HIDE DEF h
    <2>1. \E s : Eq(s)
        BY <1>2
    <2> HIDE DEF Eq
    <2> QED BY <2>1, Zenon
<1>4. UpTo(f, k) = sum[k]
    BY Zenon DEF UpTo
<1>5. \A i \in 0 .. k : sum[i] = IF i = 0 THEN 0 ELSE sum[i - 1] + f[i]
    <2> HIDE DEF sum
    <2> QED BY <1>3, Zenon
<1> HIDE DEF sum, h, Eq
<1> DEFINE T == {i \in 0 .. k : sum[i] # g[i]}
<1>6. T = {}
    <2> SUFFICES ASSUME T # {} PROVE FALSE
        OBVIOUS
    <2>1. T \in SUBSET Nat
        OBVIOUS
    <2>2. PICK n \in T : \A m \in T : n <= m
        BY <2>1, Smallest
    <2>3. n # 0
        BY <1>5
    <2>4. n \in 1 .. k /\ n - 1 \in 0 .. k /\ n - 1 \notin T
        BY <2>2, <2>3
    <2>5. sum[n] = sum[n - 1] + f[n] /\ sum[n - 1] = g[n - 1]
        BY <1>5, <2>3, <2>4
    <2> QED BY <2>4, <2>5
<1> QED BY <1>4, <1>6

\* Ticks until an entry is called, by the history: what is left of its time, less
\* what the first entry was overdue when it was made.
Off(e) == e.left - e.late

\* The differences, without sums.
Chained(Q) ==
    \A k \in 1 .. Len(Q) :
        /\ Q[k].time = Off(Q[k]) - (IF k = 1 THEN 0 ELSE Off(Q[k - 1]))
        /\ k > 1 => Q[k].time >= 0

\* The first entry is overdue by MaxLate ticks at most.
InTime(Q) == Q # <<>> => Q[1].time >= -MaxLate

CalloutInv == CalloutType /\ Chained(todo) /\ InTime(todo)

LEMMA EntryFields ==
    ASSUME NEW Q \in Seq(Entry)
    PROVE  /\ Len(Q) \in Nat /\ DOMAIN Q = 1 .. Len(Q)
           /\ \A k \in 1 .. Len(Q) : /\ Q[k] \in Entry /\ Q[k].time \in Int /\ Q[k].left \in Int
                                     /\ Q[k].late \in 0 .. MaxLate /\ Off(Q[k]) \in Int
<1>1. MaxLate \in Nat
    BY CalloutAssumption DEF CalloutConstants
<1>2. ASSUME NEW e \in Entry
      PROVE  e.time \in Int /\ e.left \in Int /\ e.late \in 0 .. MaxLate /\ Off(e) \in Int
    BY <1>1 DEF Entry, Off
<1>3. Len(Q) \in Nat /\ DOMAIN Q = 1 .. Len(Q) /\ \A k \in 1 .. Len(Q) : Q[k] \in Entry
    OBVIOUS
<1> QED BY <1>2, <1>3

\* An entry whose time is changed, and one that is counted down.
LEMMA Retimed ==
    ASSUME NEW e \in Entry, NEW t \in Int
    PROVE  /\ [e EXCEPT !.time = t] \in Entry /\ [e EXCEPT !.time = t].time = t
           /\ Off([e EXCEPT !.time = t]) = Off(e)
BY DEF Entry, Off

LEMMA Counted ==
    ASSUME NEW e \in Entry, NEW t \in Int, NEW u \in Int
    PROVE  [e EXCEPT !.time = t, !.left = u] \in Entry
BY DEF Entry

LEMMA Differing ==
    ASSUME NEW a \in Int, NEW b \in Int, NEW c \in Int
    PROVE  (a + c) - (b + c) = a - b
OBVIOUS

LEMMA Joined ==
    ASSUME NEW P \in Seq(Entry), NEW Q \in Seq(Entry)
    PROVE  /\ P \o Q \in Seq(Entry) /\ Len(P \o Q) = Len(P) + Len(Q)
           /\ \A j \in 1 .. Len(P) : (P \o Q)[j] = P[j]
           /\ \A j \in 1 .. Len(Q) : (P \o Q)[Len(P) + j] = Q[j]
OBVIOUS

LEMMA FrontIs ==
    ASSUME NEW Q \in Seq(Entry), NEW n \in 0 .. Len(Q)
    PROVE  /\ SubSeq(Q, 1, n) \in Seq(Entry) /\ Len(SubSeq(Q, 1, n)) = n
           /\ \A j \in 1 .. n : SubSeq(Q, 1, n)[j] = Q[j]
OBVIOUS

LEMMA BackIs ==
    ASSUME NEW Q \in Seq(Entry), NEW n \in 0 .. Len(Q)
    PROVE  /\ SubSeq(Q, n + 1, Len(Q)) \in Seq(Entry)
           /\ Len(SubSeq(Q, n + 1, Len(Q))) = Len(Q) - n
           /\ \A j \in 1 .. Len(Q) - n : SubSeq(Q, n + 1, Len(Q))[j] = Q[n + j]
OBVIOUS

\* The sum of the differences up to an entry is what it is off.
LEMMA ChainedSums ==
    ASSUME todo \in Seq(Entry), Chained(todo), NEW k \in 1 .. Len(todo)
    PROVE  Until(k) = Off(todo[k])
<1> DEFINE f == [j \in DOMAIN todo |-> todo[j].time]
           g == [i \in 0 .. Len(todo) |-> IF i = 0 THEN 0 ELSE Off(todo[i])]
<1>1. \A i \in 1 .. k : f[i] \in Int /\ i \in 1 .. Len(todo) /\ f[i] = todo[i].time
    BY EntryFields
<1>2. ASSUME NEW i \in 1 .. k PROVE g[i] = g[i - 1] + f[i]
    <2>1. i - 1 \in 0 .. Len(todo) /\ g[i] = Off(todo[i]) /\ g[i] \in Int
        BY EntryFields
    <2>2. f[i] = Off(todo[i]) - (IF i = 1 THEN 0 ELSE Off(todo[i - 1]))
        BY <1>1 DEF Chained
    <2>3. g[i - 1] = (IF i = 1 THEN 0 ELSE Off(todo[i - 1])) /\ g[i - 1] \in Int
        BY <2>1, EntryFields
    <2> QED BY <2>1, <2>2, <2>3
<1>3. g[0] = 0 /\ g[k] = Off(todo[k])
    BY EntryFields
<1> HIDE DEF f, g
<1>4. k \in Nat
    BY EntryFields
<1>5. UpTo(f, k) = g[k]
    <2>1. /\ \A i \in 1 .. k : f[i] \in Int
          /\ \A i \in 1 .. k : g[i] = g[i - 1] + f[i]
        BY <1>1, <1>2
    <2> QED BY <1>3, <1>4, <2>1, SumIs
<1> QED BY <1>3, <1>5, Zenon DEF Until, f

\* What timeout() takes off on its way to an entry: what the entry is off, but that
\* it does not count what the first one is overdue.
LEMMA ChainedAhead ==
    ASSUME todo \in Seq(Entry), Chained(todo), NEW k \in 0 .. Len(todo)
    PROVE  Ahead(k) = IF k = 0 THEN 0 ELSE Off(todo[k]) + Overdue
<1> DEFINE f == [j \in DOMAIN todo |-> IF todo[j].time > 0 THEN todo[j].time ELSE 0]
           g == [i \in 0 .. Len(todo) |-> IF i = 0 THEN 0 ELSE Off(todo[i]) + Overdue]
<1>1. \A i \in 1 .. k : /\ f[i] \in Int /\ i \in 1 .. Len(todo)
                        /\ f[i] = IF todo[i].time > 0 THEN todo[i].time ELSE 0
    BY EntryFields
<1>2. ASSUME NEW i \in 1 .. k PROVE g[i] = g[i - 1] + f[i]
    <2>1. i - 1 \in 0 .. Len(todo) /\ g[i] = Off(todo[i]) + Overdue
        BY EntryFields
    <2>2. /\ todo[i].time = Off(todo[i]) - (IF i = 1 THEN 0 ELSE Off(todo[i - 1]))
          /\ i > 1 => todo[i].time >= 0
        BY <1>1 DEF Chained
    <2>3. g[i - 1] = IF i = 1 THEN 0 ELSE Off(todo[i - 1]) + Overdue
        BY <2>1, EntryFields
    <2>4. /\ Off(todo[i]) \in Int /\ todo[i].time \in Int
          /\ i > 1 => Off(todo[i - 1]) \in Int
          /\ todo # <<>> /\ todo[1].time \in Int
        BY <2>1, EntryFields
    <2>5. Overdue = IF todo[1].time < 0 THEN -todo[1].time ELSE 0
        BY <2>4 DEF Overdue
    <2>6. CASE i = 1
        BY <1>1, <2>1, <2>2, <2>3, <2>4, <2>5, <2>6
    <2>7. CASE i # 1
        <3>1. i > 1 /\ f[i] = todo[i].time
            BY <1>1, <2>2, <2>4, <2>7
        <3>2. Overdue \in Int
            BY <2>4, <2>5
        <3> HIDE DEF f, g
        <3> QED BY <2>1, <2>2, <2>3, <2>4, <3>1, <3>2
    <2> QED BY <2>6, <2>7
<1>3. g[0] = 0 /\ g[k] = IF k = 0 THEN 0 ELSE Off(todo[k]) + Overdue
    BY EntryFields
<1> HIDE DEF f, g
<1>4. k \in Nat
    BY EntryFields
<1>5. UpTo(f, k) = g[k]
    <2>1. /\ \A i \in 1 .. k : f[i] \in Int
          /\ \A i \in 1 .. k : g[i] = g[i - 1] + f[i]
        BY <1>1, <1>2
    <2> QED BY <1>3, <1>4, <2>1, SumIs
<1> QED BY <1>3, <1>5, Zenon DEF Ahead, f

-----------------------------------------------------------------------------
(***************************************************************************)
(* An entry comes off the list: its time goes to the next one.             *)
(***************************************************************************)
Gaining(e, t) == [e EXCEPT !.time = e.time + t]

LEMMA TakenOffIs ==
    ASSUME todo \in Seq(Entry), NEW k \in 1 .. Len(todo)
    PROVE  /\ TakenOff(k) \in Seq(Entry) /\ Len(TakenOff(k)) = Len(todo) - 1
           /\ \A j \in 1 .. Len(TakenOff(k)) :
                TakenOff(k)[j] = IF j < k THEN todo[j] ELSE
                                 IF j = k THEN Gaining(todo[k + 1], todo[k].time) ELSE todo[j + 1]
<1> DEFINE Q == IF k = Len(todo) THEN todo ELSE [todo EXCEPT ![k + 1].time = @ + todo[k].time]
           R == TakenOff(k)
<1>1. /\ Q \in Seq(Entry) /\ Len(Q) = Len(todo)
      /\ \A j \in 1 .. Len(todo) : j # k + 1 => Q[j] = todo[j]
      /\ k < Len(todo) => Q[k + 1] = Gaining(todo[k + 1], todo[k].time)
    <2>1. CASE k = Len(todo)
        BY <2>1
    <2>2. CASE k # Len(todo)
        <3>1. k + 1 \in 1 .. Len(todo)
            BY <2>2
        <3>2. [todo[k + 1] EXCEPT !.time = todo[k + 1].time + todo[k].time] \in Entry
            <4>1. todo[k + 1] \in Entry /\ todo[k + 1].time + todo[k].time \in Int
                BY <3>1, EntryFields
            <4> QED BY <4>1, Retimed
        <3> QED BY <2>2, <3>1, <3>2 DEF Gaining
    <2> QED BY <2>1, <2>2
<1> HIDE DEF Q
<1>2. R = SubSeq(Q, 1, k - 1) \o SubSeq(Q, k + 1, Len(Q))
    BY <1>1 DEF TakenOff, RemoveAt, Q
<1> DEFINE A == SubSeq(Q, 1, k - 1)
           B == SubSeq(Q, k + 1, Len(Q))
<1>n. Len(todo) \in Nat /\ Len(Q) = Len(todo) /\ Q \in Seq(Entry)
    BY <1>1
<1>a. A \in Seq(Entry) /\ Len(A) = k - 1 /\ \A j \in 1 .. k - 1 : A[j] = Q[j]
    <2>1. k - 1 \in 0 .. Len(Q)
        BY <1>n
    <2> QED BY <1>n, <2>1, FrontIs
<1>b. B \in Seq(Entry) /\ Len(B) = Len(Q) - k /\ \A j \in 1 .. Len(Q) - k : B[j] = Q[k + j]
    <2>1. k \in 0 .. Len(Q)
        BY <1>n
    <2> QED BY <1>n, <2>1, BackIs
<1> HIDE DEF A, B
<1>4. /\ A \o B \in Seq(Entry) /\ Len(A \o B) = Len(todo) - 1
      /\ \A j \in 1 .. Len(todo) - 1 : (A \o B)[j] = IF j < k THEN Q[j] ELSE Q[j + 1]
    <2>1. /\ A \o B \in Seq(Entry) /\ Len(A \o B) = Len(A) + Len(B)
          /\ \A j \in 1 .. Len(A) : (A \o B)[j] = A[j]
          /\ \A j \in 1 .. Len(B) : (A \o B)[Len(A) + j] = B[j]
        BY <1>a, <1>b, Joined
    <2>2. Len(A \o B) = Len(todo) - 1
        BY <1>n, <1>a, <1>b, <2>1
    <2>3. ASSUME NEW j \in 1 .. Len(todo) - 1, j < k PROVE (A \o B)[j] = Q[j]
        BY <1>n, <1>a, <2>1, <2>3
    <2>4. ASSUME NEW j \in 1 .. Len(todo) - 1, j >= k PROVE (A \o B)[j] = Q[j + 1]
        <3>1. PICK m \in 1 .. Len(B) : j = Len(A) + m
            <4>1. j - (k - 1) \in 1 .. Len(B) /\ j = (k - 1) + (j - (k - 1))
                BY <1>n, <1>b, <2>4
            <4> QED BY <1>a, <4>1
        <3>2. m \in 1 .. Len(Q) - k /\ k + m = j + 1
            BY <1>n, <1>a, <1>b, <3>1
        <3> QED BY <1>b, <2>1, <3>1, <3>2
    <2>5. \A j \in 1 .. Len(todo) - 1 : j < k \/ (j >= k /\ ~(j < k))
        BY <1>n
    <2> QED BY <2>1, <2>2, <2>3, <2>4, <2>5
<1>5. R \in Seq(Entry) /\ Len(R) = Len(todo) - 1
    BY <1>2, <1>4 DEF A, B
<1>6. ASSUME NEW j \in 1 .. Len(todo) - 1
      PROVE  R[j] = IF j < k THEN Q[j] ELSE Q[j + 1]
    BY <1>2, <1>4 DEF A, B
<1> HIDE DEF R
<1>7. ASSUME NEW j \in 1 .. Len(R)
      PROVE  R[j] = IF j < k THEN todo[j] ELSE
                    IF j = k THEN Gaining(todo[k + 1], todo[k].time) ELSE todo[j + 1]
    <2>1. Len(todo) \in Nat /\ j \in 1 .. Len(todo) - 1
        BY <1>5
    <2>2. CASE j < k
        BY <1>1, <1>6, <2>1, <2>2
    <2>3. CASE j = k
        BY <1>1, <1>6, <2>1, <2>3
    <2>4. CASE j > k
        BY <1>1, <1>6, <2>1, <2>4
    <2> QED BY <2>1, <2>2, <2>3, <2>4
<1> QED BY <1>5, <1>7 DEF R

LEMMA TakenOffKeeps ==
    ASSUME todo \in Seq(Entry), Chained(todo), InTime(todo), NEW k \in 1 .. Len(todo)
    PROVE  /\ TakenOff(k) \in Seq(Entry) /\ Len(TakenOff(k)) = Len(todo) - 1
           /\ Chained(TakenOff(k)) /\ InTime(TakenOff(k))
<1> DEFINE R == TakenOff(k)
           e == Gaining(todo[k + 1], todo[k].time)
<1>1. /\ R \in Seq(Entry) /\ Len(R) = Len(todo) - 1
      /\ \A j \in 1 .. Len(R) : R[j] = IF j < k THEN todo[j] ELSE IF j = k THEN e ELSE todo[j + 1]
    <2> HIDE DEF R, e
    <2>1. /\ TakenOff(k) \in Seq(Entry) /\ Len(TakenOff(k)) = Len(todo) - 1
          /\ \A j \in 1 .. Len(TakenOff(k)) :
                TakenOff(k)[j] = IF j < k THEN todo[j] ELSE
                                 IF j = k THEN Gaining(todo[k + 1], todo[k].time) ELSE todo[j + 1]
        BY TakenOffIs
    <2> QED BY <2>1 DEF R, e
<1> HIDE DEF R
<1>2. /\ Len(todo) \in Nat
      /\ \A j \in 1 .. Len(todo) : todo[j] \in Entry /\ todo[j].time \in Int /\ Off(todo[j]) \in Int
    BY EntryFields
<1>3. k + 1 \in 1 .. Len(todo) => /\ e.time = todo[k + 1].time + todo[k].time
                                 /\ Off(e) = Off(todo[k + 1])
    <2> SUFFICES ASSUME k + 1 \in 1 .. Len(todo)
                 PROVE  e.time = todo[k + 1].time + todo[k].time /\ Off(e) = Off(todo[k + 1])
        OBVIOUS
    <2>1. todo[k + 1] \in Entry /\ todo[k + 1].time + todo[k].time \in Int
        BY <1>2
    <2> QED BY <2>1, Retimed DEF Gaining
<1> HIDE DEF e
<1>4. ASSUME NEW j \in 1 .. Len(R)
      PROVE  /\ R[j].time = Off(R[j]) - (IF j = 1 THEN 0 ELSE Off(R[j - 1]))
             /\ j > 1 => R[j].time >= 0
    <2>1. j \in 1 .. Len(todo) /\ j + 1 \in 1 .. Len(todo) /\ (j # 1 => j - 1 \in 1 .. Len(R))
        BY <1>1, <1>2
    <2>2. CASE j < k
        <3>1. R[j] = todo[j] /\ (j # 1 => R[j - 1] = todo[j - 1])
            BY <1>1, <2>1, <2>2
        <3> QED BY <2>1, <3>1 DEF Chained
    <2>3. CASE j = k
        <3>1. R[j] = e /\ (j # 1 => R[j - 1] = todo[j - 1])
            BY <1>1, <2>1, <2>3
        <3>2. /\ todo[k].time = Off(todo[k]) - (IF k = 1 THEN 0 ELSE Off(todo[k - 1]))
              /\ todo[k + 1].time = Off(todo[k + 1]) - Off(todo[k])
              /\ todo[k + 1].time >= 0 /\ (k > 1 => todo[k].time >= 0)
            BY <2>1, <2>3 DEF Chained
        <3>3. k # 1 => Off(todo[k - 1]) \in Int
            BY <1>2, <2>1, <2>3
        <3> QED BY <1>2, <1>3, <2>1, <2>3, <3>1, <3>2, <3>3
    <2>4. CASE j = k + 1
        <3>1. R[j] = todo[j + 1] /\ j - 1 = k /\ R[j - 1] = e /\ j # 1
            BY <1>1, <2>1, <2>4
        <3>2. todo[j + 1].time = Off(todo[j + 1]) - Off(todo[j]) /\ todo[j + 1].time >= 0
            BY <2>1 DEF Chained
        <3> QED BY <1>3, <2>1, <2>4, <3>1, <3>2
    <2>5. CASE j > k + 1
        <3>1. R[j] = todo[j + 1] /\ R[j - 1] = todo[j] /\ j # 1
            BY <1>1, <2>1, <2>5
        <3>2. todo[j + 1].time = Off(todo[j + 1]) - Off(todo[j]) /\ todo[j + 1].time >= 0
            BY <2>1 DEF Chained
        <3> QED BY <3>1, <3>2
    <2> QED BY <2>1, <2>2, <2>3, <2>4, <2>5
<1>5. InTime(R)
    <2> SUFFICES ASSUME R # <<>> PROVE R[1].time >= -MaxLate
        BY DEF InTime
    <2>1. 1 \in 1 .. Len(R) /\ 2 \in 1 .. Len(todo) /\ todo # <<>>
        BY <1>1, <1>2
    <2>2. CASE k = 1
        <3>1. todo[2].time >= 0 /\ todo[1].time >= -MaxLate
            BY <2>1 DEF Chained, InTime
        <3>2. R[1] = e /\ e.time = todo[2].time + todo[1].time
            BY <1>1, <1>3, <2>1, <2>2
        <3> QED BY <1>2, <2>1, <3>1, <3>2, CalloutAssumption DEF CalloutConstants
    <2>3. CASE k # 1
        BY <1>1, <2>1, <2>3 DEF InTime
    <2> QED BY <2>2, <2>3
<1> QED BY <1>1, <1>4, <1>5 DEF Chained, R

-----------------------------------------------------------------------------
(***************************************************************************)
(* A new entry goes where its time belongs.                                *)
(***************************************************************************)
\* A set of naturals that is not empty contains its minimum.
LEMMA MinIs ==
    ASSUME NEW S \in SUBSET Nat, S # {}
    PROVE  Min(S) \in S /\ \A m \in S : Min(S) <= m
<1>1. \E n \in S : \A m \in S : n <= m
    BY Smallest
<1> QED BY <1>1, Zenon DEF Min

\* While an entry is free, so is an identification.
LEMMA FreshIs ==
    ASSUME todo \in Seq(Entry), Len(todo) < ncallout
    PROVE  FreshId \in 1 .. ncallout
<1>1. \E i \in 1 .. ncallout : \A k \in DOMAIN todo : todo[k].id # i
    <2> SUFFICES ASSUME \A i \in 1 .. ncallout : \E k \in DOMAIN todo : todo[k].id = i
                 PROVE  FALSE
        OBVIOUS
    <2> DEFINE f == [i \in 1 .. ncallout |-> CHOOSE k \in DOMAIN todo : todo[k].id = i]
    <2>1. \A i \in 1 .. ncallout : f[i] \in DOMAIN todo /\ todo[f[i]].id = i
        OBVIOUS
    <2>2. /\ ncallout \in Nat /\ ncallout > 0 /\ Len(todo) \in Nat
          /\ DOMAIN todo = 1 .. Len(todo)
        BY CalloutAssumption DEF CalloutConstants
    <2>3. f \in [1 .. ncallout -> 1 .. Len(todo)]
        BY <2>1, <2>2
    <2> HIDE DEF f
    <2> DEFINE S == 1 .. ncallout
               T == 1 .. Len(todo)
    <2>4. IsFiniteSet(S) /\ IsFiniteSet(T)
        BY <2>2, FS_Interval
    <2>5. Cardinality(1 .. ncallout) = ncallout /\ Cardinality(1 .. Len(todo)) = Len(todo)
        <3>1. Cardinality(1 .. ncallout) = IF 1 > ncallout THEN 0 ELSE ncallout - 1 + 1
            BY <2>2, FS_Interval
        <3>2. Cardinality(1 .. Len(todo)) = IF 1 > Len(todo) THEN 0 ELSE Len(todo) - 1 + 1
            BY <2>2, FS_Interval
        <3> QED BY <2>2, <3>1, <3>2
    <2>6. Cardinality(T) < Cardinality(S) /\ f \in [S -> T]
        BY <2>2, <2>3, <2>5
    <2> HIDE DEF S, T
    <2>7. \E x, y \in S : x # y /\ f[x] = f[y]
        BY <2>4, <2>6, FS_PigeonHole
    <2> QED BY <2>1, <2>7 DEF S
<1> QED BY <1>1, Zenon DEF FreshId

\* What the first entry is overdue.
LEMMA OverdueIs ==
    ASSUME todo \in Seq(Entry), InTime(todo)
    PROVE  Overdue \in 0 .. MaxLate
<1>1. MaxLate \in Nat
    BY CalloutAssumption DEF CalloutConstants
<1>2. CASE todo = <<>>
    BY <1>1, <1>2 DEF Overdue
<1>3. CASE todo # <<>>
    <2>1. todo[1].time \in Int /\ todo[1].time >= -MaxLate
        BY <1>3, EntryFields DEF InTime
    <2> QED BY <1>1, <1>3, <2>1 DEF Overdue
<1> QED BY <1>2, <1>3

\* The position that timeout() finds for a time, and the difference it stores.
Places(t) == {i \in 0 .. Len(todo) : i = Len(todo) \/ todo[i + 1].time >= t - Ahead(i)}

\* There the new entry is as far off as it should be, and the difference is no less
\* than 0 behind another entry and no more than the time of the next.
LEMMA PlaceIs ==
    ASSUME todo \in Seq(Entry), Chained(todo), InTime(todo), NEW t \in Nat, t > 0,
           NEW k, k = Min(Places(t)), NEW d, d = t - Ahead(k)
    PROVE  /\ k \in 0 .. Len(todo) /\ d \in Int
           /\ d = t - Overdue - (IF k = 0 THEN 0 ELSE Off(todo[k]))
           /\ k > 0 => d >= 0
           /\ k = 0 => d = t
           /\ k < Len(todo) => todo[k + 1].time >= d
<1>1. /\ Len(todo) \in Nat
      /\ \A j \in 1 .. Len(todo) : todo[j].time \in Int /\ Off(todo[j]) \in Int
    BY EntryFields
<1>2. \A i \in 0 .. Len(todo) : Ahead(i) = IF i = 0 THEN 0 ELSE Off(todo[i]) + Overdue
    BY ChainedAhead
<1>3. Overdue \in Nat
    BY OverdueIs, CalloutAssumption DEF CalloutConstants
<1>4. k \in Places(t) /\ \A m \in Places(t) : k <= m
    <2>1. Places(t) \in SUBSET Nat /\ Len(todo) \in Places(t)
        BY <1>1 DEF Places
    <2>2. Min(Places(t)) \in Places(t) /\ \A m \in Places(t) : Min(Places(t)) <= m
        BY <2>1, MinIs
    <2> QED BY <2>2
<1>5. k \in 0 .. Len(todo) /\ (k = Len(todo) \/ todo[k + 1].time >= d)
    BY <1>4 DEF Places
<1>6. d = t - (IF k = 0 THEN 0 ELSE Off(todo[k]) + Overdue)
    BY <1>2, <1>5
<1>7. CASE k = 0
    <2>1. Overdue = 0
        <3>1. todo # <<>> => todo[1].time >= t /\ todo[1].time \in Int
            BY <1>1, <1>5, <1>6, <1>7
        <3> QED BY <3>1 DEF Overdue
    <2> QED BY <1>5, <1>6, <1>7, <2>1
<1>8. CASE k # 0
    <2>1. k \in 1 .. Len(todo) /\ k - 1 \in 0 .. Len(todo) /\ k - 1 # Len(todo) /\ ~(k <= k - 1)
        BY <1>1, <1>5, <1>8
    <2>2. todo[k].time < t - Ahead(k - 1) /\ Ahead(k - 1) \in Int
        <3>1. k - 1 \notin Places(t)
            BY <1>4, <2>1
        <3>2. Ahead(k - 1) \in Int
            <4>1. k # 1 => k - 1 \in 1 .. Len(todo)
                BY <2>1
            <4> QED BY <1>1, <1>2, <1>3, <2>1, <4>1
        <3>3. ~(todo[(k - 1) + 1].time >= t - Ahead(k - 1)) /\ (k - 1) + 1 = k
            BY <2>1, <3>1 DEF Places
        <3> QED BY <1>1, <2>1, <3>2, <3>3
    <2>3. d = t - Off(todo[k]) - Overdue
        BY <1>1, <1>3, <1>6, <1>8, <2>1
    <2>4. d >= 0
        <3>1. todo[k].time = Off(todo[k]) - (IF k = 1 THEN 0 ELSE Off(todo[k - 1]))
            BY <2>1 DEF Chained
        <3>2. CASE k = 1
            <4>1. Ahead(k - 1) = 0 /\ todo # <<>>
                BY <1>2, <2>1, <3>2
            <4>2. Overdue = IF todo[1].time < 0 THEN -todo[1].time ELSE 0
                BY <4>1 DEF Overdue
            <4> QED BY <1>1, <2>1, <2>2, <2>3, <3>1, <3>2, <4>1, <4>2
        <3>3. CASE k # 1
            <4>1. Ahead(k - 1) = Off(todo[k - 1]) + Overdue /\ Off(todo[k - 1]) \in Int
                BY <1>1, <1>2, <2>1, <3>3
            <4> QED BY <1>1, <1>3, <2>1, <2>2, <2>3, <3>1, <3>3, <4>1
        <3> QED BY <3>2, <3>3
    <2> QED BY <1>1, <1>3, <1>5, <1>8, <2>1, <2>3, <2>4
<1> QED BY <1>7, <1>8

\* The list with the new entry behind entry k.
Inserted(k, new, d) ==
    LET rest == SubSeq(todo, k + 1, Len(todo))
    IN  SubSeq(todo, 1, k) \o <<new>>
        \o (IF rest = <<>> THEN rest ELSE <<Deduct(Head(rest), d)>> \o Tail(rest))

Holds(R, k, new, d) == \A j \in 1 .. Len(todo) + 1 :
    R[j] = IF j <= k THEN todo[j] ELSE IF j = k + 1 THEN new ELSE
           IF j = k + 2 THEN Deduct(todo[k + 1], d) ELSE todo[j - 1]

LEMMA InsertedIs ==
    ASSUME todo \in Seq(Entry), NEW k \in 0 .. Len(todo), NEW new \in Entry, NEW d \in Int
    PROVE  /\ Inserted(k, new, d) \in Seq(Entry)
           /\ Len(Inserted(k, new, d)) = Len(todo) + 1
           /\ Holds(Inserted(k, new, d), k, new, d)
<1> DEFINE A == SubSeq(todo, 1, k)
           rest == SubSeq(todo, k + 1, Len(todo))
           B == IF rest = <<>> THEN rest ELSE <<Deduct(Head(rest), d)>> \o Tail(rest)
<1>1. A \in Seq(Entry) /\ Len(A) = k /\ \A j \in 1 .. k : A[j] = todo[j]
    BY FrontIs
<1>2. /\ rest \in Seq(Entry) /\ Len(rest) = Len(todo) - k
      /\ \A j \in 1 .. Len(todo) - k : rest[j] = todo[k + j]
    BY BackIs
<1>n. Len(todo) \in Nat
    OBVIOUS
<1> HIDE DEF A, rest
<1>3. /\ B \in Seq(Entry) /\ Len(B) = Len(todo) - k
      /\ \A j \in 1 .. Len(todo) - k :
            B[j] = IF j = 1 THEN Deduct(todo[k + 1], d) ELSE todo[k + j]
    <2>1. CASE rest = <<>>
        BY <1>n, <1>2, <2>1
    <2>2. CASE rest # <<>>
        <3> DEFINE H == <<Deduct(Head(rest), d)>>
        <3>1. Head(rest) = todo[k + 1] /\ Head(rest) \in Entry /\ 1 \in 1 .. Len(todo) - k
            BY <1>n, <1>2, <2>2
        <3>2. Deduct(Head(rest), d) \in Entry
            <4>1. Head(rest).time - d \in Int
                <5>1. Head(rest).time \in Int
                    <6> HIDE DEF rest
                    <6>1. \A e \in Entry : e.time \in Int
                        BY DEF Entry
                    <6> QED BY <3>1, <6>1
                <5> QED BY <5>1
            <4>2. Deduct(Head(rest), d) = [Head(rest) EXCEPT !.time = Head(rest).time - d]
                BY DEF Deduct
            <4> QED BY <3>1, <4>1, <4>2, Retimed
        <3>3. H \in Seq(Entry) /\ Len(H) = 1 /\ H[1] = Deduct(todo[k + 1], d)
            BY <3>1, <3>2
        <3>4. /\ Tail(rest) \in Seq(Entry) /\ Len(Tail(rest)) = Len(rest) - 1
              /\ \A j \in 1 .. Len(rest) - 1 : Tail(rest)[j] = rest[j + 1]
            BY <1>2, <2>2
        <3> HIDE DEF H
        <3>5. /\ H \o Tail(rest) \in Seq(Entry) /\ Len(H \o Tail(rest)) = Len(rest)
              /\ (H \o Tail(rest))[1] = H[1]
              /\ \A j \in 1 .. Len(rest) - 1 : (H \o Tail(rest))[1 + j] = Tail(rest)[j]
            <4>1. \A j \in 1 .. Len(H) : (H \o Tail(rest))[j] = H[j]
                BY <3>3, <3>4, Joined, Zenon
            <4>2. /\ H \o Tail(rest) \in Seq(Entry) /\ Len(H \o Tail(rest)) = Len(H) + Len(Tail(rest))
                  /\ \A j \in 1 .. Len(Tail(rest)) : (H \o Tail(rest))[Len(H) + j] = Tail(rest)[j]
                BY <3>3, <3>4, Joined
            <4> HIDE DEF H
            <4>3. Len(rest) \in Nat
                BY <1>2
            <4>4. Len(Tail(rest)) = Len(rest) - 1 /\ Len(H) = 1
                BY <3>3, <3>4
            <4>5. (H \o Tail(rest))[1] = H[1]
                <5>1. 1 \in 1 .. Len(H)
                    BY <3>3
                <5> QED BY <4>1, <5>1, Zenon
            <4>6. Len(H \o Tail(rest)) = Len(rest)
                BY <4>2, <4>3, <4>4
            <4>7. \A j \in 1 .. Len(rest) - 1 : (H \o Tail(rest))[1 + j] = Tail(rest)[j]
                BY <4>2, <4>4
            <4> QED BY <4>2, <4>5, <4>6, <4>7
        <3>6. B = H \o Tail(rest)
            BY <2>2 DEF H
        <3> HIDE DEF B
        <3>7. ASSUME NEW j \in 1 .. Len(todo) - k, j # 1 PROVE B[j] = todo[k + j]
            <4>1. j - 1 \in 1 .. Len(rest) - 1 /\ j = 1 + (j - 1)
                BY <1>n, <1>2, <3>7
            <4>2. (H \o Tail(rest))[1 + (j - 1)] = Tail(rest)[j - 1]
                BY <3>5, <4>1
            <4>3. Tail(rest)[j - 1] = rest[j]
                <5>1. Tail(rest)[j - 1] = rest[(j - 1) + 1] /\ (j - 1) + 1 = j
                    BY <3>4, <4>1
                <5> QED BY <5>1
            <4> QED BY <1>2, <3>6, <4>1, <4>2, <4>3
        <3> QED BY <1>2, <3>3, <3>5, <3>6, <3>7
    <2> QED BY <2>1, <2>2
<1> HIDE DEF B
<1> DEFINE C == A \o <<new>>
<1>4. /\ C \in Seq(Entry) /\ Len(C) = k + 1 /\ C[k + 1] = new
      /\ \A j \in 1 .. k : C[j] = todo[j]
    BY <1>1
<1> HIDE DEF C
<1>5. /\ C \o B \in Seq(Entry) /\ Len(C \o B) = Len(todo) + 1
      /\ \A j \in 1 .. k + 1 : (C \o B)[j] = C[j]
      /\ \A j \in 1 .. Len(todo) - k : (C \o B)[k + 1 + j] = B[j]
    BY <1>n, <1>3, <1>4, Joined
<1>6. Inserted(k, new, d) = C \o B
    BY Zenon DEF Inserted, A, B, C, rest
<1>7. ASSUME NEW j \in 1 .. Len(todo) + 1
      PROVE  (C \o B)[j] = IF j <= k THEN todo[j] ELSE IF j = k + 1 THEN new ELSE
                           IF j = k + 2 THEN Deduct(todo[k + 1], d) ELSE todo[j - 1]
    <2>1. CASE j <= k + 1
        BY <1>4, <1>5, <2>1
    <2>2. CASE j > k + 1
        <3>1. j - (k + 1) \in 1 .. Len(todo) - k /\ j = k + 1 + (j - (k + 1))
            BY <1>n, <2>2
        <3>2. (C \o B)[j] = B[j - (k + 1)]
            BY <1>5, <3>1
        <3>3. B[j - (k + 1)] = IF j - (k + 1) = 1 THEN Deduct(todo[k + 1], d)
                               ELSE todo[k + (j - (k + 1))]
            BY <1>3, <3>1
        <3>4. j \in Nat /\ k \in Nat /\ k + (j - (k + 1)) = j - 1 /\ (j - (k + 1) = 1 <=> j = k + 2)
            OBVIOUS
        <3>5. ~(j <= k) /\ j # k + 1
            BY <2>2, <3>4
        <3> QED BY <3>2, <3>3, <3>4, <3>5
    <2>3. j <= k + 1 \/ j > k + 1
        OBVIOUS
    <2> QED BY <2>1, <2>2, <2>3
<1>8. Holds(C \o B, k, new, d)
    BY <1>7 DEF Holds
<1> QED BY <1>5, <1>6, <1>8

\* An entry of time d for a function to be called in t ticks.
LEMMA InsertedKeeps ==
    ASSUME todo \in Seq(Entry), Chained(todo), InTime(todo), NEW t \in Nat,
           NEW k \in 0 .. Len(todo), NEW d \in Int,
           d = t - Overdue - (IF k = 0 THEN 0 ELSE Off(todo[k])),
           k > 0 => d >= 0, k = 0 => d = t, k < Len(todo) => todo[k + 1].time >= d,
           NEW new \in Entry, new.time = d, Off(new) = t - Overdue
    PROVE  /\ Inserted(k, new, d) \in Seq(Entry)
           /\ Len(Inserted(k, new, d)) = Len(todo) + 1
           /\ Chained(Inserted(k, new, d)) /\ InTime(Inserted(k, new, d))
<1> DEFINE R == Inserted(k, new, d)
           e == Deduct(todo[k + 1], d)
<1>1. /\ k \in 0 .. Len(todo) /\ d \in Int
      /\ d = t - Overdue - (IF k = 0 THEN 0 ELSE Off(todo[k]))
      /\ k > 0 => d >= 0
      /\ k = 0 => d = t
      /\ k < Len(todo) => todo[k + 1].time >= d
    OBVIOUS
<1>2. /\ R \in Seq(Entry) /\ Len(R) = Len(todo) + 1
      /\ \A j \in 1 .. Len(todo) + 1 :
            R[j] = IF j <= k THEN todo[j] ELSE IF j = k + 1 THEN new ELSE
                   IF j = k + 2 THEN e ELSE todo[j - 1]
    <2> HIDE DEF R, e
    <2>1. /\ Inserted(k, new, d) \in Seq(Entry)
          /\ Len(Inserted(k, new, d)) = Len(todo) + 1
          /\ Holds(Inserted(k, new, d), k, new, d)
        BY InsertedIs
    <2> QED BY <2>1 DEF R, e, Holds
<1> HIDE DEF R
<1>3. /\ Len(todo) \in Nat
      /\ \A j \in 1 .. Len(todo) : todo[j] \in Entry /\ todo[j].time \in Int /\ Off(todo[j]) \in Int
    BY EntryFields
<1>4. k < Len(todo) => e.time = todo[k + 1].time - d /\ Off(e) = Off(todo[k + 1])
    <2> SUFFICES ASSUME k < Len(todo)
                 PROVE  e.time = todo[k + 1].time - d /\ Off(e) = Off(todo[k + 1])
        OBVIOUS
    <2>1. todo[k + 1] \in Entry /\ todo[k + 1].time - d \in Int
        BY <1>1, <1>3
    <2>2. e = [todo[k + 1] EXCEPT !.time = todo[k + 1].time - d]
        BY DEF Deduct
    <2> HIDE DEF e
    <2> QED BY <2>1, <2>2, Retimed
<1> HIDE DEF e
<1>5. Overdue \in Nat /\ MaxLate \in Nat
    BY OverdueIs, CalloutAssumption DEF CalloutConstants
<1>6. ASSUME NEW j \in 1 .. Len(R)
      PROVE  /\ R[j].time = Off(R[j]) - (IF j = 1 THEN 0 ELSE Off(R[j - 1]))
             /\ j > 1 => R[j].time >= 0
    <2>1. j \in 1 .. Len(todo) + 1 /\ (j # 1 => j - 1 \in 1 .. Len(todo) + 1)
        BY <1>2, <1>3
    <2>2. CASE j <= k
        <3>1. j \in 1 .. Len(todo) /\ j - 1 <= k
            BY <1>1, <2>1, <2>2
        <3>2. R[j] = todo[j] /\ (j # 1 => R[j - 1] = todo[j - 1])
            BY <1>2, <2>1, <2>2, <3>1
        <3> QED BY <2>1, <3>1, <3>2 DEF Chained
    <2>3. CASE j = k + 1
        <3>1. R[j] = new /\ (j # 1 => k > 0 /\ R[j - 1] = todo[k])
            BY <1>1, <1>2, <2>1, <2>3
        <3>2. k > 0 => Off(todo[k]) \in Int
            BY <1>1, <1>3
        <3> QED BY <1>1, <1>5, <2>1, <2>3, <3>1, <3>2
    <2>4. CASE j = k + 2
        <3>1. R[j] = e /\ R[j - 1] = new /\ j # 1 /\ k < Len(todo) /\ k + 1 \in 1 .. Len(todo)
            BY <1>1, <1>2, <1>3, <2>1, <2>4
        <3>2. todo[k + 1].time = Off(todo[k + 1]) - (IF k = 0 THEN 0 ELSE Off(todo[k]))
            <4>1. /\ todo[k + 1].time = Off(todo[k + 1]) - (IF k + 1 = 1 THEN 0 ELSE Off(todo[(k + 1) - 1]))
                  /\ (k + 1) - 1 = k /\ (k + 1 = 1 <=> k = 0)
                BY <1>1, <3>1 DEF Chained
            <4> QED BY <4>1
        <3>3. (k # 0 => Off(todo[k]) \in Int) /\ todo[k + 1].time \in Int /\ Off(todo[k + 1]) \in Int
            BY <1>1, <1>3, <3>1
        <3>4. R[j].time = todo[k + 1].time - d /\ Off(R[j]) = Off(todo[k + 1]) /\ Off(R[j - 1]) = t - Overdue
            BY <1>4, <3>1
        <3>5. todo[k + 1].time >= d
            BY <1>1, <3>1
        <3>6. ASSUME k = 0 PROVE R[j].time = Off(R[j]) - Off(R[j - 1])
            <4>1. Off(todo[k + 1]) = todo[k + 1].time
                BY <3>2, <3>3, <3>6
            <4>2. t - Overdue = d
                BY <1>1, <1>5, <3>6
            <4> QED BY <3>3, <3>4, <4>1, <4>2
        <3>7. ASSUME k # 0 PROVE R[j].time = Off(R[j]) - Off(R[j - 1])
            <4>1. Off(todo[k + 1]) = todo[k + 1].time + Off(todo[k])
                BY <3>2, <3>3, <3>7
            <4>2. t - Overdue = d + Off(todo[k])
                BY <1>1, <1>5, <3>3, <3>7
            <4>3. Off(todo[k]) \in Int
                BY <3>3, <3>7
            <4>4. (todo[k + 1].time + Off(todo[k])) - (d + Off(todo[k])) = todo[k + 1].time - d
                BY <3>3, <4>3, Differing
            <4> QED BY <3>4, <4>1, <4>2, <4>4, Zenon
        <3>8. R[j].time >= 0
            BY <3>3, <3>4, <3>5
        <3> QED BY <3>1, <3>6, <3>7, <3>8
    <2>5. CASE j > k + 2
        <3> DEFINE i == j - 1
        <3>1. /\ i \in 1 .. Len(todo) /\ i > 1 /\ i # 1 /\ j # 1
              /\ ~(j <= k) /\ j # k + 1 /\ j # k + 2 /\ ~(i <= k) /\ i # k + 1
              /\ j \in 1 .. Len(todo) + 1 /\ i \in 1 .. Len(todo) + 1
            BY <1>1, <2>1, <2>5
        <3>2. R[j] = todo[i]
            BY <1>2, <3>1
        <3>3. Off(R[i]) = Off(todo[i - 1])
            <4>1. CASE i = k + 2
                <5>1. i - 1 = k + 1 /\ k < Len(todo)
                    BY <1>1, <3>1, <4>1
                <5>2. R[i] = e
                    <6> HIDE DEF i
                    <6> QED BY <1>2, <3>1, <4>1
                <5> QED BY <1>4, <5>1, <5>2
            <4>2. CASE i # k + 2
                <5> HIDE DEF i
                <5> QED BY <1>2, <3>1, <4>2
            <4> QED BY <4>1, <4>2
        <3>4. todo[i].time = Off(todo[i]) - Off(todo[i - 1]) /\ todo[i].time >= 0
            <4> HIDE DEF i
            <4> QED BY <3>1 DEF Chained
        <3> QED BY <3>1, <3>2, <3>3, <3>4
    <2>6. j <= k \/ j = k + 1 \/ j = k + 2 \/ j > k + 2
        BY <1>1, <2>1
    <2> QED BY <2>2, <2>3, <2>4, <2>5, <2>6
<1>7. InTime(R)
    <2>1. 1 \in 1 .. Len(todo) + 1
        BY <1>3
    <2>2. CASE k = 0
        BY <1>1, <1>2, <1>5, <2>1, <2>2 DEF InTime
    <2>3. CASE k # 0
        <3>1. R[1] = todo[1] /\ todo # <<>>
            BY <1>1, <1>2, <2>1, <2>3
        <3> QED BY <3>1 DEF InTime
    <2> QED BY <2>2, <2>3
<1> QED BY <1>2, <1>6, <1>7 DEF Chained, R

-----------------------------------------------------------------------------
(***************************************************************************)
(* The invariant.                                                          *)
(***************************************************************************)
LEMMA CalloutInit_Inv == CalloutInit => CalloutInv
<1> SUFFICES ASSUME CalloutInit PROVE CalloutInv
    OBVIOUS
<1>1. todo = <<>> /\ Len(todo) = 0 /\ todo \in Seq(Entry)
    BY DEF CalloutInit
<1>2. ncallout \in Nat
    BY CalloutAssumption DEF CalloutConstants
<1> QED BY <1>1, <1>2 DEF CalloutInit, CalloutInv, CalloutType, Chained, InTime

LEMMA Timeout_Inv ==
    ASSUME CalloutInv, NEW f \in Fun, NEW tim \in Ticks, timeout(f, tim)
    PROVE  CalloutInv'
<1> DEFINE t == IF tim = 0 THEN 1 ELSE tim
           k == Min(Places(t))
           d == t - Ahead(k)
           new == [time |-> d, fun |-> f, id |-> FreshId, left |-> t, late |-> Overdue]
<1>1. t \in Nat /\ t > 0
    BY CalloutAssumption DEF CalloutConstants
<1>2. todo \in Seq(Entry) /\ Chained(todo) /\ InTime(todo) /\ callfree = ncallout - Len(todo)
    BY DEF CalloutInv, CalloutType
<1>3. /\ callfree > 0 /\ callfree' = callfree - 1
      /\ todo' = Inserted(k, new, d)
      /\ want' = want /\ soft' = soft
    BY Zenon DEF timeout, Inserted, Places
<1> HIDE DEF t
<1>4. d \in Int
    <2> HIDE DEF k, d
    <2> QED BY <1>1, <1>2, PlaceIs DEF k, d
<1>5. FreshId \in 1 .. ncallout /\ Overdue \in 0 .. MaxLate /\ Overdue \in Int
    <2>1. Len(todo) < ncallout
        <3>1. Len(todo) \in Nat /\ ncallout \in Nat
            BY <1>2, CalloutAssumption DEF CalloutConstants
        <3> QED BY <1>2, <1>3, <3>1
    <2>2. Overdue \in 0 .. MaxLate
        BY <1>2, OverdueIs
    <2> QED BY <1>2, <2>1, <2>2, FreshIs
<1> HIDE DEF k, d
<1>6. new \in Entry /\ new.time = d /\ Off(new) = t - Overdue
    BY <1>1, <1>4, <1>5 DEF Entry, Off
<1> HIDE DEF new
<1>7. /\ todo' \in Seq(Entry) /\ Len(todo') = Len(todo) + 1
      /\ Chained(todo') /\ InTime(todo')
    <2>1. /\ k \in 0 .. Len(todo)
          /\ d = t - Overdue - (IF k = 0 THEN 0 ELSE Off(todo[k]))
          /\ k > 0 => d >= 0
          /\ k = 0 => d = t
          /\ k < Len(todo) => todo[k + 1].time >= d
        <3>1. k = Min(Places(t)) /\ d = t - Ahead(k)
            BY Zenon DEF k, d
        <3> QED BY <1>1, <1>2, <3>1, PlaceIs
    <2>2. /\ Inserted(k, new, d) \in Seq(Entry) /\ Len(Inserted(k, new, d)) = Len(todo) + 1
          /\ Chained(Inserted(k, new, d)) /\ InTime(Inserted(k, new, d))
        BY <1>1, <1>2, <1>4, <1>6, <2>1, InsertedKeeps
    <2> QED BY <1>3, <2>2
<1>8. callfree' = ncallout - Len(todo')
    <2>1. Len(todo) \in Nat /\ ncallout \in Nat
        BY <1>2, CalloutAssumption DEF CalloutConstants
    <2> QED BY <1>2, <1>3, <1>7, <2>1
<1> QED BY <1>3, <1>7, <1>8 DEF CalloutInv, CalloutType, Chained, InTime

\* untimeout(), untimeout_id() and softclock() take an entry off the list.
LEMMA TakeOff_Inv ==
    ASSUME CalloutInv, NEW k \in DOMAIN todo, todo' = TakenOff(k),
           callfree' = callfree + 1, UNCHANGED <<want, soft>>
    PROVE  CalloutInv'
<1>1. todo \in Seq(Entry) /\ Chained(todo) /\ InTime(todo) /\ callfree = ncallout - Len(todo)
    BY DEF CalloutInv, CalloutType
<1>2. k \in 1 .. Len(todo) /\ Len(todo) \in Nat /\ ncallout \in Nat
    BY <1>1, CalloutAssumption DEF CalloutConstants
<1>3. /\ todo' \in Seq(Entry) /\ Len(todo') = Len(todo) - 1
      /\ Chained(todo') /\ InTime(todo')
    BY <1>1, <1>2, TakenOffKeeps
<1>4. callfree' = ncallout - Len(todo')
    BY <1>1, <1>2, <1>3
<1> QED BY <1>3, <1>4 DEF CalloutInv, CalloutType, Chained, InTime

LEMMA Tick_Inv == CalloutInv /\ hardclock_todo => CalloutInv'
<1> SUFFICES ASSUME CalloutInv, hardclock_todo PROVE CalloutInv'
    OBVIOUS
<1> DEFINE d == IF todo[1].time > -MaxLate THEN 1 ELSE 0
           tick(k) == [todo[k] EXCEPT !.time = IF k = 1 THEN @ - d ELSE @, !.left = @ - d]
<1>1. /\ todo \in Seq(Entry) /\ Chained(todo) /\ InTime(todo) /\ callfree = ncallout - Len(todo)
      /\ want \in {-1, 0, 1} /\ (soft # "idle" <=> want = -1) /\ soft \in {"idle", "loop", "returning"}
    BY DEF CalloutInv, CalloutType
<1>2. /\ todo # <<>> /\ callfree' = callfree /\ soft' = soft
      /\ want' = IF Due(todo'[1]) /\ want = 0 THEN 1 ELSE want
      /\ todo' = [k \in DOMAIN todo |-> tick(k)]
    BY DEF hardclock_todo
<1>3. /\ Len(todo) \in Nat /\ DOMAIN todo = 1 .. Len(todo)
      /\ \A j \in 1 .. Len(todo) : /\ todo[j] \in Entry /\ todo[j].time \in Int
                                    /\ todo[j].left \in Int /\ Off(todo[j]) \in Int
    BY <1>1, EntryFields
<1>d. d \in {0, 1} /\ (todo[1].time <= -MaxLate => d = 0)
    <2>1. 1 \in 1 .. Len(todo)
        <3>1. todo \in Seq(Entry) /\ todo # <<>>
            BY <1>1, <1>2
        <3> QED BY <3>1, EntryFields
    <2>2. todo[1].time \in Int /\ MaxLate \in Nat
        BY <1>3, <2>1, CalloutAssumption DEF CalloutConstants
    <2> QED BY <2>2
<1> HIDE DEF d
<1>4. ASSUME NEW j \in 1 .. Len(todo)
      PROVE  /\ tick(j) \in Entry
             /\ tick(j).time = IF j = 1 THEN todo[j].time - d ELSE todo[j].time
             /\ Off(tick(j)) = Off(todo[j]) - d
    <2>1. /\ todo[j] \in Entry /\ todo[j].time \in Int /\ todo[j].left \in Int
          /\ todo[j].late \in Int
        BY <1>1, <1>3, EntryFields
    <2>2. /\ tick(j) = [todo[j] EXCEPT !.time = tick(j).time, !.left = tick(j).left]
          /\ tick(j).time = (IF j = 1 THEN todo[j].time - d ELSE todo[j].time)
          /\ tick(j).left = todo[j].left - d /\ tick(j).late = todo[j].late
        BY <2>1 DEF Entry
    <2> HIDE DEF tick
    <2>3. tick(j) \in Entry
        <3>1. tick(j).time \in Int /\ tick(j).left \in Int
            BY <1>d, <2>1, <2>2
        <3>2. [todo[j] EXCEPT !.time = tick(j).time, !.left = tick(j).left] \in Entry
            BY <2>1, <3>1, Counted
        <3> QED BY <2>2, <3>2
    <2>4. Off(tick(j)) = Off(todo[j]) - d
        BY <1>d, <2>1, <2>2 DEF Off
    <2> QED BY <2>2, <2>3, <2>4
<1> HIDE DEF tick
<1>5. todo' \in Seq(Entry) /\ Len(todo') = Len(todo) /\ \A j \in 1 .. Len(todo) : todo'[j] = tick(j)
    <2>1. todo' = [j \in 1 .. Len(todo) |-> tick(j)]
        BY <1>2, <1>3
    <2> QED BY <1>3, <1>4, <2>1
<1>6. ASSUME NEW j \in 1 .. Len(todo')
      PROVE  /\ todo'[j].time = Off(todo'[j]) - (IF j = 1 THEN 0 ELSE Off(todo'[j - 1]))
             /\ j > 1 => todo'[j].time >= 0
    <2>1. j \in 1 .. Len(todo) /\ (j # 1 => j - 1 \in 1 .. Len(todo) /\ j > 1)
        BY <1>5
    <2>2. /\ todo[j].time = Off(todo[j]) - (IF j = 1 THEN 0 ELSE Off(todo[j - 1]))
          /\ j > 1 => todo[j].time >= 0
        BY <1>1, <2>1 DEF Chained
    <2>3. todo'[j] = tick(j) /\ (j # 1 => todo'[j - 1] = tick(j - 1))
        BY <1>5, <2>1
    <2>4. d \in Int /\ Off(todo[j]) \in Int /\ todo[j].time \in Int /\ (j # 1 => Off(todo[j - 1]) \in Int)
        BY <1>d, <1>3, <2>1
    <2>5. CASE j = 1
        <3>1. todo'[j].time = todo[j].time - d /\ Off(todo'[j]) = Off(todo[j]) - d
            BY <1>4, <2>1, <2>3, <2>5
        <3> QED BY <2>2, <2>4, <2>5, <3>1
    <2>6. CASE j # 1
        <3>1. todo'[j].time = todo[j].time /\ Off(todo'[j]) = Off(todo[j]) - d
            BY <1>4, <2>1, <2>3, <2>6
        <3>2. Off(todo'[j - 1]) = Off(todo[j - 1]) - d
            BY <1>4, <2>1, <2>3, <2>6
        <3> QED BY <2>1, <2>2, <2>4, <2>6, <3>1, <3>2
    <2> QED BY <2>5, <2>6
<1>7. todo'[1].time >= -MaxLate
    <2>1. 1 \in 1 .. Len(todo) /\ todo[1].time \in Int /\ MaxLate \in Nat /\ todo[1].time >= -MaxLate
        BY <1>1, <1>2, <1>3, CalloutAssumption DEF CalloutConstants, InTime
    <2>2. todo'[1].time = todo[1].time - d
        BY <1>4, <1>5, <2>1
    <2> QED BY <1>d, <2>1, <2>2
<1>8. want' \in {-1, 0, 1} /\ (soft' # "idle" <=> want' = -1)
    BY <1>1, <1>2
<1>9. callfree' = ncallout - Len(todo')
    BY <1>1, <1>2, <1>5
<1>10. Chained(todo') /\ InTime(todo')
    BY <1>6, <1>7 DEF Chained, InTime
<1> QED BY <1>1, <1>2, <1>5, <1>8, <1>9, <1>10 DEF CalloutInv, CalloutType, Chained, InTime

LEMMA CalloutNext_Inv == CalloutInv /\ [CalloutNext]_calloutVars => CalloutInv'
<1> SUFFICES ASSUME CalloutInv, [CalloutNext]_calloutVars PROVE CalloutInv'
    OBVIOUS
<1>1. ASSUME NEW f \in Fun, NEW t \in Ticks, timeout(f, t) PROVE CalloutInv'
    BY <1>1, Timeout_Inv
<1>2. ASSUME NEW f \in Fun, untimeout(f) PROVE CalloutInv'
    <2> DEFINE S == {k \in DOMAIN todo : todo[k].fun = f}
    <2>1. /\ S # {} /\ todo' = TakenOff(Min(S))
          /\ callfree' = callfree + 1 /\ UNCHANGED <<want, soft>>
        BY <1>2 DEF untimeout
    <2>2. S \in SUBSET Nat /\ S \subseteq DOMAIN todo
        BY EntryFields DEF CalloutInv, CalloutType
    <2> HIDE DEF S
    <2>3. Min(S) \in DOMAIN todo
        BY <2>1, <2>2, MinIs
    <2> QED BY <2>1, <2>3, TakeOff_Inv
<1>3. ASSUME NEW id \in 1 .. ncallout, untimeout_id(id) PROVE CalloutInv'
    BY <1>3, TakeOff_Inv DEF untimeout_id
<1>4. CASE hardclock_todo
    BY <1>4, Tick_Inv
<1>5. CASE SoftclockStarts
    BY <1>5 DEF SoftclockStarts, CalloutInv, CalloutType, Chained, InTime
<1>6. CASE SoftclockCalls
    <2>1. 1 \in DOMAIN todo
        <3>1. todo \in Seq(Entry) /\ todo # <<>>
            BY <1>6 DEF SoftclockCalls, CalloutInv, CalloutType
        <3> QED BY <3>1, EntryFields
    <2> QED BY <1>6, <2>1, TakeOff_Inv DEF SoftclockCalls
<1>7. CASE SoftclockReturns
    BY <1>7 DEF SoftclockReturns, CalloutInv, CalloutType, Chained, InTime
<1>8. CASE SoftclockEnds
    BY <1>8 DEF SoftclockEnds, CalloutInv, CalloutType, Chained, InTime
<1>9. CASE UNCHANGED calloutVars
    BY <1>9 DEF calloutVars, CalloutInv, CalloutType, Chained, InTime
<1> QED BY <1>1, <1>2, <1>3, <1>4, <1>5, <1>6, <1>7, <1>8, <1>9 DEF CalloutNext

LEMMA CalloutInvariant == CalloutSpec => []CalloutInv
BY CalloutInit_Inv, CalloutNext_Inv, PTL DEF CalloutSpec

\* Counting down the first entry counts down all of them: after any insertions,
\* cancellations and late calls of softclock() an entry is as far off as its caller
\* asked for, an entry of the table is free or on the list, and softclock() does
\* not run inside itself.
THEOREM CalloutsKept == CalloutSpec => []CalloutList
<1>1. CalloutInv => CalloutList
    <2> SUFFICES ASSUME CalloutInv PROVE CalloutList
        OBVIOUS
    <2>1. todo \in Seq(Entry) /\ Chained(todo)
        BY DEF CalloutInv, CalloutType
    <2>2. ASSUME NEW k \in DOMAIN todo
          PROVE  Until(k) = todo[k].left - todo[k].late /\ (k > 1 => todo[k].time >= 0)
        <3>1. k \in 1 .. Len(todo)
            BY <2>1, EntryFields
        <3> QED BY <2>1, <3>1, ChainedSums DEF Chained, Off
    <2> QED BY <2>2 DEF CalloutList, CalloutInv, Differences
<1> QED BY <1>1, CalloutInvariant, PTL
=============================================================================
