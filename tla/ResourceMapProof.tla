--------------------------- MODULE ResourceMapProof ---------------------------
(***************************************************************************)
(* The resource map keeps its array in shape and its books in order, for   *)
(* every size of the array and of the pool.  The array is described by the *)
(* position d of its delimiter: d - 1 segments in address order with gaps  *)
(* between them, and nothing but zeros from d on.                          *)
(***************************************************************************)
EXTENDS ResourceMap, FiniteSetTheorems, FunctionTheorems, WellFoundedInduction, TLAPS

\* A non-empty set of naturals has a least element.
LEMMA Smallest ==
    ASSUME NEW T \in SUBSET Nat, T # {}
    PROVE  \E n \in T : \A m \in T : n <= m
<1> DEFINE R == OpToRel(<, Nat)
<1>1. IsWellFoundedOn(R, Nat)
    BY NatLessThanWellFounded, Zenon
<1>2. PICK n \in T : \A m \in T : <<m, n>> \notin R
    <2> HIDE DEF R
    <2> QED BY <1>1, WFMin, Zenon
<1>3. \A m \in T : ~(m < n)
    BY <1>2 DEF OpToRel
<1> QED BY <1>3

\* The first n slots are segments in address order, with gaps between them.
Sorted(m, n) ==
    /\ \A i \in 1..n : m[i].size > 0
    /\ \A i, j \in 1..n : i < j => m[i].addr + m[i].size < m[j].addr

Arr(m, d) ==
    /\ m \in [Slot -> SlotType] /\ d \in Slot
    /\ Sorted(m, d - 1)
    /\ \A i \in d..Slots : m[i] = NoSegment

Seg(m, i, u) == m[i].addr <= u /\ u < m[i].addr + m[i].size

\* The units from a to a + s - 1 leave, or join, the segments of the array.
Taken(m, d, m2, e, a, s) ==
    \A u \in Nat : (\E j \in 1..(e-1) : Seg(m2, j, u)) <=>
        (\E j \in 1..(d-1) : Seg(m, j, u)) /\ ~(a <= u /\ u < a + s)
Given(m, d, m2, e, a, s) ==
    \A u \in Nat : (\E j \in 1..(e-1) : Seg(m2, j, u)) <=>
        (\E j \in 1..(d-1) : Seg(m, j, u)) \/ (a <= u /\ u < a + s)

LEMMA SlotFacts ==
    ASSUME NEW m \in [Slot -> SlotType], NEW i \in Slot
    PROVE  m[i].addr \in Nat /\ m[i].size \in Nat /\ m[i] = [addr |-> m[i].addr, size |-> m[i].size]
BY DEF SlotType

LEMMA DelimiterIs ==
    ASSUME NEW m, NEW d \in Slot, m[d].size = 0, \A i \in 1..(d-1) : m[i].size # 0
    PROVE  Delimiter(m) = d
<1>1. ASSUME NEW e \in Slot, m[e].size = 0, \A j \in 1..(e-1) : m[j].size # 0
      PROVE  e = d
    BY <1>1, SlotsAssumption DEF Slot
<1>2. \E i \in Slot : m[i].size = 0 /\ \A j \in 1..(i-1) : m[j].size # 0
    OBVIOUS
<1> QED BY <1>1, <1>2 DEF Delimiter

LEMMA ArrDelimiter ==
    ASSUME NEW m, NEW d, Arr(m, d)
    PROVE  Delimiter(m) = d
<1>1. d \in Slot /\ m[d].size = 0
    BY SlotsAssumption DEF Arr, NoSegment, Slot
<1>2. \A i \in 1..(d-1) : m[i].size # 0
    <2> SUFFICES ASSUME NEW i \in 1..(d-1) PROVE m[i].size # 0
        OBVIOUS
    <2>1. i \in Slot /\ m[i].size > 0
        BY SlotsAssumption, <1>1 DEF Arr, Sorted, Slot
    <2> QED BY <2>1, SlotFacts DEF Arr
<1> QED BY <1>1, <1>2, DelimiterIs

\* The free units, segment by segment.
LEMMA FreeIs ==
    ASSUME NEW m, NEW d, Arr(m, d), NEW u
    PROVE  u \in FreeUnits(m) <=> u \in Nat /\ \E i \in 1..(d-1) : Seg(m, i, u)
<1>1. Segments(m) = 1..(d-1)
    BY ArrDelimiter DEF Segments
<1>2. ASSUME NEW i \in 1..(d-1)
      PROVE  u \in Extent(m[i].addr, m[i].size) <=> u \in Nat /\ Seg(m, i, u)
    <2>1. i \in Slot
        BY SlotsAssumption DEF Arr, Slot
    <2>2. m[i].addr \in Nat /\ m[i].size \in Nat
        BY <2>1, SlotFacts DEF Arr
    <2> QED BY <2>2 DEF Extent, Seg
<1> QED BY <1>1, <1>2 DEF FreeUnits

\* A piece is cut off the front of a segment.
LEMMA Shrunk ==
    ASSUME NEW m, NEW d, Arr(m, d), NEW i \in 1..(d-1), NEW s \in Nat, s > 0, s < m[i].size,
           NEW m2, m2 = [m EXCEPT ![i] = [addr |-> m[i].addr + s, size |-> m[i].size - s]]
    PROVE  Arr(m2, d) /\ Taken(m, d, m2, d, m[i].addr, s)
<1>1. /\ d \in Nat /\ d >= 1 /\ d <= Slots /\ Slots \in Nat /\ 1..(d-1) \subseteq Slot
      /\ d..Slots \subseteq Slot
    BY SlotsAssumption DEF Arr, Slot
<1>2. \A j \in Slot : m[j].addr \in Nat /\ m[j].size \in Nat
    BY SlotFacts DEF Arr
<1>3. m2 \in [Slot -> SlotType]
    BY <1>1, <1>2 DEF Arr, SlotType
<1>4. /\ \A j \in Slot \ {i} : m2[j] = m[j]
      /\ m2[i].addr = m[i].addr + s /\ m2[i].size = m[i].size - s
    BY <1>1 DEF Arr
<1>5. Sorted(m2, d - 1)
    <2>1. \A j \in 1..(d-1) : m2[j].size > 0
        BY <1>1, <1>2, <1>4 DEF Arr, Sorted
    <2>2. \A j, k \in 1..(d-1) : j < k => m2[j].addr + m2[j].size < m2[k].addr
        BY <1>1, <1>2, <1>4 DEF Arr, Sorted
    <2> QED BY <2>1, <2>2 DEF Sorted
<1>6. Arr(m2, d)
    BY <1>1, <1>3, <1>4, <1>5 DEF Arr
<1>7. ASSUME NEW u \in Nat
      PROVE  (\E j \in 1..(d-1) : Seg(m2, j, u)) <=>
                 /\ \E j \in 1..(d-1) : Seg(m, j, u)
                 /\ ~(m[i].addr <= u /\ u < m[i].addr + s)
    <2>1. ASSUME NEW j \in 1..(d-1), Seg(m2, j, u)
          PROVE  Seg(m, j, u) /\ ~(m[i].addr <= u /\ u < m[i].addr + s)
        <3>1. CASE j = i
            BY <1>1, <1>2, <1>4, <2>1, <3>1 DEF Seg
        <3>2. CASE j < i
            BY <1>1, <1>2, <1>4, <2>1, <3>2 DEF Seg, Arr, Sorted
        <3>3. CASE j > i
            BY <1>1, <1>2, <1>4, <2>1, <3>3 DEF Seg, Arr, Sorted
        <3> QED BY <3>1, <3>2, <3>3
    <2>2. ASSUME NEW j \in 1..(d-1), Seg(m, j, u), ~(m[i].addr <= u /\ u < m[i].addr + s)
          PROVE  Seg(m2, j, u)
        BY <1>1, <1>2, <1>4, <2>2 DEF Seg
    <2> QED BY <2>1, <2>2
<1> QED BY <1>6, <1>7 DEF Taken

\* A segment that is used up is closed over.
LEMMA Closed ==
    ASSUME NEW m, NEW d, Arr(m, d), NEW i \in 1..(d-1), NEW m2, m2 = CloseGap(m, i)
    PROVE  /\ Arr(m2, d - 1)
           /\ \A j \in 1..(i-1) : m2[j] = m[j]
           /\ \A j \in i..(d-2) : m2[j] = m[j + 1]
           /\ \A u \in Nat : (\E j \in 1..(d-2) : Seg(m2, j, u)) <=>
                 /\ \E j \in 1..(d-1) : Seg(m, j, u)
                 /\ ~Seg(m, i, u)
<1>1. /\ d \in Nat /\ d >= 1 /\ d <= Slots /\ Slots \in Nat /\ 1..(d-1) \subseteq Slot
      /\ d..Slots \subseteq Slot
    BY SlotsAssumption DEF Arr, Slot
<1>2. \A j \in Slot : m[j].addr \in Nat /\ m[j].size \in Nat
    BY SlotFacts DEF Arr
<1>3. m2 = [j \in Slot |-> IF j >= i /\ j < d THEN m[j + 1] ELSE m[j]]
    BY ArrDelimiter DEF CloseGap
<1>4. /\ \A j \in 1..(i-1) : m2[j] = m[j]
      /\ \A j \in i..(d-1) : m2[j] = m[j + 1] /\ j + 1 \in Slot
      /\ \A j \in d..Slots : m2[j] = m[j]
    BY <1>1, <1>3 DEF Slot
<1>5. m2 \in [Slot -> SlotType]
    <2>1. ASSUME NEW j \in Slot PROVE m2[j] \in SlotType
        <3>1. CASE j >= i /\ j < d
            <4>1. j + 1 \in Slot /\ m2[j] = m[j + 1]
                BY <1>1, <1>3, <3>1 DEF Slot
            <4> QED BY <4>1 DEF Arr
        <3>2. CASE ~(j >= i /\ j < d)
            BY <1>3, <3>2 DEF Arr
        <3> QED BY <3>1, <3>2
    <2> QED BY <1>3, <2>1
<1>6. m2[d - 1] = NoSegment /\ \A j \in d..Slots : m2[j] = NoSegment
    BY <1>1, <1>4 DEF Arr
<1>7. Sorted(m2, d - 2)
    <2>1. \A j \in 1..(d-2) : m2[j].size > 0
        BY <1>1, <1>2, <1>4 DEF Arr, Sorted
    <2>2. ASSUME NEW j \in 1..(d-2), NEW k \in 1..(d-2), j < k
          PROVE  m2[j].addr + m2[j].size < m2[k].addr
        <3>1. CASE k < i
            BY <1>1, <1>4, <2>2, <3>1 DEF Arr, Sorted
        <3>2. CASE j < i /\ k >= i
            BY <1>1, <1>4, <2>2, <3>2 DEF Arr, Sorted
        <3>3. CASE j >= i
            <4>1. m2[j] = m[j + 1] /\ m2[k] = m[k + 1]
                BY <1>1, <1>4, <2>2, <3>3
            <4>2. j + 1 \in 1..(d-1) /\ k + 1 \in 1..(d-1) /\ j + 1 < k + 1
                BY <1>1, <2>2
            <4> QED BY <4>1, <4>2 DEF Arr, Sorted
        <3> QED BY <1>1, <3>1, <3>2, <3>3
    <2> QED BY <2>1, <2>2 DEF Sorted
<1>8. Arr(m2, d - 1)
    <2>1. d - 1 \in Slot /\ d - 1 - 1 = d - 2
        BY <1>1 DEF Slot
    <2>2. \A j \in (d-1)..Slots : m2[j] = NoSegment
        BY <1>1, <1>6
    <2> QED BY <1>5, <1>7, <2>1, <2>2 DEF Arr
<1>9. ASSUME NEW u \in Nat
      PROVE  (\E j \in 1..(d-2) : Seg(m2, j, u)) <=>
                 /\ \E j \in 1..(d-1) : Seg(m, j, u)
                 /\ ~Seg(m, i, u)
    <2>1. ASSUME NEW j \in 1..(d-2), Seg(m2, j, u)
          PROVE  (\E k \in 1..(d-1) : Seg(m, k, u)) /\ ~Seg(m, i, u)
        <3>1. CASE j < i
            <4>1. Seg(m, j, u) /\ j \in 1..(d-1)
                BY <1>1, <1>4, <2>1, <3>1 DEF Seg
            <4> QED BY <1>1, <1>2, <3>1, <4>1 DEF Seg, Arr, Sorted
        <3>2. CASE j >= i
            <4>1. Seg(m, j + 1, u) /\ j + 1 \in 1..(d-1) /\ i < j + 1
                BY <1>1, <1>4, <2>1, <3>2 DEF Seg
            <4> QED BY <1>1, <1>2, <4>1 DEF Seg, Arr, Sorted
        <3> QED BY <1>1, <3>1, <3>2
    <2>2. ASSUME NEW j \in 1..(d-1), Seg(m, j, u), ~Seg(m, i, u)
          PROVE  \E k \in 1..(d-2) : Seg(m2, k, u)
        <3>1. CASE j < i
            <4>1. Seg(m2, j, u) /\ j \in 1..(d-2)
                BY <1>1, <1>4, <2>2, <3>1 DEF Seg
            <4> QED BY <4>1
        <3>2. CASE j > i
            <4>1. Seg(m2, j - 1, u) /\ j - 1 \in 1..(d-2)
                BY <1>1, <1>4, <2>2, <3>2 DEF Seg
            <4> QED BY <4>1
        <3> QED BY <1>1, <2>2, <3>1, <3>2
    <2> QED BY <2>1, <2>2
<1>10. \A j \in i..(d-2) : m2[j] = m[j + 1]
    BY <1>1, <1>4
<1> QED BY <1>4, <1>8, <1>9, <1>10

\* A segment grows at its end, and does not reach the next one.
LEMMA Grown ==
    ASSUME NEW m, NEW d, Arr(m, d), NEW i \in 1..(d-1), NEW t \in Nat,
           i < d - 1 => m[i].addr + m[i].size + t < m[i + 1].addr,
           NEW m2, m2 = [m EXCEPT ![i] = [addr |-> m[i].addr, size |-> m[i].size + t]]
    PROVE  Arr(m2, d) /\ Given(m, d, m2, d, m[i].addr + m[i].size, t)
<1>1. /\ d \in Nat /\ d >= 1 /\ d <= Slots /\ Slots \in Nat /\ 1..(d-1) \subseteq Slot
      /\ d..Slots \subseteq Slot
    BY SlotsAssumption DEF Arr, Slot
<1>2. \A j \in Slot : m[j].addr \in Nat /\ m[j].size \in Nat
    BY SlotFacts DEF Arr
<1>3. m2 \in [Slot -> SlotType]
    BY <1>1, <1>2 DEF Arr, SlotType
<1>4. /\ \A j \in Slot \ {i} : m2[j] = m[j]
      /\ m2[i].addr = m[i].addr /\ m2[i].size = m[i].size + t
    BY <1>1 DEF Arr
<1>5. \A j \in 1..(d-1) : i < j => m[i].addr + m[i].size + t < m[j].addr
    <2> SUFFICES ASSUME NEW j \in 1..(d-1), i < j
                 PROVE  m[i].addr + m[i].size + t < m[j].addr
        OBVIOUS
    <2>1. i + 1 \in 1..(d-1) /\ m[i].addr + m[i].size + t < m[i + 1].addr
        BY <1>1
    <2>2. CASE j = i + 1
        BY <2>1, <2>2
    <2>3. CASE i + 1 < j
        <3>1. m[i + 1].addr + m[i + 1].size < m[j].addr
            BY <2>1, <2>3 DEF Arr, Sorted
        <3>2. i + 1 \in Slot /\ j \in Slot
            BY <1>1, <2>1
        <3> QED BY <1>1, <1>2, <2>1, <3>1, <3>2
    <2> QED BY <1>1, <2>2, <2>3
<1>6. Sorted(m2, d - 1)
    <2>1. \A j \in 1..(d-1) : m2[j].size > 0
        BY <1>1, <1>2, <1>4 DEF Arr, Sorted
    <2>2. ASSUME NEW j \in 1..(d-1), NEW k \in 1..(d-1), j < k
          PROVE  m2[j].addr + m2[j].size < m2[k].addr
        <3>1. m[j].addr + m[j].size < m[k].addr /\ j \in Slot /\ k \in Slot
            BY <1>1, <2>2 DEF Arr, Sorted
        <3>2. CASE j = i
            BY <1>1, <1>2, <1>4, <1>5, <2>2, <3>1, <3>2
        <3>3. CASE j # i
            BY <1>1, <1>2, <1>4, <3>1, <3>3
        <3> QED BY <3>2, <3>3
    <2> QED BY <2>1, <2>2 DEF Sorted
<1>7. Arr(m2, d)
    BY <1>1, <1>3, <1>4, <1>6 DEF Arr
<1>8. ASSUME NEW u \in Nat
      PROVE  (\E j \in 1..(d-1) : Seg(m2, j, u)) <=>
                 \/ \E j \in 1..(d-1) : Seg(m, j, u)
                 \/ m[i].addr + m[i].size <= u /\ u < m[i].addr + m[i].size + t
    <2>1. \A j \in 1..(d-1) \ {i} : Seg(m2, j, u) <=> Seg(m, j, u)
        BY <1>1, <1>4 DEF Seg
    <2>2. Seg(m2, i, u) <=> \/ Seg(m, i, u)
                            \/ m[i].addr + m[i].size <= u /\ u < m[i].addr + m[i].size + t
        BY <1>1, <1>2, <1>4 DEF Seg
    <2> QED BY <2>1, <2>2
<1> QED BY <1>7, <1>8 DEF Given

\* A segment grows at its front, and does not reach the one before.
LEMMA GrownDown ==
    ASSUME NEW m, NEW d, Arr(m, d), NEW i \in 1..(d-1), NEW a \in Nat, NEW t \in Nat,
           a + t = m[i].addr, i > 1 => m[i - 1].addr + m[i - 1].size < a,
           NEW m2, m2 = [m EXCEPT ![i] = [addr |-> a, size |-> m[i].size + t]]
    PROVE  Arr(m2, d) /\ Given(m, d, m2, d, a, t)
<1>1. /\ d \in Nat /\ d >= 1 /\ d <= Slots /\ Slots \in Nat /\ 1..(d-1) \subseteq Slot
      /\ d..Slots \subseteq Slot
    BY SlotsAssumption DEF Arr, Slot
<1>2. \A j \in Slot : m[j].addr \in Nat /\ m[j].size \in Nat
    BY SlotFacts DEF Arr
<1>3. m2 \in [Slot -> SlotType]
    BY <1>1, <1>2 DEF Arr, SlotType
<1>4. /\ \A j \in Slot \ {i} : m2[j] = m[j]
      /\ m2[i].addr = a /\ m2[i].size = m[i].size + t
    BY <1>1 DEF Arr
<1>5. \A j \in 1..(d-1) : j < i => m[j].addr + m[j].size < a
    <2> SUFFICES ASSUME NEW j \in 1..(d-1), j < i
                 PROVE  m[j].addr + m[j].size < a
        OBVIOUS
    <2>1. i - 1 \in 1..(d-1) /\ m[i - 1].addr + m[i - 1].size < a
        BY <1>1
    <2>2. CASE j = i - 1
        BY <2>1, <2>2
    <2>3. CASE j < i - 1
        <3>1. m[j].addr + m[j].size < m[i - 1].addr
            BY <2>1, <2>3 DEF Arr, Sorted
        <3>2. i - 1 \in Slot /\ j \in Slot
            BY <1>1, <2>1
        <3> QED BY <1>1, <1>2, <2>1, <3>1, <3>2
    <2> QED BY <1>1, <2>2, <2>3
<1>6. Sorted(m2, d - 1)
    <2>1. \A j \in 1..(d-1) : m2[j].size > 0
        BY <1>1, <1>2, <1>4 DEF Arr, Sorted
    <2>2. ASSUME NEW j \in 1..(d-1), NEW k \in 1..(d-1), j < k
          PROVE  m2[j].addr + m2[j].size < m2[k].addr
        <3>1. m[j].addr + m[j].size < m[k].addr /\ j \in Slot /\ k \in Slot
            BY <1>1, <2>2 DEF Arr, Sorted
        <3>2. CASE k = i
            BY <1>1, <1>2, <1>4, <1>5, <2>2, <3>1, <3>2
        <3>3. CASE k # i
            BY <1>1, <1>2, <1>4, <3>1, <3>3
        <3> QED BY <3>2, <3>3
    <2> QED BY <2>1, <2>2 DEF Sorted
<1>7. Arr(m2, d)
    BY <1>1, <1>3, <1>4, <1>6 DEF Arr
<1>8. ASSUME NEW u \in Nat
      PROVE  (\E j \in 1..(d-1) : Seg(m2, j, u)) <=>
                 (\E j \in 1..(d-1) : Seg(m, j, u)) \/ (a <= u /\ u < a + t)
    <2>1. \A j \in 1..(d-1) \ {i} : Seg(m2, j, u) <=> Seg(m, j, u)
        BY <1>1, <1>4 DEF Seg
    <2>2. Seg(m2, i, u) <=> Seg(m, i, u) \/ (a <= u /\ u < a + t)
        BY <1>1, <1>2, <1>4 DEF Seg
    <2> QED BY <2>1, <2>2
<1> QED BY <1>7, <1>8 DEF Given

\* A segment of its own is entered between the others.
LEMMA Opened ==
    ASSUME NEW d, Arr(map, d), NEW k \in 1..d, NEW a \in Nat, NEW s \in Nat, s > 0,
           \A j \in 1..(k-1) : map[j].addr + map[j].size < a,
           \A j \in k..(d-1) : a + s < map[j].addr,
           NEW o, o = OpenGap(k, a, s)
    PROVE  /\ o \in [Slot -> SlotType] /\ Sorted(o, d)
           /\ d < Slots => Arr(o, d + 1)
           /\ Given(map, d, o, d + 1, a, s)
<1>1. /\ d \in Nat /\ d >= 1 /\ d <= Slots /\ Slots \in Nat /\ 1..(d-1) \subseteq Slot
      /\ d..Slots \subseteq Slot /\ k \in Slot
    BY SlotsAssumption DEF Arr, Slot
<1>2. \A j \in Slot : map[j].addr \in Nat /\ map[j].size \in Nat
    BY SlotFacts DEF Arr
<1>3. o = [j \in Slot |-> IF j < k \/ j > d THEN map[j]
                          ELSE IF j = k THEN [addr |-> a, size |-> s] ELSE map[j - 1]]
    BY ArrDelimiter DEF OpenGap
<1>4. /\ \A j \in 1..(k-1) : o[j] = map[j] /\ j \in 1..(d-1)
      /\ o[k].addr = a /\ o[k].size = s
      /\ \A j \in (k+1)..d : o[j] = map[j - 1] /\ j - 1 \in k..(d-1)
      /\ \A j \in (d+1)..Slots : o[j] = map[j]
    BY <1>1, <1>3 DEF Slot
<1>5. o \in [Slot -> SlotType]
    <2>1. ASSUME NEW j \in Slot PROVE o[j] \in SlotType
        <3>1. CASE j < k \/ j > d
            BY <1>3, <3>1 DEF Arr
        <3>2. CASE j = k
            BY <1>1, <1>3, <3>2 DEF SlotType
        <3>3. CASE j > k /\ j <= d
            <4>1. j - 1 \in Slot /\ o[j] = map[j - 1]
                BY <1>1, <1>3, <3>3 DEF Slot
            <4> QED BY <4>1 DEF Arr
        <3> QED BY <1>1, <3>1, <3>2, <3>3 DEF Slot
    <2> QED BY <1>3, <2>1
<1>6. \A j \in 1..(d-1) : map[j].size > 0
    BY DEF Arr, Sorted
<1>7. Sorted(o, d)
    <2>1. ASSUME NEW j \in 1..d PROVE o[j].size > 0
        BY <1>1, <1>4, <1>6
    <2>2. ASSUME NEW i \in 1..d, NEW j \in 1..d, i < j
          PROVE  o[i].addr + o[i].size < o[j].addr
        <3>1. CASE j < k
            <4>1. o[i] = map[i] /\ o[j] = map[j] /\ i \in 1..(d-1) /\ j \in 1..(d-1)
                BY <1>1, <1>4, <2>2, <3>1
            <4> QED BY <2>2, <4>1 DEF Arr, Sorted
        <3>2. CASE j = k
            BY <1>1, <1>4, <2>2, <3>2
        <3>3. CASE i = k
            BY <1>1, <1>4, <2>2, <3>3
        <3>4. CASE i < k /\ j > k
            <4>1. o[i] = map[i] /\ o[j] = map[j - 1] /\ i \in 1..(d-1) /\ j - 1 \in 1..(d-1) /\ i < j - 1
                BY <1>1, <1>4, <2>2, <3>4
            <4> QED BY <4>1 DEF Arr, Sorted
        <3>5. CASE i > k
            <4>1. o[i] = map[i - 1] /\ o[j] = map[j - 1] /\ i - 1 \in 1..(d-1) /\ j - 1 \in 1..(d-1) /\ i - 1 < j - 1
                BY <1>1, <1>4, <2>2, <3>5
            <4> QED BY <4>1 DEF Arr, Sorted
        <3> QED BY <1>1, <3>1, <3>2, <3>3, <3>4, <3>5
    <2> QED BY <2>1, <2>2 DEF Sorted
<1>8. ASSUME d < Slots PROVE Arr(o, d + 1)
    <2>1. d + 1 \in Slot /\ (d + 1) - 1 = d
        BY <1>1, <1>8 DEF Slot
    <2>2. \A j \in (d+1)..Slots : o[j] = NoSegment
        BY <1>1, <1>4 DEF Arr
    <2>3. Sorted(o, (d + 1) - 1)
        BY <1>7, <2>1
    <2> QED BY <1>5, <2>1, <2>2, <2>3 DEF Arr
<1>9. ASSUME NEW u \in Nat
      PROVE  (\E j \in 1..d : Seg(o, j, u)) <=>
                 (\E j \in 1..(d-1) : Seg(map, j, u)) \/ (a <= u /\ u < a + s)
    <2>1. Seg(o, k, u) <=> (a <= u /\ u < a + s)
        BY <1>4 DEF Seg
    <2>2. ASSUME NEW j \in 1..d, j # k, Seg(o, j, u)
          PROVE  \E i \in 1..(d-1) : Seg(map, i, u)
        <3>1. CASE j < k
            <4>1. j \in 1..(d-1) /\ Seg(map, j, u)
                BY <1>1, <1>4, <2>2, <3>1 DEF Seg
            <4> QED BY <4>1
        <3>2. CASE j > k
            <4>1. j - 1 \in 1..(d-1) /\ Seg(map, j - 1, u)
                BY <1>1, <1>4, <2>2, <3>2 DEF Seg
            <4> QED BY <4>1
        <3> QED BY <1>1, <2>2, <3>1, <3>2
    <2>3. ASSUME NEW j \in 1..(d-1), Seg(map, j, u)
          PROVE  \E i \in 1..d : Seg(o, i, u)
        <3>1. CASE j < k
            <4>1. j \in 1..d /\ Seg(o, j, u)
                BY <1>1, <1>4, <2>3, <3>1 DEF Seg
            <4> QED BY <4>1
        <3>2. CASE j >= k
            <4>1. j + 1 \in 1..d /\ o[j + 1] = map[j]
                BY <1>1, <1>4, <2>3, <3>2
            <4>2. Seg(o, j + 1, u)
                BY <2>3, <4>1 DEF Seg
            <4> QED BY <4>1, <4>2
        <3> QED BY <1>1, <3>1, <3>2
    <2> QED BY <1>1, <2>1, <2>2, <2>3
<1>10. (d + 1) - 1 = d
    BY <1>1
<1>11. Given(map, d, o, d + 1, a, s)
    BY <1>9, <1>10 DEF Given
<1> QED BY <1>5, <1>7, <1>8, <1>11

\* "rmap ovflo": the second to last of the segments is dropped.
LEMMA Overflowed ==
    ASSUME NEW o \in [Slot -> SlotType], Sorted(o, Slots), NEW v, v = Overflow(o)
    PROVE  /\ Arr(v, Slots)
           /\ \A u \in Nat : (\E j \in 1..(Slots-1) : Seg(v, j, u)) <=>
                 (\E j \in 1..Slots : Seg(o, j, u)) /\ ~Seg(o, Slots - 1, u)
<1>1. /\ Slots \in Nat /\ Slots >= 2 /\ Slots \in Slot /\ Slots - 1 \in Slot
      /\ Slots - 1 # Slots
    BY SlotsAssumption DEF Slot
<1>2. \A j \in Slot : o[j].addr \in Nat /\ o[j].size \in Nat
    BY SlotFacts
<1>3. /\ v[Slots - 1] = o[Slots] /\ v[Slots] = NoSegment
      /\ \A j \in 1..(Slots-2) : v[j] = o[j]
    BY <1>1 DEF Overflow, Slot
<1>4. v \in [Slot -> SlotType]
    BY <1>1 DEF Overflow, NoSegment, SlotType
<1>5. Sorted(v, Slots - 1)
    <2>1. ASSUME NEW j \in 1..(Slots-1) PROVE v[j].size > 0
        BY <1>1, <1>3 DEF Sorted
    <2>2. ASSUME NEW i \in 1..(Slots-1), NEW j \in 1..(Slots-1), i < j
          PROVE  v[i].addr + v[i].size < v[j].addr
        <3>1. i \in 1..(Slots-2) /\ v[i] = o[i]
            BY <1>1, <1>3, <2>2
        <3>2. PICK k \in 1..Slots : i < k /\ v[j] = o[k]
            BY <1>1, <1>3, <2>2
        <3> QED BY <1>1, <3>1, <3>2 DEF Sorted
    <2> QED BY <2>1, <2>2 DEF Sorted
<1>6. Arr(v, Slots)
    BY <1>1, <1>3, <1>4, <1>5 DEF Arr
<1>7. ASSUME NEW u \in Nat
      PROVE  (\E j \in 1..(Slots-1) : Seg(v, j, u)) <=>
                 (\E j \in 1..Slots : Seg(o, j, u)) /\ ~Seg(o, Slots - 1, u)
    <2>1. ASSUME NEW j \in 1..(Slots-1), Seg(v, j, u)
          PROVE  (\E i \in 1..Slots : Seg(o, i, u)) /\ ~Seg(o, Slots - 1, u)
        <3>1. CASE j = Slots - 1
            <4>1. Seg(o, Slots, u)
                BY <1>3, <2>1, <3>1 DEF Seg
            <4>2. o[Slots - 1].addr + o[Slots - 1].size < o[Slots].addr
                BY <1>1 DEF Sorted, Slot
            <4> QED BY <1>1, <1>2, <4>1, <4>2 DEF Seg
        <3>2. CASE j < Slots - 1
            <4>1. Seg(o, j, u) /\ j \in 1..Slots
                BY <1>1, <1>3, <2>1, <3>2 DEF Seg
            <4>2. o[j].addr + o[j].size < o[Slots - 1].addr
                BY <1>1, <3>2 DEF Sorted
            <4> QED BY <1>1, <1>2, <4>1, <4>2 DEF Seg, Slot
        <3> QED BY <1>1, <3>1, <3>2
    <2>2. ASSUME NEW j \in 1..Slots, Seg(o, j, u), ~Seg(o, Slots - 1, u)
          PROVE  \E i \in 1..(Slots-1) : Seg(v, i, u)
        <3>1. CASE j = Slots
            <4>1. Seg(v, Slots - 1, u)
                BY <1>3, <2>2, <3>1 DEF Seg
            <4> QED BY <1>1, <4>1
        <3>2. CASE j < Slots - 1
            <4>1. Seg(v, j, u) /\ j \in 1..(Slots-1)
                BY <1>1, <1>3, <2>2, <3>2 DEF Seg
            <4> QED BY <4>1
        <3> QED BY <1>1, <2>2, <3>1, <3>2
    <2> QED BY <2>1, <2>2
<1> QED BY <1>6, <1>7

-----------------------------------------------------------------------------
\* The scan of rmfree() stops where the returned space belongs.
LEMMA AfterIs ==
    ASSUME NEW d, Arr(map, d), NEW a \in Nat
    PROVE  /\ After(a) \in 1..d
           /\ After(a) < d => map[After(a)].addr > a
           /\ \A j \in 1..(After(a) - 1) : map[j].addr <= a /\ j \in 1..(d-1)
<1> DEFINE Stop(i) == map[i].size = 0 \/ map[i].addr > a
           T == {i \in Slot : Stop(i)}
<1>1. /\ d \in Nat /\ d >= 1 /\ d <= Slots /\ Slots \in Nat /\ d \in Slot
    BY SlotsAssumption DEF Arr, Slot
<1>2. \A j \in Slot : map[j].addr \in Nat /\ map[j].size \in Nat
    BY SlotFacts DEF Arr
<1>3. d \in T
    BY <1>1 DEF Arr, NoSegment
<1>4. T \in SUBSET Nat
    BY DEF Slot
<1>5. PICK k \in T : \A j \in T : k <= j
    BY <1>3, <1>4, Smallest
<1>6. \A j \in 1..(k-1) : ~Stop(j) /\ j \in Slot
    BY <1>1, <1>5 DEF Slot
<1>7. /\ map[k].size = 0 \/ map[k].addr > a
      /\ \A j \in 1..(k-1) : map[j].size # 0 /\ map[j].addr <= a
    BY <1>2, <1>5, <1>6
<1>8. ASSUME NEW i \in Slot, map[i].size = 0 \/ map[i].addr > a,
             \A j \in 1..(i-1) : map[j].size # 0 /\ map[j].addr <= a
      PROVE  i = k
    <2>1. k \in Slot /\ ~(i < k) /\ i \in Nat /\ k \in Nat
        BY <1>6, <1>8 DEF Slot
    <2>2. CASE k < i
        <3>1. map[k].size # 0 /\ map[k].addr <= a
            BY <1>8, <2>1, <2>2 DEF Slot
        <3> QED BY <1>2, <1>7, <2>1, <3>1
    <2> QED BY <2>1, <2>2
<1>9. After(a) = k
    BY <1>5, <1>7, <1>8 DEF After
<1>10. k \in Nat /\ k >= 1 /\ k <= d
    BY <1>3, <1>5 DEF Slot
<1>11. k < d => map[k].addr > a
    <2> SUFFICES ASSUME k < d PROVE map[k].addr > a
        OBVIOUS
    <2>1. map[k].size > 0 /\ k \in Slot
        BY <1>1, <1>10 DEF Arr, Sorted, Slot
    <2> QED BY <1>2, <1>7, <2>1
<1> HIDE DEF T
<1> QED BY <1>1, <1>7, <1>9, <1>10, <1>11

-----------------------------------------------------------------------------
(***************************************************************************)
(* The inductive invariant.  MapTypeOK, Terminated and Coalesced are what Arr *)
(* says of the array; Partition needs the delimiter to be where Arr has it *)
(* before a step's effect on the free units can be computed at all.        *)
(***************************************************************************)
MapInv ==
    /\ used \subseteq Pool /\ lost \subseteq Pool
    /\ \E d \in Slot : Arr(map, d)
    /\ Partition

LEMMA PoolFacts == Pool \subseteq Nat \ {0} /\ Base \in Nat /\ Units \in Nat
BY UnitsAssumption DEF Pool

LEMMA MapInit == rminit => MapInv
<1> SUFFICES ASSUME rminit PROVE MapInv
    OBVIOUS
<1>1. Slots \in Nat /\ Slots >= 2 /\ 2 \in Slot /\ 1 \in Slot
    BY SlotsAssumption DEF Slot
<1>2. map[1].addr = Base /\ map[1].size = Units /\ \A i \in 2..Slots : map[i] = NoSegment
    BY <1>1 DEF rminit, Slot
<1>3. map \in [Slot -> SlotType]
    BY UnitsAssumption DEF rminit, NoSegment, SlotType
<1>4. Arr(map, 2)
    <2>1. Sorted(map, 2 - 1)
        BY <1>2, UnitsAssumption DEF Sorted
    <2> QED BY <1>1, <1>2, <1>3, <2>1 DEF Arr
<1>5. ASSUME NEW u PROVE u \in FreeUnits(map) <=> u \in Pool
    <2>1. u \in FreeUnits(map) <=> u \in Nat /\ \E i \in 1..(2-1) : Seg(map, i, u)
        BY <1>4, FreeIs
    <2>2. (\E i \in 1..(2-1) : Seg(map, i, u)) <=> Seg(map, 1, u)
        OBVIOUS
    <2> QED BY <1>2, <2>1, <2>2, UnitsAssumption DEF Seg, Pool
<1>6. FreeUnits(map) = Pool /\ used = {} /\ lost = {}
    BY <1>5 DEF rminit
<1> QED BY <1>1, <1>4, <1>6 DEF MapInv, Partition

LEMMA RmallocKeeps ==
    ASSUME MapInv, NEW size \in 1..Units, RmallocOk(size)
    PROVE  MapInv'
<1>1. PICK d \in Slot : Arr(map, d)
    BY DEF MapInv
<1>2. size \in Nat /\ size > 0
    BY PoolFacts
<1>3. PICK i \in Fits(size) :
        /\ used' = used \cup Extent(map[i].addr, size)
        /\ LET m == [map EXCEPT ![i] = [addr |-> @.addr + size, size |-> @.size - size]]
           IN  map' = IF m[i].size = 0 THEN CloseGap(map, i) ELSE m
        /\ UNCHANGED lost
    BY DEF RmallocOk
<1>4. i \in 1..(d-1) /\ i \in Slot /\ map[i].size >= size
    BY <1>1, <1>3, ArrDelimiter, SlotsAssumption DEF Fits, Segments, Slot
<1>5. map[i].addr \in Nat /\ map[i].size \in Nat /\ map \in [Slot -> SlotType]
    BY <1>1, <1>4, SlotFacts DEF Arr
<1> DEFINE m == [map EXCEPT ![i] = [addr |-> map[i].addr + size, size |-> map[i].size - size]]
<1>6. map' = (IF m[i].size = 0 THEN CloseGap(map, i) ELSE m) /\ m[i].size = map[i].size - size
    BY <1>3, <1>4, <1>5
<1>7. \E e \in Slot : Arr(map', e) /\ Taken(map, d, map', e, map[i].addr, size)
    <2>1. CASE map[i].size = size
        <3>1. map' = CloseGap(map, i)
            BY <1>5, <1>6, <2>1
        <3>2. Arr(map', d - 1)
            BY <1>1, <1>4, <3>1, Closed
        <3>3. \A u \in Nat : (\E j \in 1..(d-2) : Seg(map', j, u)) <=>
                 (\E j \in 1..(d-1) : Seg(map, j, u)) /\ ~Seg(map, i, u)
            BY <1>1, <1>4, <3>1, Closed
        <3>4. d - 1 \in Slot /\ (d - 1) - 1 = d - 2
            BY <3>2, SlotsAssumption DEF Arr, Slot
        <3> QED BY <2>1, <3>2, <3>3, <3>4 DEF Seg, Taken
    <2>2. CASE map[i].size # size
        <3>1. size < map[i].size /\ map' = [map EXCEPT ![i] =
                                    [addr |-> map[i].addr + size, size |-> map[i].size - size]]
            BY <1>2, <1>4, <1>5, <1>6, <2>2
        <3> HIDE DEF m
        <3>2. Arr(map', d) /\ Taken(map, d, map', d, map[i].addr, size)
            BY <1>1, <1>2, <1>4, <3>1, Shrunk
        <3> QED BY <3>2
    <2> QED BY <2>1, <2>2
<1>8. PICK e \in Slot : Arr(map', e) /\ Taken(map, d, map', e, map[i].addr, size)
    BY <1>7
<1> HIDE DEF m
<1>9. \A u : u \in Extent(map[i].addr, size) <=> u \in Nat /\ map[i].addr <= u /\ u < map[i].addr + size
    BY <1>2, <1>5 DEF Extent
<1>10. ASSUME NEW u
       PROVE  u \in FreeUnits(map') <=> u \in FreeUnits(map) /\ u \notin Extent(map[i].addr, size)
    BY <1>1, <1>8, <1>9, FreeIs DEF Taken
<1>11. Extent(map[i].addr, size) \subseteq FreeUnits(map)
    <2> SUFFICES ASSUME NEW u \in Extent(map[i].addr, size) PROVE u \in FreeUnits(map)
        OBVIOUS
    <2>1. u \in Nat /\ Seg(map, i, u)
        BY <1>2, <1>4, <1>5, <1>9 DEF Seg
    <2> QED BY <1>1, <1>4, <2>1, FreeIs
<1>12. FreeUnits(map)' = FreeUnits(map')
    BY DEF FreeUnits, Segments, Delimiter
<1>13. Partition' /\ used' \subseteq Pool /\ lost' \subseteq Pool
    BY <1>3, <1>10, <1>11, <1>12 DEF MapInv, Partition
<1>14. (\E k \in Slot : Arr(map, k))'
    BY <1>8 DEF Arr, Sorted
<1> QED BY <1>13, <1>14 DEF MapInv

\* What a client may free, and where it belongs in the array.
LEMMA HeldFacts ==
    ASSUME MapInv, NEW h \in Held, NEW d \in Slot, Arr(map, d)
    PROVE  /\ h[1] \in Nat \ {0} /\ h[2] \in Nat \ {0} /\ Extent(h[1], h[2]) \subseteq used
           /\ After(h[1]) \in 1..d
           /\ \A j \in 1..(After(h[1]) - 1) : End(j) <= h[1] /\ j \in 1..(d-1)
           /\ \A j \in After(h[1])..(d-1) : h[1] + h[2] <= map[j].addr
<1> DEFINE a == h[1]
           s == h[2]
           k == After(a)
<1>1. a \in Nat \ {0} /\ s \in Nat \ {0} /\ Extent(a, s) \subseteq used
    <2>1. a \in used /\ s \in 1..Units /\ Extent(a, s) \subseteq used
        BY DEF Held
    <2>2. a \in Pool
        BY <2>1 DEF MapInv
    <2> HIDE DEF a, s
    <2> QED BY <2>1, <2>2, PoolFacts
<1>2. /\ k \in 1..d /\ (k < d => map[k].addr > a)
      /\ \A j \in 1..(k - 1) : map[j].addr <= a /\ j \in 1..(d-1)
    BY <1>1, AfterIs
<1>3. d \in Nat /\ d <= Slots /\ Slots \in Nat /\ 1..(d-1) \subseteq Slot
    BY SlotsAssumption DEF Slot
<1>4. \A j \in Slot : map[j].addr \in Nat /\ map[j].size \in Nat
    BY SlotFacts DEF Arr
<1>5. \A u \in Extent(a, s) : ~\E j \in 1..(d-1) : Seg(map, j, u)
    BY <1>1, FreeIs, PoolFacts DEF MapInv, Partition
<1>6. \A u \in Nat : a <= u /\ u < a + s => u \in Extent(a, s)
    BY <1>1 DEF Extent
<1> HIDE DEF a, s, k
<1>7. ASSUME NEW j \in 1..(k-1) PROVE End(j) <= a /\ j \in 1..(d-1)
    <2>1. j \in 1..(d-1) /\ map[j].addr <= a /\ j \in Slot
        BY <1>2, <1>3
    <2>2. a \in Extent(a, s)
        BY <1>1, <1>6
    <2>3. ~Seg(map, j, a)
        BY <1>5, <2>1, <2>2
    <2> QED BY <1>1, <1>4, <2>1, <2>3 DEF Seg, End
<1>8. ASSUME NEW j \in k..(d-1) PROVE a + s <= map[j].addr
    <2>1. j \in 1..(d-1) /\ j \in Slot /\ k \in 1..(d-1) /\ k \in Slot /\ map[k].addr > a
        BY <1>2, <1>3
    <2>2. map[k].size > 0 /\ (k < j => map[k].addr + map[k].size < map[j].addr)
        BY <2>1 DEF Arr, Sorted
    <2>3. map[k].addr <= map[j].addr
        BY <1>2, <1>3, <1>4, <2>1, <2>2
    <2>4. Seg(map, k, map[k].addr)
        BY <1>4, <2>1, <2>2 DEF Seg
    <2>5. map[k].addr \notin Extent(a, s)
        BY <1>5, <2>1, <2>4
    <2>6. a + s <= map[k].addr
        BY <1>1, <1>4, <1>6, <2>1, <2>5
    <2> QED BY <1>1, <1>4, <2>1, <2>3, <2>6
<1> QED BY <1>1, <1>2, <1>7, <1>8 DEF a, s, k

\* A client that frees what it holds does not meet panic("bad rmfree").
LEMMA HeldNeverBad ==
    ASSUME MapInv PROVE NeverBad
<1> SUFFICES ASSUME NEW h \in Held PROVE ~BadRmfree(h[2], h[1])
    BY DEF NeverBad
<1>1. PICK d \in Slot : Arr(map, d)
    BY DEF MapInv
<1> DEFINE a == h[1]
           s == h[2]
           k == After(a)
<1>2. /\ a \in Nat \ {0} /\ s \in Nat \ {0}
      /\ k \in 1..d
      /\ \A j \in 1..(k - 1) : End(j) <= a /\ j \in 1..(d-1)
      /\ \A j \in k..(d-1) : a + s <= map[j].addr
    BY <1>1, HeldFacts
<1>3. d \in Nat /\ \A j \in Slot : map[j].addr \in Nat /\ map[j].size \in Nat
    <2>1. d \in Nat
        BY SlotsAssumption DEF Slot
    <2>2. map \in [Slot -> SlotType]
        BY <1>1 DEF Arr
    <2> QED BY <2>1, <2>2, SlotFacts
<1>4. 1..(d-1) \subseteq Slot /\ map[d].size = 0
    BY <1>1, SlotsAssumption DEF Arr, Slot, NoSegment
<1> HIDE DEF a, s, k
<1>5. ~(AbutsLeft(k, a) /\ End(k - 1) > a)
    <2> SUFFICES ASSUME k > 1 PROVE ~(End(k - 1) > a)
        BY DEF AbutsLeft
    <2>1. k - 1 \in 1..(k - 1) /\ k - 1 \in Slot
        BY <1>2, <1>3, <1>4
    <2>2. End(k - 1) <= a
        BY <1>2, <2>1
    <2> QED BY <1>2, <1>3, <2>1, <2>2 DEF End
<1>6. ~(AbutsRight(k, a, s) /\ a + s > map[k].addr)
    <2>1. CASE k = d
        BY <1>4, <2>1 DEF AbutsRight
    <2>2. CASE k < d
        <3>1. a + s <= map[k].addr /\ k \in Slot
            BY <1>2, <1>3, <1>4, <2>2
        <3> QED BY <1>2, <1>3, <3>1
    <2> QED BY <1>2, <1>3, <2>1, <2>2
<1>6b. ~(AbutsBoth(k, a, s) /\ a + s > map[k].addr)
    <2>1. CASE k = d
        BY <1>1, <1>3, <1>4, <2>1 DEF AbutsBoth, Arr, Slot, NoSegment
    <2>2. CASE k < d
        <3>1. a + s <= map[k].addr /\ k \in Slot
            BY <1>2, <1>3, <1>4, <2>2
        <3> QED BY <1>2, <1>3, <3>1
    <2> QED BY <1>2, <1>3, <2>1, <2>2
<1>7. ~(a <= 0 \/ s <= 0)
    BY <1>2
<1> QED BY <1>5, <1>6, <1>6b, <1>7 DEF BadRmfree, a, s, k

-----------------------------------------------------------------------------
\* Units that join the free segments leave the client's, and nothing else moves.
LEMMA FreedKeeps ==
    ASSUME MapInv, NEW d, Arr(map, d), NEW a \in Nat, NEW s \in Nat,
           Extent(a, s) \subseteq used,
           NEW e \in Slot, Arr(map', e), Given(map, d, map', e, a, s),
           used' = used \ Extent(a, s), lost' = lost
    PROVE  MapInv'
<1>1. \A u : u \in Extent(a, s) <=> u \in Nat /\ a <= u /\ u < a + s
    BY DEF Extent
<1>2. ASSUME NEW u
      PROVE  u \in FreeUnits(map') <=> u \in FreeUnits(map) \/ u \in Extent(a, s)
    BY <1>1, FreeIs DEF Given
<1>3. FreeUnits(map)' = FreeUnits(map')
    BY DEF FreeUnits, Segments, Delimiter
<1>4. Partition' /\ used' \subseteq Pool /\ lost' \subseteq Pool
    BY <1>2, <1>3 DEF MapInv, Partition
<1>5. (\E k \in Slot : Arr(map, k))'
    BY DEF Arr, Sorted
<1> QED BY <1>4, <1>5 DEF MapInv

\* What rmfree() knows of the slot k it stopped at.
Stopped(d, k, a, s) ==
    /\ d \in Slot /\ Arr(map, d) /\ k \in 1..d
    /\ a \in Nat \ {0} /\ s \in Nat \ {0} /\ Extent(a, s) \subseteq used
    /\ \A j \in 1..(k - 1) : End(j) <= a /\ j \in 1..(d-1)
    /\ \A j \in k..(d-1) : a + s <= map[j].addr

LEMMA StoppedFacts ==
    ASSUME NEW d, NEW k, NEW a, NEW s, Stopped(d, k, a, s)
    PROVE  /\ d \in Nat /\ k \in Nat /\ 1 <= k /\ k <= d /\ d <= Slots /\ Slots \in Nat
           /\ 1..d \subseteq Slot /\ a \in Nat /\ s \in Nat /\ s > 0
           /\ \A j \in Slot : map[j].addr \in Nat /\ map[j].size \in Nat
           /\ map \in [Slot -> SlotType] /\ Arr(map, d) /\ map[d].size = 0
<1>1. d \in Nat /\ d >= 1 /\ d <= Slots /\ Slots \in Nat /\ 1..d \subseteq Slot
    BY SlotsAssumption DEF Stopped, Slot
<1>2. map \in [Slot -> SlotType] /\ Arr(map, d)
    BY DEF Stopped, Arr
<1>3. \A j \in Slot : map[j].addr \in Nat /\ map[j].size \in Nat
    BY <1>2, SlotFacts
<1>4. map[d].size = 0
    BY <1>1 DEF Stopped, Arr, NoSegment
<1>5. k \in Nat /\ 1 <= k /\ k <= d /\ a \in Nat /\ s \in Nat /\ s > 0
    BY <1>1 DEF Stopped
<1> QED BY <1>1, <1>2, <1>3, <1>4, <1>5

LEMMA JoinRightKeeps ==
    ASSUME MapInv, NEW d, NEW k, NEW a, NEW s, Stopped(d, k, a, s),
           ~AbutsLeft(k, a), AbutsRight(k, a, s), JoinRight(k, a, s)
    PROVE  MapInv'
<1>1. /\ d \in Nat /\ k \in Nat /\ 1 <= k /\ k <= d /\ d <= Slots /\ Slots \in Nat
      /\ 1..d \subseteq Slot /\ a \in Nat /\ s \in Nat /\ s > 0
      /\ \A j \in Slot : map[j].addr \in Nat /\ map[j].size \in Nat
      /\ map \in [Slot -> SlotType] /\ Arr(map, d) /\ map[d].size = 0
    BY StoppedFacts
<1>2. k \in 1..(d-1) /\ k \in Slot
    BY <1>1 DEF AbutsRight
<1>3. a + s = map[k].addr
    <2>1. a + s <= map[k].addr
        BY <1>1, <1>2 DEF Stopped
    <2>2. a + s >= map[k].addr
        BY DEF AbutsRight
    <2> QED BY <1>1, <1>2, <2>1, <2>2
<1>4. k > 1 => map[k - 1].addr + map[k - 1].size < a
    <2> SUFFICES ASSUME k > 1 PROVE map[k - 1].addr + map[k - 1].size < a
        OBVIOUS
    <2>1. k - 1 \in Slot
        BY <1>1
    <2> QED BY <1>1, <2>1 DEF AbutsLeft, End
<1>5. map' = [map EXCEPT ![k] = [addr |-> a, size |-> map[k].size + s]]
    <2>1. map[k].addr - s = a
        BY <1>1, <1>2, <1>3
    <2> QED BY <1>2, <2>1 DEF JoinRight
<1>6. Arr(map', d) /\ Given(map, d, map', d, a, s)
    BY <1>1, <1>2, <1>3, <1>4, <1>5, GrownDown
<1>7. used' = used \ Extent(a, s) /\ lost' = lost
    BY DEF JoinRight
<1> QED BY <1>1, <1>6, <1>7, FreedKeeps DEF Stopped

LEMMA SizeOnly ==
    ASSUME NEW m \in [Slot -> SlotType], NEW i \in Slot, NEW x,
           NEW m2, m2 = [m EXCEPT ![i].size = m[i].size + x]
    PROVE  m2 = [m EXCEPT ![i] = [addr |-> m[i].addr, size |-> m[i].size + x]]
<1>1. m[i] = [addr |-> m[i].addr, size |-> m[i].size]
    BY SlotFacts
<1>2. [m[i] EXCEPT !.size = m[i].size + x] = [addr |-> m[i].addr, size |-> m[i].size + x]
    BY <1>1
<1> QED BY <1>2

LEMMA JoinLeftKeeps ==
    ASSUME MapInv, NEW d, NEW k, NEW a, NEW s, Stopped(d, k, a, s),
           AbutsLeft(k, a), JoinLeft(k, a, s)
    PROVE  MapInv'
<1>1. /\ d \in Nat /\ k \in Nat /\ 1 <= k /\ k <= d /\ d <= Slots /\ Slots \in Nat
      /\ 1..d \subseteq Slot /\ a \in Nat /\ s \in Nat /\ s > 0
      /\ \A j \in Slot : map[j].addr \in Nat /\ map[j].size \in Nat
      /\ map \in [Slot -> SlotType] /\ Arr(map, d) /\ map[d].size = 0
    BY StoppedFacts
<1>2. k > 1 /\ k - 1 \in 1..(d-1) /\ k - 1 \in Slot /\ k - 1 \in Nat
    BY <1>1 DEF AbutsLeft
<1>3. map[k - 1].addr + map[k - 1].size = a
    <2>1. End(k - 1) <= a
        BY <1>1, <1>2 DEF Stopped
    <2> QED BY <1>1, <1>2, <2>1 DEF AbutsLeft, End
<1>4a. map \in [Slot -> SlotType] /\ k - 1 \in Slot
    BY <1>1, <1>2
<1>4b. AbutsBoth(k, a, s) <=> AbutsRight(k, a, s)
    <2>1. CASE k = d
        BY <1>1, <2>1 DEF AbutsBoth, AbutsRight, Stopped, Arr, NoSegment
    <2>2. CASE k < d
        <3>1. k \in 1..(d-1) /\ k \in Slot /\ k \in k..(d-1)
            BY <1>1, <2>2
        <3>2. a + s <= map[k].addr /\ map[k].size > 0
            BY <1>1, <3>1 DEF Stopped, Arr, Sorted
        <3> QED BY <1>1, <3>1, <3>2 DEF AbutsBoth, AbutsRight
    <2> QED BY <1>1, <2>1, <2>2
<1>4. used' = used \ Extent(a, s) /\ lost' = lost
    BY DEF JoinLeft
<1>5. CASE ~AbutsRight(k, a, s)
    <2>1. map' = [map EXCEPT ![k-1] = [addr |-> map[k-1].addr, size |-> map[k-1].size + s]]
        <3>1. map' = [map EXCEPT ![k-1].size = map[k-1].size + s]
            BY <1>4b, <1>5 DEF JoinLeft
        <3> QED BY <1>4a, <3>1, SizeOnly
    <2>2. k - 1 < d - 1 => map[k-1].addr + map[k-1].size + s < map[(k-1) + 1].addr
        <3> SUFFICES ASSUME k < d PROVE map[k-1].addr + map[k-1].size + s < map[k].addr
            BY <1>1
        <3>1. k \in 1..(d-1) /\ k \in Slot
            BY <1>1
        <3>2. map[k].size > 0
            BY <1>1, <3>1 DEF Arr, Sorted
        <3> QED BY <1>1, <1>3, <1>5, <3>1, <3>2 DEF AbutsRight
    <2>3. Arr(map', d) /\ Given(map, d, map', d, map[k-1].addr + map[k-1].size, s)
        BY <1>1, <1>2, <2>1, <2>2, Grown
    <2> QED BY <1>1, <1>3, <1>4, <2>3, FreedKeeps DEF Stopped
<1>6. CASE AbutsRight(k, a, s)
    <2>1. k \in 1..(d-1) /\ k \in Slot /\ d - 1 \in Slot /\ d - 1 \in Nat
        BY <1>1, <1>6 DEF AbutsRight
    <2>2. a + s = map[k].addr
        <3>1. a + s <= map[k].addr
            BY <1>1, <2>1 DEF Stopped
        <3>2. a + s >= map[k].addr
            BY <1>6 DEF AbutsRight
        <3> QED BY <1>1, <2>1, <3>1, <3>2
    <2> DEFINE t == s + map[k].size
               g == [map EXCEPT ![k-1] = [addr |-> map[k-1].addr, size |-> map[k-1].size + t]]
    <2>3. map' = CloseGap(g, k)
        <3>1. PICK f : f = [map EXCEPT ![k-1].size = map[k-1].size + s]
            OBVIOUS
        <3>2. f = [map EXCEPT ![k-1] = [addr |-> map[k-1].addr, size |-> map[k-1].size + s]]
            BY <1>4a, <3>1, SizeOnly
        <3>3. f \in [Slot -> SlotType]
            BY <1>1, <1>2, <3>2 DEF SlotType
        <3>3a. PICK f2 : f2 = [f EXCEPT ![k-1].size = f[k-1].size + map[k].size]
            OBVIOUS
        <3>4. f2 = [f EXCEPT ![k-1] = [addr |-> f[k-1].addr, size |-> f[k-1].size + map[k].size]]
            BY <1>2, <3>3, <3>3a, SizeOnly
        <3>5. f[k-1].addr = map[k-1].addr /\ f[k-1].size = map[k-1].size + s
            BY <1>1, <1>2, <3>2
        <3>6. map[k-1].size + s + map[k].size = map[k-1].size + t
            BY <1>1, <1>2, <2>1
        <3>7. f2 = g
            BY <1>2, <3>2, <3>4, <3>5, <3>6
        <3> QED BY <1>4b, <1>6, <3>1, <3>3a, <3>7 DEF JoinLeft
    <2>4. PICK c : c = CloseGap(map, k)
        OBVIOUS
    <2>5. /\ Arr(c, d - 1)
          /\ \A j \in 1..(k-1) : c[j] = map[j]
          /\ \A j \in k..(d-2) : c[j] = map[j + 1]
          /\ \A u \in Nat : (\E j \in 1..(d-2) : Seg(c, j, u)) <=>
                 (\E j \in 1..(d-1) : Seg(map, j, u)) /\ ~Seg(map, k, u)
        <3>1. Arr(c, d - 1)
            BY <1>1, <2>1, <2>4, Closed
        <3>2. \A j \in 1..(k-1) : c[j] = map[j]
            BY <1>1, <2>1, <2>4, Closed
        <3>3. \A j \in k..(d-2) : c[j] = map[j + 1]
            BY <1>1, <2>1, <2>4, Closed
        <3>4. \A u \in Nat : (\E j \in 1..(d-2) : Seg(c, j, u)) <=>
                 (\E j \in 1..(d-1) : Seg(map, j, u)) /\ ~Seg(map, k, u)
            BY <1>1, <2>1, <2>4, Closed
        <3> QED BY <3>1, <3>2, <3>3, <3>4
    <2>6. /\ g[k-1] = [addr |-> map[k-1].addr, size |-> map[k-1].size + t]
          /\ \A j \in Slot \ {k-1} : g[j] = map[j]
        BY <1>1, <1>2
    <2>7. t \in Nat /\ t > 0 /\ map[k-1].size + t \in Nat /\ map[k-1].size + t > 0
        BY <1>1, <1>2, <2>1
    <2> HIDE DEF t, g
    <2>8. Delimiter(g) = d
        <3>1. d \in Slot /\ g[d].size = 0
            BY <1>1, <1>2, <2>1, <2>6
        <3>2. ASSUME NEW j \in 1..(d-1) PROVE g[j].size # 0
            <4>1. map[j].size > 0 /\ j \in Slot
                BY <1>1, <3>2 DEF Arr, Sorted
            <4>2. CASE j = k - 1
                BY <2>6, <2>7, <4>2
            <4>3. CASE j # k - 1
                BY <1>1, <2>6, <4>1, <4>3
            <4> QED BY <4>2, <4>3
        <3> QED BY <3>1, <3>2, DelimiterIs
    <2>9. map' = [c EXCEPT ![k-1] = [addr |-> c[k-1].addr, size |-> c[k-1].size + t]]
        <3>1. map' = [j \in Slot |-> IF j >= k /\ j < d THEN g[j + 1] ELSE g[j]]
            BY <2>3, <2>8 DEF CloseGap
        <3>2. c = [j \in Slot |-> IF j >= k /\ j < d THEN map[j + 1] ELSE map[j]]
            BY <1>1, <2>4, ArrDelimiter DEF CloseGap
        <3>3. c[k-1] = map[k-1]
            BY <1>1, <1>2, <2>5
        <3>4. ASSUME NEW j \in Slot, j # k - 1 PROVE map'[j] = c[j]
            <4>1. CASE j >= k /\ j < d
                <5>1. j + 1 \in Slot \ {k-1}
                    BY <1>1, <4>1 DEF Slot
                <5> QED BY <2>6, <3>1, <3>2, <4>1, <5>1
            <4>2. CASE ~(j >= k /\ j < d)
                BY <2>6, <3>1, <3>2, <3>4, <4>2
            <4> QED BY <4>1, <4>2
        <3>5. map'[k-1] = g[k-1]
            BY <1>1, <1>2, <3>1
        <3> QED BY <1>2, <2>6, <3>1, <3>2, <3>3, <3>4, <3>5
    <2>10. k - 1 < (d - 1) - 1 => c[k-1].addr + c[k-1].size + t < c[(k-1) + 1].addr
        <3> SUFFICES ASSUME k < d - 1 PROVE a + t < c[k].addr
            BY <1>1, <1>2, <1>3, <2>5
        <3>1. c[k] = map[k + 1] /\ k + 1 \in 1..(d-1) /\ k + 1 \in Slot
            BY <1>1, <2>1, <2>5
        <3>2. map[k].addr + map[k].size < map[k + 1].addr
            BY <1>1, <2>1, <3>1 DEF Arr, Sorted
        <3> QED BY <1>1, <2>1, <2>2, <3>1, <3>2 DEF t
    <2>11. Arr(map', d - 1) /\ Given(c, d - 1, map', d - 1, c[k-1].addr + c[k-1].size, t)
        <3>1. k - 1 \in 1..((d - 1) - 1)
            BY <1>1, <1>2, <2>1
        <3> QED BY <2>5, <2>7, <2>9, <2>10, <3>1, Grown
    <2>12. Given(map, d, map', d - 1, a, s)
        <3>1. c[k-1].addr + c[k-1].size = a
            BY <1>1, <1>2, <1>3, <2>5
        <3>2. ASSUME NEW u \in Nat
              PROVE  (\E j \in 1..((d-1)-1) : Seg(map', j, u)) <=>
                         (\E j \in 1..(d-1) : Seg(map, j, u)) \/ (a <= u /\ u < a + s)
            <4>1. (\E j \in 1..((d-1)-1) : Seg(map', j, u)) <=>
                      (\E j \in 1..((d-1)-1) : Seg(c, j, u)) \/ (a <= u /\ u < a + t)
                BY <2>11, <3>1 DEF Given
            <4>2. (d - 1) - 1 = d - 2
                BY <1>1
            <4>3. (\E j \in 1..((d-1)-1) : Seg(c, j, u)) <=>
                      (\E j \in 1..(d-1) : Seg(map, j, u)) /\ ~Seg(map, k, u)
                BY <2>5, <4>2
            <4>4. Seg(map, k, u) <=> a + s <= u /\ u < a + t
                BY <1>1, <2>1, <2>2 DEF Seg, t
            <4>5. a <= u /\ u < a + t <=> (a <= u /\ u < a + s) \/ Seg(map, k, u)
                BY <1>1, <2>1, <4>4 DEF t
            <4>6. Seg(map, k, u) => \E j \in 1..(d-1) : Seg(map, j, u)
                BY <2>1
            <4> QED BY <4>1, <4>3, <4>5, <4>6
        <3> QED BY <3>2 DEF Given
    <2> QED BY <1>1, <1>4, <2>1, <2>11, <2>12, FreedKeeps DEF Stopped
<1> QED BY <1>5, <1>6

\* The array when a gap has been opened, before the overflow is looked at.
LEMMA NewEntryArray ==
    ASSUME NEW d, NEW k, NEW a, NEW s, Stopped(d, k, a, s),
           ~AbutsLeft(k, a), ~AbutsRight(k, a, s), NEW o, o = OpenGap(k, a, s)
    PROVE  /\ o \in [Slot -> SlotType] /\ Sorted(o, d)
           /\ d < Slots => Arr(o, d + 1)
           /\ Given(map, d, o, d + 1, a, s)
<1>1. /\ d \in Nat /\ k \in Nat /\ 1 <= k /\ k <= d /\ d <= Slots /\ Slots \in Nat
      /\ 1..d \subseteq Slot /\ a \in Nat /\ s \in Nat /\ s > 0
      /\ \A j \in Slot : map[j].addr \in Nat /\ map[j].size \in Nat
      /\ map \in [Slot -> SlotType] /\ Arr(map, d) /\ map[d].size = 0
    BY StoppedFacts
<1>2. ASSUME NEW j \in 1..(k-1) PROVE map[j].addr + map[j].size < a
    <2>1. k - 1 \in Slot /\ k - 1 \in 1..(d-1) /\ k > 1 /\ j \in Slot /\ j \in 1..(d-1)
        BY <1>1, <1>2
    <2>2. map[k-1].addr + map[k-1].size < a
        BY <1>1, <2>1 DEF AbutsLeft, End
    <2>3. CASE j = k - 1
        BY <2>2, <2>3
    <2>4. CASE j < k - 1
        <3>1. map[j].addr + map[j].size < map[k-1].addr
            BY <1>1, <2>1, <2>4 DEF Arr, Sorted
        <3> QED BY <1>1, <2>1, <2>2, <3>1
    <2> QED BY <1>1, <1>2, <2>3, <2>4
<1>3. ASSUME NEW j \in k..(d-1) PROVE a + s < map[j].addr
    <2>1. k \in Slot /\ k \in 1..(d-1) /\ j \in Slot /\ j \in 1..(d-1)
        BY <1>1, <1>3
    <2>2. map[k].size > 0
        BY <1>1, <2>1 DEF Arr, Sorted
    <2>3. a + s < map[k].addr
        BY <1>1, <2>1, <2>2 DEF AbutsRight
    <2>4. CASE j = k
        BY <2>3, <2>4
    <2>5. CASE k < j
        <3>1. map[k].addr + map[k].size < map[j].addr
            BY <1>1, <2>1, <2>5 DEF Arr, Sorted
        <3> QED BY <1>1, <2>1, <2>2, <2>3, <3>1
    <2> QED BY <1>1, <1>3, <2>4, <2>5
<1>4. k \in 1..d
    BY <1>1
<1> QED BY <1>1, <1>2, <1>3, <1>4, Opened

LEMMA NewEntryKeeps ==
    ASSUME MapInv, NEW d, NEW k, NEW a, NEW s, Stopped(d, k, a, s),
           ~AbutsLeft(k, a), ~AbutsRight(k, a, s), NewEntry(k, a, s)
    PROVE  MapInv'
<1>1. /\ d \in Nat /\ k \in Nat /\ 1 <= k /\ k <= d /\ d <= Slots /\ Slots \in Nat
      /\ 1..d \subseteq Slot /\ a \in Nat /\ s \in Nat /\ s > 0
      /\ \A j \in Slot : map[j].addr \in Nat /\ map[j].size \in Nat
      /\ map \in [Slot -> SlotType] /\ Arr(map, d) /\ map[d].size = 0
    BY StoppedFacts
<1>2. PICK o : o = OpenGap(k, a, s)
    OBVIOUS
<1>3. /\ o \in [Slot -> SlotType] /\ Sorted(o, d)
      /\ d < Slots => Arr(o, d + 1)
      /\ Given(map, d, o, d + 1, a, s)
    BY <1>2, NewEntryArray
<1>4. used' = used \ Extent(a, s)
    BY DEF NewEntry
<1>5. CASE d # Slots
    <2>1. map' = o /\ lost' = lost
        BY <1>1, <1>2, <1>5, ArrDelimiter DEF NewEntry
    <2>2. d + 1 \in Slot /\ d < Slots
        BY <1>1, <1>5 DEF Slot
    <2> QED BY <1>1, <1>3, <1>4, <2>1, <2>2, FreedKeeps DEF Stopped
<1>6. CASE d = Slots
    <2>1. /\ map' = Overflow(o)
          /\ lost' = lost \cup Extent(o[Slots-1].addr, o[Slots-1].size)
        BY <1>1, <1>2, <1>6, ArrDelimiter DEF NewEntry
    <2>2. Sorted(o, Slots)
        BY <1>3, <1>6
    <2>3. Arr(map', Slots)
        BY <1>3, <2>1, <2>2, Overflowed
    <2>4. \A u \in Nat : (\E j \in 1..(Slots-1) : Seg(map', j, u)) <=>
              (\E j \in 1..Slots : Seg(o, j, u)) /\ ~Seg(o, Slots - 1, u)
        BY <1>3, <2>1, <2>2, Overflowed
    <2>5. Slots - 1 \in Slot /\ Slots \in Slot /\ Slots - 1 \in 1..Slots
        BY SlotsAssumption DEF Slot
    <2>6. o[Slots-1].addr \in Nat /\ o[Slots-1].size \in Nat
        BY <1>3, <2>5, SlotFacts
    <2> DEFINE dropped == Extent(o[Slots-1].addr, o[Slots-1].size)
    <2>7. \A u : u \in dropped <=> u \in Nat /\ Seg(o, Slots - 1, u)
        BY <2>6 DEF Extent, Seg
    <2>8. \A u : u \in Extent(a, s) <=> u \in Nat /\ a <= u /\ u < a + s
        BY <1>1 DEF Extent
    <2> HIDE DEF dropped
    <2>9. \A u \in Nat : (\E j \in 1..Slots : Seg(o, j, u)) <=>
              (\E j \in 1..(d-1) : Seg(map, j, u)) \/ (a <= u /\ u < a + s)
        <3>1. (d + 1) - 1 = Slots
            BY <1>1, <1>6
        <3> QED BY <1>3, <3>1 DEF Given
    <2>10. \A u : u \in FreeUnits(map) <=> u \in Nat /\ \E j \in 1..(d-1) : Seg(map, j, u)
        BY <1>1, FreeIs
    <2>11. \A u : u \in FreeUnits(map') <=> u \in Nat /\ \E j \in 1..(Slots-1) : Seg(map', j, u)
        BY <2>3, FreeIs
    <2>12. ASSUME NEW u
           PROVE  u \in FreeUnits(map') <=>
                      (u \in FreeUnits(map) \/ u \in Extent(a, s)) /\ u \notin dropped
        BY <2>4, <2>7, <2>8, <2>9, <2>10, <2>11
    <2>13. ASSUME NEW u \in dropped
           PROVE  u \in FreeUnits(map) \/ u \in Extent(a, s)
        <3>1. u \in Nat /\ Seg(o, Slots - 1, u)
            BY <2>7, <2>13
        <3>2. \E j \in 1..Slots : Seg(o, j, u)
            BY <2>5, <3>1
        <3> QED BY <2>8, <2>9, <2>10, <3>1, <3>2
    <2>14. FreeUnits(map)' = FreeUnits(map')
        BY DEF FreeUnits, Segments, Delimiter
    <2>15. lost' = lost \cup dropped
        BY <2>1 DEF dropped
    <2>16. Extent(a, s) \subseteq used
        BY DEF Stopped
    <2>17. used' \subseteq Pool /\ lost' \subseteq Pool
        BY <1>4, <2>13, <2>15, <2>16 DEF MapInv, Partition
    <2>18. Partition'
        BY <1>4, <2>12, <2>13, <2>14, <2>15, <2>16 DEF MapInv, Partition
    <2>19. (\E j \in Slot : Arr(map, j))'
        BY <2>3, <2>5 DEF Arr, Sorted
    <2> QED BY <2>17, <2>18, <2>19 DEF MapInv
<1> QED BY <1>5, <1>6

LEMMA RmfreeKeeps ==
    ASSUME MapInv, NEW h \in Held, rmfree(h[2], h[1])
    PROVE  MapInv'
<1>1. PICK d \in Slot : Arr(map, d)
    BY DEF MapInv
<1>2. Stopped(d, After(h[1]), h[1], h[2])
    BY <1>1, HeldFacts DEF Stopped
<1>3. PICK k, a, s : k = After(h[1]) /\ a = h[1] /\ s = h[2]
    OBVIOUS
<1>4. /\ Stopped(d, k, a, s)
      /\ \/ AbutsLeft(k, a) /\ JoinLeft(k, a, s)
         \/ ~AbutsLeft(k, a) /\ AbutsRight(k, a, s) /\ JoinRight(k, a, s)
         \/ ~AbutsLeft(k, a) /\ ~AbutsRight(k, a, s) /\ NewEntry(k, a, s)
    BY <1>2, <1>3 DEF rmfree
<1> QED BY <1>4, JoinLeftKeeps, JoinRightKeeps, NewEntryKeeps

LEMMA MapNext == MapInv /\ [Clients]_mapVars => MapInv'
<1> SUFFICES ASSUME MapInv, [Clients]_mapVars PROVE MapInv'
    OBVIOUS
<1>1. CASE UNCHANGED mapVars
    <2>1. map' = map /\ used' = used /\ lost' = lost
        BY <1>1 DEF mapVars
    <2>2. FreeUnits(map)' = FreeUnits(map)
        BY <2>1 DEF FreeUnits, Segments, Delimiter
    <2>3. Partition'
        BY <2>1, <2>2 DEF MapInv, Partition
    <2>4. (\E d \in Slot : Arr(map, d))'
        BY <2>1 DEF MapInv, Arr, Sorted
    <2> QED BY <2>1, <2>3, <2>4 DEF MapInv
<1>2. CASE Alloc
    <2>1. PICK size \in 1..Units : rmalloc(size)
        BY <1>2 DEF Alloc
    <2>2. CASE RmallocOk(size)
        BY <2>2, RmallocKeeps
    <2>3. CASE RmallocFail(size)
        BY <1>1, <2>3 DEF RmallocFail
    <2> QED BY <2>1, <2>2, <2>3 DEF rmalloc
<1>3. CASE Free
    BY <1>3, RmfreeKeeps DEF Free
<1> QED BY <1>1, <1>2, <1>3 DEF Clients

LEMMA MapInvariant == MapSpec => []MapInv
BY MapInit, MapNext, PTL DEF MapSpec

\* What MapInv says of the array.
LEMMA MapInvShape ==
    ASSUME MapInv PROVE MapTypeOK /\ Terminated /\ Coalesced
<1>1. PICK d \in Slot : Arr(map, d)
    BY DEF MapInv
<1>2. MapTypeOK
    BY <1>1 DEF MapInv, MapTypeOK, Arr
<1>3. Terminated
    BY <1>1 DEF Terminated, Arr, Sorted
<1>4. Coalesced
    <2> SUFFICES ASSUME NEW i \in 1..(Slots-1), map[i+1].size > 0
                 PROVE  map[i].size > 0 /\ map[i].addr + map[i].size < map[i+1].addr
        BY DEF Coalesced
    <2>1. d \in Nat /\ d >= 1 /\ d <= Slots /\ Slots \in Nat
        BY SlotsAssumption DEF Slot
    <2>2. i + 1 < d
        <3> SUFFICES ASSUME ~(i + 1 < d) PROVE FALSE
            OBVIOUS
        <3>1. i + 1 \in d..Slots
            BY <2>1
        <3> QED BY <1>1, <3>1 DEF Arr, NoSegment
    <2>3. i \in 1..(d-1) /\ i + 1 \in 1..(d-1) /\ i < i + 1
        BY <2>1, <2>2
    <2> QED BY <1>1, <2>3 DEF Arr, Sorted
<1> QED BY <1>2, <1>3, <1>4

\* The array keeps its type, everything behind the delimiter is zero and no two
\* segments abut, whatever sequence of rmalloc and rmfree the clients make, the
\* overflow branch included: rmfree may open a gap without writing a delimiter,
\* and a request fails only when no run of free units is long enough.
THEOREM MapWellFormed == MapSpec => []WellFormed
<1>1. MapInv => WellFormed
    BY MapInvShape DEF WellFormed
<1> QED BY <1>1, MapInvariant, PTL

\* Every unit handed to rminit is in exactly one place: rmalloc never hands out
\* a unit twice, and the only leak is the one "rmap ovflo" reports.
THEOREM MapPartition == MapSpec => []Partition
<1>1. MapInv => Partition
    BY DEF MapInv
<1> QED BY <1>1, MapInvariant, PTL

\* Clients that free what they hold never run into panic("bad rmfree").
THEOREM MapNeverBad == MapSpec => []NeverBad
BY MapInvariant, HeldNeverBad, PTL

-----------------------------------------------------------------------------
(***************************************************************************)
(* The refinement.  A sorted array of n segments with gaps between them is *)
(* the set of its units: the runs of the set are the segments, and a run   *)
(* of free units does not reach over a gap.                                *)
(***************************************************************************)

\* The units of the first n slots of m.
UnitsOf(m, n) == {u \in Nat : \E j \in 1..n : Seg(m, j, u)}

LEMMA ArrUnits ==
    ASSUME NEW m, NEW d, Arr(m, d)
    PROVE  /\ m \in [Slot -> SlotType] /\ d - 1 \in 0..Slots /\ Sorted(m, d - 1)
           /\ FreeUnits(m) = UnitsOf(m, d - 1) /\ d - 1 <= Slots - 1
<1>1. m \in [Slot -> SlotType] /\ Sorted(m, d - 1) /\ d \in Slot
    BY DEF Arr
<1>2. d - 1 \in 0..Slots /\ d - 1 <= Slots - 1
    BY <1>1, SlotsAssumption DEF Slot
<1>3. FreeUnits(m) = UnitsOf(m, d - 1)
    BY FreeIs DEF UnitsOf
<1> QED BY <1>1, <1>2, <1>3

\* The cardinality that ExtentPool speaks of is the usual one.
LEMMA SameCardinality == ASSUME NEW S PROVE AsPool!Cardinality(S) = Cardinality(S)
BY DEF AsPool!Cardinality, Cardinality

\* What the segments of a sorted array have to do with each other.
LEMMA SortedFacts ==
    ASSUME NEW m \in [Slot -> SlotType], NEW n \in 0..Slots, Sorted(m, n),
           NEW i \in 1..n, NEW j \in 1..n
    PROVE  /\ m[i].addr \in Nat /\ m[i].size \in Nat /\ m[i].size > 0 /\ i \in Nat
           /\ m[j].addr \in Nat /\ m[j].size \in Nat /\ m[j].size > 0 /\ j \in Nat
           /\ \/ i = j
              \/ i < j /\ m[i].addr + m[i].size < m[j].addr
              \/ j < i /\ m[j].addr + m[j].size < m[i].addr
<1>1. i \in Slot /\ j \in Slot /\ i \in Nat /\ j \in Nat
    BY SlotsAssumption DEF Slot
<1>2. m[i].addr \in Nat /\ m[i].size \in Nat /\ m[j].addr \in Nat /\ m[j].size \in Nat
    BY <1>1, SlotFacts
<1>3. m[i].size > 0 /\ m[j].size > 0
    BY DEF Sorted
<1>4. /\ i < j => m[i].addr + m[i].size < m[j].addr
      /\ j < i => m[j].addr + m[j].size < m[i].addr
    BY DEF Sorted
<1> QED BY <1>1, <1>2, <1>3, <1>4

\* A run of units of the array lies within one segment.
LEMMA RunInSegment ==
    ASSUME NEW m \in [Slot -> SlotType], NEW n \in 0..Slots, Sorted(m, n),
           NEW i \in 1..n, NEW a \in Nat, NEW b \in Nat, Seg(m, i, a), a <= b,
           a..b \subseteq UnitsOf(m, n)
    PROVE  Seg(m, i, b)
<1>1. m[i].addr \in Nat /\ m[i].size \in Nat
    BY SortedFacts
<1> SUFFICES ASSUME ~Seg(m, i, b) PROVE FALSE
    OBVIOUS
<1> DEFINE e == m[i].addr + m[i].size
<1>2. e \in Nat /\ e \in a..b
    BY <1>1 DEF Seg
<1>3. PICK j \in 1..n : Seg(m, j, e)
    BY <1>2 DEF UnitsOf
<1> QED BY <1>1, <1>3, SortedFacts DEF Seg

\* The runs of the set are the segments of the array, as many as there are.
LEMMA RunsAreSegments ==
    ASSUME NEW m \in [Slot -> SlotType], NEW n \in 0..Slots, Sorted(m, n)
    PROVE  /\ AsPool!RunStarts(UnitsOf(m, n)) = {m[i].addr : i \in 1..n}
           /\ \A i \in 1..n : AsPool!Run(UnitsOf(m, n), m[i].addr) = Extent(m[i].addr, m[i].size)
<1> DEFINE F == UnitsOf(m, n)
<1>1. ASSUME NEW i \in 1..n PROVE m[i].addr \in F /\ m[i].addr - 1 \notin F
    <2>1. m[i].addr \in Nat /\ m[i].size \in Nat /\ m[i].size > 0
        BY SortedFacts
    <2>2. m[i].addr \in F
        BY <2>1 DEF UnitsOf, Seg
    <2>3. ASSUME m[i].addr - 1 \in F PROVE FALSE
        <3>1. PICK j \in 1..n : Seg(m, j, m[i].addr - 1)
            BY <2>3 DEF UnitsOf
        <3> QED BY <3>1, SortedFacts DEF Seg
    <2> QED BY <2>2, <2>3
<1>2. ASSUME NEW a \in F, a - 1 \notin F PROVE \E i \in 1..n : a = m[i].addr
    <2>1. a \in Nat
        BY DEF UnitsOf
    <2>2. PICK i \in 1..n : Seg(m, i, a)
        BY DEF UnitsOf
    <2>3. m[i].addr \in Nat /\ m[i].size \in Nat
        BY SortedFacts
    <2>4. ASSUME a # m[i].addr PROVE FALSE
        <3>1. a - 1 \in Nat /\ Seg(m, i, a - 1)
            BY <2>1, <2>2, <2>3, <2>4 DEF Seg
        <3> QED BY <1>2, <3>1 DEF UnitsOf
    <2> QED BY <2>4
<1>3. AsPool!RunStarts(F) = {m[i].addr : i \in 1..n}
    BY <1>1, <1>2 DEF AsPool!RunStarts
<1>4. ASSUME NEW i \in 1..n PROVE AsPool!Run(F, m[i].addr) = Extent(m[i].addr, m[i].size)
    <2>1. m[i].addr \in Nat /\ m[i].size \in Nat /\ m[i].size > 0
        BY SortedFacts
    <2>2. ASSUME NEW b \in F, m[i].addr <= b, m[i].addr..b \subseteq F
          PROVE  b \in Extent(m[i].addr, m[i].size)
        <3>1. b \in Nat /\ Seg(m, i, m[i].addr)
            BY <2>1 DEF UnitsOf, Seg
        <3>2. Seg(m, i, b)
            BY <2>1, <2>2, <3>1, RunInSegment
        <3> QED BY <2>1, <3>1, <3>2 DEF Seg, Extent
    <2>3. ASSUME NEW b \in Extent(m[i].addr, m[i].size)
          PROVE  b \in F /\ m[i].addr <= b /\ m[i].addr..b \subseteq F
        <3>1. b \in Nat /\ Seg(m, i, b)
            BY <2>1 DEF Extent, Seg
        <3>2. \A c \in m[i].addr..b : c \in Nat /\ Seg(m, i, c)
            BY <2>1, <3>1 DEF Seg
        <3> QED BY <3>1, <3>2 DEF UnitsOf, Seg
    <2> QED BY <2>2, <2>3 DEF AsPool!Run
<1> QED BY <1>3, <1>4

LEMMA RunsCounted ==
    ASSUME NEW m \in [Slot -> SlotType], NEW n \in 0..Slots, Sorted(m, n)
    PROVE  Cardinality(AsPool!RunStarts(UnitsOf(m, n))) = n
<1> DEFINE f == [i \in 1..n |-> m[i].addr]
           T == {m[i].addr : i \in 1..n}
<1>1. f \in Bijection(1..n, T)
    <2>1. f \in [1..n -> T]
        OBVIOUS
    <2>2. \A i, j \in 1..n : f[i] = f[j] => i = j
        BY SortedFacts
    <2>3. \A t \in T : \E i \in 1..n : f[i] = t
        OBVIOUS
    <2> HIDE DEF f, T
    <2> QED BY <2>1, <2>2, <2>3, Fun_IsBij
<1>2. n \in Nat
    BY SlotsAssumption
<1>3. IsFiniteSet(1..n) /\ Cardinality(1..n) = n
    BY <1>2, FS_Interval
<1>4. Cardinality(T) = n
    BY <1>1, <1>3, FS_Bijection DEF ExistsBijection
<1> QED BY <1>4, RunsAreSegments

\* What the array means: the free set of the pool, in both states.
LEMMA StepUnits ==
    ASSUME MapInv, MapInv'
    PROVE  /\ FreeUnits(map) = (Pool \ used) \ lost
           /\ FreeUnits(map') = (Pool \ used') \ lost'
<1>1. FreeUnits(map)' = FreeUnits(map')
    BY DEF FreeUnits, Segments, Delimiter
<1> QED BY <1>1 DEF MapInv, Partition

\* rmalloc takes the lowest run that is long enough.
LEMMA AllocateStep ==
    ASSUME MapInv, MapInv', NEW size \in 1..Units, RmallocOk(size)
    PROVE  AsPool!Allocate(size)
<1>1. PICK d \in Slot : Arr(map, d)
    BY DEF MapInv
<1>2. size \in Nat /\ size > 0
    BY PoolFacts
<1>3. PICK i \in Fits(size) :
        /\ \A j \in Fits(size) : i <= j
        /\ used' = used \cup Extent(map[i].addr, size)
        /\ UNCHANGED lost
    BY DEF RmallocOk
<1>4. /\ map \in [Slot -> SlotType] /\ d - 1 \in 0..Slots /\ Sorted(map, d - 1)
      /\ FreeUnits(map) = UnitsOf(map, d - 1)
    BY <1>1, ArrUnits
<1>5. Fits(size) = {j \in 1..(d-1) : map[j].size >= size}
    BY <1>1, ArrDelimiter DEF Fits, Segments
<1>6. i \in 1..(d-1) /\ map[i].size >= size /\ map[i].addr \in Nat /\ map[i].size \in Nat
    BY <1>3, <1>4, <1>5, SortedFacts
<1>7. map[i].addr \in AsPool!Candidates(size)
    <2>1. \A u \in Extent(map[i].addr, size) : u \in Nat /\ Seg(map, i, u)
        BY <1>2, <1>6 DEF Extent, Seg
    <2>2. map[i].addr \in Extent(map[i].addr, size)
        BY <1>2, <1>6 DEF Extent
    <2>3. Extent(map[i].addr, size) \subseteq FreeUnits(map)
        BY <1>4, <1>6, <2>1 DEF UnitsOf
    <2> QED BY <2>2, <2>3 DEF AsPool!Candidates, AsPool!Extent, Extent
<1>8. ASSUME NEW b \in AsPool!Candidates(size) PROVE map[i].addr <= b
    <2>1. b \in FreeUnits(map) /\ Extent(b, size) \subseteq FreeUnits(map)
        BY DEF AsPool!Candidates, AsPool!Extent, Extent
    <2>2. PICK j \in 1..(d-1) : b \in Nat /\ Seg(map, j, b)
        BY <1>4, <2>1 DEF UnitsOf
    <2>3. map[j].addr \in Nat /\ map[j].size \in Nat
        BY <1>4, <2>2, SortedFacts
    <2>4. Seg(map, j, b + size - 1)
        <3>1. b..(b + size - 1) \subseteq UnitsOf(map, d - 1) /\ b + size - 1 \in Nat /\ b <= b + size - 1
            BY <1>2, <1>4, <2>1, <2>2 DEF Extent
        <3> QED BY <1>4, <2>2, <3>1, RunInSegment
    <2>5. map[j].size >= size
        BY <1>2, <2>2, <2>3, <2>4 DEF Seg
    <2>6. i <= j
        BY <1>3, <1>5, <2>5
    <2>7. map[i].addr <= map[j].addr
        BY <1>4, <1>6, <2>6, SortedFacts
    <2> QED BY <1>6, <2>2, <2>3, <2>7 DEF Seg
<1>9. FreeUnits(map') = FreeUnits(map) \ Extent(map[i].addr, size)
    BY <1>3, StepUnits
<1> QED BY <1>3, <1>7, <1>8, <1>9 DEF AsPool!Allocate, AsPool!Extent, Extent

\* rmalloc refuses only when no run of free units is long enough.
LEMMA RefuseStep ==
    ASSUME MapInv, NEW size \in 1..Units, RmallocFail(size)
    PROVE  AsPool!Refuse(size)
<1>1. PICK d \in Slot : Arr(map, d)
    BY DEF MapInv
<1>2. size \in Nat /\ size > 0
    BY PoolFacts
<1>3. /\ map \in [Slot -> SlotType] /\ d - 1 \in 0..Slots /\ Sorted(map, d - 1)
      /\ FreeUnits(map) = UnitsOf(map, d - 1)
    BY <1>1, ArrUnits
<1>4. {j \in 1..(d-1) : map[j].size >= size} = {} /\ UNCHANGED mapVars
    BY <1>1, ArrDelimiter DEF RmallocFail, Fits, Segments
<1>5. ASSUME NEW b \in AsPool!Candidates(size) PROVE FALSE
    <2>1. b \in FreeUnits(map) /\ Extent(b, size) \subseteq FreeUnits(map)
        BY DEF AsPool!Candidates, AsPool!Extent, Extent
    <2>2. PICK j \in 1..(d-1) : b \in Nat /\ Seg(map, j, b)
        BY <1>3, <2>1 DEF UnitsOf
    <2>3. map[j].addr \in Nat /\ map[j].size \in Nat
        BY <1>3, <2>2, SortedFacts
    <2>4. Seg(map, j, b + size - 1)
        <3>1. b..(b + size - 1) \subseteq UnitsOf(map, d - 1) /\ b + size - 1 \in Nat /\ b <= b + size - 1
            BY <1>2, <1>3, <2>1, <2>2 DEF Extent
        <3> QED BY <1>3, <2>2, <3>1, RunInSegment
    <2>5. map[j].size >= size
        BY <1>2, <2>2, <2>3, <2>4 DEF Seg
    <2> QED BY <1>4, <2>5
<1>6. UNCHANGED <<FreeUnits(map), used, lost>>
    BY <1>4 DEF mapVars, FreeUnits, Segments, Delimiter
<1> QED BY <1>5, <1>6 DEF AsPool!Refuse, AsPool!vars

\* A free that loses nothing leaves no more runs than the array has room for.
LEMMA ReleaseWhole ==
    ASSUME MapInv, MapInv', NEW h \in Held, used' = used \ Extent(h[1], h[2]), lost' = lost
    PROVE  AsPool!Release(h[1], h[2])
<1>1. Extent(h[1], h[2]) \subseteq used
    BY DEF Held
<1>2. FreeUnits(map') = FreeUnits(map) \cup Extent(h[1], h[2])
    BY <1>1, StepUnits DEF MapInv, Partition
<1>3. PICK e \in Slot : Arr(map', e)
    <2>1. (\E d \in Slot : Arr(map, d))'
        BY DEF MapInv
    <2> QED BY <2>1 DEF Arr, Sorted
<1>4. /\ map' \in [Slot -> SlotType] /\ e - 1 \in 0..Slots /\ Sorted(map', e - 1)
      /\ FreeUnits(map') = UnitsOf(map', e - 1) /\ e - 1 <= Slots - 1
    BY <1>3, ArrUnits
<1>5. Cardinality(AsPool!RunStarts(FreeUnits(map'))) <= Slots - 1
    BY <1>4, RunsCounted
<1>6. FreeUnits(map)' = FreeUnits(map')
    BY DEF FreeUnits, Segments, Delimiter
<1> QED BY <1>1, <1>2, <1>5, <1>6, SameCardinality DEF AsPool!Release, AsPool!Extent, Extent

\* "rmap ovflo": there is one run too many, and it is a whole run that is lost.
LEMMA ReleaseOverflow ==
    ASSUME MapInv, MapInv', NEW h \in Held, NEW k, Stopped(Slots, k, h[1], h[2]),
           ~AbutsLeft(k, h[1]), ~AbutsRight(k, h[1], h[2]), NewEntry(k, h[1], h[2])
    PROVE  AsPool!Release(h[1], h[2])
<1>1. Extent(h[1], h[2]) \subseteq used
    BY DEF Held
<1>2. PICK o : o = OpenGap(k, h[1], h[2])
    OBVIOUS
<1>3. /\ o \in [Slot -> SlotType] /\ Sorted(o, Slots)
      /\ Given(map, Slots, o, Slots + 1, h[1], h[2])
    BY <1>2, NewEntryArray
<1>4. /\ Arr(map, Slots) /\ Slots \in Nat /\ Slots - 1 \in 1..Slots /\ Slots \in 0..Slots
      /\ h[1] \in Nat /\ h[2] \in Nat
    BY SlotsAssumption DEF Stopped
<1>5. /\ lost' = lost \cup Extent(o[Slots-1].addr, o[Slots-1].size)
      /\ used' = used \ Extent(h[1], h[2])
    BY <1>2, <1>4, ArrDelimiter DEF NewEntry
<1> DEFINE whole == FreeUnits(map) \cup Extent(h[1], h[2])
           b == o[Slots-1].addr
<1>6. whole = UnitsOf(o, Slots)
    <2>1. \A u : u \in Extent(h[1], h[2]) <=> u \in Nat /\ h[1] <= u /\ u < h[1] + h[2]
        BY <1>4 DEF Extent
    <2>2. \A u : u \in FreeUnits(map) <=> u \in Nat /\ \E j \in 1..(Slots-1) : Seg(map, j, u)
        BY <1>4, FreeIs
    <2>3. (Slots + 1) - 1 = Slots
        BY <1>4
    <2> QED BY <1>3, <2>1, <2>2, <2>3 DEF Given, UnitsOf
<1>7. /\ Cardinality(AsPool!RunStarts(whole)) > Slots - 1
      /\ b \in AsPool!RunStarts(whole)
      /\ AsPool!Run(whole, b) = Extent(b, o[Slots-1].size)
    <2> HIDE DEF whole
    <2> QED BY <1>3, <1>4, <1>6, RunsCounted, RunsAreSegments
<1>8. AsPool!Run(whole, b) \subseteq whole
    BY DEF AsPool!Run
<1>9. FreeUnits(map') = whole \ AsPool!Run(whole, b) /\ lost' = lost \cup AsPool!Run(whole, b)
    <2>1. lost' = lost \cup AsPool!Run(whole, b)
        BY <1>5, <1>7
    <2> HIDE DEF b
    <2>2. /\ FreeUnits(map) \subseteq Pool /\ used \subseteq Pool
          /\ FreeUnits(map) \cap used = {} /\ FreeUnits(map) \cap lost = {} /\ used \cap lost = {}
        BY DEF MapInv, Partition
    <2> QED BY <1>1, <1>5, <1>8, <2>1, <2>2, StepUnits
<1>10. FreeUnits(map)' = FreeUnits(map')
    BY DEF FreeUnits, Segments, Delimiter
<1> HIDE DEF b
<1>11. /\ Extent(h[1], h[2]) \subseteq used /\ used' = used \ Extent(h[1], h[2])
       /\ Cardinality(AsPool!RunStarts(whole)) > Slots - 1
       /\ \E a \in AsPool!RunStarts(whole) : /\ FreeUnits(map)' = whole \ AsPool!Run(whole, a)
                                              /\ lost' = lost \cup AsPool!Run(whole, a)
    BY <1>1, <1>5, <1>7, <1>9, <1>10
<1> QED BY <1>11, SameCardinality DEF AsPool!Release, AsPool!Extent, Extent

LEMMA ReleaseStep ==
    ASSUME MapInv, MapInv', NEW h \in Held, rmfree(h[2], h[1])
    PROVE  AsPool!Release(h[1], h[2])
<1>1. PICK d \in Slot : Arr(map, d)
    BY DEF MapInv
<1>2. PICK k : k = After(h[1])
    OBVIOUS
<1>3. Stopped(d, k, h[1], h[2])
    BY <1>1, <1>2, HeldFacts DEF Stopped
<1>4. CASE AbutsLeft(k, h[1])
    BY <1>2, <1>4, ReleaseWhole DEF rmfree, JoinLeft
<1>5. CASE ~AbutsLeft(k, h[1]) /\ AbutsRight(k, h[1], h[2])
    BY <1>2, <1>5, ReleaseWhole DEF rmfree, JoinRight
<1>6. CASE ~AbutsLeft(k, h[1]) /\ ~AbutsRight(k, h[1], h[2])
    <2>1. NewEntry(k, h[1], h[2])
        BY <1>2, <1>6 DEF rmfree
    <2>2. CASE d # Slots
        BY <1>1, <2>1, <2>2, ArrDelimiter, ReleaseWhole DEF NewEntry
    <2>3. CASE d = Slots
        BY <1>3, <1>6, <2>1, <2>3, ReleaseOverflow
    <2> QED BY <2>2, <2>3
<1> QED BY <1>4, <1>5, <1>6

LEMMA PoolStep == MapInv /\ MapInv' /\ [Clients]_mapVars => [AsPool!Next]_(AsPool!vars)
<1> SUFFICES ASSUME MapInv, MapInv', [Clients]_mapVars PROVE [AsPool!Next]_(AsPool!vars)
    OBVIOUS
<1>1. CASE UNCHANGED mapVars
    BY <1>1 DEF mapVars, AsPool!vars, FreeUnits, Segments, Delimiter
<1>2. CASE Alloc
    <2>1. PICK size \in 1..Units : rmalloc(size)
        BY <1>2 DEF Alloc
    <2>2. AsPool!Allocate(size) \/ AsPool!Refuse(size)
        BY <2>1, AllocateStep, RefuseStep DEF rmalloc
    <2> QED BY <2>2 DEF AsPool!Next
<1>3. CASE Free
    <2>1. PICK h \in Held : rmfree(h[2], h[1])
        BY <1>3 DEF Free
    <2>2. h[1] \in used /\ h[2] \in 1..Units
        BY DEF Held
    <2>3. AsPool!Release(h[1], h[2])
        BY <2>1, ReleaseStep
    <2> QED BY <2>2, <2>3 DEF AsPool!Next
<1> QED BY <1>1, <1>2, <1>3 DEF Clients

\* The array implements the pool of units, for every size of either: rmalloc hands
\* out the lowest run that is long enough and refuses only when there is none, and
\* rmfree gives back exactly what it was given, or loses one whole run when there
\* are more runs than the array has slots for.
THEOREM MapRefinesPool == MapSpec => ImplementsPool
<1>1. rminit => AsPool!Init
    <2> SUFFICES ASSUME rminit PROVE AsPool!Init
        OBVIOUS
    <2>1. MapInv /\ used = {} /\ lost = {}
        BY MapInit DEF rminit
    <2>2. FreeUnits(map) = Pool
        BY <2>1 DEF MapInv, Partition
    <2> QED BY <2>1, <2>2 DEF AsPool!Init, AsPool!Pool, Pool
<1> QED BY <1>1, MapInvariant, PoolStep, PTL DEF MapSpec, ImplementsPool, AsPool!Spec
=============================================================================
