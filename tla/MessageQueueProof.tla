-------------------------- MODULE MessageQueueProof --------------------------
(***************************************************************************)
(* Message queues: for any number of processes and queues, whatever the    *)
(* limits and the calls, nobody who waits is forgotten, nothing is lost,   *)
(* and msgrcv() takes the message that msgop.2 says.                       *)
(***************************************************************************)
EXTENDS MessageQueue, FiniteSetTheorems, SequenceTheorems, WellFoundedInduction, TLAPS

-----------------------------------------------------------------------------
(* The search of msgrcv(). *)

\* A non-empty set of naturals has a least element.
LEMMA Smallest ==
    ASSUME NEW T \in SUBSET Nat, T # {}
    PROVE  \E n \in T : \A m \in T : n <= m
<1> DEFINE R == OpToRel(<, Nat)
<1>1. IsWellFoundedOn(R, Nat)
    BY NatLessThanWellFounded, Zenon
<1>2. PICK n \in T : \A m \in T : <<m, n>> \notin R
    <2> HIDE DEF R
    <2> QED BY <1>1, WFMin, Zenon
<1>3. \A m \in T : ~(m < n)
    BY <1>2 DEF OpToRel
<1> QED BY <1>3

LEMMA MsgFields ==
    ASSUME NEW Q \in Seq(Msg)
    PROVE  /\ DOMAIN Q = 1 .. Len(Q) /\ Len(Q) \in Nat
           /\ \A j \in 1 .. Len(Q) : Q[j] \in Msg /\ Q[j].type \in Nat /\ Q[j].size \in Nat
<1>1. \A j \in 1 .. Len(Q) : Q[j] \in Msg
    BY ElementOfSeq
<1>2. \A m \in Msg : m.type \in Nat /\ m.size \in Nat
    BY DEF Msg
<1> QED BY <1>1, <1>2, LenProperties

\* One turn of the loop, for a type that is not 0.
Turn(Q, typ, best, i) ==
    IF typ > 0
    THEN IF best = 0 /\ Q[i].type = typ THEN i ELSE best
    ELSE IF Q[i].type <= -typ /\ (best = 0 \/ Q[best].type > Q[i].type) THEN i ELSE best

\* The search is at b when it has seen the first n messages: none of them suits, or
\* it comes before all others that do.
Before(Q, typ, b, j) ==
    IF typ > 0 THEN b < j ELSE Q[b].type < Q[j].type \/ (Q[b].type = Q[j].type /\ b < j)
Suit(Q, typ, j) == IF typ > 0 THEN Q[j].type = typ ELSE Q[j].type <= -typ
Sought(Q, typ, n, b) ==
    /\ b \in 0 .. n
    /\ b = 0 => \A j \in 1 .. n : ~Suit(Q, typ, j)
    /\ b # 0 => /\ Suit(Q, typ, b)
                /\ \A j \in 1 .. n : Suit(Q, typ, j) /\ j # b => Before(Q, typ, b, j)

LEMMA SoughtTurn ==
    ASSUME NEW Q \in Seq(Msg), NEW typ \in Int, typ # 0, NEW n \in 1 .. Len(Q), NEW b,
           Sought(Q, typ, n - 1, b)
    PROVE  Sought(Q, typ, n, Turn(Q, typ, b, n))
<1>1. \A j \in 1 .. Len(Q) : Q[j].type \in Nat
    BY MsgFields
<1>2. n \in Nat /\ n > 0 /\ b \in 0 .. n - 1
    BY DEF Sought
<1>3. CASE typ > 0
    BY <1>1, <1>2, <1>3 DEF Sought, Turn, Before, Suit
<1>4. CASE ~(typ > 0)
    BY <1>1, <1>2, <1>4 DEF Sought, Turn, Before, Suit
<1> QED BY <1>3, <1>4

LEMMA SoughtOne ==
    ASSUME NEW Q \in Seq(Msg), NEW typ \in Int, typ # 0, NEW n \in 0 .. Len(Q), NEW b, NEW c,
           Sought(Q, typ, n, b), Sought(Q, typ, n, c)
    PROVE  b = c
<1>1. \A j \in 1 .. Len(Q) : Q[j].type \in Nat
    BY MsgFields
<1>2. n \in Nat /\ b \in 0 .. n /\ c \in 0 .. n
    BY DEF Sought
<1>3. CASE b = 0 \/ c = 0
    BY <1>2, <1>3 DEF Sought
<1>4. CASE b # 0 /\ c # 0 /\ b # c
    <2>1. Before(Q, typ, b, c) /\ Before(Q, typ, c, b)
        BY <1>2, <1>4 DEF Sought
    <2> QED BY <1>1, <1>2, <1>4, <2>1 DEF Before
<1> QED BY <1>3, <1>4

LEMMA SoughtSome ==
    ASSUME NEW Q \in Seq(Msg), NEW typ \in Int, typ # 0
    PROVE  \A n \in 0 .. Len(Q) : \E b \in 0 .. Len(Q) : Sought(Q, typ, n, b)
<1> DEFINE T == {n \in 0 .. Len(Q) : ~\E b \in 0 .. Len(Q) : Sought(Q, typ, n, b)}
<1>1. Len(Q) \in Nat
    OBVIOUS
<1>2. CASE T # {}
    <2>1. T \in SUBSET Nat
        BY <1>1
    <2>2. PICK n \in T : \A m \in T : n <= m
        BY <1>2, <2>1, Smallest
    <2>3. n # 0
        BY <1>1, <2>2 DEF Sought
    <2>4. n - 1 \in 0 .. Len(Q) /\ n - 1 \notin T /\ n \in 1 .. Len(Q)
        BY <1>1, <2>2, <2>3
    <2>5. PICK b : Sought(Q, typ, n - 1, b)
        BY <2>4
    <2>6. Sought(Q, typ, n, Turn(Q, typ, b, n))
        BY <2>4, <2>5, SoughtTurn
    <2>7. Turn(Q, typ, b, n) \in 0 .. Len(Q)
        BY <1>1, <2>4, <2>6 DEF Sought
    <2> QED BY <2>2, <2>6, <2>7
<1> QED BY <1>2

\* The loop has an outcome, and that is the message sought.
LEMMA LoopFinds ==
    ASSUME NEW Q \in Seq(Msg), NEW typ \in Int, typ # 0,
           NEW best, best = CHOOSE f : f = [i \in 0 .. Len(Q) |->
                                  IF i = 0 THEN 0 ELSE Turn(Q, typ, f[i - 1], i)]
    PROVE  Sought(Q, typ, Len(Q), best[Len(Q)])
<1> DEFINE N == Len(Q)
           g == [i \in 0 .. N |-> CHOOSE b \in 0 .. N : Sought(Q, typ, i, b)]
           Eq(f) == f = [i \in 0 .. N |-> IF i = 0 THEN 0 ELSE Turn(Q, typ, f[i - 1], i)]
<1>1. N \in Nat
    OBVIOUS
<1>2. \A i \in 0 .. N : Sought(Q, typ, i, g[i])
    BY SoughtSome
<1> HIDE DEF g
<1>3. ASSUME NEW i \in 0 .. N PROVE g[i] = IF i = 0 THEN 0 ELSE Turn(Q, typ, g[i - 1], i)
    <2>1. CASE i = 0
        BY <1>1, <1>2, <2>1 DEF Sought
    <2>2. CASE i # 0
        <3>1. i - 1 \in 0 .. N /\ i \in 1 .. N
            BY <1>1, <2>2
        <3>2. Sought(Q, typ, i, Turn(Q, typ, g[i - 1], i)) /\ Sought(Q, typ, i, g[i])
            BY <1>2, <3>1, SoughtTurn
        <3> QED BY <2>2, <3>2, SoughtOne
    <2> QED BY <2>1, <2>2
<1>4. g = [i \in 0 .. N |-> g[i]]
    BY DEF g
<1>5. Eq(g)
    BY <1>3, <1>4
<1>6. Eq(best)
    <2> HIDE DEF N
    <2>1. \E f : Eq(f)
        BY <1>5
    <2>2. best = CHOOSE f : Eq(f)
        BY Zenon DEF N
    <2> HIDE DEF Eq
    <2> QED BY <2>1, <2>2, Zenon
<1>7. best[0] = 0 /\ \A i \in 1 .. N : best[i] = Turn(Q, typ, best[i - 1], i)
    <2>1. \A i \in 0 .. N : best[i] = IF i = 0 THEN 0 ELSE Turn(Q, typ, best[i - 1], i)
        BY <1>6, Zenon
    <2> HIDE DEF N, Eq
    <2> QED BY <1>1, <2>1
<1> DEFINE T == {i \in 0 .. N : ~Sought(Q, typ, i, best[i])}
<1> HIDE DEF N, Eq
<1>8. CASE T # {}
    <2>1. T \in SUBSET Nat
        BY <1>1
    <2>2. PICK n \in T : \A m \in T : n <= m
        BY <1>8, <2>1, Smallest
    <2>3. n # 0
        BY <1>1, <1>7, <2>2 DEF Sought
    <2>4. n - 1 \in 0 .. N /\ n - 1 \notin T /\ n \in 1 .. N
        BY <1>1, <2>2, <2>3
    <2>5. Sought(Q, typ, n, best[n])
        <3>1. Sought(Q, typ, n - 1, best[n - 1])
            BY <2>4
        <3> QED BY <1>7, <2>4, <3>1, SoughtTurn DEF N
    <2> QED BY <2>2, <2>5
<1>9. N \in 0 .. N
    BY <1>1
<1> QED BY <1>8, <1>9 DEF N

LEMMA PickFirst ==
    ASSUME NEW Q \in Seq(Msg), NEW typ \in Int
    PROVE  FirstOf(Q, typ, Pick(Q, typ))
<1>1. DOMAIN Q = 1 .. Len(Q) /\ Len(Q) \in Nat /\ \A j \in 1 .. Len(Q) : Q[j].type \in Nat
    BY MsgFields
<1>2. CASE typ = 0
    <2>1. Suits(Q, typ) = 1 .. Len(Q)
        BY <1>1, <1>2 DEF Suits
    <2>2. Pick(Q, typ) = IF Q = <<>> THEN 0 ELSE 1
        BY <1>2, Zenon DEF Pick
    <2> QED BY <1>1, <1>2, <2>1, <2>2 DEF FirstOf
<1>3. CASE typ # 0
    <2> DEFINE best == CHOOSE f : f = [i \in 0 .. Len(Q) |->
                                  IF i = 0 THEN 0 ELSE Turn(Q, typ, f[i - 1], i)]
    <2>1. Pick(Q, typ) = best[Len(Q)]
        BY <1>3, Zenon DEF Pick, Turn
    <2>2. Sought(Q, typ, Len(Q), Pick(Q, typ))
        <3>1. Sought(Q, typ, Len(Q), best[Len(Q)])
            <4> HIDE DEF best
            <4> QED BY <1>3, LoopFinds DEF best
        <3> HIDE DEF best
        <3> QED BY <2>1, <3>1
    <2>3. \A j \in 1 .. Len(Q) : j \in Suits(Q, typ) <=> Suit(Q, typ, j)
        BY <1>1, <1>3 DEF Suits, Suit
    <2>4. Suits(Q, typ) \subseteq 1 .. Len(Q)
        BY <1>1 DEF Suits
    <2> QED BY <1>1, <1>3, <2>2, <2>3, <2>4 DEF FirstOf, Sought, Before
<1> QED BY <1>2, <1>3

-----------------------------------------------------------------------------
(* Counting. *)

\* What is on a queue, with the queue.
Spread(S) == UNION {{q} \X S[q] : q \in Queue}

LEMMA PairCount ==
    ASSUME NEW q, NEW X, IsFiniteSet(X)
    PROVE  IsFiniteSet({q} \X X) /\ Cardinality({q} \X X) = Cardinality(X)
<1>1. IsFiniteSet({q}) /\ Cardinality({q}) = 1
    BY FS_Singleton
<1>2. IsFiniteSet({q} \X X) /\ Cardinality({q} \X X) = 1 * Cardinality(X)
    BY <1>1, FS_Product
<1> QED BY <1>2, FS_CardinalityType

LEMMA DisjointCount ==
    ASSUME NEW S, NEW T, IsFiniteSet(S), IsFiniteSet(T), S \cap T = {}
    PROVE  /\ IsFiniteSet(S \cup T) /\ Cardinality(S \cup T) = Cardinality(S) + Cardinality(T)
<1>1. Cardinality(S \cap T) = 0
    BY FS_EmptySet
<1> QED BY <1>1, FS_Union, FS_CardinalityType

LEMMA RangeCount ==
    ASSUME NEW n \in Nat PROVE IsFiniteSet(1 .. n) /\ Cardinality(1 .. n) = n
<1>1. 1 \in Int /\ n \in Int
    OBVIOUS
<1>2. IsFiniteSet(1 .. n) /\ Cardinality(1 .. n) = IF 1 > n THEN 0 ELSE n - 1 + 1
    BY <1>1, FS_Interval
<1> QED BY <1>2

LEMMA SpreadFinite ==
    ASSUME NEW S, IsFiniteSet(Queue), \A q \in Queue : IsFiniteSet(S[q])
    PROVE  IsFiniteSet(Spread(S))
<1> DEFINE F == {{q} \X S[q] : q \in Queue}
           f == [q \in Queue |-> {q} \X S[q]]
<1>1. IsFiniteSet(F)
    <2>1. f \in Surjection(Queue, F)
        BY DEF Surjection
    <2> HIDE DEF f, F
    <2> QED BY <2>1, FS_Surjection
<1>2. ASSUME NEW T \in F PROVE IsFiniteSet(T)
    <2>1. PICK q \in Queue : T = {q} \X S[q]
        OBVIOUS
    <2> QED BY <2>1, PairCount
<1> QED BY <1>1, <1>2, FS_UNION DEF Spread

\* One queue changes.
LEMMA SpreadChange ==
    ASSUME NEW S, NEW T, NEW q \in Queue, IsFiniteSet(Queue),
           \A x \in Queue : IsFiniteSet(S[x]) /\ IsFiniteSet(T[x]),
           \A x \in Queue : x # q => T[x] = S[x]
    PROVE  /\ Cardinality(Spread(S)) \in Nat /\ Cardinality(Spread(T)) \in Nat
           /\ Cardinality(S[q]) \in Nat /\ Cardinality(T[q]) \in Nat
           /\ Cardinality(Spread(T)) = Cardinality(Spread(S)) - Cardinality(S[q]) + Cardinality(T[q])
<1> DEFINE R == Spread(S) \ ({q} \X S[q])
<1>1. IsFiniteSet(Spread(S)) /\ IsFiniteSet(Spread(T))
    BY SpreadFinite
<1>2. IsFiniteSet(R)
    BY <1>1, FS_Difference
<1>3. Spread(S) = R \cup ({q} \X S[q]) /\ R \cap ({q} \X S[q]) = {}
    BY DEF Spread
<1>4. Spread(T) = R \cup ({q} \X T[q]) /\ R \cap ({q} \X T[q]) = {}
    BY DEF Spread
<1> HIDE DEF R
<1>5. Cardinality(Spread(S)) = Cardinality(R) + Cardinality(S[q])
    <2>1. IsFiniteSet({q} \X S[q]) /\ Cardinality({q} \X S[q]) = Cardinality(S[q])
        BY PairCount
    <2>2. Cardinality(R \cup ({q} \X S[q])) = Cardinality(R) + Cardinality({q} \X S[q])
        BY <1>2, <1>3, <2>1, DisjointCount
    <2> QED BY <1>3, <2>1, <2>2
<1>6. Cardinality(Spread(T)) = Cardinality(R) + Cardinality(T[q])
    <2>1. IsFiniteSet({q} \X T[q]) /\ Cardinality({q} \X T[q]) = Cardinality(T[q])
        BY PairCount
    <2>2. Cardinality(R \cup ({q} \X T[q])) = Cardinality(R) + Cardinality({q} \X T[q])
        BY <1>2, <1>4, <2>1, DisjointCount
    <2> QED BY <1>4, <2>1, <2>2
<1>7. Cardinality(R) \in Nat /\ Cardinality(S[q]) \in Nat /\ Cardinality(T[q]) \in Nat
    BY <1>2, FS_CardinalityType
<1> QED BY <1>5, <1>6, <1>7

LEMMA SameCount ==
    ASSUME NEW S, NEW T, IsFiniteSet(T), NEW f \in [S -> T],
           \A x, y \in S : f[x] = f[y] => x = y,
           \A t \in T : \E x \in S : f[x] = t
    PROVE  IsFiniteSet(S) /\ Cardinality(S) = Cardinality(T)
<1>1. f \in Injection(S, T) /\ f \in Surjection(S, T)
    BY DEF Injection, Surjection, IsInjective
<1> QED BY <1>1, FS_Injection

LEMMA Removed ==
    ASSUME NEW Q \in Seq(Msg), NEW i \in 1 .. Len(Q)
    PROVE  /\ RemoveAt(Q, i) \in Seq(Msg) /\ Len(RemoveAt(Q, i)) = Len(Q) - 1
           /\ \A j \in 1 .. Len(Q) - 1 : RemoveAt(Q, i)[j] = IF j < i THEN Q[j] ELSE Q[j + 1]
<1> DEFINE s == SubSeq(Q, 1, i - 1)
           t == SubSeq(Q, i + 1, Len(Q))
<1>1. Len(Q) \in Nat /\ i \in Nat /\ i > 0 /\ \A j \in 1 .. Len(Q) : Q[j] \in Msg
    BY MsgFields
<1>2. s \in Seq(Msg) /\ Len(s) = i - 1 /\ \A j \in 1 .. i - 1 : s[j] = Q[j]
    BY <1>1, SubSeqProperties
<1>3. t \in Seq(Msg) /\ Len(t) = Len(Q) - i /\ \A j \in 1 .. Len(Q) - i : t[j] = Q[j + i]
    BY <1>1, SubSeqProperties
<1>4. RemoveAt(Q, i) = s \o t
    BY DEF RemoveAt
<1> HIDE DEF s, t
<1>5. /\ s \o t \in Seq(Msg) /\ Len(s \o t) = Len(s) + Len(t)
      /\ \A j \in 1 .. Len(s) + Len(t) : (s \o t)[j] = IF j <= Len(s) THEN s[j] ELSE t[j - Len(s)]
    BY <1>2, <1>3, ConcatProperties
<1>6. ASSUME NEW j \in 1 .. Len(Q) - 1 PROVE (s \o t)[j] = IF j < i THEN Q[j] ELSE Q[j + 1]
    <2>1. (s \o t)[j] = IF j <= i - 1 THEN s[j] ELSE t[j - (i - 1)]
        <3> DEFINE c == s \o t
        <3>1. Len(s) = i - 1 /\ Len(t) = Len(Q) - i
            BY <1>2, <1>3
        <3>2. \A k \in 1 .. Len(s) + Len(t) : c[k] = IF k <= Len(s) THEN s[k] ELSE t[k - Len(s)]
            BY <1>5
        <3> HIDE DEF c
        <3>3. j \in 1 .. Len(s) + Len(t)
            BY <1>1, <3>1
        <3>4. c[j] = IF j <= Len(s) THEN s[j] ELSE t[j - Len(s)]
            BY <3>2, <3>3
        <3> QED BY <3>1, <3>4 DEF c
    <2>2. CASE j < i
        <3>1. j \in 1 .. i - 1 /\ j <= i - 1
            BY <1>1, <2>2
        <3> QED BY <1>2, <2>1, <2>2, <3>1
    <2>3. CASE ~(j < i)
        <3>1. j - (i - 1) \in 1 .. Len(Q) - i /\ ~(j <= i - 1) /\ (j - (i - 1)) + i = j + 1
            BY <1>1, <2>3
        <3> QED BY <1>3, <2>1, <2>3, <3>1
    <2> QED BY <2>2, <2>3
<1> QED BY <1>1, <1>2, <1>3, <1>4, <1>5, <1>6

LEMMA TextsFinite ==
    ASSUME NEW Q \in Seq(Msg) PROVE IsFiniteSet(DOMAIN Q) /\ IsFiniteSet(Texts(Q))
<1>1. DOMAIN Q = 1 .. Len(Q) /\ Len(Q) \in Nat
    BY MsgFields
<1>2. IsFiniteSet(DOMAIN Q)
    BY <1>1, FS_Interval
<1> QED BY <1>2, FS_Subset DEF Texts

LEMMA BytesFinite ==
    ASSUME NEW Q \in Seq(Msg) PROVE IsFiniteSet(Bytes(Q))
<1> DEFINE F == {{i} \X (1 .. Q[i].size) : i \in DOMAIN Q}
           f == [i \in DOMAIN Q |-> {i} \X (1 .. Q[i].size)]
<1>1. IsFiniteSet(F)
    <2>1. f \in Surjection(DOMAIN Q, F)
        BY DEF Surjection
    <2> HIDE DEF f, F
    <2> QED BY <2>1, TextsFinite, FS_Surjection
<1>2. ASSUME NEW i \in DOMAIN Q PROVE IsFiniteSet(1 .. Q[i].size)
    <2>1. Q[i].size \in Int /\ 1 \in Int
        BY MsgFields
    <2> QED BY <2>1, FS_Interval
<1>3. ASSUME NEW T \in F PROVE IsFiniteSet(T)
    <2>1. PICK i \in DOMAIN Q : T = {i} \X (1 .. Q[i].size)
        OBVIOUS
    <2> QED BY <1>2, <2>1, PairCount
<1> QED BY <1>1, <1>3, FS_UNION DEF Bytes

LEMMA TextsAppend ==
    ASSUME NEW Q \in Seq(Msg), NEW m \in Msg
    PROVE  Cardinality(Texts(Append(Q, m))) = Cardinality(Texts(Q)) + btoq(m.size)
<1> DEFINE A == Append(Q, m)
           n == Len(Q) + 1
<1>1. A \in Seq(Msg) /\ Len(A) = n /\ A[n] = m /\ \A i \in 1 .. Len(Q) : A[i] = Q[i]
    BY AppendProperties
<1>2. DOMAIN Q = 1 .. Len(Q) /\ DOMAIN A = 1 .. n /\ Len(Q) \in Nat /\ m.size \in Nat
    BY <1>1, MsgFields DEF Msg
<1> HIDE DEF A
<1>3. Texts(A) = IF m.size > 0 THEN Texts(Q) \cup {n} ELSE Texts(Q)
    BY <1>1, <1>2 DEF Texts
<1>4. n \notin Texts(Q) /\ IsFiniteSet(Texts(Q)) /\ Cardinality(Texts(Q)) \in Nat
    BY <1>2, TextsFinite, FS_CardinalityType DEF Texts
<1>5. Cardinality(Texts(Q) \cup {n}) = Cardinality(Texts(Q)) + 1
    BY <1>4, FS_AddElement
<1> QED BY <1>2, <1>3, <1>4, <1>5 DEF btoq, A

LEMMA TextsRemove ==
    ASSUME NEW Q \in Seq(Msg), NEW i \in 1 .. Len(Q)
    PROVE  Cardinality(Texts(RemoveAt(Q, i))) = Cardinality(Texts(Q)) - btoq(Q[i].size)
<1> DEFINE A == RemoveAt(Q, i)
           f == [j \in Texts(A) |-> IF j < i THEN j ELSE j + 1]
<1>1. /\ A \in Seq(Msg) /\ Len(A) = Len(Q) - 1
      /\ \A j \in 1 .. Len(Q) - 1 : A[j] = IF j < i THEN Q[j] ELSE Q[j + 1]
    BY Removed
<1>2. /\ DOMAIN Q = 1 .. Len(Q) /\ DOMAIN A = 1 .. Len(Q) - 1 /\ Len(Q) \in Nat
      /\ \A j \in 1 .. Len(Q) : Q[j].size \in Nat
    BY <1>1, MsgFields
<1>3. IsFiniteSet(Texts(Q)) /\ IsFiniteSet(Texts(Q) \ {i})
    BY TextsFinite, FS_RemoveElement
<1> HIDE DEF A
<1>4. \A j \in Texts(A) : j \in 1 .. Len(Q) - 1 /\ f[j] \in Texts(Q) \ {i}
    BY <1>1, <1>2 DEF Texts
<1>5. \A j, k \in Texts(A) : f[j] = f[k] => j = k
    BY <1>2, <1>4
<1>6. ASSUME NEW t \in Texts(Q) \ {i} PROVE \E j \in Texts(A) : f[j] = t
    <2>1. t \in 1 .. Len(Q) /\ Q[t].size > 0 /\ t # i
        BY <1>2 DEF Texts
    <2>2. CASE t < i
        <3>1. t \in 1 .. Len(Q) - 1 /\ A[t] = Q[t]
            BY <1>1, <1>2, <2>1, <2>2
        <3>2. t \in Texts(A) /\ f[t] = t
            BY <1>2, <2>1, <2>2, <3>1 DEF Texts
        <3> QED BY <3>2
    <2>3. CASE t > i
        <3>1. t - 1 \in 1 .. Len(Q) - 1 /\ A[t - 1] = Q[t]
            BY <1>1, <1>2, <2>1, <2>3
        <3>2. t - 1 \in Texts(A) /\ f[t - 1] = t
            BY <1>2, <2>1, <2>3, <3>1 DEF Texts
        <3> QED BY <3>2
    <2> QED BY <2>1, <2>2, <2>3
<1>7. f \in [Texts(A) -> Texts(Q) \ {i}]
    BY <1>4
<1> HIDE DEF f
<1>8. Cardinality(Texts(A)) = Cardinality(Texts(Q) \ {i})
    BY <1>3, <1>5, <1>6, <1>7, SameCount
<1>9. Cardinality(Texts(Q) \ {i})
      = IF i \in Texts(Q) THEN Cardinality(Texts(Q)) - 1 ELSE Cardinality(Texts(Q))
    BY <1>3, FS_RemoveElement
<1>10. i \in Texts(Q) <=> Q[i].size # 0
    BY <1>2 DEF Texts
<1>11. Cardinality(Texts(Q)) \in Nat
    BY <1>3, FS_CardinalityType
<1> QED BY <1>8, <1>9, <1>10, <1>11 DEF btoq, A

LEMMA BytesAppend ==
    ASSUME NEW Q \in Seq(Msg), NEW m \in Msg
    PROVE  Cardinality(Bytes(Append(Q, m))) = Cardinality(Bytes(Q)) + m.size
<1> DEFINE A == Append(Q, m)
           n == Len(Q) + 1
           B == {n} \X (1 .. m.size)
<1>1. A \in Seq(Msg) /\ Len(A) = n /\ A[n] = m /\ \A i \in 1 .. Len(Q) : A[i] = Q[i]
    BY AppendProperties
<1>2. DOMAIN Q = 1 .. Len(Q) /\ DOMAIN A = 1 .. n /\ Len(Q) \in Nat /\ m.size \in Nat
    BY <1>1, MsgFields DEF Msg
<1> HIDE DEF A
<1>3. Bytes(A) = Bytes(Q) \cup B /\ Bytes(Q) \cap B = {}
    BY <1>1, <1>2 DEF Bytes
<1>4. IsFiniteSet(B) /\ Cardinality(B) = m.size
    <2>1. IsFiniteSet(1 .. m.size) /\ Cardinality(1 .. m.size) = m.size
        BY <1>2, RangeCount
    <2> QED BY <2>1, PairCount
<1> HIDE DEF B
<1> QED BY <1>3, <1>4, BytesFinite, DisjointCount DEF A

LEMMA BytesRemove ==
    ASSUME NEW Q \in Seq(Msg), NEW i \in 1 .. Len(Q)
    PROVE  /\ Cardinality(Bytes(RemoveAt(Q, i))) = Cardinality(Bytes(Q)) - Q[i].size
           /\ Cardinality(Bytes(Q)) - Q[i].size \in Nat
<1> DEFINE A == RemoveAt(Q, i)
           B == {i} \X (1 .. Q[i].size)
           R == Bytes(Q) \ B
           f == [x \in Bytes(A) |-> <<IF x[1] < i THEN x[1] ELSE x[1] + 1, x[2]>>]
<1>1. /\ A \in Seq(Msg) /\ Len(A) = Len(Q) - 1
      /\ \A j \in 1 .. Len(Q) - 1 : A[j] = IF j < i THEN Q[j] ELSE Q[j + 1]
    BY Removed
<1>2. /\ DOMAIN Q = 1 .. Len(Q) /\ DOMAIN A = 1 .. Len(Q) - 1 /\ Len(Q) \in Nat
      /\ \A j \in 1 .. Len(Q) : Q[j].size \in Nat
    BY <1>1, MsgFields
<1>3. IsFiniteSet(Bytes(Q)) /\ IsFiniteSet(R)
    BY BytesFinite, FS_Difference
<1>4. IsFiniteSet(B) /\ Cardinality(B) = Q[i].size
    <2>1. IsFiniteSet(1 .. Q[i].size) /\ Cardinality(1 .. Q[i].size) = Q[i].size
        BY <1>2, RangeCount
    <2> QED BY <2>1, PairCount
<1>5. Bytes(Q) = R \cup B /\ R \cap B = {}
    BY <1>2 DEF Bytes
<1> HIDE DEF A
<1>6. ASSUME NEW x \in Bytes(A)
      PROVE  /\ x[1] \in 1 .. Len(Q) - 1 /\ x[2] \in 1 .. A[x[1]].size /\ x = <<x[1], x[2]>>
             /\ f[x] \in R
    <2>1. PICK j \in 1 .. Len(Q) - 1 : x \in {j} \X (1 .. A[j].size)
        BY <1>2 DEF Bytes
    <2>2. x[1] = j /\ x[2] \in 1 .. A[j].size /\ x = <<x[1], x[2]>>
        BY <2>1
    <2> DEFINE k == IF j < i THEN j ELSE j + 1
    <2>3. k \in 1 .. Len(Q) /\ A[j] = Q[k] /\ k # i /\ f[x] = <<k, x[2]>>
        BY <1>1, <1>2, <2>2
    <2> HIDE DEF k, f
    <2>4. <<k, x[2]>> \in {k} \X (1 .. Q[k].size)
        BY <2>2, <2>3
    <2>5. <<k, x[2]>> \in Bytes(Q)
        BY <1>2, <2>3, <2>4 DEF Bytes
    <2>6. <<k, x[2]>> \notin B
        BY <2>3
    <2> QED BY <2>2, <2>3, <2>5, <2>6
<1>7. \A x, y \in Bytes(A) : f[x] = f[y] => x = y
    <2>1. SUFFICES ASSUME NEW x \in Bytes(A), NEW y \in Bytes(A), f[x] = f[y] PROVE x = y
        OBVIOUS
    <2>2. x[2] = y[2] /\ (IF x[1] < i THEN x[1] ELSE x[1] + 1) = (IF y[1] < i THEN y[1] ELSE y[1] + 1)
        BY <2>1
    <2>3. x[1] \in 1 .. Len(Q) - 1 /\ y[1] \in 1 .. Len(Q) - 1
        BY <1>6, Zenon
    <2>4. x[1] = y[1]
        BY <1>2, <2>2, <2>3
    <2> QED BY <1>6, <2>2, <2>4
<1>8. ASSUME NEW t \in R PROVE \E x \in Bytes(A) : f[x] = t
    <2>1. PICK k \in 1 .. Len(Q) : t \in {k} \X (1 .. Q[k].size)
        BY <1>2 DEF Bytes
    <2>2. t = <<k, t[2]>> /\ t[2] \in 1 .. Q[k].size /\ k # i
        BY <2>1
    <2> DEFINE j == IF k < i THEN k ELSE k - 1
    <2>3. /\ j \in 1 .. Len(Q) - 1 /\ A[j] = Q[k]
          /\ (IF j < i THEN j ELSE j + 1) = k
        BY <1>1, <1>2, <2>2
    <2> HIDE DEF j
    <2>4. <<j, t[2]>> \in {j} \X (1 .. A[j].size)
        BY <2>2, <2>3
    <2>5. <<j, t[2]>> \in Bytes(A)
        BY <1>2, <2>3, <2>4 DEF Bytes
    <2>6. f[<<j, t[2]>>] = t
        BY <2>2, <2>3, <2>5
    <2> QED BY <2>5, <2>6
<1>9. f \in [Bytes(A) -> R]
    BY <1>6
<1> HIDE DEF f, R, B
<1>10. Cardinality(Bytes(A)) = Cardinality(R)
    BY <1>3, <1>7, <1>8, <1>9, SameCount
<1>11. Cardinality(Bytes(Q)) = Cardinality(R) + Cardinality(B)
    BY <1>3, <1>4, <1>5, DisjointCount
<1>12. Cardinality(R) \in Nat /\ Q[i].size \in Nat
    BY <1>2, <1>3, FS_CardinalityType
<1> QED BY <1>4, <1>10, <1>11, <1>12 DEF A


-----------------------------------------------------------------------------
(* The invariant. *)

Calls(p, cmd, args) == /\ call[p].cmd = cmd /\ call[p].q \in Queue /\ call[p].arg \in args

\* What a process in the kernel carries, and where it may sleep.
CallOK(p) ==
    /\ pc[p] \in {"getres", "copyin"} => Calls(p, "snd", Sends)
    /\ pc[p] \in {"findmsg", "copyout"} => Calls(p, "rcv", Receives)
    /\ pc[p] \in {"asleep", "woken"} =>
          \/ /\ Calls(p, "snd", Sends)
             /\ chan[p] \in {<<"room", call[p].q>>, <<"header">>, <<"map">>}
          \/ Calls(p, "rcv", Receives) /\ chan[p] = <<"msg", call[p].q>>

CopyOK(p) == pc[p] \in {"copyin", "copyout"} =>
    /\ lock[call[p].q] = p /\ Valid(p)
    /\ pc[p] = "copyout" => /\ call[p].smp \in DOMAIN queue[call[p].q]
                            /\ queue[call[p].q][call[p].smp] = call[p].text

ReadOK(p) == pc[p] = "asleep" /\ chan[p] = <<"msg", call[p].q>> =>
    rwait[call[p].q] /\ Valid(p) /\ Pick(queue[call[p].q], call[p].arg.msgtyp) = 0

WriteOK(p) == pc[p] = "asleep" =>
    /\ chan[p] = <<"room", call[p].q>> =>
          /\ wwait[call[p].q] /\ Valid(p)
          /\ LowersOnly => Full(call[p].q, call[p].arg.size)
    /\ chan[p] = <<"header">> => headers = 0

ProcOK(p) == CallOK(p) /\ CopyOK(p) /\ ReadOK(p) /\ WriteOK(p)

LockOK(q) == lock[q] # None =>
    /\ lock[q] \in Proc /\ pc[lock[q]] \in {"copyin", "copyout"}
    /\ call[lock[q]].q = q

\* A queue that is not allocated is empty.
EmptyOK == \A q \in Queue : ~alloc[q] => queue[q] = <<>>

\* The processes that carry a text to a queue.
Carriers == {p \in Copying("copyin") : call[p].arg.size > 0}

\* What msg_qbytes may be.
LimitsOK == \A q \in Queue : qbytes[q] \in {msgmnb} \cup Limits

MsgInv ==
    /\ MsgConstants /\ TypeOK /\ call = [p \in Proc |-> call[p]]
    /\ \A p \in Proc : ProcOK(p)
    /\ \A q \in Queue : LockOK(q)
    /\ EmptyOK /\ Accounts

----------------------------------------------------------------------------
(* Consequences. *)

LEMMA InvSleepers == MsgInv => MsgSleepers
<1> SUFFICES ASSUME MsgInv PROVE MsgSleepers
    OBVIOUS
<1>1. ASSUME NEW p \in Proc, pc[p] = "asleep" PROVE ProcOK(p)
    BY DEF MsgInv
<1>2. ReaderNotForgotten
    BY <1>1 DEF ReaderNotForgotten, ProcOK, CallOK, Calls, ReadOK
<1>3. WriterNotForgotten
    BY <1>1 DEF WriterNotForgotten, ProcOK, CallOK, Calls, WriteOK
<1> QED BY <1>2, <1>3 DEF MsgSleepers

LEMMA InvKept == MsgInv => MessagesKept
<1> SUFFICES ASSUME MsgInv PROVE MessagesKept
    OBVIOUS
<1>1. CopiesAlone
    <2>1. ASSUME NEW p \in Copying("copyin") \cup Copying("copyout")
          PROVE  p \in Proc /\ pc[p] \in {"copyin", "copyout"} /\ CopyOK(p)
        BY DEF Copying, MsgInv, ProcOK
    <2>2. ASSUME NEW q \in Queue, lock[q] # None
          PROVE  lock[q] \in Copying("copyin") \cup Copying("copyout") /\ call[lock[q]].q = q
        BY <2>2 DEF MsgInv, LockOK, Copying
    <2> QED BY <2>1, <2>2 DEF CopiesAlone, CopyOK
<1>2. PicksFirst
    <2> SUFFICES ASSUME NEW q \in Queue, NEW a \in Receives
                 PROVE  FirstOf(queue[q], a.msgtyp, Pick(queue[q], a.msgtyp))
        BY DEF PicksFirst
    <2>1. queue[q] \in Seq(Msg) /\ a.msgtyp \in Int
        BY DEF MsgInv, MsgConstants, TypeOK
    <2> QED BY <2>1, PickFirst
<1> QED BY <1>1, <1>2 DEF MessagesKept, MsgInv

LEMMA MsgInit == ASSUME MsgConstants, Init PROVE MsgInv
<1> USE DEF MsgConstants, Init
<1>1. TypeOK
    <2>1. queue \in [Queue -> Seq(Msg)]
        <3>1. <<>> \in Seq(Msg)
            OBVIOUS
        <3> QED BY <3>1
    <2>2. /\ alloc \in [Queue -> BOOLEAN] /\ rwait \in [Queue -> BOOLEAN]
          /\ wwait \in [Queue -> BOOLEAN] /\ wanted \in BOOLEAN
          /\ lock \in [Queue -> Proc \cup {None}] /\ chan \in [Proc -> Chan \cup {NoChan}]
        OBVIOUS
    <2>3. /\ seq \in [Queue -> 0 .. MaxSeq] /\ qbytes \in [Queue -> Nat]
          /\ cbytes \in [Queue -> Nat] /\ headers \in 0 .. msgtql /\ segs \in 0 .. msgseg
        OBVIOUS
    <2>4. pc \in [Proc -> {"user", "getres", "findmsg", "copyin", "copyout", "asleep", "woken"}]
        OBVIOUS
    <2> QED BY <2>1, <2>2, <2>3, <2>4 DEF TypeOK
<1>2. \A p \in Proc : ProcOK(p)
    BY DEF ProcOK, CallOK, CopyOK, ReadOK, WriteOK
<1>3. (\A q \in Queue : LockOK(q)) /\ EmptyOK /\ call = [p \in Proc |-> call[p]]
    BY DEF LockOK, EmptyOK
<1>4. Accounts
    <2>1. /\ \A q \in Queue : Bytes(queue[q]) = {}
          /\ OnQueues = {} /\ TextsOn = {} /\ Copying("copyin") = {} /\ Carriers = {}
        BY DEF Bytes, OnQueues, TextsOn, Texts, Copying, Carriers
    <2>2. Cardinality({}) = 0
        BY FS_EmptySet
    <2>3. headers = msgtql /\ segs = msgseg /\ msgtql \in Nat /\ msgseg \in Nat
        OBVIOUS
    <2>4. \A q \in Queue : cbytes[q] = 0
        OBVIOUS
    <2> HIDE DEF MsgConstants, Init
    <2> QED BY <2>1, <2>2, <2>3, <2>4 DEF Accounts, Carriers
<1> QED BY <1>1, <1>2, <1>3, <1>4 DEF MsgInv

----------------------------------------------------------------------------
(* What a step leaves to the others. *)

LEMMA OtherStep ==
    ASSUME NEW x \in Proc, NEW C, ProcOK(x),
           call'[x] = call[x], chan'[x] = chan[x],
           pc'[x] = IF pc[x] = "asleep" /\ chan[x] \in C THEN "woken" ELSE pc[x],
           pc[x] \in {"copyin", "copyout"} => CopyOK(x)',
           pc[x] = "asleep" /\ chan[x] = <<"msg", call[x].q>> /\ chan[x] \notin C =>
              /\ call[x].q \in Queue /\ call[x].arg \in Receives => ReadOK(x)',
           pc[x] = "asleep" /\ chan[x] = <<"room", call[x].q>> /\ chan[x] \notin C =>
              /\ call[x].q \in Queue /\ call[x].arg \in Sends => WriteOK(x)',
           pc[x] = "asleep" /\ chan[x] = <<"header">> /\ chan[x] \notin C => headers' = 0
    PROVE  ProcOK(x)'
<1>1. CallOK(x)'
    BY DEF ProcOK, CallOK, Calls
<1>2. CopyOK(x)'
    BY DEF CopyOK
<1>3. ReadOK(x)'
    BY DEF ReadOK, ProcOK, CallOK, Calls
<1>4. WriteOK(x)'
    BY DEF WriteOK, ProcOK, CallOK, Calls
<1> QED BY <1>1, <1>2, <1>3, <1>4 DEF ProcOK

\* The step is p's: the others stay where they are, but those asleep on C wake.
Moved(p, C) == \A x \in Proc \ {p} :
    /\ call'[x] = call[x] /\ chan'[x] = chan[x]
    /\ pc'[x] = IF pc[x] = "asleep" /\ chan[x] \in C THEN "woken" ELSE pc[x]

ProcsOK ==
    /\ pc \in [Proc -> {"user", "getres", "findmsg", "copyin", "copyout", "asleep", "woken"}]
    /\ chan \in [Proc -> Chan \cup {NoChan}] /\ call = [p \in Proc |-> call[p]]

LEMMA NoneWoken == ASSUME ProcsOK PROVE pc = Woken({})
BY DEF ProcsOK, Woken

LEMMA WokenType ==
    ASSUME ProcsOK, NEW C
    PROVE  /\ Woken(C) \in [Proc -> {"user", "getres", "findmsg", "copyin", "copyout",
                                     "asleep", "woken"}]
           /\ \A x \in Proc : Woken(C)[x] =
                 IF pc[x] = "asleep" /\ chan[x] \in C THEN "woken" ELSE pc[x]
BY DEF ProcsOK, Woken

LEMMA LeaveMoves ==
    ASSUME ProcsOK, NEW p \in Proc, NEW C, Leave(p, Woken(C))
    PROVE  ProcsOK' /\ Moved(p, C) /\ pc'[p] = "user" /\ ProcOK(p)'
<1> DEFINE at == Woken(C)
<1>1. /\ at \in [Proc -> {"user", "getres", "findmsg", "copyin", "copyout", "asleep", "woken"}]
      /\ \A x \in Proc : at[x] = IF pc[x] = "asleep" /\ chan[x] \in C THEN "woken" ELSE pc[x]
    BY WokenType
<1>2. pc' = [at EXCEPT ![p] = "user"] /\ call' = [call EXCEPT ![p] = NoCall]
      /\ chan' = [chan EXCEPT ![p] = NoChan]
    BY DEF Leave
<1> HIDE DEF at
<1>3. ProcsOK' /\ pc'[p] = "user"
    BY <1>1, <1>2 DEF ProcsOK
<1>4. Moved(p, C)
    BY <1>1, <1>2 DEF ProcsOK, Moved
<1>5. ProcOK(p)'
    BY <1>3 DEF ProcOK, CallOK, CopyOK, ReadOK, WriteOK
<1> QED BY <1>3, <1>4, <1>5

LEMMA SleepMoves ==
    ASSUME ProcsOK, NEW p \in Proc, NEW C, NEW c \in Chan, Sleep(p, c, Woken(C))
    PROVE  ProcsOK' /\ Moved(p, C) /\ pc'[p] = "asleep" /\ chan'[p] = c /\ call'[p] = call[p]
<1> DEFINE at == Woken(C)
<1>1. /\ at \in [Proc -> {"user", "getres", "findmsg", "copyin", "copyout", "asleep", "woken"}]
      /\ \A x \in Proc : at[x] = IF pc[x] = "asleep" /\ chan[x] \in C THEN "woken" ELSE pc[x]
    BY WokenType
<1>2. pc' = [at EXCEPT ![p] = "asleep"] /\ chan' = [chan EXCEPT ![p] = c] /\ call' = call
    BY DEF Sleep
<1> HIDE DEF at
<1> QED BY <1>1, <1>2 DEF ProcsOK, Moved

LEMMA InvProcs == ASSUME MsgInv PROVE ProcsOK
BY DEF MsgInv, TypeOK, ProcsOK

\* Where the queues, their messages and their bytes stay, the others lose nothing.
LEMMA QuietOthers ==
    ASSUME MsgInv, NEW p \in Proc, NEW C, Moved(p, C),
           UNCHANGED <<alloc, seq, qbytes, queue, cbytes>>,
           \A r \in Queue : rwait[r] => rwait'[r],
           \A r \in Queue : wwait[r] /\ <<"room", r>> \notin C => wwait'[r],
           \A r \in Queue : lock[r] \notin {p, None} => lock'[r] = lock[r],
           headers = 0 /\ <<"header">> \notin C => headers' = 0
    PROVE  \A x \in Proc \ {p} : ProcOK(x)'
<1> SUFFICES ASSUME NEW x \in Proc, x # p PROVE ProcOK(x)'
    OBVIOUS
<1>1. /\ ProcOK(x) /\ call'[x] = call[x] /\ chan'[x] = chan[x]
      /\ pc'[x] = IF pc[x] = "asleep" /\ chan[x] \in C THEN "woken" ELSE pc[x]
    BY DEF MsgInv, Moved
<1>2. Valid(x)' <=> Valid(x)
    BY <1>1 DEF Valid
<1>3. ASSUME pc[x] \in {"copyin", "copyout"} PROVE CopyOK(x)'
    <2>1. lock[call[x].q] = x /\ call[x].q \in Queue /\ x # None /\ pc'[x] = pc[x]
        BY <1>1, <1>3 DEF ProcOK, CopyOK, CallOK, Calls, MsgInv, MsgConstants
    <2>2. lock'[call[x].q] = x
        BY <2>1
    <2> QED BY <1>1, <1>2, <2>1, <2>2 DEF ProcOK, CopyOK
<1>4. ASSUME pc[x] = "asleep", chan[x] = <<"msg", call[x].q>>, call[x].q \in Queue PROVE ReadOK(x)'
    BY <1>1, <1>2, <1>4 DEF ProcOK, ReadOK
<1>5. ASSUME pc[x] = "asleep", chan[x] = <<"room", call[x].q>>, chan[x] \notin C, call[x].q \in Queue
      PROVE  WriteOK(x)'
    BY <1>1, <1>2, <1>5 DEF ProcOK, WriteOK, Full
<1>6. ASSUME pc[x] = "asleep", chan[x] = <<"header">>, chan[x] \notin C PROVE headers' = 0
    BY <1>1, <1>6 DEF ProcOK, WriteOK
<1> HIDE DEF ProcOK, CopyOK, ReadOK, WriteOK
<1> QED BY <1>1, <1>3, <1>4, <1>5, <1>6, OtherStep

LEMMA LocksMoved ==
    ASSUME MsgInv, NEW p \in Proc, NEW C, Moved(p, C),
           \A r \in Queue : \/ lock'[r] = None
                            \/ lock'[r] = lock[r] /\ lock[r] # p
                            \/ /\ lock'[r] = p /\ pc'[p] \in {"copyin", "copyout"}
                               /\ call'[p].q = r
    PROVE  \A r \in Queue : LockOK(r)'
<1> SUFFICES ASSUME NEW r \in Queue, lock'[r] # None
             PROVE  /\ lock'[r] \in Proc /\ pc'[lock'[r]] \in {"copyin", "copyout"}
                    /\ call'[lock'[r]].q = r
    BY DEF LockOK
<1>1. CASE lock'[r] = lock[r] /\ lock[r] # p
    <2>1. lock[r] \in Proc /\ pc[lock[r]] \in {"copyin", "copyout"} /\ call[lock[r]].q = r
        BY <1>1 DEF MsgInv, LockOK
    <2> QED BY <1>1, <2>1 DEF Moved
<1>2. CASE lock'[r] = p /\ pc'[p] \in {"copyin", "copyout"} /\ call'[p].q = r
    BY <1>2
<1> QED BY <1>1, <1>2

\* A queue that a process locks is not locked by it already, unless it copies there.
LEMMA HoldsNothing ==
    ASSUME MsgInv, NEW p \in Proc, NEW r \in Queue, lock[r] = p
    PROVE  pc[p] \in {"copyin", "copyout"} /\ call[p].q = r
BY DEF MsgInv, MsgConstants, LockOK

LEMMA CopyingFinite ==
    ASSUME MsgInv
    PROVE  /\ IsFiniteSet(Copying("copyin")) /\ IsFiniteSet(Carriers)
           /\ Cardinality(Copying("copyin")) \in Nat /\ Cardinality(Carriers) \in Nat
<1>1. IsFiniteSet(Copying("copyin")) /\ IsFiniteSet(Carriers)
    BY FS_Subset DEF MsgInv, MsgConstants, Copying, Carriers
<1> QED BY <1>1, FS_CardinalityType

LEMMA CopyingSame ==
    ASSUME MsgInv, NEW p \in Proc, NEW C, Moved(p, C), pc[p] # "copyin", pc'[p] # "copyin"
    PROVE  Copying("copyin")' = Copying("copyin") /\ Carriers' = Carriers
BY DEF Copying, Carriers, Moved

LEMMA CopyingStarts ==
    ASSUME MsgInv, NEW p \in Proc, NEW C, Moved(p, C), pc[p] # "copyin", pc'[p] = "copyin",
           NEW n \in Nat, call'[p].arg.size = n
    PROVE  /\ Cardinality(Copying("copyin")') = Cardinality(Copying("copyin")) + 1
           /\ Cardinality(Carriers') = Cardinality(Carriers) + btoq(n)
<1>1. Copying("copyin")' = Copying("copyin") \cup {p} /\ p \notin Copying("copyin")
    BY DEF Copying, Moved
<1>2. Carriers' = (IF n > 0 THEN Carriers \cup {p} ELSE Carriers) /\ p \notin Carriers
    BY DEF Copying, Carriers, Moved
<1>3. IsFiniteSet(Copying("copyin")) /\ IsFiniteSet(Carriers) /\ Cardinality(Carriers) \in Nat
    BY CopyingFinite
<1>4. Cardinality(Copying("copyin") \cup {p}) = Cardinality(Copying("copyin")) + 1
      /\ Cardinality(Carriers \cup {p}) = Cardinality(Carriers) + 1
    BY <1>1, <1>2, <1>3, FS_AddElement
<1>5. Cardinality(Carriers') = Cardinality(Carriers) + btoq(n)
    <2>1. CASE n > 0
        BY <1>2, <1>4, <2>1 DEF btoq
    <2>2. CASE n = 0
        BY <1>2, <1>3, <2>2 DEF btoq
    <2> QED BY <2>1, <2>2
<1> QED BY <1>1, <1>4, <1>5

LEMMA CopyingEnds ==
    ASSUME MsgInv, NEW p \in Proc, NEW C, Moved(p, C), pc[p] = "copyin", pc'[p] # "copyin",
           NEW n \in Nat, call[p].arg.size = n
    PROVE  /\ Cardinality(Copying("copyin")') = Cardinality(Copying("copyin")) - 1
           /\ Cardinality(Carriers') = Cardinality(Carriers) - btoq(n)
           /\ Cardinality(Copying("copyin")') \in Nat /\ Cardinality(Carriers') \in Nat
<1>1. Copying("copyin")' = Copying("copyin") \ {p} /\ p \in Copying("copyin")
    BY DEF Copying, Moved
<1>2. Carriers' = (IF n > 0 THEN Carriers \ {p} ELSE Carriers) /\ (n > 0 => p \in Carriers)
    BY DEF Copying, Carriers, Moved
<1>3. IsFiniteSet(Copying("copyin")) /\ IsFiniteSet(Carriers) /\ Cardinality(Carriers) \in Nat
    BY CopyingFinite
<1>4. /\ IsFiniteSet(Copying("copyin") \ {p})
      /\ Cardinality(Copying("copyin") \ {p}) = Cardinality(Copying("copyin")) - 1
    BY <1>1, <1>3, FS_RemoveElement
<1>5. IsFiniteSet(Carriers') /\ Cardinality(Carriers') = Cardinality(Carriers) - btoq(n)
    <2>1. CASE n > 0
        <3>1. IsFiniteSet(Carriers \ {p}) /\ Cardinality(Carriers \ {p}) = Cardinality(Carriers) - 1
            BY <1>2, <1>3, <2>1, FS_RemoveElement
        <3> QED BY <1>2, <2>1, <3>1 DEF btoq
    <2>2. CASE n = 0
        BY <1>2, <1>3, <2>2 DEF btoq
    <2> QED BY <2>1, <2>2
<1>6. Cardinality(Copying("copyin")') \in Nat /\ Cardinality(Carriers') \in Nat
    BY <1>1, <1>4, <1>5, FS_CardinalityType
<1> QED BY <1>1, <1>4, <1>5, <1>6

LEMMA QueueCounts ==
    ASSUME MsgInv
    PROVE  /\ Cardinality(OnQueues) \in Nat /\ Cardinality(TextsOn) \in Nat
           /\ headers \in Nat /\ segs \in Nat
           /\ headers + Cardinality(OnQueues) + Cardinality(Copying("copyin")) = msgtql
           /\ segs + Cardinality(TextsOn) + Cardinality(Carriers) = msgseg
<1> DEFINE S == [r \in Queue |-> DOMAIN queue[r]]
           T == [r \in Queue |-> Texts(queue[r])]
<1>1. \A r \in Queue : IsFiniteSet(S[r]) /\ IsFiniteSet(T[r])
    BY TextsFinite DEF MsgInv, TypeOK
<1>2. OnQueues = Spread(S) /\ TextsOn = Spread(T)
    BY DEF OnQueues, TextsOn, Spread
<1>3. IsFiniteSet(Queue)
    BY DEF MsgInv, MsgConstants
<1> HIDE DEF S, T
<1>4. IsFiniteSet(OnQueues) /\ IsFiniteSet(TextsOn)
    BY <1>1, <1>2, <1>3, SpreadFinite
<1>5. Cardinality(OnQueues) \in Nat /\ Cardinality(TextsOn) \in Nat
    BY <1>4, FS_CardinalityType
<1>6. headers \in Nat /\ segs \in Nat
    BY DEF MsgInv, TypeOK, MsgConstants
<1> QED BY <1>5, <1>6 DEF MsgInv, Accounts, Carriers

LEMMA QueueChanges ==
    ASSUME MsgInv, NEW q \in Queue, NEW Q \in Seq(Msg), queue' = [queue EXCEPT ![q] = Q]
    PROVE  /\ queue' \in [Queue -> Seq(Msg)]
           /\ Cardinality(OnQueues') = Cardinality(OnQueues) - Len(queue[q]) + Len(Q)
           /\ Cardinality(TextsOn') = Cardinality(TextsOn) - Cardinality(Texts(queue[q]))
                                                          + Cardinality(Texts(Q))
           /\ Cardinality(OnQueues') \in Nat /\ Cardinality(TextsOn') \in Nat
           /\ Cardinality(Texts(queue[q])) \in Nat /\ Cardinality(Texts(Q)) \in Nat
<1> DEFINE S == [r \in Queue |-> DOMAIN queue[r]]
           T == [r \in Queue |-> Texts(queue[r])]
           S1 == [r \in Queue |-> DOMAIN queue'[r]]
           T1 == [r \in Queue |-> Texts(queue'[r])]
<1>1. queue \in [Queue -> Seq(Msg)] /\ queue' \in [Queue -> Seq(Msg)] /\ queue'[q] = Q
    BY DEF MsgInv, TypeOK
<1>2. \A r \in Queue : /\ IsFiniteSet(S[r]) /\ IsFiniteSet(T[r])
                        /\ IsFiniteSet(S1[r]) /\ IsFiniteSet(T1[r])
    BY <1>1, TextsFinite
<1>3. /\ OnQueues = Spread(S) /\ TextsOn = Spread(T)
      /\ OnQueues' = Spread(S1) /\ TextsOn' = Spread(T1)
    BY DEF OnQueues, TextsOn, Spread
<1>4. IsFiniteSet(Queue)
    BY DEF MsgInv, MsgConstants
<1>5. \A r \in Queue : r # q => S1[r] = S[r] /\ T1[r] = T[r]
    BY <1>1
<1>6. S[q] = 1 .. Len(queue[q]) /\ S1[q] = 1 .. Len(Q)
    BY <1>1, MsgFields
<1>7. T[q] = Texts(queue[q]) /\ T1[q] = Texts(Q)
    BY <1>1
<1> HIDE DEF S, T, S1, T1
<1>8. Cardinality(S[q]) = Len(queue[q]) /\ Cardinality(S1[q]) = Len(Q)
    <2>1. Len(queue[q]) \in Nat /\ Len(Q) \in Nat
        BY <1>1, MsgFields
    <2> QED BY <1>6, <2>1, RangeCount
<1>9. /\ Cardinality(Spread(S1)) \in Nat
      /\ Cardinality(Spread(S1)) = Cardinality(Spread(S)) - Cardinality(S[q]) + Cardinality(S1[q])
    BY <1>2, <1>4, <1>5, SpreadChange
<1>10. /\ Cardinality(Spread(T1)) \in Nat /\ Cardinality(T[q]) \in Nat /\ Cardinality(T1[q]) \in Nat
       /\ Cardinality(Spread(T1)) = Cardinality(Spread(T)) - Cardinality(T[q]) + Cardinality(T1[q])
    BY <1>2, <1>4, <1>5, SpreadChange
<1> QED BY <1>1, <1>3, <1>7, <1>8, <1>9, <1>10

LEMMA AccountsSame ==
    ASSUME MsgInv, NEW p \in Proc, NEW C, Moved(p, C), pc[p] # "copyin", pc'[p] # "copyin",
           UNCHANGED <<queue, cbytes, headers, segs>>
    PROVE  Accounts'
<1>1. Copying("copyin")' = Copying("copyin") /\ Carriers' = Carriers
    BY CopyingSame
<1>2. OnQueues' = OnQueues /\ TextsOn' = TextsOn
    BY DEF OnQueues, TextsOn
<1>3. \A r \in Queue : Bytes(queue'[r]) = Bytes(queue[r])
    OBVIOUS
<1> QED BY <1>1, <1>2, <1>3 DEF MsgInv, Accounts, Carriers

\* An action that changes neither queues nor pools.
LEMMA QuietStep ==
    ASSUME MsgInv, NEW p \in Proc, NEW C, Moved(p, C), ProcsOK', ProcOK(p)',
           pc[p] # "copyin", pc'[p] # "copyin",
           UNCHANGED <<alloc, seq, qbytes, queue, cbytes, headers, segs>>,
           rwait' \in [Queue -> BOOLEAN], wwait' \in [Queue -> BOOLEAN], wanted' \in BOOLEAN,
           lock' \in [Queue -> Proc \cup {None}],
           \A r \in Queue : rwait[r] => rwait'[r],
           \A r \in Queue : wwait[r] /\ <<"room", r>> \notin C => wwait'[r],
           \A r \in Queue : lock[r] \notin {p, None} => lock'[r] = lock[r],
           \A r \in Queue : \/ lock'[r] = None
                            \/ lock'[r] = lock[r] /\ lock[r] # p
                            \/ /\ lock'[r] = p /\ pc'[p] \in {"copyin", "copyout"}
                               /\ call'[p].q = r
    PROVE  MsgInv'
<1>1. TypeOK' /\ call' = [x \in Proc |-> call'[x]]
    BY DEF MsgInv, TypeOK, ProcsOK
<1>2. \A x \in Proc \ {p} : ProcOK(x)'
    BY QuietOthers
<1>3. \A x \in Proc : ProcOK(x)'
    BY <1>2
<1>4. \A r \in Queue : LockOK(r)'
    BY LocksMoved
<1>5. EmptyOK'
    BY DEF MsgInv, EmptyOK
<1>6. Accounts'
    BY AccountsSame
<1>7. MsgConstants'
    BY DEF MsgInv, MsgConstants
<1> QED BY <1>1, <1>3, <1>4, <1>5, <1>6, <1>7 DEF MsgInv
----------------------------------------------------------------------------
(* The actions. *)

LEMMA Channels ==
    ASSUME NEW q \in Queue
    PROVE  <<"msg", q>> \in Chan /\ <<"room", q>> \in Chan /\ <<"header">> \in Chan /\ <<"map">> \in Chan
BY DEF Chan

LEMMA InvTypes ==
    ASSUME MsgInv
    PROVE  /\ rwait \in [Queue -> BOOLEAN] /\ wwait \in [Queue -> BOOLEAN] /\ wanted \in BOOLEAN
           /\ lock \in [Queue -> Proc \cup {None}]
BY DEF MsgInv, TypeOK

\* Nobody who does not copy holds a lock.
LEMMA HoldsNone ==
    ASSUME MsgInv, NEW p \in Proc, pc[p] \notin {"copyin", "copyout"}
    PROVE  \A r \in Queue : lock[r] # p
BY HoldsNothing

LEMMA Unlocks ==
    ASSUME MsgInv, NEW p \in Proc, lock' = [lock EXCEPT ![call[p].q] = None],
           call[p].q \in Queue, lock[call[p].q] = p
    PROVE  /\ lock' \in [Queue -> Proc \cup {None}] /\ lock'[call[p].q] = None
           /\ \A r \in Queue : lock[r] \notin {p, None} => lock'[r] = lock[r]
           /\ \A r \in Queue : lock'[r] = None \/ (lock'[r] = lock[r] /\ lock[r] # p)
<1>1. lock \in [Queue -> Proc \cup {None}] /\ \A r \in Queue : r # call[p].q => lock[r] # p
    BY HoldsNothing, InvTypes
<1> DEFINE q == call[p].q
<1>2. q \in Queue /\ lock' = [lock EXCEPT ![q] = None] /\ \A r \in Queue : r # q => lock[r] # p
    BY <1>1
<1> HIDE DEF q
<1>3. /\ lock' \in [Queue -> Proc \cup {None}] /\ lock'[q] = None
      /\ \A r \in Queue : r # q => lock'[r] = lock[r]
    BY <1>1, <1>2
<1>4. lock[q] = p
    BY DEF q
<1>5. \A r \in Queue : lock[r] \notin {p, None} => lock'[r] = lock[r]
    BY <1>3, <1>4
<1>6. \A r \in Queue : lock'[r] = None \/ (lock'[r] = lock[r] /\ lock[r] # p)
    BY <1>2, <1>3
<1> QED BY <1>3, <1>5, <1>6 DEF q

LEMMA LeaveStep ==
    ASSUME MsgInv, NEW p \in Proc, NEW C, pc[p] \notin {"copyin", "copyout"}, Leave(p, Woken(C)),
           UNCHANGED <<hdrs, lock, queue, cbytes, pools>>
    PROVE  MsgInv'
<1>1. ProcsOK' /\ Moved(p, C) /\ pc'[p] = "user" /\ ProcOK(p)'
    BY InvProcs, LeaveMoves
<1>2. \A r \in Queue : lock[r] # p
    BY HoldsNone
<1>3. UNCHANGED <<alloc, seq, qbytes, rwait, wwait, lock, queue, cbytes, headers, segs, wanted>>
    BY DEF hdrs, pools
<1>4. /\ rwait' \in [Queue -> BOOLEAN] /\ wwait' \in [Queue -> BOOLEAN] /\ wanted' \in BOOLEAN
      /\ lock' \in [Queue -> Proc \cup {None}]
    BY <1>3, InvTypes
<1> QED BY <1>1, <1>2, <1>3, <1>4, QuietStep

LEMMA StepSndFails == ASSUME MsgInv, NEW p \in Proc, SndFails(p) PROVE MsgInv'
<1>1. pc[p] \notin {"copyin", "copyout"} /\ UNCHANGED <<hdrs, lock, queue, cbytes, pools>>
    BY DEF SndFails, Getres
<1>2. Leave(p, Woken({})) \/ Leave(p, Woken({<<"header">>}))
    <2>1. pc = Woken({})
        BY NoneWoken, InvProcs
    <2>2. Leave(p, pc) \/ Leave(p, Woken({<<"header">>}))
        BY Zenon DEF SndFails
    <2> QED BY <2>1, <2>2
<1> QED BY <1>1, <1>2, LeaveStep

LEMMA StepRcvFails == ASSUME MsgInv, NEW p \in Proc, RcvFails(p) PROVE MsgInv'
<1>1. /\ pc[p] \notin {"copyin", "copyout"} /\ UNCHANGED <<hdrs, lock, queue, cbytes, pools>>
      /\ Leave(p, pc)
    BY DEF RcvFails, Findmsg
<1>2. Leave(p, Woken({}))
    BY <1>1, NoneWoken, InvProcs
<1> QED BY <1>1, <1>2, LeaveStep

LEMMA StepLockInterrupted == ASSUME MsgInv, NEW p \in Proc, LockInterrupted(p) PROVE MsgInv'
<1>1. /\ pc[p] \notin {"copyin", "copyout"} /\ UNCHANGED <<hdrs, lock, queue, cbytes, pools>>
      /\ Leave(p, pc)
    BY DEF LockInterrupted
<1>2. Leave(p, Woken({}))
    BY <1>1, NoneWoken, InvProcs
<1> QED BY <1>1, <1>2, LeaveStep

LEMMA StepRcvFaults == ASSUME MsgInv, NEW p \in Proc, RcvFaults(p) PROVE MsgInv'
<1> DEFINE q == call[p].q
<1>1. /\ pc[p] = "copyout" /\ lock' = [lock EXCEPT ![q] = None]
      /\ UNCHANGED <<hdrs, queue, cbytes, pools>> /\ Leave(p, pc)
    BY DEF RcvFaults
<1>2. ProcsOK' /\ Moved(p, {}) /\ pc'[p] = "user" /\ ProcOK(p)'
    BY <1>1, NoneWoken, InvProcs, LeaveMoves
<1>3. q \in Queue /\ lock[q] = p
    BY <1>1 DEF MsgInv, ProcOK, CallOK, Calls, CopyOK
<1> HIDE DEF q
<1>5. /\ lock' \in [Queue -> Proc \cup {None}]
      /\ \A r \in Queue : lock[r] \notin {p, None} => lock'[r] = lock[r]
      /\ \A r \in Queue : lock'[r] = None \/ (lock'[r] = lock[r] /\ lock[r] # p)
    BY <1>1, <1>3, Unlocks DEF q
<1>6. UNCHANGED <<alloc, seq, qbytes, rwait, wwait, queue, cbytes, headers, segs, wanted>>
    BY <1>1 DEF hdrs, pools
<1>7. rwait' \in [Queue -> BOOLEAN] /\ wwait' \in [Queue -> BOOLEAN] /\ wanted' \in BOOLEAN
    BY <1>6, InvTypes
<1>8. pc[p] # "copyin" /\ pc'[p] # "copyin"
    BY <1>1, <1>2
<1> QED BY <1>2, <1>5, <1>6, <1>7, <1>8, QuietStep

LEMMA EntryStep ==
    ASSUME MsgInv, NEW p \in Proc, NEW pos, NEW cmd, NEW args, NEW q \in Queue, NEW a \in args,
           \/ pos = "getres" /\ cmd = "snd" /\ args = Sends
           \/ pos = "findmsg" /\ cmd = "rcv" /\ args = Receives,
           pc[p] = "user", pc' = [pc EXCEPT ![p] = pos],
           call' = [call EXCEPT ![p] = [cmd |-> cmd, q |-> q, id |-> seq[q], arg |-> a]],
           UNCHANGED <<hdrs, lock, queue, cbytes, pools, chan>>
    PROVE  MsgInv'
<1>1. ProcsOK' /\ Moved(p, {})
    BY InvProcs DEF ProcsOK, Moved
<1>2. /\ pc'[p] = pos /\ call'[p].cmd = cmd /\ call'[p].q \in Queue /\ call'[p].arg \in args
    BY InvProcs DEF ProcsOK
<1>3. ProcOK(p)'
    BY <1>2 DEF ProcOK, CallOK, Calls, CopyOK, ReadOK, WriteOK
<1>4. \A r \in Queue : lock[r] # p
    BY HoldsNone
<1>5. UNCHANGED <<alloc, seq, qbytes, rwait, wwait, lock, queue, cbytes, headers, segs, wanted>>
    BY DEF hdrs, pools
<1>6. /\ rwait' \in [Queue -> BOOLEAN] /\ wwait' \in [Queue -> BOOLEAN] /\ wanted' \in BOOLEAN
      /\ lock' \in [Queue -> Proc \cup {None}]
    BY <1>5, InvTypes
<1> QED BY <1>1, <1>2, <1>3, <1>4, <1>5, <1>6, QuietStep

LEMMA StepSndEntry ==
    ASSUME MsgInv, NEW p \in Proc, NEW q \in Queue, NEW a \in Sends, MsgsndEntry(p, q, a) PROVE MsgInv'
BY EntryStep DEF MsgsndEntry

LEMMA StepRcvEntry ==
    ASSUME MsgInv, NEW p \in Proc, NEW q \in Queue, NEW a \in Receives, MsgrcvEntry(p, q, a) PROVE MsgInv'
BY EntryStep DEF MsgrcvEntry

LEMMA SndSleepsOn ==
    ASSUME MsgInv, NEW p \in Proc, pc[p] \in {"getres", "woken"}, call[p].cmd = "snd", Valid(p),
           UNCHANGED <<alloc, seq, qbytes, rwait, lock, queue, cbytes, headers, segs>>,
           wanted' \in BOOLEAN,
           NEW C, NEW c \in {<<"room", call[p].q>>, <<"header">>, <<"map">>},
           Sleep(p, c, Woken(C)),
           IF c = <<"room", call[p].q>>
           THEN wwait' = [wwait EXCEPT ![call[p].q] = TRUE] /\ Full(call[p].q, call[p].arg.size)
           ELSE UNCHANGED wwait,
           c = <<"header">> => headers = 0
    PROVE  MsgInv'
<1> DEFINE q == call[p].q
           a == call[p].arg
<1>2. q \in Queue /\ a \in Sends
    BY DEF MsgInv, ProcOK, CallOK, Calls
<1>3. /\ c = <<"room", q>> => wwait' = [wwait EXCEPT ![q] = TRUE] /\ Full(q, a.size)
      /\ c # <<"room", q>> => UNCHANGED wwait
      /\ c \in {<<"room", q>>, <<"header">>, <<"map">>}
    OBVIOUS
<1>4. c \in Chan
    BY <1>2, <1>3, Channels
<1>5. ProcsOK' /\ Moved(p, C) /\ pc'[p] = "asleep" /\ chan'[p] = c /\ call'[p] = call[p]
    BY <1>4, InvProcs, SleepMoves
<1>6. wwait \in [Queue -> BOOLEAN] /\ rwait' \in [Queue -> BOOLEAN] /\ lock' \in [Queue -> Proc \cup {None}]
    BY InvTypes
<1>7. wwait' \in [Queue -> BOOLEAN] /\ \A r \in Queue : wwait[r] => wwait'[r]
    <2>1. CASE c = <<"room", q>>
        BY <1>2, <1>3, <1>6, <2>1
    <2>2. CASE c # <<"room", q>>
        BY <1>3, <1>6, <2>2
    <2> QED BY <2>1, <2>2
<1>8. ProcOK(p)'
    <2>1. CallOK(p)'
        BY <1>2, <1>3, <1>5 DEF CallOK, Calls
    <2>2. CopyOK(p)' /\ ReadOK(p)'
        BY <1>3, <1>5 DEF CopyOK, ReadOK
    <2>3. Valid(p)'
        BY <1>5 DEF Valid
    <2>4. WriteOK(p)'
        <3>1. CASE c = <<"room", q>>
            <4>1. wwait'[q] /\ Full(q, a.size)'
                BY <1>2, <1>3, <1>6, <1>5, <3>1 DEF Full
            <4> QED BY <1>3, <1>5, <2>3, <3>1, <4>1 DEF WriteOK
        <3>2. CASE c # <<"room", q>>
            BY <1>3, <1>5, <3>2 DEF WriteOK
        <3> QED BY <3>1, <3>2
    <2> QED BY <2>1, <2>2, <2>4 DEF ProcOK
<1>9. \A r \in Queue : lock[r] # p
    BY HoldsNone
<1> QED BY <1>3, <1>5, <1>6, <1>7, <1>8, <1>9, QuietStep

LEMMA StepSndSleeps == ASSUME MsgInv, NEW p \in Proc, SndSleeps(p) PROVE MsgInv'
<1> DEFINE q == call[p].q
           a == call[p].arg
<1>1. /\ pc[p] \in {"getres", "woken"} /\ call[p].cmd = "snd" /\ Valid(p)
      /\ UNCHANGED <<alloc, seq, qbytes, rwait, lock, queue, cbytes, headers, segs>>
    BY DEF SndSleeps, Getres
<1>2. pc = Woken({}) /\ wanted \in BOOLEAN
    BY NoneWoken, InvProcs, InvTypes
<1>3. CASE /\ Full(q, a.size) /\ wwait' = [wwait EXCEPT ![q] = TRUE]
           /\ Sleep(p, <<"room", q>>, pc) /\ UNCHANGED wanted
    <2>1. Sleep(p, <<"room", q>>, Woken({})) /\ wanted' \in BOOLEAN /\ <<"room", q>> # <<"header">>
        BY <1>2, <1>3
    <2> QED BY <1>1, <1>3, <2>1, SndSleepsOn
<1>4. CASE /\ NoHeader /\ Sleep(p, <<"header">>, pc) /\ UNCHANGED <<wwait, wanted>>
    <2>1. Sleep(p, <<"header">>, Woken({})) /\ wanted' \in BOOLEAN /\ <<"room", q>> # <<"header">>
        BY <1>2, <1>4
    <2> QED BY <1>1, <1>4, <2>1, SndSleepsOn DEF NoHeader
<1>5. CASE /\ wanted' = TRUE /\ UNCHANGED wwait
           /\ Sleep(p, <<"map">>, Woken(When(headers = 1, {<<"header">>})))
    <2>1. wanted' \in BOOLEAN /\ <<"room", q>> # <<"map">> /\ <<"map">> # <<"header">>
        BY <1>5
    <2> QED BY <1>1, <1>5, <2>1, SndSleepsOn
<1> QED BY <1>3, <1>4, <1>5 DEF SndSleeps

LEMMA StepRcvSleeps == ASSUME MsgInv, NEW p \in Proc, RcvSleeps(p) PROVE MsgInv'
<1> DEFINE q == call[p].q
<1>1. /\ pc[p] \in {"findmsg", "woken"} /\ call[p].cmd = "rcv" /\ Valid(p)
      /\ Pick(queue[q], call[p].arg.msgtyp) = 0
      /\ rwait' = [rwait EXCEPT ![q] = TRUE] /\ Sleep(p, <<"msg", q>>, pc)
      /\ UNCHANGED <<alloc, seq, qbytes, wwait, lock, queue, cbytes, pools>>
    BY DEF RcvSleeps, Findmsg
<1>2. q \in Queue /\ call[p].arg \in Receives
    BY <1>1 DEF MsgInv, ProcOK, CallOK, Calls
<1>3. ProcsOK' /\ Moved(p, {}) /\ pc'[p] = "asleep" /\ chan'[p] = <<"msg", q>> /\ call'[p] = call[p]
    BY <1>1, <1>2, NoneWoken, InvProcs, SleepMoves, Channels
<1>4. UNCHANGED <<headers, segs, wanted>>
    BY <1>1 DEF pools
<1>5. /\ rwait \in [Queue -> BOOLEAN] /\ wwait' \in [Queue -> BOOLEAN] /\ wanted' \in BOOLEAN
      /\ lock' \in [Queue -> Proc \cup {None}]
    BY <1>1, <1>4, InvTypes
<1>6. rwait' \in [Queue -> BOOLEAN] /\ \A r \in Queue : rwait[r] => rwait'[r]
    BY <1>1, <1>2, <1>5
<1>7. ProcOK(p)'
    <2>1. Valid(p)' /\ rwait'[q] /\ Pick(queue'[q], call'[p].arg.msgtyp) = 0
        BY <1>1, <1>2, <1>3, <1>5 DEF Valid
    <2>2. CallOK(p)'
        BY <1>1, <1>2, <1>3 DEF CallOK, Calls
    <2>3. CopyOK(p)' /\ ReadOK(p)' /\ WriteOK(p)'
        BY <1>3, <2>1 DEF CopyOK, ReadOK, WriteOK
    <2> QED BY <2>2, <2>3 DEF ProcOK
<1>8. \A r \in Queue : lock[r] # p
    BY <1>1, HoldsNone
<1> QED BY <1>1, <1>3, <1>4, <1>5, <1>6, <1>7, <1>8, QuietStep

LEMMA Locks ==
    ASSUME MsgInv, NEW p \in Proc, pc[p] \notin {"copyin", "copyout"}, NEW q \in Queue, FreeLock(q),
           lock' = [lock EXCEPT ![q] = p], pc'[p] \in {"copyin", "copyout"}, call'[p].q = q
    PROVE  /\ lock' \in [Queue -> Proc \cup {None}] /\ lock'[q] = p
           /\ \A r \in Queue : lock[r] \notin {p, None} => lock'[r] = lock[r]
           /\ \A r \in Queue : \/ lock'[r] = lock[r] /\ lock[r] # p
                               \/ /\ lock'[r] = p /\ pc'[p] \in {"copyin", "copyout"}
                                  /\ call'[p].q = r
<1>1. lock \in [Queue -> Proc \cup {None}] /\ \A r \in Queue : lock[r] # p
    BY HoldsNone, InvTypes
<1>2. lock'[q] = p /\ lock[q] = None /\ \A r \in Queue : r # q => lock'[r] = lock[r]
    BY <1>1 DEF FreeLock
<1> QED BY <1>1, <1>2

LEMMA PickIn ==
    ASSUME NEW Q \in Seq(Msg), NEW typ \in Int, Pick(Q, typ) # 0
    PROVE  Pick(Q, typ) \in DOMAIN Q
BY PickFirst DEF FirstOf, Suits

LEMMA StepRcvFinds == ASSUME MsgInv, NEW p \in Proc, RcvFinds(p) PROVE MsgInv'
<1> DEFINE q == call[p].q
           a == call[p].arg
           i == Pick(queue[q], a.msgtyp)
<1>1. /\ pc[p] \in {"findmsg", "woken"} /\ call[p].cmd = "rcv" /\ FreeLock(q) /\ Valid(p) /\ i # 0
      /\ lock' = [lock EXCEPT ![q] = p] /\ pc' = [pc EXCEPT ![p] = "copyout"]
      /\ call' = [call EXCEPT ![p] = [cmd |-> "rcv", q |-> q, id |-> seq[q],
                        arg |-> a, smp |-> i, text |-> queue[q][i]]]
      /\ chan' = [chan EXCEPT ![p] = NoChan]
      /\ UNCHANGED <<hdrs, queue, cbytes, pools>>
    BY DEF RcvFinds, Findmsg
<1>2. q \in Queue /\ a \in Receives
    BY <1>1 DEF MsgInv, ProcOK, CallOK, Calls
<1>3. i \in DOMAIN queue[q]
    <2>1. queue[q] \in Seq(Msg) /\ a.msgtyp \in Int
        BY <1>2 DEF MsgInv, MsgConstants, TypeOK
    <2> QED BY <1>1, <2>1, PickIn
<1> HIDE DEF i
<1>4. ProcsOK' /\ Moved(p, {}) /\ pc'[p] = "copyout"
    BY <1>1, InvProcs DEF ProcsOK, Moved
<1>5. /\ call'[p].cmd = "rcv" /\ call'[p].q = q /\ call'[p].id = seq[q] /\ call'[p].arg = a
      /\ call'[p].smp = i /\ call'[p].text = queue[q][i]
    BY <1>1, InvProcs DEF ProcsOK
<1>6. UNCHANGED <<alloc, seq, qbytes, rwait, wwait, queue, cbytes, headers, segs, wanted>>
    BY <1>1 DEF hdrs, pools
<1>7. rwait' \in [Queue -> BOOLEAN] /\ wwait' \in [Queue -> BOOLEAN] /\ wanted' \in BOOLEAN
    BY <1>6, InvTypes
<1>8. /\ lock' \in [Queue -> Proc \cup {None}] /\ lock'[q] = p
      /\ \A r \in Queue : lock[r] \notin {p, None} => lock'[r] = lock[r]
      /\ \A r \in Queue : \/ lock'[r] = lock[r] /\ lock[r] # p
                          \/ /\ lock'[r] = p /\ pc'[p] \in {"copyin", "copyout"}
                             /\ call'[p].q = r
    BY <1>1, <1>2, <1>4, <1>5, Locks
<1>9. ProcOK(p)'
    <2>1. CallOK(p)'
        BY <1>2, <1>4, <1>5 DEF CallOK, Calls
    <2>2. Valid(p)'
        BY <1>1, <1>5, <1>6 DEF Valid
    <2>3. CopyOK(p)'
        BY <1>3, <1>5, <1>6, <1>8, <2>2 DEF CopyOK
    <2> QED BY <1>4, <2>1, <2>3 DEF ProcOK, ReadOK, WriteOK
<1>10. pc[p] # "copyin" /\ pc'[p] # "copyin"
    BY <1>1, <1>4
<1> QED BY <1>4, <1>6, <1>7, <1>8, <1>9, <1>10, QuietStep

LEMMA StepInterrupted == ASSUME MsgInv, NEW p \in Proc, Interrupted(p) PROVE MsgInv'
<1> DEFINE q == call[p].q
<1>1. pc[p] \in {"asleep", "woken"} /\ UNCHANGED <<alloc, seq, qbytes, rwait, lock, queue, cbytes, pools>>
    BY DEF Interrupted
<1>2. q \in Queue
    BY <1>1 DEF MsgInv, ProcOK, CallOK, Calls
<1>3. CASE UNCHANGED wwait /\ Leave(p, pc)
    <2>1. Leave(p, Woken({}))
        BY <1>3, NoneWoken, InvProcs
    <2>2. UNCHANGED <<hdrs, lock, queue, cbytes, pools>>
        BY <1>1, <1>3 DEF hdrs
    <2> QED BY <1>1, <2>1, <2>2, LeaveStep
<1>4. CASE /\ chan[p] = <<"room", q>> /\ wwait' = [wwait EXCEPT ![q] = FALSE]
           /\ Leave(p, Woken({chan[p]}))
    <2> DEFINE C == {<<"room", q>>}
    <2>1. ProcsOK' /\ Moved(p, C) /\ pc'[p] = "user" /\ ProcOK(p)'
        BY <1>4, InvProcs, LeaveMoves
    <2>2. \A r \in Queue : lock[r] # p
        BY <1>1, HoldsNone
    <2>3. UNCHANGED <<headers, segs, wanted>>
        BY <1>1 DEF pools
    <2>4. /\ rwait' \in [Queue -> BOOLEAN] /\ wwait \in [Queue -> BOOLEAN] /\ wanted' \in BOOLEAN
          /\ lock' \in [Queue -> Proc \cup {None}]
        BY <1>1, <2>3, InvTypes
    <2>5. wwait' \in [Queue -> BOOLEAN] /\ \A r \in Queue : wwait[r] /\ <<"room", r>> \notin C => wwait'[r]
        BY <1>2, <1>4, <2>4
    <2> HIDE DEF C
    <2> QED BY <1>1, <2>1, <2>2, <2>3, <2>4, <2>5, QuietStep
<1> QED BY <1>3, <1>4 DEF Interrupted

\* IPC_SET leaves a writer that waits for room without it: when it can only lower
\* msg_qbytes, that was msgmnb or has the same value already.
LEMMA StepIpcSet ==
    ASSUME MsgInv, LimitsOK, NEW p \in Proc, NEW q \in Queue, NEW n \in Limits, IpcSet(p, q, n)
    PROVE  MsgInv'
<1>1. /\ qbytes' = [qbytes EXCEPT ![q] = n]
      /\ UNCHANGED <<alloc, seq, rwait, wwait, lock, queue, cbytes, headers, segs, wanted, pc, call, chan>>
    BY DEF IpcSet, pools, procs
<1>2. TypeOK'
    BY <1>1 DEF MsgInv, TypeOK, MsgConstants
<1>3. ASSUME NEW x \in Proc PROVE ProcOK(x)'
    <2>1. ProcOK(x)
        BY DEF MsgInv
    <2>2. Valid(x)' <=> Valid(x)
        BY <1>1 DEF Valid
    <2>3. CallOK(x)' /\ CopyOK(x)' /\ ReadOK(x)'
        BY <1>1, <2>1, <2>2 DEF ProcOK, CallOK, Calls, CopyOK, ReadOK
    <2>4. ASSUME LowersOnly, pc[x] = "asleep", chan[x] = <<"room", call[x].q>>
          PROVE  Full(call[x].q, call[x].arg.size)'
        <3>1. Full(call[x].q, call[x].arg.size) /\ call[x].q \in Queue /\ call[x].arg.size \in Nat
            BY <2>1, <2>4 DEF ProcOK, CallOK, Calls, WriteOK, MsgInv, MsgConstants
        <3> DEFINE r == call[x].q
        <3>2. /\ qbytes \in [Queue -> Nat] /\ cbytes \in [Queue -> Nat] /\ r \in Queue
              /\ Limits \subseteq Nat /\ msgmnb \in Nat /\ n \in Limits
            BY <3>1 DEF MsgInv, MsgConstants, TypeOK
        <3>3. qbytes[r] = msgmnb \/ qbytes[r] \in Limits
            BY <3>2 DEF LimitsOK
        <3>4. n <= qbytes[r]
            BY <2>4, <3>2, <3>3 DEF LowersOnly
        <3>5. r' = r /\ call[x].arg.size' = call[x].arg.size /\ cbytes' = cbytes
            BY <1>1
        <3>6. qbytes'[r] \in {n, qbytes[r]}
            BY <1>1, <3>2
        <3>7. call[x].arg.size + cbytes[r] > qbytes'[r]
            <4>1. call[x].arg.size + cbytes[r] > qbytes[r] /\ call[x].arg.size \in Nat
                BY <3>1 DEF Full
            <4> HIDE DEF r
            <4> QED BY <3>2, <3>4, <3>6, <4>1
        <3> QED BY <3>5, <3>7 DEF Full
    <2>5. WriteOK(x)'
        BY <1>1, <2>1, <2>2, <2>4 DEF ProcOK, WriteOK, LowersOnly
    <2> QED BY <2>3, <2>5 DEF ProcOK
<1>4. (\A r \in Queue : LockOK(r)') /\ EmptyOK' /\ call' = [x \in Proc |-> call'[x]] /\ MsgConstants'
    BY <1>1 DEF MsgInv, LockOK, EmptyOK, MsgConstants
<1>5. Accounts'
    BY <1>1 DEF MsgInv, Accounts, OnQueues, TextsOn, Copying
<1> QED BY <1>2, <1>3, <1>4, <1>5 DEF MsgInv

LEMMA StepMsgget ==
    ASSUME MsgInv, NEW p \in Proc, NEW q \in Queue, Msgget(p, q)
    PROVE  MsgInv'
<1>1. /\ ~alloc[q] /\ alloc' = [alloc EXCEPT ![q] = TRUE] /\ queue' = [queue EXCEPT ![q] = <<>>]
      /\ qbytes' = [qbytes EXCEPT ![q] = msgmnb]
      /\ UNCHANGED <<seq, rwait, wwait, lock, cbytes, headers, segs, wanted, pc, call, chan>>
    BY DEF Msgget, pools, procs
<1>2. queue' = queue
    BY <1>1 DEF MsgInv, EmptyOK, TypeOK
<1>3. TypeOK'
    BY <1>1, <1>2 DEF MsgInv, TypeOK, MsgConstants
<1>4. ASSUME NEW x \in Proc PROVE ProcOK(x)'
    <2>1. ProcOK(x)
        BY DEF MsgInv
    <2>2. Valid(x) /\ call[x].q \in Queue => Valid(x)' /\ call[x].q # q
        BY <1>1 DEF Valid, MsgInv, TypeOK
    <2>3. CallOK(x)'
        BY <1>1, <2>1 DEF ProcOK, CallOK, Calls
    <2>4. CopyOK(x)' /\ ReadOK(x)'
        BY <1>1, <1>2, <2>1, <2>2 DEF ProcOK, CallOK, Calls, CopyOK, ReadOK
    <2>5. WriteOK(x)'
        BY <1>1, <2>1, <2>2 DEF ProcOK, CallOK, Calls, WriteOK, Full, MsgInv, TypeOK
    <2> QED BY <2>3, <2>4, <2>5 DEF ProcOK
<1>5. (\A r \in Queue : LockOK(r)') /\ call' = [x \in Proc |-> call'[x]] /\ MsgConstants'
    BY <1>1 DEF MsgInv, LockOK, MsgConstants
<1>6. EmptyOK'
    BY <1>1, <1>2 DEF MsgInv, EmptyOK, TypeOK
<1>7. Accounts'
    <2>1. Accounts
        BY DEF MsgInv
    <2>2. /\ OnQueues' = OnQueues /\ TextsOn' = TextsOn
          /\ Copying("copyin")' = Copying("copyin") /\ Carriers' = Carriers
        BY <1>1, <1>2 DEF OnQueues, TextsOn, Copying, Carriers
    <2> QED BY <1>1, <1>2, <2>1, <2>2 DEF Accounts, Carriers
<1> QED BY <1>3, <1>4, <1>5, <1>6, <1>7 DEF MsgInv

LEMMA StepSndTakes == ASSUME MsgInv, NEW p \in Proc, SndTakes(p) PROVE MsgInv'
<1> DEFINE q == call[p].q
           a == call[p].arg
<1>1. /\ pc[p] \in {"getres", "woken"} /\ call[p].cmd = "snd" /\ FreeLock(q) /\ Valid(p)
      /\ headers # 0 /\ btoq(a.size) <= segs
      /\ headers' = headers - 1 /\ segs' = segs - btoq(a.size)
      /\ lock' = [lock EXCEPT ![q] = p] /\ pc' = [pc EXCEPT ![p] = "copyin"]
      /\ chan' = [chan EXCEPT ![p] = NoChan]
    BY DEF SndTakes, Getres, NoHeader
<1>2. UNCHANGED <<alloc, seq, qbytes, rwait, wwait, queue, cbytes, wanted, call>>
    BY DEF SndTakes, hdrs
<1>3. q \in Queue /\ a \in Sends /\ a.size \in Nat
    BY <1>1 DEF MsgInv, ProcOK, CallOK, Calls, MsgConstants
<1>4. ProcsOK' /\ Moved(p, {}) /\ pc'[p] = "copyin" /\ call'[p] = call[p]
    BY <1>1, <1>2, InvProcs DEF ProcsOK, Moved
<1>5. /\ lock' \in [Queue -> Proc \cup {None}] /\ lock'[q] = p
      /\ \A r \in Queue : lock[r] \notin {p, None} => lock'[r] = lock[r]
      /\ \A r \in Queue : \/ lock'[r] = lock[r] /\ lock[r] # p
                          \/ /\ lock'[r] = p /\ pc'[p] \in {"copyin", "copyout"}
                             /\ call'[p].q = r
    BY <1>1, <1>3, <1>4, Locks
<1>6. ProcOK(p)'
    <2>1. CallOK(p)'
        BY <1>1, <1>3, <1>4 DEF CallOK, Calls
    <2>2. Valid(p)'
        BY <1>1, <1>2 DEF Valid
    <2>3. CopyOK(p)'
        BY <1>4, <1>5, <2>2 DEF CopyOK
    <2> QED BY <1>4, <2>1, <2>3 DEF ProcOK, ReadOK, WriteOK
<1>7. \A x \in Proc \ {p} : ProcOK(x)'
    BY <1>1, <1>2, <1>4, <1>5, QuietOthers
<1>8. \A r \in Queue : LockOK(r)'
    BY <1>4, <1>5, LocksMoved
<1>9. /\ Cardinality(Copying("copyin")') = Cardinality(Copying("copyin")) + 1
      /\ Cardinality(Carriers') = Cardinality(Carriers) + btoq(a.size)
    BY <1>1, <1>3, <1>4, CopyingStarts
<1>10. Accounts'
    <2>1. OnQueues' = OnQueues /\ TextsOn' = TextsOn
        BY <1>2 DEF OnQueues, TextsOn
    <2>2. \A r \in Queue : cbytes'[r] = Cardinality(Bytes(queue'[r]))
        BY <1>2 DEF MsgInv, Accounts
    <2>3. Cardinality(Copying("copyin")) \in Nat /\ Cardinality(Carriers) \in Nat /\ btoq(a.size) \in Nat
        BY CopyingFinite DEF btoq
    <2> HIDE DEF a
    <2>4. headers' + Cardinality(OnQueues') + Cardinality(Copying("copyin")') = msgtql
        BY <1>1, <1>9, <2>1, <2>3, QueueCounts
    <2>5. segs' + Cardinality(TextsOn') + Cardinality(Carriers') = msgseg
        BY <1>1, <1>9, <2>1, <2>3, QueueCounts
    <2> QED BY <2>2, <2>4, <2>5 DEF Accounts, Carriers
<1>11. TypeOK'
    <2>1. headers' \in 0 .. msgtql /\ segs' \in 0 .. msgseg
        <3>1. headers \in 0 .. msgtql /\ segs \in 0 .. msgseg /\ btoq(a.size) \in Nat
              /\ msgtql \in Nat /\ msgseg \in Nat
            BY DEF MsgInv, TypeOK, MsgConstants, btoq
        <3> HIDE DEF a
        <3> QED BY <1>1, <3>1
    <2> QED BY <1>2, <1>4, <1>5, <2>1 DEF MsgInv, TypeOK, ProcsOK
<1>12. EmptyOK' /\ MsgConstants' /\ call' = [x \in Proc |-> call'[x]]
    BY <1>2 DEF MsgInv, EmptyOK, MsgConstants
<1> QED BY <1>6, <1>7, <1>8, <1>10, <1>11, <1>12 DEF MsgInv

LEMMA StepSndFaults == ASSUME MsgInv, NEW p \in Proc, SndFaults(p) PROVE MsgInv'
<1> DEFINE q == call[p].q
           a == call[p].arg
           C == When(wanted, {<<"map">>}) \cup When(headers = 0, {<<"header">>})
<1>1. /\ pc[p] = "copyin" /\ segs' = segs + btoq(a.size) /\ headers' = headers + 1
      /\ wanted' = FALSE /\ Leave(p, Woken(C)) /\ lock' = [lock EXCEPT ![q] = None]
      /\ UNCHANGED <<hdrs, queue, cbytes>>
    BY DEF SndFaults, FaultReturns
<1>2. UNCHANGED <<alloc, seq, qbytes, rwait, wwait, queue, cbytes>>
    BY <1>1 DEF hdrs
<1>3. q \in Queue /\ a \in Sends /\ a.size \in Nat /\ lock[q] = p
    BY <1>1 DEF MsgInv, ProcOK, CallOK, Calls, CopyOK, MsgConstants
<1>4. /\ headers = 0 => <<"header">> \in C
      /\ \A r \in Queue : <<"room", r>> \notin C
    BY DEF When
<1> HIDE DEF C
<1>5. ProcsOK' /\ Moved(p, C) /\ pc'[p] = "user" /\ ProcOK(p)'
    BY <1>1, InvProcs, LeaveMoves
<1>6. /\ lock' \in [Queue -> Proc \cup {None}]
      /\ \A r \in Queue : lock[r] \notin {p, None} => lock'[r] = lock[r]
      /\ \A r \in Queue : lock'[r] = None \/ (lock'[r] = lock[r] /\ lock[r] # p)
    BY <1>1, <1>3, Unlocks
<1>7. \A x \in Proc \ {p} : ProcOK(x)'
    BY <1>2, <1>4, <1>5, <1>6, QuietOthers
<1>8. \A r \in Queue : LockOK(r)'
    BY <1>5, <1>6, LocksMoved
<1>9. /\ Cardinality(Copying("copyin")') = Cardinality(Copying("copyin")) - 1
      /\ Cardinality(Carriers') = Cardinality(Carriers) - btoq(a.size)
      /\ Cardinality(Copying("copyin")') \in Nat /\ Cardinality(Carriers') \in Nat
    BY <1>1, <1>3, <1>5, CopyingEnds
<1>10. /\ headers' + Cardinality(OnQueues') + Cardinality(Copying("copyin")') = msgtql
       /\ segs' + Cardinality(TextsOn') + Cardinality(Carriers') = msgseg
       /\ headers' \in 0 .. msgtql /\ segs' \in 0 .. msgseg
    <2>1. OnQueues' = OnQueues /\ TextsOn' = TextsOn
        BY <1>2 DEF OnQueues, TextsOn
    <2>2. Cardinality(Copying("copyin")) \in Nat /\ Cardinality(Carriers) \in Nat /\ btoq(a.size) \in Nat
        BY CopyingFinite DEF btoq
    <2>3. msgtql \in Nat /\ msgseg \in Nat
        BY DEF MsgInv, MsgConstants
    <2> HIDE DEF a
    <2> QED BY <1>1, <1>9, <2>1, <2>2, <2>3, QueueCounts
<1>11. Accounts'
    <2>1. \A r \in Queue : cbytes'[r] = Cardinality(Bytes(queue'[r]))
        BY <1>2 DEF MsgInv, Accounts
    <2> QED BY <1>10, <2>1 DEF Accounts, Carriers
<1>12. TypeOK'
    BY <1>1, <1>2, <1>5, <1>6, <1>10 DEF MsgInv, TypeOK, ProcsOK
<1>13. EmptyOK' /\ MsgConstants' /\ call' = [x \in Proc |-> call'[x]]
    BY <1>2, <1>5 DEF MsgInv, EmptyOK, MsgConstants, ProcsOK
<1> QED BY <1>5, <1>7, <1>8, <1>11, <1>12, <1>13 DEF MsgInv

\* A step on one queue that nobody else has locked: who sleeps there is woken,
\* or still has nothing to find.
LEMMA ChangedOthers ==
    ASSUME MsgInv, NEW p \in Proc, NEW C, Moved(p, C), NEW q \in Queue, lock[q] \in {p, None},
           \A r \in Queue \ {q} :
              /\ alloc'[r] = alloc[r] /\ seq'[r] = seq[r] /\ qbytes'[r] = qbytes[r]
              /\ rwait'[r] = rwait[r] /\ wwait'[r] = wwait[r] /\ lock'[r] = lock[r]
              /\ queue'[r] = queue[r] /\ cbytes'[r] = cbytes[r],
           rwait[q] => \/ <<"msg", q>> \in C
                       \/ /\ rwait'[q] /\ alloc'[q] = alloc[q] /\ seq'[q] = seq[q]
                          /\ \A t \in Int : Pick(queue[q], t) = 0 => Pick(queue'[q], t) = 0,
           wwait[q] => \/ <<"room", q>> \in C
                       \/ /\ wwait'[q] /\ alloc'[q] = alloc[q] /\ seq'[q] = seq[q]
                          /\ qbytes'[q] = qbytes[q]
                          /\ \A n \in Nat : n + cbytes[q] > qbytes[q] => n + cbytes'[q] > qbytes'[q],
           headers = 0 => <<"header">> \in C \/ headers' = 0
    PROVE  \A x \in Proc \ {p} : ProcOK(x)'
<1> SUFFICES ASSUME NEW x \in Proc, x # p PROVE ProcOK(x)'
    OBVIOUS
<1>1. /\ ProcOK(x) /\ call'[x] = call[x] /\ chan'[x] = chan[x]
      /\ pc'[x] = IF pc[x] = "asleep" /\ chan[x] \in C THEN "woken" ELSE pc[x]
    BY DEF MsgInv, Moved
<1>2. call[x].q \in Queue /\ call[x].q # q => (Valid(x)' <=> Valid(x))
    BY <1>1 DEF Valid
<1>3. ASSUME pc[x] \in {"copyin", "copyout"} PROVE CopyOK(x)'
    <2>1. lock[call[x].q] = x /\ call[x].q \in Queue /\ x # None /\ pc'[x] = pc[x]
        BY <1>1, <1>3 DEF ProcOK, CopyOK, CallOK, Calls, MsgInv, MsgConstants
    <2>2. call[x].q # q
        BY <2>1
    <2> QED BY <1>1, <1>2, <2>1, <2>2 DEF ProcOK, CopyOK
<1>4. ASSUME pc[x] = "asleep", chan[x] = <<"msg", call[x].q>>, chan[x] \notin C,
             call[x].q \in Queue, call[x].arg \in Receives
      PROVE  ReadOK(x)'
    <2>1. rwait[call[x].q] /\ Valid(x) /\ Pick(queue[call[x].q], call[x].arg.msgtyp) = 0
        BY <1>1, <1>4 DEF ProcOK, ReadOK
    <2>2. CASE call[x].q # q
        <3>1. rwait'[call[x].q] /\ Valid(x)' /\ Pick(queue'[call[x].q], call[x].arg.msgtyp) = 0
            BY <1>2, <1>4, <2>1, <2>2
        <3> QED BY <1>1, <3>1 DEF ReadOK
    <2>3. CASE call[x].q = q
        <3>1. call[x].arg.msgtyp \in Int
            BY <1>4 DEF MsgInv, MsgConstants
        <3>2. rwait'[q] /\ alloc'[q] = alloc[q] /\ seq'[q] = seq[q]
              /\ Pick(queue'[q], call[x].arg.msgtyp) = 0
            BY <1>4, <2>1, <2>3, <3>1
        <3>3. Valid(x)'
            BY <1>1, <2>1, <2>3, <3>2 DEF Valid
        <3> QED BY <1>1, <2>3, <3>2, <3>3 DEF ReadOK
    <2> QED BY <2>2, <2>3
<1>5. ASSUME pc[x] = "asleep", chan[x] = <<"room", call[x].q>>, chan[x] \notin C,
             call[x].q \in Queue, call[x].arg \in Sends
      PROVE  WriteOK(x)'
    <2>1. wwait[call[x].q] /\ Valid(x) /\ (LowersOnly => Full(call[x].q, call[x].arg.size))
        BY <1>1, <1>5 DEF ProcOK, WriteOK
    <2>2. CASE call[x].q # q
        <3>1. wwait'[call[x].q] /\ Valid(x)' /\ (LowersOnly => Full(call[x].q, call[x].arg.size)')
            BY <1>1, <1>2, <1>5, <2>1, <2>2 DEF Full
        <3> QED BY <1>1, <1>5, <3>1 DEF WriteOK
    <2>3. CASE call[x].q = q
        <3>1. call[x].arg.size \in Nat
            BY <1>5 DEF MsgInv, MsgConstants
        <3>2. wwait'[q] /\ alloc'[q] = alloc[q] /\ seq'[q] = seq[q]
              /\ (Full(q, call[x].arg.size) => Full(q, call[x].arg.size)')
            <4> DEFINE n == call[x].arg.size
            <4>1. \A m \in Nat : m + cbytes[q] > qbytes[q] => m + cbytes'[q] > qbytes'[q]
                BY <1>5, <2>1, <2>3
            <4>2. n' = n
                BY <1>1
            <4>3. Full(q, n) => n + cbytes'[q] > qbytes'[q]
                BY <3>1, <4>1 DEF Full
            <4> QED BY <1>5, <2>1, <2>3, <4>2, <4>3 DEF Full
        <3>3. Valid(x)'
            BY <1>1, <2>1, <2>3, <3>2 DEF Valid
        <3> QED BY <1>1, <1>5, <2>1, <2>3, <3>2, <3>3 DEF WriteOK
    <2> QED BY <2>2, <2>3
<1>6. ASSUME pc[x] = "asleep", chan[x] = <<"header">>, chan[x] \notin C PROVE headers' = 0
    BY <1>1, <1>6 DEF ProcOK, WriteOK
<1> QED BY <1>1, <1>3, <1>4, <1>5, <1>6, OtherStep

LEMMA StepSndPuts == ASSUME MsgInv, NEW p \in Proc, SndPuts(p) PROVE MsgInv'
<1> DEFINE q == call[p].q
           a == call[p].arg
           C == PutWakes(q)
           m == [type |-> a.type, size |-> a.size]
           Q == Append(queue[q], m)
<1>1. /\ pc[p] = "copyin" /\ queue' = [queue EXCEPT ![q] = Q]
      /\ cbytes' = [cbytes EXCEPT ![q] = @ + a.size] /\ rwait' = [rwait EXCEPT ![q] = FALSE]
      /\ Leave(p, Woken(C)) /\ lock' = [lock EXCEPT ![q] = None]
    BY DEF SndPuts
<1>2. UNCHANGED <<alloc, seq, qbytes, wwait, headers, segs, wanted>>
    BY DEF SndPuts, pools
<1>3. q \in Queue /\ a \in Sends /\ a.size \in Nat /\ lock[q] = p /\ alloc[q] /\ m \in Msg /\ m.size = a.size
    BY <1>1 DEF MsgInv, ProcOK, CallOK, Calls, CopyOK, Valid, MsgConstants, Msg
<1>4. /\ rwait \in [Queue -> BOOLEAN] /\ cbytes \in [Queue -> Nat] /\ queue \in [Queue -> Seq(Msg)]
      /\ lock \in [Queue -> Proc \cup {None}] /\ qbytes \in [Queue -> Nat]
    BY DEF MsgInv, TypeOK
<1>5. rwait[q] => <<"msg", q>> \in C
    BY DEF PutWakes, When
<1>6. ProcsOK' /\ Moved(p, C) /\ pc'[p] = "user" /\ ProcOK(p)'
    BY <1>1, InvProcs, LeaveMoves
<1>7. /\ lock' \in [Queue -> Proc \cup {None}]
      /\ \A r \in Queue : lock'[r] = None \/ (lock'[r] = lock[r] /\ lock[r] # p)
    BY <1>1, <1>3, Unlocks
<1>8. queue[q] \in Seq(Msg) /\ Q \in Seq(Msg) /\ Len(Q) = Len(queue[q]) + 1 /\ Len(queue[q]) \in Nat
    BY <1>3, <1>4, AppendProperties
<1>9. /\ Cardinality(Texts(Q)) = Cardinality(Texts(queue[q])) + btoq(a.size)
      /\ Cardinality(Bytes(Q)) = Cardinality(Bytes(queue[q])) + a.size
    BY <1>3, <1>8, TextsAppend, BytesAppend
<1> HIDE DEF q, a, C, Q, m
<1>10. \A n \in Nat : n + cbytes[q] > qbytes[q] => n + cbytes'[q] > qbytes'[q]
    <2> SUFFICES ASSUME NEW n \in Nat, n + cbytes[q] > qbytes[q] PROVE n + cbytes'[q] > qbytes'[q]
        OBVIOUS
    <2>1. cbytes'[q] = cbytes[q] + a.size /\ cbytes[q] \in Nat /\ qbytes'[q] = qbytes[q] /\ qbytes[q] \in Nat
        BY <1>1, <1>2, <1>3, <1>4
    <2> QED BY <1>3, <2>1
<1>11. \A x \in Proc \ {p} : ProcOK(x)'
    <2>1. \A r \in Queue \ {q} :
              /\ alloc'[r] = alloc[r] /\ seq'[r] = seq[r] /\ qbytes'[r] = qbytes[r]
              /\ rwait'[r] = rwait[r] /\ wwait'[r] = wwait[r] /\ lock'[r] = lock[r]
              /\ queue'[r] = queue[r] /\ cbytes'[r] = cbytes[r]
        BY <1>1, <1>2, <1>4
    <2> QED BY <1>2, <1>3, <1>5, <1>6, <1>10, <2>1, ChangedOthers
<1>12. \A r \in Queue : LockOK(r)'
    BY <1>6, <1>7, LocksMoved
<1>13. /\ Cardinality(Copying("copyin")') = Cardinality(Copying("copyin")) - 1
       /\ Cardinality(Carriers') = Cardinality(Carriers) - btoq(a.size)
    BY <1>1, <1>3, <1>6, CopyingEnds DEF a
<1>14. /\ queue' \in [Queue -> Seq(Msg)]
       /\ Cardinality(OnQueues') = Cardinality(OnQueues) - Len(queue[q]) + Len(Q)
       /\ Cardinality(TextsOn') = Cardinality(TextsOn) - Cardinality(Texts(queue[q]))
                                                      + Cardinality(Texts(Q))
       /\ Cardinality(Texts(queue[q])) \in Nat
    BY <1>1, <1>3, <1>8, QueueChanges
<1>15. Accounts'
    <2>1. Cardinality(Copying("copyin")) \in Nat /\ Cardinality(Carriers) \in Nat /\ btoq(a.size) \in Nat
        BY CopyingFinite DEF btoq
    <2>2. headers' + Cardinality(OnQueues') + Cardinality(Copying("copyin")') = msgtql
        <3>1. /\ headers + Cardinality(OnQueues) + Cardinality(Copying("copyin")) = msgtql
              /\ Cardinality(OnQueues) \in Nat /\ headers \in Nat /\ headers' = headers
            BY <1>2, QueueCounts
        <3>2. Cardinality(OnQueues') = Cardinality(OnQueues) + 1
            BY <1>8, <1>14, <3>1
        <3> QED BY <1>13, <2>1, <3>1, <3>2
    <2>3. segs' + Cardinality(TextsOn') + Cardinality(Carriers') = msgseg
        BY <1>2, <1>9, <1>13, <1>14, <2>1, QueueCounts
    <2>4. \A r \in Queue : cbytes'[r] = Cardinality(Bytes(queue'[r]))
        <3>1. \A r \in Queue : cbytes[r] = Cardinality(Bytes(queue[r]))
            BY DEF MsgInv, Accounts
        <3>2. cbytes'[q] = cbytes[q] + a.size /\ queue'[q] = Q
            BY <1>1, <1>3, <1>4
        <3>3. cbytes'[q] = Cardinality(Bytes(queue'[q]))
            BY <1>3, <1>9, <3>1, <3>2
        <3>4. \A r \in Queue : r # q => cbytes'[r] = cbytes[r] /\ queue'[r] = queue[r]
            BY <1>1, <1>4
        <3> QED BY <3>1, <3>3, <3>4
    <2> QED BY <2>2, <2>3, <2>4 DEF Accounts, Carriers
<1>16. TypeOK'
    <2>1. cbytes' \in [Queue -> Nat] /\ rwait' \in [Queue -> BOOLEAN]
        BY <1>1, <1>3, <1>4
    <2> QED BY <1>2, <1>6, <1>7, <1>14, <2>1 DEF MsgInv, TypeOK, ProcsOK
<1>17. EmptyOK'
    BY <1>1, <1>2, <1>3, <1>4 DEF MsgInv, EmptyOK
<1>18. MsgConstants' /\ call' = [x \in Proc |-> call'[x]]
    BY <1>6 DEF MsgInv, MsgConstants, ProcsOK
<1> QED BY <1>6, <1>11, <1>12, <1>15, <1>16, <1>17, <1>18 DEF MsgInv

\* Taking a message away leaves nothing to find where there was nothing.
LEMMA RemoveFindsNone ==
    ASSUME NEW Q \in Seq(Msg), NEW i \in 1 .. Len(Q), NEW t \in Int, Pick(Q, t) = 0
    PROVE  Pick(RemoveAt(Q, i), t) = 0
<1> DEFINE A == RemoveAt(Q, i)
<1>1. /\ A \in Seq(Msg) /\ Len(A) = Len(Q) - 1
      /\ \A j \in 1 .. Len(Q) - 1 : A[j] = IF j < i THEN Q[j] ELSE Q[j + 1]
    BY Removed
<1>2. DOMAIN Q = 1 .. Len(Q) /\ DOMAIN A = 1 .. Len(Q) - 1 /\ Len(Q) \in Nat
    BY <1>1, MsgFields
<1>3. Suits(Q, t) = {}
    <2>1. FirstOf(Q, t, 0) /\ 0 \notin DOMAIN Q
        BY <1>2, PickFirst
    <2> QED BY <2>1 DEF FirstOf, Suits
<1> HIDE DEF A
<1>4. Suits(A, t) = {}
    <2> SUFFICES ASSUME NEW j \in Suits(A, t) PROVE FALSE
        OBVIOUS
    <2>1. j \in 1 .. Len(Q) - 1
        BY <1>2 DEF Suits
    <2> DEFINE k == IF j < i THEN j ELSE j + 1
    <2>2. k \in 1 .. Len(Q) /\ A[j] = Q[k]
        BY <1>1, <1>2, <2>1
    <2> HIDE DEF k
    <2>3. k \in Suits(Q, t)
        BY <1>2, <2>2 DEF Suits
    <2> QED BY <1>3, <2>3
<1>5. FirstOf(A, t, Pick(A, t))
    BY <1>1, PickFirst
<1> QED BY <1>4, <1>5 DEF FirstOf, A

LEMMA PartOfAll ==
    ASSUME NEW a \in Nat, NEW b \in Nat, NEW c \in Nat, NEW n \in Nat, a + b + c = n
    PROVE  a \in 0 .. n
OBVIOUS

LEMMA StepRcvDone == ASSUME MsgInv, NEW p \in Proc, RcvDone(p) PROVE MsgInv'
<1> DEFINE q == call[p].q
           i == call[p].smp
           n == call[p].text.size
           C == FreedWakes(q, 1)
           Q == RemoveAt(queue[q], i)
<1>1. /\ pc[p] = "copyout" /\ queue' = [queue EXCEPT ![q] = Q]
      /\ cbytes' = [cbytes EXCEPT ![q] = @ - n] /\ wwait' = [wwait EXCEPT ![q] = FALSE]
      /\ headers' = headers + 1 /\ segs' = segs + btoq(n)
      /\ Leave(p, Woken(C)) /\ lock' = [lock EXCEPT ![q] = None]
    BY DEF RcvDone, BytesFreed
<1>2. UNCHANGED <<alloc, seq, qbytes, rwait, wanted>>
    BY DEF RcvDone
<1>3. /\ q \in Queue /\ lock[q] = p /\ alloc[q]
      /\ i \in DOMAIN queue[q] /\ queue[q][i] = call[p].text
    BY <1>1 DEF MsgInv, ProcOK, CallOK, Calls, CopyOK, Valid
<1>4. /\ wwait \in [Queue -> BOOLEAN] /\ cbytes \in [Queue -> Nat] /\ queue \in [Queue -> Seq(Msg)]
      /\ lock \in [Queue -> Proc \cup {None}]
    BY DEF MsgInv, TypeOK
<1>5. (wwait[q] => <<"room", q>> \in C) /\ (headers = 0 => <<"header">> \in C)
    BY DEF FreedWakes, When
<1>6. ProcsOK' /\ Moved(p, C) /\ pc'[p] = "user" /\ ProcOK(p)'
    BY <1>1, InvProcs, LeaveMoves
<1>7. /\ lock' \in [Queue -> Proc \cup {None}]
      /\ \A r \in Queue : lock'[r] = None \/ (lock'[r] = lock[r] /\ lock[r] # p)
    BY <1>1, <1>3, Unlocks
<1>8. /\ queue[q] \in Seq(Msg) /\ i \in 1 .. Len(queue[q]) /\ Len(queue[q]) \in Nat
      /\ n = queue[q][i].size /\ n \in Nat
    BY <1>3, <1>4, MsgFields
<1>9. /\ Q \in Seq(Msg) /\ Len(Q) = Len(queue[q]) - 1
      /\ \A t \in Int : Pick(queue[q], t) = 0 => Pick(Q, t) = 0
    BY <1>8, Removed, RemoveFindsNone
<1>10. /\ Cardinality(Texts(Q)) = Cardinality(Texts(queue[q])) - btoq(n)
       /\ Cardinality(Bytes(Q)) = Cardinality(Bytes(queue[q])) - n
       /\ Cardinality(Bytes(queue[q])) - n \in Nat
    BY <1>8, TextsRemove, BytesRemove
<1> HIDE DEF q, i, n, C, Q
<1>11. \A x \in Proc \ {p} : ProcOK(x)'
    <2>1. \A r \in Queue \ {q} :
              /\ alloc'[r] = alloc[r] /\ seq'[r] = seq[r] /\ qbytes'[r] = qbytes[r]
              /\ rwait'[r] = rwait[r] /\ wwait'[r] = wwait[r] /\ lock'[r] = lock[r]
              /\ queue'[r] = queue[r] /\ cbytes'[r] = cbytes[r]
        BY <1>1, <1>2, <1>4
    <2>2. /\ alloc'[q] = alloc[q] /\ seq'[q] = seq[q] /\ rwait'[q] = rwait[q]
          /\ \A t \in Int : Pick(queue[q], t) = 0 => Pick(queue'[q], t) = 0
        <3>1. queue'[q] = Q
            BY <1>1, <1>3, <1>4
        <3> QED BY <1>2, <1>9, <3>1
    <2>3. lock[q] \in {p, None}
        BY <1>3
    <2> QED BY <1>3, <1>5, <1>6, <2>1, <2>2, <2>3, ChangedOthers
<1>12. \A r \in Queue : LockOK(r)'
    BY <1>6, <1>7, LocksMoved
<1>13. Copying("copyin")' = Copying("copyin") /\ Carriers' = Carriers
    BY <1>1, <1>6, CopyingSame
<1>14. /\ queue' \in [Queue -> Seq(Msg)]
       /\ Cardinality(OnQueues') = Cardinality(OnQueues) - Len(queue[q]) + Len(Q)
       /\ Cardinality(TextsOn') = Cardinality(TextsOn) - Cardinality(Texts(queue[q]))
                                                      + Cardinality(Texts(Q))
       /\ Cardinality(OnQueues') \in Nat /\ Cardinality(TextsOn') \in Nat
       /\ Cardinality(Texts(queue[q])) \in Nat
    BY <1>1, <1>3, <1>9, QueueChanges
<1>15. /\ headers' + Cardinality(OnQueues') + Cardinality(Copying("copyin")') = msgtql
       /\ segs' + Cardinality(TextsOn') + Cardinality(Carriers') = msgseg
       /\ headers' \in 0 .. msgtql /\ segs' \in 0 .. msgseg
    <2>1. Cardinality(Copying("copyin")) \in Nat /\ Cardinality(Carriers) \in Nat /\ btoq(n) \in Nat
        BY CopyingFinite DEF btoq
    <2>2. /\ headers + Cardinality(OnQueues) + Cardinality(Copying("copyin")) = msgtql
          /\ segs + Cardinality(TextsOn) + Cardinality(Carriers) = msgseg
          /\ Cardinality(OnQueues) \in Nat /\ Cardinality(TextsOn) \in Nat
          /\ headers \in Nat /\ segs \in Nat
        BY QueueCounts
    <2>3. Cardinality(OnQueues') = Cardinality(OnQueues) - 1
        BY <1>8, <1>9, <1>14, <2>2
    <2>4. Cardinality(TextsOn') = Cardinality(TextsOn) - btoq(n)
        BY <1>10, <1>14, <2>1, <2>2
    <2>5. msgtql \in Nat /\ msgseg \in Nat
        BY DEF MsgInv, MsgConstants
    <2>6. Cardinality(Copying("copyin")') = Cardinality(Copying("copyin"))
          /\ Cardinality(Carriers') = Cardinality(Carriers)
        BY <1>13
    <2>7. headers' + Cardinality(OnQueues') + Cardinality(Copying("copyin")') = msgtql
        BY <1>1, <2>1, <2>2, <2>3, <2>6
    <2>8. segs' + Cardinality(TextsOn') + Cardinality(Carriers') = msgseg
        BY <1>1, <2>1, <2>2, <2>4, <2>6
    <2>9. headers' \in 0 .. msgtql
        <3>1. headers' \in Nat
            BY <1>1, <2>2
        <3> QED BY <1>14, <2>1, <2>5, <2>6, <2>7, <3>1, PartOfAll
    <2>10. segs' \in 0 .. msgseg
        <3>1. segs' \in Nat
            BY <1>1, <2>1, <2>2
        <3> QED BY <1>14, <2>1, <2>5, <2>6, <2>8, <3>1, PartOfAll
    <2> QED BY <2>7, <2>8, <2>9, <2>10
<1>16. \A r \in Queue : cbytes'[r] = Cardinality(Bytes(queue'[r])) /\ cbytes'[r] \in Nat
    <2>1. \A r \in Queue : cbytes[r] = Cardinality(Bytes(queue[r]))
        BY DEF MsgInv, Accounts
    <2>2. cbytes'[q] = cbytes[q] - n /\ queue'[q] = Q
        BY <1>1, <1>3, <1>4
    <2>3. cbytes'[q] = Cardinality(Bytes(queue'[q])) /\ cbytes'[q] \in Nat
        BY <1>3, <1>10, <2>1, <2>2
    <2>4. \A r \in Queue : r # q => cbytes'[r] = cbytes[r] /\ queue'[r] = queue[r] /\ cbytes[r] \in Nat
        BY <1>1, <1>4
    <2> QED BY <2>1, <2>3, <2>4
<1>17. Accounts'
    BY <1>15, <1>16 DEF Accounts, Carriers
<1>18. TypeOK'
    <2>1. cbytes' \in [Queue -> Nat] /\ wwait' \in [Queue -> BOOLEAN]
        BY <1>1, <1>3, <1>4, <1>16
    <2> QED BY <1>2, <1>6, <1>7, <1>14, <1>15, <2>1 DEF MsgInv, TypeOK, ProcsOK
<1>19. EmptyOK'
    BY <1>1, <1>2, <1>3, <1>4 DEF MsgInv, EmptyOK
<1>20. MsgConstants' /\ call' = [x \in Proc |-> call'[x]]
    BY <1>6 DEF MsgInv, MsgConstants, ProcsOK
<1> QED BY <1>6, <1>11, <1>12, <1>17, <1>18, <1>19, <1>20 DEF MsgInv

LEMMA StepRmid ==
    ASSUME MsgInv, NEW p \in Proc, NEW q \in Queue, Rmid(p, q)
    PROVE  MsgInv'
<1> DEFINE C == FreedWakes(q, Len(queue[q])) \cup When(rwait[q], {<<"msg", q>>})
                   \cup When(wwait[q], {<<"room", q>>})
<1>1. /\ pc[p] = "user" /\ FreeLock(q) /\ seq[q] < MaxSeq
      /\ alloc' = [alloc EXCEPT ![q] = FALSE] /\ seq' = [seq EXCEPT ![q] = @ + 1]
      /\ rwait' = [rwait EXCEPT ![q] = FALSE] /\ wwait' = [wwait EXCEPT ![q] = FALSE]
      /\ queue' = [queue EXCEPT ![q] = <<>>] /\ cbytes' = [cbytes EXCEPT ![q] = 0]
      /\ headers' = headers + Len(queue[q]) /\ segs' = segs + Cardinality(Texts(queue[q]))
      /\ pc' = Woken(C) /\ UNCHANGED <<qbytes, lock, wanted, call, chan>>
    BY DEF Rmid
<1>2. /\ rwait \in [Queue -> BOOLEAN] /\ wwait \in [Queue -> BOOLEAN] /\ alloc \in [Queue -> BOOLEAN]
      /\ cbytes \in [Queue -> Nat] /\ queue \in [Queue -> Seq(Msg)] /\ seq \in [Queue -> 0 .. MaxSeq]
      /\ MaxSeq \in Nat
    BY DEF MsgInv, TypeOK, MsgConstants
<1>3. queue[q] \in Seq(Msg) /\ Len(queue[q]) \in Nat
    BY <1>2
<1>4. /\ rwait[q] => <<"msg", q>> \in C
      /\ wwait[q] => <<"room", q>> \in C
      /\ headers = 0 /\ Len(queue[q]) > 0 => <<"header">> \in C
    BY DEF FreedWakes, When
<1> HIDE DEF C
<1>5. ProcsOK' /\ Moved(p, C) /\ pc'[p] = "user"
    BY <1>1, InvProcs, WokenType DEF ProcsOK, Moved
<1>6. ProcOK(p)'
    BY <1>5 DEF ProcOK, CallOK, CopyOK, ReadOK, WriteOK
<1>7. \A x \in Proc \ {p} : ProcOK(x)'
    <2>1. \A r \in Queue \ {q} :
              /\ alloc'[r] = alloc[r] /\ seq'[r] = seq[r] /\ qbytes'[r] = qbytes[r]
              /\ rwait'[r] = rwait[r] /\ wwait'[r] = wwait[r] /\ lock'[r] = lock[r]
              /\ queue'[r] = queue[r] /\ cbytes'[r] = cbytes[r]
        BY <1>1, <1>2
    <2>2. headers = 0 => <<"header">> \in C \/ headers' = 0
        BY <1>1, <1>3, <1>4
    <2>3. lock[q] \in {p, None}
        BY <1>1 DEF FreeLock
    <2> QED BY <1>4, <1>5, <2>1, <2>2, <2>3, ChangedOthers
<1>8. \A r \in Queue : LockOK(r)'
    <2>1. \A r \in Queue : lock'[r] = lock[r] /\ lock[r] # p
        BY <1>1, HoldsNone
    <2> QED BY <1>5, <2>1, LocksMoved
<1>9. Copying("copyin")' = Copying("copyin") /\ Carriers' = Carriers
    BY <1>1, <1>5, CopyingSame
<1>10. Cardinality(Texts(<<>>)) = 0 /\ Cardinality(Bytes(<<>>)) = 0 /\ <<>> \in Seq(Msg) /\ Len(<<>>) = 0
    <2>1. Texts(<<>>) = {} /\ Bytes(<<>>) = {}
        BY DEF Texts, Bytes
    <2> QED BY <2>1, FS_EmptySet
<1>11. /\ queue' \in [Queue -> Seq(Msg)]
       /\ Cardinality(OnQueues') = Cardinality(OnQueues) - Len(queue[q])
       /\ Cardinality(TextsOn') = Cardinality(TextsOn) - Cardinality(Texts(queue[q]))
       /\ Cardinality(OnQueues') \in Nat /\ Cardinality(TextsOn') \in Nat
       /\ Cardinality(Texts(queue[q])) \in Nat
       /\ Cardinality(OnQueues) \in Nat /\ Cardinality(TextsOn) \in Nat
    <2>1. /\ queue' \in [Queue -> Seq(Msg)]
          /\ Cardinality(OnQueues') = Cardinality(OnQueues) - Len(queue[q]) + Len(<<>>)
          /\ Cardinality(TextsOn') = Cardinality(TextsOn) - Cardinality(Texts(queue[q]))
                                                      + Cardinality(Texts(<<>>))
          /\ Cardinality(OnQueues') \in Nat /\ Cardinality(TextsOn') \in Nat
          /\ Cardinality(Texts(queue[q])) \in Nat
        BY <1>1, <1>10, QueueChanges
    <2>2. Cardinality(OnQueues) \in Nat /\ Cardinality(TextsOn) \in Nat
        BY QueueCounts
    <2> QED BY <1>3, <1>10, <2>1, <2>2
<1>12. /\ headers' + Cardinality(OnQueues') + Cardinality(Copying("copyin")') = msgtql
       /\ segs' + Cardinality(TextsOn') + Cardinality(Carriers') = msgseg
       /\ headers' \in 0 .. msgtql /\ segs' \in 0 .. msgseg
    <2>1. Cardinality(Copying("copyin")) \in Nat /\ Cardinality(Carriers) \in Nat
        BY CopyingFinite
    <2>2. /\ headers + Cardinality(OnQueues) + Cardinality(Copying("copyin")) = msgtql
          /\ segs + Cardinality(TextsOn) + Cardinality(Carriers) = msgseg
          /\ headers \in Nat /\ segs \in Nat
        BY QueueCounts
    <2>3. msgtql \in Nat /\ msgseg \in Nat
        BY DEF MsgInv, MsgConstants
    <2>4. Cardinality(Copying("copyin")') = Cardinality(Copying("copyin"))
          /\ Cardinality(Carriers') = Cardinality(Carriers)
        BY <1>9
    <2>5. headers' + Cardinality(OnQueues') + Cardinality(Copying("copyin")') = msgtql
        BY <1>1, <1>3, <1>11, <2>1, <2>2, <2>4
    <2>6. segs' + Cardinality(TextsOn') + Cardinality(Carriers') = msgseg
        BY <1>1, <1>11, <2>1, <2>2, <2>4
    <2>7. headers' \in 0 .. msgtql
        <3>1. headers' \in Nat
            BY <1>1, <1>3, <2>2
        <3> QED BY <1>11, <2>1, <2>3, <2>4, <2>5, <3>1, PartOfAll
    <2>8. segs' \in 0 .. msgseg
        <3>1. segs' \in Nat
            BY <1>1, <1>11, <2>2
        <3> QED BY <1>11, <2>1, <2>3, <2>4, <2>6, <3>1, PartOfAll
    <2> QED BY <2>5, <2>6, <2>7, <2>8
<1>13. Accounts'
    <2>1. \A r \in Queue : cbytes[r] = Cardinality(Bytes(queue[r]))
        BY DEF MsgInv, Accounts
    <2>2. \A r \in Queue : cbytes'[r] = Cardinality(Bytes(queue'[r]))
        BY <1>1, <1>2, <1>10, <2>1
    <2> QED BY <1>12, <2>2 DEF Accounts, Carriers
<1>14. TypeOK'
    <2>1. /\ cbytes' \in [Queue -> Nat] /\ wwait' \in [Queue -> BOOLEAN] /\ rwait' \in [Queue -> BOOLEAN]
          /\ alloc' \in [Queue -> BOOLEAN]
        BY <1>1, <1>2
    <2>2. seq' \in [Queue -> 0 .. MaxSeq]
        BY <1>1, <1>2
    <2> QED BY <1>1, <1>5, <1>11, <1>12, <2>1, <2>2 DEF MsgInv, TypeOK, ProcsOK
<1>15. EmptyOK'
    BY <1>1, <1>2 DEF MsgInv, EmptyOK
<1>16. MsgConstants' /\ call' = [x \in Proc |-> call'[x]]
    BY <1>5 DEF MsgInv, MsgConstants, ProcsOK
<1> QED BY <1>5, <1>6, <1>7, <1>8, <1>13, <1>14, <1>15, <1>16 DEF MsgInv

----------------------------------------------------------------------------
(* The theorems. *)

LEMMA LimitsStep == ASSUME MsgInv, LimitsOK, [Next]_vars PROVE LimitsOK'
<1>1. ASSUME NEW q \in Queue, qbytes' = [qbytes EXCEPT ![q] = msgmnb] \/ \E n \in Limits : qbytes' = [qbytes EXCEPT ![q] = n]
      PROVE  LimitsOK'
    BY <1>1 DEF LimitsOK, MsgInv, TypeOK
<1>2. ASSUME UNCHANGED qbytes PROVE LimitsOK'
    BY <1>2 DEF LimitsOK
<1>3. CASE UNCHANGED vars
    BY <1>2, <1>3 DEF vars, hdrs
<1>4. CASE \E p \in Proc, q \in Queue : Msgget(p, q) \/ \E n \in Limits : IpcSet(p, q, n)
    BY <1>1, <1>4 DEF Msgget, IpcSet
<1>5. ASSUME NEW p \in Proc,
             \/ \E q \in Queue : Rmid(p, q)
             \/ \E q \in Queue, a \in Sends : MsgsndEntry(p, q, a)
             \/ SndFails(p) \/ SndSleeps(p) \/ SndTakes(p) \/ SndPuts(p) \/ SndFaults(p)
             \/ \E q \in Queue, a \in Receives : MsgrcvEntry(p, q, a)
             \/ RcvFails(p) \/ RcvSleeps(p) \/ RcvFinds(p) \/ RcvDone(p) \/ RcvFaults(p)
             \/ Interrupted(p) \/ LockInterrupted(p)
      PROVE  UNCHANGED qbytes
    BY <1>5 DEF Rmid, MsgsndEntry, SndFails, SndSleeps, SndTakes, SndPuts, SndFaults, MsgrcvEntry,
                RcvFails, RcvSleeps, RcvFinds, RcvDone, RcvFaults, Interrupted, LockInterrupted, hdrs
<1> QED BY <1>2, <1>3, <1>4, <1>5 DEF Next

LEMMA MsgStep == ASSUME MsgInv, LimitsOK, [Next]_vars PROVE MsgInv'
<1>1. CASE UNCHANGED vars
    <2>1. UNCHANGED <<alloc, seq, qbytes, rwait, wwait, lock, queue, cbytes, headers, segs, wanted,
                      pc, call, chan>>
        BY <1>1 DEF vars, hdrs, pools, procs
    <2>2. TypeOK' /\ MsgConstants' /\ call' = [p \in Proc |-> call'[p]]
        BY <2>1 DEF MsgInv, TypeOK, MsgConstants
    <2>3. \A p \in Proc : ProcOK(p)'
        BY <2>1 DEF MsgInv, ProcOK, CallOK, Calls, CopyOK, ReadOK, WriteOK, Valid, Full
    <2>4. EmptyOK' /\ \A q \in Queue : LockOK(q)'
        BY <2>1 DEF MsgInv, EmptyOK, LockOK
    <2>5. Accounts'
        BY <2>1 DEF MsgInv, Accounts, OnQueues, TextsOn, Copying
    <2> QED BY <2>2, <2>3, <2>4, <2>5 DEF MsgInv
<1>2. CASE Next
    <2>1. PICK p \in Proc :
            \/ \E q \in Queue : Msgget(p, q) \/ Rmid(p, q)
            \/ \E q \in Queue, n \in Limits : IpcSet(p, q, n)
            \/ \E q \in Queue, a \in Sends : MsgsndEntry(p, q, a)
            \/ SndFails(p) \/ SndSleeps(p) \/ SndTakes(p) \/ SndPuts(p) \/ SndFaults(p)
            \/ \E q \in Queue, a \in Receives : MsgrcvEntry(p, q, a)
            \/ RcvFails(p) \/ RcvSleeps(p) \/ RcvFinds(p) \/ RcvDone(p) \/ RcvFaults(p)
            \/ Interrupted(p) \/ LockInterrupted(p)
        BY <1>2 DEF Next
    <2>2. CASE \E q \in Queue : Msgget(p, q) \/ Rmid(p, q)
        BY <2>2, StepMsgget, StepRmid
    <2>3. CASE \E q \in Queue, n \in Limits : IpcSet(p, q, n)
        BY <2>3, StepIpcSet
    <2>4. CASE \E q \in Queue, a \in Sends : MsgsndEntry(p, q, a)
        BY <2>4, StepSndEntry
    <2>5. CASE SndFails(p) \/ SndSleeps(p) \/ SndTakes(p) \/ SndPuts(p) \/ SndFaults(p)
        BY <2>5, StepSndFails, StepSndSleeps, StepSndTakes, StepSndPuts, StepSndFaults
    <2>6. CASE \E q \in Queue, a \in Receives : MsgrcvEntry(p, q, a)
        BY <2>6, StepRcvEntry
    <2>7. CASE RcvFails(p) \/ RcvSleeps(p) \/ RcvFinds(p) \/ RcvDone(p) \/ RcvFaults(p)
        BY <2>7, StepRcvFails, StepRcvSleeps, StepRcvFinds, StepRcvDone, StepRcvFaults
    <2>8. CASE Interrupted(p) \/ LockInterrupted(p)
        BY <2>8, StepInterrupted, StepLockInterrupted
    <2> QED BY <2>1, <2>2, <2>3, <2>4, <2>5, <2>6, <2>7, <2>8
<1> QED BY <1>1, <1>2

\* For every set of processes and queues, whatever the pools, limits and calls:
\* no reader sleeps while a message for it is on its queue, no writer while its
\* queue has room (unless msg_qbytes may be raised) or, for a header, while one is free, and each sleeper is flagged
\* on a queue that still is the one it named (msg.c: msgsnd, msgrcv, msgfree,
\* msgctl, and the wakeups of a call that a signal ends).
THEOREM NoSleeperForgotten == MsgConstants => (Spec => []MsgSleepers)
<1>1. MsgConstants /\ Init => MsgInv /\ LimitsOK
    BY MsgInit DEF Init, LimitsOK
<1>2. MsgInv /\ LimitsOK /\ [Next]_vars => MsgInv' /\ LimitsOK'
    BY MsgStep, LimitsStep
<1>3. MsgInv => MsgSleepers
    BY InvSleepers
<1> QED BY <1>1, <1>2, <1>3, PTL DEF Spec

\* For every set of processes and queues, whatever the pools, limits and calls:
\* headers, text segments and msg_cbytes add up on every path of msgsnd(), msgrcv()
\* and msgctl(), errors, truncation and removal included; a copy has its queue to
\* itself; and the search of msgrcv() finds the message that msgop.2 promises.
THEOREM NothingLost == MsgConstants => (Spec => []MessagesKept)
<1>1. MsgConstants /\ Init => MsgInv /\ LimitsOK
    BY MsgInit DEF Init, LimitsOK
<1>2. MsgInv /\ LimitsOK /\ [Next]_vars => MsgInv' /\ LimitsOK'
    BY MsgStep, LimitsStep
<1>3. MsgInv => MessagesKept
    BY InvKept
<1> QED BY <1>1, <1>2, <1>3, PTL DEF Spec

=============================================================================
