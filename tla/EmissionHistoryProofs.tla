------------------------ MODULE EmissionHistoryProofs ------------------------
(***************************************************************************)
(* Facts about what a filter keeps, sums over finite sets, days and the       *)
(* rolling window of daily emissions.                                      *)
(***************************************************************************)
EXTENDS EmissionHistory, FiniteSetTheorems, SequenceTheorems,
        WellFoundedInduction, TLAPS

-----------------------------------------------------------------------------
\* Filters: the elements at the given indices, all of them, once and in order

\* Indices are counted up to i: the count grows with every index.
LEMMA CountedUpTo ==
  ASSUME NEW K, K \subseteq Int, IsFiniteSet(K)
  PROVE  /\ \A i \in K : Cardinality(UpTo(K, i)) \in 1 .. Cardinality(K)
         /\ \A i, j \in K : i < j =>
              Cardinality(UpTo(K, i)) < Cardinality(UpTo(K, j))
<1>1. ASSUME NEW i \in K
      PROVE  /\ IsFiniteSet(UpTo(K, i)) /\ i \in UpTo(K, i)
             /\ Cardinality(UpTo(K, i)) \in 1 .. Cardinality(K)
  <2>1. UpTo(K, i) \in SUBSET K /\ i \in UpTo(K, i)
    BY DEF UpTo
  <2>2. IsFiniteSet(UpTo(K, i)) /\ Cardinality(UpTo(K, i)) <= Cardinality(K)
    BY <2>1, FS_Subset
  <2>3. /\ Cardinality(UpTo(K, i)) \in Nat /\ Cardinality(K) \in Nat
        /\ Cardinality(UpTo(K, i)) # 0
    BY <2>1, <2>2, FS_CardinalityType, FS_EmptySet
  <2>4. QED
    BY <2>1, <2>2, <2>3
<1>2. ASSUME NEW i \in K, NEW j \in K, i < j
      PROVE  Cardinality(UpTo(K, i)) < Cardinality(UpTo(K, j))
  <2>1. /\ i \in Int /\ j \in Int
        /\ \A k \in UpTo(K, i) : k \in K /\ k \in Int /\ k <= i
    BY DEF UpTo
  <2>2. \A k \in UpTo(K, i) : k \in K /\ k <= j
    BY <1>2, <2>1
  <2>3. \A k \in UpTo(K, i) : k \in UpTo(K, j)
    BY <2>2 DEF UpTo
  <2>4. j \in UpTo(K, j) /\ j \notin UpTo(K, i)
    BY <1>1, <1>2, <2>1
  <2>5. UpTo(K, i) \cup {j} \in SUBSET UpTo(K, j)
    BY <2>3, <2>4
  <2>6. Cardinality(UpTo(K, i) \cup {j}) = Cardinality(UpTo(K, i)) + 1
    BY <1>1, <2>4, FS_AddElement
  <2>7. Cardinality(UpTo(K, i) \cup {j}) <= Cardinality(UpTo(K, j))
    BY <1>1, <2>5, FS_Subset
  <2>8. QED
    BY <1>1, <2>6, <2>7
<1>3. QED
  BY <1>1, <1>2

\* Nth lists the indices in increasing order, each once.
LEMMA NthLists ==
  ASSUME NEW K, K \subseteq Int, IsFiniteSet(K)
  PROVE  /\ Cardinality(K) \in Nat
         /\ \A n \in 1 .. Cardinality(K) : Nth(K, n) \in K
         /\ \A m, n \in 1 .. Cardinality(K) : m < n => Nth(K, m) < Nth(K, n)
         /\ \A i \in K : \E n \in 1 .. Cardinality(K) : Nth(K, n) = i
<1> DEFINE N == Cardinality(K)
           count == [i \in K |-> Cardinality(UpTo(K, i))]
<1>1. N \in Nat /\ IsFiniteSet(1 .. N) /\ Cardinality(1 .. N) = N
  BY FS_CardinalityType, FS_Interval
<1>2. /\ \A i \in K : count[i] \in 1 .. N
      /\ \A i, j \in K : i < j => count[i] < count[j]
  BY CountedUpTo
<1>3. \A i, j \in K : count[i] = count[j] => i = j
  <2>1. SUFFICES ASSUME NEW i \in K, NEW j \in K, count[i] = count[j], i # j
                 PROVE  FALSE
    OBVIOUS
  <2>2. i \in Int /\ j \in Int /\ count[i] \in Int /\ count[j] \in Int
    BY <1>2
  <2>3. i < j \/ j < i
    BY <2>1, <2>2
  <2>4. QED
    BY <1>2, <2>1, <2>2, <2>3
<1>4. count \in Injection(K, 1 .. N)
  <2>1. count \in [K -> 1 .. N]
    BY <1>2
  <2>2. QED
    BY <1>3, <2>1 DEF Injection, IsInjective
<1>5. count \in Surjection(K, 1 .. N)
  BY <1>1, <1>4, FS_Injection
<1>6. \A n \in 1 .. N : \E i \in K : Cardinality(UpTo(K, i)) = n
  BY <1>5 DEF Surjection
<1>7. \A n \in 1 .. N : Nth(K, n) \in K /\ count[Nth(K, n)] = n
  BY <1>6 DEF Nth
<1> HIDE DEF count, N
<1>8. ASSUME NEW m \in 1 .. N, NEW n \in 1 .. N, m < n
      PROVE  Nth(K, m) < Nth(K, n)
  <2>1. Nth(K, m) \in K /\ Nth(K, n) \in K
    BY <1>7
  <2>2. Nth(K, m) \in Int /\ Nth(K, n) \in Int
    BY <2>1
  <2>3. count[Nth(K, m)] = m /\ count[Nth(K, n)] = n
    BY <1>7
  <2>4. Nth(K, n) # Nth(K, m)
    BY <1>1, <1>8, <2>3
  <2>5. Nth(K, n) < Nth(K, m) => count[Nth(K, n)] < count[Nth(K, m)]
    BY <1>2, <2>1
  <2>6. QED
    BY <1>1, <1>8, <2>2, <2>3, <2>4, <2>5
<1>9. \A i \in K : count[i] \in 1 .. N /\ Nth(K, count[i]) = i
  BY <1>2, <1>3, <1>7
<1>10. QED
  BY <1>1, <1>7, <1>8, <1>9 DEF N

\* What a filter keeps: the elements at the given indices, in their order.
LEMMA SubsequenceKeeps ==
  ASSUME NEW S, NEW s \in Seq(S), NEW K, K \subseteq DOMAIN s
  PROVE  /\ Subsequence(s, K) \in Seq(S)
         /\ Len(Subsequence(s, K)) = Cardinality(K)
         /\ Cardinality(K) \in 0 .. Len(s)
         /\ \A n \in 1 .. Cardinality(K) :
              /\ Nth(K, n) \in K /\ Nth(K, n) \in 1 .. Len(s)
              /\ Subsequence(s, K)[n] = s[Nth(K, n)]
         /\ \A m, n \in 1 .. Cardinality(K) : m < n => Nth(K, m) < Nth(K, n)
         /\ \A i \in K : \E n \in 1 .. Cardinality(K) : Nth(K, n) = i
<1>1. /\ DOMAIN s = 1 .. Len(s) /\ Len(s) \in Nat
      /\ \A i \in 1 .. Len(s) : s[i] \in S
  BY LenProperties, ElementOfSeq
<1>2. IsFiniteSet(1 .. Len(s)) /\ Cardinality(1 .. Len(s)) = Len(s)
  BY <1>1, FS_Interval
<1>3. IsFiniteSet(K) /\ Cardinality(K) <= Len(s) /\ K \subseteq Int
  BY <1>1, <1>2, FS_Subset
<1>4. /\ Cardinality(K) \in Nat
      /\ \A n \in 1 .. Cardinality(K) : Nth(K, n) \in K
      /\ \A m, n \in 1 .. Cardinality(K) : m < n => Nth(K, m) < Nth(K, n)
      /\ \A i \in K : \E n \in 1 .. Cardinality(K) : Nth(K, n) = i
  BY <1>3, NthLists
<1>5. \A n \in 1 .. Cardinality(K) : s[Nth(K, n)] \in S /\ Nth(K, n) \in 1 .. Len(s)
  BY <1>1, <1>4
<1>6. Subsequence(s, K) \in [1 .. Cardinality(K) -> S]
  BY <1>5 DEF Subsequence
<1>7. Subsequence(s, K) \in Seq(S) /\ Len(Subsequence(s, K)) = Cardinality(K)
  BY <1>4, <1>6, IsASeq, LenProperties
<1>8. \A n \in 1 .. Cardinality(K) : Subsequence(s, K)[n] = s[Nth(K, n)]
  BY DEF Subsequence
<1>9. QED
  BY <1>1, <1>3, <1>4, <1>5, <1>7, <1>8

-----------------------------------------------------------------------------
\* Sums

\* The units of S are its pairs of an element and a number up to its amount.
LEMMA UnitsAre ==
  ASSUME NEW S, NEW f, NEW p
  PROVE  p \in Units(S, f) <=> \E x \in S : \E k \in 1 .. f[x] : p = <<x, k>>
BY DEF Units

\* An element that has no units adds nothing; the sum over no elements is zero.
LEMMA TotalZero ==
  ASSUME NEW S, NEW f, \A x \in S : f[x] = 0
  PROVE  Total(S, f) = 0
<1>1. Units(S, f) = {}
  BY UnitsAre
<1>2. QED
  BY <1>1, FS_EmptySet DEF Total

\* Sums depend only on the amounts.
LEMMA TotalEqual ==
  ASSUME NEW S, NEW f, NEW g, \A x \in S : f[x] = g[x]
  PROVE  Total(S, f) = Total(S, g)
<1>1. Units(S, f) = Units(S, g)
  BY DEF Units
<1>2. QED
  BY <1>1 DEF Total

\* The units of one element are as many as its amount.
LEMMA UnitsOfOne ==
  ASSUME NEW x, NEW n \in Nat
  PROVE  /\ IsFiniteSet({x} \X (1 .. n))
         /\ Cardinality({x} \X (1 .. n)) = n
<1>1. IsFiniteSet(1 .. n) /\ Cardinality(1 .. n) = n
  BY FS_Interval
<1>2. IsFiniteSet({x}) /\ Cardinality({x}) = 1
  BY FS_Singleton
<1>3. /\ IsFiniteSet({x} \X (1 .. n))
      /\ Cardinality({x} \X (1 .. n)) = Cardinality({x}) * Cardinality(1 .. n)
  BY <1>1, <1>2, FS_Product
<1>4. Cardinality({x} \X (1 .. n)) = 1 * n
  BY <1>1, <1>2, <1>3
<1>5. 1 * n = n
  OBVIOUS
<1>6. QED
  BY <1>3, <1>4, <1>5

\* Finitely many elements have finitely many units, so their sum is a number.
LEMMA TotalType ==
  ASSUME NEW S, IsFiniteSet(S), NEW f, \A x \in S : f[x] \in Nat
  PROVE  /\ IsFiniteSet(Units(S, f))
         /\ Total(S, f) \in Nat
<1> DEFINE own == [x \in S |-> {x} \X (1 .. f[x])]
           U == {own[x] : x \in S}
<1>1. IsFiniteSet(U)
  <2>1. own \in Surjection(S, U)
    BY DEF Surjection
  <2>2. QED
    BY <2>1, FS_Surjection
<1>2. \A u \in U : IsFiniteSet(u)
  <2>1. SUFFICES ASSUME NEW x \in S PROVE IsFiniteSet(own[x])
    OBVIOUS
  <2>2. f[x] \in Nat
    OBVIOUS
  <2>3. QED
    BY <2>2, UnitsOfOne
<1>3. IsFiniteSet(Units(S, f))
  <2>1. Units(S, f) = UNION U
    BY DEF Units
  <2>2. QED
    BY <1>1, <1>2, <2>1, FS_UNION
<1>4. QED
  BY <1>3, FS_CardinalityType DEF Total

\* A sum is the amount of one element plus the sum of the others.
LEMMA TotalSplit ==
  ASSUME NEW S, IsFiniteSet(S), NEW f, \A y \in S : f[y] \in Nat, NEW x \in S
  PROVE  Total(S, f) = Total(S \ {x}, f) + f[x]
<1> DEFINE rest == Units(S \ {x}, f)
           own  == {x} \X (1 .. f[x])
<1>1. IsFiniteSet(S \ {x})
  BY FS_RemoveElement
<1>2. IsFiniteSet(rest) /\ Cardinality(rest) \in Nat
  BY <1>1, TotalType DEF Total
<1>3. IsFiniteSet(own) /\ Cardinality(own) = f[x]
  BY UnitsOfOne
<1>4. Units(S, f) = rest \cup own
  BY DEF Units
<1>5. rest \cap own = {}
  BY UnitsAre
<1>6. Cardinality(rest \cup own)
        = Cardinality(rest) + Cardinality(own) - Cardinality(rest \cap own)
  BY <1>2, <1>3, FS_Union
<1>7. Cardinality(rest \cap own) = 0
  BY <1>5, FS_EmptySet
<1>8. /\ Total(S, f) = Cardinality(rest \cup own)
      /\ Total(S \ {x}, f) = Cardinality(rest)
  BY <1>4 DEF Total
<1> HIDE DEF rest, own
<1>9. QED
  BY <1>2, <1>3, <1>6, <1>7, <1>8

\* Changing one amount changes the sum by the same difference.
LEMMA TotalUpdate ==
  ASSUME NEW S, IsFiniteSet(S), NEW f, NEW g, NEW x \in S,
         \A y \in S : f[y] \in Nat, g[x] \in Nat,
         \A y \in S \ {x} : g[y] = f[y]
  PROVE  Total(S, g) = Total(S, f) - f[x] + g[x]
<1>1. Total(S \ {x}, g) = Total(S \ {x}, f)
  BY TotalEqual
<1>2. Total(S \ {x}, f) \in Nat
  BY FS_RemoveElement, TotalType
<1>3. Total(S, f) = Total(S \ {x}, f) + f[x]
  BY TotalSplit
<1>4. \A y \in S : g[y] \in Nat
  OBVIOUS
<1>5. Total(S, g) = Total(S \ {x}, g) + g[x]
  BY <1>4, TotalSplit
<1>6. QED
  BY <1>1, <1>2, <1>3, <1>5

\* A new element adds its amount.
LEMMA TotalAdd ==
  ASSUME NEW S, IsFiniteSet(S), NEW f, NEW g, NEW x, x \notin S,
         \A y \in S : f[y] \in Nat, \A y \in S : g[y] = f[y], g[x] \in Nat
  PROVE  Total(S \cup {x}, g) = Total(S, f) + g[x]
<1>1. IsFiniteSet(S \cup {x}) /\ \A y \in S \cup {x} : g[y] \in Nat
  BY FS_AddElement
<1>2. Total(S \cup {x}, g) = Total((S \cup {x}) \ {x}, g) + g[x]
  BY <1>1, TotalSplit
<1>3. (S \cup {x}) \ {x} = S
  OBVIOUS
<1>4. Total(S, g) = Total(S, f)
  BY TotalEqual
<1>5. QED
  BY <1>2, <1>3, <1>4

\* No amount exceeds the sum.
LEMMA TotalBounds ==
  ASSUME NEW S, IsFiniteSet(S), NEW f, \A y \in S : f[y] \in Nat, NEW x \in S
  PROVE  f[x] <= Total(S, f)
<1>1. Total(S \ {x}, f) \in Nat
  BY FS_RemoveElement, TotalType
<1>2. Total(S, f) = Total(S \ {x}, f) + f[x]
  BY TotalSplit
<1>3. QED
  BY <1>1, <1>2

\* The sum over two disjoint sets
LEMMA TotalUnion ==
  ASSUME NEW S, IsFiniteSet(S), NEW T, IsFiniteSet(T), S \cap T = {},
         NEW f, NEW g, NEW h,
         \A x \in S : h[x] = f[x] /\ f[x] \in Nat,
         \A x \in T : h[x] = g[x] /\ g[x] \in Nat
  PROVE  Total(S \cup T, h) = Total(S, f) + Total(T, g)
<1>1. /\ IsFiniteSet(Units(S, f)) /\ Total(S, f) \in Nat
      /\ IsFiniteSet(Units(T, g)) /\ Total(T, g) \in Nat
  BY TotalType
<1>2. Units(S, f) \cap Units(T, g) = {}
  BY UnitsAre
<1>3. Units(S \cup T, h) = Units(S, f) \cup Units(T, g)
  BY DEF Units
<1>4. Cardinality(Units(S, f) \cap Units(T, g)) = 0
  BY <1>2, FS_EmptySet
<1>5. Cardinality(Units(S, f) \cup Units(T, g))
        = Cardinality(Units(S, f)) + Cardinality(Units(T, g))
            - Cardinality(Units(S, f) \cap Units(T, g))
  BY <1>1, FS_Union
<1>6. /\ Total(S, f) = Cardinality(Units(S, f))
      /\ Total(T, g) = Cardinality(Units(T, g))
      /\ Total(S \cup T, h) = Cardinality(Units(S, f) \cup Units(T, g))
  BY <1>3 DEF Total
<1>7. QED
  BY <1>1, <1>4, <1>5, <1>6

\* A new element of a sum
LEMMA TotalWith ==
  ASSUME NEW S, NEW f, NEW n, IsFiniteSet(S), n \notin S,
         \A i \in S : f[i] \in Nat, f[n] \in Nat
  PROVE  Total(S \cup {n}, f) = Total(S, f) + f[n]
BY TotalAdd

\* One changed element of a sum
LEMMA TotalChange ==
  ASSUME NEW S, IsFiniteSet(S), NEW f \in [S -> Nat], NEW g \in [S -> Nat],
         NEW y \in S, \A z \in S : z = y \/ g[z] = f[z]
  PROVE  Total(S, g) = Total(S, f) - f[y] + g[y]
<1>1. g[y] \in Nat /\ \A z \in S : f[z] \in Nat
  OBVIOUS
<1>2. QED
  BY <1>1, TotalUpdate

\* A sum over a part of a set, of amounts that are zero elsewhere
LEMMA TotalPart ==
  ASSUME NEW S, IsFiniteSet(S), NEW K \in SUBSET S, NEW f, NEW g,
         \A y \in K : f[y] = g[y] /\ g[y] \in Nat, \A y \in S \ K : f[y] = 0
  PROVE  Total(S, f) = Total(K, g)
<1>1. Units(S, f) = Units(K, g)
  <2>1. ASSUME NEW p \in Units(S, f) PROVE p \in Units(K, g)
    <3>1. PICK y \in S : \E k \in 1 .. f[y] : p = <<y, k>>
      BY UnitsAre
    <3>2. y \in K
      BY <3>1
    <3>3. QED
      BY <3>1, <3>2, UnitsAre
  <2>2. ASSUME NEW p \in Units(K, g) PROVE p \in Units(S, f)
    <3>1. PICK y \in K : \E k \in 1 .. g[y] : p = <<y, k>>
      BY UnitsAre
    <3>2. y \in S /\ f[y] = g[y]
      OBVIOUS
    <3>3. QED
      BY <3>1, <3>2, UnitsAre
  <2>3. QED
    BY <2>1, <2>2
<1>2. QED
  BY <1>1 DEF Total

-----------------------------------------------------------------------------
\* Days

\* A timestamp lies in its day.
LEMMA DayOfTimestamp ==
  ASSUME NEW t \in Int
  PROVE  /\ DayBucketStart(t) \in Int
         /\ DayBucketStart(t) <= t
         /\ t < DayBucketStart(t) + SecondsPerDay
<1> DEFINE d == t \div SecondsPerDay
           S == SecondsPerDay
<1>1. d \in Int /\ S \in Int /\ S > 0
  BY HistoryAssumption
<1>2. d * S <= t /\ t < d * S + S
  BY <1>1, HistoryAssumption
<1>3. QED
  BY <1>1, <1>2 DEF DayBucketStart

\* Days are ordered like their timestamps and whole days apart.
LEMMA DaysApart ==
  ASSUME NEW s \in Int, NEW t \in Int, s <= t
  PROVE  /\ DayBucketStart(s) <= DayBucketStart(t)
         /\ \/ DayBucketStart(s) = DayBucketStart(t)
            \/ DayBucketStart(s) + SecondsPerDay <= DayBucketStart(t)
<1> DEFINE c == s \div SecondsPerDay
           d == t \div SecondsPerDay
           S == SecondsPerDay
<1>1. c \in Int /\ d \in Int /\ S \in Int /\ S > 0
  BY HistoryAssumption
<1>2. c * S <= s /\ t < d * S + S
  BY DayOfTimestamp DEF DayBucketStart
<1> HIDE DEF c, d, S
<1>3. c <= d
  BY <1>1, <1>2
<1>4. c = d \/ c + 1 <= d
  BY <1>1, <1>3
<1>5. c + 1 <= d => c * S + S <= d * S
  BY <1>1
<1>6. QED
  BY <1>1, <1>4, <1>5 DEF DayBucketStart, c, d, S

\* The window ends with the day of asOf and never moves back.
LEMMA WindowMoves ==
  ASSUME NEW s \in Int, NEW t \in Int, s <= t
  PROVE  /\ RollingWindowStart(s) \in Int /\ RollingWindowStart(t) \in Int
         /\ RollingWindowStart(s) <= RollingWindowStart(t)
         /\ RollingWindowStart(t) <= DayBucketStart(t)
<1>1. /\ DayBucketStart(s) \in Int /\ DayBucketStart(t) \in Int
      /\ DayBucketStart(s) <= DayBucketStart(t)
  BY DayOfTimestamp, DaysApart
<1>2. (HistoryDays - 1) * SecondsPerDay \in Nat
  BY HistoryAssumption
<1>3. QED
  BY <1>1, <1>2 DEF RollingWindowStart

-----------------------------------------------------------------------------
\* Histories

LEMMA EntryTypes ==
  ASSUME NEW h \in Seq(DailyEntries)
  PROVE  /\ Len(h) \in Nat
         /\ \A i \in 1 .. Len(h) : /\ h[i] \in DailyEntries
                                   /\ h[i].day_start_timestamp \in Int
                                   /\ h[i].emission_grams \in U64
<1>1. Len(h) \in Nat /\ \A i \in 1 .. Len(h) : h[i] \in DailyEntries
  BY LenProperties, ElementOfSeq
<1>2. QED
  BY <1>1 DEF DailyEntries

\* Strictly increasing days
InOrder(h) ==
  \A i, j \in 1 .. Len(h) :
    i < j => h[i].day_start_timestamp < h[j].day_start_timestamp

\* The entries of the window that ends at asOf, all of them, in their order.
LEMMA ActiveKeeps ==
  ASSUME NEW h \in Seq(DailyEntries), NEW t \in Int
  PROVE  /\ ActiveEmissionHistory(h, t) \in Seq(DailyEntries)
         /\ Len(ActiveEmissionHistory(h, t)) \in 0 .. Len(h)
         /\ \A n \in 1 .. Len(ActiveEmissionHistory(h, t)) :
              /\ \E i \in 1 .. Len(h) : ActiveEmissionHistory(h, t)[n] = h[i]
              /\ ActiveEmissionHistory(h, t)[n].day_start_timestamp
                   >= RollingWindowStart(t)
         /\ \A i \in 1 .. Len(h) :
              h[i].day_start_timestamp >= RollingWindowStart(t) =>
                \E n \in 1 .. Len(ActiveEmissionHistory(h, t)) :
                  ActiveEmissionHistory(h, t)[n] = h[i]
         /\ InOrder(h) => InOrder(ActiveEmissionHistory(h, t))
<1> DEFINE K == {i \in DOMAIN h : h[i].day_start_timestamp >= RollingWindowStart(t)}
           a == Subsequence(h, K)
<1>1. DOMAIN h = 1 .. Len(h)
  BY LenProperties
<1>2. /\ K \subseteq DOMAIN h
      /\ \A i \in 1 .. Len(h) :
           i \in K <=> h[i].day_start_timestamp >= RollingWindowStart(t)
  BY <1>1
<1>3. ActiveEmissionHistory(h, t) = a
  BY DEF ActiveEmissionHistory
<1> HIDE DEF K, a
<1>4. /\ a \in Seq(DailyEntries)
      /\ Len(a) = Cardinality(K)
      /\ Cardinality(K) \in 0 .. Len(h)
      /\ \A n \in 1 .. Len(a) : /\ Nth(K, n) \in K /\ Nth(K, n) \in 1 .. Len(h)
                                /\ a[n] = h[Nth(K, n)]
      /\ \A m, n \in 1 .. Len(a) : m < n => Nth(K, m) < Nth(K, n)
      /\ \A i \in K : \E n \in 1 .. Len(a) : Nth(K, n) = i
  BY <1>2, SubsequenceKeeps DEF a
<1>5. InOrder(h) => InOrder(a)
  BY <1>4 DEF InOrder
<1>6. QED
  BY <1>2, <1>3, <1>4, <1>5

\* A window of at most HistoryDays entries stays one.
LEMMA RecordType ==
  ASSUME NEW h \in Seq(DailyEntries), NEW g \in U64, NEW t \in Int,
         Len(h) <= HistoryDays
  PROVE  /\ RecordDailyEmission(h, g, t) \in Seq(DailyEntries)
         /\ Len(RecordDailyEmission(h, g, t)) <= HistoryDays
<1> DEFINE day == DayBucketStart(t)
           active == ActiveEmissionHistory(h, t)
           n == Len(active)
           e == DailyEntry(day, g)
           grown == [active[n] EXCEPT !.emission_grams = SatAdd(@, g)]
           pushed == Append(active, e)
<1>1. /\ active \in Seq(DailyEntries) /\ n \in 0 .. Len(h)
      /\ Len(h) \in Nat /\ HistoryDays \in Nat \ {0}
  BY ActiveKeeps, LenProperties, HistoryAssumption
<1>2. e \in DailyEntries
  BY DayOfTimestamp DEF DailyEntry, DailyEntries
<1>3. RecordDailyEmission(h, g, t)
        = IF n > 0 /\ active[n].day_start_timestamp = day
          THEN [active EXCEPT ![n] = grown]
          ELSE IF n + 1 > HistoryDays
          THEN SubSeq(pushed, n + 2 - HistoryDays, n + 1)
          ELSE pushed
  BY DEF RecordDailyEmission
<1> HIDE DEF active, e, day
<1>4. CASE n > 0 /\ active[n].day_start_timestamp = day
  <2>1. n \in 1 .. Len(active) /\ active[n] \in DailyEntries
    BY <1>1, <1>4, ElementOfSeq
  <2>2. SatAdd(active[n].emission_grams, g) \in U64
    BY <2>1, MaxU64Assumption DEF DailyEntries, SatAdd, U64
  <2>3. grown \in DailyEntries
    BY <2>1, <2>2 DEF DailyEntries
  <2> HIDE DEF grown
  <2>4. /\ [active EXCEPT ![n] = grown] \in Seq(DailyEntries)
        /\ Len([active EXCEPT ![n] = grown]) = n
    BY <1>1, <2>1, <2>3, ExceptSeq
  <2>5. QED
    BY <1>1, <1>3, <1>4, <2>4
<1>5. /\ pushed \in Seq(DailyEntries) /\ Len(pushed) = n + 1
      /\ \A i \in 1 .. n + 1 : pushed[i] \in DailyEntries
  BY <1>1, <1>2, AppendProperties, ElementOfSeq
<1> HIDE DEF pushed
<1>6. CASE n + 1 > HistoryDays
  <2> DEFINE drained == SubSeq(pushed, n + 2 - HistoryDays, n + 1)
  <2>1. drained \in Seq(DailyEntries) /\ Len(drained) = HistoryDays
    BY <1>1, <1>5, <1>6, SubSeqProperties
  <2>2. \/ n > 0 /\ active[n].day_start_timestamp = day
        \/ RecordDailyEmission(h, g, t) = drained
    BY <1>3, <1>6
  <2> HIDE DEF drained
  <2>3. QED
    BY <1>1, <1>4, <2>1, <2>2
<1>7. QED
  BY <1>1, <1>3, <1>4, <1>5, <1>6

-----------------------------------------------------------------------------
\* Windows

IsDay(d) == \E s \in Int : d = DayBucketStart(s)

DaysOfWindow(t) ==
  {RollingWindowStart(t) + k * SecondsPerDay : k \in 0 .. HistoryDays - 1}

\* A day that is neither before nor after the window is one of its days.
LEMMA DayInWindow ==
  ASSUME NEW t \in Int, NEW d, IsDay(d),
         RollingWindowStart(t) <= d, d <= DayBucketStart(t)
  PROVE  d \in DaysOfWindow(t)
<1>1. PICK s \in Int : d = DayBucketStart(s)
  BY DEF IsDay
<1> DEFINE S == SecondsPerDay
           H == HistoryDays
           c == s \div SecondsPerDay
           e == t \div SecondsPerDay
           k == c - e + H - 1
<1>2. c \in Int /\ e \in Int /\ S \in Int /\ S > 0 /\ H \in Int /\ H > 0
  BY HistoryAssumption
<1>3. d = c * S /\ DayBucketStart(t) = e * S
      /\ RollingWindowStart(t) = e * S - (H - 1) * S
  BY <1>1 DEF DayBucketStart, RollingWindowStart
<1> HIDE DEF S, H, c, e
<1>4. c * S <= e * S /\ e * S - (H - 1) * S <= c * S
  BY <1>3
<1>5. c <= e
  BY <1>2, <1>4
<1>6. e * S - (H - 1) * S = (e - (H - 1)) * S
  BY <1>2
<1>7. e - (H - 1) <= c
  <2> DEFINE b == e - (H - 1)
  <2>1. b \in Int /\ b * S <= c * S
    BY <1>2, <1>4, <1>6
  <2> HIDE DEF b
  <2>2. b <= c
    BY <1>2, <2>1
  <2>3. QED
    BY <2>2 DEF b
<1>8. k \in 0 .. H - 1
  BY <1>2, <1>5, <1>7
<1>9. d = RollingWindowStart(t) + k * S
  <2>1. k * S = c * S - e * S + (H - 1) * S
    BY <1>2
  <2>2. c * S \in Int /\ e * S \in Int /\ (H - 1) * S \in Int
    BY <1>2
  <2>3. QED
    BY <1>3, <2>1, <2>2
<1>10. QED
  BY <1>8, <1>9 DEF DaysOfWindow, S, H

\* A window has HistoryDays days; the first is its start, the last the day it
\* ends with.
LEMMA WindowSize ==
  ASSUME NEW t \in Int
  PROVE  /\ IsFiniteSet(DaysOfWindow(t))
         /\ Cardinality(DaysOfWindow(t)) = HistoryDays
         /\ RollingWindowStart(t) \in DaysOfWindow(t)
         /\ DayBucketStart(t) \in DaysOfWindow(t)
         /\ \A d \in DaysOfWindow(t) : /\ d \in Int /\ IsDay(d)
                                       /\ RollingWindowStart(t) <= d
                                       /\ d <= DayBucketStart(t)
<1> DEFINE S == SecondsPerDay
           H == HistoryDays
           w == RollingWindowStart(t)
           f == [k \in 0 .. H - 1 |-> w + k * S]
<1>1. /\ S \in Int /\ S > 0 /\ H \in Int /\ H > 0 /\ w \in Int
      /\ DayBucketStart(t) \in Int /\ DayBucketStart(t) = w + (H - 1) * S
  BY HistoryAssumption, DayOfTimestamp DEF RollingWindowStart
<1> HIDE DEF S, H, w
<1>2. \A j, k \in 0 .. H - 1 : j < k => w + j * S < w + k * S
  BY <1>1
<1>3. f \in Injection(0 .. H - 1, DaysOfWindow(t))
  <2>1. f \in [0 .. H - 1 -> DaysOfWindow(t)]
    BY DEF DaysOfWindow, S, H, w
  <2>2. ASSUME NEW j \in 0 .. H - 1, NEW k \in 0 .. H - 1, f[j] = f[k]
        PROVE  j = k
    <3>1. w + j * S = w + k * S /\ j \in Int /\ k \in Int
      BY <1>1, <2>2
    <3>2. ~(j < k) /\ ~(k < j)
      BY <1>1, <1>2, <3>1
    <3>3. QED
      BY <3>1, <3>2
  <2>3. QED
    BY <2>1, <2>2 DEF Injection, IsInjective
<1>4. f \in Surjection(0 .. H - 1, DaysOfWindow(t))
  <2>1. \A d \in DaysOfWindow(t) : \E k \in 0 .. H - 1 : f[k] = d
    BY DEF DaysOfWindow, S, H, w
  <2>2. QED
    BY <1>3, <2>1 DEF Injection, Surjection
<1>5. IsFiniteSet(0 .. H - 1) /\ Cardinality(0 .. H - 1) = H
  BY <1>1, FS_Interval
<1>6. /\ IsFiniteSet(DaysOfWindow(t))
      /\ Cardinality(DaysOfWindow(t)) = H
  BY <1>3, <1>4, <1>5, FS_Surjection
<1>7. w \in DaysOfWindow(t) /\ DayBucketStart(t) \in DaysOfWindow(t)
  <2>1. w = w + 0 * S /\ 0 \in 0 .. H - 1 /\ H - 1 \in 0 .. H - 1
    BY <1>1
  <2>2. \A k \in 0 .. H - 1 : w + k * S \in DaysOfWindow(t)
    BY DEF DaysOfWindow, S, H, w
  <2>3. QED
    BY <1>1, <2>1, <2>2
<1>8. ASSUME NEW k \in 0 .. H - 1
      PROVE  /\ w + k * S \in Int /\ IsDay(w + k * S)
             /\ w <= w + k * S /\ w + k * S <= DayBucketStart(t)
  <2>1. k \in Int /\ 0 <= k * S /\ k * S <= (H - 1) * S /\ (H - 1) * S \in Int
    BY <1>1
  <2>2. k * S \in Int
    BY <1>1
  <2>3. IsDay(w + k * S)
    <3> DEFINE c == (t \div S) - (H - 1) + k
    <3>1. t \div S \in Int /\ DayBucketStart(t) = (t \div S) * S
      BY <1>1 DEF DayBucketStart, S
    <3>2. w + k * S = c * S /\ c \in Int
      BY <1>1, <3>1
    <3> HIDE DEF c
    <3>3. c * S \in Int /\ (c * S) \div S = c
      BY <1>1, <3>2
    <3>4. w + k * S = DayBucketStart(c * S)
      BY <3>2, <3>3 DEF DayBucketStart, S
    <3>5. QED
      BY <3>3, <3>4 DEF IsDay
  <2>4. QED
    BY <1>1, <2>1, <2>2, <2>3
<1>9. \A d \in DaysOfWindow(t) : \E k \in 0 .. H - 1 : d = w + k * S
  BY DEF DaysOfWindow, S, H, w
<1>10. QED
  BY <1>6, <1>7, <1>8, <1>9 DEF H, w

\* In an ordered history every entry is of another day.
DaysIn(h) == {h[i].day_start_timestamp : i \in 1 .. Len(h)}

LEMMA OneEntryPerDay ==
  ASSUME NEW h \in Seq(DailyEntries), InOrder(h)
  PROVE  /\ IsFiniteSet(DaysIn(h))
         /\ Cardinality(DaysIn(h)) = Len(h)
         /\ \A i, j \in 1 .. Len(h) :
              h[i].day_start_timestamp = h[j].day_start_timestamp => i = j
<1> DEFINE f == [i \in 1 .. Len(h) |-> h[i].day_start_timestamp]
<1>1. /\ Len(h) \in Nat
      /\ \A i \in 1 .. Len(h) : h[i].day_start_timestamp \in Int
  BY EntryTypes
<1>2. ASSUME NEW i \in 1 .. Len(h), NEW j \in 1 .. Len(h),
             h[i].day_start_timestamp = h[j].day_start_timestamp
      PROVE  i = j
  <2>1. ~(i < j) /\ ~(j < i)
    BY <1>1, <1>2 DEF InOrder
  <2>2. QED
    BY <1>1, <2>1
<1>3. f \in Injection(1 .. Len(h), DaysIn(h))
  <2>1. f \in [1 .. Len(h) -> DaysIn(h)]
    BY DEF DaysIn
  <2>2. QED
    BY <1>2, <2>1 DEF Injection, IsInjective
<1>4. f \in Surjection(1 .. Len(h), DaysIn(h))
  <2>1. \A d \in DaysIn(h) : \E i \in 1 .. Len(h) : f[i] = d
    BY DEF DaysIn
  <2>2. QED
    BY <1>3, <2>1 DEF Injection, Surjection
<1> HIDE DEF f
<1>5. IsFiniteSet(1 .. Len(h)) /\ Cardinality(1 .. Len(h)) = Len(h)
  <2>1. Len(h) \in Nat
    BY <1>1
  <2>2. QED
    BY <2>1, FS_Interval
<1>6. QED
  BY <1>2, <1>3, <1>4, <1>5, FS_Surjection

\* Entries of the window before its last day leave room for that day.
LEMMA RoomForToday ==
  ASSUME NEW h \in Seq(DailyEntries), InOrder(h), NEW t \in Int,
         \A i \in 1 .. Len(h) :
           /\ IsDay(h[i].day_start_timestamp)
           /\ RollingWindowStart(t) <= h[i].day_start_timestamp
           /\ h[i].day_start_timestamp < DayBucketStart(t)
  PROVE  Len(h) + 1 <= HistoryDays
<1> DEFINE W == DaysOfWindow(t)
           today == DayBucketStart(t)
<1>1. /\ today \in Int /\ Len(h) \in Nat
      /\ \A i \in 1 .. Len(h) : h[i].day_start_timestamp \in Int
  BY DayOfTimestamp, EntryTypes
<1>2. IsFiniteSet(W) /\ Cardinality(W) = HistoryDays /\ today \in W
  BY WindowSize
<1>3. /\ IsFiniteSet(W \ {today})
      /\ Cardinality(W \ {today}) = HistoryDays - 1
  BY <1>2, FS_RemoveElement
<1>4. \A i \in 1 .. Len(h) : /\ h[i].day_start_timestamp \in W
                             /\ h[i].day_start_timestamp # today
  BY <1>1, DayInWindow
<1>5. DaysIn(h) \in SUBSET (W \ {today})
  BY <1>4 DEF DaysIn
<1> HIDE DEF W, today
<1>6. Cardinality(DaysIn(h)) <= HistoryDays - 1
  BY <1>3, <1>5, FS_Subset
<1>7. QED
  BY <1>1, <1>6, OneEntryPerDay, HistoryAssumption

\* What RecordDailyEmission makes of a history h of days up to today: the other
\* entries of the window stay, and today's grows or is new.
Recorded(r, h, g, t) ==
  /\ InOrder(r)
  /\ \A n \in 1 .. Len(r) :
       r[n].day_start_timestamp # DayBucketStart(t) =>
         /\ r[n].day_start_timestamp >= RollingWindowStart(t)
         /\ \E i \in 1 .. Len(h) : r[n] = h[i]
  /\ \A i \in 1 .. Len(h) :
       /\ h[i].day_start_timestamp >= RollingWindowStart(t)
       /\ h[i].day_start_timestamp # DayBucketStart(t)
       => \E n \in 1 .. Len(r) : r[n] = h[i]
  /\ \E n \in 1 .. Len(r) : r[n].day_start_timestamp = DayBucketStart(t)
  /\ \A n \in 1 .. Len(r) :
       r[n].day_start_timestamp = DayBucketStart(t) =>
         \/ /\ \A i \in 1 .. Len(h) : h[i].day_start_timestamp # DayBucketStart(t)
            /\ r[n].emission_grams = g
         \/ \E i \in 1 .. Len(h) :
              /\ h[i].day_start_timestamp = DayBucketStart(t)
              /\ r[n].emission_grams = SatAdd(h[i].emission_grams, g)

LEMMA RecordKeeps ==
  ASSUME NEW h \in Seq(DailyEntries), InOrder(h), NEW g \in U64, NEW t \in Int,
         \A i \in 1 .. Len(h) :
           /\ IsDay(h[i].day_start_timestamp)
           /\ h[i].day_start_timestamp <= DayBucketStart(t)
  PROVE  Recorded(RecordDailyEmission(h, g, t), h, g, t)
<1> DEFINE today == DayBucketStart(t)
           start == RollingWindowStart(t)
           a == ActiveEmissionHistory(h, t)
           n == Len(a)
           e == DailyEntry(today, g)
<1>1. /\ a \in Seq(DailyEntries) /\ InOrder(a)
      /\ \A m \in 1 .. n : /\ \E i \in 1 .. Len(h) : a[m] = h[i]
                           /\ a[m].day_start_timestamp >= start
      /\ \A i \in 1 .. Len(h) : h[i].day_start_timestamp >= start =>
           \E m \in 1 .. n : a[m] = h[i]
  BY ActiveKeeps
<1>2. /\ today \in Int /\ start \in Int /\ start <= today
      /\ n \in Nat /\ \A m \in 1 .. n : /\ a[m] \in DailyEntries
                                        /\ a[m].day_start_timestamp \in Int
      /\ \A i \in 1 .. Len(h) : h[i].day_start_timestamp \in Int
  BY <1>1, DayOfTimestamp, WindowMoves, EntryTypes
<1>3. RecordDailyEmission(h, g, t)
        = IF n > 0 /\ a[n].day_start_timestamp = today
          THEN [a EXCEPT ![n].emission_grams = SatAdd(@, g)]
          ELSE IF n + 1 > HistoryDays
          THEN SubSeq(Append(a, e), n + 2 - HistoryDays, n + 1)
          ELSE Append(a, e)
  BY DEF RecordDailyEmission
<1>4. \A m \in 1 .. n : /\ IsDay(a[m].day_start_timestamp)
                        /\ a[m].day_start_timestamp <= today
  BY <1>1
<1>5. e.day_start_timestamp = today /\ e.emission_grams = g /\ e \in DailyEntries
  BY <1>2 DEF DailyEntry, DailyEntries
<1> HIDE DEF a, today, start, e
<1>6. CASE n > 0 /\ a[n].day_start_timestamp = today
  <2> DEFINE grown == [a[n] EXCEPT !.emission_grams = SatAdd(@, g)]
             r == [a EXCEPT ![n] = grown]
  <2>1. n \in 1 .. n /\ a[n] \in DailyEntries
    BY <1>2, <1>6
  <2>2. /\ grown.day_start_timestamp = today
        /\ grown.emission_grams = SatAdd(a[n].emission_grams, g)
        /\ grown \in DailyEntries
    <3>1. SatAdd(a[n].emission_grams, g) \in U64
      BY <2>1, MaxU64Assumption DEF DailyEntries, SatAdd, U64
    <3>2. QED
      BY <1>6, <2>1, <3>1 DEF DailyEntries
  <2>3. RecordDailyEmission(h, g, t) = r
    BY <1>3, <1>6
  <2> HIDE DEF grown
  <2>4. /\ Len(r) = n /\ r[n] = grown
        /\ \A m \in 1 .. n : m # n => r[m] = a[m]
    BY <1>1, <2>1, <2>2, ExceptSeq
  <2> HIDE DEF r
  <2>5. \A m \in 1 .. n : r[m].day_start_timestamp = a[m].day_start_timestamp
    BY <1>6, <2>2, <2>4
  <2>6. InOrder(r)
    BY <1>1, <2>4, <2>5 DEF InOrder
  <2>7. \A m \in 1 .. n : a[m].day_start_timestamp = today => m = n
    BY <1>1, <1>6, <2>1, OneEntryPerDay
  <2>8. PICK i \in 1 .. Len(h) : a[n] = h[i]
    BY <1>1, <2>1
  <2>9. \A m \in 1 .. n : r[m].day_start_timestamp # today =>
          /\ r[m].day_start_timestamp >= start
          /\ \E j \in 1 .. Len(h) : r[m] = h[j]
    BY <1>1, <1>6, <2>4, <2>5
  <2>10. ASSUME NEW j \in 1 .. Len(h), h[j].day_start_timestamp >= start,
                h[j].day_start_timestamp # today
         PROVE  \E m \in 1 .. n : r[m] = h[j]
    <3>1. PICK m \in 1 .. n : a[m] = h[j]
      BY <1>1, <2>10
    <3>2. m # n
      BY <1>6, <2>10, <3>1
    <3>3. QED
      BY <2>4, <3>1, <3>2
  <2>11. \A m \in 1 .. n : r[m].day_start_timestamp = today =>
           /\ h[i].day_start_timestamp = today
           /\ r[m].emission_grams = SatAdd(h[i].emission_grams, g)
    BY <1>6, <2>2, <2>4, <2>5, <2>7, <2>8
  <2>12. \E m \in 1 .. n : r[m].day_start_timestamp = today
    BY <1>6, <2>1, <2>5
  <2>13. QED
    BY <2>3, <2>4, <2>6, <2>9, <2>10, <2>11, <2>12 DEF Recorded, today, start
<1>7. CASE ~(n > 0 /\ a[n].day_start_timestamp = today)
  <2> DEFINE r == Append(a, e)
  <2>1. \A m \in 1 .. n : a[m].day_start_timestamp < today
    <3>1. SUFFICES ASSUME NEW m \in 1 .. n PROVE a[m].day_start_timestamp < today
      OBVIOUS
    <3>2. n \in 1 .. n /\ m \in Int /\ a[n].day_start_timestamp < today
      BY <1>2, <1>4, <1>7
    <3>3. m < n => a[m].day_start_timestamp < a[n].day_start_timestamp
      BY <1>1, <3>2 DEF InOrder
    <3>4. QED
      BY <1>2, <3>2, <3>3
  <2>2. \A i \in 1 .. Len(h) : h[i].day_start_timestamp # today
    <3>1. SUFFICES ASSUME NEW i \in 1 .. Len(h), h[i].day_start_timestamp = today
                   PROVE  FALSE
      OBVIOUS
    <3>2. h[i].day_start_timestamp >= start
      BY <1>2, <3>1
    <3>3. PICK m \in 1 .. n : a[m] = h[i]
      BY <1>1, <3>2
    <3>4. QED
      BY <1>2, <2>1, <3>1, <3>3
  <2>3. n + 1 <= HistoryDays
    BY <1>1, <1>4, <2>1, RoomForToday DEF start, today
  <2>4. RecordDailyEmission(h, g, t) = r
    <3>1. ~(n + 1 > HistoryDays)
      BY <1>2, <2>3, HistoryAssumption
    <3>2. QED
      BY <1>3, <1>7, <3>1
  <2>5. /\ Len(r) = n + 1 /\ r[n + 1] = e
        /\ \A m \in 1 .. n : r[m] = a[m]
    BY <1>1, <1>5, AppendProperties
  <2> HIDE DEF r
  <2>6. InOrder(r)
    <3>1. SUFFICES ASSUME NEW l \in 1 .. n + 1, NEW m \in 1 .. n + 1, l < m
                   PROVE  r[l].day_start_timestamp < r[m].day_start_timestamp
      BY <2>5 DEF InOrder
    <3>2. l \in 1 .. n /\ (m \in 1 .. n \/ m = n + 1)
      BY <1>2, <3>1
    <3>3. m \in 1 .. n => a[l].day_start_timestamp < a[m].day_start_timestamp
      BY <1>1, <3>1, <3>2 DEF InOrder
    <3>4. QED
      BY <1>5, <2>1, <2>5, <3>2, <3>3
  <2>7. \A m \in 1 .. n + 1 : m = n + 1 \/ m \in 1 .. n
    BY <1>2
  <2>8. ASSUME NEW m \in 1 .. n + 1, r[m].day_start_timestamp # today
        PROVE  /\ r[m].day_start_timestamp >= start
               /\ \E j \in 1 .. Len(h) : r[m] = h[j]
    <3>1. m \in 1 .. n /\ r[m] = a[m]
      BY <1>5, <2>5, <2>7, <2>8
    <3>2. QED
      BY <1>1, <3>1
  <2>9. \A j \in 1 .. Len(h) : h[j].day_start_timestamp >= start =>
          \E m \in 1 .. n + 1 : r[m] = h[j]
    <3>1. \A m \in 1 .. n : m \in 1 .. n + 1
      BY <1>2
    <3>2. QED
      BY <1>1, <2>5, <3>1
  <2>10. \A m \in 1 .. n + 1 : r[m].day_start_timestamp = today =>
           r[m].emission_grams = g
    <3>1. ASSUME NEW m \in 1 .. n PROVE r[m].day_start_timestamp # today
      BY <1>2, <2>1, <2>5
    <3>2. QED
      BY <1>5, <2>5, <2>7, <3>1
  <2>11. \E m \in 1 .. n + 1 : r[m].day_start_timestamp = today
    <3>1. n + 1 \in 1 .. n + 1
      BY <1>2
    <3>2. QED
      BY <1>5, <2>5, <3>1
  <2>12. QED
    BY <2>2, <2>4, <2>5, <2>6, <2>8, <2>9, <2>10, <2>11 DEF Recorded, today, start
<1>8. QED
  BY <1>6, <1>7

-----------------------------------------------------------------------------
\* Sums of grams

\* The least number principle, for a set.
LEMMA LeastNumber ==
  ASSUME NEW T, T \subseteq Nat, T # {}
  PROVE  \E m \in T : \A k \in T : m <= k
<1> DEFINE R == OpToRel(<, Nat)
<1>1. \A k, m \in Nat : <<k, m>> \in R <=> k < m
  BY DEF OpToRel
<1>2. IsWellFoundedOn(R, Nat)
  BY NatLessThanWellFounded
<1> HIDE DEF R
<1>3. \E m \in T : \A k \in T : ~(<<k, m>> \in R)
  BY <1>2, WFMin
<1>4. PICK m \in T : \A k \in T : ~(<<k, m>> \in R)
  BY <1>3
<1>5. ASSUME NEW k \in T PROVE m <= k
  <2>1. ~(<<k, m>> \in R)
    BY <1>4
  <2>2. ~(k < m)
    BY <1>1, <2>1
  <2>3. k \in Nat /\ m \in Nat
    OBVIOUS
  <2>4. QED
    BY <2>2, <2>3
<1>6. QED
  BY <1>5

\* What holds at the start and after each step holds throughout: induction, for
\* a set of numbers.
LEMMA StepByStep ==
  ASSUME NEW N \in Nat, NEW T, 0 \in T,
         \A n \in 1 .. N : n - 1 \in T => n \in T
  PROVE  \A n \in 0 .. N : n \in T
<1> DEFINE rest == {n \in 0 .. N : n \notin T}
<1>1. SUFFICES ASSUME rest # {} PROVE FALSE
  OBVIOUS
<1>2. PICK m \in rest : \A k \in rest : m <= k
  <2>1. rest \subseteq Nat
    OBVIOUS
  <2> HIDE DEF rest
  <2>2. QED
    BY <1>1, <2>1, LeastNumber
<1>3. m \in 0 .. N /\ m \notin T
  OBVIOUS
<1>4. m # 0
  BY <1>3
<1>5. m \in 1 .. N /\ m - 1 \in 0 .. N /\ ~ (m <= m - 1)
  BY <1>3, <1>4
<1>6. m - 1 \in T
  BY <1>2, <1>5
<1>7. QED
  BY <1>3, <1>5, <1>6

\* GramsOf adds the entries one by one.
LEMMA GramsStepByStep ==
  ASSUME NEW h \in Seq(DailyEntries)
  PROVE  \E sum : /\ sum[0] = 0
                  /\ \A i \in 1 .. Len(h) :
                       sum[i] = SatAdd(sum[i - 1], h[i].emission_grams)
                  /\ GramsOf(h) = sum[Len(h)]
<1> DEFINE N == Len(h)
           Step(f, i) == IF i = 0 THEN 0 ELSE SatAdd(f[i - 1], h[i].emission_grams)
           Sums(f, n) == f = [i \in 0 .. n |-> Step(f, i)]
           T == {n \in 0 .. N : ~\E f : Sums(f, n)}
<1>1. N \in Nat
  BY EntryTypes
<1>2. T = {}
  <2>1. SUFFICES ASSUME T # {} PROVE FALSE
    OBVIOUS
  <2>2. PICK m \in T : \A k \in T : m <= k
    <3>1. T \subseteq Nat
      BY <1>1
    <3> HIDE DEF T
    <3>2. QED
      BY <2>1, <3>1, LeastNumber
  <2>3. m \in 0 .. N /\ ~\E f : Sums(f, m)
    BY DEF T
  <2>4. CASE m = 0
    <3> DEFINE f == [i \in 0 .. 0 |-> 0]
    <3>1. Sums(f, 0)
      OBVIOUS
    <3>2. QED
      BY <2>3, <2>4, <3>1
  <2>5. CASE m # 0
    <3>1. m - 1 \in 0 .. N /\ m \in Int /\ m > 0
      BY <1>1, <2>3, <2>5
    <3>2. \E f : Sums(f, m - 1)
      <4>1. m - 1 \notin T
        <5> HIDE DEF T
        <5>1. QED
          BY <2>2, <3>1
      <4>2. QED
        <5> HIDE DEF Sums
        <5>1. QED
          BY <3>1, <4>1 DEF T
    <3>3. PICK f : Sums(f, m - 1)
      BY <3>2
    <3> DEFINE g == [i \in 0 .. m |-> IF i = m THEN Step(f, m) ELSE f[i]]
    <3>4. \A i \in 0 .. m - 1 : f[i] = Step(f, i) /\ g[i] = f[i]
      BY <3>1, <3>3
    <3>5. ASSUME NEW i \in 0 .. m PROVE g[i] = Step(g, i)
      <4>1. CASE i = 0
        <5>1. 0 \in 0 .. m - 1
          BY <3>1
        <5>2. g[0] = f[0] /\ f[0] = Step(f, 0)
          BY <3>4, <5>1
        <5>3. g[0] = 0
          BY <5>2
        <5>4. QED
          BY <4>1, <5>3
      <4>2. CASE i # 0
        <5>1. i - 1 \in 0 .. m - 1 /\ g[i - 1] = f[i - 1]
          BY <3>1, <3>4, <4>2
        <5>2. i = m \/ i \in 0 .. m - 1
          BY <3>1
        <5>3. g[i] = Step(f, i)
          BY <3>4, <5>2
        <5>4. QED
          BY <4>2, <5>1, <5>3
      <4>3. QED
        BY <4>1, <4>2
    <3>6. g = [i \in 0 .. m |-> g[i]]
      OBVIOUS
    <3> HIDE DEF g
    <3>7. g = [i \in 0 .. m |-> Step(g, i)]
      BY <3>5, <3>6
    <3>8. QED
      BY <2>3, <3>7
  <2>6. QED
    BY <2>4, <2>5
<1>3. \E f : Sums(f, N)
  <2>1. N \in 0 .. N
    BY <1>1
  <2>2. QED
    BY <1>2, <2>1
<1> DEFINE sum == CHOOSE f : Sums(f, N)
<1>4. Sums(sum, N)
  BY <1>3
<1>5. GramsOf(h) = sum[N]
  BY DEF GramsOf
<1> HIDE DEF sum
<1>6. sum[0] = 0 /\ \A i \in 1 .. N : sum[i] = SatAdd(sum[i - 1], h[i].emission_grams)
  BY <1>1, <1>4
<1>7. QED
  BY <1>5, <1>6
=============================================================================
