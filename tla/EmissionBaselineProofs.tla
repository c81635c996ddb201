----------------------- MODULE EmissionBaselineProofs -----------------------
(***************************************************************************)
(* For any emissions, seeds and skews of the clocks: the baseline that the   *)
(* backend derives is the average of the full month before, and the window   *)
(* that the program keeps yields it on any day without a footprint yet.      *)
(***************************************************************************)
EXTENDS EmissionBaseline, EmissionHistoryProofs

BaselineTypeOK ==
  /\ clock \in 1 .. MaxTime
  /\ history \in Seq(DailyEntries) /\ Len(history) <= HistoryDays
  /\ lastVerifiedAt \in Nat
  /\ daily \in [DayStarts -> Nat \cup {NotRecorded}]

RecordedDays == {d \in DayStarts : daily[d] # NotRecorded}

\* The entries are recorded days with their totals, in order.
WindowIsTrue ==
  /\ InOrder(history)
  /\ \A i \in 1 .. Len(history) :
       /\ history[i].day_start_timestamp \in RecordedDays
       /\ history[i].emission_grams = DayTotal(history[i].day_start_timestamp)

\* A recorded day that is not in the window is too old for it, seen from another
\* recorded day.  A seed moves lastVerifiedAt without a day for it, and by another
\* clock, so the last verification does not tell what was dropped; a footprint
\* moves it back to the clock, so no recorded day is after either.
OnlyOldDaysDropped ==
  \A d \in RecordedDays :
    /\ d <= DayBucketStart(lastVerifiedAt) /\ d <= DayBucketStart(clock)
    /\ \/ d \in DaysIn(history)
       \/ \E e \in RecordedDays : d < RollingWindowStart(e)

\* The inductive invariant.
BaselineInv == BaselineTypeOK /\ WindowIsTrue /\ OnlyOldDaysDropped

-----------------------------------------------------------------------------
\* Days

\* A day starts on its day.
LEMMA DayOfDay ==
  ASSUME NEW d, IsDay(d)
  PROVE  d \in Int /\ DayBucketStart(d) = d
<1>1. PICK s \in Int : d = DayBucketStart(s)
  BY DEF IsDay
<1> DEFINE c == s \div SecondsPerDay
<1>2. c \in Int /\ SecondsPerDay \in Int /\ SecondsPerDay > 0
  BY HistoryAssumption
<1>3. d = c * SecondsPerDay
  BY <1>1 DEF DayBucketStart
<1> HIDE DEF c
<1>4. d \in Int /\ d \div SecondsPerDay = c
  BY <1>2, <1>3
<1>5. QED
  BY <1>3, <1>4 DEF DayBucketStart

LEMMA StartsAreDays ==
  /\ \A d \in DayStarts : d \in Int /\ IsDay(d) /\ DayBucketStart(d) = d
  /\ \A t \in 0 .. MaxTime : DayBucketStart(t) \in DayStarts
<1>1. MaxTime \in Nat
  BY BaselineAssumption
<1>2. \A d \in DayStarts : IsDay(d)
  BY <1>1 DEF DayStarts, IsDay
<1>3. QED
  BY <1>2, DayOfDay DEF DayStarts

Yesterday(t)  == DayBucketStart(t) - SecondsPerDay
MonthStart(t) == DayBucketStart(t) - HistoryDays * SecondsPerDay

\* The month before the day of t is the window that ended with the day before.
LEMMA MonthBefore ==
  ASSUME NEW t \in Int
  PROVE  /\ Yesterday(t) \in Int /\ MonthStart(t) \in Int
         /\ DayBucketStart(Yesterday(t)) = Yesterday(t)
         /\ RollingWindowStart(Yesterday(t)) = MonthStart(t)
         /\ FullDaysBefore(t) = DaysOfWindow(Yesterday(t))
         /\ \A d : IsDay(d) => (d < DayBucketStart(t) <=> d <= Yesterday(t))
<1> DEFINE S == SecondsPerDay
           H == HistoryDays
           today == DayBucketStart(t)
           c == t \div S
           y == today - S
           start == today - H * S
<1>1. c \in Int /\ S \in Int /\ S > 0 /\ H \in Int /\ H > 0 /\ today = c * S
      /\ today \in Int
  BY HistoryAssumption, DayOfTimestamp DEF DayBucketStart
<1> HIDE DEF c, today, S, H
<1>2. y \in Int /\ start \in Int /\ y = (c - 1) * S
  BY <1>1
<1>3. ((c - 1) * S) \div S = c - 1
  BY <1>1
<1>4. IsDay(y) /\ DayBucketStart(y) = y
  <2>1. y \div S = c - 1
    <3> HIDE DEF y
    <3>1. QED
      BY <1>2, <1>3
  <2>2. (y \div S) * S = y
    BY <1>2, <2>1
  <2>3. DayBucketStart(y) = y
    <3> HIDE DEF y
    <3>1. QED
      BY <2>2 DEF DayBucketStart, S
  <2>4. QED
    BY <1>2, <2>3 DEF IsDay
<1>5. RollingWindowStart(y) = start
  <2>1. y - (H - 1) * S = start
    BY <1>1
  <2>2. QED
    BY <1>4, <2>1 DEF RollingWindowStart, S, H
<1>6. FullDaysBefore(t) = DaysOfWindow(y)
  <2>1. ASSUME NEW n \in 1 .. H
        PROVE  /\ today - n * S = start + (H - n) * S
               /\ H - n \in 0 .. H - 1
    BY <1>1
  <2>2. ASSUME NEW k \in 0 .. H - 1
        PROVE  /\ start + k * S = today - (H - k) * S
               /\ H - k \in 1 .. H
    BY <1>1
  <2>3. FullDaysBefore(t) = {today - n * S : n \in 1 .. H}
    BY DEF FullDaysBefore, today, S, H
  <2>4. DaysOfWindow(y) = {start + k * S : k \in 0 .. H - 1}
    BY <1>5 DEF DaysOfWindow, S, H
  <2> HIDE DEF start, y
  <2>5. \A d \in FullDaysBefore(t) : d \in DaysOfWindow(y)
    BY <2>1, <2>3, <2>4
  <2>6. \A d \in DaysOfWindow(y) : d \in FullDaysBefore(t)
    BY <2>2, <2>3, <2>4
  <2>7. QED
    BY <2>5, <2>6
<1>7. ASSUME NEW d, IsDay(d), d < today PROVE d <= y
  <2>1. PICK s \in Int : d = DayBucketStart(s)
    BY <1>7 DEF IsDay
  <2>2. d \in Int
    BY <1>7, DayOfDay
  <2>3. s <= t
    <3>1. t < s => DayBucketStart(t) <= DayBucketStart(s)
      BY DaysApart
    <3>2. QED
      BY <1>1, <1>7, <2>1, <2>2, <3>1 DEF today
  <2>4. d + S <= today
    BY <1>7, <2>1, <2>2, <2>3, <1>1, DaysApart DEF today, S
  <2>5. QED
    BY <1>1, <2>2, <2>4
<1>8. ASSUME NEW d, IsDay(d), d <= y PROVE d < today
  BY <1>1, <1>2, <1>8, DayOfDay
<1>9. Yesterday(t) = y /\ MonthStart(t) = start
  BY DEF Yesterday, MonthStart, today, S, H
<1>10. QED
  BY <1>2, <1>4, <1>5, <1>6, <1>7, <1>8, <1>9 DEF today

-----------------------------------------------------------------------------
\* What the backend reads

\* The entries between two moments, all of them, in their order.
LEMMA BetweenKeeps ==
  ASSUME history \in Seq(DailyEntries), NEW s \in Int, NEW e \in Int
  PROVE  /\ EntriesBetween(s, e) \in Seq(DailyEntries)
         /\ \A n \in 1 .. Len(EntriesBetween(s, e)) :
              /\ \E i \in 1 .. Len(history) : EntriesBetween(s, e)[n] = history[i]
              /\ s <= EntriesBetween(s, e)[n].day_start_timestamp
              /\ EntriesBetween(s, e)[n].day_start_timestamp < e
         /\ \A i \in 1 .. Len(history) :
              /\ s <= history[i].day_start_timestamp
              /\ history[i].day_start_timestamp < e
              => \E n \in 1 .. Len(EntriesBetween(s, e)) :
                   EntriesBetween(s, e)[n] = history[i]
         /\ InOrder(history) => InOrder(EntriesBetween(s, e))
<1> DEFINE K == {i \in DOMAIN history : history[i].day_start_timestamp \in s .. e - 1}
           a == Subsequence(history, K)
<1>1. /\ DOMAIN history = 1 .. Len(history)
      /\ \A i \in 1 .. Len(history) : history[i].day_start_timestamp \in Int
  BY LenProperties, EntryTypes
<1>2. /\ K \subseteq DOMAIN history
      /\ \A i \in 1 .. Len(history) :
           i \in K <=> /\ s <= history[i].day_start_timestamp
                       /\ history[i].day_start_timestamp < e
  BY <1>1
<1>3. EntriesBetween(s, e) = a
  BY DEF EntriesBetween
<1> HIDE DEF K, a
<1>4. /\ a \in Seq(DailyEntries)
      /\ Len(a) = Cardinality(K)
      /\ \A n \in 1 .. Len(a) : /\ Nth(K, n) \in K /\ Nth(K, n) \in 1 .. Len(history)
                                /\ a[n] = history[Nth(K, n)]
      /\ \A m, n \in 1 .. Len(a) : m < n => Nth(K, m) < Nth(K, n)
      /\ \A i \in K : \E n \in 1 .. Len(a) : Nth(K, n) = i
  BY <1>2, SubsequenceKeeps DEF a
<1>5. InOrder(history) => InOrder(a)
  BY <1>4 DEF InOrder
<1>6. QED
  BY <1>2, <1>3, <1>4, <1>5

\* As many entries as a window has days are one for each day, the first for the
\* first.
LEMMA FullWindow ==
  ASSUME NEW a \in Seq(DailyEntries), InOrder(a), NEW y \in Int,
         \A i \in 1 .. Len(a) : a[i].day_start_timestamp \in DaysOfWindow(y),
         Len(a) >= HistoryDays
  PROVE  /\ Len(a) = HistoryDays
         /\ \A n \in 1 .. HistoryDays :
              a[n].day_start_timestamp
                = RollingWindowStart(y) + (n - 1) * SecondsPerDay
<1> DEFINE S == SecondsPerDay
           H == HistoryDays
           start == RollingWindowStart(y)
           day(n) == a[n].day_start_timestamp
           T == {n \in 1 .. H : day(n) # start + (n - 1) * S}
<1>1. /\ S \in Int /\ S > 0 /\ H \in Int /\ H > 0 /\ start \in Int
      /\ Len(a) \in Nat /\ \A n \in 1 .. Len(a) : day(n) \in Int
  <2>1. RollingWindowStart(y) \in DaysOfWindow(y) /\ \A d \in DaysOfWindow(y) : d \in Int
    BY WindowSize
  <2>2. Len(a) \in Nat /\ \A n \in 1 .. Len(a) : day(n) \in Int
    BY EntryTypes
  <2>3. QED
    BY <2>1, <2>2, HistoryAssumption
<1>2. IsFiniteSet(DaysOfWindow(y)) /\ Cardinality(DaysOfWindow(y)) = H
  BY WindowSize
<1>3. Cardinality(DaysIn(a)) = Len(a) /\ DaysIn(a) \in SUBSET DaysOfWindow(y)
  BY OneEntryPerDay DEF DaysIn
<1>4. Len(a) = H
  BY <1>1, <1>2, <1>3, FS_Subset
<1>5. DaysIn(a) = DaysOfWindow(y)
  BY <1>2, <1>3, <1>4, FS_Subset
<1>6. \A k \in 0 .. H - 1 : \E i \in 1 .. H : day(i) = start + k * S
  BY <1>4, <1>5 DEF DaysIn, DaysOfWindow
<1>7. \A n \in 1 .. H : \E k \in 0 .. H - 1 : day(n) = start + k * S
  BY <1>3, <1>4 DEF DaysIn, DaysOfWindow
<1>8. \A m, n \in 1 .. H : m < n => day(m) < day(n)
  BY <1>4 DEF InOrder
<1>9. \A n \in 1 .. H : day(n) \in Int
  BY <1>1, <1>4
<1> HIDE DEF S, H, start, day
<1>10. T = {}
  <2>1. SUFFICES ASSUME T # {} PROVE FALSE
    OBVIOUS
  <2>2. PICK m \in T : \A n \in T : m <= n
    <3>1. T \subseteq Nat
      BY <1>1
    <3> HIDE DEF T
    <3>2. QED
      BY <2>1, <3>1, LeastNumber
  <2>3. /\ m \in 1 .. H /\ day(m) # start + (m - 1) * S
        /\ \A n \in 1 .. H : n < m => day(n) = start + (n - 1) * S
    BY <1>1, <2>2
  <2> HIDE DEF T
  <2>4. PICK k \in 0 .. H - 1 : day(m) = start + k * S
    BY <1>7, <2>3
  <2>5. k >= m - 1
    <3>1. CASE m = 1
      BY <1>1, <3>1
    <3>2. CASE m # 1
      <4>1. m - 1 \in 1 .. H /\ m - 1 < m /\ m \in Int /\ k \in Int
        BY <1>1, <2>3, <3>2
      <4>2. day(m - 1) = start + (m - 1 - 1) * S /\ day(m - 1) < day(m)
        BY <1>8, <2>3, <4>1
      <4>3. (m - 2) * S < k * S
        BY <1>1, <2>4, <4>1, <4>2
      <4>4. ~(k <= m - 2)
        BY <1>1, <4>1, <4>3
      <4>5. QED
        BY <4>1, <4>4
    <3>3. QED
      BY <3>1, <3>2
  <2>6. k # m - 1
    BY <2>3, <2>4
  <2>7. m - 1 \in 0 .. H - 1 /\ m \in Int /\ k \in Int
    BY <1>1, <2>3
  <2>8. PICK i \in 1 .. H : day(i) = start + (m - 1) * S
    BY <1>6, <2>7
  <2>9. day(i) < day(m)
    <3>1. (m - 1) * S < k * S
      BY <1>1, <2>5, <2>6, <2>7
    <3>2. QED
      BY <1>1, <2>4, <2>7, <2>8, <3>1
  <2>10. i < m
    <3>1. i # m /\ (m < i => day(m) < day(i))
      BY <1>8, <2>3, <2>9, <1>9
    <3>2. i \in Int
      BY <1>1
    <3>3. QED
      BY <1>9, <2>3, <2>7, <2>9, <3>1, <3>2
  <2>11. day(i) = start + (i - 1) * S
    BY <2>3, <2>10
  <2>12. (i - 1) * S < (m - 1) * S
    BY <1>1, <2>7, <2>10
  <2>13. QED
    BY <1>1, <2>7, <2>8, <2>11, <2>12
<1>11. QED
  BY <1>4, <1>10 DEF S, H, start, day

-----------------------------------------------------------------------------
\* The invariant

LEMMA InitBaseline == Init => BaselineInv
<1> SUFFICES ASSUME Init PROVE BaselineInv
  OBVIOUS
<1>1. MaxTime \in Nat /\ MaxTime > 0
  BY BaselineAssumption
<1>2. RecordedDays = {}
  BY DEF Init, RecordedDays
<1>3. BaselineTypeOK
  <2>1. history \in Seq(DailyEntries) /\ Len(history) <= HistoryDays
    BY EmptySeq, HistoryAssumption DEF Init
  <2>2. QED
    BY <1>1, <2>1 DEF Init, BaselineTypeOK
<1>4. WindowIsTrue
  <2>1. Len(history) = 0
    BY EmptySeq DEF Init
  <2>2. QED
    BY <2>1 DEF WindowIsTrue, InOrder
<1>5. OnlyOldDaysDropped
  BY <1>2 DEF OnlyOldDaysDropped
<1>6. QED
  BY <1>3, <1>4, <1>5 DEF BaselineInv

\* What the invariant says of the entries at some moment
LEMMA EntriesOfDays ==
  ASSUME BaselineInv
  PROVE  \A i \in 1 .. Len(history) :
           /\ IsDay(history[i].day_start_timestamp)
           /\ history[i].day_start_timestamp \in Int
           /\ history[i].day_start_timestamp <= DayBucketStart(clock)
<1>1. \A d \in RecordedDays : d \in Int /\ IsDay(d) /\ d <= DayBucketStart(clock)
  BY StartsAreDays DEF BaselineInv, OnlyOldDaysDropped, RecordedDays
<1>2. QED
  BY <1>1 DEF BaselineInv, WindowIsTrue

LEMMA ApplyKeeps ==
  ASSUME BaselineInv, NEW g \in Emissions, ApplyVerifiedFootprint(g)
  PROVE  BaselineInv'
<1> DEFINE today == DayBucketStart(clock)
           h == history
           r == RecordDailyEmission(h, g, clock)
           After(d) == IF daily'[d] > MaxU64 THEN MaxU64 ELSE daily'[d]
<1>1. /\ clock \in 1 .. MaxTime /\ clock \in Int /\ clock \in 0 .. MaxTime
      /\ h \in Seq(DailyEntries) /\ InOrder(h) /\ Len(h) <= HistoryDays
      /\ daily \in [DayStarts -> Nat \cup {NotRecorded}]
      /\ g \in U64 /\ g \in Nat
  BY BaselineAssumption
  DEF BaselineInv, BaselineTypeOK, WindowIsTrue, ApplyVerifiedFootprint, U64
<1>2. /\ today \in DayStarts /\ today \in Int /\ DayBucketStart(today) = today
  BY <1>1, StartsAreDays
<1>3. /\ RollingWindowStart(clock) = RollingWindowStart(today)
      /\ RollingWindowStart(today) \in Int /\ RollingWindowStart(today) <= today
  <2>1. RollingWindowStart(clock) = RollingWindowStart(today)
    BY <1>2 DEF RollingWindowStart
  <2>2. QED
    BY <1>1, <2>1, WindowMoves
<1>4. \A i \in 1 .. Len(h) : /\ IsDay(h[i].day_start_timestamp)
                             /\ h[i].day_start_timestamp \in Int
                             /\ h[i].day_start_timestamp <= today
  BY EntriesOfDays
<1>5. /\ Recorded(r, h, g, clock)
      /\ r \in Seq(DailyEntries) /\ Len(r) <= HistoryDays
  <2>1. Recorded(r, h, g, clock)
    BY <1>1, <1>4, RecordKeeps
  <2>2. r \in Seq(DailyEntries) /\ Len(r) <= HistoryDays
    BY <1>1, RecordType
  <2>3. QED
    BY <2>1, <2>2
<1>6. /\ history' = r /\ lastVerifiedAt' = clock /\ clock' = clock
      /\ daily' = [daily EXCEPT ![today] = IF @ = NotRecorded THEN g ELSE @ + g]
  BY DEF ApplyVerifiedFootprint
<1>7. /\ daily' \in [DayStarts -> Nat \cup {NotRecorded}]
      /\ daily'[today] = IF daily[today] = NotRecorded THEN g ELSE daily[today] + g
      /\ daily'[today] \in Nat
      /\ \A d \in DayStarts : d # today => daily'[d] = daily[d]
  BY <1>1, <1>2, <1>6 DEF NotRecorded
<1>8. RecordedDays' = RecordedDays \cup {today}
  BY <1>2, <1>7 DEF RecordedDays, NotRecorded, DayStarts
<1>9. \A d \in RecordedDays : d \in DayStarts /\ d \in Int /\ d <= today
  BY StartsAreDays DEF BaselineInv, OnlyOldDaysDropped, RecordedDays
<1>10. \A i \in 1 .. Len(h) : /\ h[i].day_start_timestamp \in RecordedDays
                              /\ h[i].emission_grams = DayTotal(h[i].day_start_timestamp)
  BY DEF BaselineInv, WindowIsTrue
<1>11. \A d \in RecordedDays :
         d \in DaysIn(h) \/ \E e \in RecordedDays : d < RollingWindowStart(e)
  BY DEF BaselineInv, OnlyOldDaysDropped
<1> HIDE DEF r, today
<1>12. ASSUME NEW n \in 1 .. Len(r)
       PROVE  /\ r[n].day_start_timestamp \in RecordedDays'
              /\ r[n].emission_grams = After(r[n].day_start_timestamp)
  <2>1. CASE r[n].day_start_timestamp # today
    <3>1. PICK i \in 1 .. Len(h) : r[n] = h[i]
      BY <1>5, <2>1 DEF Recorded, today
    <3>2. r[n].day_start_timestamp \in DayStarts
      BY <1>9, <1>10, <3>1
    <3>3. daily'[r[n].day_start_timestamp] = daily[r[n].day_start_timestamp]
      BY <1>7, <2>1, <3>2
    <3>4. After(r[n].day_start_timestamp) = DayTotal(h[i].day_start_timestamp)
      BY <3>1, <3>3 DEF DayTotal
    <3>5. QED
      BY <1>8, <1>10, <3>1, <3>4
  <2>2. CASE r[n].day_start_timestamp = today
    <3>1. After(r[n].day_start_timestamp) = After(today)
      BY <2>2
    <3>2. CASE /\ \A i \in 1 .. Len(h) : h[i].day_start_timestamp # today
               /\ r[n].emission_grams = g
      <4>1. today \notin RecordedDays
        <5>1. SUFFICES ASSUME today \in RecordedDays PROVE FALSE
          OBVIOUS
        <5>2. today \notin DaysIn(h)
          BY <3>2 DEF DaysIn
        <5>3. PICK e \in RecordedDays : today < RollingWindowStart(e)
          BY <1>11, <5>1, <5>2
        <5>4. e \in Int /\ e <= today /\ DayBucketStart(e) = e
          BY <1>9, StartsAreDays
        <5>5. RollingWindowStart(e) \in Int /\ RollingWindowStart(e) <= e
          BY <5>4, WindowMoves
        <5>6. QED
          BY <1>2, <5>3, <5>4, <5>5
      <4>2. daily'[today] = g
        BY <1>2, <1>7, <4>1 DEF RecordedDays
      <4>3. QED
        BY <1>1, <1>8, <2>2, <3>1, <3>2, <4>2, MaxU64Assumption DEF U64
    <3>3. CASE \E i \in 1 .. Len(h) :
                 /\ h[i].day_start_timestamp = today
                 /\ r[n].emission_grams = SatAdd(h[i].emission_grams, g)
      <4>1. PICK i \in 1 .. Len(h) :
                 /\ h[i].day_start_timestamp = today
                 /\ r[n].emission_grams = SatAdd(h[i].emission_grams, g)
        BY <3>3
      <4>2. today \in RecordedDays /\ h[i].emission_grams = DayTotal(today)
        BY <1>10, <4>1
      <4>3. daily[today] \in Nat /\ daily'[today] = daily[today] + g
        BY <1>1, <1>2, <1>7, <4>2 DEF RecordedDays
      <4>4. SatAdd(DayTotal(today), g)
              = IF daily[today] + g > MaxU64 THEN MaxU64 ELSE daily[today] + g
        BY <1>1, <4>3, MaxU64Assumption DEF DayTotal, SatAdd, U64
      <4>5. QED
        BY <1>8, <2>2, <3>1, <4>1, <4>2, <4>3, <4>4
    <3>4. QED
      BY <1>5, <2>2, <3>2, <3>3 DEF Recorded, today
  <2>3. QED
    BY <2>1, <2>2
<1>13. WindowIsTrue'
  <2>1. InOrder(r)
    BY <1>5 DEF Recorded
  <2>2. QED
    BY <1>6, <1>12, <2>1 DEF WindowIsTrue, DayTotal
<1>14. ASSUME NEW d \in RecordedDays'
       PROVE  /\ d <= today
              /\ d \in DaysIn(r) \/ \E e \in RecordedDays' : d < RollingWindowStart(e)
  <2>1. CASE d = today
    <3>1. today \in DaysIn(r)
      BY <1>5 DEF Recorded, DaysIn, today
    <3>2. QED
      BY <1>2, <2>1, <3>1
  <2>2. CASE d # today
    <3>1. d \in RecordedDays /\ d \in Int /\ d <= today
      BY <1>8, <1>9, <2>2
    <3>2. CASE d \in DaysIn(h) /\ d >= RollingWindowStart(today)
      <4>1. PICK i \in 1 .. Len(h) : d = h[i].day_start_timestamp
        BY <3>2 DEF DaysIn
      <4>2. \E n \in 1 .. Len(r) : r[n] = h[i]
        BY <1>3, <1>5, <2>2, <3>2, <4>1 DEF Recorded, today
      <4>3. QED
        BY <3>1, <4>1, <4>2 DEF DaysIn
    <3>3. CASE d < RollingWindowStart(today)
      BY <1>8, <3>1, <3>3
    <3>4. CASE \E e \in RecordedDays : d < RollingWindowStart(e)
      BY <1>8, <3>1, <3>4
    <3>5. QED
      BY <1>3, <1>11, <3>1, <3>2, <3>3, <3>4
  <2>3. QED
    BY <2>1, <2>2
<1>15. OnlyOldDaysDropped'
  BY <1>6, <1>14 DEF OnlyOldDaysDropped, today
<1>16. BaselineTypeOK'
  BY <1>1, <1>5, <1>6, <1>7 DEF BaselineTypeOK
<1>17. QED
  BY <1>13, <1>15, <1>16 DEF BaselineInv

\* A clock that is not more than a day ahead is at most one day further.
LEMMA DayAhead ==
  ASSUME NEW t \in Int, NEW s \in Int, s <= SecondsPerDay
  PROVE  /\ t + s \in Int /\ DayBucketStart(t + s) \in Int /\ DayBucketStart(t) \in Int
         /\ DayBucketStart(t + s) <= DayBucketStart(t) + SecondsPerDay
<1> DEFINE S == SecondsPerDay
           c == t \div S
<1>1. S \in Int /\ S > 0 /\ c \in Int
  BY HistoryAssumption
<1>2. t + s \in Int /\ t + S \in Int /\ t + s <= t + S
  BY <1>1
<1>3. DayBucketStart(t + S) = DayBucketStart(t) + S
  <2>1. (t + S) \div S = c + 1
    BY <1>1
  <2>2. (c + 1) * S = c * S + S
    BY <1>1
  <2>3. QED
    BY <2>1, <2>2 DEF DayBucketStart
<1>4. /\ DayBucketStart(t + s) \in Int /\ DayBucketStart(t) \in Int
      /\ DayBucketStart(t + s) <= DayBucketStart(t + S)
  BY <1>2, DayOfTimestamp, DaysApart
<1>5. QED
  BY <1>2, <1>3, <1>4

LEMMA SeedKeeps ==
  ASSUME BaselineInv, NEW days \in SeedDays, NEW g \in SeedGrams,
         NEW skew \in SeedSkews, SeedEmissionHistory(days, g, skew)
  PROVE  BaselineInv'
<1> DEFINE S == SecondsPerDay
           end == clock + skew
           today == DayBucketStart(end)
           first == today - days * S
           day(i) == first + (i - 1) * S
           h == SeededHistory(days, g, end)
<1>1. /\ clock \in 1 .. MaxTime /\ clock \in Int /\ MaxTime \in Nat
      /\ g \in U64 /\ g \in Nat /\ MaxU64 \in Nat
      /\ S \in Int /\ S > 0 /\ days \in Int /\ days > 0 /\ days <= HistoryDays
      /\ days \in Nat
  BY BaselineAssumption, HistoryAssumption, MaxU64Assumption
  DEF BaselineInv, BaselineTypeOK, SeedDays, U64
<1>2. /\ end \in Int /\ end > 0 /\ today \in Int /\ today >= days * S
      /\ DayBucketStart(clock) \in Int /\ DayBucketStart(clock) <= clock
      /\ today - S <= DayBucketStart(clock)
  <2>1. skew \in Int /\ skew <= S
    BY BaselineAssumption
  <2>2. /\ end \in Int /\ today \in Int /\ DayBucketStart(clock) \in Int
        /\ today <= DayBucketStart(clock) + S
    BY <1>1, <2>1, DayAhead
  <2>3. DayBucketStart(clock) <= clock
    BY <1>1, DayOfTimestamp
  <2>4. today >= days * S /\ end > 0
    BY DEF SeedEmissionHistory, ValidSeed
  <2> HIDE DEF end, today, S
  <2>5. QED
    BY <1>1, <2>2, <2>3, <2>4
<1>3. /\ history' = h /\ lastVerifiedAt' = end /\ clock' = clock
      /\ daily' = [d \in DayStarts |->
           IF \E i \in 1 .. days : h[i].day_start_timestamp = d
           THEN g ELSE NotRecorded]
  BY DEF SeedEmissionHistory
<1>4. /\ \A i \in 1 .. days : /\ h[i].day_start_timestamp = day(i)
                              /\ h[i].emission_grams = g
      /\ h = [i \in 1 .. days |-> DailyEntry(day(i), g)]
  BY DEF SeededHistory, DailyEntry
<1>5. IsDay(today)
  BY <1>2 DEF IsDay
<1>6. ASSUME NEW i \in 1 .. days
      PROVE  /\ day(i) \in Int /\ 0 <= day(i) /\ day(i) \in DayStarts
             /\ day(i) <= today /\ day(i) <= DayBucketStart(clock)
  <2>1. i \in Int /\ days * S \in Int /\ (i - 1) * S \in Int
        /\ 0 <= (i - 1) * S /\ (i - 1) * S <= (days - 1) * S
    BY <1>1
  <2>a. (days - 1) * S = days * S - S
    BY <1>1
  <2>2. /\ day(i) \in Int /\ 0 <= day(i) /\ day(i) <= today - S
        /\ day(i) <= today /\ day(i) <= DayBucketStart(clock)
    <3> HIDE DEF today, S
    <3>1. QED
      BY <1>1, <1>2, <2>1, <2>a
  <2>3. DayBucketStart(day(i)) = day(i)
    <3> DEFINE c == end \div S
               b == c - days + i - 1
    <3>1. c \in Int /\ today = c * S
      BY <1>1, <1>2 DEF DayBucketStart
    <3> HIDE DEF c, S, today
    <3>2. day(i) = b * S /\ b \in Int
      BY <1>1, <2>1, <3>1
    <3> HIDE DEF b
    <3>3. (b * S) \div S = b
      BY <1>1, <3>2
    <3>4. DayBucketStart(b * S) = b * S
      BY <3>3 DEF DayBucketStart, S
    <3>5. QED
      BY <3>2, <3>4
  <2>4. day(i) \in 0 .. MaxTime
    BY <1>1, <1>2, <2>2
  <2> HIDE DEF day
  <2>5. DayBucketStart(day(i)) \in DayStarts
    BY <2>4, StartsAreDays
  <2>6. QED
    BY <2>2, <2>3, <2>5
<1>7. \A i, j \in 1 .. days : i < j => day(i) < day(j)
  <2> HIDE DEF S, today
  <2>1. SUFFICES ASSUME NEW i \in 1 .. days, NEW j \in 1 .. days, i < j
                 PROVE  day(i) < day(j)
    OBVIOUS
  <2>2. (i - 1) * S < (j - 1) * S /\ (i - 1) * S \in Int /\ (j - 1) * S \in Int
    BY <1>1, <2>1
  <2>3. first \in Int
    BY <1>1, <1>2
  <2>4. QED
    BY <2>2, <2>3
<1> HIDE DEF day, first, S
<1>8. h \in Seq(DailyEntries) /\ Len(h) = days
  <2>1. \A i \in 1 .. days : DailyEntry(day(i), g) \in DailyEntries
    BY <1>1, <1>6 DEF DailyEntry, DailyEntries
  <2>2. h \in [1 .. days -> DailyEntries]
    BY <1>4, <2>1
  <2> HIDE DEF h
  <2>3. QED
    BY <1>1, <2>2, IsASeq, LenProperties
<1> HIDE DEF h, today, end
<1>9. /\ daily' \in [DayStarts -> Nat \cup {NotRecorded}]
      /\ \A i \in 1 .. days : daily'[day(i)] = g /\ day(i) \in RecordedDays'
      /\ \A d \in RecordedDays' : \E i \in 1 .. days : day(i) = d
  <2>1. daily' \in [DayStarts -> Nat \cup {NotRecorded}]
    BY <1>1, <1>3
  <2>2. \A i \in 1 .. days : daily'[day(i)] = g
    BY <1>3, <1>4, <1>6
  <2>3. g # NotRecorded
    BY <1>1 DEF NotRecorded
  <2>4. \A d \in DayStarts : daily'[d] # NotRecorded =>
          \E i \in 1 .. days : day(i) = d
    BY <1>3, <1>4
  <2>5. RecordedDays' = {d \in DayStarts : daily'[d] # NotRecorded}
    BY DEF RecordedDays, DayStarts
  <2>6. QED
    BY <1>6, <2>1, <2>2, <2>3, <2>4, <2>5
<1>10. BaselineTypeOK'
  BY <1>1, <1>2, <1>3, <1>8, <1>9 DEF BaselineTypeOK
<1>11. WindowIsTrue'
  <2>1. InOrder(h)
    <3>1. SUFFICES ASSUME NEW i \in 1 .. days, NEW j \in 1 .. days, i < j
                   PROVE  h[i].day_start_timestamp < h[j].day_start_timestamp
      BY <1>8 DEF InOrder
    <3>2. h[i].day_start_timestamp = day(i) /\ h[j].day_start_timestamp = day(j)
      BY <1>4
    <3>3. QED
      BY <1>7, <3>1, <3>2
  <2>2. ASSUME NEW i \in 1 .. Len(h)
        PROVE  /\ h[i].day_start_timestamp \in RecordedDays'
               /\ h[i].emission_grams
                    = IF daily'[h[i].day_start_timestamp] > MaxU64 THEN MaxU64
                      ELSE daily'[h[i].day_start_timestamp]
    BY <1>1, <1>4, <1>8, <1>9 DEF U64
  <2>3. QED
    BY <1>3, <2>1, <2>2 DEF WindowIsTrue, DayTotal
<1>12. OnlyOldDaysDropped'
  <2>1. ASSUME NEW d \in RecordedDays'
        PROVE  d <= today /\ d <= DayBucketStart(clock) /\ d \in DaysIn(h)
    BY <1>4, <1>6, <1>8, <1>9 DEF DaysIn
  <2>2. QED
    BY <1>3, <2>1 DEF OnlyOldDaysDropped, today
<1>13. QED
  BY <1>10, <1>11, <1>12 DEF BaselineInv

LEMMA BaselinePreserved ==
  ASSUME BaselineInv, [Next]_baselineVars
  PROVE  BaselineInv'
<1>1. clock \in 1 .. MaxTime /\ MaxTime \in Nat
  BY BaselineAssumption DEF BaselineInv, BaselineTypeOK
<1>2. ASSUME UNCHANGED <<history, lastVerifiedAt, daily>>, clock' \in clock .. MaxTime
      PROVE  BaselineInv'
  <2>1. BaselineTypeOK'
    BY <1>1, <1>2 DEF BaselineInv, BaselineTypeOK
  <2>2. RecordedDays' = RecordedDays
    BY <1>2 DEF RecordedDays, DayStarts
  <2>3. /\ DayBucketStart(clock) \in Int /\ DayBucketStart(clock') \in Int
        /\ DayBucketStart(clock) <= DayBucketStart(clock')
    <3>1. clock \in Int /\ clock' \in Int /\ clock <= clock'
      BY <1>1, <1>2
    <3>2. QED
      BY <3>1, DayOfTimestamp, DaysApart
  <2>4. ASSUME NEW d \in RecordedDays
        PROVE  /\ d <= DayBucketStart(lastVerifiedAt') /\ d <= DayBucketStart(clock')
               /\ \/ d \in DaysIn(history')
                  \/ \E e \in RecordedDays : d < RollingWindowStart(e)
    <3>1. /\ d \in Int
          /\ d <= DayBucketStart(lastVerifiedAt) /\ d <= DayBucketStart(clock)
          /\ \/ d \in DaysIn(history)
             \/ \E e \in RecordedDays : d < RollingWindowStart(e)
      BY StartsAreDays DEF BaselineInv, OnlyOldDaysDropped, RecordedDays
    <3>2. QED
      BY <1>2, <2>3, <3>1
  <2>5. OnlyOldDaysDropped'
    BY <2>2, <2>4 DEF OnlyOldDaysDropped
  <2>6. WindowIsTrue'
    BY <1>2, <2>2 DEF BaselineInv, WindowIsTrue, DayTotal
  <2>7. QED
    BY <2>1, <2>5, <2>6 DEF BaselineInv
<1>3. CASE Tick
  BY <1>1, <1>2, <1>3 DEF Tick
<1>4. ASSUME NEW g \in Emissions, ApplyVerifiedFootprint(g) PROVE BaselineInv'
  BY <1>4, ApplyKeeps
<1>5. ASSUME NEW n \in SeedDays, NEW g \in SeedGrams, NEW s \in SeedSkews,
             SeedEmissionHistory(n, g, s)
      PROVE  BaselineInv'
  BY <1>5, SeedKeeps
<1>6. CASE UNCHANGED baselineVars
  BY <1>1, <1>2, <1>6 DEF baselineVars
<1>7. QED
  BY <1>3, <1>4, <1>5, <1>6 DEF Next

-----------------------------------------------------------------------------
\* The baseline

MonthOf(t) == EntriesBetween(MonthStart(t), DayBucketStart(t))

\* What the backend reads of the month before t: recorded days of it, with their
\* totals, in order.
LEMMA MonthRead ==
  ASSUME BaselineInv, NEW t \in Int
  PROVE  /\ MonthOf(t) \in Seq(DailyEntries) /\ InOrder(MonthOf(t))
         /\ \A n \in 1 .. Len(MonthOf(t)) :
              /\ MonthOf(t)[n].day_start_timestamp \in FullDaysBefore(t)
              /\ MonthOf(t)[n].day_start_timestamp \in RecordedDays
              /\ MonthOf(t)[n].emission_grams
                   = DayTotal(MonthOf(t)[n].day_start_timestamp)
         /\ \A i \in 1 .. Len(history) :
              history[i].day_start_timestamp \in FullDaysBefore(t) =>
                history[i].day_start_timestamp \in DaysIn(MonthOf(t))
<1> DEFINE start == MonthStart(t)
           today == DayBucketStart(t)
           y == Yesterday(t)
           a == MonthOf(t)
<1>1. /\ y \in Int /\ start \in Int /\ today \in Int /\ DayBucketStart(y) = y
      /\ RollingWindowStart(y) = start /\ FullDaysBefore(t) = DaysOfWindow(y)
      /\ \A d : IsDay(d) => (d < today <=> d <= y)
  BY MonthBefore, DayOfTimestamp
<1>2. /\ history \in Seq(DailyEntries) /\ InOrder(history)
      /\ \A i \in 1 .. Len(history) :
           /\ history[i].day_start_timestamp \in RecordedDays
           /\ history[i].emission_grams = DayTotal(history[i].day_start_timestamp)
  BY DEF BaselineInv, BaselineTypeOK, WindowIsTrue
<1>3. \A i \in 1 .. Len(history) : IsDay(history[i].day_start_timestamp)
  BY EntriesOfDays
<1>4. /\ a \in Seq(DailyEntries) /\ InOrder(a)
      /\ \A n \in 1 .. Len(a) :
              /\ \E i \in 1 .. Len(history) : a[n] = history[i]
              /\ start <= a[n].day_start_timestamp
              /\ a[n].day_start_timestamp < today
      /\ \A i \in 1 .. Len(history) :
              /\ start <= history[i].day_start_timestamp
              /\ history[i].day_start_timestamp < today
              => \E n \in 1 .. Len(a) : a[n] = history[i]
  BY <1>1, <1>2, BetweenKeeps DEF MonthOf
<1> HIDE DEF start, today, y, a
<1>5. ASSUME NEW n \in 1 .. Len(a)
      PROVE  /\ a[n].day_start_timestamp \in FullDaysBefore(t)
             /\ a[n].day_start_timestamp \in RecordedDays
             /\ a[n].emission_grams = DayTotal(a[n].day_start_timestamp)
  <2>1. PICK i \in 1 .. Len(history) : a[n] = history[i]
    BY <1>4
  <2>2. /\ IsDay(a[n].day_start_timestamp) /\ start <= a[n].day_start_timestamp
        /\ a[n].day_start_timestamp <= y
    BY <1>1, <1>3, <1>4, <2>1
  <2>3. a[n].day_start_timestamp \in DaysOfWindow(y)
    BY <1>1, <2>2, DayInWindow
  <2>4. QED
    BY <1>1, <1>2, <2>1, <2>3
<1>6. ASSUME NEW i \in 1 .. Len(history),
             history[i].day_start_timestamp \in FullDaysBefore(t)
      PROVE  history[i].day_start_timestamp \in DaysIn(a)
  <2>1. /\ IsDay(history[i].day_start_timestamp)
        /\ start <= history[i].day_start_timestamp
        /\ history[i].day_start_timestamp <= y
    BY <1>1, <1>6, WindowSize
  <2>2. \E n \in 1 .. Len(a) : a[n] = history[i]
    BY <1>1, <1>4, <2>1
  <2>3. QED
    BY <2>2 DEF DaysIn
<1>7. QED
  BY <1>4, <1>5, <1>6 DEF a

\* As many entries as a month has days give its average.
LEMMA FullMonthAverage ==
  ASSUME BaselineInv, NEW t \in Int, Len(MonthOf(t)) >= HistoryDays
  PROVE  MonthRecorded(t) /\ DeriveHistoricalData(t) = TrueAverage(t)
<1> DEFINE H == HistoryDays
           S == SecondsPerDay
           start == MonthStart(t)
           a == MonthOf(t)
           y == Yesterday(t)
<1>1. /\ a \in Seq(DailyEntries) /\ InOrder(a)
      /\ \A n \in 1 .. Len(a) :
           /\ a[n].day_start_timestamp \in FullDaysBefore(t)
           /\ a[n].day_start_timestamp \in RecordedDays
           /\ a[n].emission_grams = DayTotal(a[n].day_start_timestamp)
  BY MonthRead
<1>2. /\ y \in Int /\ start \in Int /\ RollingWindowStart(y) = start
      /\ FullDaysBefore(t) = DaysOfWindow(y)
  BY MonthBefore
<1>3. H \in Nat \ {0} /\ S \in Nat \ {0}
  BY HistoryAssumption
<1>4. DeriveHistoricalData(t) = AverageFrom(start, a)
  BY DEF DeriveHistoricalData, MonthOf, MonthStart
<1>5. TrueAverage(t)
        = MonthlyAverage(SumUpTo(H, [n \in 1 .. H |-> DayTotal(start + (n - 1) * S)]))
  BY DEF TrueAverage, MonthStart
<1>6. H <= Len(a)
  BY <1>3, LenProperties, <1>1
<1> HIDE DEF a, start, y
<1>7. /\ Len(a) = H
      /\ \A n \in 1 .. H : a[n].day_start_timestamp = start + (n - 1) * S
  BY <1>1, <1>2, <1>6, FullWindow
<1>8. DOMAIN a = 1 .. H
  BY <1>1, <1>7, LenProperties
<1>9. [i \in DOMAIN a |-> a[i].emission_grams]
        = [n \in 1 .. H |-> DayTotal(start + (n - 1) * S)]
  <2>1. \A n \in 1 .. H : a[n].emission_grams = DayTotal(start + (n - 1) * S)
    BY <1>1, <1>7
  <2>2. QED
    BY <1>8, <2>1
<1>10. GramsIn(a) = SumUpTo(H, [n \in 1 .. H |-> DayTotal(start + (n - 1) * S)])
  BY <1>7, <1>9 DEF GramsIn
<1>11. AverageFrom(start, a) = MonthlyAverage(GramsIn(a))
  <2>1. 1 \in DOMAIN a /\ a[1].day_start_timestamp = start
    <3>1. 1 \in 1 .. H /\ start + (1 - 1) * S = start
      BY <1>2, <1>3
    <3>2. QED
      BY <1>7, <1>8, <3>1
  <2>2. ~(Len(a) < H) /\ ~(start > start)
    BY <1>2, <1>3, <1>7
  <2>3. QED
    BY <2>1, <2>2 DEF AverageFrom
<1>12. MonthRecorded(t)
  <2>1. \A k \in 0 .. H - 1 : start + k * S \in RecordedDays
    <3>1. \A k \in 0 .. H - 1 : k + 1 \in 1 .. H /\ (k + 1) - 1 = k
      BY <1>3
    <3>2. QED
      BY <1>1, <1>7, <3>1
  <2>2. \A d \in FullDaysBefore(t) : d \in RecordedDays
    BY <1>2, <2>1 DEF DaysOfWindow
  <2>3. QED
    BY <2>2 DEF MonthRecorded, RecordedDays
<1>13. QED
  BY <1>4, <1>5, <1>10, <1>11, <1>12

\* The moments of AsOfTimes are not before the last verification.
LEMMA MomentsAfter ==
  ASSUME BaselineInv, NEW t \in AsOfTimes
  PROVE  t \in Int /\ lastVerifiedAt \in Int /\ lastVerifiedAt <= t
BY BaselineAssumption DEF BaselineInv, BaselineTypeOK, AsOfTimes

LEMMA BaselineInvariant == Spec => []BaselineInv
BY InitBaseline, BaselinePreserved, PTL DEF Spec

\* Where the backend derives a baseline, at any moment and by any clock, every day
\* of the month before was recorded and the baseline is their average.
THEOREM BaselinesAreMonths == Spec => []BaselineIsAFullMonth
<1>1. BaselineInv => BaselineIsAFullMonth
  <2>1. SUFFICES ASSUME BaselineInv, NEW t \in AsOfTimes, DeriveHistoricalData(t) # 0
                 PROVE  MonthRecorded(t) /\ DeriveHistoricalData(t) = TrueAverage(t)
    BY DEF BaselineIsAFullMonth
  <2>2. t \in Int
    BY <2>1, MomentsAfter
  <2>3. MonthOf(t) \in Seq(DailyEntries)
    BY <2>1, <2>2, MonthRead
  <2>4. ~(Len(MonthOf(t)) < HistoryDays)
    BY <2>1 DEF DeriveHistoricalData, AverageFrom, MonthOf, MonthStart
  <2>5. Len(MonthOf(t)) >= HistoryDays
    BY <2>3, <2>4, LenProperties, HistoryAssumption
  <2>6. QED
    BY <2>1, <2>2, <2>5, FullMonthAverage
<1>2. QED
  BY <1>1, BaselineInvariant, PTL

\* Whoever recorded every day of the month before has the baseline on a day that
\* is not recorded yet: what record_daily_emission drops, the backend does not
\* need on such a day.
THEOREM FreshDaysHaveBaselines == Spec => []BaselineOnAFreshDay
<1>1. BaselineInv => BaselineOnAFreshDay
  <2>1. SUFFICES ASSUME BaselineInv, NEW t \in AsOfTimes,
                        MonthRecorded(t), ~RecordedToday(t)
                 PROVE  DeriveHistoricalData(t) = TrueAverage(t)
    BY DEF BaselineOnAFreshDay
  <2> DEFINE y == Yesterday(t)
             last == lastVerifiedAt
  <2>2. t \in Int /\ last \in Int /\ last <= t
    BY <2>1, MomentsAfter
  <2>3. /\ y \in Int /\ RollingWindowStart(y) = MonthStart(t)
        /\ DayBucketStart(y) = y
        /\ FullDaysBefore(t) = DaysOfWindow(y)
        /\ \A d : IsDay(d) => (d < DayBucketStart(t) <=> d <= y)
    BY <2>2, MonthBefore
  <2>4. /\ DayBucketStart(last) \in Int /\ DayBucketStart(t) \in Int
        /\ DayBucketStart(last) <= DayBucketStart(t)
    BY <2>2, DayOfTimestamp, DaysApart
  <2>5. ASSUME NEW e \in RecordedDays
        PROVE  e \in Int /\ RollingWindowStart(e) <= MonthStart(t)
               /\ RollingWindowStart(e) \in Int /\ MonthStart(t) \in Int
    <3>1. /\ e \in DayStarts /\ e \in Int /\ IsDay(e) /\ e <= DayBucketStart(last)
          /\ daily[e] # NotRecorded
      BY <2>1, StartsAreDays DEF BaselineInv, OnlyOldDaysDropped, RecordedDays
    <3>2. e # DayBucketStart(t)
      BY <2>1, <3>1 DEF RecordedToday
    <3>3. e <= y
      BY <2>3, <2>4, <3>1, <3>2
    <3>4. QED
      BY <2>3, <3>1, <3>3, WindowMoves
  <2> HIDE DEF y, last
  <2>6. ASSUME NEW d \in DaysOfWindow(y)
        PROVE  d \in DaysIn(MonthOf(t))
    <3>1. d \in RecordedDays /\ d \in FullDaysBefore(t)
      BY <2>1, <2>3 DEF MonthRecorded, RecordedDays
    <3>2. d \in Int /\ MonthStart(t) <= d
      BY <2>3, WindowSize
    <3>3. ~\E e \in RecordedDays : d < RollingWindowStart(e)
      BY <2>5, <3>2
    <3>4. d \in DaysIn(history)
      BY <2>1, <3>1, <3>3 DEF BaselineInv, OnlyOldDaysDropped
    <3>5. PICK i \in 1 .. Len(history) : d = history[i].day_start_timestamp
      BY <3>4 DEF DaysIn
    <3>6. QED
      BY <2>1, <2>2, <3>1, <3>5, MonthRead
  <2>7. /\ MonthOf(t) \in Seq(DailyEntries) /\ InOrder(MonthOf(t))
    BY <2>1, <2>2, MonthRead
  <2>8. /\ IsFiniteSet(DaysIn(MonthOf(t)))
        /\ Cardinality(DaysIn(MonthOf(t))) = Len(MonthOf(t))
    BY <2>7, OneEntryPerDay
  <2>9. Cardinality(DaysOfWindow(y)) = HistoryDays
    BY <2>3, WindowSize
  <2>10. DaysOfWindow(y) \in SUBSET DaysIn(MonthOf(t))
    BY <2>6
  <2>11. HistoryDays <= Len(MonthOf(t)) /\ Len(MonthOf(t)) \in Nat
    BY <2>7, <2>8, <2>9, <2>10, FS_Subset, LenProperties
  <2>12. Len(MonthOf(t)) >= HistoryDays
    BY <2>11, HistoryAssumption
  <2>13. QED
    BY <2>1, <2>2, <2>12, FullMonthAverage
<1>2. QED
  BY <1>1, BaselineInvariant, PTL
=============================================================================
