-------------------------- MODULE EmissionBaseline --------------------------
(***************************************************************************)
(* The historical baseline of a user: what the backend derives, at some      *)
(* later moment and by its own clock, from the rolling window the program    *)
(* keeps (deriveHistoricalDataFromUserProfile in                            *)
(* backend/src/modules/ingestion/footprint-orchestration.ts).               *)
(*                                                                         *)
(* One profile over a few days.  Footprints are verified at any time of any  *)
(* day; the seeder may overwrite the window.                                *)
(*   clock           the clock of the chain, in seconds                    *)
(*   history         UserProfile.emission_history, decoded                 *)
(*   lastVerifiedAt  UserProfile.last_verified_at                          *)
(*   daily           what was recorded on each day: the truth the window     *)
(*                   summarises                                            *)
(***************************************************************************)
EXTENDS EmissionHistory

CONSTANTS
  CentiKg,      \* grams in a hundredth of a kilogram, 10 in the program
  Emissions,    \* grams of a verified footprint
  SeedGrams,    \* --daily-emission-grams of the seeder
  Skews,        \* seconds the backend's clock is ahead of the chain's
  SeedSkews,    \* seconds the seeder's clock is ahead of the chain's
  MaxTime       \* bound on the clock

ASSUME BaselineAssumption ==
  /\ CentiKg \in Nat \ {0}
  /\ Emissions \subseteq U64 /\ SeedGrams \subseteq U64
  /\ Skews \subseteq Int
  \* the seeder runs beside its local validator
  /\ SeedSkews \subseteq Int /\ \A s \in SeedSkews : s <= SecondsPerDay
  /\ MaxTime \in Nat \ {0}

VARIABLES clock, history, lastVerifiedAt, daily

baselineVars == <<clock, history, lastVerifiedAt, daily>>

DayStarts == {DayBucketStart(t) : t \in 0 .. MaxTime}
NotRecorded == -1

-----------------------------------------------------------------------------
\* The backend's reading of the window

EntriesBetween(first, end) ==
  Subsequence(history,
              {i \in DOMAIN history :
                 history[i].day_start_timestamp \in first .. end - 1})

\* (grams / 1000 / 30).toFixed(2), in hundredths of a kilogram; ties round up.
MonthlyAverage(grams) ==
  LET divisor == CentiKg * HistoryDays
  IN  (2 * grams + divisor) \div (2 * divisor)

\* The sum of the first n values of a function
SumUpTo(n, grams) ==
  LET sum[i \in 0 .. n] == IF i = 0 THEN 0 ELSE sum[i - 1] + grams[i]
  IN  sum[n]

GramsIn(active) ==
  SumUpTo(Len(active), [i \in DOMAIN active |-> active[i].emission_grams])

\* Mutant: a window whose first day is old enough counts as complete.
AverageOfPartialMonth(start, active) ==
  IF \A i \in DOMAIN active : active[i].day_start_timestamp > start
  THEN 0
  ELSE MonthlyAverage(GramsIn(active))

\* The average of a window of entries that is complete from start on, else 0.
\* The first entry in time order is the one tested; the sum does not saturate.
AverageFrom(start, active) ==
  IF \/ Len(active) < HistoryDays
     \/ \A i \in DOMAIN active : active[i].day_start_timestamp > start
  THEN 0
  ELSE MonthlyAverage(GramsIn(active))

\* Mutant: the window is the one of the program, which ends with today.
DeriveFromProgramWindow(asOf) ==
  LET today == DayBucketStart(asOf)
      start == RollingWindowStart(asOf)
  IN  AverageFrom(start, EntriesBetween(start, today))

\* pastAverageMonthlyEmissions: the average of the HistoryDays days before the
\* day of asOf, or 0.
DeriveHistoricalData(asOf) ==
  LET today == DayBucketStart(asOf)
      start == today - HistoryDays * SecondsPerDay
  IN  AverageFrom(start, EntriesBetween(start, today))

\* The moments an ingestion may evaluate the baseline at: the backend's clock,
\* but never before the last verification.
AsOfTimes ==
  {IF clock + s < lastVerifiedAt THEN lastVerifiedAt ELSE clock + s :
     s \in {x \in Skews : clock + x >= 0}}

-----------------------------------------------------------------------------
Init ==
  /\ clock = 1
  /\ history = << >>
  /\ lastVerifiedAt = 0
  /\ daily = [d \in DayStarts |-> NotRecorded]

Tick ==
  /\ clock < MaxTime
  /\ clock' = clock + 1
  /\ UNCHANGED <<history, lastVerifiedAt, daily>>

\* The part of apply_verified_footprint that the baseline depends on.  Bound:
\* one footprint at each moment of the clock, so as many a day as it has, unless
\* a seed comes between.
ApplyVerifiedFootprint(grams) ==
  LET today == DayBucketStart(clock)
  IN
  /\ lastVerifiedAt # clock
  /\ history' = RecordDailyEmission(history, grams, clock)
  /\ lastVerifiedAt' = clock
  /\ daily' = [daily EXCEPT ![today] =
                 IF @ = NotRecorded THEN grams ELSE @ + grams]
  /\ UNCHANGED clock

\* --days
SeedDays == 1 .. HistoryDays

\* createDailyEmissionHistory: `days' entries, the last for the day before asOf.
SeededHistory(days, grams, asOf) ==
  LET first == DayBucketStart(asOf) - days * SecondsPerDay
  IN  [i \in 1 .. days |-> DailyEntry(first + (i - 1) * SecondsPerDay, grams)]

\* The seeder overwrites the window with days that end with its own yesterday;
\* the days before the first of the model are not in it.
SeedEmissionHistory(days, grams, skew) ==
  LET endTimestamp == clock + skew
      seeded       == SeededHistory(days, grams, endTimestamp)
  IN
  /\ DayBucketStart(endTimestamp) >= days * SecondsPerDay
  /\ ValidSeed(seeded, endTimestamp)
  /\ history' = seeded
  /\ lastVerifiedAt' = endTimestamp
  /\ daily' = [d \in DayStarts |->
       IF \E i \in 1 .. days : seeded[i].day_start_timestamp = d
       THEN grams ELSE NotRecorded]
  /\ UNCHANGED clock

Next ==
  \/ Tick
  \/ \E g \in Emissions : ApplyVerifiedFootprint(g)
  \/ \E n \in SeedDays, g \in SeedGrams, s \in SeedSkews :
       SeedEmissionHistory(n, g, s)

Spec == Init /\ [][Next]_baselineVars

-----------------------------------------------------------------------------
\* The days whose emissions make up the baseline at asOf.
FullDaysBefore(asOf) ==
  {DayBucketStart(asOf) - n * SecondsPerDay : n \in 1 .. HistoryDays}

MonthRecorded(asOf) ==
  \A d \in FullDaysBefore(asOf) : d \in DayStarts /\ daily[d] # NotRecorded

RecordedToday(asOf) ==
  /\ DayBucketStart(asOf) \in DayStarts
  /\ daily[DayBucketStart(asOf)] # NotRecorded

\* A day's total as far as a u64 holds it
DayTotal(d) == IF daily[d] > MaxU64 THEN MaxU64 ELSE daily[d]

\* What the baseline should be: from the recorded days, not from the window.
TrueAverage(asOf) ==
  LET start == DayBucketStart(asOf) - HistoryDays * SecondsPerDay
  IN  MonthlyAverage(
        SumUpTo(HistoryDays, [n \in 1 .. HistoryDays |->
                                DayTotal(start + (n - 1) * SecondsPerDay)]))

\* A baseline is never made from a partial month or from other days than the
\* ones before asOf: where the backend derives one, every day of the month was
\* recorded and the baseline is the average of those days.
BaselineIsAFullMonth ==
  \A t \in AsOfTimes :
    DeriveHistoricalData(t) # 0 =>
      MonthRecorded(t) /\ DeriveHistoricalData(t) = TrueAverage(t)

\* A user who recorded every day of the month gets the baseline, by whatever
\* clock, on a day without a footprint yet: the program has kept the days
\* the backend needs.
BaselineOnAFreshDay ==
  \A t \in AsOfTimes :
    MonthRecorded(t) /\ ~RecordedToday(t) =>
      DeriveHistoricalData(t) = TrueAverage(t)

\* "derives the multiplier from the previous 30 full days and excludes today"
\* (footprint-orchestration.test.ts:311), whether or not there is a footprint
\* today.
BaselineExcludesToday ==
  \A t \in AsOfTimes :
    MonthRecorded(t) => DeriveHistoricalData(t) = TrueAverage(t)
=============================================================================
