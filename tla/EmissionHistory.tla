--------------------------- MODULE EmissionHistory ---------------------------
(***************************************************************************)
(* The rolling window of daily emissions in a user profile                  *)
(* (UserProfile.emission_history in state/mod.rs).                         *)
(*                                                                         *)
(* The account stores the window as bytes, 16 per day; the model keeps the  *)
(* decoded sequence of entries and treats a byte string of the wrong length *)
(* as a rejected argument.                                                 *)
(***************************************************************************)
EXTENDS RewardPolicy, Subsequences

CONSTANTS SecondsPerDay,     \* 86_400 in the program
          HistoryDays        \* DAILY_EMISSION_HISTORY_DAYS, 30 in the program

ASSUME HistoryAssumption ==
  /\ SecondsPerDay \in Nat \ {0}
  /\ HistoryDays \in Nat \ {0}

\* Timestamps are i64 in the program; the model does not bound them.
DailyEntries == [day_start_timestamp : Int, emission_grams : U64]

DailyEntry(day, grams) == [day_start_timestamp |-> day, emission_grams |-> grams]

\* div_euclid by a positive divisor rounds down, as \div does.
DayBucketStart(timestamp) == (timestamp \div SecondsPerDay) * SecondsPerDay

RollingWindowStart(asOf) ==
  DayBucketStart(asOf) - (HistoryDays - 1) * SecondsPerDay

\* Entries that are not older than the window; entries that lie in the future
\* of asOf are kept too.
ActiveEmissionHistory(history, asOf) ==
  Subsequence(history,
              {i \in DOMAIN history :
                 history[i].day_start_timestamp >= RollingWindowStart(asOf)})

\* Mutant: a second footprint of a day replaces the first.
RecordReplacesSameDay(history, grams, verifiedAt) ==
  LET day    == DayBucketStart(verifiedAt)
      active == ActiveEmissionHistory(history, verifiedAt)
      n      == Len(active)
  IN  IF n > 0 /\ active[n].day_start_timestamp = day
      THEN [active EXCEPT ![n].emission_grams = grams]
      ELSE Append(active, DailyEntry(day, grams))

\* Mutant: the oldest entries are not drained.
RecordWithoutDrain(history, grams, verifiedAt) ==
  LET day    == DayBucketStart(verifiedAt)
      active == ActiveEmissionHistory(history, verifiedAt)
      n      == Len(active)
  IN  IF n > 0 /\ active[n].day_start_timestamp = day
      THEN [active EXCEPT ![n].emission_grams = SatAdd(@, grams)]
      ELSE Append(active, DailyEntry(day, grams))

\* The window after a footprint verified at verifiedAt: the emissions join the
\* last entry if it is for that day, else they are a new last entry and the
\* oldest entries beyond HistoryDays go.
RecordDailyEmission(history, grams, verifiedAt) ==
  LET day    == DayBucketStart(verifiedAt)
      active == ActiveEmissionHistory(history, verifiedAt)
      n      == Len(active)
      pushed == Append(active, DailyEntry(day, grams))
  IN  IF n > 0 /\ active[n].day_start_timestamp = day
      THEN [active EXCEPT ![n].emission_grams = SatAdd(@, grams)]
      ELSE IF n + 1 > HistoryDays
      THEN SubSeq(pushed, n + 2 - HistoryDays, n + 1)
      ELSE pushed

\* What admin_seed_emission_history accepts.
ValidSeed(history, lastVerifiedAt) ==
  LET n == Len(history)
  IN  /\ n \in 1 .. HistoryDays
      /\ lastVerifiedAt > 0
      /\ \A i \in 1 .. n - 1 :
           history[i].day_start_timestamp < history[i + 1].day_start_timestamp
      /\ history[n].day_start_timestamp <= DayBucketStart(lastVerifiedAt)

\* Saturating sum of the grams of a sequence of entries.
GramsOf(history) ==
  LET sum[i \in 0 .. Len(history)] ==
        IF i = 0 THEN 0 ELSE SatAdd(sum[i - 1], history[i].emission_grams)
  IN  sum[Len(history)]

\* past_month_emissions_grams: the month's total, or NoMonth while the window
\* is not full.
NoMonth == -1

\* Mutant: a window whose first day is old enough counts as full.
PastMonthWithoutLength(history, asOf) ==
  LET active == ActiveEmissionHistory(history, asOf)
  IN  IF \/ Len(active) = 0
         \/ active[1].day_start_timestamp > RollingWindowStart(asOf)
      THEN NoMonth
      ELSE GramsOf(active)

PastMonthEmissionsGrams(history, asOf) ==
  LET active == ActiveEmissionHistory(history, asOf)
  IN  IF \/ Len(active) < HistoryDays
         \/ active[1].day_start_timestamp > RollingWindowStart(asOf)
      THEN NoMonth
      ELSE GramsOf(active)

=============================================================================
