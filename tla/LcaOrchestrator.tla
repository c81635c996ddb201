--------------------------- MODULE LcaOrchestrator ---------------------------
(***************************************************************************)
(* The life-cycle assessment of a footprint: pure functions of a request     *)
(* and the historical baseline (backend/src/modules/lca/orchestrator.ts and  *)
(* types.ts).                                                              *)
(*                                                                         *)
(* Emissions are natural numbers of a unit that divides the hundredth of a   *)
(* kilogram results are rounded to; in the code they are floating-point       *)
(* numbers, whose errors are far below it but tell a total of zero from one   *)
(* that is not (Traces).  Units of activities and names of sources are left   *)
(* out: no result depends on them.                                         *)
(***************************************************************************)
EXTENDS Integers, Sequences, FiniteSets

CONSTANTS
  SpendCategories, ActivityCategories,
  SpendFactor,     \* emissions per unit of money, for each spend category
  ActivityFactor,  \* emissions per unit of an activity
  CentiKg          \* the unit of the results

ASSUME LcaAssumption ==
  /\ IsFiniteSet(SpendCategories)
  /\ ActivityCategories \subseteq SpendCategories
  /\ SpendFactor \in [SpendCategories -> Nat]
  /\ ActivityFactor \in [ActivityCategories -> Nat \ {0}]
  /\ CentiKg \in Nat \ {0}

Kg == 100 * CentiKg

\* A quotient to the nearest hundredth, ties up
RoundTo(dividend, divisor) ==
  LET unit == divisor * CentiKg
  IN  CentiKg * ((2 * dividend + unit) \div (2 * unit))

\* What rawLcaRequestSchema lets through; other requests make parse throw.
WellFormed(request) ==
  /\ \A i \in DOMAIN request.spendEntries :
       /\ request.spendEntries[i].category \in SpendCategories
       /\ request.spendEntries[i].amount >= 0
  /\ \A i \in DOMAIN request.activityEntries :
       /\ request.activityEntries[i].category \in ActivityCategories
       /\ request.activityEntries[i].value >= 0

DeriveDataSourceKind(request) ==
  IF request.activityEntries = << >> THEN "spend"
  ELSE IF request.spendEntries = << >> THEN "activity"
  ELSE "hybrid"

CategoriesOf(entries) == {entries[i].category : i \in DOMAIN entries}

\* The entries go on as they are; what is said of them is derived.
SourceSummary(request) ==
  [dataSourceKind |-> DeriveDataSourceKind(request),
   categories |-> CategoriesOf(request.spendEntries)
                    \cup CategoriesOf(request.activityEntries),
   overriddenCategories |-> CategoriesOf(request.activityEntries)]

-----------------------------------------------------------------------------
SpendEmission(s) == s.amount * SpendFactor[s.category]

CalculateActivityEmission(a) ==
  IF a.category = "Electricity" /\ a.isRenewable THEN 0
  ELSE a.value * ActivityFactor[a.category]

AddEstimate(acc, s) ==
  [acc EXCEPT !.spend[s.category] = @ + SpendEmission(s),
              !.total = @ + SpendEmission(s)]

NoEmissions ==
  [spend |-> [c \in SpendCategories |-> 0], total |-> 0, reduction |-> 0]

\* spendEmissionsByCategory and totalSpendBaseline, after n of the entries
SpendBaseline(spendData) ==
  LET after[n \in 0 .. Len(spendData)] ==
        IF n = 0 THEN NoEmissions ELSE AddEstimate(after[n - 1], spendData[n])
  IN  after[Len(spendData)]

\* Mutant: the estimate is replaced again by every further entry.
ReplaceAgain(acc, a) ==
  LET emission == CalculateActivityEmission(a)
      estimate == acc.spend[a.category]
  IN  [acc EXCEPT !.total = @ + emission - estimate,
                  !.reduction = IF estimate > emission
                                THEN @ + estimate - emission ELSE @]

\* Mutant: an entry counts beside the estimate of its category.
ReplaceNothing(acc, a) == [acc EXCEPT !.total = @ + CalculateActivityEmission(a)]

\* An activity takes the place of the estimate of its category, which is then
\* gone; OVERRIDDEN_SPEND_CATEGORIES_BY_ACTIVITY is the identity.
Replace(acc, a) ==
  LET emission == CalculateActivityEmission(a)
      estimate == acc.spend[a.category]
  IN  IF estimate > 0
      THEN [acc EXCEPT !.total = @ - estimate + emission,
                       !.reduction = IF estimate > emission
                                     THEN @ + estimate - emission ELSE @,
                       !.spend[a.category] = 0]
      ELSE [acc EXCEPT !.total = @ + emission]

\* reduction * calculateDynamicMultiplier(current, past), where the multiplier
\* 1 + (past - current) / past / 2 is at least 1/2; with a current of at least 0
\* it is never above 3/2.
FinalRewards(reduction, current, past) ==
  IF past = 0 THEN RoundTo(reduction, 1)
  ELSE LET half == IF 3 * past - current > past THEN 3 * past - current ELSE past
       IN  RoundTo(reduction * half, 2 * past)

\* The baseline, after n of the activities
WithActivities(baseline, activityData) ==
  LET after[n \in 0 .. Len(activityData)] ==
        IF n = 0 THEN baseline ELSE Replace(after[n - 1], activityData[n])
  IN  after[Len(activityData)]

\* The estimates of several categories, added up and taken off one by one, may
\* leave a trace above zero where they cancel out: (0.1 + 0.2) - 0.1 - 0.2 > 0.
Traces(request) ==
  LET estimate == SpendBaseline(request.spendEntries).spend
  IN  IF \E c, d \in SpendCategories : c # d /\ estimate[c] > 0 /\ estimate[d] > 0
      THEN BOOLEAN ELSE {FALSE}

\* A total of zero counts as a kilogram, unless a trace hides that it is zero.
CalculateFootprint(request, past, trace) ==
  LET sum     == WithActivities(SpendBaseline(request.spendEntries),
                                request.activityEntries)
      current == IF sum.total <= 0 /\ ~trace THEN Kg ELSE sum.total
  IN  [totalEmissions |-> RoundTo(current, 1),
       baseReduction  |-> RoundTo(sum.reduction, 1),
       finalRewards   |-> FinalRewards(sum.reduction, current, past)]

\* What ingestion makes of a request: normalizeInput, calculateFootprint and
\* buildCommitmentPayload
Score(request, past, trace) ==
  [footprint |-> CalculateFootprint(request, past, trace),
   source    |-> SourceSummary(request)]
=============================================================================
