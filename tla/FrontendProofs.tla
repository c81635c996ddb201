---------------------------- MODULE FrontendProofs ----------------------------
(***************************************************************************)
(* The score, the input workspace and the wallet flow.                       *)
(*                                                                         *)
(* For any request, what the loops of the calculation come to after n        *)
(* entries is a sum over categories (ScoredUpTo); so for any images, uploads, *)
(* reviews in flight and entries, a payload is scored as promised, in         *)
(* whatever order the entries are, and a second entry of a category does not  *)
(* pay, except where a total of zero had been scored as a kilogram.  The rows *)
(* of the payload are from their files because of what the inputs, the        *)
(* reviews and the rows hold of the uploads (WorkspaceInv).                   *)
(*                                                                         *)
(* For any number of tabs, aliases, submissions and failing calls: what the  *)
(* tabs announce is true of the chain, a confirmed claim or mint is          *)
(* recognised, and a tab forgets only by an answer that was overtaken.  The   *)
(* argument is that the account only moves one way (Later), and that          *)
(* everything a tab remembers of it was true once and stays so (TabFits,      *)
(* Knows).                                                                 *)
(***************************************************************************)
EXTENDS WalletFlow, InputWorkspace, EmissionHistoryProofs

-----------------------------------------------------------------------------
\* The score: what the loops over the entries of a request come to

SpendEntries == [category : SpendCategories, amount : Nat]
Activities == [category : ActivityCategories, value : Nat, isRenewable : BOOLEAN]

\* The entries of a category among the first n
EntriesOf(q, n, c) == {i \in 1 .. n : q[i].category = c}

\* What the first n spend entries come to: by category, and all
SpendEmissions(s) == [i \in 1 .. Len(s) |-> SpendEmission(s[i])]
SpendUpTo(s, n) ==
  [c \in SpendCategories |-> Total(EntriesOf(s, n, c), SpendEmissions(s))]
BaselineUpTo(s, n) ==
  [spend |-> SpendUpTo(s, n), total |-> Total(SpendCategories, SpendUpTo(s, n)),
   reduction |-> 0]

\* The first n activities, against the estimates est: the categories entered,
\* the estimates left, the emissions and the reduction by category, and the sums.
Entered(a, n) == {a[i].category : i \in 1 .. n}
LeftUpTo(est, a, n) ==
  [c \in SpendCategories |-> IF c \in Entered(a, n) THEN 0 ELSE est[c]]
ActivityEmissions(a) == [i \in 1 .. Len(a) |-> CalculateActivityEmission(a[i])]
MeasuredUpTo(a, n) ==
  [c \in ActivityCategories |-> Total(EntriesOf(a, n, c), ActivityEmissions(a))]
FirstOf(a, c) ==
  CHOOSE i \in DOMAIN a : /\ a[i].category = c
                          /\ \A j \in 1 .. i - 1 : a[j].category # c
Excess(e, m) == IF e > m THEN e - m ELSE 0
SavedUpTo(est, a, n) ==
  [c \in ActivityCategories |->
     IF c \in Entered(a, n)
     THEN Excess(est[c], CalculateActivityEmission(a[FirstOf(a, c)])) ELSE 0]
ScoredUpTo(est, a, n) ==
  [spend |-> LeftUpTo(est, a, n),
   total |-> Total(SpendCategories, LeftUpTo(est, a, n))
               + Total(ActivityCategories, MeasuredUpTo(a, n)),
   reduction |-> Total(ActivityCategories, SavedUpTo(est, a, n))]

LEMMA EntriesOfTyped ==
  ASSUME NEW q, NEW n \in Nat, NEW c
  PROVE  /\ IsFiniteSet(EntriesOf(q, n, c))
         /\ EntriesOf(q, n, c) \subseteq 1 .. n
<1>1. EntriesOf(q, n, c) \in SUBSET (1 .. n)
  BY DEF EntriesOf
<1>2. QED
  BY <1>1, FS_Interval, FS_Subset

\* One more entry
LEMMA EntriesOfStep ==
  ASSUME NEW q, NEW n \in Nat, n > 0, NEW c
  PROVE  /\ EntriesOf(q, 0, c) = {}
         /\ n \notin EntriesOf(q, n - 1, c)
         /\ EntriesOf(q, n, c) = IF q[n].category = c
                                 THEN EntriesOf(q, n - 1, c) \cup {n}
                                 ELSE EntriesOf(q, n - 1, c)
<1>1. /\ \A i \in 1 .. n : i = n \/ i \in 1 .. n - 1
      /\ \A i \in 1 .. n - 1 : i \in 1 .. n
      /\ n \in 1 .. n /\ n \notin 1 .. n - 1 /\ 1 .. 0 = {}
  OBVIOUS
<1>2. QED
  BY <1>1 DEF EntriesOf

LEMMA SpendTyped ==
  ASSUME NEW s \in Seq(SpendEntries)
  PROVE  /\ Len(s) \in Nat
         /\ \A i \in 1 .. Len(s) : /\ s[i] \in SpendEntries
                                   /\ s[i].category \in SpendCategories
                                   /\ SpendEmissions(s)[i] = SpendEmission(s[i])
                                   /\ SpendEmissions(s)[i] \in Nat
         /\ \A n \in 0 .. Len(s) : SpendUpTo(s, n) \in [SpendCategories -> Nat]
<1>1. Len(s) \in Nat /\ \A i \in 1 .. Len(s) : s[i] \in SpendEntries
  BY LenProperties, ElementOfSeq
<1>2. ASSUME NEW i \in 1 .. Len(s) PROVE SpendEmission(s[i]) \in Nat
  <2>1. s[i].amount \in Nat /\ SpendFactor[s[i].category] \in Nat
    BY <1>1, LcaAssumption DEF SpendEntries
  <2>2. \A k, m \in Nat : k * m \in Nat
    OBVIOUS
  <2>3. QED
    BY <2>1, <2>2 DEF SpendEmission
<1>3. \A i \in 1 .. Len(s) : /\ SpendEmissions(s)[i] = SpendEmission(s[i])
                             /\ SpendEmissions(s)[i] \in Nat
  BY <1>2 DEF SpendEmissions
<1>4. ASSUME NEW n \in 0 .. Len(s), NEW c \in SpendCategories
      PROVE  Total(EntriesOf(s, n, c), SpendEmissions(s)) \in Nat
  <2>1. n \in Nat /\ 1 .. n \subseteq 1 .. Len(s)
    BY <1>1
  <2>2. QED
    BY <1>3, <2>1, EntriesOfTyped, TotalType
<1>5. QED
  BY <1>1, <1>3, <1>4 DEF SpendUpTo, SpendEntries

Accs == [spend : [SpendCategories -> Int], total : Int, reduction : Int]

LEMMA AccsEqual ==
  ASSUME NEW p \in Accs, NEW r \in Accs, p.spend = r.spend, p.total = r.total,
         p.reduction = r.reduction
  PROVE  p = r
BY DEF Accs

\* What AddEstimate and Replace make of the three sums
LEMMA EstimateRecord ==
  ASSUME NEW acc \in Accs, NEW q, q.category \in SpendCategories,
         SpendEmission(q) \in Int
  PROVE  /\ AddEstimate(acc, q) \in Accs
         /\ AddEstimate(acc, q).spend[q.category]
              = acc.spend[q.category] + SpendEmission(q)
         /\ \A d \in SpendCategories \ {q.category} :
              AddEstimate(acc, q).spend[d] = acc.spend[d]
         /\ AddEstimate(acc, q).total = acc.total + SpendEmission(q)
         /\ AddEstimate(acc, q).reduction = acc.reduction
<1> DEFINE c == q.category
           e == SpendEmission(q)
           spend == [acc.spend EXCEPT ![c] = @ + e]
<1>1. /\ c \in SpendCategories /\ e \in Int
      /\ acc.spend \in [SpendCategories -> Int] /\ acc.total + e \in Int
  BY DEF Accs
<1>2. AddEstimate(acc, q) = [acc EXCEPT !.spend = spend, !.total = acc.total + e]
  BY DEF AddEstimate
<1> HIDE DEF c, e
<1>3. /\ spend \in [SpendCategories -> Int] /\ spend[c] = acc.spend[c] + e
      /\ \A d \in SpendCategories \ {c} : spend[d] = acc.spend[d]
  BY <1>1
<1> HIDE DEF spend
<1>4. /\ AddEstimate(acc, q) \in Accs
      /\ AddEstimate(acc, q).spend = spend
      /\ AddEstimate(acc, q).total = acc.total + e
      /\ AddEstimate(acc, q).reduction = acc.reduction
  BY <1>1, <1>2, <1>3 DEF Accs
<1>5. QED
  BY <1>3, <1>4 DEF c, e

LEMMA ReplaceRecord ==
  ASSUME NEW acc \in Accs, NEW q, q.category \in SpendCategories,
         CalculateActivityEmission(q) \in Nat, acc.spend[q.category] \in Nat
  PROVE  /\ Replace(acc, q) \in Accs
         /\ Replace(acc, q).spend[q.category] = 0
         /\ \A d \in SpendCategories \ {q.category} :
              Replace(acc, q).spend[d] = acc.spend[d]
         /\ Replace(acc, q).total
              = acc.total - acc.spend[q.category] + CalculateActivityEmission(q)
         /\ Replace(acc, q).reduction
              = acc.reduction
                  + Excess(acc.spend[q.category], CalculateActivityEmission(q))
<1> DEFINE c == q.category
           e == CalculateActivityEmission(q)
           total == acc.total - acc.spend[c] + e
           saved == acc.reduction + Excess(acc.spend[c], e)
           spend == [acc.spend EXCEPT ![c] = 0]
<1>1. CASE acc.spend[c] > 0
  <2>1. saved = IF acc.spend[c] > e THEN acc.reduction + acc.spend[c] - e
                ELSE acc.reduction
    BY DEF Excess, Accs
  <2>2. Replace(acc, q) = [acc EXCEPT !.total = total, !.reduction = saved,
                                      !.spend = spend]
    BY <1>1, <2>1 DEF Replace
  <2> HIDE DEF e
  <2>3. /\ spend \in [SpendCategories -> Int] /\ spend[c] = 0
        /\ \A d \in SpendCategories \ {c} : spend[d] = acc.spend[d]
        /\ total \in Int /\ saved \in Int
    BY <2>1 DEF Accs, e
  <2> HIDE DEF spend, total, saved
  <2>4. /\ Replace(acc, q) \in Accs /\ Replace(acc, q).spend = spend
        /\ Replace(acc, q).total = total /\ Replace(acc, q).reduction = saved
    BY <2>2, <2>3 DEF Accs
  <2>5. QED
    BY <2>3, <2>4 DEF total, saved, e
<1>2. CASE acc.spend[c] = 0
  <2>1. total = acc.total + e /\ saved = acc.reduction
    BY <1>2 DEF Excess, Accs
  <2>2. Replace(acc, q) = [acc EXCEPT !.total = acc.total + e]
    BY <1>2 DEF Replace
  <2> HIDE DEF total, saved
  <2>3. /\ Replace(acc, q) \in Accs /\ Replace(acc, q).spend = acc.spend
        /\ Replace(acc, q).total = total /\ Replace(acc, q).reduction = saved
    BY <2>1, <2>2 DEF Accs
  <2>4. QED
    BY <1>2, <2>3 DEF total, saved
<1>3. QED
  BY <1>1, <1>2

\* One more spend entry
LEMMA EstimateAdded ==
  ASSUME NEW s \in Seq(SpendEntries), NEW n \in 1 .. Len(s)
  PROVE  AddEstimate(BaselineUpTo(s, n - 1), s[n]) = BaselineUpTo(s, n)
<1> DEFINE cat == s[n].category
           amount == SpendEmission(s[n])
           before == SpendUpTo(s, n - 1)
           after  == SpendUpTo(s, n)
<1>1. /\ n \in Nat /\ n > 0 /\ n \in 0 .. Len(s) /\ n - 1 \in 0 .. Len(s)
      /\ n - 1 \in Nat /\ 1 .. n - 1 \subseteq 1 .. Len(s)
  BY SpendTyped
<1>2. /\ cat \in SpendCategories /\ amount \in Nat
      /\ SpendEmissions(s)[n] = amount
      /\ before \in [SpendCategories -> Nat]
      /\ after \in [SpendCategories -> Nat]
  BY <1>1, SpendTyped
<1>3. \A c \in SpendCategories \ {cat} : after[c] = before[c]
  BY <1>1, EntriesOfStep DEF SpendUpTo
<1>4. after[cat] = before[cat] + amount
  <2>1. /\ IsFiniteSet(EntriesOf(s, n - 1, cat))
        /\ n \notin EntriesOf(s, n - 1, cat)
        /\ EntriesOf(s, n, cat) = EntriesOf(s, n - 1, cat) \cup {n}
        /\ \A i \in EntriesOf(s, n - 1, cat) : SpendEmissions(s)[i] \in Nat
    BY <1>1, SpendTyped, EntriesOfTyped, EntriesOfStep
  <2>2. Total(EntriesOf(s, n - 1, cat) \cup {n}, SpendEmissions(s))
          = Total(EntriesOf(s, n - 1, cat), SpendEmissions(s)) + SpendEmissions(s)[n]
    <3> DEFINE old == EntriesOf(s, n - 1, cat)
               all == SpendEmissions(s)
    <3>1. /\ IsFiniteSet(old) /\ n \notin old /\ \A i \in old : all[i] \in Nat
          /\ all[n] \in Nat
      BY <1>2, <2>1
    <3> HIDE DEF old, all
    <3>2. Total(old \cup {n}, all) = Total(old, all) + all[n]
      BY <3>1, TotalWith
    <3>3. QED
      BY <3>2 DEF old, all
  <2>3. QED
    BY <1>2, <2>1, <2>2 DEF SpendUpTo
<1> HIDE DEF before, after, cat, amount
<1>5. Total(SpendCategories, before) \in Nat
  BY <1>2, LcaAssumption, TotalType
<1>6. Total(SpendCategories, after) = Total(SpendCategories, before) + amount
  <2>1. Total(SpendCategories, after)
          = Total(SpendCategories, before) - before[cat] + after[cat]
    BY <1>2, <1>3, LcaAssumption, TotalUpdate
  <2>2. before[cat] \in Nat
    BY <1>2
  <2>3. QED
    BY <1>2, <1>4, <1>5, <2>1, <2>2
<1> DEFINE old == BaselineUpTo(s, n - 1)
           new == BaselineUpTo(s, n)
<1>7. /\ old \in Accs /\ old.spend = before /\ old.reduction = 0
      /\ old.total = Total(SpendCategories, before)
      /\ new \in Accs /\ new.spend = after /\ new.reduction = 0
      /\ new.total = Total(SpendCategories, after)
  BY <1>2, <1>5, <1>6 DEF BaselineUpTo, before, after, Accs
<1>8. s[n].category = cat /\ SpendEmission(s[n]) = amount
  BY DEF cat, amount
<1> HIDE DEF old, new
<1> DEFINE r == AddEstimate(old, s[n])
<1>9. /\ r \in Accs /\ r.spend[cat] = old.spend[cat] + amount
      /\ \A d \in SpendCategories \ {cat} : r.spend[d] = old.spend[d]
      /\ r.total = old.total + amount /\ r.reduction = old.reduction
  <2>1. s[n].category \in SpendCategories /\ SpendEmission(s[n]) \in Int
    BY <1>2, <1>8
  <2>2. /\ r \in Accs
        /\ r.spend[s[n].category] = old.spend[s[n].category] + SpendEmission(s[n])
        /\ \A d \in SpendCategories \ {s[n].category} : r.spend[d] = old.spend[d]
        /\ r.total = old.total + SpendEmission(s[n])
        /\ r.reduction = old.reduction
    BY <1>7, <2>1, EstimateRecord
  <2> HIDE DEF r
  <2>3. QED
    BY <1>8, <2>2
<1> HIDE DEF r
<1>10. r.spend = new.spend
  <2>1. /\ r.spend \in [SpendCategories -> Int]
        /\ new.spend \in [SpendCategories -> Int]
    BY <1>7, <1>9 DEF Accs
  <2>2. \A d \in SpendCategories : r.spend[d] = new.spend[d]
    BY <1>3, <1>4, <1>7, <1>9
  <2>3. QED
    BY <2>1, <2>2
<1>11. r = new
  BY <1>6, <1>7, <1>9, <1>10, AccsEqual
<1>12. QED
  BY <1>11 DEF r, old, new

\* spendEmissionsByCategory and totalSpendBaseline are the sums by category and
\* of all of them.
LEMMA SpendBaselineIs ==
  ASSUME NEW s \in Seq(SpendEntries)
  PROVE  SpendBaseline(s) = BaselineUpTo(s, Len(s))
<1> DEFINE N == Len(s)
           Loop(f) == f = [n \in 0 .. N |-> IF n = 0 THEN NoEmissions
                                            ELSE AddEstimate(f[n - 1], s[n])]
           g == [n \in 0 .. N |-> BaselineUpTo(s, n)]
           after == CHOOSE f : Loop(f)
<1>1. N \in Nat
  BY SpendTyped
<1>2. BaselineUpTo(s, 0) = NoEmissions
  <2>1. SpendUpTo(s, 0) = [c \in SpendCategories |-> 0]
    <3>1. \A c : EntriesOf(s, 0, c) = {}
      BY EntriesOfStep
    <3>2. Total({}, SpendEmissions(s)) = 0
      BY TotalZero
    <3>3. QED
      BY <3>1, <3>2 DEF SpendUpTo
  <2>2. Total(SpendCategories, SpendUpTo(s, 0)) = 0
    BY <2>1, TotalZero
  <2>3. QED
    BY <2>1, <2>2 DEF BaselineUpTo, NoEmissions
<1>3. Loop(g)
  <2>1. ASSUME NEW n \in 0 .. N
        PROVE  g[n] = IF n = 0 THEN NoEmissions ELSE AddEstimate(g[n - 1], s[n])
    <3>1. CASE n = 0
      BY <1>1, <1>2, <3>1
    <3>2. CASE n # 0
      <4>1. n \in 1 .. N /\ n - 1 \in 0 .. N
        BY <1>1, <3>2
      <4>2. QED
        BY <3>2, <4>1, EstimateAdded
    <3>3. QED
      BY <3>1, <3>2
  <2>2. QED
    BY <2>1
<1>4. Loop(after)
  <2> HIDE DEF Loop
  <2>1. QED
    BY <1>3
<1> DEFINE same == {n \in 0 .. N : after[n] = g[n]}
<1>5. \A n \in 0 .. N : n \in same
  <2>1. 0 \in same
    <3>1. 0 \in 0 .. N
      BY <1>1
    <3>2. QED
      BY <1>3, <1>4, <3>1
  <2>2. ASSUME NEW n \in 1 .. N, n - 1 \in same
        PROVE  n \in same
    <3>1. n \in 0 .. N /\ n # 0
      BY <1>1
    <3>2. QED
      BY <1>3, <1>4, <2>2, <3>1
  <2> HIDE DEF same, N
  <2>3. QED
    BY <1>1, <2>1, <2>2, StepByStep
<1>6. SpendBaseline(s) = after[N]
  BY DEF SpendBaseline
<1> HIDE DEF after
<1>7. QED
  BY <1>1, <1>5, <1>6

LEMMA ActivityTyped ==
  ASSUME NEW a \in Seq(Activities)
  PROVE  /\ Len(a) \in Nat /\ DOMAIN a = 1 .. Len(a)
         /\ \A i \in 1 .. Len(a) :
              /\ a[i] \in Activities /\ a[i].category \in ActivityCategories
              /\ ActivityEmissions(a)[i] = CalculateActivityEmission(a[i])
              /\ CalculateActivityEmission(a[i]) \in Nat
         /\ \A n \in 0 .. Len(a) : MeasuredUpTo(a, n) \in [ActivityCategories -> Nat]
<1>1. /\ Len(a) \in Nat /\ DOMAIN a = 1 .. Len(a)
      /\ \A i \in 1 .. Len(a) : a[i] \in Activities
  BY LenProperties, ElementOfSeq
<1>2. ASSUME NEW i \in 1 .. Len(a) PROVE CalculateActivityEmission(a[i]) \in Nat
  <2>1. a[i].value \in Nat /\ ActivityFactor[a[i].category] \in Nat
    BY <1>1, LcaAssumption DEF Activities
  <2>2. \A k, m \in Nat : k * m \in Nat
    OBVIOUS
  <2>3. a[i].value * ActivityFactor[a[i].category] \in Nat
    BY <2>1, <2>2
  <2>4. QED
    BY <2>3 DEF CalculateActivityEmission
<1>3. \A i \in 1 .. Len(a) :
        /\ ActivityEmissions(a)[i] = CalculateActivityEmission(a[i])
        /\ ActivityEmissions(a)[i] \in Nat
  BY <1>2 DEF ActivityEmissions
<1>4. ASSUME NEW n \in 0 .. Len(a), NEW c \in ActivityCategories
      PROVE  Total(EntriesOf(a, n, c), ActivityEmissions(a)) \in Nat
  <2>1. n \in Nat /\ 1 .. n \subseteq 1 .. Len(a)
    BY <1>1
  <2>2. QED
    BY <1>3, <2>1, EntriesOfTyped, TotalType
<1>5. \A n \in 0 .. Len(a) : MeasuredUpTo(a, n) \in [ActivityCategories -> Nat]
  BY <1>4 DEF MeasuredUpTo
<1>6. QED
  BY <1>1, <1>2, <1>3, <1>5 DEF Activities

LEMMA EnteredStep ==
  ASSUME NEW a, NEW n \in Nat, n > 0
  PROVE  /\ Entered(a, 0) = {}
         /\ Entered(a, n) = Entered(a, n - 1) \cup {a[n].category}
<1>1. 1 .. 0 = {} /\ 1 .. n = (1 .. n - 1) \cup {n}
  OBVIOUS
<1>2. QED
  BY <1>1 DEF Entered

\* What is entered for the first time is the first of its category.
LEMMA FirstEntered ==
  ASSUME NEW a \in Seq(Activities), NEW n \in 1 .. Len(a),
         a[n].category \notin Entered(a, n - 1)
  PROVE  FirstOf(a, a[n].category) = n
<1> DEFINE c == a[n].category
           IsFirst(i) == a[i].category = c /\ \A j \in 1 .. i - 1 : a[j].category # c
<1>1. DOMAIN a = 1 .. Len(a) /\ Len(a) \in Nat
  BY ActivityTyped
<1>2. IsFirst(n) /\ n \in DOMAIN a
  BY <1>1 DEF Entered
<1>3. ASSUME NEW i \in DOMAIN a, IsFirst(i) PROVE i = n
  <2>1. i \in 1 .. Len(a)
    BY <1>1
  <2>2. CASE i < n
    <3>1. i \in 1 .. n - 1
      BY <2>1, <2>2
    <3>2. QED
      BY <1>2, <1>3, <3>1
  <2>3. CASE n < i
    <3>1. n \in 1 .. i - 1
      BY <2>1, <2>3
    <3>2. QED
      BY <1>3, <3>1
  <2>4. QED
    BY <2>1, <2>2, <2>3
<1> HIDE DEF IsFirst
<1>4. (CHOOSE i \in DOMAIN a : IsFirst(i)) = n
  BY <1>2, <1>3
<1>5. QED
  BY <1>4 DEF FirstOf, IsFirst

\* The first entry of a category that was entered
LEMMA FirstTyped ==
  ASSUME NEW a \in Seq(Activities), NEW m \in 0 .. Len(a), NEW c \in Entered(a, m)
  PROVE  /\ FirstOf(a, c) \in 1 .. Len(a)
         /\ a[FirstOf(a, c)].category = c
<1> DEFINE T == {i \in 1 .. m : a[i].category = c}
<1>1. Len(a) \in Nat /\ DOMAIN a = 1 .. Len(a) /\ T \subseteq Nat /\ T # {}
  <2>1. Len(a) \in Nat /\ DOMAIN a = 1 .. Len(a) /\ T \subseteq Nat
    BY ActivityTyped
  <2>2. PICK i \in 1 .. m : a[i].category = c
    BY DEF Entered
  <2>3. i \in T
    BY <2>2
  <2>4. QED
    BY <2>1, <2>3
<1>2. PICK k \in T : \A i \in T : k <= i
  <2> HIDE DEF T
  <2>1. QED
    BY <1>1, LeastNumber
<1>3. k \in DOMAIN a /\ a[k].category = c
  BY <1>1, <1>2
<1>4. \A j \in 1 .. k - 1 : j \in 1 .. m /\ ~ (k <= j)
  BY <1>1, <1>2
<1>5. \A j \in 1 .. k - 1 : a[j].category # c
  BY <1>2, <1>4
<1>6. FirstOf(a, c) \in DOMAIN a /\ a[FirstOf(a, c)].category = c
  BY <1>3, <1>5 DEF FirstOf
<1>7. QED
  BY <1>1, <1>6

LEMMA SavedTyped ==
  ASSUME NEW est \in [SpendCategories -> Nat], NEW a \in Seq(Activities),
         NEW n \in 0 .. Len(a)
  PROVE  SavedUpTo(est, a, n) \in [ActivityCategories -> Nat]
<1>1. ASSUME NEW c \in ActivityCategories, c \in Entered(a, n)
      PROVE  Excess(est[c], CalculateActivityEmission(a[FirstOf(a, c)])) \in Nat
  <2>1. FirstOf(a, c) \in 1 .. Len(a)
    BY <1>1, FirstTyped
  <2>2. CalculateActivityEmission(a[FirstOf(a, c)]) \in Nat /\ est[c] \in Nat
    BY <2>1, ActivityTyped, LcaAssumption
  <2>3. QED
    BY <2>2 DEF Excess
<1>2. QED
  BY <1>1 DEF SavedUpTo

\* One more activity
LEMMA ActivityScored ==
  ASSUME NEW est \in [SpendCategories -> Nat], NEW a \in Seq(Activities),
         NEW n \in 1 .. Len(a)
  PROVE  /\ ScoredUpTo(est, a, n - 1) \in Accs /\ ScoredUpTo(est, a, n) \in Accs
         /\ Replace(ScoredUpTo(est, a, n - 1), a[n]) = ScoredUpTo(est, a, n)
<1> DEFINE cat == a[n].category
           amount == CalculateActivityEmission(a[n])
           left == LeftUpTo(est, a, n - 1)      left2 == LeftUpTo(est, a, n)
           meas == MeasuredUpTo(a, n - 1)       meas2 == MeasuredUpTo(a, n)
           saved == SavedUpTo(est, a, n - 1)    saved2 == SavedUpTo(est, a, n)
<1>1. /\ n \in Nat /\ n > 0 /\ n \in 0 .. Len(a) /\ n - 1 \in 0 .. Len(a)
      /\ n - 1 \in Nat /\ 1 .. n - 1 \subseteq 1 .. Len(a)
  BY ActivityTyped
<1>2. /\ cat \in ActivityCategories /\ cat \in SpendCategories /\ amount \in Nat
      /\ ActivityEmissions(a)[n] = amount
      /\ meas \in [ActivityCategories -> Nat]
      /\ meas2 \in [ActivityCategories -> Nat]
  BY <1>1, ActivityTyped, LcaAssumption
<1>3. Entered(a, n) = Entered(a, n - 1) \cup {cat}
  BY <1>1, EnteredStep
<1>4. /\ left \in [SpendCategories -> Nat] /\ left2 \in [SpendCategories -> Nat]
      /\ \A c \in SpendCategories \ {cat} : left2[c] = left[c]
      /\ left2[cat] = 0
      /\ left[cat] = IF cat \in Entered(a, n - 1) THEN 0 ELSE est[cat]
  BY <1>2, <1>3 DEF LeftUpTo
<1>5. /\ \A c \in ActivityCategories \ {cat} : meas2[c] = meas[c]
      /\ meas2[cat] = meas[cat] + amount
  <2>1. \A c \in ActivityCategories \ {cat} : meas2[c] = meas[c]
    BY <1>1, EntriesOfStep DEF MeasuredUpTo
  <2>2. /\ n \notin EntriesOf(a, n - 1, cat)
        /\ EntriesOf(a, n, cat) = EntriesOf(a, n - 1, cat) \cup {n}
    BY <1>1, EntriesOfStep
  <2> DEFINE old == EntriesOf(a, n - 1, cat)
             all == ActivityEmissions(a)
  <2>3. /\ IsFiniteSet(old) /\ n \notin old /\ \A i \in old : all[i] \in Nat
        /\ all[n] \in Nat
    BY <1>1, <1>2, <2>2, ActivityTyped, EntriesOfTyped
  <2> HIDE DEF old, all
  <2>4. Total(old \cup {n}, all) = Total(old, all) + all[n]
    BY <2>3, TotalWith
  <2>5. QED
    BY <1>2, <2>1, <2>2, <2>4 DEF old, all, MeasuredUpTo
<1>6. /\ saved \in [ActivityCategories -> Nat]
      /\ saved2 \in [ActivityCategories -> Nat]
  BY <1>1, SavedTyped
<1>7. /\ saved \in [ActivityCategories -> Nat] /\ saved2 \in [ActivityCategories -> Nat]
      /\ \A c \in ActivityCategories \ {cat} : saved2[c] = saved[c]
  BY <1>1, <1>3, <1>6 DEF SavedUpTo
<1>8. Excess(left[cat], amount) = saved2[cat] - saved[cat]
  <2>1. CASE cat \in Entered(a, n - 1)
    <3>1. saved2[cat] = saved[cat]
      BY <1>2, <1>3, <2>1 DEF SavedUpTo
    <3>2. Excess(left[cat], amount) = 0
      BY <1>2, <1>4, <2>1 DEF Excess
    <3>3. QED
      BY <1>2, <1>7, <3>1, <3>2
  <2>2. CASE cat \notin Entered(a, n - 1)
    <3>1. FirstOf(a, cat) = n
      BY <2>2, FirstEntered
    <3>2. saved2[cat] = Excess(est[cat], amount) /\ saved[cat] = 0
      BY <1>2, <1>3, <2>2, <3>1 DEF SavedUpTo
    <3>3. left[cat] = est[cat] /\ saved2[cat] \in Nat
      BY <1>2, <1>4, <1>7, <2>2
    <3>4. QED
      BY <3>2, <3>3
  <2>3. QED
    BY <2>1, <2>2
<1> HIDE DEF left, left2, meas, meas2, saved, saved2, cat, amount
<1>9. IsFiniteSet(SpendCategories) /\ IsFiniteSet(ActivityCategories)
  BY LcaAssumption, FS_Subset
<1>10. /\ Total(SpendCategories, left) \in Nat
       /\ Total(SpendCategories, left2) \in Nat
       /\ Total(ActivityCategories, meas) \in Nat
       /\ Total(ActivityCategories, meas2) \in Nat
       /\ Total(ActivityCategories, saved) \in Nat
       /\ Total(ActivityCategories, saved2) \in Nat
  BY <1>2, <1>4, <1>7, <1>9, TotalType
<1>11. Total(SpendCategories, left2)
         = Total(SpendCategories, left) - left[cat] + left2[cat]
  <2>1. /\ left \in [SpendCategories -> Nat] /\ left2 \in [SpendCategories -> Nat]
        /\ cat \in SpendCategories /\ IsFiniteSet(SpendCategories)
        /\ \A c \in SpendCategories : c = cat \/ left2[c] = left[c]
    BY <1>2, <1>4, <1>9
  <2>2. PICK S, f, g, y : S = SpendCategories /\ f = left /\ g = left2 /\ y = cat
    OBVIOUS
  <2>3. Total(S, g) = Total(S, f) - f[y] + g[y]
    <3>1. /\ f \in [S -> Nat] /\ g \in [S -> Nat] /\ y \in S /\ IsFiniteSet(S)
          /\ \A c \in S : c = y \/ g[c] = f[c]
      BY <2>1, <2>2
    <3>2. QED
      BY <3>1, TotalChange
  <2>4. QED
    BY <2>2, <2>3
<1>12. Total(ActivityCategories, meas2)
         = Total(ActivityCategories, meas) - meas[cat] + meas2[cat]
  <2>1. /\ meas \in [ActivityCategories -> Nat] /\ meas2 \in [ActivityCategories -> Nat]
        /\ cat \in ActivityCategories /\ IsFiniteSet(ActivityCategories)
        /\ \A c \in ActivityCategories : c = cat \/ meas2[c] = meas[c]
    BY <1>2, <1>5, <1>9
  <2>2. PICK S, f, g, y : S = ActivityCategories /\ f = meas /\ g = meas2 /\ y = cat
    OBVIOUS
  <2>3. Total(S, g) = Total(S, f) - f[y] + g[y]
    <3>1. /\ f \in [S -> Nat] /\ g \in [S -> Nat] /\ y \in S /\ IsFiniteSet(S)
          /\ \A c \in S : c = y \/ g[c] = f[c]
      BY <2>1, <2>2
    <3>2. QED
      BY <3>1, TotalChange
  <2>4. QED
    BY <2>2, <2>3
<1>13. Total(ActivityCategories, saved2)
         = Total(ActivityCategories, saved) - saved[cat] + saved2[cat]
  <2>1. /\ saved \in [ActivityCategories -> Nat] /\ saved2 \in [ActivityCategories -> Nat]
        /\ cat \in ActivityCategories /\ IsFiniteSet(ActivityCategories)
        /\ \A c \in ActivityCategories : c = cat \/ saved2[c] = saved[c]
    BY <1>2, <1>7, <1>9
  <2>2. PICK S, f, g, y : S = ActivityCategories /\ f = saved /\ g = saved2 /\ y = cat
    OBVIOUS
  <2>3. Total(S, g) = Total(S, f) - f[y] + g[y]
    <3>1. /\ f \in [S -> Nat] /\ g \in [S -> Nat] /\ y \in S /\ IsFiniteSet(S)
          /\ \A c \in S : c = y \/ g[c] = f[c]
      BY <2>1, <2>2
    <3>2. QED
      BY <3>1, TotalChange
  <2>4. QED
    BY <2>2, <2>3
<1> DEFINE old == ScoredUpTo(est, a, n - 1)
           new == ScoredUpTo(est, a, n)
<1>14. /\ old \in Accs /\ old.spend = left
       /\ old.total = Total(SpendCategories, left) + Total(ActivityCategories, meas)
       /\ old.reduction = Total(ActivityCategories, saved)
       /\ new \in Accs /\ new.spend = left2
       /\ new.total = Total(SpendCategories, left2) + Total(ActivityCategories, meas2)
       /\ new.reduction = Total(ActivityCategories, saved2)
  <2> DEFINE sum == Total(SpendCategories, left) + Total(ActivityCategories, meas)
             sum2 == Total(SpendCategories, left2) + Total(ActivityCategories, meas2)
  <2>1. /\ old = [spend |-> left, total |-> sum,
                  reduction |-> Total(ActivityCategories, saved)]
        /\ new = [spend |-> left2, total |-> sum2,
                  reduction |-> Total(ActivityCategories, saved2)]
    BY DEF ScoredUpTo, left, left2, meas, meas2, saved, saved2
  <2>2. /\ sum \in Int /\ sum2 \in Int
        /\ Total(ActivityCategories, saved) \in Int
        /\ Total(ActivityCategories, saved2) \in Int
        /\ left \in [SpendCategories -> Int] /\ left2 \in [SpendCategories -> Int]
    BY <1>4, <1>10
  <2> HIDE DEF old, new, sum, sum2
  <2>3. old \in Accs /\ new \in Accs
    BY <2>1, <2>2 DEF Accs
  <2>4. QED
    BY <2>1, <2>3 DEF sum, sum2
<1>15. a[n].category = cat /\ CalculateActivityEmission(a[n]) = amount
  BY DEF cat, amount
<1> HIDE DEF old, new
<1> DEFINE r == Replace(old, a[n])
<1>16. old.spend[cat] \in Nat
  BY <1>2, <1>4, <1>14
<1>17. /\ r \in Accs /\ r.spend[cat] = 0
       /\ \A d \in SpendCategories \ {cat} : r.spend[d] = old.spend[d]
       /\ r.total = old.total - old.spend[cat] + amount
       /\ r.reduction = old.reduction + Excess(old.spend[cat], amount)
  <2>1. /\ a[n].category \in SpendCategories /\ old.spend[a[n].category] \in Nat
        /\ CalculateActivityEmission(a[n]) \in Nat
    BY <1>2, <1>15, <1>16
  <2>2. /\ r \in Accs /\ r.spend[a[n].category] = 0
        /\ \A d \in SpendCategories \ {a[n].category} : r.spend[d] = old.spend[d]
        /\ r.total = old.total - old.spend[a[n].category]
                        + CalculateActivityEmission(a[n])
        /\ r.reduction = old.reduction + Excess(old.spend[a[n].category],
                                               CalculateActivityEmission(a[n]))
    BY <1>14, <2>1, ReplaceRecord
  <2> HIDE DEF r
  <2>3. QED
    BY <1>15, <2>2
<1> HIDE DEF r
<1>18. r.spend = new.spend
  <2>1. /\ r.spend \in [SpendCategories -> Int]
        /\ new.spend \in [SpendCategories -> Int]
    BY <1>14, <1>17 DEF Accs
  <2>2. \A d \in SpendCategories : r.spend[d] = new.spend[d]
    BY <1>4, <1>14, <1>17
  <2>3. QED
    BY <2>1, <2>2
<1>19. r.total = new.total
  <2>1. left[cat] \in Nat /\ meas[cat] \in Nat
    BY <1>2, <1>4
  <2>2. Total(SpendCategories, left2) = Total(SpendCategories, left) - left[cat]
    BY <1>4, <1>10, <1>11, <2>1
  <2>3. Total(ActivityCategories, meas2) = Total(ActivityCategories, meas) + amount
    BY <1>2, <1>5, <1>10, <1>12, <2>1
  <2>4. r.total = Total(SpendCategories, left) + Total(ActivityCategories, meas)
                    - left[cat] + amount
    <3>1. old.spend[cat] = left[cat]
      BY <1>14
    <3>2. QED
      BY <1>2, <1>10, <1>14, <1>17, <2>1, <3>1
  <2>5. new.total = Total(SpendCategories, left2) + Total(ActivityCategories, meas2)
    BY <1>14
  <2>6. PICK x, y, z, w : /\ x = Total(SpendCategories, left) /\ z = left[cat]
                         /\ y = Total(ActivityCategories, meas) /\ w = amount
    OBVIOUS
  <2>7. /\ x \in Int /\ y \in Int /\ z \in Int /\ w \in Int
        /\ r.total = x + y - z + w /\ new.total = (x - z) + (y + w)
    BY <1>2, <1>10, <2>1, <2>2, <2>3, <2>4, <2>5, <2>6
  <2>8. QED
    BY <2>7
<1>20. r.reduction = new.reduction
  <2>1. saved[cat] \in Nat /\ saved2[cat] \in Nat
    BY <1>2, <1>7
  <2>2. old.spend[cat] = left[cat]
    BY <1>14
  <2>3. QED
    BY <1>8, <1>10, <1>13, <1>14, <1>17, <2>1, <2>2
<1>21. r = new
  BY <1>14, <1>17, <1>18, <1>19, <1>20, AccsEqual
<1>22. QED
  BY <1>14, <1>21 DEF r, old, new

\* The sums before the activities
BaselineOf(est) ==
  [spend |-> est, total |-> Total(SpendCategories, est), reduction |-> 0]

LEMMA NothingEntered ==
  ASSUME NEW est \in [SpendCategories -> Nat], NEW a
  PROVE  ScoredUpTo(est, a, 0) = BaselineOf(est)
<1>1. Entered(a, 0) = {} /\ \A c : EntriesOf(a, 0, c) = {}
  <2>1. 1 .. 0 = {}
    OBVIOUS
  <2>2. QED
    BY <2>1 DEF Entered, EntriesOf
<1>2. LeftUpTo(est, a, 0) = est
  BY <1>1 DEF LeftUpTo
<1>3. /\ MeasuredUpTo(a, 0) = [c \in ActivityCategories |-> 0]
      /\ SavedUpTo(est, a, 0) = [c \in ActivityCategories |-> 0]
  <2>1. Total({}, ActivityEmissions(a)) = 0
    BY TotalZero
  <2>2. QED
    BY <1>1, <2>1 DEF MeasuredUpTo, SavedUpTo
<1>4. /\ Total(ActivityCategories, MeasuredUpTo(a, 0)) = 0
      /\ Total(ActivityCategories, SavedUpTo(est, a, 0)) = 0
  BY <1>3, TotalZero
<1>5. Total(SpendCategories, est) \in Nat
  BY LcaAssumption, TotalType
<1>6. QED
  BY <1>2, <1>4, <1>5 DEF ScoredUpTo, BaselineOf

\* The loop over the activities, and what it comes to after each of them
LEMMA ActivityLoop ==
  ASSUME NEW est \in [SpendCategories -> Nat], NEW a \in Seq(Activities)
  PROVE  \E after :
           /\ after[0] = BaselineOf(est)
           /\ \A n \in 1 .. Len(a) : after[n] = Replace(after[n - 1], a[n])
           /\ \A n \in 0 .. Len(a) : after[n] = ScoredUpTo(est, a, n)
           /\ WithActivities(BaselineOf(est), a) = after[Len(a)]
<1> DEFINE N == Len(a)
           base == BaselineOf(est)
           Loop(h) == h = [n \in 0 .. N |-> IF n = 0 THEN base
                                            ELSE Replace(h[n - 1], a[n])]
           g == [n \in 0 .. N |-> ScoredUpTo(est, a, n)]
<1>1. N \in Nat /\ g[0] = base
  BY ActivityTyped, NothingEntered
<1> HIDE DEF base
<1>2. \A n \in 1 .. N : n - 1 \in 0 .. N /\ n \in 0 .. N /\ n # 0
  BY <1>1
<1>3. Loop(g)
  <2>1. ASSUME NEW n \in 0 .. N
        PROVE  g[n] = IF n = 0 THEN base ELSE Replace(g[n - 1], a[n])
    <3>1. CASE n = 0
      BY <1>1, <3>1
    <3>2. CASE n # 0
      <4>1. n \in 1 .. N /\ n - 1 \in 0 .. N
        BY <1>1, <3>2
      <4>2. QED
        BY <3>2, <4>1, ActivityScored
    <3>3. QED
      BY <3>1, <3>2
  <2>2. QED
    BY <2>1
<1>4. PICK f : Loop(f) /\ WithActivities(base, a) = f[N]
  <2> DEFINE loop == CHOOSE h : Loop(h)
  <2>1. WithActivities(base, a) = loop[N]
    BY DEF WithActivities
  <2>2. Loop(loop)
    <3> HIDE DEF Loop
    <3>1. QED
      BY <1>3
  <2> HIDE DEF loop, Loop
  <2>3. QED
    BY <2>1, <2>2
<1>5. /\ f[0] = base
      /\ \A n \in 1 .. N : f[n] = Replace(f[n - 1], a[n])
      /\ \A n \in 1 .. N : g[n] = Replace(g[n - 1], a[n])
  <2>1. 0 \in 0 .. N
    BY <1>1
  <2>2. QED
    BY <1>2, <1>3, <1>4, <2>1
<1> DEFINE same == {n \in 0 .. N : f[n] = g[n]}
<1>6. \A n \in 0 .. N : n \in same
  <2>1. 0 \in same
    BY <1>1, <1>5
  <2>2. ASSUME NEW n \in 1 .. N, n - 1 \in same PROVE n \in same
    BY <1>2, <1>5, <2>2
  <2>3. N \in Nat
    BY <1>1
  <2> HIDE DEF same, N
  <2>4. QED
    BY <2>1, <2>2, <2>3, StepByStep
<1>7. QED
  BY <1>4, <1>5, <1>6 DEF base

LEMMA WithActivitiesIs ==
  ASSUME NEW est \in [SpendCategories -> Nat], NEW a \in Seq(Activities)
  PROVE  /\ WithActivities(BaselineOf(est), a) = ScoredUpTo(est, a, Len(a))
         /\ ScoredUpTo(est, a, Len(a)) \in Accs
<1>1. WithActivities(BaselineOf(est), a) = ScoredUpTo(est, a, Len(a))
  <2>1. Len(a) \in 0 .. Len(a)
    BY ActivityTyped
  <2>2. QED
    BY <2>1, ActivityLoop
<1>2. CASE Len(a) = 0
  <2>1. ScoredUpTo(est, a, Len(a)) = BaselineOf(est)
    BY <1>2, NothingEntered
  <2>2. Total(SpendCategories, est) \in Nat
    BY LcaAssumption, TotalType
  <2>3. QED
    BY <1>1, <2>1, <2>2 DEF BaselineOf, Accs
<1>3. CASE Len(a) # 0
  <2>1. Len(a) \in 1 .. Len(a)
    BY <1>3, ActivityTyped
  <2>2. QED
    BY <1>1, <2>1, ActivityScored
<1>4. QED
  BY <1>2, <1>3

\* One more activity is one more step of the loop.
LEMMA WithOneMore ==
  ASSUME NEW est \in [SpendCategories -> Nat], NEW a \in Seq(Activities),
         NEW q \in Activities
  PROVE  WithActivities(BaselineOf(est), Append(a, q))
           = Replace(WithActivities(BaselineOf(est), a), q)
<1> DEFINE base == BaselineOf(est)
           b == Append(a, q)
           N == Len(a)
<1>1. /\ N \in Nat /\ b \in Seq(Activities) /\ Len(b) = N + 1
      /\ \A n \in 1 .. N : b[n] = a[n]
      /\ b[N + 1] = q
  BY AppendProperties, ActivityTyped
<1> HIDE DEF b, base
<1>2. PICK f : /\ f[0] = base
               /\ \A n \in 1 .. N : f[n] = Replace(f[n - 1], a[n])
               /\ WithActivities(base, a) = f[N]
  BY ActivityLoop DEF base
<1>3. PICK g : /\ g[0] = base
               /\ \A n \in 1 .. Len(b) : g[n] = Replace(g[n - 1], b[n])
               /\ WithActivities(base, b) = g[Len(b)]
  BY <1>1, ActivityLoop DEF base
<1>4. /\ \A n \in 1 .. N : n \in 1 .. Len(b)
      /\ N + 1 \in 1 .. Len(b) /\ (N + 1) - 1 = N /\ N \in 0 .. N
  BY <1>1
<1> DEFINE same == {n \in 0 .. N : f[n] = g[n]}
<1>5. \A n \in 0 .. N : n \in same
  <2>1. 0 \in same
    BY <1>1, <1>2, <1>3
  <2>2. ASSUME NEW n \in 1 .. N, n - 1 \in same PROVE n \in same
    <3>1. n \in 0 .. N
      BY <1>1
    <3>2. QED
      BY <1>1, <1>2, <1>3, <1>4, <2>2, <3>1
  <2>3. N \in Nat
    BY <1>1
  <2> HIDE DEF same, N
  <2>4. QED
    BY <2>1, <2>2, <2>3, StepByStep
<1>6. g[N + 1] = Replace(g[N], q)
  BY <1>1, <1>3, <1>4
<1>7. QED
  BY <1>1, <1>2, <1>3, <1>4, <1>5, <1>6 DEF base, b

\* The sums the score of a request is made from
ScoredSums(s, a) == ScoredUpTo(SpendUpTo(s, Len(s)), a, Len(a))

LEMMA FootprintIs ==
  ASSUME NEW r, NEW past, NEW trace, r.spendEntries \in Seq(SpendEntries),
         r.activityEntries \in Seq(Activities)
  PROVE  LET sum == ScoredSums(r.spendEntries, r.activityEntries)
             current == IF sum.total <= 0 /\ ~trace THEN Kg ELSE sum.total
         IN  CalculateFootprint(r, past, trace)
               = [totalEmissions |-> RoundTo(current, 1),
                  baseReduction  |-> RoundTo(sum.reduction, 1),
                  finalRewards   |-> FinalRewards(sum.reduction, current, past)]
<1> DEFINE s == r.spendEntries
           a == r.activityEntries
           est == SpendUpTo(s, Len(s))
<1>1. est \in [SpendCategories -> Nat]
  <2>1. Len(s) \in 0 .. Len(s)
    BY SpendTyped
  <2>2. QED
    BY <2>1, SpendTyped
<1>2. SpendBaseline(s) = BaselineOf(est)
  BY SpendBaselineIs DEF BaselineUpTo, BaselineOf
<1>3. WithActivities(SpendBaseline(s), a) = ScoredSums(s, a)
  <2> HIDE DEF est, s, a
  <2>1. a \in Seq(Activities)
    BY DEF a
  <2>2. WithActivities(BaselineOf(est), a) = ScoredUpTo(est, a, Len(a))
    BY <1>1, <2>1, WithActivitiesIs
  <2>3. QED
    BY <1>2, <2>2 DEF ScoredSums, est
<1>4. QED
  BY <1>3 DEF CalculateFootprint

-----------------------------------------------------------------------------
\* Rounding and rewards

LEMMA TimesMonotone ==
  ASSUME NEW x \in Int, NEW y \in Int, x <= y, NEW z \in Nat
  PROVE  z * x \in Int /\ z * y \in Int /\ z * x <= z * y
<1>1. y - x \in Nat
  OBVIOUS
<1>2. \A k, m \in Nat : k * m \in Nat
  OBVIOUS
<1>3. z * (y - x) \in Nat
  BY <1>1, <1>2
<1>4. z * (y - x) = z * y - z * x /\ z * x \in Int /\ z * y \in Int
  OBVIOUS
<1>5. QED
  BY <1>3, <1>4

\* A quotient is the number of times the divisor fits.
LEMMA QuotientFits ==
  ASSUME NEW x \in Int, NEW d \in Nat \ {0}
  PROVE  /\ x \div d \in Int
         /\ d * (x \div d) <= x
         /\ x < d * (x \div d) + d
OBVIOUS

LEMMA QuotientMonotone ==
  ASSUME NEW x \in Int, NEW y \in Int, x <= y, NEW d \in Nat \ {0}
  PROVE  x \div d <= y \div d
<1> DEFINE p == x \div d
           r == y \div d
<1>1. /\ p \in Int /\ d * p <= x
      /\ r \in Int /\ y < d * r + d
  BY QuotientFits
<1> HIDE DEF p, r
<1>2. SUFFICES ASSUME ~ (p <= r) PROVE FALSE
  BY DEF p, r
<1>3. r + 1 <= p
  BY <1>1, <1>2
<1>4. d * (r + 1) <= d * p /\ d * (r + 1) \in Int /\ d * p \in Int
  BY <1>1, <1>3, TimesMonotone
<1>5. d * (r + 1) = d * r + d /\ d * r \in Int
  BY <1>1
<1>6. QED
  BY <1>1, <1>4, <1>5

LEMMA RoundToMonotone ==
  ASSUME NEW x \in Nat, NEW y \in Nat, x <= y, NEW d \in Nat \ {0}
  PROVE  RoundTo(x, d) <= RoundTo(y, d)
<1> DEFINE unit == d * CentiKg
           p == (2 * x + unit) \div (2 * unit)
           r == (2 * y + unit) \div (2 * unit)
<1>1. unit \in Nat \ {0}
  <2>1. \A k, m \in Nat \ {0} : k * m \in Nat \ {0}
    OBVIOUS
  <2>2. QED
    BY <2>1, LcaAssumption
<1> HIDE DEF unit
<1>2. /\ 2 * x + unit \in Int /\ 2 * y + unit \in Int
      /\ 2 * x + unit <= 2 * y + unit
      /\ 2 * unit \in Nat \ {0}
  BY <1>1
<1>3. p <= r /\ p \in Int /\ r \in Int
  BY <1>2, QuotientMonotone, QuotientFits
<1> HIDE DEF p, r
<1>4. CentiKg * p <= CentiKg * r
  BY <1>3, TimesMonotone, LcaAssumption
<1>5. QED
  BY <1>4 DEF RoundTo, p, r, unit

LEMMA ZeroIsRound == RoundTo(0, 1) = 0
<1> DEFINE d == 2 * CentiKg
           q == CentiKg \div d
<1>1. CentiKg \in Nat \ {0} /\ CentiKg \in Int /\ d \in Nat \ {0} /\ CentiKg < d
  BY LcaAssumption
<1>2. q \in Int /\ d * q <= CentiKg /\ CentiKg < d * q + d
  BY <1>1, QuotientFits
<1> HIDE DEF q
<1>3. ~ (1 <= q)
  <2>1. SUFFICES ASSUME 1 <= q PROVE FALSE
    OBVIOUS
  <2>2. d * 1 <= d * q
    BY <1>1, <1>2, <2>1, TimesMonotone
  <2>3. QED
    BY <1>1, <1>2, <2>2
<1>4. ~ (q <= -1)
  <2>1. SUFFICES ASSUME q <= -1 PROVE FALSE
    OBVIOUS
  <2>2. d * q <= d * (-1) /\ d * q \in Int
    BY <1>1, <1>2, <2>1, TimesMonotone
  <2>3. QED
    BY <1>1, <1>2, <2>2
<1>5. q = 0
  BY <1>2, <1>3, <1>4
<1>6. RoundTo(0, 1) = CentiKg * q
  <2>1. 1 * CentiKg = CentiKg /\ 2 * 0 + CentiKg = CentiKg
    BY <1>1
  <2>2. QED
    BY <2>1 DEF RoundTo, q
<1>7. QED
  BY <1>1, <1>5, <1>6

\* More emissions never raise the reward for a reduction.
LEMMA RewardsFall ==
  ASSUME NEW reduction \in Nat, NEW current \in Nat, NEW more \in Nat,
         current <= more, NEW past \in Nat
  PROVE  FinalRewards(reduction, more, past) <= FinalRewards(reduction, current, past)
<1>1. CASE past = 0
  <2>1. RoundTo(reduction, 1) <= RoundTo(reduction, 1)
    BY RoundToMonotone
  <2>2. QED
    BY <1>1, <2>1 DEF FinalRewards
<1>2. CASE past # 0
  <2> DEFINE half(c) == IF 3 * past - c > past THEN 3 * past - c ELSE past
  <2>1. half(more) \in Nat /\ half(current) \in Nat /\ half(more) <= half(current)
    OBVIOUS
  <2>2. \A k, m \in Nat : k * m \in Nat
    OBVIOUS
  <2> HIDE DEF half
  <2>3. /\ reduction * half(more) \in Nat /\ reduction * half(current) \in Nat
        /\ reduction * half(more) <= reduction * half(current)
    BY <2>1, <2>2, TimesMonotone
  <2>4. 2 * past \in Nat \ {0}
    BY <1>2
  <2>5. RoundTo(reduction * half(more), 2 * past)
          <= RoundTo(reduction * half(current), 2 * past)
    BY <2>3, <2>4, RoundToMonotone
  <2>6. QED
    BY <1>2, <2>5 DEF FinalRewards, half
<1>3. QED
  BY <1>1, <1>2

\* A second entry of a category adds its emission and reduces nothing.
LEMMA SecondEntryAdds ==
  ASSUME NEW s \in Seq(SpendEntries), NEW a \in Seq(Activities),
         NEW q \in Activities, q.category \in Entered(a, Len(a))
  PROVE  /\ ScoredSums(s, a).total \in Nat /\ ScoredSums(s, a).reduction \in Nat
         /\ ScoredSums(s, Append(a, q)).total
              = ScoredSums(s, a).total + CalculateActivityEmission(q)
         /\ ScoredSums(s, Append(a, q)).reduction = ScoredSums(s, a).reduction
         /\ CalculateActivityEmission(q) \in Nat
<1> DEFINE est == SpendUpTo(s, Len(s))
           b == Append(a, q)
           c == q.category
           sum == ScoredSums(s, a)
           new == ScoredSums(s, b)
           amount == CalculateActivityEmission(q)
<1>1. est \in [SpendCategories -> Nat]
  <2>1. Len(s) \in 0 .. Len(s)
    BY SpendTyped
  <2>2. QED
    BY <2>1, SpendTyped
<1>2. b \in Seq(Activities) /\ Len(b) = Len(a) + 1 /\ b[Len(a) + 1] = q
  BY AppendProperties
<1>3. Len(a) \in Nat /\ Len(a) \in 0 .. Len(a) /\ Len(b) \in 1 .. Len(b)
  BY <1>2, ActivityTyped
<1>4. c \in ActivityCategories /\ c \in SpendCategories /\ amount \in Nat
  <2>1. amount \in Nat
    BY <1>2, <1>3, ActivityTyped
  <2>2. QED
    BY <2>1, LcaAssumption DEF Activities
<1> HIDE DEF b, amount, c, est
<1>5. /\ sum = ScoredUpTo(est, a, Len(a)) /\ sum \in Accs
      /\ new = ScoredUpTo(est, b, Len(b))
      /\ new = Replace(sum, q)
  <2>1. sum = ScoredUpTo(est, a, Len(a)) /\ new = ScoredUpTo(est, b, Len(b))
    BY DEF ScoredSums, est
  <2>2. /\ WithActivities(BaselineOf(est), a) = ScoredUpTo(est, a, Len(a))
        /\ ScoredUpTo(est, a, Len(a)) \in Accs
        /\ WithActivities(BaselineOf(est), b) = ScoredUpTo(est, b, Len(b))
    BY <1>1, <1>2, WithActivitiesIs
  <2>3. WithActivities(BaselineOf(est), b) = Replace(WithActivities(BaselineOf(est), a), q)
    BY <1>1, WithOneMore DEF b
  <2>4. QED
    BY <2>1, <2>2, <2>3
<1>6. sum.spend[c] = 0
  BY <1>4, <1>5 DEF ScoredUpTo, LeftUpTo, c
<1>7. sum.total \in Nat /\ sum.reduction \in Nat
  <2>1. /\ \A d \in SpendCategories : LeftUpTo(est, a, Len(a))[d] \in Nat
        /\ MeasuredUpTo(a, Len(a)) \in [ActivityCategories -> Nat]
        /\ SavedUpTo(est, a, Len(a)) \in [ActivityCategories -> Nat]
    BY <1>1, <1>3, ActivityTyped, SavedTyped DEF LeftUpTo
  <2>2. IsFiniteSet(SpendCategories) /\ IsFiniteSet(ActivityCategories)
    BY LcaAssumption, FS_Subset
  <2>3. /\ Total(SpendCategories, LeftUpTo(est, a, Len(a))) \in Nat
        /\ Total(ActivityCategories, MeasuredUpTo(a, Len(a))) \in Nat
        /\ Total(ActivityCategories, SavedUpTo(est, a, Len(a))) \in Nat
    BY <2>1, <2>2, TotalType
  <2>4. QED
    BY <1>5, <2>3 DEF ScoredUpTo
<1> HIDE DEF sum, new
<1>8. /\ Replace(sum, q).total = sum.total - sum.spend[c] + amount
      /\ Replace(sum, q).reduction = sum.reduction + Excess(sum.spend[c], amount)
  <2>1. sum.spend[c] \in Nat
    BY <1>6
  <2>2. QED
    BY <1>4, <1>5, <2>1, ReplaceRecord DEF c, amount
<1>9. Excess(sum.spend[c], amount) = 0
  BY <1>4, <1>6 DEF Excess
<1>10. new.total = sum.total + amount /\ new.reduction = sum.reduction
  BY <1>4, <1>5, <1>6, <1>7, <1>8, <1>9
<1>11. QED
  BY <1>4, <1>7, <1>10 DEF sum, new, b, amount

\* So it never pays, unless it takes a total of zero to less than a kilogram.
LEMMA SecondEntryPaysNothing ==
  ASSUME NEW s \in Seq(SpendEntries), NEW a \in Seq(Activities),
         NEW q \in Activities, q.category \in Entered(a, Len(a)),
         NEW r, r.spendEntries = s, r.activityEntries = a,
         NEW r2, r2.spendEntries = s, r2.activityEntries = Append(a, q),
         NEW past \in Nat, NEW trace \in BOOLEAN,
         ~ (/\ ScoredSums(s, a).total = 0
            /\ ScoredSums(s, Append(a, q)).total \in 1 .. Kg - 1)
  PROVE  CalculateFootprint(r2, past, trace).finalRewards
           <= CalculateFootprint(r, past, trace).finalRewards
<1> DEFINE sum == ScoredSums(s, a)
           new == ScoredSums(s, Append(a, q))
           amount == CalculateActivityEmission(q)
           current == IF sum.total <= 0 /\ ~trace THEN Kg ELSE sum.total
           more == IF new.total <= 0 /\ ~trace THEN Kg ELSE new.total
<1>1. /\ sum.total \in Nat /\ sum.reduction \in Nat /\ amount \in Nat
      /\ new.total = sum.total + amount /\ new.reduction = sum.reduction
  BY SecondEntryAdds
<1>2. Append(a, q) \in Seq(Activities)
  BY AppendProperties
<1>3. CalculateFootprint(r, past, trace)
        = [totalEmissions |-> RoundTo(current, 1),
           baseReduction  |-> RoundTo(sum.reduction, 1),
           finalRewards   |-> FinalRewards(sum.reduction, current, past)]
  BY FootprintIs
<1>4. CalculateFootprint(r2, past, trace)
        = [totalEmissions |-> RoundTo(more, 1),
           baseReduction  |-> RoundTo(new.reduction, 1),
           finalRewards   |-> FinalRewards(new.reduction, more, past)]
  BY <1>2, FootprintIs
<1>5. Kg \in Nat
  BY LcaAssumption DEF Kg
<1>6. ~ (sum.total = 0 /\ new.total \in 1 .. Kg - 1)
  OBVIOUS
<1> HIDE DEF sum, new, amount
<1>7. current \in Nat /\ more \in Nat /\ current <= more
  <2>1. CASE trace
    <3>1. current = sum.total /\ more = new.total
      BY <2>1
    <3> HIDE DEF current, more
    <3>2. QED
      BY <1>1, <3>1
  <2>2. CASE ~trace
    <3>1. /\ current = IF sum.total <= 0 THEN Kg ELSE sum.total
          /\ more = IF new.total <= 0 THEN Kg ELSE new.total
      BY <2>2
    <3> HIDE DEF current, more
    <3>2. QED
      BY <1>1, <1>5, <1>6, <3>1
  <2>3. QED
    BY <2>1, <2>2
<1> HIDE DEF current, more
<1>8. FinalRewards(sum.reduction, more, past) <= FinalRewards(sum.reduction, current, past)
  BY <1>1, <1>7, RewardsFall
<1>9. QED
  BY <1>1, <1>3, <1>4, <1>8

-----------------------------------------------------------------------------
\* The input workspace: types

\* A line may be given a category that is none of the backend's.
RowCategories == SpendCategories \cup {CategoryOf[Topics[i]] : i \in DOMAIN Topics}
Artifacts == [kind : UploadKinds, file : Files]
Reviews == [id : Nat, artifact : Nat, file : Files]
Rows == [rowId : Nat, artifact : Nat, category : RowCategories, amount : Int,
         file : Files, line : Nat]
ActivityEntries ==
  [category : ActivityCategories, value : Int, isRenewable : {FALSE}]

WorkspaceTypeOK ==
  /\ artifacts \in Seq(Artifacts)
  /\ selected \in [UploadKinds -> Files \cup {NoFile}]
  /\ reviews \subseteq Reviews
  /\ started \in Nat
  /\ rows \in Seq(Rows)
  /\ rowCount \in Nat
  /\ entries \in Seq(ActivityEntries)

\* The file f is that of artifact a or of a later one of its input.
FromArtifact(a, f) ==
  /\ a \in DOMAIN artifacts
  /\ f # artifacts[a].file =>
       \E b \in a + 1 .. Len(artifacts) :
         artifacts[b] = [kind |-> artifacts[a].kind, file |-> f]

RowsFit ==
  \A i \in DOMAIN rows : /\ rows[i].rowId \in 1 .. rowCount
                         /\ FromArtifact(rows[i].artifact, rows[i].file)
ReviewsFit == \A v \in reviews : FromArtifact(v.artifact, v.file)

\* What an input holds was uploaded through it, and nothing later.
InputsFit ==
  \A k \in UploadKinds : selected[k] # NoFile =>
    \E b \in DOMAIN artifacts :
      /\ artifacts[b] = [kind |-> k, file |-> selected[k]]
      /\ \A c \in b + 1 .. Len(artifacts) : artifacts[c].kind # k

WorkspaceInv ==
  /\ WorkspaceTypeOK
  /\ RowsFit
  /\ CandidatesCountedOnce
  /\ ReviewsFit
  /\ InputsFit

\* The file of a line's category, and what a review finds
LEMMA CandidateRows ==
  ASSUME WorkspaceTypeOK, NEW v \in reviews, NEW t \in ExtractedTexts(v.file)
  PROVE  /\ t \in Seq(Lines) /\ Len(t) \in Nat /\ DOMAIN t = 1 .. Len(t)
         /\ \A i \in 1 .. Len(t) : CandidateRow(t, i, v) \in Rows
<1>1. v \in Reviews /\ v.file \in Files /\ v.artifact \in Nat
  BY DEF WorkspaceTypeOK, Reviews
<1>2. t \in Seq(Lines)
  BY <1>1, WorkspaceAssumption DEF ExtractedTexts
<1>3. /\ Len(t) \in Nat /\ DOMAIN t = 1 .. Len(t)
      /\ \A i \in 1 .. Len(t) : t[i] \in Lines
  BY <1>2, LenProperties, ElementOfSeq
<1>4. ASSUME NEW i \in 1 .. Len(t)
      PROVE  ClassifyCategory(t[i]) \in RowCategories
  <2> DEFINE found == {j \in DOMAIN Topics : Topics[j] \in t[i].words}
  <2>1. DOMAIN Topics = 1 .. 6
    BY DEF Topics
  <2>2. CASE found = {}
    BY <2>2, WorkspaceAssumption DEF ClassifyCategory, RowCategories
  <2>3. CASE found # {}
    <3>1. found \subseteq Nat
      BY <2>1
    <3>2. \E j \in found : \A k \in found : j <= k
      BY <2>3, <3>1, LeastNumber
    <3>3. (CHOOSE j \in found : \A k \in found : j <= k) \in DOMAIN Topics
      BY <3>2
    <3>4. QED
      BY <2>3, <3>3 DEF ClassifyCategory, RowCategories
  <2>4. QED
    BY <2>2, <2>3
<1>5. ASSUME NEW i \in 1 .. Len(t)
      PROVE  CandidateRow(t, i, v) \in Rows
  <2>1. t[i].number \in Nat \cup {NoNumber} /\ rowCount + i \in Nat /\ i \in Nat
    BY <1>3 DEF Lines, WorkspaceTypeOK
  <2>2. (IF t[i].number = NoNumber THEN 0 ELSE t[i].number) \in Int
    BY <2>1 DEF NoNumber
  <2>3. QED
    BY <1>1, <1>4, <2>1, <2>2 DEF CandidateRow, Rows
<1>6. QED
  BY <1>2, <1>3, <1>5

\* The rows a filter leaves are rows it found, at as many places.
LEMMA KeptRows ==
  ASSUME NEW s \in Seq(Rows), NEW K, K \subseteq DOMAIN s,
         NEW kept, kept = Subsequence(s, K)
  PROVE  /\ kept \in Seq(Rows) /\ Len(kept) \in Nat
         /\ \A m \in 1 .. Len(kept) : Nth(K, m) \in K /\ kept[m] = s[Nth(K, m)]
         /\ \A m, n \in 1 .. Len(kept) : m # n => Nth(K, m) # Nth(K, n)
<1>1. /\ kept \in Seq(Rows)
      /\ Len(kept) = Cardinality(K)
      /\ Cardinality(K) \in 0 .. Len(s)
      /\ \A m \in 1 .. Cardinality(K) :
           /\ Nth(K, m) \in K /\ Nth(K, m) \in 1 .. Len(s)
           /\ kept[m] = s[Nth(K, m)]
      /\ \A m, n \in 1 .. Cardinality(K) : m < n => Nth(K, m) < Nth(K, n)
  BY SubsequenceKeeps
<1>2. Len(s) \in Nat /\ Len(kept) \in Nat
  BY <1>1, LenProperties
<1>3. ASSUME NEW m \in 1 .. Len(kept), NEW n \in 1 .. Len(kept), m # n
      PROVE  Nth(K, m) # Nth(K, n)
  <2>1. m < n \/ n < m
    BY <1>2, <1>3
  <2>2. Nth(K, m) < Nth(K, n) \/ Nth(K, n) < Nth(K, m)
    BY <1>1, <2>1
  <2>3. QED
    BY <1>1, <1>2, <2>2
<1>4. QED
  BY <1>1, <1>2, <1>3

\* A later upload changes nothing about a file.
LEMMA StillFromArtifact ==
  ASSUME WorkspaceTypeOK, NEW x \in Artifacts, artifacts' = Append(artifacts, x),
         NEW a, NEW f, FromArtifact(a, f)
  PROVE  FromArtifact(a, f)'
<1>1. /\ Len(artifacts) \in Nat /\ DOMAIN artifacts = 1 .. Len(artifacts)
      /\ Len(artifacts') = Len(artifacts) + 1
      /\ DOMAIN artifacts' = 1 .. Len(artifacts')
      /\ \A i \in 1 .. Len(artifacts) : artifacts'[i] = artifacts[i]
  BY AppendProperties, LenProperties DEF WorkspaceTypeOK
<1>2. a \in 1 .. Len(artifacts) /\ a \in 1 .. Len(artifacts')
  BY <1>1 DEF FromArtifact
<1>3. a \in Int
  BY <1>2
<1>4. CASE f = artifacts[a].file
  BY <1>1, <1>2, <1>4 DEF FromArtifact
<1>5. CASE f # artifacts[a].file
  <2>1. PICK b \in a + 1 .. Len(artifacts) :
               artifacts[b] = [kind |-> artifacts[a].kind, file |-> f]
    BY <1>5 DEF FromArtifact
  <2>2. b \in 1 .. Len(artifacts) /\ b \in a + 1 .. Len(artifacts')
    BY <1>1, <1>2, <1>3, <2>1
  <2>3. artifacts'[b] = [kind |-> artifacts'[a].kind, file |-> f]
    BY <1>1, <1>2, <2>1, <2>2
  <2>4. QED
    BY <1>1, <1>2, <2>2, <2>3 DEF FromArtifact
<1>6. QED
  BY <1>4, <1>5

LEMMA InitWorkspace == WorkspaceInit => WorkspaceInv
<1>1. SUFFICES ASSUME WorkspaceInit PROVE WorkspaceInv
  OBVIOUS
<1>2. << >> \in Seq(Artifacts) /\ << >> \in Seq(Rows) /\ << >> \in Seq(ActivityEntries)
  BY EmptySeq
<1>3. WorkspaceTypeOK
  BY <1>1, <1>2 DEF WorkspaceInit, WorkspaceTypeOK
<1>4. DOMAIN rows = {}
  BY <1>1 DEF WorkspaceInit
<1>5. RowsFit /\ CandidatesCountedOnce
  BY <1>4 DEF RowsFit, CandidatesCountedOnce
<1>6. ReviewsFit /\ InputsFit
  BY <1>1 DEF WorkspaceInit, ReviewsFit, InputsFit
<1>7. QED
  BY <1>3, <1>5, <1>6 DEF WorkspaceInv

\* Deleting rows
LEMMA RowsRemoved ==
  ASSUME WorkspaceInv, NEW i \in DOMAIN rows, RemoveReviewRow(i)
  PROVE  WorkspaceInv'
<1> DEFINE others == {j \in DOMAIN rows : rows[j].rowId # rows[i].rowId}
<1>1. /\ rows' = Subsequence(rows, others)
      /\ UNCHANGED <<artifacts, selected, reviews, started, rowCount, entries>>
  BY DEF RemoveReviewRow
<1>2. rows \in Seq(Rows) /\ others \subseteq DOMAIN rows
  BY DEF WorkspaceInv, WorkspaceTypeOK
<1> HIDE DEF others
<1>3. /\ rows' \in Seq(Rows) /\ Len(rows') \in Nat
      /\ \A m \in 1 .. Len(rows') :
           Nth(others, m) \in others /\ rows'[m] = rows[Nth(others, m)]
      /\ \A m, n \in 1 .. Len(rows') : m # n => Nth(others, m) # Nth(others, n)
  BY <1>1, <1>2, KeptRows
<1>4. DOMAIN rows' = 1 .. Len(rows')
  BY <1>3, LenProperties
<1>5. WorkspaceTypeOK'
  BY <1>1, <1>3 DEF WorkspaceInv, WorkspaceTypeOK
<1>6. RowsFit'
  BY <1>1, <1>2, <1>3, <1>4 DEF WorkspaceInv, RowsFit, FromArtifact
<1>7. CandidatesCountedOnce'
  BY <1>2, <1>3, <1>4 DEF WorkspaceInv, CandidatesCountedOnce
<1>8. ReviewsFit' /\ InputsFit'
  BY <1>1 DEF WorkspaceInv, ReviewsFit, InputsFit, FromArtifact
<1>9. QED
  BY <1>5, <1>6, <1>7, <1>8 DEF WorkspaceInv

\* Editing rows
LEMMA RowsUpdated ==
  ASSUME WorkspaceInv, NEW i \in DOMAIN rows, NEW c \in RowCategories,
         NEW n \in Int, UpdateReviewRow(i, c, n)
  PROVE  WorkspaceInv'
<1> DEFINE edited(j) ==
      IF rows[j].rowId = rows[i].rowId
      THEN [rows[j] EXCEPT !.category = c, !.amount = n] ELSE rows[j]
<1>1. /\ rows' = [j \in DOMAIN rows |-> edited(j)]
      /\ UNCHANGED <<artifacts, selected, reviews, started, rowCount, entries>>
  BY DEF UpdateReviewRow
<1>2. /\ rows \in Seq(Rows) /\ Len(rows) \in Nat /\ DOMAIN rows = 1 .. Len(rows)
      /\ \A j \in 1 .. Len(rows) : rows[j] \in Rows
  BY LenProperties, ElementOfSeq DEF WorkspaceInv, WorkspaceTypeOK
<1>3. \A j \in 1 .. Len(rows) :
        /\ edited(j) \in Rows /\ edited(j).rowId = rows[j].rowId
        /\ edited(j).artifact = rows[j].artifact
        /\ edited(j).file = rows[j].file /\ edited(j).line = rows[j].line
  BY <1>2 DEF Rows
<1> HIDE DEF edited
<1>4. rows' \in [1 .. Len(rows) -> Rows] /\ DOMAIN rows' = DOMAIN rows
  BY <1>1, <1>2, <1>3
<1>5. rows' \in Seq(Rows)
  BY <1>2, <1>4, IsASeq
<1>6. \A j \in DOMAIN rows :
        /\ rows'[j].rowId = rows[j].rowId /\ rows'[j].artifact = rows[j].artifact
        /\ rows'[j].file = rows[j].file /\ rows'[j].line = rows[j].line
  BY <1>1, <1>2, <1>3
<1>7. WorkspaceTypeOK'
  BY <1>1, <1>5 DEF WorkspaceInv, WorkspaceTypeOK
<1>8. RowsFit'
  BY <1>1, <1>4, <1>6 DEF WorkspaceInv, RowsFit, FromArtifact
<1>9. CandidatesCountedOnce'
  BY <1>4, <1>6 DEF WorkspaceInv, CandidatesCountedOnce
<1>10. ReviewsFit' /\ InputsFit'
  BY <1>1 DEF WorkspaceInv, ReviewsFit, InputsFit, FromArtifact
<1>11. QED
  BY <1>7, <1>8, <1>9, <1>10 DEF WorkspaceInv

\* The end of a review: its rows take the place of those of its artifact.
LEMMA RowsAttached ==
  ASSUME WorkspaceInv, NEW v \in reviews, NEW t \in ExtractedTexts(v.file),
         ReviewEnds(v, t)
  PROVE  WorkspaceInv'
<1> DEFINE others == {i \in DOMAIN rows : rows[i].artifact # v.artifact}
           left == OtherRows(v.artifact)
           found == [i \in DOMAIN t |-> CandidateRow(t, i, v)]
<1>1. /\ rows' = left \o found /\ rowCount' = rowCount + Len(t)
      /\ reviews' = reviews \ {v}
      /\ UNCHANGED <<artifacts, selected, started, entries>>
  BY DEF ReviewEnds, AttachOcrReviewRows
<1>2. /\ rows \in Seq(Rows) /\ Len(rows) \in Nat /\ DOMAIN rows = 1 .. Len(rows)
      /\ \A i \in 1 .. Len(rows) : rows[i] \in Rows
      /\ rowCount \in Nat /\ others \subseteq DOMAIN rows
  BY LenProperties, ElementOfSeq DEF WorkspaceInv, WorkspaceTypeOK
<1>3. /\ Len(t) \in Nat /\ DOMAIN t = 1 .. Len(t)
      /\ \A i \in 1 .. Len(t) : CandidateRow(t, i, v) \in Rows
  BY CandidateRows DEF WorkspaceInv
<1>4. /\ found \in Seq(Rows) /\ Len(found) = Len(t)
      /\ \A i \in 1 .. Len(t) : found[i] = CandidateRow(t, i, v)
  <2>1. found \in [1 .. Len(t) -> Rows]
    BY <1>3
  <2>2. found \in Seq(Rows) /\ Len(found) = Len(t)
    BY <1>3, <2>1, IsASeq, LenProperties
  <2>3. QED
    BY <1>3, <2>2
<1>5. left = Subsequence(rows, others)
  BY DEF OtherRows
<1> HIDE DEF others, left, found
<1>6. /\ left \in Seq(Rows) /\ Len(left) \in Nat
      /\ \A m \in 1 .. Len(left) :
           Nth(others, m) \in others /\ left[m] = rows[Nth(others, m)]
      /\ \A m, n \in 1 .. Len(left) : m # n => Nth(others, m) # Nth(others, n)
  <2>1. ASSUME NEW s, s = Subsequence(rows, others)
        PROVE  /\ s \in Seq(Rows) /\ Len(s) \in Nat
               /\ \A m \in 1 .. Len(s) :
                    Nth(others, m) \in others /\ s[m] = rows[Nth(others, m)]
               /\ \A m, n \in 1 .. Len(s) : m # n =>
                    Nth(others, m) # Nth(others, n)
    BY <1>2, <2>1, KeptRows
  <2>2. QED
    BY <1>5, <2>1
<1>7. /\ rows' \in Seq(Rows) /\ Len(rows') = Len(left) + Len(t)
      /\ DOMAIN rows' = 1 .. Len(left) + Len(t)
      /\ \A i \in 1 .. Len(left) : rows'[i] = left[i]
      /\ \A i \in Len(left) + 1 .. Len(left) + Len(t) :
           rows'[i] = found[i - Len(left)]
  <2>1. /\ left \o found \in Seq(Rows)
        /\ Len(left \o found) = Len(left) + Len(found)
        /\ \A i \in 1 .. Len(left) + Len(found) :
             (left \o found)[i] = IF i <= Len(left) THEN left[i]
                                 ELSE found[i - Len(left)]
    BY <1>4, <1>6, ConcatProperties
  <2>2. DOMAIN (left \o found) = 1 .. Len(left) + Len(t)
    BY <1>4, <2>1, LenProperties
  <2>3. /\ \A i \in 1 .. Len(left) : i \in 1 .. Len(left) + Len(t) /\ i <= Len(left)
        /\ \A i \in Len(left) + 1 .. Len(left) + Len(t) :
             i \in 1 .. Len(left) + Len(t) /\ ~ (i <= Len(left))
    BY <1>3, <1>6
  <2>4. QED
    BY <1>1, <1>4, <2>1, <2>2, <2>3
<1>8. \A i \in others : rows[i].artifact # v.artifact
  BY DEF others
\* An old row, and a new one
<1>9. ASSUME NEW i \in DOMAIN rows', i <= Len(left)
      PROVE  /\ Nth(others, i) \in DOMAIN rows
             /\ rows'[i] = rows[Nth(others, i)]
             /\ rows'[i].artifact # v.artifact
  <2>1. i \in 1 .. Len(left)
    BY <1>3, <1>6, <1>7, <1>9
  <2>2. QED
    BY <1>2, <1>6, <1>7, <1>8, <2>1
<1>10. ASSUME NEW i \in DOMAIN rows', ~ (i <= Len(left))
       PROVE  /\ i - Len(left) \in 1 .. Len(t)
              /\ rows'[i].rowId = rowCount + (i - Len(left))
              /\ rows'[i].artifact = v.artifact /\ rows'[i].file = v.file
              /\ rows'[i].line = i - Len(left)
  <2>1. /\ i \in Len(left) + 1 .. Len(left) + Len(t)
        /\ i - Len(left) \in 1 .. Len(t)
    BY <1>3, <1>6, <1>7, <1>10
  <2>2. rows'[i] = CandidateRow(t, i - Len(left), v)
    BY <1>4, <1>7, <2>1
  <2>3. QED
    BY <2>1, <2>2 DEF CandidateRow
<1>11. WorkspaceTypeOK'
  <2>1. reviews' \subseteq Reviews /\ rowCount' \in Nat
    BY <1>1, <1>2, <1>3 DEF WorkspaceInv, WorkspaceTypeOK
  <2>2. QED
    BY <1>1, <1>7, <2>1 DEF WorkspaceInv, WorkspaceTypeOK
<1>12. RowsFit'
  <2>1. SUFFICES ASSUME NEW i \in DOMAIN rows'
                 PROVE  /\ rows'[i].rowId \in 1 .. rowCount'
                        /\ FromArtifact(rows'[i].artifact, rows'[i].file)
    BY <1>1 DEF RowsFit, FromArtifact
  <2>2. CASE i <= Len(left)
    <3>1. rows'[i] = rows[Nth(others, i)] /\ Nth(others, i) \in DOMAIN rows
      BY <1>9, <2>2
    <3>2. /\ rows'[i].rowId \in 1 .. rowCount
          /\ FromArtifact(rows'[i].artifact, rows'[i].file)
      BY <3>1 DEF WorkspaceInv, RowsFit
    <3>3. QED
      BY <1>1, <1>2, <1>3, <3>2
  <2>3. CASE ~ (i <= Len(left))
    <3>1. FromArtifact(v.artifact, v.file)
      BY DEF WorkspaceInv, ReviewsFit
    <3>2. rows'[i].rowId \in 1 .. rowCount'
      BY <1>1, <1>2, <1>3, <1>10, <2>3
    <3>3. QED
      BY <1>10, <2>3, <3>1, <3>2
  <2>4. QED
    BY <2>2, <2>3
<1>13. CandidatesCountedOnce'
  <2>1. SUFFICES ASSUME NEW i \in DOMAIN rows', NEW j \in DOMAIN rows', i # j
                 PROVE  /\ rows'[i].rowId # rows'[j].rowId
                        /\ rows'[i].artifact = rows'[j].artifact =>
                             /\ rows'[i].line # rows'[j].line
                             /\ rows'[i].file = rows'[j].file
    BY DEF CandidatesCountedOnce
  <2>2. i \in Int /\ j \in Int /\ Len(left) \in Int /\ rowCount \in Int
    BY <1>2, <1>6, <1>7
  <2>3. \A k \in DOMAIN rows' : k <= Len(left) =>
          rows'[k].rowId \in 1 .. rowCount
    BY <1>9 DEF WorkspaceInv, RowsFit
  <2>4. \A k \in DOMAIN rows' : ~ (k <= Len(left)) =>
          rows'[k].rowId \notin 1 .. rowCount
    BY <1>2, <1>3, <1>10
  <2>5. CASE i <= Len(left) /\ j <= Len(left)
    <3>1. Nth(others, i) # Nth(others, j)
      BY <1>6, <1>7, <2>1, <2>5
    <3>2. QED
      BY <1>9, <2>5, <3>1 DEF WorkspaceInv, CandidatesCountedOnce
  <2>6. CASE i <= Len(left) /\ ~ (j <= Len(left))
    BY <1>9, <1>10, <2>3, <2>4, <2>6
  <2>7. CASE ~ (i <= Len(left)) /\ j <= Len(left)
    BY <1>9, <1>10, <2>3, <2>4, <2>7
  <2>8. CASE ~ (i <= Len(left)) /\ ~ (j <= Len(left))
    BY <1>10, <2>1, <2>2, <2>8
  <2>9. QED
    BY <2>5, <2>6, <2>7, <2>8
<1>14. ReviewsFit' /\ InputsFit'
  BY <1>1 DEF WorkspaceInv, ReviewsFit, InputsFit, FromArtifact
<1>15. QED
  BY <1>11, <1>12, <1>13, <1>14 DEF WorkspaceInv

\* A new upload
LEMMA FileUploaded ==
  ASSUME WorkspaceInv, NEW k \in UploadKinds, NEW f \in Files,
         HandleFileUpload(k, f)
  PROVE  WorkspaceInv'
<1> DEFINE x == [kind |-> k, file |-> f]
<1>1. /\ artifacts' = Append(artifacts, x)
      /\ selected' = [selected EXCEPT ![k] = f]
      /\ UNCHANGED <<reviews, started, rows, rowCount, entries>>
  BY DEF HandleFileUpload, RegisterUploadedArtifact
<1>2. x \in Artifacts
  BY DEF Artifacts
<1>3. /\ Len(artifacts) \in Nat /\ DOMAIN artifacts = 1 .. Len(artifacts)
      /\ artifacts' \in Seq(Artifacts)
      /\ Len(artifacts') = Len(artifacts) + 1
      /\ DOMAIN artifacts' = 1 .. Len(artifacts')
      /\ \A i \in 1 .. Len(artifacts) : artifacts'[i] = artifacts[i]
      /\ artifacts'[Len(artifacts')] = x
  BY <1>1, <1>2, AppendProperties, LenProperties DEF WorkspaceInv, WorkspaceTypeOK
<1>4. selected' \in [UploadKinds -> Files \cup {NoFile}]
  BY <1>1 DEF WorkspaceInv, WorkspaceTypeOK
<1>5. WorkspaceTypeOK'
  BY <1>1, <1>3, <1>4 DEF WorkspaceInv, WorkspaceTypeOK
<1>6. \A a, g : FromArtifact(a, g) => FromArtifact(a, g)'
  BY <1>1, <1>2, StillFromArtifact DEF WorkspaceInv
<1>7. RowsFit' /\ ReviewsFit'
  BY <1>1, <1>6 DEF WorkspaceInv, RowsFit, ReviewsFit
<1>8. CandidatesCountedOnce'
  BY <1>1 DEF WorkspaceInv, CandidatesCountedOnce
<1>9. InputsFit'
  <2>1. SUFFICES ASSUME NEW l \in UploadKinds, selected'[l] # NoFile
                 PROVE  \E b \in DOMAIN artifacts' :
                          /\ artifacts'[b] = [kind |-> l, file |-> selected'[l]]
                          /\ \A c \in b + 1 .. Len(artifacts') :
                               artifacts'[c].kind # l
    BY DEF InputsFit
  <2>2. CASE l = k
    <3>1. /\ Len(artifacts') \in DOMAIN artifacts'
          /\ artifacts'[Len(artifacts')] = [kind |-> l, file |-> selected'[l]]
          /\ Len(artifacts') + 1 .. Len(artifacts') = {}
      BY <1>1, <1>3, <1>4, <2>2 DEF WorkspaceInv, WorkspaceTypeOK
    <3>2. QED
      BY <3>1
  <2>3. CASE l # k
    <3>1. selected'[l] = selected[l]
      BY <1>1, <2>3 DEF WorkspaceInv, WorkspaceTypeOK
    <3>2. PICK b \in DOMAIN artifacts :
            /\ artifacts[b] = [kind |-> l, file |-> selected[l]]
            /\ \A c \in b + 1 .. Len(artifacts) : artifacts[c].kind # l
      BY <2>1, <3>1 DEF WorkspaceInv, InputsFit
    <3>3. b \in 1 .. Len(artifacts) /\ b \in DOMAIN artifacts'
      BY <1>3, <3>2
    <3>4. ASSUME NEW c \in b + 1 .. Len(artifacts') PROVE artifacts'[c].kind # l
      <4>1. CASE c = Len(artifacts')
        BY <1>3, <2>3, <4>1
      <4>2. CASE c # Len(artifacts')
        <5>1. c \in b + 1 .. Len(artifacts) /\ c \in 1 .. Len(artifacts)
          BY <1>3, <3>3, <3>4, <4>2
        <5>2. QED
          BY <1>3, <3>2, <5>1
      <4>3. QED
        BY <4>1, <4>2
    <3>5. QED
      BY <1>3, <3>1, <3>2, <3>3, <3>4
  <2>4. QED
    BY <2>2, <2>3
<1>10. QED
  BY <1>5, <1>7, <1>8, <1>9 DEF WorkspaceInv

\* A review starts with what the input of its artifact holds.
LEMMA ReviewStarted ==
  ASSUME WorkspaceInv, NEW a \in DOMAIN artifacts, ReviewArtifact(a)
  PROVE  WorkspaceInv'
<1> DEFINE f == FileOfKind(a)
           v == [id |-> started + 1, artifact |-> a, file |-> f]
<1>1. /\ f # NoFile /\ started' = started + 1 /\ reviews' = reviews \cup {v}
      /\ UNCHANGED <<artifacts, selected, rows, rowCount, entries>>
  BY DEF ReviewArtifact
<1>2. /\ Len(artifacts) \in Nat /\ a \in 1 .. Len(artifacts)
      /\ artifacts[a] \in Artifacts /\ started \in Nat
  BY LenProperties, ElementOfSeq DEF WorkspaceInv, WorkspaceTypeOK
<1>3. artifacts[a].kind \in UploadKinds /\ f = selected[artifacts[a].kind]
  BY <1>2 DEF Artifacts, FileOfKind
<1>4. f \in Files
  BY <1>1, <1>3 DEF WorkspaceInv, WorkspaceTypeOK
<1>5. FromArtifact(a, f)
  <2>1. PICK b \in DOMAIN artifacts :
          /\ artifacts[b] = [kind |-> artifacts[a].kind, file |-> f]
          /\ \A c \in b + 1 .. Len(artifacts) :
               artifacts[c].kind # artifacts[a].kind
    BY <1>1, <1>3 DEF WorkspaceInv, InputsFit
  <2>2. b \in 1 .. Len(artifacts)
    BY LenProperties DEF WorkspaceInv, WorkspaceTypeOK
  <2>3. a <= b
    <3>1. CASE a \in b + 1 .. Len(artifacts)
      BY <2>1, <3>1
    <3>2. CASE a \notin b + 1 .. Len(artifacts)
      BY <1>2, <2>2, <3>2
    <3>3. QED
      BY <3>1, <3>2
  <2>4. CASE a = b
    BY <2>1, <2>4 DEF FromArtifact
  <2>5. CASE a # b
    <3>1. b \in a + 1 .. Len(artifacts)
      BY <1>2, <2>2, <2>3, <2>5
    <3>2. QED
      BY <2>1, <3>1 DEF FromArtifact
  <2>6. QED
    BY <2>4, <2>5
<1> HIDE DEF f
<1>6. WorkspaceTypeOK'
  <2>1. v \in Reviews /\ started' \in Nat
    BY <1>1, <1>2, <1>4 DEF Reviews
  <2>2. QED
    BY <1>1, <2>1 DEF WorkspaceInv, WorkspaceTypeOK
<1>7. RowsFit' /\ CandidatesCountedOnce' /\ InputsFit'
  BY <1>1 DEF WorkspaceInv, RowsFit, CandidatesCountedOnce, InputsFit, FromArtifact
<1>8. ReviewsFit'
  <2>1. \A w \in reviews' : FromArtifact(w.artifact, w.file)
    BY <1>1, <1>5 DEF WorkspaceInv, ReviewsFit
  <2>2. QED
    BY <1>1, <2>1 DEF ReviewsFit, FromArtifact
<1>9. QED
  BY <1>6, <1>7, <1>8 DEF WorkspaceInv

LEMMA WorkspacePreserved ==
  WorkspaceInv /\ [WorkspaceNext]_workspaceVars => WorkspaceInv'
<1>1. SUFFICES ASSUME WorkspaceInv, [WorkspaceNext]_workspaceVars
               PROVE  WorkspaceInv'
  OBVIOUS
<1>2. CASE ReloadWorkspace
  <2>1. WorkspaceInit'
    BY <1>2 DEF ReloadWorkspace, WorkspaceInit
  <2>2. QED
    BY <2>1, InitWorkspace, PTL
<1>3. ASSUME NEW k \in UploadKinds, DismissChooser(k)
      PROVE  WorkspaceInv'
  <2>1. /\ selected' = [selected EXCEPT ![k] = NoFile]
        /\ UNCHANGED <<artifacts, reviews, started, rows, rowCount, entries>>
    BY <1>3 DEF DismissChooser
  <2>2. WorkspaceTypeOK'
    BY <1>1, <2>1 DEF WorkspaceInv, WorkspaceTypeOK
  <2>3. RowsFit' /\ CandidatesCountedOnce' /\ ReviewsFit'
    BY <1>1, <2>1
       DEF WorkspaceInv, RowsFit, CandidatesCountedOnce, ReviewsFit, FromArtifact
  <2>4. \A l \in UploadKinds : selected'[l] # NoFile => selected'[l] = selected[l]
    BY <1>1, <2>1 DEF WorkspaceInv, WorkspaceTypeOK
  <2>5. InputsFit'
    BY <1>1, <2>1, <2>4 DEF WorkspaceInv, InputsFit
  <2>6. QED
    BY <2>2, <2>3, <2>5 DEF WorkspaceInv
<1>4. ASSUME NEW v \in reviews, ReviewFails(v)
      PROVE  WorkspaceInv'
  <2>1. /\ reviews' = reviews \ {v}
        /\ UNCHANGED <<artifacts, selected, started, rows, rowCount, entries>>
    BY <1>4 DEF ReviewFails
  <2>2. WorkspaceTypeOK'
    BY <1>1, <2>1 DEF WorkspaceInv, WorkspaceTypeOK
  <2>3. QED
    BY <1>1, <2>1, <2>2
       DEF WorkspaceInv, RowsFit, CandidatesCountedOnce, ReviewsFit, InputsFit,
           FromArtifact
<1>5. ASSUME NEW i \in DOMAIN rows,
             \/ \E c \in SpendCategories : UpdateReviewRow(i, c, rows[i].amount)
             \/ \E n \in Amounts : UpdateReviewRow(i, rows[i].category, n)
      PROVE  WorkspaceInv'
  <2>1. rows[i] \in Rows
    BY <1>1, ElementOfSeq, LenProperties DEF WorkspaceInv, WorkspaceTypeOK
  <2>2. rows[i].category \in RowCategories /\ rows[i].amount \in Int
    BY <2>1 DEF Rows
  <2>3. /\ \A c \in SpendCategories : c \in RowCategories
        /\ \A n \in Amounts : n \in Int
    BY WorkspaceAssumption DEF RowCategories
  <2>4. QED
    BY <1>1, <1>5, <2>2, <2>3, RowsUpdated
<1>6. ASSUME NEW c \in ActivityCategories, NEW n \in Amounts,
             AddActivityEntry(c, n)
      PROVE  WorkspaceInv'
  <2>1. /\ entries' = Append(entries, ActivityEntry(c, n))
        /\ UNCHANGED <<artifacts, selected, reviews, started, rows, rowCount>>
    BY <1>6 DEF AddActivityEntry
  <2>2. ActivityEntry(c, n) \in ActivityEntries
    BY WorkspaceAssumption DEF ActivityEntry, ActivityEntries
  <2>3. WorkspaceTypeOK'
    BY <1>1, <2>1, <2>2, AppendProperties DEF WorkspaceInv, WorkspaceTypeOK
  <2>4. QED
    BY <1>1, <2>1, <2>3
       DEF WorkspaceInv, RowsFit, CandidatesCountedOnce, ReviewsFit, InputsFit,
           FromArtifact
<1>7. CASE UNCHANGED workspaceVars
  BY <1>1, <1>7
     DEF workspaceVars, WorkspaceInv, WorkspaceTypeOK, RowsFit,
         CandidatesCountedOnce, ReviewsFit, InputsFit, FromArtifact
<1>8. QED
  BY <1>1, <1>2, <1>3, <1>4, <1>5, <1>6, <1>7, FileUploaded, ReviewStarted,
     RowsAttached, RowsRemoved
     DEF WorkspaceNext

\* The invariant of the input workspace
LEMMA WorkspaceSafe == WorkspaceSpec => []WorkspaceInv
<1>1. QED
  BY InitWorkspace, WorkspacePreserved, PTL DEF WorkspaceSpec

\* Of what a chip brings in, each line counts once in the payload, and all its rows
\* are from one file.  Two chips of one input may bring in the same file.
THEOREM CandidatesOnce == WorkspaceSpec => []CandidatesCountedOnce
<1>1. WorkspaceInv => CandidatesCountedOnce
  BY DEF WorkspaceInv
<1>2. QED
  BY <1>1, WorkspaceSafe, PTL

\* The rows of a chip are from its own image or from one uploaded later through
\* the same input.
THEOREM RowsFromTheirFiles == WorkspaceSpec => []OwnFileUnlessReplaced
<1>1. WorkspaceInv => OwnFileUnlessReplaced
  BY DEF WorkspaceInv, RowsFit, FromArtifact, OwnFileUnlessReplaced
<1>2. QED
  BY <1>1, WorkspaceSafe, PTL

-----------------------------------------------------------------------------
\* The score of the payload

LEMMA PayloadTyped ==
  ASSUME WorkspaceTypeOK, WellFormed(Payload)
  PROVE  /\ Payload.spendEntries \in Seq(SpendEntries)
         /\ Len(Payload.spendEntries) = Len(rows) /\ Len(rows) \in Nat
         /\ DOMAIN rows = 1 .. Len(rows)
         /\ \A i \in 1 .. Len(rows) :
              /\ Payload.spendEntries[i].category = rows[i].category
              /\ Payload.spendEntries[i].amount = rows[i].amount
         /\ Payload.activityEntries = entries /\ entries \in Seq(Activities)
         /\ \A i \in 1 .. Len(entries) : entries[i].isRenewable = FALSE
<1> DEFINE s == Payload.spendEntries
<1>1. /\ Len(rows) \in Nat /\ DOMAIN rows = 1 .. Len(rows)
      /\ \A i \in 1 .. Len(rows) : rows[i] \in Rows
      /\ Len(entries) \in Nat /\ DOMAIN entries = 1 .. Len(entries)
      /\ \A i \in 1 .. Len(entries) : entries[i] \in ActivityEntries
  BY LenProperties, ElementOfSeq DEF WorkspaceTypeOK
<1>2. s = [i \in DOMAIN rows |-> [category |-> rows[i].category,
                                 amount |-> rows[i].amount]]
  BY DEF Payload
<1>3. Payload.activityEntries = entries
  BY DEF Payload
<1> HIDE DEF s
<1>4. /\ DOMAIN s = 1 .. Len(rows)
      /\ \A i \in 1 .. Len(rows) : /\ s[i] = [category |-> rows[i].category,
                                             amount |-> rows[i].amount]
                                  /\ s[i].category = rows[i].category
                                  /\ s[i].amount = rows[i].amount
  BY <1>1, <1>2
<1>5. /\ \A i \in 1 .. Len(rows) : s[i].category \in SpendCategories /\ s[i].amount >= 0
      /\ \A i \in 1 .. Len(entries) : entries[i].value >= 0
  BY <1>1, <1>3, <1>4 DEF WellFormed, s
<1>6. \A i \in 1 .. Len(rows) : s[i] \in SpendEntries
  BY <1>1, <1>4, <1>5 DEF Rows, SpendEntries
<1>7. s \in [1 .. Len(rows) -> SpendEntries]
  BY <1>2, <1>1, <1>4, <1>6
<1>8. s \in Seq(SpendEntries) /\ Len(s) = Len(rows)
  BY <1>1, <1>7, IsASeq, LenProperties
<1>9. \A i \in 1 .. Len(entries) :
        entries[i] \in Activities /\ entries[i].isRenewable = FALSE
  <2>1. SUFFICES ASSUME NEW i \in 1 .. Len(entries)
                 PROVE  entries[i] \in Activities /\ entries[i].isRenewable = FALSE
    OBVIOUS
  <2>2. PICK c \in ActivityCategories, v \in Int :
          entries[i] = [category |-> c, value |-> v, isRenewable |-> FALSE]
    BY <1>1 DEF ActivityEntries
  <2>3. v \in Nat
    BY <1>5, <2>2
  <2>4. QED
    BY <2>2, <2>3 DEF Activities
<1>10. entries \in Seq(Activities)
  <2>1. entries \in [1 .. Len(entries) -> ActivityEntries]
    BY LenProperties, ElementOfSeq DEF WorkspaceTypeOK
  <2>2. entries \in [1 .. Len(entries) -> Activities]
    BY <1>9, <2>1
  <2>3. QED
    BY <1>1, <2>2, IsASeq
<1>11. QED
  BY <1>1, <1>3, <1>4, <1>8, <1>9, <1>10 DEF s

\* The score in the terms of the workspace
LEMMA PayloadScored ==
  ASSUME WorkspaceTypeOK, WellFormed(Payload)
  PROVE  LET sum == ScoredSums(Payload.spendEntries, entries)
             estimates == [c \in SpendCategories |-> Estimate(c)]
         IN  /\ sum.total = PromisedTotal
             /\ sum.reduction
                  = Total(EnteredCategories, [c \in EnteredCategories |-> Below(c)])
             /\ sum.total \in Nat /\ sum.reduction \in Nat
             /\ Total(SpendCategories \ EnteredCategories, estimates) \in Nat
             /\ sum.total = 0 =>
                  Total(SpendCategories \ EnteredCategories, estimates) = 0
             /\ estimates \in [SpendCategories -> Nat]
             /\ SpendBaseline(Payload.spendEntries).spend = estimates
<1> DEFINE s == Payload.spendEntries
           n == Len(entries)
           est == SpendUpTo(s, Len(s))
           estimates == [c \in SpendCategories |-> Estimate(c)]
           measures == [c \in EnteredCategories |-> Measured(c)]
           excesses == [c \in EnteredCategories |-> Below(c)]
<1>1. /\ s \in Seq(SpendEntries) /\ entries \in Seq(Activities)
      /\ Len(s) = Len(rows) /\ Len(rows) \in Nat /\ DOMAIN rows = 1 .. Len(rows)
      /\ \A i \in 1 .. Len(rows) : /\ s[i].category = rows[i].category
                                  /\ s[i].amount = rows[i].amount
      /\ \A i \in 1 .. Len(entries) : entries[i].isRenewable = FALSE
  BY PayloadTyped
<1> HIDE DEF s
<1>2. est \in [SpendCategories -> Nat]
  <2>1. Len(s) \in 0 .. Len(s)
    BY <1>1, SpendTyped
  <2>2. QED
    BY <1>1, <2>1, SpendTyped
<1>3. /\ n \in Nat /\ n \in 0 .. n /\ DOMAIN entries = 1 .. n
      /\ MeasuredUpTo(entries, n) \in [ActivityCategories -> Nat]
      /\ \A i \in 1 .. n : entries[i].category \in ActivityCategories
      /\ \A i \in 1 .. n : ActivityEmissions(entries)[i]
                              = CalculateActivityEmission(entries[i])
  <2>1. n \in 0 .. n
    BY <1>1, ActivityTyped
  <2>2. QED
    BY <1>1, <2>1, ActivityTyped
<1>4. /\ Entered(entries, n) = EnteredCategories
      /\ EnteredCategories \in SUBSET ActivityCategories
      /\ EnteredCategories \in SUBSET SpendCategories
      /\ IsFiniteSet(SpendCategories) /\ IsFiniteSet(ActivityCategories)
  <2>1. Entered(entries, n) = EnteredCategories
    BY <1>3 DEF Entered, EnteredCategories
  <2>2. EnteredCategories \in SUBSET ActivityCategories
    BY <1>3 DEF EnteredCategories
  <2>3. QED
    BY <2>1, <2>2, LcaAssumption, FS_Subset
\* What a category comes to
<1>5. ASSUME NEW c \in SpendCategories PROVE est[c] = Estimate(c)
  <2> DEFINE byRow == [i \in DOMAIN rows |-> rows[i].amount * SpendFactor[c]]
  <2>1. EntriesOf(s, Len(s), c) = {i \in DOMAIN rows : rows[i].category = c}
    BY <1>1 DEF EntriesOf
  <2>2. \A i \in EntriesOf(s, Len(s), c) : SpendEmissions(s)[i] = byRow[i]
    <3>1. \A i \in EntriesOf(s, Len(s), c) :
            /\ i \in 1 .. Len(s) /\ i \in DOMAIN rows
            /\ s[i].category = c /\ s[i].amount = rows[i].amount
      BY <1>1 DEF EntriesOf
    <3>2. QED
      BY <3>1 DEF SpendEmissions, SpendEmission
  <2>3. Total(EntriesOf(s, Len(s), c), SpendEmissions(s))
          = Total(EntriesOf(s, Len(s), c), byRow)
    <3> HIDE DEF byRow
    <3>1. QED
      BY <2>2, TotalEqual
  <2>4. QED
    BY <2>1, <2>3 DEF SpendUpTo, Estimate
<1>6. ASSUME NEW i \in 1 .. n
      PROVE  CalculateActivityEmission(entries[i])
               = entries[i].value * ActivityFactor[entries[i].category]
  BY <1>1 DEF CalculateActivityEmission
<1>7. ASSUME NEW c \in EnteredCategories
      PROVE  MeasuredUpTo(entries, n)[c] = Measured(c)
  <2> DEFINE byEntry == [i \in DOMAIN entries |-> entries[i].value * ActivityFactor[c]]
  <2>1. EntriesOf(entries, n, c) = {i \in DOMAIN entries : entries[i].category = c}
    BY <1>3 DEF EntriesOf
  <2>2. \A i \in EntriesOf(entries, n, c) : ActivityEmissions(entries)[i] = byEntry[i]
    BY <1>3, <1>6 DEF EntriesOf
  <2>3. Total(EntriesOf(entries, n, c), ActivityEmissions(entries))
          = Total(EntriesOf(entries, n, c), byEntry)
    <3> HIDE DEF byEntry
    <3>1. QED
      BY <2>2, TotalEqual
  <2>4. QED
    BY <1>4, <2>1, <2>3 DEF MeasuredUpTo, Measured
<1>8. ASSUME NEW c \in EnteredCategories
      PROVE  SavedUpTo(est, entries, n)[c] = Below(c)
  <2>1. FirstOf(entries, c) \in 1 .. n /\ entries[FirstOf(entries, c)].category = c
    BY <1>1, <1>3, <1>4, FirstTyped
  <2>2. FirstValue(c) = entries[FirstOf(entries, c)].value
    BY DEF FirstValue, FirstOf
  <2>3. CalculateActivityEmission(entries[FirstOf(entries, c)])
          = FirstValue(c) * ActivityFactor[c]
    BY <1>6, <2>1, <2>2
  <2>4. SavedUpTo(est, entries, n)[c] = Excess(est[c], FirstValue(c) * ActivityFactor[c])
    BY <1>4, <2>3 DEF SavedUpTo
  <2>5. est[c] = Estimate(c)
    BY <1>4, <1>5
  <2>6. QED
    BY <2>4, <2>5 DEF Excess, Below
\* The sums
<1>9. SavedUpTo(est, entries, n) \in [ActivityCategories -> Nat]
  BY <1>1, <1>2, <1>3, SavedTyped
<1> HIDE DEF est, n
<1>10. Total(SpendCategories, LeftUpTo(est, entries, n))
         = Total(SpendCategories \ EnteredCategories, estimates)
  <2>1. SpendCategories \ EnteredCategories \in SUBSET SpendCategories
    OBVIOUS
  <2>2. \A c \in SpendCategories \ EnteredCategories :
          LeftUpTo(est, entries, n)[c] = estimates[c] /\ estimates[c] \in Nat
    BY <1>2, <1>4, <1>5 DEF LeftUpTo
  <2>3. \A c \in SpendCategories \ (SpendCategories \ EnteredCategories) :
          LeftUpTo(est, entries, n)[c] = 0
    BY <1>4 DEF LeftUpTo
  <2> HIDE DEF estimates
  <2>4. QED
    BY <1>4, <2>1, <2>2, <2>3, TotalPart
<1>11. Total(ActivityCategories, MeasuredUpTo(entries, n))
         = Total(EnteredCategories, measures)
  <2>1. \A c \in EnteredCategories :
          MeasuredUpTo(entries, n)[c] = measures[c] /\ measures[c] \in Nat
    BY <1>3, <1>4, <1>7
  <2>2. \A c \in ActivityCategories \ EnteredCategories : MeasuredUpTo(entries, n)[c] = 0
    <3>1. \A c \in ActivityCategories \ EnteredCategories : EntriesOf(entries, n, c) = {}
      BY <1>4 DEF EntriesOf, Entered
    <3>2. Total({}, ActivityEmissions(entries)) = 0
      BY TotalZero
    <3>3. QED
      BY <3>1, <3>2 DEF MeasuredUpTo
  <2> HIDE DEF measures
  <2>3. QED
    BY <1>4, <2>1, <2>2, TotalPart
<1>12. Total(ActivityCategories, SavedUpTo(est, entries, n))
         = Total(EnteredCategories, excesses)
  <2>1. \A c \in EnteredCategories :
          SavedUpTo(est, entries, n)[c] = excesses[c] /\ excesses[c] \in Nat
    BY <1>4, <1>8, <1>9
  <2>2. \A c \in ActivityCategories \ EnteredCategories :
          SavedUpTo(est, entries, n)[c] = 0
    BY <1>4 DEF SavedUpTo
  <2> HIDE DEF excesses
  <2>3. QED
    BY <1>4, <2>1, <2>2, TotalPart
<1>13. /\ Total(SpendCategories, LeftUpTo(est, entries, n)) \in Nat
       /\ Total(ActivityCategories, MeasuredUpTo(entries, n)) \in Nat
       /\ Total(ActivityCategories, SavedUpTo(est, entries, n)) \in Nat
  <2>1. /\ \A c \in SpendCategories : LeftUpTo(est, entries, n)[c] \in Nat
        /\ \A c \in ActivityCategories :
             /\ MeasuredUpTo(entries, n)[c] \in Nat
             /\ SavedUpTo(est, entries, n)[c] \in Nat
    BY <1>2, <1>3, <1>9 DEF LeftUpTo
  <2>2. QED
    BY <1>4, <2>1, TotalType
<1>14. ScoredSums(s, entries) = ScoredUpTo(est, entries, n)
  BY DEF ScoredSums, est, n
<1>15. /\ ScoredSums(s, entries).total = PromisedTotal
       /\ ScoredSums(s, entries).reduction = Total(EnteredCategories, excesses)
       /\ Total(SpendCategories \ EnteredCategories, estimates) \in Nat
       /\ Total(EnteredCategories, measures) \in Nat
       /\ Total(EnteredCategories, excesses) \in Nat
       /\ PromisedTotal = Total(SpendCategories \ EnteredCategories, estimates)
                            + Total(EnteredCategories, measures)
  BY <1>10, <1>11, <1>12, <1>13, <1>14 DEF ScoredUpTo, PromisedTotal
<1>16. est = estimates
  BY <1>2, <1>5
<1>17. SpendBaseline(s).spend = est
  BY <1>1, SpendBaselineIs DEF BaselineUpTo, est
<1> HIDE DEF estimates, measures, excesses
<1>18. /\ PromisedTotal \in Nat
       /\ PromisedTotal = 0 =>
            Total(SpendCategories \ EnteredCategories, estimates) = 0
  BY <1>15
<1>19. QED
  BY <1>2, <1>15, <1>16, <1>17, <1>18 DEF estimates, excesses, s

\* Estimates that come to zero but leave a trace are of several entered categories.
LEMMA TracesAreOfEntered ==
  ASSUME WorkspaceTypeOK, WellFormed(Payload), NEW trace \in Traces(Payload), trace,
         PromisedTotal = 0
  PROVE  \E c, d \in EnteredCategories :
           c # d /\ Estimate(c) > 0 /\ Estimate(d) > 0
<1> DEFINE estimates == [c \in SpendCategories |-> Estimate(c)]
           open == SpendCategories \ EnteredCategories
           spend == SpendBaseline(Payload.spendEntries).spend
<1>1. /\ Total(open, estimates) = 0 /\ estimates \in [SpendCategories -> Nat]
      /\ spend = estimates
  BY PayloadScored
<1> HIDE DEF spend
<1>2. \E c, d \in SpendCategories : c # d /\ spend[c] > 0 /\ spend[d] > 0
  BY Zenon DEF Traces, spend
<1>3. PICK c, d \in SpendCategories : c # d /\ spend[c] > 0 /\ spend[d] > 0
  BY <1>2
<1>4. ASSUME NEW e \in open PROVE ~ (estimates[e] > 0)
  <2>1. IsFiniteSet(open) /\ \A y \in open : estimates[y] \in Nat
    BY <1>1, LcaAssumption, FS_Difference
  <2> HIDE DEF estimates, open
  <2>2. estimates[e] <= Total(open, estimates)
    BY <1>4, <2>1, TotalBounds
  <2>3. QED
    BY <1>1, <1>4, <2>1, <2>2
<1>5. \A e \in SpendCategories : estimates[e] > 0 => e \in EnteredCategories
  BY <1>4
<1>6. c \in EnteredCategories /\ d \in EnteredCategories
  BY <1>1, <1>3, <1>5
<1>7. Estimate(c) > 0 /\ Estimate(d) > 0
  BY <1>1, <1>3
<1>8. QED
  BY <1>3, <1>6, <1>7

LEMMA PayloadIsScored ==
  WorkspaceTypeOK => ScoreAsPromised
<1>1. SUFFICES ASSUME WorkspaceTypeOK, WellFormed(Payload),
                      NEW trace \in Traces(Payload)
      PROVE  LET score == Score(Payload, 0, trace)
             IN  /\ score.source.overriddenCategories = EnteredCategories
                 /\ \/ score.footprint.totalEmissions
                          = RoundTo(IF PromisedTotal = 0 THEN Kg ELSE PromisedTotal, 1)
                    \/ /\ PromisedTotal = 0
                       /\ score.footprint.totalEmissions = 0
                       /\ \E c, d \in EnteredCategories :
                            c # d /\ Estimate(c) > 0 /\ Estimate(d) > 0
                 /\ score.footprint.baseReduction
                      = RoundTo(Total(EnteredCategories,
                                      [c \in EnteredCategories |-> Below(c)]), 1)
                 /\ score.source.dataSourceKind = "hybrid" =>
                      rows # << >> /\ EnteredCategories # {}
  BY DEF ScoreAsPromised
<1> DEFINE sum == ScoredSums(Payload.spendEntries, entries)
           current == IF sum.total <= 0 /\ ~trace THEN Kg ELSE sum.total
           score == Score(Payload, 0, trace)
           saved == Total(EnteredCategories, [c \in EnteredCategories |-> Below(c)])
<1>2. /\ Payload.spendEntries \in Seq(SpendEntries)
      /\ Len(Payload.spendEntries) = Len(rows) /\ Len(rows) \in Nat
      /\ Payload.activityEntries = entries /\ entries \in Seq(Activities)
  BY <1>1, PayloadTyped
<1>3. score.footprint.totalEmissions = RoundTo(current, 1)
      /\ score.footprint.baseReduction = RoundTo(sum.reduction, 1)
  <2>1. CalculateFootprint(Payload, 0, trace)
          = [totalEmissions |-> RoundTo(current, 1),
             baseReduction  |-> RoundTo(sum.reduction, 1),
             finalRewards   |-> FinalRewards(sum.reduction, current, 0)]
    BY <1>2, FootprintIs
  <2> HIDE DEF current, sum
  <2>2. QED
    BY <2>1 DEF Score
<1>4. score.source.overriddenCategories = EnteredCategories
  BY <1>2 DEF Score, SourceSummary, CategoriesOf, EnteredCategories
<1>5. sum.total = PromisedTotal /\ sum.reduction = saved /\ PromisedTotal \in Nat
  BY <1>1, PayloadScored
<1>6. \/ current = IF PromisedTotal = 0 THEN Kg ELSE PromisedTotal
      \/ trace /\ PromisedTotal = 0 /\ current = 0
  <2>1. CASE trace
    <3>1. current = PromisedTotal
      BY <1>5, <2>1
    <3> HIDE DEF current
    <3>2. QED
      BY <2>1, <3>1
  <2>2. CASE ~trace
    <3>1. current = IF sum.total <= 0 THEN Kg ELSE sum.total
      BY <2>2
    <3> HIDE DEF current, sum
    <3>2. QED
      BY <1>5, <3>1
  <2>3. QED
    BY <2>1, <2>2
<1>7. ASSUME score.source.dataSourceKind = "hybrid"
      PROVE  rows # << >> /\ EnteredCategories # {}
  <2>1. entries # << >> /\ Payload.spendEntries # << >>
    BY <1>2, <1>7 DEF Score, SourceSummary, DeriveDataSourceKind
  <2>2. rows # << >>
    <3>1. Len(Payload.spendEntries) # 0
      BY <1>2, <2>1, EmptySeq
    <3>2. QED
      BY <1>2, <3>1, EmptySeq
  <2>3. Len(entries) # 0 /\ Len(entries) \in Nat /\ DOMAIN entries = 1 .. Len(entries)
    BY <1>2, <2>1, EmptySeq, LenProperties
  <2>4. 1 \in DOMAIN entries
    BY <2>3
  <2>5. QED
    BY <2>2, <2>4 DEF EnteredCategories
<1> HIDE DEF saved, current, sum, score
<1>8. score.footprint.baseReduction = RoundTo(saved, 1)
  BY <1>3, <1>5
<1>9. \/ score.footprint.totalEmissions
           = RoundTo(IF PromisedTotal = 0 THEN Kg ELSE PromisedTotal, 1)
      \/ trace /\ PromisedTotal = 0 /\ score.footprint.totalEmissions = 0
  BY <1>3, <1>6, ZeroIsRound
<1>10. trace /\ PromisedTotal = 0 =>
         \E c, d \in EnteredCategories :
           c # d /\ Estimate(c) > 0 /\ Estimate(d) > 0
  BY <1>1, TracesAreOfEntered
<1>11. QED
  BY <1>4, <1>7, <1>8, <1>9, <1>10 DEF saved, score

\* A payload the backend takes is scored as the candidates of the categories that
\* were not entered and the values entered, in whatever order, and nothing as a
\* kilogram; nothing may be scored as nothing only where the candidates of several
\* categories were overridden, which floating-point sums may not cancel.
THEOREM PayloadScoredAsPromised == WorkspaceSpec => []ScoreAsPromised
<1>1. WorkspaceInv => ScoreAsPromised
  BY PayloadIsScored DEF WorkspaceInv
<1>2. QED
  BY <1>1, WorkspaceSafe, PTL

\* Only adding an entry makes the entries more.
LEMMA OnlyAddingAdds ==
  ASSUME WorkspaceTypeOK, WorkspaceNext, Len(entries') > Len(entries)
  PROVE  \E c \in ActivityCategories, n \in Amounts : AddActivityEntry(c, n)
<1>1. Len(entries) \in Nat
  BY LenProperties DEF WorkspaceTypeOK
<1>2. ~ (entries' = entries)
  BY <1>1
<1>3. CASE ReloadWorkspace
  <2>1. Len(entries') = 0
    BY <1>3, EmptySeq DEF ReloadWorkspace
  <2>2. QED
    BY <1>1, <2>1
<1>4. QED
  BY <1>2, <1>3
     DEF WorkspaceNext, DismissChooser, HandleFileUpload, ReviewArtifact,
         ReviewFails, ReviewEnds, RemoveReviewRow, UpdateReviewRow

\* The sums of a payload, in this state and in the next
PromiseHolds ==
  WorkspaceTypeOK /\ WellFormed(Payload) =>
    ScoredSums(Payload.spendEntries, entries).total = PromisedTotal

LEMMA PromiseAlwaysHolds == PromiseHolds
BY PayloadScored DEF PromiseHolds

\* A further entry of a category cannot raise a reward.
LEMMA LaterEntriesDoNotPay ==
  ASSUME WorkspaceTypeOK, WorkspaceTypeOK', [WorkspaceNext]_workspaceVars,
         PromiseHolds, PromiseHolds', Len(entries') > Len(entries),
         entries'[Len(entries')].category \in EnteredCategories,
         WellFormed(Payload'),
         ~(PromisedTotal = 0 /\ PromisedTotal' \in 1 .. Kg - 1),
         NEW b \in Baselines, NEW trace \in Traces(Payload)
  PROVE  Score(Payload', b, trace).footprint.finalRewards
           <= Score(Payload, b, trace).footprint.finalRewards
<1>1. Len(entries) \in Nat /\ DOMAIN entries = 1 .. Len(entries)
      /\ entries \in Seq(ActivityEntries)
  BY LenProperties DEF WorkspaceTypeOK
<1>2. PICK c \in ActivityCategories, n \in Amounts : AddActivityEntry(c, n)
  <2>1. WorkspaceNext
    BY <1>1 DEF workspaceVars
  <2>2. QED
    BY <2>1, OnlyAddingAdds
<1> DEFINE q == ActivityEntry(c, n)
<1>3. rows' = rows /\ entries' = Append(entries, q)
  BY <1>2 DEF AddActivityEntry
<1>4. q \in ActivityEntries
  BY WorkspaceAssumption DEF ActivityEntry, ActivityEntries
<1> HIDE DEF q
<1>5. /\ Len(entries') = Len(entries) + 1
      /\ DOMAIN entries' = 1 .. Len(entries) + 1
      /\ \A i \in 1 .. Len(entries) : entries'[i] = entries[i]
      /\ entries'[Len(entries) + 1] = q
  <2>1. entries' \in Seq(ActivityEntries)
    BY DEF WorkspaceTypeOK
  <2>2. QED
    BY <1>1, <1>3, <1>4, <2>1, AppendProperties, LenProperties
\* The payload before is one the backend takes too.
<1>6. Payload'.spendEntries = Payload.spendEntries /\ Payload'.activityEntries = entries'
  BY <1>3 DEF Payload
<1>7. WellFormed(Payload)
  <2>1. Payload.activityEntries = entries
    BY DEF Payload
  <2>2. \A i \in 1 .. Len(entries) : i \in 1 .. Len(entries) + 1
    BY <1>1
  <2>3. QED
    BY <1>1, <1>5, <1>6, <2>1, <2>2 DEF WellFormed
<1>8. /\ Payload.spendEntries \in Seq(SpendEntries)
      /\ Payload.activityEntries = entries /\ entries \in Seq(Activities)
  BY <1>7, PayloadTyped
<1>9. q \in Activities
  <2>1. Len(entries) + 1 \in DOMAIN entries'
    BY <1>1, <1>5
  <2>2. q.category \in ActivityCategories /\ q.value >= 0
    BY <1>5, <1>6, <2>1 DEF WellFormed
  <2>3. PICK d \in ActivityCategories, v \in Int :
          q = [category |-> d, value |-> v, isRenewable |-> FALSE]
    BY <1>4 DEF ActivityEntries
  <2>4. QED
    BY <2>2, <2>3 DEF Activities
<1>10. q.category \in Entered(entries, Len(entries))
  <2>1. Entered(entries, Len(entries)) = EnteredCategories
    BY <1>1 DEF Entered, EnteredCategories
  <2>2. QED
    BY <1>5, <2>1
<1>11. b \in Nat
  BY WorkspaceAssumption
<1> DEFINE p == Payload
           p2 == Payload'
<1>12. /\ p2.spendEntries = p.spendEntries
       /\ p2.activityEntries = Append(entries, q)
       /\ p.activityEntries = entries
       /\ p.spendEntries \in Seq(SpendEntries)
  BY <1>3, <1>6, <1>8
<1>13. ~ (/\ ScoredSums(p.spendEntries, entries).total = 0
          /\ ScoredSums(p.spendEntries, Append(entries, q)).total \in 1 .. Kg - 1)
  <2>1. ScoredSums(p.spendEntries, entries).total = PromisedTotal
    BY <1>7 DEF PromiseHolds
  <2>2. ScoredSums(p2.spendEntries, entries').total = PromisedTotal'
    BY DEF PromiseHolds
  <2>3. QED
    BY <1>3, <1>12, <2>1, <2>2
<1>14. trace \in BOOLEAN
  BY DEF Traces
<1> HIDE DEF p, p2
<1>15. CalculateFootprint(p2, b, trace).finalRewards
         <= CalculateFootprint(p, b, trace).finalRewards
  BY <1>8, <1>9, <1>10, <1>11, <1>12, <1>13, <1>14, SecondEntryPaysNothing
<1>16. QED
  BY <1>15 DEF Score, p, p2

\* A further entry of a category that is entered raises no reward, unless a total of
\* zero, which is scored as a kilogram, comes to less than a kilogram with it.
THEOREM FirstEntryPays == WorkspaceSpec => OnlyFirstEntryPays
<1>1. WorkspaceInv /\ WorkspaceInv' /\ [WorkspaceNext]_workspaceVars
        /\ PromiseHolds /\ PromiseHolds' =>
        [/\ Len(entries') > Len(entries)
         /\ entries'[Len(entries')].category \in EnteredCategories
         /\ WellFormed(Payload')
         /\ ~(PromisedTotal = 0 /\ PromisedTotal' \in 1 .. Kg - 1)
         => \A b \in Baselines, trace \in Traces(Payload) :
              Score(Payload', b, trace).footprint.finalRewards
                <= Score(Payload, b, trace).footprint.finalRewards]_workspaceVars
  BY LaterEntriesDoNotPay DEF WorkspaceInv
<1>2. QED
  BY <1>1, PromiseAlwaysHolds, WorkspaceSafe, PTL
  DEF WorkspaceSpec, OnlyFirstEntryPays

-----------------------------------------------------------------------------
\* The wallet flow

\* The account p may become q: registration and token stay.
Knows(p, q) ==
  /\ p.isRegistered => q.isRegistered
  /\ p.hasMintedSbt => q.hasMintedSbt

\* The account p, which counts n footprints, may become q, which counts m: the
\* reward falls unless a footprint is counted.
Later(p, n, q, m) ==
  /\ Knows(p, q)
  /\ n <= m
  /\ n = m => q.pendingRewardLamports <= p.pendingRewardLamports

\* The transaction of an action is confirmed.
Sent == {"wait", "missed", "answered"}

\* The name of the pending action a of a tab fits where it is, and the account p.
NameFits(a, p) ==
  /\ a.pc # "none" => a.name \in Actions
  /\ a.pc = "read" => a.name = "claim"
  /\ a.pc # "none" /\ a.name \in {"mint", "claim"} => p.isRegistered
  /\ a.pc # "none" /\ a.name = "claim" => p.hasMintedSbt
  /\ a.name = "mint" /\ a.pc \in Sent => p.hasMintedSbt /\ a.pc # "missed"

\* What a claim remembers fits the account p, which counts n footprints.
ClaimFits(a, p, n) ==
  a.name = "claim" =>
    /\ a.pc \in Sent \cup {"send"} => a.earned <= n
    /\ a.pc = "send" /\ a.earned = n => p.pendingRewardLamports <= a.before
    /\ a.pc \in Sent /\ a.earned = n =>
         p.pendingRewardLamports = 0 /\ a.before > 0 /\ a.pc # "missed"

\* The answer of a poll is of an earlier account, and what was waited for.
AnswerFits(a, p) ==
  /\ Knows(a.seen, p)
  /\ a.pc = "answered" =>
       /\ a.seen.isRegistered
       /\ a.name \in {"mint", "claim"} => a.seen.hasMintedSbt

ActionFits(a, p, n) == NameFits(a, p) /\ ClaimFits(a, p, n) /\ AnswerFits(a, p)

ActionRecords ==
  [name : Actions \cup {"none"}, pc : Pcs, input : Aliases \cup {NoAlias},
   before : 0 .. MaxFootprints, earned : 0 .. MaxFootprints, seen : Snapshots,
   overtaken : BOOLEAN]
TabRecords ==
  [connected : BOOLEAN, load : Loads, seen : Snapshots,
   shown : Snapshots \cup {NoSnapshot}, action : ActionRecords]

\* All that a tab remembers, against the account p, which counts n footprints; what
\* it shows is older than the answer of its poll, unless that was overtaken.
TabFits(q, p, n) ==
  /\ Knows(q.seen, p)
  /\ q.shown # NoSnapshot => Knows(q.shown, p)
  /\ ActionFits(q.action, p, n)
  /\ q.action.pc = "answered" /\ ~q.action.overtaken /\ q.shown # NoSnapshot =>
       Knows(q.shown, q.action.seen)

\* Rewards are of footprints counted, which are of submissions accepted, and
\* tokens of registered wallets.
ProfileFits ==
  /\ profile.pendingRewardLamports <= counted
  /\ counted <= accepted
  /\ profile.hasMintedSbt => profile.isRegistered

\* The tabs whose claim was paid and is not announced yet.
AwaitsClaim(q) == q.action.pc \in Sent /\ q.action.name = "claim"
Unannounced == {t \in Tabs : AwaitsClaim(tab[t])}

\* Each of them accounts for a claim of its own that was paid.
ClaimsCounted ==
  /\ IsFiniteSet(Unannounced)
  /\ announced + Cardinality(Unannounced) <= paid

\* The inductive invariant.
WalletInv ==
  /\ WalletTypeOK
  /\ ProfileFits
  /\ \A t \in Tabs : TabFits(tab[t], profile, counted)
  /\ ClaimsCounted

\* A claim counts until it is announced.
Weight(q) == IF AwaitsClaim(q) THEN 1 ELSE 0

-----------------------------------------------------------------------------
LEMMA UnregisteredTyped ==
  Unregistered \in Snapshots /\ NoAction \in ActionRecords /\ Opened \in TabRecords
<1>1. 0 \in 0 .. MaxFootprints
  BY WalletAssumption
<1>2. Unregistered \in Snapshots
  BY <1>1 DEF Unregistered, Snapshots
<1>3. NoAction \in ActionRecords
  BY <1>1, <1>2 DEF NoAction, ActionRecords, Pcs
<1>4. QED
  BY <1>2, <1>3 DEF Opened, TabRecords, Loads

\* The records of the invariant are those of the type invariant.
LEMMA WalletTypes ==
  ASSUME WalletInv
  PROVE  /\ profile \in Snapshots
         /\ profile.pendingRewardLamports \in Nat
         /\ counted \in 0 .. MaxFootprints /\ accepted \in 0 .. MaxFootprints
         /\ tab \in [Tabs -> TabRecords]
         /\ announced \in Nat /\ paid \in Nat
         /\ ProfileFits
         /\ \A t \in Tabs : /\ tab[t] \in TabRecords
                            /\ tab[t].action \in ActionRecords
                            /\ TabFits(tab[t], profile, counted)
                            /\ ActionFits(tab[t].action, profile, counted)
<1>1. /\ profile \in Snapshots
      /\ counted \in 0 .. MaxFootprints /\ accepted \in 0 .. MaxFootprints
      /\ announced \in Nat /\ paid \in Nat
      /\ ProfileFits
      /\ \A t \in Tabs : TabFits(tab[t], profile, counted)
  BY DEF WalletInv, WalletTypeOK
<1>2. tab \in [Tabs -> TabRecords]
  BY DEF WalletInv, WalletTypeOK, TabRecords, ActionRecords
<1>3. profile.pendingRewardLamports \in Nat
  BY <1>1 DEF Snapshots
<1>4. \A t \in Tabs : tab[t] \in TabRecords /\ tab[t].action \in ActionRecords
  BY <1>2 DEF TabRecords
<1>5. \A t \in Tabs : ActionFits(tab[t].action, profile, counted)
  BY <1>1, Zenon DEF TabFits
<1>6. QED
  BY <1>1, <1>2, <1>3, <1>4, <1>5

\* What a tab remembers stays true of an account that moves on.
LEMMA LaterKeepsFits ==
  ASSUME NEW p \in Snapshots, NEW q \in Snapshots, NEW n \in Nat, NEW m \in Nat,
         Later(p, n, q, m), NEW r \in TabRecords, TabFits(r, p, n)
  PROVE  TabFits(r, q, m)
<1>1. Knows(r.seen, q) /\ (r.shown # NoSnapshot => Knows(r.shown, q))
  BY DEF TabFits, Knows, Later
<1>2. /\ r.action.earned \in Nat /\ r.action.before \in Nat
      /\ p.pendingRewardLamports \in Nat /\ q.pendingRewardLamports \in Nat
  BY DEF TabRecords, ActionRecords, Snapshots
<1>3. NameFits(r.action, q) /\ AnswerFits(r.action, q)
  BY DEF TabFits, ActionFits, NameFits, AnswerFits, Later, Knows
<1>4. ClaimFits(r.action, q, m)
  BY <1>2 DEF TabFits, ActionFits, ClaimFits, Later
<1>5. QED
  BY <1>1, <1>3, <1>4 DEF TabFits, ActionFits

\* One tab takes a step to r, and the account moves on.
LEMMA TabMoves ==
  ASSUME WalletInv, NEW t \in Tabs, NEW r \in TabRecords,
         tab' = [tab EXCEPT ![t] = r], counted' \in Nat,
         profile' \in Snapshots, Later(profile, counted, profile', counted'),
         TabFits(r, profile', counted')
  PROVE  /\ tab' \in [Tabs -> TabRecords]
         /\ \A s \in Tabs : TabFits(tab'[s], profile', counted')
<1>1. /\ tab \in [Tabs -> TabRecords] /\ profile \in Snapshots /\ counted \in Nat
      /\ \A s \in Tabs : tab[s] \in TabRecords /\ TabFits(tab[s], profile, counted)
  BY WalletTypes
<1>2. tab' \in [Tabs -> TabRecords]
  BY <1>1
<1>3. \A s \in Tabs : tab'[s] = IF s = t THEN r ELSE tab[s]
  BY <1>1
<1>4. \A s \in Tabs \ {t} : TabFits(tab[s], profile', counted')
  BY <1>1, LaterKeepsFits
<1>5. QED
  BY <1>2, <1>3, <1>4

\* One tab takes a step to r: the claims to announce change by its own.
LEMMA UnannouncedMoves ==
  ASSUME WalletInv, NEW t \in Tabs, NEW r \in TabRecords,
         tab' = [tab EXCEPT ![t] = r]
  PROVE  /\ IsFiniteSet(Unannounced')
         /\ Cardinality(Unannounced') =
              Cardinality(Unannounced) - Weight(tab[t]) + Weight(r)
         /\ Cardinality(Unannounced) \in Nat
<1>1. tab \in [Tabs -> TabRecords] /\ IsFiniteSet(Unannounced)
  BY WalletTypes DEF WalletInv, ClaimsCounted
<1>2. \A s \in Tabs : tab'[s] = IF s = t THEN r ELSE tab[s]
  BY <1>1
<1>3. Cardinality(Unannounced) \in Nat
  BY <1>1, FS_CardinalityType
<1>4. t \in Unannounced <=> AwaitsClaim(tab[t])
  BY DEF Unannounced
<1>5. CASE AwaitsClaim(r)
  <2>1. Unannounced' = Unannounced \cup {t}
    BY <1>2, <1>5 DEF Unannounced, AwaitsClaim
  <2>2. QED
    BY <1>1, <1>3, <1>4, <1>5, <2>1, FS_AddElement DEF Weight
<1>6. CASE ~AwaitsClaim(r)
  <2>1. Unannounced' = Unannounced \ {t}
    BY <1>2, <1>6 DEF Unannounced, AwaitsClaim
  <2>2. QED
    BY <1>1, <1>3, <1>4, <1>6, <2>1, FS_RemoveElement DEF Weight
<1>7. QED
  BY <1>5, <1>6

\* A transaction of tab t lands: the account moves on, and the action that then
\* waits fits it; a claim that lands is paid.
LEMMA LandsMoves ==
  ASSUME WalletInv, NEW t \in Tabs, tab[t].action.pc = "send", Lands(t)
  PROVE  /\ profile' \in Snapshots /\ Later(profile, counted, profile', counted)
         /\ profile'.pendingRewardLamports <= counted
         /\ profile'.hasMintedSbt => profile'.isRegistered
         /\ ActionFits([tab[t].action EXCEPT !.pc = "wait"], profile', counted)
         /\ paid' = IF tab[t].action.name = "claim" THEN paid + 1 ELSE paid
<1> DEFINE a == tab[t].action
           b == [a EXCEPT !.pc = "wait"]
<1>1. /\ a \in ActionRecords /\ ActionFits(a, profile, counted)
      /\ profile \in Snapshots /\ ProfileFits
      /\ profile.pendingRewardLamports \in Nat /\ counted \in Nat
  BY WalletTypes
<1>2. a.name \in Actions
  BY <1>1 DEF ActionFits, NameFits
<1>3. 0 \in 0 .. MaxFootprints
  BY WalletAssumption
<1>4. a.before \in Nat /\ a.earned \in Nat /\ a.input \in Aliases \cup {NoAlias}
  BY <1>1 DEF ActionRecords
<1>5. profile' = Executed(a) /\ Accepts(a.name)
  BY DEF Lands
<1>6. /\ b.pc = "wait" /\ b.name = a.name /\ b.seen = a.seen
      /\ b.earned = a.earned /\ b.before = a.before
  BY <1>1 DEF ActionRecords
<1>7. ASSUME profile' \in Snapshots, Knows(profile, profile'),
             profile'.hasMintedSbt => profile'.isRegistered,
             profile'.pendingRewardLamports <= profile.pendingRewardLamports,
             a.name = "mint" => profile'.hasMintedSbt /\ profile'.isRegistered,
             a.name = "claim" => /\ profile'.pendingRewardLamports = 0
                                 /\ profile.pendingRewardLamports > 0
      PROVE  /\ Later(profile, counted, profile', counted)
             /\ profile'.pendingRewardLamports <= counted
             /\ ActionFits(b, profile', counted)
  <2>1. profile'.pendingRewardLamports \in Nat
    BY <1>7 DEF Snapshots
  <2>2. Later(profile, counted, profile', counted)
    BY <1>1, <1>7 DEF Later
  <2>3. NameFits(b, profile')
    BY <1>1, <1>2, <1>6, <1>7 DEF ActionFits, NameFits, Knows, Sent
  <2>4. ClaimFits(b, profile', counted)
    BY <1>1, <1>4, <1>6, <1>7 DEF ActionFits, ClaimFits, Sent
  <2>5. AnswerFits(b, profile')
    BY <1>1, <1>6, <1>7 DEF ActionFits, AnswerFits, Knows
  <2>6. QED
    BY <1>1, <1>7, <2>1, <2>2, <2>3, <2>4, <2>5 DEF ActionFits, ProfileFits
<1>8. CASE a.name = "mint"
  <2>1. profile' = [profile EXCEPT !.hasMintedSbt = TRUE] /\ profile.isRegistered
    BY <1>5, <1>8 DEF Executed, Accepts
  <2>2. /\ profile' \in Snapshots /\ profile'.hasMintedSbt /\ profile'.isRegistered
        /\ profile'.pendingRewardLamports = profile.pendingRewardLamports
    BY <1>1, <2>1 DEF Snapshots
  <2>3. QED
    BY <1>1, <1>7, <1>8, <2>2 DEF Lands, Knows
<1>9. CASE a.name = "claim"
  <2>1. /\ profile' = [profile EXCEPT !.pendingRewardLamports = 0]
        /\ profile.pendingRewardLamports > 0
    BY <1>5, <1>9 DEF Executed, Accepts
  <2>2. /\ profile' \in Snapshots /\ profile'.pendingRewardLamports = 0
        /\ profile'.hasMintedSbt = profile.hasMintedSbt
        /\ profile'.isRegistered = profile.isRegistered
    BY <1>1, <1>3, <2>1 DEF Snapshots
  <2>3. QED
    BY <1>1, <1>7, <1>9, <2>1, <2>2 DEF Lands, Knows, ProfileFits
<1>10. CASE a.name \in {"register", "update"}
  <2>1. profile' = [profile EXCEPT !.isRegistered = TRUE, !.publicProfile = a.input]
    BY <1>5, <1>10 DEF Executed
  <2>2. /\ profile' \in Snapshots /\ profile'.isRegistered
        /\ profile'.hasMintedSbt = profile.hasMintedSbt
        /\ profile'.pendingRewardLamports = profile.pendingRewardLamports
    BY <1>1, <1>4, <2>1 DEF Snapshots
  <2>3. QED
    BY <1>1, <1>7, <1>10, <2>2 DEF Lands, Knows
<1>11. QED
  BY <1>2, <1>8, <1>9, <1>10 DEF Actions

\* A step of tab t to r keeps the invariant if r fits the account and no claim is
\* announced or forgotten that was not paid.
LEMMA TabStepKeeps ==
  ASSUME WalletInv, NEW t \in Tabs, NEW r \in TabRecords,
         tab' = [tab EXCEPT ![t] = r], UNCHANGED <<counted, accepted>>,
         profile' \in Snapshots, Later(profile, counted, profile', counted),
         TabFits(r, profile', counted), ProfileFits',
         announced' \in Nat, paid' \in Nat,
         announced' - announced + Weight(r) - Weight(tab[t]) <= paid' - paid
  PROVE  WalletInv'
<1>1. counted \in Nat /\ announced \in Nat /\ paid \in Nat
  BY WalletTypes
<1>2. /\ tab' \in [Tabs -> TabRecords]
      /\ \A s \in Tabs : TabFits(tab'[s], profile', counted')
  BY <1>1, TabMoves
<1>3. WalletTypeOK'
  BY <1>2 DEF WalletInv, WalletTypeOK, TabRecords, ActionRecords
<1>4. ClaimsCounted'
  <2>1. announced + Cardinality(Unannounced) <= paid
    BY DEF WalletInv, ClaimsCounted
  <2>2. Weight(r) \in Int /\ Weight(tab[t]) \in Int
    BY DEF Weight
  <2>3. /\ IsFiniteSet(Unannounced')
        /\ Cardinality(Unannounced') =
             Cardinality(Unannounced) - Weight(tab[t]) + Weight(r)
        /\ Cardinality(Unannounced) \in Nat
    BY UnannouncedMoves
  <2>4. announced' + Cardinality(Unannounced') <= paid'
    BY <1>1, <2>1, <2>2, <2>3
  <2>5. QED
    BY <2>3, <2>4 DEF ClaimsCounted
<1>5. QED
  BY <1>2, <1>3, <1>4 DEF WalletInv

\* The same when the account, the claims and the counters are left alone.
LEMMA QuietStepKeeps ==
  ASSUME WalletInv, NEW t \in Tabs, NEW r \in TabRecords,
         tab' = [tab EXCEPT ![t] = r], TabFits(r, profile, counted),
         AwaitsClaim(r) => AwaitsClaim(tab[t]),
         UNCHANGED <<profile, counted, accepted, announced, paid>>
  PROVE  WalletInv'
<1>1. /\ profile \in Snapshots /\ announced \in Nat /\ paid \in Nat
      /\ profile.pendingRewardLamports \in Nat /\ counted \in Nat
      /\ ProfileFits
  BY WalletTypes
<1>2. Later(profile, counted, profile, counted)
  BY <1>1 DEF Later, Knows
<1>3. announced' - announced + Weight(r) - Weight(tab[t]) <= paid' - paid
  BY <1>1 DEF Weight
<1>4. ProfileFits'
  BY <1>1 DEF ProfileFits
<1>5. QED
  BY <1>1, <1>2, <1>3, <1>4, TabStepKeeps

\* A transaction that lands while its tab gives up waiting for it.
LEMMA LandsUnseen ==
  ASSUME WalletInv, NEW t \in Tabs, tab[t].action.pc = "send", Lands(t),
         NEW r \in TabRecords, tab' = [tab EXCEPT ![t] = r],
         TabFits(r, profile, counted), ~AwaitsClaim(r),
         UNCHANGED <<counted, accepted, announced>>
  PROVE  WalletInv'
<1>1. /\ announced \in Nat /\ paid \in Nat /\ profile \in Snapshots
      /\ counted \in Nat /\ ProfileFits
  BY WalletTypes
<1>2. /\ profile' \in Snapshots /\ Later(profile, counted, profile', counted)
      /\ profile'.pendingRewardLamports <= counted
      /\ profile'.hasMintedSbt => profile'.isRegistered
      /\ paid' = IF tab[t].action.name = "claim" THEN paid + 1 ELSE paid
  BY LandsMoves
<1>3. ProfileFits' /\ paid' \in Nat /\ paid <= paid'
  BY <1>1, <1>2 DEF ProfileFits
<1>4. TabFits(r, profile', counted)
  BY <1>1, <1>2, LaterKeepsFits
<1>5. Weight(r) = 0 /\ Weight(tab[t]) \in {0, 1}
  BY DEF Weight
<1>6. announced' \in Nat
      /\ announced' - announced + Weight(r) - Weight(tab[t]) <= paid' - paid
  BY <1>1, <1>3, <1>5
<1>7. QED
  BY <1>2, <1>3, <1>4, <1>6, TabStepKeeps

-----------------------------------------------------------------------------
LEMMA InitWallet == WalletInit => WalletInv
<1> SUFFICES ASSUME WalletInit PROVE WalletInv
  OBVIOUS
<1>1. 0 \in 0 .. MaxFootprints
  BY WalletAssumption
<1>2. WalletTypeOK
  BY <1>1, UnregisteredTyped
  DEF WalletInit, WalletTypeOK, TabRecords, ActionRecords
<1>3. ProfileFits
  BY DEF WalletInit, ProfileFits, Unregistered
<1>4. ASSUME NEW t \in Tabs
      PROVE  TabFits(tab[t], profile, counted) /\ ~AwaitsClaim(tab[t])
  BY DEF WalletInit, TabFits, Knows, ActionFits, NameFits, ClaimFits, AnswerFits,
         Opened, NoAction, Unregistered, AwaitsClaim, Sent
<1>5. Unannounced = {}
  BY <1>4 DEF Unannounced
<1>6. ClaimsCounted
  BY <1>5, FS_EmptySet DEF WalletInit, ClaimsCounted
<1>7. QED
  BY <1>2, <1>3, <1>4, <1>6 DEF WalletInv

\* An action a is asked for by a tab, or goes on, without a claim being confirmed.
LEMMA ActionMoves ==
  ASSUME WalletInv, NEW t \in Tabs, NEW a \in ActionRecords,
         tab' = [tab EXCEPT ![t].action = a],
         ActionFits(a, profile, counted), a.pc # "answered",
         a.pc \in Sent /\ a.name = "claim" => AwaitsClaim(tab[t]),
         UNCHANGED <<profile, counted, accepted, announced, paid>>
  PROVE  WalletInv'
<1> DEFINE r == [tab[t] EXCEPT !.action = a]
<1>1. tab[t] \in TabRecords /\ TabFits(tab[t], profile, counted)
  BY WalletTypes
<1>2. /\ r.action = a /\ r.seen = tab[t].seen /\ r.shown = tab[t].shown
      /\ r \in TabRecords
  BY <1>1 DEF TabRecords
<1>3. TabFits(r, profile, counted) /\ (AwaitsClaim(r) => AwaitsClaim(tab[t]))
  BY <1>1, <1>2 DEF TabFits, AwaitsClaim
<1>4. tab' = [tab EXCEPT ![t] = r]
  BY WalletTypes
<1> HIDE DEF r
<1>5. QED
  BY <1>2, <1>3, <1>4, QuietStepKeeps

\* The load on connecting changes what is loaded and shown; once it is shown, an
\* answer on its way is overtaken.
LEMMA LoadMoves ==
  ASSUME WalletInv, NEW t \in Tabs, NEW r \in TabRecords,
         tab' = [tab EXCEPT ![t] = r], Knows(r.seen, profile),
         r.shown # NoSnapshot => Knows(r.shown, profile),
         NEW o \in BOOLEAN, r.action = [tab[t].action EXCEPT !.overtaken = o],
         \/ o
         \/ tab[t].action.pc # "answered"
         \/ r.shown = NoSnapshot
         \/ r.shown = tab[t].shown /\ o = tab[t].action.overtaken,
         UNCHANGED <<profile, counted, accepted, announced, paid>>
  PROVE  WalletInv'
<1>1. /\ tab[t].action \in ActionRecords
      /\ TabFits(tab[t], profile, counted)
      /\ ActionFits(tab[t].action, profile, counted)
  BY WalletTypes
<1>2. /\ r.action.pc = tab[t].action.pc /\ r.action.name = tab[t].action.name
      /\ r.action.earned = tab[t].action.earned
      /\ r.action.before = tab[t].action.before
      /\ r.action.seen = tab[t].action.seen /\ r.action.overtaken = o
  BY <1>1 DEF ActionRecords
<1>3. ActionFits(r.action, profile, counted)
  BY <1>1, <1>2 DEF ActionFits, NameFits, ClaimFits, AnswerFits
<1>4. TabFits(r, profile, counted)
  BY <1>1, <1>2, <1>3 DEF TabFits
<1>5. AwaitsClaim(r) => AwaitsClaim(tab[t])
  BY <1>2 DEF AwaitsClaim
<1>6. QED
  BY <1>4, <1>5, QuietStepKeeps

LEMMA WalletPreserved == WalletInv /\ [WalletNext]_walletVars => WalletInv'
<1> SUFFICES ASSUME WalletInv, [WalletNext]_walletVars PROVE WalletInv'
  OBVIOUS
<1>1. /\ profile \in Snapshots /\ profile.pendingRewardLamports \in Nat
      /\ counted \in 0 .. MaxFootprints /\ accepted \in 0 .. MaxFootprints
      /\ counted \in Nat /\ tab \in [Tabs -> TabRecords]
      /\ announced \in Nat /\ paid \in Nat /\ ProfileFits
      /\ profile.pendingRewardLamports \in 0 .. MaxFootprints
      /\ Knows(profile, profile) /\ Later(profile, counted, profile, counted)
  BY WalletTypes DEF Snapshots, Knows, Later
<1>2. \A t \in Tabs : /\ tab[t] \in TabRecords /\ tab[t].action \in ActionRecords
                      /\ TabFits(tab[t], profile, counted)
                      /\ ActionFits(tab[t].action, profile, counted)
  BY WalletTypes
<1>3. /\ Unregistered \in Snapshots /\ NoAction \in ActionRecords
      /\ Opened \in TabRecords /\ NoAction.pc = "none"
      /\ NoAction.seen = Unregistered
      /\ Opened.seen = Unregistered /\ Opened.shown = NoSnapshot
      /\ Opened.action = NoAction /\ Knows(Unregistered, profile)
  BY UnregisteredTyped DEF Opened, Unregistered, Knows, NoAction
<1>4. /\ ActionFits(NoAction, profile, counted)
      /\ TabFits(Opened, profile, counted) /\ ~AwaitsClaim(Opened)
  BY <1>3 DEF TabFits, ActionFits, NameFits, ClaimFits, AnswerFits, AwaitsClaim, Sent
<1>5. ASSUME NEW t \in Tabs, NEW name \in Actions, NEW pc \in {"read", "send"},
             NEW input \in Aliases \cup {NoAlias},
             pc = "read" <=> name = "claim", StartAction(t, name, pc, input),
             name \in {"mint", "claim"} => profile.isRegistered,
             name = "claim" => profile.hasMintedSbt
      PROVE  WalletInv'
  <2> DEFINE a == [NoAction EXCEPT !.name = name, !.pc = pc, !.input = input]
  <2>1. /\ a \in ActionRecords /\ a.pc = pc /\ a.name = name
        /\ a.seen = Unregistered
    BY <1>3 DEF ActionRecords, Pcs, NoAction
  <2>2. ActionFits(a, profile, counted)
    BY <1>3, <1>5, <2>1 DEF ActionFits, NameFits, ClaimFits, AnswerFits, Sent
  <2>3. /\ tab' = [tab EXCEPT ![t].action = a]
        /\ UNCHANGED <<profile, counted, accepted, announced, paid>>
    BY <1>5 DEF StartAction
  <2> HIDE DEF a
  <2>4. QED
    BY <2>1, <2>2, <2>3, ActionMoves DEF Sent
<1>6. ASSUME NEW t \in Tabs, ConnectWallet(t) PROVE WalletInv'
  <2> DEFINE r == [tab[t] EXCEPT !.connected = TRUE, !.load = "asked"]
  <2>1. tab' = [tab EXCEPT ![t] = r]
    BY <1>1, <1>6 DEF ConnectWallet
  <2>2. /\ r \in TabRecords /\ r.action = tab[t].action
        /\ r.seen = tab[t].seen /\ r.shown = tab[t].shown
    BY <1>2 DEF Loads, TabRecords
  <2>3. TabFits(r, profile, counted) /\ (AwaitsClaim(r) => AwaitsClaim(tab[t]))
    BY <1>2, <2>2 DEF TabFits, AwaitsClaim
  <2> HIDE DEF r
  <2>4. QED
    BY <1>6, <2>1, <2>2, <2>3, QuietStepKeeps DEF ConnectWallet
<1>7. ASSUME NEW t \in Tabs, LoadSnapshot(t) PROVE WalletInv'
  <2> DEFINE r == [tab[t] EXCEPT !.load = "answered", !.seen = profile]
  <2>1. tab' = [tab EXCEPT ![t] = r]
    BY <1>1, <1>7 DEF LoadSnapshot
  <2>2. /\ r \in TabRecords /\ r.action = tab[t].action
        /\ r.seen = profile /\ r.shown = tab[t].shown
    BY <1>1, <1>2 DEF Loads, TabRecords
  <2>3. TabFits(r, profile, counted) /\ (AwaitsClaim(r) => AwaitsClaim(tab[t]))
    BY <1>1, <1>2, <2>2 DEF TabFits, AwaitsClaim
  <2> HIDE DEF r
  <2>4. QED
    BY <1>7, <2>1, <2>2, <2>3, QuietStepKeeps DEF LoadSnapshot
<1>8. ASSUME NEW t \in Tabs, ShowLoaded(t) PROVE WalletInv'
  <2> DEFINE o == tab[t].action.pc = "answered"
             b == [tab[t].action EXCEPT !.overtaken = o]
             r == [tab[t] EXCEPT !.load = "over", !.seen = Unregistered,
                                 !.shown = tab[t].seen, !.action = b]
  <2>1. tab' = [tab EXCEPT ![t] = r]
    BY <1>1, <1>2, <1>8 DEF ShowLoaded, TabRecords
  <2>2. b \in ActionRecords
    BY <1>2 DEF ActionRecords
  <2>3. /\ r \in TabRecords /\ r.action = b
        /\ r.seen = Unregistered /\ r.shown = tab[t].seen
    BY <1>2, <1>3, <2>2 DEF Loads, TabRecords
  <2>4. o \in BOOLEAN /\ (o \/ tab[t].action.pc # "answered")
    OBVIOUS
  <2>5. UNCHANGED <<profile, counted, accepted, announced, paid>>
    BY <1>8 DEF ShowLoaded
  <2>6. Knows(r.seen, profile) /\ Knows(r.shown, profile)
    BY <1>2, <1>3, <2>3 DEF TabFits
  <2>7. r.action = [tab[t].action EXCEPT !.overtaken = o]
    BY <2>3
  <2> HIDE DEF r, b, o
  <2>8. QED
    BY <2>1, <2>3, <2>4, <2>5, <2>6, <2>7, LoadMoves
<1>9. ASSUME NEW t \in Tabs, LoadFails(t) PROVE WalletInv'
  <2> DEFINE r == [tab[t] EXCEPT !.load = "over", !.seen = Unregistered,
                                 !.shown = NoSnapshot]
  <2>1. tab' = [tab EXCEPT ![t] = r]
    BY <1>1, <1>9 DEF LoadFails
  <2>2. /\ r \in TabRecords /\ r.action = tab[t].action
        /\ r.seen = Unregistered /\ r.shown = NoSnapshot
    BY <1>2, <1>3 DEF Loads, TabRecords
  <2>3. TabFits(r, profile, counted) /\ (AwaitsClaim(r) => AwaitsClaim(tab[t]))
    BY <1>2, <1>3, <2>2 DEF TabFits, AwaitsClaim
  <2> HIDE DEF r
  <2>4. QED
    BY <1>9, <2>1, <2>2, <2>3, QuietStepKeeps DEF LoadFails
<1>10. ASSUME NEW t \in Tabs, IsRegistered(t) PROVE profile.isRegistered
  BY <1>2, <1>10 DEF IsRegistered, TabFits, Knows
<1>11. ASSUME NEW t \in Tabs, MintUserSbt(t) PROVE WalletInv'
  BY <1>5, <1>10, <1>11 DEF MintUserSbt, CanMintSbt, Actions
<1>12. ASSUME NEW t \in Tabs, ClaimReward(t) PROVE WalletInv'
  <2>1. profile.isRegistered /\ profile.hasMintedSbt
    BY <1>2, <1>10, <1>12
    DEF ClaimReward, CanClaimRewards, IsRegistered, TabFits, Knows
  <2>2. QED
    BY <1>5, <1>12, <2>1 DEF ClaimReward, Actions
<1>13. ASSUME NEW t \in Tabs, NEW input \in Aliases, SavePublicProfile(t, input)
       PROVE  WalletInv'
  <2>1. CASE IsRegistered(t)
    BY <1>5, <1>13, <2>1 DEF SavePublicProfile, Actions
  <2>2. CASE ~IsRegistered(t)
    BY <1>5, <1>13, <2>2 DEF SavePublicProfile, Actions
  <2>3. QED
    BY <2>1, <2>2
<1>14. ASSUME NEW t \in Tabs, ReadBeforeClaim(t) PROVE WalletInv'
  <2> DEFINE a == [tab[t].action EXCEPT !.pc = "send",
                     !.before = profile.pendingRewardLamports, !.earned = counted]
  <2>1. /\ tab[t].action.pc = "read" /\ tab[t].action.name = "claim"
        /\ UNCHANGED <<profile, counted, accepted, announced, paid>>
    BY <1>2, <1>14 DEF ReadBeforeClaim, ActionFits, NameFits
  <2>2. tab' = [tab EXCEPT ![t].action = a]
    BY <1>1, <1>2, <1>14 DEF ReadBeforeClaim, TabRecords, ActionRecords
  <2>3. /\ a \in ActionRecords /\ a.pc = "send" /\ a.name = "claim"
        /\ a.earned = counted /\ a.before = profile.pendingRewardLamports
        /\ a.seen = tab[t].action.seen
    BY <1>1, <1>2, <2>1 DEF ActionRecords, Pcs
  <2>4. ActionFits(a, profile, counted)
    BY <1>1, <1>2, <2>1, <2>3
    DEF ActionFits, NameFits, ClaimFits, AnswerFits, Actions, Sent
  <2> HIDE DEF a
  <2>5. QED
    BY <2>1, <2>2, <2>3, <2>4, ActionMoves DEF Sent
<1>15. ASSUME NEW t \in Tabs, SendTransaction(t), Lands(t),
              tab' = [tab EXCEPT ![t].action.pc = "wait"]
       PROVE  WalletInv'
  <2> DEFINE a == [tab[t].action EXCEPT !.pc = "wait"]
             r == [tab[t] EXCEPT !.action = a]
  <2>1. tab' = [tab EXCEPT ![t] = r]
    BY <1>1, <1>2, <1>15 DEF TabRecords, ActionRecords
  <2>2. a \in ActionRecords /\ a.name = tab[t].action.name /\ a.pc = "wait"
    BY <1>2 DEF ActionRecords, Pcs
  <2>3. /\ profile' \in Snapshots /\ Later(profile, counted, profile', counted)
        /\ profile'.pendingRewardLamports <= counted
        /\ profile'.hasMintedSbt => profile'.isRegistered
        /\ ActionFits(a, profile', counted)
        /\ paid' = IF tab[t].action.name = "claim" THEN paid + 1 ELSE paid
    BY <1>15, LandsMoves DEF SendTransaction
  <2>4. TabFits(tab[t], profile', counted)
    BY <1>1, <1>2, <2>3, LaterKeepsFits
  <2>5. /\ r \in TabRecords /\ r.action = a
        /\ r.seen = tab[t].seen /\ r.shown = tab[t].shown
    BY <1>2, <2>2 DEF TabRecords
  <2>6. TabFits(r, profile', counted)
    BY <2>2, <2>3, <2>4, <2>5 DEF TabFits
  <2>7. /\ Weight(tab[t]) = 0
        /\ Weight(r) = IF tab[t].action.name = "claim" THEN 1 ELSE 0
    BY <1>15, <2>2, <2>5 DEF Weight, AwaitsClaim, SendTransaction, Sent
  <2>8. /\ UNCHANGED <<counted, accepted, announced>>
        /\ paid' \in Nat
        /\ announced' - announced + Weight(r) - Weight(tab[t]) <= paid' - paid
        /\ ProfileFits'
    BY <1>1, <1>15, <2>3, <2>7 DEF SendTransaction, ProfileFits
  <2> HIDE DEF r, a
  <2>9. QED
    BY <1>1, <2>1, <2>3, <2>5, <2>6, <2>8, TabStepKeeps
<1>16. ASSUME NEW t \in Tabs, tab' = EndsInError(t),
              UNCHANGED <<profile, counted, accepted, announced, paid>>
       PROVE  WalletInv'
  <2>1. tab' = [tab EXCEPT ![t].action = NoAction]
    BY <1>16 DEF EndsInError
  <2>2. QED
    BY <1>3, <1>4, <1>16, <2>1, ActionMoves DEF Sent
<1>17. ASSUME NEW t \in Tabs, SendTransaction(t) PROVE WalletInv'
  BY <1>15, <1>16, <1>17 DEF SendTransaction, RefusedByProgram
<1>18. ASSUME NEW t \in Tabs, PollSnapshot(t), Awaited(profile, tab[t].action),
              tab' = [tab EXCEPT ![t].action.pc = "answered",
                                 ![t].action.seen = profile]
       PROVE  WalletInv'
  <2> DEFINE a == [tab[t].action EXCEPT !.pc = "answered", !.seen = profile]
             r == [tab[t] EXCEPT !.action = a]
  <2>1. tab' = [tab EXCEPT ![t] = r]
    BY <1>1, <1>2, <1>18 DEF TabRecords, ActionRecords
  <2>2. /\ a \in ActionRecords /\ a.pc = "answered" /\ a.seen = profile
        /\ a.name = tab[t].action.name /\ a.earned = tab[t].action.earned
        /\ a.before = tab[t].action.before
    BY <1>1, <1>2 DEF ActionRecords, Pcs
  <2>3. /\ r \in TabRecords /\ r.action = a
        /\ r.seen = tab[t].seen /\ r.shown = tab[t].shown
    BY <1>2, <2>2 DEF TabRecords
  <2>4. tab[t].action.pc \in {"wait", "missed"}
    BY <1>18 DEF PollSnapshot
  <2>5. NameFits(a, profile)
    BY <1>2, <2>2, <2>4 DEF ActionFits, NameFits, Sent
  <2>6. ClaimFits(a, profile, counted)
    BY <1>2, <2>2, <2>4 DEF ActionFits, ClaimFits, Sent
  <2>7. AnswerFits(a, profile)
    <3>1. a.name \in Actions
      BY <2>2, <2>5 DEF NameFits
    <3>2. a.name \in {"register", "update"} => profile.isRegistered
      BY <1>18, <2>2 DEF Awaited
    <3>3. QED
      BY <1>1, <2>2, <2>5, <3>1, <3>2 DEF AnswerFits, NameFits, Actions, Sent
  <2>8. TabFits(r, profile, counted) /\ (AwaitsClaim(r) => AwaitsClaim(tab[t]))
    BY <1>2, <2>2, <2>3, <2>4, <2>5, <2>6, <2>7
    DEF TabFits, ActionFits, AwaitsClaim, Sent
  <2> HIDE DEF r, a
  <2>9. QED
    BY <1>18, <2>1, <2>3, <2>8, QuietStepKeeps DEF PollSnapshot
<1>19. ASSUME NEW t \in Tabs, PollSnapshot(t), ~Awaited(profile, tab[t].action),
              tab' = [tab EXCEPT ![t].action.pc = "missed"]
       PROVE  WalletInv'
  <2> DEFINE a == [tab[t].action EXCEPT !.pc = "missed"]
  <2>1. tab' = [tab EXCEPT ![t].action = a]
    BY <1>1, <1>2, <1>19 DEF TabRecords, ActionRecords
  <2>2. /\ a \in ActionRecords /\ a.pc = "missed" /\ a.seen = tab[t].action.seen
        /\ a.name = tab[t].action.name /\ a.earned = tab[t].action.earned
        /\ a.before = tab[t].action.before
    BY <1>2 DEF ActionRecords, Pcs
  <2>3. tab[t].action.pc \in {"wait", "missed"}
    BY <1>19 DEF PollSnapshot
  <2>4. a.name # "mint"
    BY <1>2, <1>19, <2>2, <2>3 DEF ActionFits, NameFits, Awaited, Sent
  <2>5. a.name = "claim" => a.earned <= counted /\ a.earned # counted
    BY <1>2, <1>19, <2>2, <2>3
    DEF ActionFits, ClaimFits, Awaited, ClaimSettled, Sent
  <2>6. ActionFits(a, profile, counted)
    BY <1>2, <2>2, <2>3, <2>4, <2>5
    DEF ActionFits, NameFits, ClaimFits, AnswerFits, Sent
  <2>7. a.pc \in Sent /\ a.name = "claim" => AwaitsClaim(tab[t])
    BY <2>2, <2>3 DEF AwaitsClaim, Sent
  <2>8. UNCHANGED <<profile, counted, accepted, announced, paid>>
    BY <1>19 DEF PollSnapshot
  <2> HIDE DEF a
  <2>9. QED
    BY <2>1, <2>2, <2>6, <2>7, <2>8, ActionMoves
<1>20. ASSUME NEW t \in Tabs, PollSnapshot(t) PROVE WalletInv'
  BY <1>18, <1>19, <1>20 DEF PollSnapshot
<1>21. ASSUME NEW t \in Tabs, ShowResult(t) PROVE WalletInv'
  <2> DEFINE r == [tab[t] EXCEPT !.action = NoAction, !.shown = tab[t].action.seen]
  <2>1. tab' = [tab EXCEPT ![t] = r]
    BY <1>1, <1>21 DEF ShowResult
  <2>2. tab[t].action.seen \in Snapshots /\ Knows(tab[t].action.seen, profile)
    BY <1>2 DEF ActionRecords, ActionFits, AnswerFits
  <2>3. /\ r \in TabRecords /\ r.action = NoAction
        /\ r.seen = tab[t].seen /\ r.shown = tab[t].action.seen
    BY <1>2, <1>3, <2>2 DEF TabRecords
  <2>4. TabFits(r, profile, counted) /\ ~AwaitsClaim(r)
    BY <1>2, <1>3, <1>4, <2>2, <2>3 DEF TabFits, AwaitsClaim, Sent
  <2>5. announced' \in Nat /\ announced' - announced <= Weight(tab[t])
    BY <1>1, <1>21 DEF ShowResult, Weight, AwaitsClaim, Sent
  <2>6. announced' - announced + Weight(r) - Weight(tab[t]) <= paid' - paid
    BY <1>1, <1>21, <2>4, <2>5 DEF ShowResult, Weight
  <2>7. /\ ProfileFits'
        /\ UNCHANGED <<profile, counted, accepted, paid>>
    BY <1>1, <1>21 DEF ShowResult, ProfileFits
  <2> HIDE DEF r
  <2>8. QED
    BY <1>1, <2>1, <2>3, <2>4, <2>5, <2>6, <2>7, TabStepKeeps
<1>22. ASSUME NEW t \in Tabs, WaitTimesOut(t) PROVE WalletInv'
  BY <1>16, <1>22 DEF WaitTimesOut
<1>23. ASSUME NEW t \in Tabs, CallFails(t) PROVE WalletInv'
  <2> DEFINE r == [tab[t] EXCEPT !.action = NoAction]
  <2>1. CASE UNCHANGED <<profile, paid>>
    BY <1>16, <1>23, <2>1 DEF CallFails
  <2>2. CASE tab[t].action.pc = "send" /\ Lands(t)
    <3>1. tab' = [tab EXCEPT ![t] = r]
      BY <1>1, <1>23 DEF CallFails, EndsInError
    <3>2. /\ r \in TabRecords /\ r.action = NoAction
          /\ r.seen = tab[t].seen /\ r.shown = tab[t].shown
      BY <1>2, <1>3 DEF TabRecords
    <3>3. TabFits(r, profile, counted) /\ ~AwaitsClaim(r)
      BY <1>2, <1>3, <1>4, <3>2 DEF TabFits, AwaitsClaim, Sent
    <3> HIDE DEF r
    <3>4. QED
      BY <1>23, <2>2, <3>1, <3>2, <3>3, LandsUnseen DEF CallFails
  <2>3. QED
    BY <1>23, <2>1, <2>2 DEF CallFails
<1>24. ASSUME NEW t \in Tabs, Reload(t) PROVE WalletInv'
  <2>1. CASE UNCHANGED <<profile, paid>>
    BY <1>3, <1>4, <1>24, <2>1, QuietStepKeeps DEF Reload
  <2>2. CASE tab[t].action.pc = "send" /\ Lands(t)
    BY <1>3, <1>4, <1>24, <2>2, LandsUnseen DEF Reload
  <2>3. QED
    BY <1>24, <2>1, <2>2 DEF Reload
<1>25. ASSUME FootprintLands PROVE WalletInv'
  <2>1. /\ profile' = [profile EXCEPT !.pendingRewardLamports = @ + 1]
        /\ counted' = counted + 1 /\ counted < accepted
        /\ UNCHANGED <<accepted, tab, announced, paid>>
    BY <1>25 DEF FootprintLands, FootprintToLand
  <2>2. /\ counted + 1 \in 0 .. MaxFootprints
        /\ profile.pendingRewardLamports + 1 \in 0 .. MaxFootprints
    BY <1>1, <2>1, WalletAssumption DEF ProfileFits
  <2>3. /\ profile' \in Snapshots
        /\ profile'.pendingRewardLamports = profile.pendingRewardLamports + 1
        /\ profile'.isRegistered = profile.isRegistered
        /\ profile'.hasMintedSbt = profile.hasMintedSbt
    BY <1>1, <2>1, <2>2 DEF Snapshots
  <2>4. ProfileFits' /\ Later(profile, counted, profile', counted')
    BY <1>1, <2>1, <2>2, <2>3 DEF ProfileFits, Later, Knows
  <2>5. \A t \in Tabs : TabFits(tab[t], profile', counted')
    BY <1>1, <1>2, <2>1, <2>2, <2>3, <2>4, LaterKeepsFits
  <2>6. ClaimsCounted'
    BY <2>1 DEF WalletInv, ClaimsCounted, Unannounced
  <2>7. QED
    BY <2>1, <2>2, <2>3, <2>4, <2>5, <2>6 DEF WalletInv, WalletTypeOK
<1>26. ASSUME SubmissionAccepted PROVE WalletInv'
  <2>1. /\ accepted' = accepted + 1 /\ accepted' \in 0 .. MaxFootprints
        /\ UNCHANGED <<profile, counted, tab, announced, paid>>
    BY <1>1, <1>26, WalletAssumption DEF SubmissionAccepted
  <2>2. ProfileFits'
    BY <1>1, <2>1 DEF ProfileFits
  <2>3. ClaimsCounted'
    BY <2>1 DEF WalletInv, ClaimsCounted, Unannounced
  <2>4. QED
    BY <2>1, <2>2, <2>3 DEF WalletInv, WalletTypeOK
<1>27. ASSUME UNCHANGED walletVars PROVE WalletInv'
  BY <1>27 DEF walletVars, WalletInv, WalletTypeOK, ProfileFits, ClaimsCounted,
               Unannounced
<1>28. QED
  BY <1>6, <1>7, <1>8, <1>9, <1>11, <1>12, <1>13, <1>14, <1>17, <1>20, <1>21,
     <1>22, <1>23, <1>24, <1>25, <1>26, <1>27
  DEF WalletNext, Proceed

-----------------------------------------------------------------------------
\* The tabs and the account hold what they may hold, whatever happens.
THEOREM WalletTyped == WalletSpec => []WalletTypeOK
<1>1. WalletInv => WalletTypeOK
  BY DEF WalletInv
<1>2. QED
  BY <1>1, InitWallet, WalletPreserved, PTL DEF WalletSpec

\* However many tabs claim the reward of one wallet, and whichever of their
\* transactions land after the tab gave up, a "Reward claimed." is backed by a
\* claim of its own that the chain paid.
THEOREM AnnouncedPaid == WalletSpec => []AnnouncedClaimsWerePaid
<1>1. WalletInv => AnnouncedClaimsWerePaid
  BY FS_CardinalityType
  DEF WalletInv, WalletTypeOK, ClaimsCounted, AnnouncedClaimsWerePaid
<1>2. QED
  BY <1>1, InitWallet, WalletPreserved, PTL DEF WalletSpec

\* The first poll after a confirmed mint or claim finds what it waits for, unless a
\* reward was earned in the meantime.
THEOREM ConfirmedRecognised == WalletSpec => []ConfirmedIsAnnounced
<1>1. ASSUME WalletInv, NEW t \in Tabs, tab[t].action.pc \in {"wait", "missed"},
             tab[t].action.name \in {"mint", "claim"}
      PROVE  \/ tab[t].action.pc = "wait" /\ Awaited(profile, tab[t].action)
             \/ tab[t].action.name = "claim" /\ counted > tab[t].action.earned
  <2> DEFINE a == tab[t].action
  <2>1. /\ NameFits(a, profile) /\ ClaimFits(a, profile, counted)
        /\ a \in ActionRecords /\ profile \in Snapshots /\ counted \in Nat
    BY <1>1, WalletTypes DEF ActionFits
  <2>2. CASE a.name = "mint"
    BY <1>1, <2>1, <2>2 DEF NameFits, Awaited, Sent
  <2>3. CASE a.name = "claim"
    <3>1. a.earned \in Nat /\ a.before \in Nat
      BY <2>1 DEF ActionRecords
    <3>2. (a.pc = "wait" /\ ClaimSettled(profile, a)) \/ counted > a.earned
      BY <1>1, <2>1, <2>3, <3>1 DEF ClaimFits, ClaimSettled, Sent
    <3>3. QED
      BY <2>3, <3>2 DEF Awaited
  <2>4. QED
    BY <1>1, <2>2, <2>3
<1>2. WalletInv => ConfirmedIsAnnounced
  BY <1>1 DEF ConfirmedIsAnnounced
<1>3. QED
  BY <1>2, InitWallet, WalletPreserved, PTL DEF WalletSpec

\* What a page shows of the registration and the token is taken back only when it is
\* reloaded, by the load on connecting, which an action may have overtaken, or, the
\* token alone, by the answer of a registration or an update that the load overtook.
THEOREM TabsNeverForget == WalletSpec => NeverForgets
<1>1. ASSUME WalletInv, [WalletNext]_walletVars, NEW t \in Tabs
      PROVE  \/ tab'[t].shown = tab[t].shown
             \/ tab[t].load \in {"asked", "answered"}
             \/ /\ tab[t].action.pc = "answered"
                /\ tab'[t].shown = tab[t].action.seen
             \/ ~tab'[t].connected
  <2>1. tab \in [Tabs -> TabRecords]
    BY <1>1, WalletTypes
  <2>2. ASSUME NEW s \in Tabs,
               \/ ConnectWallet(s) \/ LoadSnapshot(s) \/ ShowLoaded(s) \/ LoadFails(s)
               \/ ReadBeforeClaim(s) \/ PollSnapshot(s) \/ WaitTimesOut(s)
               \/ CallFails(s)
        PROVE  \/ tab'[t].shown = tab[t].shown
               \/ tab[t].load \in {"asked", "answered"}
    BY <2>1, <2>2
    DEF ConnectWallet, LoadSnapshot, ShowLoaded, LoadFails, ReadBeforeClaim,
        PollSnapshot, WaitTimesOut, CallFails, EndsInError, TabRecords
  <2>3. ASSUME NEW s \in Tabs, SendTransaction(s) \/ Reload(s)
        PROVE  tab'[t].shown = tab[t].shown \/ ~tab'[t].connected
    BY <2>1, <2>3
    DEF SendTransaction, Reload, RefusedByProgram, EndsInError, Opened, TabRecords
  <2>4. ASSUME NEW s \in Tabs, ShowResult(s)
        PROVE  \/ tab'[t].shown = tab[t].shown
               \/ /\ tab[t].action.pc = "answered"
                  /\ tab'[t].shown = tab[t].action.seen
    BY <2>1, <2>4 DEF ShowResult, TabRecords
  <2>5. ASSUME NEW s \in Tabs,
               \/ MintUserSbt(s) \/ ClaimReward(s)
               \/ \E input \in Aliases : SavePublicProfile(s, input)
        PROVE  tab'[t].shown = tab[t].shown
    <3>1. \E name \in Actions, pc \in Pcs, input \in Aliases \cup {NoAlias} :
            StartAction(s, name, pc, input)
      BY <2>5 DEF MintUserSbt, ClaimReward, SavePublicProfile, Actions, Pcs
    <3>2. PICK name, pc, input : StartAction(s, name, pc, input)
      BY <3>1
    <3>3. QED
      BY <2>1, <3>2 DEF StartAction, TabRecords
  <2>6. ASSUME FootprintLands \/ SubmissionAccepted \/ UNCHANGED walletVars
        PROVE  tab'[t].shown = tab[t].shown
    BY <2>6 DEF FootprintLands, SubmissionAccepted, walletVars
  <2>7. QED
    BY <1>1, <2>2, <2>3, <2>4, <2>5, <2>6 DEF WalletNext, Proceed
<1>2. ASSUME WalletInv, [WalletNext]_walletVars, NEW t \in Tabs,
             NEW f \in {"isRegistered", "hasMintedSbt"},
             Shows(t, f), tab'[t].connected, ~Shows(t, f)'
      PROVE  \/ tab[t].load \in {"asked", "answered"}
             \/ /\ f = "hasMintedSbt"
                /\ tab[t].action.name \in {"register", "update"}
                /\ tab[t].action.overtaken
  <2> DEFINE a == tab[t].action
  <2>1. CASE tab'[t].shown = tab[t].shown
    BY <1>2, <2>1 DEF Shows
  <2>2. CASE a.pc = "answered" /\ tab'[t].shown = a.seen
    <3>1. /\ TabFits(tab[t], profile, counted) /\ a \in ActionRecords
          /\ NameFits(a, profile) /\ AnswerFits(a, profile)
      BY <1>2, WalletTypes DEF ActionFits
    <3>2. a.seen \in Snapshots /\ a.seen # NoSnapshot
      BY <3>1, SnapshotAssumption DEF ActionRecords
    <3>3. ~a.seen[f]
      BY <1>2, <2>2, <3>2 DEF Shows
    <3>4. f = "hasMintedSbt" /\ ~a.seen.hasMintedSbt
      BY <2>2, <3>1, <3>3 DEF AnswerFits
    <3>5. a.name \in {"register", "update"}
      BY <2>2, <3>1, <3>4 DEF AnswerFits, NameFits, Actions
    <3>6. tab[t].shown # NoSnapshot /\ tab[t].shown.hasMintedSbt
      BY <1>2, <3>4 DEF Shows
    <3>7. a.overtaken
      BY <2>2, <3>1, <3>4, <3>6 DEF TabFits, Knows
    <3>8. QED
      BY <3>4, <3>5, <3>7
  <2>3. QED
    BY <1>1, <1>2, <2>1, <2>2
<1>3. WalletInv /\ [WalletNext]_walletVars =>
        [\A t \in Tabs, field \in {"isRegistered", "hasMintedSbt"} :
           Shows(t, field) /\ tab'[t].connected /\ ~Shows(t, field)' =>
             \/ tab[t].load \in {"asked", "answered"}
             \/ /\ field = "hasMintedSbt"
                /\ tab[t].action.name \in {"register", "update"}
                /\ tab[t].action.overtaken]_walletVars
  BY <1>2
<1>4. QED
  BY <1>3, InitWallet, WalletPreserved, PTL DEF WalletSpec, NeverForgets
=============================================================================
