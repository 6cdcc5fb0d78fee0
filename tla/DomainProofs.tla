---------------------------- MODULE DomainProofs ----------------------------
(***************************************************************************)
(* Proofs about the forecast, the backtest and the bands, as MCDomain      *)
(* composes them: any facts, gaps, build times and variants, any lengths   *)
(* of the windows and any zone, within the assumptions beside the          *)
(* constants.                                                              *)
(***************************************************************************)
EXTENDS MCDomain, FiniteSetTheorems, WellFoundedInduction, TLAPS

-----------------------------------------------------------------------------
(* Minimum and maximum.                                                    *)

\* A set of naturals has a least element.
LEMMA Least ==
    ASSUME NEW S, S \subseteq Nat, S # {}
    PROVE  \E n \in S : \A m \in S : n <= m
<1> DEFINE R == {pair \in Nat \X Nat : pair[1] < pair[2]}
<1>1. IsWellFoundedOn(R, Nat)
  BY NatLessThanWellFounded DEF OpToRel
<1>2. PICK n \in S : \A m \in S : ~(<<m, n>> \in R)
  BY <1>1, WFMin
<1>3. ASSUME NEW m \in S PROVE n <= m
  <2>1. m \in Nat /\ n \in Nat
    OBVIOUS
  <2>2. ~(m < n)
    BY <1>2, <2>1
  <2> QED
    BY <2>1, <2>2
<1> QED
  BY <1>3

\* The image of a finite set under a function is finite.
LEMMA FiniteImage ==
    ASSUME NEW S, IsFiniteSet(S), NEW f, f = [x \in S |-> f[x]]
    PROVE  IsFiniteSet({f[x] : x \in S})
<1> DEFINE T == {f[x] : x \in S}
<1>1. f \in Surjection(S, T)
  BY DEF Surjection
<1> QED
  BY <1>1, FS_Surjection

\* A finite set of integers has a least element: a smallest set without one
\* would have a smaller one.
LEMMA FiniteLeast ==
    ASSUME NEW S, IsFiniteSet(S), S \subseteq Int, S # {}
    PROVE  \E x \in S : \A y \in S : x <= y
<1> DEFINE HasLeast(T) == \E x \in T : \A y \in T : x <= y
           Bad == {n \in Nat : \E T \in SUBSET S :
                                  T # {} /\ Cardinality(T) = n /\ ~HasLeast(T)}
<1>1. SUFFICES ASSUME ~HasLeast(S) PROVE FALSE
  OBVIOUS
<1>2. Cardinality(S) \in Bad
  BY <1>1, FS_CardinalityType
<1>3. PICK n \in Bad : \A m \in Bad : n <= m
  BY <1>2, Least
<1>4. PICK T \in SUBSET S : T # {} /\ Cardinality(T) = n /\ ~HasLeast(T)
  OBVIOUS
<1>5. PICK e \in T : TRUE
  BY <1>4
<1>6. IsFiniteSet(T) /\ IsFiniteSet(T \ {e}) /\ Cardinality(T \ {e}) = n - 1 /\ n - 1 \in Nat
  <2>1. IsFiniteSet(T)
    BY <1>4, FS_Subset
  <2>2. IsFiniteSet(T \ {e}) /\ Cardinality(T \ {e}) = Cardinality(T) - 1
    BY <1>5, <2>1, FS_RemoveElement
  <2>3. Cardinality(T \ {e}) \in Nat
    BY <2>2, FS_CardinalityType
  <2> HIDE DEF Bad
  <2> QED
    BY <1>4, <2>1, <2>2, <2>3
<1>7. n - 1 \notin Bad
  BY <1>3, <1>6
<1>8. CASE T \ {e} = {}
  <2>1. T = {e}
    BY <1>5, <1>8
  <2>2. HasLeast(T)
    BY <2>1, <1>5
  <2> QED
    BY <1>4, <2>2
<1>9. CASE T \ {e} # {}
  <2>1. HasLeast(T \ {e})
    BY <1>6, <1>7, <1>9
  <2>2. PICK x \in T \ {e} : \A y \in T \ {e} : x <= y
    BY <2>1
  <2>3. HasLeast(T)
    <3>1. CASE x <= e
      BY <2>2, <3>1
    <3>2. CASE ~(x <= e)
      BY <2>2, <3>2, <1>5
    <3> QED
      BY <3>1, <3>2
  <2> QED
    BY <1>4, <2>3
<1> QED
  BY <1>8, <1>9

\* Min and Max of a finite set of integers are the ends of it.
LEMMA Ends ==
    ASSUME NEW S, IsFiniteSet(S), S \subseteq Int, S # {}
    PROVE  /\ Min(S) \in S /\ \A y \in S : Min(S) <= y
           /\ Max(S) \in S /\ \A y \in S : y <= Max(S)
<1>1. \E x \in S : \A y \in S : x <= y
  BY FiniteLeast
<1>2. Min(S) \in S /\ \A y \in S : Min(S) <= y
  BY <1>1 DEF Min
<1>3. \E x \in S : \A y \in S : x >= y
  <2> DEFINE T == {-y : y \in S}
  <2> DEFINE f == [y \in S |-> -y]
  <2>1. IsFiniteSet(T)
    <3>1. f = [y \in S |-> f[y]] /\ T = {f[y] : y \in S}
      OBVIOUS
    <3> HIDE DEF f, T
    <3> QED
      BY <3>1, FiniteImage
  <2>2. PICK x \in T : \A y \in T : x <= y
    <3>1. T \subseteq Int
      OBVIOUS
    <3>2. PICK y \in S : TRUE
      OBVIOUS
    <3>3. -y \in T
      BY <3>2
    <3> HIDE DEF T
    <3> QED
      BY <2>1, <3>1, <3>3, FiniteLeast
  <2>3. -x \in S /\ \A y \in S : -x >= y
    BY <2>2
  <2> QED
    BY <2>3
<1>4. Max(S) \in S /\ \A y \in S : y <= Max(S)
  BY <1>3 DEF Max
<1> QED
  BY <1>2, <1>4

\* The least and the greatest of two integers.
LEMMA OfTwo ==
    ASSUME NEW a \in Int, NEW b \in Int
    PROVE  /\ Min({a, b}) \in {a, b} /\ Min({a, b}) <= a /\ Min({a, b}) <= b
           /\ Max({a, b}) \in {a, b} /\ Max({a, b}) >= a /\ Max({a, b}) >= b
<1>1. IsFiniteSet({a, b})
  <2>1. IsFiniteSet({a})
    BY FS_EmptySet, FS_AddElement, {a} = {} \union {a}
  <2> QED
    BY <2>1, FS_AddElement, {a, b} = {a} \union {b}
<1> QED
  BY <1>1, Ends

-----------------------------------------------------------------------------
(* What a value depends on: every value of a map is within a set of facts. *)

DependsOn(map, K) == \A k \in DOMAIN map : map[k] \subseteq K

\* A mean depends on what it is the mean of.
LEMMA MeanWithin ==
    ASSUME NEW map, NEW K, DependsOn(map, K), NEW keys
    PROVE  Mean(map, keys) \subseteq K
BY DEF DependsOn, Mean, Held

\* One of two maps decides each quarter.
LEMMA OrElseWithin ==
    ASSUME NEW map, NEW other, NEW K, DependsOn(map, K), DependsOn(other, K)
    PROVE  DependsOn(OrElse(map, other), K)
BY DEF DependsOn, OrElse

\* A bucket holds records.
LEMMA BucketWithin ==
    ASSUME NEW records, NEW K, records \subseteq K
    PROVE  DependsOn(BucketRecords(records), K)
BY DEF DependsOn, BucketRecords

\* The quarters of an hour belong to its top.
LEMMA TopOfHour ==
    ASSUME NEW h \in Int, h % Hour = 0, NEW q \in Quarters(h, h + Hour)
    PROVE  q \in Int /\ (q \div Hour) * Hour = h
<1>1. Hour \in Nat \ {0}
  BY ForecastSeriesAssumption
<1>2. q \in Int /\ h <= q /\ q < h + Hour
  BY <1>1 DEF Quarters
<1>3. h = Hour * (h \div Hour) /\ h \div Hour \in Int
  BY <1>1
<1>4. q \div Hour = h \div Hour
  BY <1>1, <1>2, <1>3
<1> QED
  BY <1>1, <1>2, <1>3, <1>4

\* The quarters of an hour take the value of its top.
LEMMA ExpandWithin ==
    ASSUME NEW records, NEW K, records \subseteq K, \A r \in records : r.start \in Int
    PROVE  DependsOn(ExpandHourlyToQuarters(records), K)
<1> DEFINE quarters == BucketRecords(records)
           tops == {q \in DOMAIN quarters : q % Hour = 0}
           hours == UNION {Quarters(h, h + Hour) : h \in tops}
           spread == [q \in hours |-> quarters[(q \div Hour) * Hour]]
<1>1. DependsOn(quarters, K)
  BY BucketWithin
<1>2. \A h \in DOMAIN quarters : h \in Int
  BY ForecastSeriesAssumption DEF BucketRecords, Floor
<1>3. ASSUME NEW q \in hours PROVE (q \div Hour) * Hour \in DOMAIN quarters
  <2>1. PICK h \in tops : q \in Quarters(h, h + Hour)
    OBVIOUS
  <2>2. h \in Int /\ h % Hour = 0 /\ h \in DOMAIN quarters
    BY <1>2
  <2>3. (q \div Hour) * Hour = h
    BY <2>1, <2>2, TopOfHour
  <2> QED
    BY <2>2, <2>3
<1> HIDE DEF quarters, hours
<1>4. DependsOn(spread, K)
  BY <1>1, <1>3 DEF DependsOn
<1>5. DependsOn(OrElse(quarters, spread), K)
  BY <1>1, <1>4, OrElseWithin
<1> QED
  BY <1>5 DEF ExpandHourlyToQuarters, quarters, hours

\* The tail and the gaps of a grid series are means of its actuals.
LEMMA ExtendWithin ==
    ASSUME NEW forecast, NEW actual, NEW K, DependsOn(forecast, K), DependsOn(actual, K),
           NEW end, NEW weeks
    PROVE  DependsOn(ExtendWithLastWeek(forecast, actual, end, weeks), K)
<1> DEFINE tail == {q \in Quarters(Max(DOMAIN forecast) + Quarter, end) :
                      Held(actual, WeeksBack(q, weeks)) # {}}
           extension == [q \in tail |-> Mean(actual, WeeksBack(q, weeks))]
<1> HIDE DEF tail
<1>1. DependsOn(extension, K)
  BY MeanWithin DEF DependsOn
<1>2. DependsOn(OrElse(forecast, extension), K)
  BY <1>1, OrElseWithin
<1> QED
  BY <1>2 DEF ExtendWithLastWeek, tail

\* And so do the gaps.
LEMMA FillWithin ==
    ASSUME NEW known, NEW actual, NEW K, DependsOn(actual, K), NEW end, NEW weeks
    PROVE  DependsOn(FillGapsFromEarlierWeeks(known, actual, end, weeks), K)
<1> DEFINE gaps == {q \in Quarters(Min(DOMAIN actual), end) \ DOMAIN known :
                      NearestWeeks(q, actual, weeks) # {}}
           filled == [q \in gaps |-> Mean(actual, NearestWeeks(q, actual, weeks))]
<1> HIDE DEF gaps
<1>1. DependsOn(filled, K)
  BY MeanWithin DEF DependsOn
<1>2. DependsOn(NoValues, K)
  BY DEF DependsOn, NoValues
<1> QED
  BY <1>1, <1>2 DEF FillGapsFromEarlierWeeks, gaps

\* So a grid series depends on its vintages and actuals alone.
LEMMA GridWithin ==
    ASSUME NEW forecast, NEW actual, NEW K, DependsOn(forecast, K), DependsOn(actual, K),
           NEW end, NEW weeks
    PROVE  DependsOn(GridOf(forecast, actual, end, weeks).merged, K)
<1> DEFINE extended == ExtendWithLastWeek(forecast, actual, end, weeks)
           both == OrElse(extended, actual)
           filled == FillGapsFromEarlierWeeks(both, actual, end, weeks)
<1>1. DependsOn(extended, K)
  BY ExtendWithin
<1> HIDE DEF extended
<1>2. DependsOn(both, K)
  BY <1>1, OrElseWithin
<1> HIDE DEF both
<1>3. DependsOn(filled, K)
  BY FillWithin
<1> HIDE DEF filled
<1>4. DependsOn(OrElse(both, filled), K)
  BY <1>2, <1>3, OrElseWithin
<1>5. GridOf(forecast, actual, end, weeks).merged = OrElse(both, filled)
  BY DEF GridOf, GridExtended, GridWith, extended, both, filled
<1> QED
  BY <1>4, <1>5

-----------------------------------------------------------------------------
(* The forecast depends on its input and its examples.                     *)

\* The records of an input, its window apart.
InputWithin(input, K) ==
    /\ IsFiniteSet(DOMAIN input.prices) /\ DOMAIN input.prices \subseteq Int
    /\ DependsOn(input.prices, K)
    /\ \A a \in Neighbours : DependsOn(input.neighbours[a], K)
    /\ input.windForecast \subseteq K /\ input.consumptionForecast \subseteq K
    /\ input.windActual \subseteq K /\ input.consumptionActual \subseteq K
    /\ \A f \in input.consumptionActual : f.start \in Int

ContextWithin(ctx, K) ==
    /\ IsFiniteSet(DOMAIN ctx.prices) /\ DOMAIN ctx.prices \subseteq Int
    /\ DependsOn(ctx.prices, K)
    /\ \A a \in Neighbours : DependsOn(ctx.neighbours[a], K)
    /\ DependsOn(ctx.grid.wind.merged, K) /\ DependsOn(ctx.grid.consumption.merged, K)

\* The context of an input.
LEMMA ContextOfInput ==
    ASSUME NEW input, NEW K, InputWithin(input, K), NEW end
    PROVE  ContextWithin(ContextOf(input, GridSeries(input, end)), K)
<1> DEFINE wind == GridOf(BucketRecords(input.windForecast),
                          BucketRecords(input.windActual), end, WindWeeks)
           consumption == GridOf(BucketRecords(input.consumptionForecast),
                                 ExpandHourlyToQuarters(input.consumptionActual),
                                 end, ConsumptionWeeks)
<1>1. DependsOn(wind.merged, K)
  BY BucketWithin, GridWithin DEF InputWithin
<1>2. DependsOn(consumption.merged, K)
  <2>1. DependsOn(ExpandHourlyToQuarters(input.consumptionActual), K)
    BY ExpandWithin DEF InputWithin
  <2> QED
    BY <2>1, BucketWithin, GridWithin DEF InputWithin
<1>3. GridSeries(input, end) = [wind |-> wind, consumption |-> consumption]
  BY DEF GridSeries
<1> HIDE DEF wind, consumption
<1>4. ContextOf(input, GridSeries(input, end))
        = [prices |-> input.prices, neighbours |-> input.neighbours,
           grid |-> [wind |-> wind, consumption |-> consumption]]
  BY <1>3 DEF ContextOf
<1> QED
  BY <1>1, <1>2, <1>4 DEF ContextWithin, InputWithin

\* A lag is a price, or the mean of all prices.
LEMMA LagWithin ==
    ASSUME NEW K, NEW neutral, neutral \subseteq K, NEW prices, DependsOn(prices, K), NEW k
    PROVE  LagOr(neutral, prices, k) \subseteq K
BY DEF LagOr, DependsOn

\* The latest published price is one of the prices, or their mean.
LEMMA LatestWithin ==
    ASSUME NEW ctx, NEW K, ContextWithin(ctx, K), NEW q, NEW rule
    PROVE  LatestPublished(ctx, q, rule) \subseteq K
<1> DEFINE keys == {k \in DOMAIN ctx.prices : k < q \/ (rule = "AtOrBefore" /\ k = q)}
<1>1. Neutral(ctx) \subseteq K
  BY MeanWithin DEF Neutral, ContextWithin
<1>2. ASSUME keys # {} PROVE Max(keys) \in DOMAIN ctx.prices
  <2>1. keys \subseteq DOMAIN ctx.prices
    OBVIOUS
  <2> HIDE DEF keys
  <2>2. IsFiniteSet(keys) /\ keys \subseteq Int
    BY <2>1, FS_Subset DEF ContextWithin
  <2>3. Max(keys) \in keys
    BY <1>2, <2>2, Ends
  <2> QED
    BY <2>1, <2>3
<1>3. LatestPublished(ctx, q, rule) = IF keys = {} THEN Neutral(ctx) ELSE ctx.prices[Max(keys)]
  BY DEF LatestPublished
<1> HIDE DEF keys
<1>4. ASSUME keys # {} PROVE ctx.prices[Max(keys)] \subseteq K
  BY <1>2, <1>4 DEF ContextWithin, DependsOn
<1> QED
  BY <1>1, <1>3, <1>4

\* The row of a quarter.
LEMMA FeaturesWithin ==
    ASSUME NEW ctx, NEW K, ContextWithin(ctx, K), NEW q, NEW rules
    PROVE  Features(ctx, q, rules) \subseteq K
<1> DEFINE neutral == Neutral(ctx)
           before == PreviousDay(ctx, q, rules.previousDay)
           wind == Mean(ctx.grid.wind.merged, {q})
           consumption == Mean(ctx.grid.consumption.merged, {q})
           latest == LatestPublished(ctx, q, rules.latest)
           dayLag == LagOr(neutral, ctx.prices, q - Day)
           weekLag == LagOr(neutral, ctx.prices, q - Week)
           previous == IF before = {} THEN neutral ELSE Mean(ctx.prices, before)
           lags == {LagOr(neutral, ctx.neighbours[a], q - n) : a \in Neighbours, n \in {Day, Week}}
<1>1. Features(ctx, q, rules)
        = UNION ({wind, consumption, latest, dayLag, weekLag, previous} \union lags)
  BY DEF Features
<1>2. neutral \subseteq K /\ wind \subseteq K /\ consumption \subseteq K
  BY MeanWithin DEF Neutral, ContextWithin
<1>3. latest \subseteq K
  BY LatestWithin
<1> HIDE DEF neutral
<1>4. dayLag \subseteq K /\ weekLag \subseteq K
  BY <1>2, LagWithin DEF ContextWithin
<1>5. previous \subseteq K
  BY <1>2, MeanWithin DEF ContextWithin
<1>6. ASSUME NEW lag \in lags PROVE lag \subseteq K
  <2>1. PICK a \in Neighbours, n \in {Day, Week} : lag = LagOr(neutral, ctx.neighbours[a], q - n)
    OBVIOUS
  <2>2. DependsOn(ctx.neighbours[a], K)
    BY DEF ContextWithin
  <2> QED
    BY <1>2, <2>1, <2>2, LagWithin
<1> HIDE DEF wind, consumption, latest, dayLag, weekLag, previous, lags
<1> QED
  BY <1>1, <1>2, <1>3, <1>4, <1>5, <1>6

-----------------------------------------------------------------------------
(* The fit, the shape and the correction.                                  *)

ExamplesWithin(examples, K) ==
    \A e \in examples : e.row \subseteq K /\ e.realised \subseteq K

\* The rows of the training window.
LEMMA TrainingWithin ==
    ASSUME NEW ctx, NEW K, ContextWithin(ctx, K), NEW start, NEW rules
    PROVE  ExamplesWithin(TrainingMatrix(ctx, start, rules), K)
<1>1. ASSUME NEW q \in DOMAIN ctx.prices
      PROVE  Features(ctx, q, rules) \subseteq K /\ ctx.prices[q] \subseteq K
  BY FeaturesWithin DEF ContextWithin, DependsOn
<1> QED
  BY <1>1 DEF ExamplesWithin, TrainingMatrix

\* A prediction depends on the examples and on its row.
LEMMA PredictWithin ==
    ASSUME NEW examples, NEW K, ExamplesWithin(examples, K), NEW row, row \subseteq K
    PROVE  Predict(FitRidge(examples), row) \subseteq K
<1>1. Coefficients(examples) \subseteq K
  BY DEF ExamplesWithin, Coefficients
<1>2. FitRidge(examples).from = Coefficients(examples)
  BY DEF FitRidge
<1> QED
  BY <1>1, <1>2 DEF Predict

\* And a fit depends on its rows and on the served ones.
LEMMA FittedWithin ==
    ASSUME NEW examples, NEW K, ExamplesWithin(examples, K), NEW rows, DependsOn(rows, K)
    PROVE  DependsOn(Fitted(examples, rows).predicted, K)
<1>1. Fitted(examples, rows).predicted = [q \in DOMAIN rows |-> Predict(FitRidge(examples), rows[q])]
  BY DEF Fitted
<1>2. ASSUME NEW q \in DOMAIN rows PROVE Predict(FitRidge(examples), rows[q]) \subseteq K
  BY PredictWithin DEF DependsOn
<1> QED
  BY <1>1, <1>2 DEF DependsOn

\* The rows that are predicted.
LEMMA ServedRowsWithin ==
    ASSUME NEW ctx, NEW K, ContextWithin(ctx, K), NEW rules, NEW served
    PROVE  DependsOn(ServedRows(ctx, rules, served), K)
<1>1. ASSUME NEW q PROVE ExampleRow(ctx, q, rules).row \subseteq K
  BY FeaturesWithin DEF ExampleRow
<1> QED
  BY <1>1 DEF ServedRows, DependsOn

\* The shape reads the predictions and the prices.
LEMMA ShapeWithin ==
    ASSUME NEW predicted, NEW prices, NEW K, DependsOn(predicted, K), DependsOn(prices, K),
           NEW profile
    PROVE  DependsOn(ApplyWithinDayShape(predicted, prices, profile).result, K)
<1> DEFINE lag == [q \in DOMAIN predicted |-> ProfileOf(profile, q, prices)]
           SameDay(q) == {k \in DOMAIN predicted : UtcDay(k) = UtcDay(q)}
           Deviation(q) ==
             IF lag[q] = {} THEN {} ELSE Mean(prices, UNION {lag[k] : k \in SameDay(q)})
<1>1. ASSUME NEW q PROVE Mean(predicted, SameDay(q)) \subseteq K /\ Deviation(q) \subseteq K
  <2> HIDE DEF lag, SameDay
  <2> QED
    BY MeanWithin
<1>2. ApplyWithinDayShape(predicted, prices, profile).result
        = [q \in DOMAIN predicted |-> Mean(predicted, SameDay(q)) \union Deviation(q)]
  BY DEF ApplyWithinDayShape
<1> HIDE DEF SameDay, Deviation
<1> QED
  BY <1>1, <1>2 DEF DependsOn

\* So does the correction, with its examples.
LEMMA CorrectionWithin ==
    ASSUME NEW ctx, NEW K, ContextWithin(ctx, K), NEW shaped, DependsOn(shaped, K),
           NEW examples, ExamplesWithin(examples, K), NEW opts
    PROVE  DependsOn(ApplyCorrection(shaped, ctx, opts, FitRidge(examples)), K)
<1> DEFINE fit == FitRidge(examples)
           rows == ServedRows(ctx, opts.rules, DOMAIN shaped)
           Profile(q) == ProfileOf(opts.shape, q, ctx.prices)
           HasProfile(q) == Profile(q) # {}
           Correction(q) == Predict(fit, rows[q] \union Mean(ctx.prices, Profile(q)))
           SameDay(q) == {k \in DOMAIN shaped : UtcDay(k) = UtcDay(q) /\ HasProfile(k)}
           Value(q) == IF ~HasProfile(q) THEN shaped[q]
                       ELSE IF opts.correction = "Joint"
                         THEN Mean(ctx.prices, Profile(q)) \union Correction(q)
                       ELSE shaped[q] \union UNION {Correction(k) : k \in SameDay(q)}
<1>1. ApplyCorrection(shaped, ctx, opts, fit)
        = IF fit.fallback THEN shaped ELSE [q \in DOMAIN shaped |-> Value(q)]
  BY DEF ApplyCorrection
<1>2. DependsOn(rows, K) /\ DOMAIN rows = DOMAIN shaped
  BY ServedRowsWithin DEF ServedRows
<1> HIDE DEF fit, rows, Profile
<1>3. ASSUME NEW q PROVE Mean(ctx.prices, Profile(q)) \subseteq K
  BY MeanWithin DEF ContextWithin
<1>4. ASSUME NEW q \in DOMAIN shaped PROVE Correction(q) \subseteq K
  <2>1. rows[q] \union Mean(ctx.prices, Profile(q)) \subseteq K
    BY <1>2, <1>3 DEF DependsOn
  <2> QED
    BY <2>1, PredictWithin DEF fit
<1> HIDE DEF Correction, HasProfile
<1>5. ASSUME NEW q \in DOMAIN shaped PROVE Value(q) \subseteq K
  BY <1>3, <1>4 DEF DependsOn
<1> HIDE DEF Value
<1> QED
  BY <1>1, <1>5 DEF fit, DependsOn

-----------------------------------------------------------------------------
(* The output of a run.                                                    *)

\* A prediction for each quarter leaves none to fill.
LEMMA SeriesOfPredictions ==
    ASSUME NEW start, NEW end, NEW predicted, DOMAIN predicted = Quarters(start, end)
    PROVE  \E series :
             /\ series = BuildPredictedSeries(predicted, start, end)
             /\ series = [q \in Quarters(start, end) |-> series[q]]
             /\ \A q \in Quarters(start, end) :
                  series[q] = [kind |-> "predicted", from |-> predicted[q]]
<1> DEFINE series == BuildPredictedSeries(predicted, start, end)
<1>1. series = [q \in Quarters(start, end) |-> [kind |-> "predicted", from |-> predicted[q]]]
  BY DEF BuildPredictedSeries, Held
<1> HIDE DEF series
<1>2. series = [q \in Quarters(start, end) |-> series[q]]
  BY <1>1
<1>3. \A q \in Quarters(start, end) : series[q] = [kind |-> "predicted", from |-> predicted[q]]
  BY <1>1
<1> QED
  BY <1>2, <1>3 DEF series

\* The predictions of a run after its shape and its correction.
ShapeOf(input, opts, fitted) == ApplyWithinDayShape(fitted.predicted, input.prices, opts.shape)

CorrectedOf(ctx, input, opts, fitted, corrections) ==
    LET shaped == ShapeOf(input, opts, fitted).result IN
    IF opts.correction = "None" THEN shaped
    ELSE ApplyCorrection(shaped, ctx, opts,
           FitRidge(CorrectionTraining(corrections, input.start, opts.window)))

\* They are those of the served quarters.
LEMMA CorrectedQuarters ==
    ASSUME NEW ctx, NEW input, NEW opts, NEW fitted, NEW corrections
    PROVE  DOMAIN CorrectedOf(ctx, input, opts, fitted, corrections) = DOMAIN fitted.predicted
<1>1. DOMAIN ShapeOf(input, opts, fitted).result = DOMAIN fitted.predicted
  BY DEF ShapeOf, ApplyWithinDayShape
<1> QED
  BY <1>1 DEF CorrectedOf, ApplyCorrection

\* So each of them has a point of its own in the series.
LEMMA RunIsWhole ==
    ASSUME NEW ctx, NEW input, NEW opts, NEW fitted, NEW corrections,
           DOMAIN fitted.predicted = Quarters(input.start, input.end)
    PROVE  Shaped(ctx, input, opts, fitted, corrections).series
             = [q \in Quarters(input.start, input.end) |->
                  [kind |-> "predicted",
                   from |-> CorrectedOf(ctx, input, opts, fitted, corrections)[q]
                              \union SanityBoundFromHistory(input.prices)]]
<1> DEFINE served == Quarters(input.start, input.end)
           shaped == ShapeOf(input, opts, fitted)
           corrected == CorrectedOf(ctx, input, opts, fitted, corrections)
           bound == SanityBoundFromHistory(input.prices)
           clamped == Clamp(corrected, bound)
           forecast == Shaped(ctx, input, opts, fitted, corrections)
<1>1. forecast = Output(ctx, input, fitted, shaped, corrected)
  BY DEF Shaped, Corrected, ShapeOf, CorrectedOf
<1>2. DOMAIN corrected = served
  BY CorrectedQuarters
<1> HIDE DEF corrected, forecast, bound, shaped
<1>3. DOMAIN clamped = served /\ clamped = [q \in served |-> corrected[q] \union bound]
  BY <1>2 DEF Clamp
<1>4. forecast.series = BuildPredictedSeries(clamped, input.start, input.end)
  BY <1>1 DEF Output, bound
<1> HIDE DEF clamped
<1>5. BuildPredictedSeries(clamped, input.start, input.end)
        = [q \in served |-> [kind |-> "predicted", from |-> clamped[q]]]
  <2>1. DOMAIN clamped = Quarters(input.start, input.end)
    BY <1>3
  <2> QED
    BY <2>1, SeriesOfPredictions
<1>6. forecast.series = [q \in served |-> [kind |-> "predicted", from |-> corrected[q] \union bound]]
  BY <1>3, <1>4, <1>5
<1> QED
  BY <1>6 DEF forecast, corrected, bound

\* And what is said of the quarters is of the served ones.
LEMMA RunSays ==
    ASSUME NEW ctx, NEW input, NEW opts, NEW fitted, NEW corrections
    PROVE  /\ Shaped(ctx, input, opts, fitted, corrections).flat = ShapeOf(input, opts, fitted).flat
           /\ Shaped(ctx, input, opts, fitted, corrections).gridMissing
                = {q \in DOMAIN fitted.predicted : LacksValue(ctx.grid, q)}
<1>1. Shaped(ctx, input, opts, fitted, corrections)
        = Output(ctx, input, fitted, ShapeOf(input, opts, fitted),
                 CorrectedOf(ctx, input, opts, fitted, corrections))
  BY DEF Shaped, Corrected, ShapeOf, CorrectedOf
<1> QED
  BY <1>1 DEF Output

\* What build_forecast fits.
FittedOf(ctx, input, opts, training) ==
    LET served == Quarters(input.start, input.end) IN
    IF opts.training = "Issuance" THEN FitIssuances(training, ctx, opts, served)
    ELSE FitRealised(ctx, opts, input.start, served)

\* It has a prediction for each served quarter.
LEMMA FittedQuarters ==
    ASSUME NEW ctx, NEW input, NEW opts, NEW training
    PROVE  DOMAIN FittedOf(ctx, input, opts, training).predicted = Quarters(input.start, input.end)
BY DEF FittedOf, FitIssuances, FitRealised, Fitted, ServedRows

\* And depends on its context and its examples.
LEMMA FittedOfWithin ==
    ASSUME NEW ctx, NEW input, NEW opts, NEW training, NEW K,
           ContextWithin(ctx, K), ExamplesWithin(training, K)
    PROVE  DependsOn(FittedOf(ctx, input, opts, training).predicted, K)
<1> DEFINE served == Quarters(input.start, input.end)
           rows == [q \in served |-> Features(ctx, q, opts.rules)]
<1>1. DependsOn(rows, K)
  BY FeaturesWithin DEF DependsOn
<1>2. ExamplesWithin(TrainingMatrix(ctx, input.start, opts.rules), K)
  BY TrainingWithin
<1>3. DependsOn(ServedRows(ctx, opts.rules, served), K)
  BY ServedRowsWithin
<1>4. FitRealised(ctx, opts, input.start, served)
        = Fitted(TrainingMatrix(ctx, input.start, opts.rules), rows)
  BY DEF FitRealised
<1> HIDE DEF rows, served
<1>5. DependsOn(FitRealised(ctx, opts, input.start, served).predicted, K)
  BY <1>1, <1>2, <1>4, FittedWithin
<1>6. DependsOn(FitIssuances(training, ctx, opts, served).predicted, K)
  BY <1>3, FittedWithin DEF FitIssuances
<1> QED
  BY <1>5, <1>6 DEF FittedOf, served

\* A forecast has a prediction for each quarter of its window.
LEMMA ForecastIsWhole ==
    ASSUME NEW input, NEW opts, NEW training, NEW corrections
    PROVE  LET series == BuildForecast(input, opts, training, corrections).series IN
           /\ DOMAIN series = Quarters(input.start, input.end)
           /\ \A q \in DOMAIN series : series[q].kind = "predicted"
<1> DEFINE ctx == ContextOf(input, GridSeries(input, input.end))
           fitted == FittedOf(ctx, input, opts, training)
<1>1. BuildForecast(input, opts, training, corrections)
        = Shaped(ctx, input, opts, fitted, corrections)
  BY DEF BuildForecast, FittedRun, FittedOf
<1>2. DOMAIN fitted.predicted = Quarters(input.start, input.end)
  BY FittedQuarters
<1> DEFINE from == [q \in Quarters(input.start, input.end) |->
                      CorrectedOf(ctx, input, opts, fitted, corrections)[q]
                        \union SanityBoundFromHistory(input.prices)]
<1> HIDE DEF ctx, fitted
<1>3. BuildForecast(input, opts, training, corrections).series
        = [q \in Quarters(input.start, input.end) |-> [kind |-> "predicted", from |-> from[q]]]
  BY <1>1, <1>2, RunIsWhole
<1> HIDE DEF from
<1> QED
  BY <1>3

\* And depends on its records and its examples alone.
LEMMA ForecastWithin ==
    ASSUME NEW input, NEW opts, NEW training, NEW corrections, NEW K,
           InputWithin(input, K), ExamplesWithin(training, K), ExamplesWithin(corrections, K)
    PROVE  LET series == BuildForecast(input, opts, training, corrections).series IN
           \A q \in DOMAIN series : series[q].from \subseteq K
<1> DEFINE ctx == ContextOf(input, GridSeries(input, input.end))
           fitted == FittedOf(ctx, input, opts, training)
           shaped == ShapeOf(input, opts, fitted).result
           examples == CorrectionTraining(corrections, input.start, opts.window)
           corrected == CorrectedOf(ctx, input, opts, fitted, corrections)
           bound == SanityBoundFromHistory(input.prices)
<1>1. BuildForecast(input, opts, training, corrections)
        = Shaped(ctx, input, opts, fitted, corrections)
  BY DEF BuildForecast, FittedRun, FittedOf
<1>2. DOMAIN fitted.predicted = Quarters(input.start, input.end)
  BY FittedQuarters
<1>3. ContextWithin(ctx, K) /\ DependsOn(input.prices, K)
  BY ContextOfInput DEF InputWithin
<1> HIDE DEF ctx
<1>4. DependsOn(fitted.predicted, K)
  BY <1>3, FittedOfWithin
<1> HIDE DEF fitted
<1>5. DependsOn(shaped, K)
  BY <1>3, <1>4, ShapeWithin DEF ShapeOf
<1>6. ExamplesWithin(examples, K)
  BY DEF ExamplesWithin, CorrectionTraining
<1>7. bound \subseteq K
  BY <1>3, MeanWithin DEF SanityBoundFromHistory
<1>8. DependsOn(corrected, K) /\ DOMAIN corrected = Quarters(input.start, input.end)
  <2>1. DependsOn(ApplyCorrection(shaped, ctx, opts, FitRidge(examples)), K)
    <3> HIDE DEF shaped, examples
    <3> QED
      BY <1>3, <1>5, <1>6, CorrectionWithin
  <2>2. corrected = shaped \/ corrected = ApplyCorrection(shaped, ctx, opts, FitRidge(examples))
    BY DEF CorrectedOf
  <2>3. DOMAIN corrected = DOMAIN fitted.predicted
    BY CorrectedQuarters
  <2> HIDE DEF corrected, shaped, examples
  <2> QED
    BY <1>2, <1>5, <2>1, <2>2, <2>3
<1> DEFINE from == [q \in Quarters(input.start, input.end) |-> corrected[q] \union bound]
<1>9. BuildForecast(input, opts, training, corrections).series
        = [q \in Quarters(input.start, input.end) |-> [kind |-> "predicted", from |-> from[q]]]
  BY <1>1, <1>2, RunIsWhole
<1>10. \A q \in Quarters(input.start, input.end) : from[q] \subseteq K
  <2> HIDE DEF corrected, bound
  <2> QED
    BY <1>7, <1>8 DEF DependsOn
<1> HIDE DEF from
<1> QED
  BY <1>9, <1>10

-----------------------------------------------------------------------------
(* Delivery days and their publication.                                    *)

\* Quotients and multiples.
LEMMA Division ==
    ASSUME NEW n \in Int, NEW d \in Nat \ {0}
    PROVE  /\ n \div d \in Int /\ n % d \in 0..(d - 1) /\ n = d * (n \div d) + (n % d)
           /\ n \in Nat => n \div d \in Nat
<1> DEFINE q == n \div d
           r == n % d
<1>1. q \in Int
  OBVIOUS
<1>2. r \in 0..(d - 1)
  OBVIOUS
<1>3. n = d * q + r
  BY <1>1, <1>2, Z3
<1> HIDE DEF q, r
<1>4. ASSUME n \in Nat, q < 0 PROVE FALSE
  <2>1. d * (q + 1) <= 0 /\ d * (q + 1) = d * q + d
    BY <1>1, <1>4
  <2> QED
    BY <1>1, <1>2, <1>3, <1>4, <2>1
<1>5. n \in Nat => q \in Nat
  BY <1>1, <1>4
<1> QED
  BY <1>1, <1>2, <1>3, <1>5 DEF q, r

\* Products keep an order.
LEMMA Multiples ==
    ASSUME NEW d \in Nat, NEW a \in Int, NEW b \in Int
    PROVE  /\ a * d \in Int /\ a <= b => a * d <= b * d
           /\ a < b => a * d + d <= b * d
           /\ a * d = d * a
<1>1. a * d \in Int /\ b * d \in Int /\ a * d = d * a /\ (b - a) * d \in Int
  OBVIOUS
<1>2. (b - a) * d = b * d - a * d
  OBVIOUS
<1>3. a <= b => (b - a) * d >= 0
  OBVIOUS
<1>4. a < b => (b - a) * d >= d
  <2>1. SUFFICES ASSUME a < b PROVE (b - a) * d >= d
    OBVIOUS
  <2>2. (b - a) * d = (b - a - 1) * d + d /\ b - a - 1 \in Nat
    BY <2>1
  <2>3. (b - a - 1) * d \in Nat
    BY <2>2
  <2> QED
    BY <2>2, <2>3
<1> QED
  BY <1>1, <1>2, <1>3, <1>4

\* A quotient reaches p where its dividend reaches p times the divisor.
LEMMA QuotientReaches ==
    ASSUME NEW n \in Int, NEW d \in Nat \ {0}, NEW p \in Int
    PROVE  n \div d >= p <=> n >= p * d
<1> DEFINE q == n \div d
           r == n % d
<1>1. q \in Int /\ r \in 0..(d - 1) /\ n = q * d + r
  BY Division, Multiples
<1> HIDE DEF q, r
<1>2. p * d \in Int /\ q * d \in Int /\ (p <= q => p * d <= q * d) /\ (q < p => q * d + d <= p * d)
  BY <1>1, Multiples
<1>3. q >= p <=> n >= p * d
  BY <1>1, <1>2
<1> QED
  BY <1>3 DEF q

\* The lengths of the clock, and the zone at an instant.
LEMMA Clock ==
    /\ Quarter \in Nat \ {0} /\ Hour \in Nat \ {0} /\ Day \in Nat \ {0} /\ DaysOfWeek \in Nat \ {0}
    /\ \A t \in 0..LastTime : MarketZone[t] \in Int /\ MarketDay(t) \in Int
<1>1. ASSUME NEW t \in 0..LastTime PROVE MarketZone[t] \in Int /\ MarketDay(t) \in Int
  <2>1. MarketZone[t] \in Int /\ t \in Int
    BY MarketZoneAssumption
  <2>2. Day \in Nat \ {0}
    BY ForecastSeriesAssumption
  <2> QED
    BY <2>1, <2>2 DEF MarketDay, Calendar!LocalDate, Calendar!Local
<1> QED
  BY <1>1, ForecastSeriesAssumption

\* The start of a delivery day parts the days before it from the others.
LEMMA StartOfDay ==
    ASSUME NEW date \in Int
    PROVE  /\ MarketDayStart(date) \in Nat
           /\ \A s \in 0..LastTime : s < MarketDayStart(date) <=> MarketDay(s) < date
<1> DEFINE after == {t \in 0..LastTime : MarketDay(t) >= date}
<1>0. LastTime \in Nat /\ \A t \in 0..LastTime : MarketDay(t) \in Int
  BY Clock, MarketZoneAssumption
<1>1. MarketDayStart(date) = IF after # {} THEN Min(after) ELSE LastTime + 1
  BY DEF MarketDayStart, Calendar!StartOfLocalDay, Calendar!Instants, MarketDay, Calendar!Min, Min
<1>2. CASE after = {}
  BY <1>0, <1>1, <1>2
<1>3. CASE after # {}
  <2>1. Min(after) \in after /\ \A y \in after : Min(after) <= y
    <3>1. IsFiniteSet(0..LastTime) /\ after \subseteq 0..LastTime
      BY <1>0, FS_Interval
    <3>2. IsFiniteSet(after) /\ after \subseteq Int
      BY <1>0, <3>1, FS_Subset
    <3> HIDE DEF after
    <3> QED
      BY <1>3, <3>2, Ends
  <2>2. MarketDayStart(date) \in 0..LastTime /\ MarketDay(MarketDayStart(date)) >= date
    BY <1>1, <1>3, <2>1
  <2>3. ASSUME NEW s \in 0..LastTime, s < MarketDayStart(date) PROVE MarketDay(s) < date
    <3>1. ~(MarketDay(s) >= date)
      BY <1>0, <1>1, <1>3, <2>1, <2>2, <2>3
    <3> QED
      BY <1>0, <3>1
  <2>4. ASSUME NEW s \in 0..LastTime, ~(s < MarketDayStart(date)) PROVE MarketDay(s) >= date
    <3>1. MarketDayStart(date) <= s
      BY <1>0, <2>2, <2>4
    <3>2. MarketDay(MarketDayStart(date)) <= MarketDay(s)
      BY <2>2, <3>1, MarketZoneAssumption
    <3> QED
      BY <1>0, <2>2, <3>2
  <2> QED
    BY <1>0, <2>2, <2>3, <2>4
<1> QED
  BY <1>2, <1>3

\* A vintage is no price.
LEMMA OneKind ==
    ASSUME NEW f, IsPrice(f)
    PROVE  ~IsVintage(f)
BY FactsAssumption DEF IsPrice, IsVintage, Fi

\* The facts of the prices.
LEMMA PriceFact ==
    ASSUME NEW f \in Facts, IsPrice(f)
    PROVE  /\ f.start \in 0..LastTime /\ f.start % Quarter = 0 /\ ~IsVintage(f)
           /\ PublishedAt(f) = (MarketDay(f.start) - 1) * Day + PublicationHour * Hour
           /\ PublishedAt(f) \in Int
<1>1. f.start \in 0..LastTime /\ f.start % Quarter = 0 /\ ~IsVintage(f)
  BY OneKind, FactsAssumption
<1>2. PublishedAt(f) = (MarketDay(f.start) - 1) * Day + PublicationHour * Hour
  BY DEF PublishedAt
<1>3. MarketDay(f.start) \in Int /\ Day \in Int /\ PublicationHour \in Int /\ Hour \in Int
  BY <1>1, Clock, PublicationAssumption
<1> QED
  BY <1>1, <1>2, <1>3

\* A price is published before its delivery begins.
LEMMA PublishedBeforeDelivery ==
    ASSUME NEW f \in Facts, IsPrice(f)
    PROVE  PublishedAt(f) <= f.start
<1> DEFINE s == f.start
           o == MarketZone[s]
           day == MarketDay(s)
           hour == PublicationHour * Hour
<1>1. s \in Int /\ s \in 0..LastTime /\ PublishedAt(f) = (day - 1) * Day + hour
  BY PriceFact, MarketZoneAssumption
<1>2. o \in Int /\ Day \in Nat \ {0} /\ day = (s + o) \div Day
  BY <1>1, Clock DEF MarketDay, Calendar!LocalDate, Calendar!Local
<1>3. hour \in Nat /\ hour + o <= Day
  BY <1>1, Clock, PublicationAssumption
<1> HIDE DEF s, o, day, hour
<1>4. day * Day <= s + o /\ day \in Int
  BY <1>1, <1>2
<1>5. (day - 1) * Day = day * Day - Day /\ day * Day \in Int
  BY <1>2, <1>4
<1>6. (day - 1) * Day + hour <= s
  BY <1>1, <1>2, <1>3, <1>4, <1>5
<1> QED
  BY <1>1, <1>6 DEF s

\* The prices before the horizon of an instant are those published by then.
LEMMA HorizonOfPublication ==
    ASSUME NEW t \in Nat
    PROVE  /\ PublicationHorizon(t) \in Nat
           /\ \A f \in Facts : IsPrice(f) =>
                (f.start < PublicationHorizon(t) <=> PublishedAt(f) <= t)
<1> DEFINE today == t \div Day
           late == (t % Day) \div Hour >= PublicationHour
           published == IF late THEN today + 1 ELSE today
           hour == PublicationHour * Hour
<1>1. /\ Day \in Nat \ {0} /\ Hour \in Nat \ {0} /\ PublicationHour \in Nat
      /\ hour \in Nat /\ hour <= Day
  BY Clock, PublicationAssumption
<1>2. today \in Nat /\ t = today * Day + (t % Day) /\ t % Day \in 0..(Day - 1)
  <2>1. t \in Int /\ today \in Int
    BY <1>1, Division
  <2>2. today \in Nat /\ t % Day \in 0..(Day - 1) /\ t = Day * today + (t % Day)
    BY <1>1, <2>1, Division
  <2> HIDE DEF today
  <2>3. today * Day = Day * today
    BY <1>1, <2>1, Multiples
  <2> QED
    BY <2>2, <2>3
<1>3. late <=> t % Day >= hour
  <2> DEFINE r == t % Day
  <2>1. r \in Int
    BY <1>2
  <2> HIDE DEF r
  <2>2. r \div Hour >= PublicationHour <=> r >= PublicationHour * Hour
    BY <1>1, <2>1, QuotientReaches
  <2> QED
    BY <2>2 DEF r
<1>4. PublicationHorizon(t) = MarketDayStart(published + 1)
  BY DEF PublicationHorizon, UtcDay
<1>5. published \in Nat
  BY <1>2
<1>6. ASSUME NEW f \in Facts, IsPrice(f)
      PROVE  f.start < PublicationHorizon(t) <=> PublishedAt(f) <= t
  <2> DEFINE day == MarketDay(f.start) - 1
  <2>1. f.start \in 0..LastTime /\ PublishedAt(f) = day * Day + hour /\ day \in Int
    BY <1>6, PriceFact, Clock
  <2>2. f.start < PublicationHorizon(t) <=> day < published
    <3> HIDE DEF published
    <3>1. published + 1 \in Int /\ published \in Int
      BY <1>5
    <3>2. f.start < MarketDayStart(published + 1) <=> MarketDay(f.start) < published + 1
      BY <2>1, <3>1, StartOfDay
    <3>3. MarketDay(f.start) \in Int
      BY <2>1, Clock
    <3> QED
      BY <1>4, <3>1, <3>2, <3>3
  <2>3. today \in Int /\ today * Day \in Int /\ day * Day \in Int
    BY <1>1, <1>2, <2>1, Multiples
  <2>4. /\ day <= today => day * Day <= today * Day
        /\ day < today => day * Day + Day <= today * Day
        /\ today <= day => today * Day <= day * Day
        /\ today < day => today * Day + Day <= day * Day
    <3> HIDE DEF day, today
    <3>1. Day \in Nat /\ day \in Int /\ today \in Int
      BY <1>1, <2>1, <2>3
    <3>2. /\ day <= today => day * Day <= today * Day
          /\ day < today => day * Day + Day <= today * Day
      BY <3>1, Multiples
    <3>3. /\ today <= day => today * Day <= day * Day
          /\ today < day => today * Day + Day <= day * Day
      BY <3>1, Multiples
    <3> QED
      BY <3>2, <3>3
  <2> HIDE DEF day, hour, today, late
  <2>5. t % Day \in 0..(Day - 1) /\ t = today * Day + (t % Day)
    BY <1>2
  <2>6. CASE late
    <3>1. day < published <=> day <= today
      BY <2>1, <2>3, <2>6
    <3>2. t % Day >= hour
      BY <1>3, <2>6
    <3>3. day <= today <=> day * Day + hour <= t
      <4> DEFINE a == day * Day
                 b == today * Day
                 r == t % Day
      <4>1. a \in Int /\ b \in Int /\ r \in 0..(Day - 1) /\ t = b + r
        BY <2>3, <2>5
      <4>2. /\ day <= today => a <= b
            /\ day < today => a + Day <= b
            /\ today <= day => b <= a
            /\ today < day => b + Day <= a
        BY <2>4
      <4>3. r >= hour
        BY <3>2
      <4> HIDE DEF a, b, r
      <4>4. day <= today <=> a + hour <= t
        BY <1>1, <2>1, <2>3, <4>1, <4>2, <4>3
      <4> QED
        BY <4>4 DEF a
    <3> QED
      BY <2>1, <2>2, <3>1, <3>3
  <2>7. CASE ~late
    <3>1. day < published <=> day < today
      BY <2>7
    <3>2. t % Day < hour
      BY <1>1, <1>3, <2>5, <2>7
    <3>3. day < today <=> day * Day + hour <= t
      <4> DEFINE a == day * Day
                 b == today * Day
                 r == t % Day
      <4>1. a \in Int /\ b \in Int /\ r \in 0..(Day - 1) /\ t = b + r
        BY <2>3, <2>5
      <4>2. /\ day <= today => a <= b
            /\ day < today => a + Day <= b
            /\ today <= day => b <= a
            /\ today < day => b + Day <= a
        BY <2>4
      <4>3. r < hour
        BY <3>2
      <4> HIDE DEF a, b, r
      <4>4. day < today <=> a + hour <= t
        BY <1>1, <2>1, <2>3, <4>1, <4>2, <4>3
      <4> QED
        BY <4>4 DEF a
    <3> QED
      BY <2>1, <2>2, <3>1, <3>3
  <2> QED
    BY <2>6, <2>7
<1> HIDE DEF published
<1>7. PublicationHorizon(t) \in Nat
  BY <1>4, <1>5, StartOfDay
<1> QED
  BY <1>6, <1>7

-----------------------------------------------------------------------------
(* Inputs of stored facts.                                                 *)

\* Two quarters that are less than a quarter apart.
LEMMA Aligned ==
    ASSUME NEW a \in Int, NEW b \in Int, a % Quarter = 0, b % Quarter = 0, a < b + Quarter
    PROVE  a <= b
<1> DEFINE m == a \div Quarter
           n == b \div Quarter
<1>1. Quarter \in Nat \ {0}
  BY Clock
<1>2. m \in Int /\ a = Quarter * m + (a % Quarter)
  BY <1>1, Division
<1>3. n \in Int /\ b = Quarter * n + (b % Quarter)
  BY <1>1, Division
<1> HIDE DEF m, n
<1>4. (n < m => n * Quarter + Quarter <= m * Quarter) /\ (m <= n => m * Quarter <= n * Quarter)
  BY <1>1, <1>2, <1>3, Multiples
<1>5. m * Quarter = a /\ n * Quarter = b
  BY <1>1, <1>2, <1>3, Multiples
<1> QED
  BY <1>1, <1>2, <1>3, <1>4, <1>5

\* A quarter map of the prices that start before a window.
PriceRecords(map, start) ==
    /\ IsFiniteSet(DOMAIN map)
    /\ \A q \in DOMAIN map : q \in 0..LastTime /\ q % Quarter = 0 /\ q < start
    /\ \A q \in DOMAIN map : \A f \in map[q] : f \in Facts /\ IsPrice(f) /\ f.start = q

InputOfFacts(input) ==
    /\ input.start \in Int
    /\ PriceRecords(input.prices, input.start)
    /\ \A a \in Neighbours : PriceRecords(input.neighbours[a], input.start)
    /\ input.windForecast \subseteq Vintages(Facts)
    /\ input.consumptionForecast \subseteq Vintages(Facts)
    /\ input.windActual \subseteq Actuals(Facts)
    /\ input.consumptionActual \subseteq Actuals(Facts)

Known(t) == {f \in Facts : KnownAt(f, t)}

\* Such an input is known at t when the prices before its window are published,
\* its vintages issued and its actuals over by then.
LEMMA InputKnown ==
    ASSUME NEW input, InputOfFacts(input), NEW t \in Int,
           \A f \in Facts : IsPrice(f) /\ f.start < input.start => PublishedAt(f) <= t,
           \A f \in input.windForecast \union input.consumptionForecast : f.issued < t,
           \A f \in input.windActual \union input.consumptionActual : f.start < t
    PROVE  InputWithin(input, Known(t))
<1>1. ASSUME NEW map, PriceRecords(map, input.start)
      PROVE  DependsOn(map, Known(t))
  <2>1. ASSUME NEW q \in DOMAIN map, NEW f \in map[q] PROVE f \in Known(t)
    <3>1. f \in Facts /\ IsPrice(f) /\ f.start < input.start
      BY <1>1 DEF PriceRecords
    <3>2. PublishedAt(f) <= t /\ ~IsVintage(f)
      BY <3>1, PriceFact
    <3> QED
      BY <3>1, <3>2 DEF Known, KnownAt
  <2> QED
    BY <2>1 DEF DependsOn
<1>2. IsFiniteSet(DOMAIN input.prices) /\ DOMAIN input.prices \subseteq Int
  BY DEF InputOfFacts, PriceRecords
<1>3. ASSUME NEW f \in input.windForecast \union input.consumptionForecast PROVE f \in Known(t)
  <2>1. f \in Facts /\ IsVintage(f)
    BY DEF InputOfFacts, Vintages
  <2>2. f.issued < t /\ f.issued \in Int /\ ~IsPrice(f)
    BY <2>1, OneKind, FactsAssumption
  <2> QED
    BY <2>1, <2>2 DEF Known, KnownAt, PublishedAt
<1>4. ASSUME NEW f \in input.windActual \union input.consumptionActual
      PROVE  f \in Known(t) /\ f.start \in Int
  <2>1. f \in Facts /\ ~IsVintage(f) /\ ~IsPrice(f)
    BY DEF InputOfFacts, Actuals
  <2>2. f.start < t /\ f.start \in Int
    BY <2>1, FactsAssumption
  <2> QED
    BY <2>1, <2>2 DEF Known, KnownAt
<1>5. DependsOn(input.prices, Known(t))
  BY <1>1 DEF InputOfFacts
<1>6. ASSUME NEW a \in Neighbours PROVE DependsOn(input.neighbours[a], Known(t))
  BY <1>1 DEF InputOfFacts
<1> QED
  BY <1>2, <1>3, <1>4, <1>5, <1>6 DEF InputWithin

\* The quarter map of some prices.
LEMMA PriceMapRecords ==
    ASSUME NEW S, S \subseteq Facts, \A f \in S : IsPrice(f), NEW start,
           \A f \in S : f.start < start
    PROVE  PriceRecords(PriceMap(S), start)
<1> DEFINE startOf == [f \in S |-> f.start]
           starts == {f.start : f \in S}
<1>1. IsFiniteSet(starts)
  <2>1. IsFiniteSet(S)
    BY FactsAssumption, FS_Subset
  <2>2. startOf = [f \in S |-> startOf[f]] /\ starts = {startOf[f] : f \in S}
    OBVIOUS
  <2> HIDE DEF startOf, starts
  <2> QED
    BY <2>1, <2>2, FiniteImage
<1>2. DOMAIN PriceMap(S) = starts /\ \A q \in starts : PriceMap(S)[q] = {f \in S : f.start = q}
  BY DEF PriceMap
<1>3. \A q \in starts : q \in 0..LastTime /\ q % Quarter = 0 /\ q < start
  BY PriceFact
<1> HIDE DEF starts
<1> QED
  BY <1>1, <1>2, <1>3 DEF PriceRecords

\* A part of such a map, which ends earlier.
LEMMA WithinRecords ==
    ASSUME NEW map, NEW start, PriceRecords(map, start), NEW from, NEW to
    PROVE  PriceRecords(Within(map, from, to), to)
<1> DEFINE keys == {k \in DOMAIN map : from <= k /\ k < to}
<1>1. Within(map, from, to) = [k \in keys |-> map[k]]
  BY DEF Within, Restrict
<1>2. IsFiniteSet(keys)
  BY FS_Subset DEF PriceRecords
<1> QED
  BY <1>1, <1>2 DEF PriceRecords

-----------------------------------------------------------------------------
(* Where a window starts.                                                  *)

\* The prices before `start` are published at t.
PublishedBefore(start, t) ==
    \A f \in Facts : IsPrice(f) /\ f.start < start => PublishedAt(f) <= t

\* The window of a replayed issue time.
LEMMA SeriesStartKnown ==
    ASSUME NEW data, data \subseteq Facts, NEW t \in Nat
    PROVE  /\ SeriesStart(PublishedStarts(data, t), t) \in Int
           /\ PublishedBefore(SeriesStart(PublishedStarts(data, t), t), t)
<1> DEFINE S == PublishedStarts(data, t)
<1>1. ASSUME NEW q \in S
      PROVE  q \in 0..LastTime /\ q % Quarter = 0 /\ q < PublicationHorizon(t)
  <2>1. PICK f \in data : f.of = Fi /\ f.start = q /\ q < PublicationHorizon(t)
    BY DEF PublishedStarts, Of
  <2> QED
    BY <2>1, PriceFact DEF IsPrice
<1>2. IsFiniteSet(S) /\ S \subseteq Int
  <2>1. S \subseteq 0..LastTime
    BY <1>1
  <2>2. LastTime \in Int /\ IsFiniteSet(0..LastTime)
    BY MarketZoneAssumption, FS_Interval
  <2> HIDE DEF S
  <2>3. IsFiniteSet(S)
    BY <2>1, <2>2, FS_Subset
  <2> QED
    BY <2>1, <2>2, <2>3
<1> HIDE DEF S
<1>3. CASE S = {}
  <2>1. ASSUME NEW f \in Facts, IsPrice(f), f.start < t PROVE PublishedAt(f) <= t
    <3>1. PublishedAt(f) <= f.start /\ f.start \in Int /\ PublishedAt(f) \in Int
      BY <2>1, PublishedBeforeDelivery, PriceFact
    <3> QED
      BY <2>1, <3>1
  <2> QED
    BY <1>3, <2>1 DEF SeriesStart, PublishedBefore, S
<1>4. CASE S # {}
  <2> DEFINE last == Max(S)
  <2>1. last \in S
    BY <1>2, <1>4, Ends
  <2>2. last \in Int /\ last % Quarter = 0 /\ last < PublicationHorizon(t)
    BY <1>1, <2>1, MarketZoneAssumption
  <2>3. SeriesStart(S, t) = last + Quarter
    BY <1>4 DEF SeriesStart
  <2> HIDE DEF last
  <2>4. ASSUME NEW f \in Facts, IsPrice(f), f.start < last + Quarter PROVE PublishedAt(f) <= t
    <3>1. f.start \in Int /\ f.start % Quarter = 0
      BY <2>4, PriceFact
    <3>2. f.start <= last
      BY <2>2, <2>4, <3>1, Aligned
    <3>3. f.start < PublicationHorizon(t)
      BY <2>2, <3>1, <3>2, HorizonOfPublication
    <3> QED
      BY <2>4, <3>3, HorizonOfPublication
  <2> QED
    BY <2>2, <2>3, <2>4, Clock DEF PublishedBefore, S
<1> QED
  BY <1>3, <1>4

\* A time is not before its quarter.
LEMMA FloorBelow ==
    ASSUME NEW t \in Int
    PROVE  Floor(t) \in Int /\ Floor(t) <= t
<1> DEFINE q == t \div Quarter
           r == t % Quarter
<1>1. Quarter \in Nat \ {0}
  BY Clock
<1>2. q \in Int /\ r \in 0..(Quarter - 1) /\ t = Quarter * q + r
  BY <1>1, Division
<1>3. Floor(t) = q * Quarter
  BY DEF Floor
<1> HIDE DEF q, r
<1>4. q * Quarter = Quarter * q /\ q * Quarter \in Int
  BY <1>1, <1>2, Multiples
<1> QED
  BY <1>1, <1>2, <1>3, <1>4

\* The window of an earlier issuance.
LEMMA IssuanceStartKnown ==
    ASSUME NEW input, InputOfFacts(input), NEW t \in Nat
    PROVE  /\ IssuanceSeriesStart(input, t) \in Int
           /\ PublishedBefore(IssuanceSeriesStart(input, t), t)
<1> DEFINE horizon == PublicationHorizon(t)
           end == Min({Floor(horizon), Floor(input.start)})
           published == {q \in DOMAIN input.prices : q < end}
           start == IssuanceSeriesStart(input, t)
<1>1. horizon \in Nat
  BY HorizonOfPublication
<1>2. end \in Int /\ end <= horizon
  <2>1. Floor(horizon) \in Int /\ Floor(horizon) <= horizon /\ Floor(input.start) \in Int
    BY <1>1, FloorBelow DEF InputOfFacts
  <2> HIDE DEF horizon
  <2>2. end \in {Floor(horizon), Floor(input.start)} /\ end <= Floor(horizon)
    BY <2>1, OfTwo
  <2> HIDE DEF end
  <2> QED
    BY <1>1, <2>1, <2>2
<1>3. start = IF published = {} THEN end ELSE Max(published) + Quarter
  BY DEF IssuanceSeriesStart
<1>4. IsFiniteSet(published) /\ \A q \in published : q \in Int /\ q % Quarter = 0 /\ q < end
  <2>1. published \subseteq DOMAIN input.prices
    OBVIOUS
  <2> HIDE DEF end
  <2> QED
    BY <2>1, FS_Subset, MarketZoneAssumption DEF InputOfFacts, PriceRecords
<1> HIDE DEF horizon, end, published, start
<1>5. CASE published = {}
  <2>1. start = end
    BY <1>3, <1>5
  <2>2. ASSUME NEW f \in Facts, IsPrice(f), f.start < start PROVE PublishedAt(f) <= t
    <3>1. f.start < horizon
      BY <1>1, <1>2, <2>1, <2>2, PriceFact
    <3> QED
      BY <2>2, <3>1, HorizonOfPublication DEF horizon
  <2> QED
    BY <1>2, <2>1, <2>2 DEF PublishedBefore, start
<1>6. CASE published # {}
  <2> DEFINE last == Max(published)
  <2>1. last \in published
    <3>1. published \subseteq Int
      BY <1>4
    <3> QED
      BY <1>4, <1>6, <3>1, Ends
  <2>2. last \in Int /\ last % Quarter = 0 /\ last < end /\ start = last + Quarter
    BY <1>3, <1>4, <1>6, <2>1
  <2> HIDE DEF last
  <2>3. ASSUME NEW f \in Facts, IsPrice(f), f.start < start PROVE PublishedAt(f) <= t
    <3>1. f.start \in Int /\ f.start % Quarter = 0
      BY <2>3, PriceFact
    <3>2. f.start <= last
      BY <2>2, <2>3, <3>1, Aligned
    <3>3. f.start < horizon
      BY <1>1, <1>2, <2>2, <3>1, <3>2
    <3> QED
      BY <2>3, <3>3, HorizonOfPublication DEF horizon
  <2> QED
    BY <2>2, <2>3, Clock DEF PublishedBefore, start
<1> QED
  BY <1>5, <1>6

-----------------------------------------------------------------------------
(* Reconstructed inputs.                                                   *)

HistoryOfFacts(history) ==
    /\ history.at \in Nat
    /\ history.wind \subseteq Vintages(Facts) /\ history.consumption \subseteq Vintages(Facts)

\* An earlier issuance has what was known then.
LEMMA IssuanceKnown ==
    ASSUME NEW input, InputOfFacts(input), NEW history, HistoryOfFacts(history), NEW t \in Nat
    PROVE  /\ InputWithin(Reconstruct(input, history, t), Known(t))
           /\ Reconstruct(input, history, t).start = IssuanceSeriesStart(input, t)
<1> DEFINE w == WindowFrom(IssuanceSeriesStart(input, t))
           issuance == Reconstruct(input, history, t)
           vintages(archived) == AsOf(KnownBefore(archived, history.at), t, w.history, w.end)
<1>1. w.start = IssuanceSeriesStart(input, t) /\ w.start \in Int /\ PublishedBefore(w.start, t)
  BY IssuanceStartKnown DEF WindowFrom
<1>2. ASSUME NEW archived, archived \subseteq Vintages(Facts)
      PROVE  vintages(archived) \subseteq Vintages(Facts) /\ \A v \in vintages(archived) : v.issued < t
  BY <1>2 DEF AsOf, KnownBefore
<1>3. ASSUME NEW records, records \subseteq Actuals(Facts)
      PROVE  /\ RecordsBefore(records, w.history, t) \subseteq Actuals(Facts)
             /\ \A r \in RecordsBefore(records, w.history, t) : r.start < t
  BY <1>3 DEF RecordsBefore
<1>4. /\ issuance.prices = Within(input.prices, w.history, w.start)
      /\ issuance.neighbours = [a \in Neighbours |-> Within(input.neighbours[a], w.history, w.start)]
      /\ issuance.windForecast = vintages(history.wind)
      /\ issuance.consumptionForecast = vintages(history.consumption)
      /\ issuance.windActual = RecordsBefore(input.windActual, w.history, t)
      /\ issuance.consumptionActual = RecordsBefore(input.consumptionActual, w.history, t)
      /\ issuance.start = w.start
  BY DEF Reconstruct
<1> HIDE DEF w, issuance, vintages
<1>5. PriceRecords(issuance.prices, issuance.start)
  BY <1>4, WithinRecords DEF InputOfFacts
<1>6. ASSUME NEW a \in Neighbours PROVE PriceRecords(issuance.neighbours[a], issuance.start)
  BY <1>4, WithinRecords DEF InputOfFacts
<1>7. InputOfFacts(issuance)
  BY <1>1, <1>2, <1>3, <1>4, <1>5, <1>6 DEF InputOfFacts, HistoryOfFacts
<1>8. \A f \in issuance.windForecast \union issuance.consumptionForecast : f.issued < t
  BY <1>2, <1>4 DEF HistoryOfFacts
<1>9. \A f \in issuance.windActual \union issuance.consumptionActual : f.start < t
  BY <1>3, <1>4 DEF InputOfFacts
<1>10. \A f \in Facts : IsPrice(f) /\ f.start < issuance.start => PublishedAt(f) <= t
  BY <1>1, <1>4 DEF PublishedBefore
<1>11. InputWithin(issuance, Known(t))
  BY <1>7, <1>8, <1>9, <1>10, InputKnown
<1> QED
  BY <1>1, <1>4, <1>11 DEF issuance

-----------------------------------------------------------------------------
(* Training examples.                                                      *)

\* An example of an issuance before the run: its row was known then, and its
\* price is one of the run's.
ExampleOf(e, input, at) ==
    /\ e = [row |-> e.row, issued |-> e.issued, start |-> e.start, target |-> e.target,
            realised |-> e.realised]
    /\ e.issued \in Nat /\ e.issued < at
    /\ e.row \subseteq Known(e.issued)
    /\ e.start = IssuanceSeriesStart(input, e.issued)
    /\ e.target \in DOMAIN input.prices /\ e.realised = input.prices[e.target]

\* An example of an issuance is a row of its input and a realised price.
LEMMA ExamplesOfIssuance ==
    ASSUME NEW input, InputOfFacts(input), NEW history, HistoryOfFacts(history), NEW opts,
           NEW t \in Nat, t < history.at
    PROVE  \A e \in ExamplesOf(input, opts, Reconstruct(input, history, t), t) :
              ExampleOf(e, input, history.at)
<1> DEFINE issuance == Reconstruct(input, history, t)
           ctx == ContextOf(issuance, GridSeries(issuance, issuance.end))
           targets == Targets(input, issuance)
           rows == [q \in targets |-> ExampleRow(ctx, q, opts.rules)]
<1>1. InputWithin(issuance, Known(t)) /\ issuance.start = IssuanceSeriesStart(input, t)
  BY IssuanceKnown
<1> HIDE DEF issuance
<1>2. ContextWithin(ctx, Known(t))
  BY <1>1, ContextOfInput
<1>3. targets \subseteq DOMAIN input.prices
  BY DEF Targets, Held
<1> HIDE DEF ctx, targets
<1>4. ASSUME NEW q \in targets PROVE rows[q].row \subseteq Known(t)
  BY <1>2, FeaturesWithin DEF ExampleRow
<1>5. KnownRows(rows) \subseteq targets
  BY DEF KnownRows
<1>6. ExamplesOf(input, opts, issuance, t)
        = {[row |-> rows[q].row, issued |-> t, start |-> issuance.start, target |-> q,
            realised |-> input.prices[q]] : q \in KnownRows(rows)}
  BY DEF ExamplesOf, ExamplesIn, ctx, targets
<1> HIDE DEF rows
<1>7. ASSUME NEW q \in KnownRows(rows), NEW e,
             e = [row |-> rows[q].row, issued |-> t, start |-> issuance.start, target |-> q,
                  realised |-> input.prices[q]]
      PROVE  ExampleOf(e, input, history.at)
  BY <1>1, <1>3, <1>4, <1>5, <1>7 DEF ExampleOf
<1> QED
  BY <1>6, <1>7 DEF issuance

\* Its row holds only what was known at its issuance.
LEMMA IssuanceExamplesKnown ==
    ASSUME NEW input, InputOfFacts(input), NEW history, HistoryOfFacts(history), NEW opts
    PROVE  \A e \in BuildIssuanceExamples(input, opts, history) : ExampleOf(e, input, history.at)
<1> DEFINE first == Floor(input.start) - TrainingHistoryDays * Day
           times == {history.at - k * Day : k \in 1..MaxTrainingIssuances}
           reaching == {t \in times : t >= 0 /\ IssuanceSeriesStart(input, t) + ForecastDays * Day > first}
<1>1. ASSUME NEW t \in reaching PROVE t \in Nat /\ t < history.at
  <2>1. PICK k \in 1..MaxTrainingIssuances : t = history.at - k * Day
    OBVIOUS
  <2>2. k \in Nat /\ k > 0 /\ Day \in Nat \ {0} /\ history.at \in Nat
    <3>1. MaxTrainingIssuances \in Nat
      BY ForecastPipelineAssumption DEF MaxTrainingIssuances
    <3> QED
      BY <3>1, Clock DEF HistoryOfFacts
  <2>3. k * Day \in Nat /\ k * Day > 0
    BY <2>2
  <2>4. t >= 0
    OBVIOUS
  <2> QED
    BY <2>1, <2>2, <2>3, <2>4
<1>2. BuildIssuanceExamples(input, opts, history)
        = UNION {ExamplesIfUsable(input, opts, Reconstruct(input, history, t), t) : t \in reaching}
  BY DEF BuildIssuanceExamples
<1> HIDE DEF reaching
<1>3. ASSUME NEW t \in reaching,
             NEW e \in ExamplesIfUsable(input, opts, Reconstruct(input, history, t), t)
      PROVE  ExampleOf(e, input, history.at)
  <2>1. e \in ExamplesOf(input, opts, Reconstruct(input, history, t), t)
    BY DEF ExamplesIfUsable
  <2> QED
    BY <1>1, <2>1, ExamplesOfIssuance
<1> QED
  BY <1>2, <1>3

\* With the correction, the row also has the prices of the profile that the
\* issuance had.
LEMMA CorrectionExamplesKnown ==
    ASSUME NEW input, InputOfFacts(input), NEW history, HistoryOfFacts(history), NEW opts
    PROVE  \A e \in BuildCorrectionExamples(input, opts, history) : ExampleOf(e, input, history.at)
<1> DEFINE Published(e) == Within(input.prices, WindowFrom(e.start).history, e.start)
           Baseline(e) == ProfileOf(opts.shape, e.target, Published(e))
           examples == {e \in BuildIssuanceExamples(input, opts, history) : Baseline(e) # {}}
<1>1. BuildCorrectionExamples(input, opts, history)
        = {[e EXCEPT !.row = @ \union Mean(Published(e), Baseline(e))] : e \in examples}
  BY DEF BuildCorrectionExamples
<1>2. ASSUME NEW e \in examples PROVE ExampleOf(e, input, history.at)
  BY IssuanceExamplesKnown
<1>3. ASSUME NEW e \in examples PROVE Mean(Published(e), Baseline(e)) \subseteq Known(e.issued)
  <2> DEFINE published == Published(e)
             keys == Baseline(e)
  <2>1. e.issued \in Nat /\ e.start = IssuanceSeriesStart(input, e.issued)
    BY <1>2 DEF ExampleOf
  <2>2. PublishedBefore(e.start, e.issued)
    BY <2>1, IssuanceStartKnown
  <2>3. PriceRecords(published, e.start)
    BY WithinRecords DEF InputOfFacts
  <2> HIDE DEF published
  <2>4. ASSUME NEW q \in DOMAIN published, NEW f \in published[q] PROVE f \in Known(e.issued)
    <3>1. f \in Facts /\ IsPrice(f) /\ f.start < e.start
      BY <2>3 DEF PriceRecords
    <3>2. PublishedAt(f) <= e.issued /\ ~IsVintage(f)
      BY <2>2, <3>1, PriceFact DEF PublishedBefore
    <3> QED
      BY <3>1, <3>2 DEF Known, KnownAt
  <2>5. DependsOn(published, Known(e.issued))
    BY <2>4 DEF DependsOn
  <2> HIDE DEF keys
  <2>6. Mean(published, keys) \subseteq Known(e.issued)
    BY <2>5, MeanWithin
  <2> QED
    BY <2>6 DEF published, keys
<1> HIDE DEF examples, Published, Baseline
<1>4. ASSUME NEW e \in examples
      PROVE  ExampleOf([e EXCEPT !.row = @ \union Mean(Published(e), Baseline(e))], input, history.at)
  <2> DEFINE more == Mean(Published(e), Baseline(e))
             f == [e EXCEPT !.row = @ \union more]
  <2>1. PICK row, issued, start, target, realised :
          e = [row |-> row, issued |-> issued, start |-> start, target |-> target,
               realised |-> realised]
    BY <1>2 DEF ExampleOf
  <2>2. more \subseteq Known(e.issued)
    BY <1>3
  <2> HIDE DEF more
  <2>3. f = [row |-> row \union more, issued |-> issued, start |-> start,
             target |-> target, realised |-> realised]
    BY <2>1
  <2> HIDE DEF f
  <2>4. ExampleOf(f, input, history.at)
    BY <1>2, <2>1, <2>2, <2>3 DEF ExampleOf
  <2> QED
    BY <2>4 DEF f, more
<1> QED
  BY <1>1, <1>4

\* Such examples are within what was known at the run, prices included.
LEMMA ExamplesKnown ==
    ASSUME NEW input, NEW t \in Nat, InputWithin(input, Known(t)), NEW examples,
           \A e \in examples : ExampleOf(e, input, t)
    PROVE  ExamplesWithin(examples, Known(t))
<1>1. ASSUME NEW s \in Nat, s < t PROVE Known(s) \subseteq Known(t)
  <2> SUFFICES ASSUME NEW f \in Facts, KnownAt(f, s) PROVE KnownAt(f, t)
    BY DEF Known
  <2>1. f.start \in Int /\ f.issued \in Int
    BY FactsAssumption
  <2>2. CASE IsPrice(f)
    BY <1>1, <2>2, PriceFact DEF KnownAt
  <2>3. CASE ~IsPrice(f) /\ IsVintage(f)
    BY <1>1, <2>1, <2>3 DEF KnownAt, PublishedAt
  <2>4. CASE ~IsPrice(f) /\ ~IsVintage(f)
    BY <1>1, <2>1, <2>4 DEF KnownAt
  <2> QED
    BY <2>2, <2>3, <2>4
<1>2. ASSUME NEW e \in examples PROVE e.row \subseteq Known(t) /\ e.realised \subseteq Known(t)
  <2>1. ExampleOf(e, input, t)
    OBVIOUS
  <2>2. e.row \subseteq Known(t)
    BY <1>1, <2>1 DEF ExampleOf
  <2>3. e.realised \subseteq Known(t)
    BY <2>1 DEF ExampleOf, InputWithin, DependsOn
  <2> QED
    BY <2>2, <2>3
<1> QED
  BY <1>2 DEF ExamplesWithin

-----------------------------------------------------------------------------
(* The replay of an issue time.                                            *)

\* The input of a window: its records are facts, its actuals over at t, and its
\* vintages within the bound.
ReadAt(input, start, t, bound) ==
    /\ InputOfFacts(input) /\ input.start = start
    /\ \A f \in input.windForecast \union input.consumptionForecast :
         \A b \in bound : f.issued < b
    /\ \A f \in input.windActual \union input.consumptionActual : f.start < t

\* Both inputs of a replay hold stored facts.
LEMMA KnownInputOfFacts ==
    ASSUME NEW data, data \subseteq Facts, NEW t \in Int, NEW start \in Int, NEW from, NEW bound,
           NEW input, input = KnownInput(data, t, WindowFrom(start), from, bound)
    PROVE  ReadAt(input, start, t, bound)
<1> DEFINE window == WindowFrom(start)
           prices == Starting(Prices(data), from, window.start)
           vintages == Starting(SelectVintagesAsOf(Vintages(data), bound), window.history, window.end)
           actuals == Starting(Actuals(data), from, Min({t, window.end}))
           grid == vintages \union actuals
<1>1. window.start = start /\ window.end \in Int
  <2>1. ForecastDays \in Nat /\ Day \in Nat
    BY Clock, ForecastPipelineAssumption
  <2>2. ForecastDays * Day \in Nat
    BY <2>1
  <2> QED
    BY <2>2 DEF WindowFrom
<1>2. input = Input(prices, grid, window)
  BY DEF KnownInput
<1> HIDE DEF window
<1>3. \A f \in prices : f \in Facts /\ IsPrice(f) /\ f.start < start
  BY <1>1 DEF Starting, Prices
<1>4. \A f \in vintages : f \in Facts /\ IsVintage(f) /\ \A b \in bound : f.issued < b
  BY DEF Starting, SelectVintagesAsOf, NewestPerTarget, Vintages
<1>5. \A f \in actuals : f \in Facts /\ ~IsVintage(f) /\ ~IsPrice(f) /\ f.start < t
  <2> DEFINE limit == Min({t, window.end})
  <2>1. limit \in Int /\ limit <= t
    <3> DEFINE end == window.end
    <3>1. end \in Int
      BY <1>1
    <3> HIDE DEF end
    <3>2. Min({t, end}) \in {t, end} /\ Min({t, end}) <= t
      BY <3>1, OfTwo
    <3> QED
      BY <3>1, <3>2 DEF end
  <2> HIDE DEF limit
  <2>2. actuals = Starting(Actuals(data), from, limit)
    BY DEF limit
  <2> HIDE DEF actuals
  <2>3. ASSUME NEW f \in actuals PROVE f \in Facts /\ ~IsVintage(f) /\ ~IsPrice(f) /\ f.start < t
    <3>1. f \in Facts /\ ~IsVintage(f) /\ ~IsPrice(f) /\ f.start < limit
      BY <2>2 DEF Starting, Actuals
    <3>2. f.start \in Int
      BY <3>1, FactsAssumption
    <3> QED
      BY <2>1, <3>1, <3>2
  <2> QED
    BY <2>3
<1> HIDE DEF prices, vintages, actuals
<1>6. ASSUME NEW area PROVE PriceRecords(PriceMap(Of(prices, area)), start)
  <2>1. \A f \in Of(prices, area) : f \in Facts /\ IsPrice(f) /\ f.start < start
    BY <1>3 DEF Of
  <2> QED
    BY <2>1, PriceMapRecords
<1>7. /\ input.prices = PriceMap(Of(prices, Fi))
      /\ input.neighbours = [a \in Neighbours |-> PriceMap(Of(prices, a))]
      /\ input.windForecast = Of(grid, "windForecast")
      /\ input.windActual = Of(grid, "windActual")
      /\ input.consumptionForecast = Of(grid, "consumptionForecast")
      /\ input.consumptionActual = Of(grid, "consumptionActual")
      /\ input.start = start
  BY <1>1, <1>2 DEF Input
<1>8. ASSUME NEW f \in input.windForecast \union input.consumptionForecast
      PROVE  f \in vintages
  BY <1>5, <1>7 DEF Of, IsVintage
<1>9. ASSUME NEW f \in input.windActual \union input.consumptionActual
      PROVE  f \in actuals
  BY <1>4, <1>7 DEF Of, IsVintage
<1>10. InputOfFacts(input)
  <2>1. PriceRecords(input.prices, input.start)
    BY <1>6, <1>7
  <2>2. \A a \in Neighbours : PriceRecords(input.neighbours[a], input.start)
    BY <1>6, <1>7
  <2>3. /\ input.windForecast \subseteq Vintages(Facts)
        /\ input.consumptionForecast \subseteq Vintages(Facts)
    BY <1>4, <1>8 DEF Vintages
  <2>4. /\ input.windActual \subseteq Actuals(Facts)
        /\ input.consumptionActual \subseteq Actuals(Facts)
    BY <1>5, <1>9 DEF Actuals
  <2> QED
    BY <1>7, <2>1, <2>2, <2>3, <2>4 DEF InputOfFacts
<1>11. \A f \in input.windForecast \union input.consumptionForecast : \A b \in bound : f.issued < b
  BY <1>4, <1>8
<1>12. \A f \in input.windActual \union input.consumptionActual : f.start < t
  BY <1>5, <1>9
<1>13. input.start = start
  BY <1>7
<1> QED
  BY <1>10, <1>11, <1>12, <1>13 DEF ReadAt

\* The inputs of an issue time, by their parts.
LEMMA ReplayParts ==
    ASSUME NEW data, data \subseteq Facts, NEW t \in Nat, NEW mode
    PROVE  \E start, from, older :
             /\ start \in Int
             /\ start = SeriesStart(PublishedStarts(data, t), t)
             /\ PublishedBefore(start, t)
             /\ from = start - FloorHistoryDays * Day
             /\ older = from - CorrectionHistoryDays * Day
             /\ ReconstructIssueTime(data, t, mode)
                  = [at |-> t,
                     input |-> KnownInput(data, t, WindowFrom(start), from, VintageBound(mode, t)),
                     wide |-> KnownInput(data, t, WindowFrom(start), older, VintageBound(mode, t)),
                     history |-> Ladders(Starting(Vintages(data), from, WindowFrom(start).end),
                                         t, VintageBound(mode, t))]
<1> DEFINE start == SeriesStart(PublishedStarts(data, t), t)
           from == start - FloorHistoryDays * Day
           older == from - CorrectionHistoryDays * Day
<1>1. start \in Int /\ PublishedBefore(start, t)
  BY SeriesStartKnown
<1>2. WindowFrom(start).history = from
  BY DEF WindowFrom
<1>3. ReconstructIssueTime(data, t, mode)
        = [at |-> t,
           input |-> KnownInput(data, t, WindowFrom(start), from, VintageBound(mode, t)),
           wide |-> KnownInput(data, t, WindowFrom(start), older, VintageBound(mode, t)),
           history |-> Ladders(Starting(Vintages(data), from, WindowFrom(start).end),
                               t, VintageBound(mode, t))]
  BY <1>2 DEF ReconstructIssueTime
<1>4. start = SeriesStart(PublishedStarts(data, t), t)
  OBVIOUS
<1> HIDE DEF start
<1> QED
  BY <1>1, <1>3, <1>4

\* A replay reads facts, and at its issue time only what was known then.
LEMMA ReplayOfFacts ==
    ASSUME NEW data, data \subseteq Facts, NEW t \in Nat, NEW mode, NEW inputs,
           inputs = ReconstructIssueTime(data, t, mode)
    PROVE  /\ inputs.at = t /\ inputs.history.at = t
           /\ InputOfFacts(inputs.input) /\ InputOfFacts(inputs.wide)
           /\ inputs.input.start = inputs.wide.start /\ PublishedBefore(inputs.input.start, t)
           /\ HistoryOfFacts(inputs.history)
<1>1. PICK start, from, older :
        /\ start \in Int
        /\ start = SeriesStart(PublishedStarts(data, t), t)
        /\ PublishedBefore(start, t)
        /\ from = start - FloorHistoryDays * Day
        /\ older = from - CorrectionHistoryDays * Day
        /\ inputs
             = [at |-> t,
                input |-> KnownInput(data, t, WindowFrom(start), from, VintageBound(mode, t)),
                wide |-> KnownInput(data, t, WindowFrom(start), older, VintageBound(mode, t)),
                history |-> Ladders(Starting(Vintages(data), from, WindowFrom(start).end),
                                    t, VintageBound(mode, t))]
  BY ReplayParts
<1>2. /\ inputs.at = t
      /\ inputs.input = KnownInput(data, t, WindowFrom(start), from, VintageBound(mode, t))
      /\ inputs.wide = KnownInput(data, t, WindowFrom(start), older, VintageBound(mode, t))
      /\ inputs.history = Ladders(Starting(Vintages(data), from, WindowFrom(start).end),
                                  t, VintageBound(mode, t))
  BY <1>1
<1>3. ASSUME NEW since, NEW input,
             input = KnownInput(data, t, WindowFrom(start), since, VintageBound(mode, t))
      PROVE  InputOfFacts(input) /\ input.start = start
  <2>1. t \in Int /\ start \in Int
    BY <1>1
  <2>2. ReadAt(input, start, t, VintageBound(mode, t))
    BY <1>3, <2>1, KnownInputOfFacts
  <2> QED
    BY <2>2 DEF ReadAt
<1>4. /\ InputOfFacts(inputs.input) /\ inputs.input.start = start
      /\ InputOfFacts(inputs.wide) /\ inputs.wide.start = start
  BY <1>2, <1>3
<1>5. HistoryOfFacts(inputs.history) /\ inputs.history.at = t
  <2> DEFINE vintages == Starting(Vintages(data), from, WindowFrom(start).end)
  <2>1. vintages \subseteq Vintages(Facts)
    BY DEF Starting, Vintages
  <2>2. inputs.history = Ladders(vintages, t, VintageBound(mode, t))
    BY <1>2
  <2> HIDE DEF vintages
  <2> QED
    BY <2>1, <2>2 DEF Ladders, Of, HistoryOfFacts
<1> QED
  BY <1>1, <1>2, <1>4, <1>5

\* And in the mode of the issue time only known ones.
LEMMA ReplayKnown ==
    ASSUME NEW data, data \subseteq Facts, NEW t \in Nat, NEW inputs,
           inputs = ReconstructIssueTime(data, t, "IssueTime")
    PROVE  InputWithin(inputs.input, Known(t)) /\ InputWithin(inputs.wide, Known(t))
<1>1. PICK start, from, older :
        /\ start \in Int
        /\ start = SeriesStart(PublishedStarts(data, t), t)
        /\ PublishedBefore(start, t)
        /\ from = start - FloorHistoryDays * Day
        /\ older = from - CorrectionHistoryDays * Day
        /\ inputs
             = [at |-> t,
                input |-> KnownInput(data, t, WindowFrom(start), from, VintageBound("IssueTime", t)),
                wide |-> KnownInput(data, t, WindowFrom(start), older, VintageBound("IssueTime", t)),
                history |-> Ladders(Starting(Vintages(data), from, WindowFrom(start).end),
                                    t, VintageBound("IssueTime", t))]
  BY ReplayParts
<1> DEFINE bound == VintageBound("IssueTime", t)
<1>2. bound = {t}
  BY DEF VintageBound
<1> HIDE DEF bound
<1>3. ASSUME NEW since, NEW input, input = KnownInput(data, t, WindowFrom(start), since, bound)
      PROVE  InputWithin(input, Known(t))
  <2>1. /\ InputOfFacts(input) /\ input.start = start
        /\ \A f \in input.windForecast \union input.consumptionForecast : f.issued < t
        /\ \A f \in input.windActual \union input.consumptionActual : f.start < t
    <3>1. /\ t \in Int /\ start \in Int
          /\ input = KnownInput(data, t, WindowFrom(start), since, bound)
      BY <1>1, <1>3
    <3>2. ReadAt(input, start, t, bound)
      BY <3>1, KnownInputOfFacts
    <3> QED
      BY <1>2, <3>2 DEF ReadAt
  <2>2. \A f \in Facts : IsPrice(f) /\ f.start < input.start => PublishedAt(f) <= t
    BY <1>1, <2>1 DEF PublishedBefore
  <2> QED
    BY <2>1, <2>2, InputKnown
<1>4. /\ inputs.input = KnownInput(data, t, WindowFrom(start), from, bound)
      /\ inputs.wide = KnownInput(data, t, WindowFrom(start), older, bound)
  BY <1>1 DEF bound
<1> QED
  BY <1>3, <1>4

\* What a replayed forecast and its examples depend on.
LEMMA ReplayedForecastKnown ==
    ASSUME NEW data, data \subseteq Facts, NEW t \in Nat, NEW variant, NEW inputs,
           inputs = ReconstructIssueTime(data, t, "IssueTime")
    PROVE  /\ \A q \in DOMAIN ForecastAtIssueTime(inputs, variant).series :
                ForecastAtIssueTime(inputs, variant).series[q].from \subseteq Known(t)
           /\ \A e \in ForecastAtIssueTime(inputs, variant).examples :
                e.row \subseteq Known(e.issued)
<1> DEFINE training == IssuanceExamplesAt(inputs, variant)
           corrections == CorrectionExamplesAt(inputs, variant)
<1>1. /\ inputs.at = t /\ inputs.history.at = t
      /\ InputOfFacts(inputs.input) /\ InputOfFacts(inputs.wide)
      /\ HistoryOfFacts(inputs.history)
  BY ReplayOfFacts
<1>2. InputWithin(inputs.input, Known(t)) /\ InputWithin(inputs.wide, Known(t))
  BY ReplayKnown
<1>3. \A e \in training : ExampleOf(e, inputs.input, t)
  BY <1>1, IssuanceExamplesKnown DEF IssuanceExamplesAt
<1>4. \A e \in corrections : ExampleOf(e, inputs.wide, t)
  BY <1>1, CorrectionExamplesKnown DEF CorrectionExamplesAt
<1> HIDE DEF training, corrections
<1>5. ExamplesWithin(training, Known(t)) /\ ExamplesWithin(corrections, Known(t))
  BY <1>2, <1>3, <1>4, ExamplesKnown
<1>6. /\ ForecastAtIssueTime(inputs, variant).series
           = BuildForecast(inputs.input, variant, training, corrections).series
      /\ ForecastAtIssueTime(inputs, variant).examples = training \union corrections
  BY DEF ForecastAtIssueTime, ForecastFrom, training, corrections
<1>7. LET series == BuildForecast(inputs.input, variant, training, corrections).series IN
      \A q \in DOMAIN series : series[q].from \subseteq Known(t)
  BY <1>2, <1>5, ForecastWithin
<1> QED
  BY <1>3, <1>4, <1>6, <1>7 DEF ExampleOf

\* The origins of a run are instants.
LEMMA OriginsAreInstants == Origins \subseteq Nat
<1> DEFINE days == PriceDays
<1>1. ASSUME NEW f \in Of(Data, Fi) PROVE UtcDay(f.start) \in Nat
  <2>1. f \in Facts
    BY DEF Of, Data
  <2>2. f.start \in Nat
    BY <2>1, FactsAssumption, MarketZoneAssumption
  <2> QED
    BY <2>2, Clock, Division DEF UtcDay
<1>2. IsFiniteSet(days)
  <2> DEFINE S == Of(Data, Fi)
             dayOf == [f \in S |-> UtcDay(f.start)]
             image == {dayOf[f] : f \in S}
  <2>1. S \subseteq Facts
    BY DEF Of, Data
  <2>2. IsFiniteSet(S)
    BY <2>1, FactsAssumption, FS_Subset
  <2>3. dayOf = [f \in S |-> dayOf[f]] /\ image = days
    BY DEF PriceDays
  <2> HIDE DEF days, dayOf, S
  <2>4. IsFiniteSet(image)
    BY <2>2, <2>3, FiniteImage
  <2> QED
    BY <2>3, <2>4
<1>3. days \subseteq Nat
  BY <1>1 DEF PriceDays
<1> HIDE DEF days
<1>4. ASSUME days # {}, NEW d \in Min(days)..Max(days) PROVE OriginOf(d) \in Nat
  <2>1. Min(days) \in days /\ Max(days) \in days
    <3>1. days \subseteq Int
      BY <1>3
    <3> QED
      BY <1>2, <1>4, <3>1, Ends
  <2> DEFINE first == Min(days)
             last == Max(days)
  <2>5. first \in Nat /\ last \in Nat /\ d \in first..last
    BY <1>3, <1>4, <2>1
  <2> HIDE DEF first, last
  <2>2. d \in Nat
    BY <2>5
  <2>3. Day \in Nat /\ Hour \in Nat /\ PublicationHour + 1 \in Nat
    BY Clock, PublicationAssumption
  <2>4. d * Day \in Nat /\ (PublicationHour + 1) * Hour \in Nat
    BY <2>2, <2>3
  <2> QED
    BY <2>4 DEF OriginOf
<1> QED
  BY <1>4 DEF Origins, days

-----------------------------------------------------------------------------
(* The steps of the backtest.                                              *)

\* The outcome of the one run of a behaviour.
Outcome ==
    \/ UNCHANGED run
    \/ /\ UNCHANGED missed
       /\ \/ \E now \in BuildTimes :
               run' = [kind |-> "build", at |-> now,
                       answer |-> ForecastForRoute(LoadInputs(StoreAt(Data, now), now))]
          \/ \E t \in Nat, mode \in {"IssueTime", "Latest"}, variant \in Variants :
               run' = Replay(Data, t, mode, variant)
          \/ run' = [kind |-> "skipped"]
          \/ \E mode \in {"IssueTime", "Latest"} : \E other :
               run' = Comparison(Data, Served, mode, other)

\* No step follows a run.
LEMMA OneRun ==
    ASSUME [Next]_domainVars
    PROVE  UNCHANGED backtestVars \/ (run.kind = "none" /\ Outcome)
<1>1. CASE BacktestNext
  <2>1. ASSUME NEW fact \in Gaps, Miss(fact) PROVE run.kind = "none" /\ Outcome
    BY <2>1 DEF Miss, Outcome
  <2>2. ASSUME NEW now \in BuildTimes, Build(now) PROVE run.kind = "none" /\ Outcome
    BY <2>2 DEF Build, Outcome
  <2>3. ASSUME NEW t \in Origins, NEW mode \in {"IssueTime", "Latest"}, NEW variant \in Variants,
               NEW restriction \in {{}, {Restriction}}, ReplayOrigin(t, mode, variant, restriction)
        PROVE  run.kind = "none" /\ Outcome
    BY <2>3, OriginsAreInstants DEF ReplayOrigin, Outcome
  <2>4. ASSUME CompareOptimism PROVE run.kind = "none" /\ Outcome
    BY <2>4 DEF CompareOptimism, Outcome
  <2>5. ASSUME NEW b \in Variants, CompareVariants(Served, b) PROVE run.kind = "none" /\ Outcome
    BY <2>5 DEF CompareVariants, Outcome
  <2> QED
    BY <1>1, <2>1, <2>2, <2>3, <2>4, <2>5 DEF BacktestNext
<1>2. CASE ~BacktestNext
  BY <1>2 DEF Next, domainVars, backtestVars
<1> QED
  BY <1>1, <1>2

\* What a run is of each kind.
LEMMA ReplayedRun ==
    ASSUME run.kind = "none", Outcome, run'.kind = "replayed"
    PROVE  /\ UNCHANGED missed
           /\ \E t \in Nat, mode \in {"IssueTime", "Latest"}, variant \in Variants :
                /\ HasGridData(ReconstructIssueTime(Data, t, mode).input)
                /\ run' = Replayed(ReconstructIssueTime(Data, t, mode), mode,
                                   ForecastAtIssueTime(ReconstructIssueTime(Data, t, mode), variant))
<1>1. ASSUME NEW mode \in {"IssueTime", "Latest"}, NEW other,
             run' = Comparison(Data, Served, mode, other)
      PROVE  run'.kind = "compared"
  BY <1>1 DEF Comparison, SecondArm, Compared
<1>2. PICK t \in Nat, mode \in {"IssueTime", "Latest"}, variant \in Variants :
        run' = Replay(Data, t, mode, variant) /\ UNCHANGED missed
  BY <1>1 DEF Outcome
<1>3. /\ HasGridData(ReconstructIssueTime(Data, t, mode).input)
      /\ run' = Replayed(ReconstructIssueTime(Data, t, mode), mode,
                         ForecastAtIssueTime(ReconstructIssueTime(Data, t, mode), variant))
  BY <1>2 DEF Replay, ReplayFrom
<1> QED
  BY <1>2, <1>3

\* A build is of the store at its time.
LEMMA BuildRun ==
    ASSUME run.kind = "none", Outcome, run'.kind = "build"
    PROVE  /\ UNCHANGED missed
           /\ \E now \in BuildTimes :
                run' = [kind |-> "build", at |-> now,
                        answer |-> ForecastForRoute(LoadInputs(StoreAt(Data, now), now))]
<1>1. ASSUME NEW mode \in {"IssueTime", "Latest"}, NEW other,
             run' = Comparison(Data, Served, mode, other)
      PROVE  run'.kind = "compared"
  BY <1>1 DEF Comparison, SecondArm, Compared
<1>2. ASSUME NEW t \in Nat, NEW mode \in {"IssueTime", "Latest"}, NEW variant \in Variants,
             run' = Replay(Data, t, mode, variant)
      PROVE  run'.kind \in {"replayed", "no grid data"}
  BY <1>2 DEF Replay, ReplayFrom, Replayed
<1> QED
  BY <1>1, <1>2 DEF Outcome

-----------------------------------------------------------------------------
(* No look-ahead, and the guard against it.                                *)

\* A replayed forecast.
LEMMA NoLookAheadOf ==
    ASSUME NEW data, data \subseteq Facts, NEW t \in Nat, NEW variant, NEW inputs,
           inputs = ReconstructIssueTime(data, t, "IssueTime"), NEW forecast,
           forecast = ForecastAtIssueTime(inputs, variant)
    PROVE  LET replayed == Replayed(inputs, "IssueTime", forecast) IN
           /\ \A f \in replayed.from : KnownAt(f, replayed.at)
           /\ \A e \in replayed.examples : \A f \in e.row : KnownAt(f, e.issued)
<1> DEFINE replayed == Replayed(inputs, "IssueTime", forecast)
<1>1. /\ \A q \in DOMAIN forecast.series : forecast.series[q].from \subseteq Known(t)
      /\ \A e \in forecast.examples : e.row \subseteq Known(e.issued)
  BY ReplayedForecastKnown
<1>2. inputs.at = t
  BY ReplayOfFacts
<1>3. /\ replayed.at = t /\ replayed.examples = forecast.examples
      /\ replayed.from = UNION {point.from : point \in Range(forecast.series)}
  BY <1>2 DEF Replayed
<1> HIDE DEF replayed
<1>4. \A f \in replayed.from : f \in Known(t)
  BY <1>1, <1>3 DEF Range
<1>5. \A f \in replayed.from : KnownAt(f, replayed.at)
  BY <1>3, <1>4 DEF Known
<1>6. \A e \in replayed.examples : \A f \in e.row : KnownAt(f, e.issued)
  BY <1>1, <1>3 DEF Known
<1> QED
  BY <1>5, <1>6 DEF replayed

\* NoLookAhead: the backtest's forecast of an issue time depends on nothing that
\* was not known then, its training examples on nothing unknown at theirs.
THEOREM NothingFromTheFuture == Spec => []NoLookAhead
<1>1. Init => NoLookAhead
  BY DEF Init, BacktestInit, NoLookAhead
<1>2. NoLookAhead /\ [Next]_domainVars => NoLookAhead'
  <2> SUFFICES ASSUME NoLookAhead, [Next]_domainVars PROVE NoLookAhead'
    OBVIOUS
  <2>1. CASE UNCHANGED backtestVars
    BY <2>1 DEF backtestVars, NoLookAhead
  <2>2. CASE run.kind = "none" /\ Outcome
    <3> SUFFICES ASSUME run'.kind = "replayed", run'.mode = "IssueTime"
                 PROVE  /\ \A f \in run'.from : KnownAt(f, run'.at)
                        /\ \A e \in run'.examples : \A f \in e.row : KnownAt(f, e.issued)
      BY DEF NoLookAhead
    <3>1. PICK t \in Nat, mode \in {"IssueTime", "Latest"}, variant \in Variants :
            run' = Replayed(ReconstructIssueTime(Data, t, mode), mode,
                            ForecastAtIssueTime(ReconstructIssueTime(Data, t, mode), variant))
      BY <2>2, ReplayedRun
    <3>2. mode = "IssueTime"
      BY <3>1 DEF Replayed
    <3>3. Data \subseteq Facts
      BY DEF Data
    <3> DEFINE data == Data
               inputs == ReconstructIssueTime(data, t, "IssueTime")
               forecast == ForecastAtIssueTime(inputs, variant)
               replayed == Replayed(inputs, "IssueTime", forecast)
    <3>4. run' = replayed
      BY <3>1, <3>2
    <3>5. /\ \A f \in replayed.from : KnownAt(f, replayed.at)
          /\ \A e \in replayed.examples : \A f \in e.row : KnownAt(f, e.issued)
      <4>1. data \subseteq Facts
        BY <3>3
      <4> HIDE DEF data
      <4> QED
        BY <4>1, NoLookAheadOf
    <3> HIDE DEF replayed
    <3> QED
      BY <3>4, <3>5
  <2> QED
    BY <2>1, <2>2, OneRun
<1> QED
  BY <1>1, <1>2, PTL DEF Spec

\* What the guard inspects are facts.
Inspected(inputs) ==
    FactsOf(inputs.wide) \union inputs.history.wind \union inputs.history.consumption

\* They are facts, and the prices among them lie before the window.
LEMMA InspectedFacts ==
    ASSUME NEW inputs, InputOfFacts(inputs.wide), HistoryOfFacts(inputs.history)
    PROVE  \A f \in Inspected(inputs) :
              f \in Facts /\ (IsPrice(f) => f.start < inputs.wide.start)
<1> DEFINE input == inputs.wide
<1>1. ASSUME NEW map, PriceRecords(map, input.start), NEW f \in UNION Range(map)
      PROVE  f \in Facts /\ (IsPrice(f) => f.start < input.start)
  BY <1>1 DEF PriceRecords, Range
<1>2. ASSUME NEW f \in UNION Range(input.prices)
      PROVE  f \in Facts /\ (IsPrice(f) => f.start < input.start)
  BY <1>1 DEF InputOfFacts
<1>3. ASSUME NEW a \in Neighbours, NEW f \in UNION Range(input.neighbours[a])
      PROVE  f \in Facts /\ (IsPrice(f) => f.start < input.start)
  BY <1>1 DEF InputOfFacts
<1>4. ASSUME NEW f, f \in Vintages(Facts) \union Actuals(Facts)
      PROVE  f \in Facts /\ (IsPrice(f) => f.start < input.start)
  BY <1>4, OneKind DEF Vintages, Actuals
<1>5. ASSUME NEW f \in Inspected(inputs)
      PROVE  \/ f \in UNION Range(input.prices)
             \/ \E a \in Neighbours : f \in UNION Range(input.neighbours[a])
             \/ f \in Vintages(Facts) \union Actuals(Facts)
  <2> DEFINE areas == {UNION Range(input.neighbours[a]) : a \in Neighbours}
             grid == input.windForecast \union input.windActual
                       \union input.consumptionForecast \union input.consumptionActual
                       \union inputs.history.wind \union inputs.history.consumption
  <2>0. FactsOf(input)
          = (UNION Range(input.prices)) \union (UNION areas)
              \union input.windForecast \union input.windActual
              \union input.consumptionForecast \union input.consumptionActual
    BY DEF FactsOf
  <2>1. \/ f \in UNION Range(input.prices)
        \/ f \in UNION areas
        \/ f \in grid
    <3> HIDE DEF areas
    <3> QED
      BY <2>0 DEF Inspected
  <2>2. ASSUME f \in UNION areas PROVE \E a \in Neighbours : f \in UNION Range(input.neighbours[a])
    BY <2>2
  <2>3. grid \subseteq Vintages(Facts) \union Actuals(Facts)
    BY DEF InputOfFacts, HistoryOfFacts
  <2> HIDE DEF areas, grid
  <2> QED
    BY <2>1, <2>2, <2>3
<1> QED
  BY <1>2, <1>3, <1>4, <1>5

\* The test of the guard, one fact at a time.
LEMMA LeakIsUnknown ==
    ASSUME NEW inputs, NEW t \in Int, inputs.at = t, PublishedBefore(inputs.input.start, t),
           inputs.input.start \in Int,
           NEW f \in Facts, IsPrice(f) => f.start < inputs.input.start
    PROVE  (IF IsPrice(f) THEN f.start >= inputs.input.start
            ELSE IF IsVintage(f) THEN f.issued >= inputs.at
            ELSE f.start >= inputs.at) <=> ~KnownAt(f, t)
<1>1. f.start \in Int /\ f.issued \in Int
  BY FactsAssumption
<1>2. CASE IsPrice(f)
  <2>1. PublishedAt(f) <= t /\ ~IsVintage(f)
    BY <1>2, PriceFact DEF PublishedBefore
  <2>2. KnownAt(f, t)
    BY <1>2, <2>1 DEF KnownAt
  <2>3. ~(f.start >= inputs.input.start)
    BY <1>1, <1>2
  <2> QED
    BY <1>2, <2>2, <2>3
<1>3. CASE ~IsPrice(f) /\ IsVintage(f)
  <2>1. KnownAt(f, t) <=> f.issued < t
    BY <1>1, <1>3 DEF KnownAt, PublishedAt
  <2> QED
    BY <1>1, <1>3, <2>1
<1>4. CASE ~IsPrice(f) /\ ~IsVintage(f)
  <2>1. KnownAt(f, t) <=> f.start < t
    BY <1>4 DEF KnownAt
  <2> QED
    BY <1>1, <1>4, <2>1
<1> QED
  BY <1>2, <1>3, <1>4

\* So the guard is exact for each replay.
LEMMA GuardOf ==
    ASSUME NEW data, data \subseteq Facts, NEW t \in Nat, NEW mode, NEW inputs,
           inputs = ReconstructIssueTime(data, t, mode)
    PROVE  FindLeakingInputs(inputs) = {} <=> \A f \in Inspected(inputs) : KnownAt(f, inputs.at)
<1>1. /\ inputs.at = t
      /\ InputOfFacts(inputs.input) /\ InputOfFacts(inputs.wide)
      /\ inputs.input.start = inputs.wide.start /\ PublishedBefore(inputs.input.start, t)
      /\ HistoryOfFacts(inputs.history)
  BY ReplayOfFacts
<1>2. ASSUME NEW f \in Inspected(inputs)
      PROVE  (IF IsPrice(f) THEN f.start >= inputs.input.start
              ELSE IF IsVintage(f) THEN f.issued >= inputs.at
              ELSE f.start >= inputs.at) <=> ~KnownAt(f, t)
  <2>1. f \in Facts /\ (IsPrice(f) => f.start < inputs.input.start)
    BY <1>1, InspectedFacts
  <2>2. inputs.input.start \in Int /\ t \in Int
    BY <1>1 DEF InputOfFacts
  <2> QED
    BY <1>1, <2>1, <2>2, LeakIsUnknown
<1>3. FindLeakingInputs(inputs)
        = {f \in Inspected(inputs) :
             IF IsPrice(f) THEN f.start >= inputs.input.start
             ELSE IF IsVintage(f) THEN f.issued >= inputs.at
             ELSE f.start >= inputs.at}
  BY DEF FindLeakingInputs, Inspected
<1> QED
  BY <1>1, <1>2, <1>3

\* GuardFindsEveryLeak: the guard of the backtest reports a leak exactly when
\* something that the inputs hold was not known at the issue time.
THEOREM GuardIsExact == Spec => []GuardFindsEveryLeak
<1>1. Init => GuardFindsEveryLeak
  BY DEF Init, BacktestInit, GuardFindsEveryLeak
<1>2. GuardFindsEveryLeak /\ [Next]_domainVars => GuardFindsEveryLeak'
  <2> SUFFICES ASSUME GuardFindsEveryLeak, [Next]_domainVars PROVE GuardFindsEveryLeak'
    OBVIOUS
  <2>1. CASE UNCHANGED backtestVars
    BY <2>1 DEF backtestVars, GuardFindsEveryLeak
  <2>2. CASE run.kind = "none" /\ Outcome
    <3> SUFFICES ASSUME run'.kind = "replayed"
                 PROVE  run'.leaking = {} <=> \A f \in Inspected(run'.inputs) : KnownAt(f, run'.at)
      BY DEF GuardFindsEveryLeak, Inspected
    <3>1. PICK t \in Nat, mode \in {"IssueTime", "Latest"}, variant \in Variants :
            run' = Replayed(ReconstructIssueTime(Data, t, mode), mode,
                            ForecastAtIssueTime(ReconstructIssueTime(Data, t, mode), variant))
      BY <2>2, ReplayedRun
    <3> DEFINE inputs == ReconstructIssueTime(Data, t, mode)
    <3>2. run'.inputs = inputs /\ run'.at = inputs.at /\ run'.leaking = FindLeakingInputs(inputs)
      BY <3>1 DEF Replayed
    <3>3. FindLeakingInputs(inputs) = {} <=> \A f \in Inspected(inputs) : KnownAt(f, inputs.at)
      <4>1. Data \subseteq Facts
        BY DEF Data
      <4> QED
        BY <4>1, GuardOf
    <3> HIDE DEF inputs
    <3> QED
      BY <3>2, <3>3
  <2> QED
    BY <2>1, <2>2, OneRun
<1> QED
  BY <1>1, <1>2, PTL DEF Spec

-----------------------------------------------------------------------------
(* The replay and the route.                                               *)

\* A quarter map without a quarter is no map, and no other map is.
LEMMA EmptyPriceMap ==
    ASSUME NEW S
    PROVE  PriceMap(S) = NoValues <=> {f.start : f \in S} = {}
<1> DEFINE starts == {f.start : f \in S}
<1>1. DOMAIN PriceMap(S) = starts
  BY DEF PriceMap
<1>2. DOMAIN NoValues = {}
  BY DEF NoValues
<1>3. ASSUME starts = {} PROVE PriceMap(S) = NoValues
  <2>1. S = {}
    BY <1>3
  <2>2. PriceMap(S) = [q \in {} |-> {f \in S : f.start = q}]
    BY <2>1 DEF PriceMap
  <2>3. NoValues = [q \in {} |-> {f \in S : f.start = q}]
    BY DEF NoValues
  <2> QED
    BY <2>2, <2>3
<1> HIDE DEF starts
<1>4. ASSUME PriceMap(S) = NoValues PROVE starts = {}
  BY <1>1, <1>2, <1>4
<1> QED
  BY <1>3, <1>4 DEF starts

\* The store of an issue time, without the vintages of that hour.
StoredBefore(data, t) == {f \in StoreAt(data, t) : IsVintage(f) => f.issued < t}

\* It has the data that the reconstruction selects.
LEMMA StoredFacts ==
    ASSUME NEW data, data \subseteq Facts, NEW t \in Nat
    PROVE  /\ Prices(StoredBefore(data, t)) = {f \in Prices(data) : f.start < PublicationHorizon(t)}
           /\ Vintages(StoredBefore(data, t)) = {f \in Vintages(data) : f.issued < t}
           /\ Actuals(StoredBefore(data, t)) = {f \in Actuals(data) : f.start < t}
<1> DEFINE store == StoredBefore(data, t)
<1>1. ASSUME NEW f \in data, IsPrice(f) PROVE f \in store <=> f.start < PublicationHorizon(t)
  <2>1. f \in Facts /\ ~IsVintage(f)
    BY <1>1, PriceFact
  <2>2. f \in store <=> PublishedAt(f) <= t
    BY <1>1, <2>1 DEF StoredBefore, StoreAt
  <2> QED
    BY <1>1, <2>1, <2>2, HorizonOfPublication
<1>2. ASSUME NEW f \in data, IsVintage(f) PROVE f \in store <=> f.issued < t
  <2>1. f \in Facts /\ ~IsPrice(f) /\ f.issued \in Int
    BY <1>2, OneKind, FactsAssumption
  <2>2. PublishedAt(f) = f.issued
    BY <2>1 DEF PublishedAt
  <2> QED
    BY <1>2, <2>1, <2>2 DEF StoredBefore, StoreAt
<1>3. ASSUME NEW f \in data, ~IsPrice(f), ~IsVintage(f) PROVE f \in store <=> f.start < t
  BY <1>3 DEF StoredBefore, StoreAt
<1>4. store \subseteq data
  BY DEF StoredBefore, StoreAt
<1> HIDE DEF store
<1>5. Prices(store) = {f \in Prices(data) : f.start < PublicationHorizon(t)}
  BY <1>1, <1>4 DEF Prices
<1>6. Vintages(store) = {f \in Vintages(data) : f.issued < t}
  BY <1>2, <1>4 DEF Vintages
<1>7. Actuals(store) = {f \in Actuals(data) : f.start < t}
  BY <1>3, <1>4 DEF Actuals
<1> QED
  BY <1>5, <1>6, <1>7 DEF store

\* The window that the route takes is that of the replay.
LEMMA SameWindow ==
    ASSUME NEW data, data \subseteq Facts, NEW t \in Nat
    PROVE  ForecastWindow(PriceMap(Of(StoredBefore(data, t), Fi)), t)
             = WindowFrom(SeriesStart(PublishedStarts(data, t), t))
<1> DEFINE fi == Of(StoredBefore(data, t), Fi)
           starts == {f.start : f \in fi}
<1>1. fi = {f \in Of(data, Fi) : f.start < PublicationHorizon(t)}
  <2>1. \A f : f.of = Fi => IsPrice(f)
    BY DEF IsPrice
  <2>2. ASSUME NEW f PROVE f \in fi <=> f \in Prices(StoredBefore(data, t)) /\ f.of = Fi
    BY <2>1 DEF Of, Prices
  <2>3. ASSUME NEW f PROVE f \in Of(data, Fi) <=> f \in Prices(data) /\ f.of = Fi
    BY <2>1 DEF Of, Prices
  <2> HIDE DEF fi
  <2> QED
    BY <2>2, <2>3, StoredFacts
<1> HIDE DEF fi
<1>2. starts = PublishedStarts(data, t)
  BY <1>1 DEF PublishedStarts
<1>3. DOMAIN PriceMap(fi) = starts
  BY DEF PriceMap
<1>4. PriceMap(fi) = NoValues <=> starts = {}
  BY EmptyPriceMap
<1> HIDE DEF starts
<1> QED
  BY <1>2, <1>3, <1>4 DEF ForecastWindow, SeriesStart, fi

\* And it reads what the replay reconstructs.
LEMMA SameInput ==
    ASSUME NEW data, data \subseteq Facts, NEW t \in Nat, NEW inputs,
           inputs = ReconstructIssueTime(data, t, "IssueTime")
    PROVE  inputs.input = LoadInputs(StoredBefore(data, t), t)
<1> DEFINE store == StoredBefore(data, t)
           start == SeriesStart(PublishedStarts(data, t), t)
           window == WindowFrom(start)
           newest == NewestPerTarget(Vintages(store))
           prices == Starting(Prices(store), window.history, window.start)
           grid == Starting(newest \union Actuals(store), window.history, window.end)
           knownPrices == Starting(Prices(data), window.history, window.start)
           knownGrid == Starting(SelectVintagesAsOf(Vintages(data), {t}), window.history, window.end)
                          \union Starting(Actuals(data), window.history, Min({t, window.end}))
<1>1. start \in Int /\ PublishedBefore(start, t)
  BY SeriesStartKnown
<1>2. inputs.input = Input(knownPrices, knownGrid, window)
  BY DEF ReconstructIssueTime, KnownInput, VintageBound
<1>3. LoadInputs(store, t) = Input(prices, grid, window)
  BY SameWindow DEF LoadInputs
<1>4. window.start = start /\ window.end \in Int
  <2>1. ForecastDays \in Nat /\ Day \in Nat
    BY Clock, ForecastPipelineAssumption
  <2>2. ForecastDays * Day \in Nat
    BY <2>1
  <2> HIDE DEF start
  <2> QED
    BY <1>1, <2>2 DEF WindowFrom
<1> HIDE DEF start, window
<1>5. prices = knownPrices
  <2>1. ASSUME NEW f \in Prices(data), f.start < start PROVE f.start < PublicationHorizon(t)
    <3>1. f \in Facts /\ IsPrice(f)
      BY DEF Prices
    <3> QED
      BY <1>1, <2>1, <3>1, HorizonOfPublication DEF PublishedBefore
  <2>2. Prices(store) = {f \in Prices(data) : f.start < PublicationHorizon(t)}
    BY StoredFacts
  <2> HIDE DEF store
  <2> QED
    BY <1>4, <2>1, <2>2 DEF Starting
<1>6. newest = SelectVintagesAsOf(Vintages(data), {t})
  <2>1. Vintages(store) = {v \in Vintages(data) : \A b \in {t} : v.issued < b}
    BY StoredFacts
  <2> HIDE DEF store
  <2> QED
    BY <2>1 DEF SelectVintagesAsOf
<1>7. Starting(Actuals(store), window.history, window.end)
        = Starting(Actuals(data), window.history, Min({t, window.end}))
  <2> DEFINE end == window.end
             limit == Min({t, end})
  <2>1. end \in Int /\ t \in Int
    BY <1>4
  <2> HIDE DEF end
  <2>2. limit \in {t, end} /\ limit <= t /\ limit <= end
    BY <2>1, OfTwo
  <2> HIDE DEF limit
  <2>3. ASSUME NEW f \in Actuals(data) PROVE f.start < limit <=> f.start < t /\ f.start < end
    <3>1. f.start \in Int
      BY FactsAssumption DEF Actuals
    <3> QED
      BY <2>1, <2>2, <3>1
  <2>4. Actuals(store) = {f \in Actuals(data) : f.start < t}
    BY StoredFacts
  <2> HIDE DEF store
  <2>5. Starting(Actuals(store), window.history, end) = Starting(Actuals(data), window.history, limit)
    BY <2>3, <2>4 DEF Starting
  <2> QED
    BY <2>5 DEF limit, end
<1>8. grid = Starting(newest, window.history, window.end)
               \union Starting(Actuals(store), window.history, window.end)
  <2> HIDE DEF newest, store
  <2> QED
    BY DEF Starting
<1>9. grid = knownGrid
  <2> HIDE DEF grid, newest, store
  <2> QED
    BY <1>6, <1>7, <1>8
<1> HIDE DEF prices, knownPrices, grid, knownGrid
<1> QED
  BY <1>2, <1>3, <1>5, <1>9 DEF store

\* ReplayReadsWhatTheRouteRead: the inputs of a replayed issue time are those
\* that load_inputs read then, without the vintages of that hour.
THEOREM ReplayIsFaithful == Spec => []ReplayReadsWhatTheRouteRead
<1>1. Init => ReplayReadsWhatTheRouteRead
  BY DEF Init, BacktestInit, ReplayReadsWhatTheRouteRead
<1>2. ReplayReadsWhatTheRouteRead /\ [Next]_domainVars => ReplayReadsWhatTheRouteRead'
  <2> SUFFICES ASSUME ReplayReadsWhatTheRouteRead, [Next]_domainVars
               PROVE  ReplayReadsWhatTheRouteRead'
    OBVIOUS
  <2>1. CASE UNCHANGED backtestVars
    BY <2>1 DEF backtestVars, ReplayReadsWhatTheRouteRead, Data
  <2>2. CASE run.kind = "none" /\ Outcome
    <3> SUFFICES ASSUME run'.kind = "replayed", run'.mode = "IssueTime"
                 PROVE  run'.inputs.input = LoadInputs(StoredBefore(Data', run'.at), run'.at)
      BY DEF ReplayReadsWhatTheRouteRead, StoredBefore
    <3>1. PICK t \in Nat, mode \in {"IssueTime", "Latest"}, variant \in Variants :
            run' = Replayed(ReconstructIssueTime(Data, t, mode), mode,
                            ForecastAtIssueTime(ReconstructIssueTime(Data, t, mode), variant))
      BY <2>2, ReplayedRun
    <3>2. mode = "IssueTime"
      BY <3>1 DEF Replayed
    <3>3. Data' = Data /\ Data \subseteq Facts
      BY <2>2, ReplayedRun DEF Data
    <3> DEFINE inputs == ReconstructIssueTime(Data, t, "IssueTime")
    <3>4. run'.inputs = inputs /\ run'.at = inputs.at
      BY <3>1, <3>2 DEF Replayed
    <3>5. inputs.at = t /\ inputs.input = LoadInputs(StoredBefore(Data, t), t)
      BY <3>3, ReplayOfFacts, SameInput
    <3> HIDE DEF inputs
    <3> QED
      BY <3>3, <3>4, <3>5
  <2> QED
    BY <2>1, <2>2, OneRun
<1> QED
  BY <1>1, <1>2, PTL DEF Spec

-----------------------------------------------------------------------------
(* The arms of a comparison.                                               *)

\* Whatever the mode and the options, an origin scores the same targets.
TargetsOf(data, t) ==
    LET window == WindowFrom(SeriesStart(PublishedStarts(data, t), t)) IN
    [start |-> window.start,
     quarters |-> Held(PriceMap(Of(data, Fi)), Quarters(window.start, window.end))]

\* The score of an origin is of its targets.
LEMMA ScoreOfTargets ==
    ASSUME NEW data, NEW t, NEW mode, NEW variant
    PROVE  ScoreOrigin(data, ReconstructIssueTime(data, t, mode), variant) = TargetsOf(data, t)
<1> DEFINE inputs == ReconstructIssueTime(data, t, mode)
           window == WindowFrom(SeriesStart(PublishedStarts(data, t), t))
<1>1. inputs.input.start = window.start /\ inputs.input.end = window.end
  BY DEF ReconstructIssueTime, KnownInput, Input
<1> HIDE DEF inputs, window
<1>2. DOMAIN ForecastAtIssueTime(inputs, variant).series = Quarters(window.start, window.end)
  BY <1>1, ForecastIsWhole DEF ForecastAtIssueTime, ForecastFrom
<1> QED
  BY <1>1, <1>2 DEF ScoreOrigin, TargetsOf, inputs, window

\* The newest of some facts.
LEMMA NewestExists ==
    ASSUME NEW S, S # {}, S \subseteq Facts
    PROVE  \E v \in S : \A w \in S : w.issued <= v.issued
<1> DEFINE issuedOf == [f \in S |-> f.issued]
           times == {f.issued : f \in S}
<1>1. IsFiniteSet(times)
  <2>1. IsFiniteSet(S)
    BY FactsAssumption, FS_Subset
  <2>2. issuedOf = [f \in S |-> issuedOf[f]] /\ times = {issuedOf[f] : f \in S}
    OBVIOUS
  <2> HIDE DEF issuedOf, times
  <2> QED
    BY <2>1, <2>2, FiniteImage
<1>2. times \subseteq Int /\ times # {}
  BY FactsAssumption
<1>3. Max(times) \in times /\ \A y \in times : y <= Max(times)
  <2> HIDE DEF times
  <2> QED
    BY <1>1, <1>2, Ends
<1> QED
  BY <1>3

\* Each vintage that a bound lets in has one that no bound selects.
LEMMA LatestOfVintage ==
    ASSUME NEW data, data \subseteq Facts, NEW bound,
           NEW v \in SelectVintagesAsOf(Vintages(data), bound)
    PROVE  \E w \in SelectVintagesAsOf(Vintages(data), {}) : w.of = v.of /\ w.start = v.start
<1> DEFINE S == {w \in Vintages(data) : w.of = v.of /\ w.start = v.start}
<1>1. v \in S /\ S \subseteq Facts
  BY DEF SelectVintagesAsOf, NewestPerTarget, Vintages
<1>2. PICK w \in S : \A u \in S : u.issued <= w.issued
  <2> HIDE DEF S
  <2> QED
    BY <1>1, NewestExists
<1>3. w \in SelectVintagesAsOf(Vintages(data), {})
  BY <1>2 DEF SelectVintagesAsOf, NewestPerTarget
<1> QED
  BY <1>2, <1>3

\* So an origin with grid data at its issue time has some in any mode.
LEMMA GridDataInAnyMode ==
    ASSUME NEW data, data \subseteq Facts, NEW t, NEW mode \in {"IssueTime", "Latest"},
           HasGridData(ReconstructIssueTime(data, t, "IssueTime").input)
    PROVE  HasGridData(ReconstructIssueTime(data, t, mode).input)
<1> DEFINE window == WindowFrom(SeriesStart(PublishedStarts(data, t), t))
           vintages(bound) == Starting(SelectVintagesAsOf(Vintages(data), bound),
                                       window.history, window.end)
           actuals == Starting(Actuals(data), window.history, Min({t, window.end}))
           grid(bound) == vintages(bound) \union actuals
           Names == {"windForecast", "windActual", "consumptionForecast", "consumptionActual"}
<1>1. ASSUME NEW any
      PROVE  HasGridData(ReconstructIssueTime(data, t, any).input)
               <=> \E f \in grid(VintageBound(any, t)) : f.of \in Names
  <2> DEFINE all == grid(VintageBound(any, t))
             prices == Starting(Prices(data), window.history, window.start)
             input == ReconstructIssueTime(data, t, any).input
  <2>1. input = Input(prices, all, window)
    BY DEF ReconstructIssueTime, KnownInput
  <2> HIDE DEF all, prices, input, window
  <2>2. /\ input.windForecast = Of(all, "windForecast")
        /\ input.windActual = Of(all, "windActual")
        /\ input.consumptionForecast = Of(all, "consumptionForecast")
        /\ input.consumptionActual = Of(all, "consumptionActual")
    BY <2>1 DEF Input
  <2>3. HasGridData(input) <=> \E f \in all : f.of \in Names
    BY <2>2 DEF HasGridData, Of
  <2> QED
    BY <2>3 DEF all, input, window
<1>2. PICK f \in grid({t}) : f.of \in Names
  BY <1>1 DEF VintageBound
<1>3. VintageBound(mode, t) = {t} \/ VintageBound(mode, t) = {}
  BY DEF VintageBound
<1>4. \E g \in grid({}) : g.of \in Names
  <2>1. CASE f \in actuals
    BY <1>2, <2>1
  <2>2. CASE f \in vintages({t})
    <3>1. f \in SelectVintagesAsOf(Vintages(data), {t}) /\ window.history <= f.start /\ f.start < window.end
      BY <2>2 DEF Starting
    <3>2. PICK w \in SelectVintagesAsOf(Vintages(data), {}) : w.of = f.of /\ w.start = f.start
      BY <3>1, LatestOfVintage
    <3>3. w \in vintages({})
      BY <3>1, <3>2 DEF Starting
    <3> QED
      BY <1>2, <3>2, <3>3
  <2> QED
    BY <1>2, <2>1, <2>2
<1> HIDE DEF grid
<1>5. \E g \in grid(VintageBound(mode, t)) : g.of \in Names
  BY <1>2, <1>3, <1>4
<1> QED
  BY <1>1, <1>5

\* The origins of a run, and what they score.
OriginsOf(mode, restriction) ==
    {t \in Origins : /\ Runs(Data, t, restriction)
                     /\ HasGridData(ReconstructIssueTime(Data, t, mode).input)
                     /\ TargetsOf(Data, t).quarters # {}}

\* A run scores the targets of the origins that it counts.
LEMMA RunOfOrigins ==
    ASSUME NEW mode, NEW variant, NEW restriction
    PROVE  RunBacktest(Data, mode, variant, restriction)
             = [t \in OriginsOf(mode, restriction) |-> TargetsOf(Data, t)]
<1> DEFINE runs == {o \in Origins : Runs(Data, o, restriction)}
           inputs == [t \in runs |-> ReconstructIssueTime(Data, t, mode)]
           withGrid == {o \in DOMAIN inputs : HasGridData(inputs[o].input)}
           scores == [t \in withGrid |-> ScoreOrigin(Data, inputs[t], variant)]
           origins == OriginsOf(mode, restriction)
<1>1. RunBacktest(Data, mode, variant, restriction)
        = [t \in {u \in DOMAIN scores : scores[u].quarters # {}} |-> scores[t]]
  BY DEF RunBacktest, Counted, Scores, Restrict
<1>2. withGrid = {t \in Origins : /\ Runs(Data, t, restriction)
                                  /\ HasGridData(ReconstructIssueTime(Data, t, mode).input)}
  OBVIOUS
<1>3. ASSUME NEW t \in withGrid PROVE inputs[t] = ReconstructIssueTime(Data, t, mode)
  OBVIOUS
<1> HIDE DEF inputs, withGrid
<1>4. DOMAIN scores = withGrid /\ \A t \in withGrid : scores[t] = TargetsOf(Data, t)
  BY <1>3, ScoreOfTargets
<1> HIDE DEF scores
<1>5. {u \in DOMAIN scores : scores[u].quarters # {}} = origins
  BY <1>2, <1>4 DEF OriginsOf
<1>6. \A t \in origins : scores[t] = TargetsOf(Data, t)
  BY <1>2, <1>4 DEF OriginsOf
<1> HIDE DEF origins
<1>7. RunBacktest(Data, mode, variant, restriction) = [t \in origins |-> TargetsOf(Data, t)]
  BY <1>1, <1>5, <1>6
<1> QED
  BY <1>7 DEF origins

\* The second arm runs on the origins of the first.
LEMMA SameArms ==
    ASSUME NEW mode \in {"IssueTime", "Latest"}, NEW variant, NEW other, NEW first,
           first = RunBacktest(Data, "IssueTime", variant, {})
    PROVE  RunBacktest(Data, mode, other, {DOMAIN first}) = first
<1> DEFINE origins == OriginsOf("IssueTime", {})
           again == OriginsOf(mode, {DOMAIN first})
<1>1. first = [t \in origins |-> TargetsOf(Data, t)]
  BY RunOfOrigins
<1>2. DOMAIN first = origins
  BY <1>1
<1>3. ASSUME NEW t PROVE Runs(Data, t, {DOMAIN first}) <=> t \in origins
  <2> HIDE DEF origins
  <2> QED
    BY <1>2 DEF Runs
<1>4. Data \subseteq Facts
  BY DEF Data
<1>5. again = origins
  <2>1. ASSUME NEW t \in origins PROVE HasGridData(ReconstructIssueTime(Data, t, mode).input)
    BY <1>4, GridDataInAnyMode DEF OriginsOf
  <2> QED
    BY <1>3, <2>1 DEF OriginsOf
<1>6. RunBacktest(Data, mode, other, {DOMAIN first}) = [t \in again |-> TargetsOf(Data, t)]
  BY RunOfOrigins
<1> HIDE DEF origins, again
<1> QED
  BY <1>1, <1>5, <1>6

\* ArmsScoreTheSameTargets: the two arms of a comparison score the same quarters
\* of the same origins, so no origin is left out and the arms match.
THEOREM ArmsArePaired == Spec => []ArmsScoreTheSameTargets
<1>1. Init => ArmsScoreTheSameTargets
  BY DEF Init, BacktestInit, ArmsScoreTheSameTargets
<1>2. ArmsScoreTheSameTargets /\ [Next]_domainVars => ArmsScoreTheSameTargets'
  <2> SUFFICES ASSUME ArmsScoreTheSameTargets, [Next]_domainVars PROVE ArmsScoreTheSameTargets'
    OBVIOUS
  <2>1. CASE UNCHANGED backtestVars
    BY <2>1 DEF backtestVars, ArmsScoreTheSameTargets
  <2>2. CASE run.kind = "none" /\ Outcome
    <3> SUFFICES ASSUME run'.kind = "compared"
                 PROVE  /\ run'.first = run'.second /\ run'.match
                        /\ \A h \in DOMAIN run'.byHorizon : run'.byHorizon[h].excluded = {}
      BY DEF ArmsScoreTheSameTargets
    <3>1. PICK mode \in {"IssueTime", "Latest"} : \E other : run' = Comparison(Data, Served, mode, other)
      <4>1. ASSUME NEW t, NEW mode, NEW variant, run' = Replay(Data, t, mode, variant) PROVE FALSE
        BY <4>1 DEF Replay, ReplayFrom, Replayed
      <4> QED
        BY <2>2, <4>1 DEF Outcome
    <3>2. PICK other : run' = Comparison(Data, Served, mode, other)
      BY <3>1
    <3> DEFINE first == RunBacktest(Data, "IssueTime", Served, {})
    <3>3. RunBacktest(Data, mode, other, {DOMAIN first}) = first
      BY SameArms
    <3>4. run' = Compared(first, first)
      BY <3>2, <3>3 DEF Comparison, SecondArm
    <3> HIDE DEF first
    <3>5. OriginsMatch(first, first)
      BY DEF OriginsMatch
    <3>6. \A a : PairedDelta(a, a).excluded = {}
      BY DEF PairedDelta
    <3> QED
      BY <3>4, <3>5, <3>6 DEF Compared
  <2> QED
    BY <2>1, <2>2, OneRun
<1> QED
  BY <1>1, <1>2, PTL DEF Spec

-----------------------------------------------------------------------------
(* The fallbacks of the served forecast.                                   *)

\* A time and its quarter.
LEMMA QuarterOf ==
    ASSUME NEW t \in Int
    PROVE  /\ Floor(t) \in Int /\ Floor(t) <= t /\ t < Floor(t) + Quarter
           /\ t \in Nat => Floor(t) \in Nat
           /\ t % Quarter = 0 => Floor(t) = t
<1> DEFINE q == t \div Quarter
           r == t % Quarter
<1>1. Quarter \in Nat \ {0}
  BY Clock
<1>2. /\ q \in Int /\ r \in 0..(Quarter - 1) /\ t = Quarter * q + r
      /\ t \in Nat => q \in Nat
  BY <1>1, Division
<1>3. Floor(t) = q * Quarter
  BY DEF Floor
<1> HIDE DEF q, r
<1>4. q * Quarter = Quarter * q /\ q * Quarter \in Int /\ (0 <= q => 0 * Quarter <= q * Quarter)
  BY <1>1, <1>2, Multiples
<1>5. t \in Nat => Floor(t) \in Nat
  BY <1>1, <1>2, <1>3, <1>4
<1>6. Floor(t) \in Int /\ Floor(t) <= t /\ t < Floor(t) + Quarter
  BY <1>1, <1>2, <1>3, <1>4
<1>7. t % Quarter = 0 => Floor(t) = t
  BY <1>1, <1>2, <1>3, <1>4 DEF r
<1> QED
  BY <1>5, <1>6, <1>7

\* A day is no shorter than a quarter.
LEMMA QuarterWithinDay == Quarter <= Day
<1>1. Quarter \in Nat \ {0} /\ Hour \in Nat \ {0} /\ Day \in Nat \ {0}
  BY Clock
<1>2. Hour % Quarter = 0 /\ Day % Hour = 0
  BY ForecastSeriesAssumption
<1>3. ASSUME NEW a \in Nat \ {0}, NEW b \in Nat \ {0}, a % b = 0 PROVE b <= a
  <2> DEFINE n == a \div b
  <2>1. n \in Nat /\ a = b * n + (a % b)
    BY Division
  <2> HIDE DEF n
  <2>2. 1 <= n => 1 * b <= n * b
    BY <2>1, Multiples
  <2>3. b * n = n * b /\ 0 * b = 0
    BY <2>1, Multiples
  <2> QED
    BY <1>3, <2>1, <2>2, <2>3
<1>4. Quarter <= Hour /\ Hour <= Day
  BY <1>1, <1>2, <1>3
<1> QED
  BY <1>1, <1>4

\* Weeks, in days.
LEMMA Weeks ==
    ASSUME NEW n \in Nat, NEW w \in 1..n
    PROVE  /\ w * Week \in Int /\ Quarter <= w * Week
           /\ w * Week = (w * DaysOfWeek) * Day
           /\ w * Week <= (DaysOfWeek * n) * Day /\ (DaysOfWeek * n) * Day \in Int
<1>1. Day \in Nat \ {0} /\ DaysOfWeek \in Nat \ {0} /\ Quarter \in Nat \ {0} /\ w \in Nat \ {0}
  BY Clock
<1> DEFINE days == w * DaysOfWeek
           all == DaysOfWeek * n
<1>2. w * Week = days * Day
  BY <1>1 DEF Week
<1>3. days \in Int /\ all \in Int /\ days <= all /\ 1 <= days
  <2>1. days \in Int /\ w * DaysOfWeek <= n * DaysOfWeek /\ n * DaysOfWeek = DaysOfWeek * n
    BY <1>1, Multiples
  <2>2. 1 * DaysOfWeek <= w * DaysOfWeek /\ n * DaysOfWeek \in Int
    BY <1>1, Multiples
  <2> QED
    BY <1>1, <2>1, <2>2
<1> HIDE DEF days, all
<1>4. days * Day <= all * Day /\ 1 * Day <= days * Day /\ days * Day \in Int /\ all * Day \in Int
  BY <1>1, <1>3, Multiples
<1>5. Quarter <= days * Day
  BY <1>1, <1>4, QuarterWithinDay
<1> QED
  BY <1>2, <1>4, <1>5 DEF days, all

\* The gap fill of a quarter that has an earlier week of actuals.
LEMMA FillReaches ==
    ASSUME NEW known, NEW actual, IsFiniteSet(DOMAIN actual), DOMAIN actual \subseteq Int,
           NEW end \in Int, NEW weeks \in Nat \ {0},
           NEW q \in Int, q % Quarter = 0, q < end, q \notin DOMAIN known,
           NEW k \in WeeksBack(q, GapFillLookbackWeeks), k \in DOMAIN actual
    PROVE  q \in DOMAIN FillGapsFromEarlierWeeks(known, actual, end, weeks)
<1> DEFINE reach == Max({weeks, GapFillLookbackWeeks})
           back == Held(actual, WeeksBack(q, reach))
           last == Max(back)
<1>1. GapFillLookbackWeeks \in Nat
  BY ForecastPipelineAssumption
<1>2. reach \in Nat /\ reach >= GapFillLookbackWeeks
  BY <1>1, OfTwo
<1>3. k \in back
  <2>1. PICK w \in 1..GapFillLookbackWeeks : k = q - w * Week
    BY DEF WeeksBack
  <2> HIDE DEF reach
  <2>2. w \in 1..reach
    BY <1>1, <1>2, <2>1
  <2> QED
    BY <2>1, <2>2 DEF WeeksBack, Held
<1>4. IsFiniteSet(back) /\ back \subseteq Int
  BY FS_Subset DEF Held
<1> HIDE DEF back
<1>5. last \in back /\ \A y \in back : y <= last
  BY <1>3, <1>4, Ends
<1> HIDE DEF last
<1>6. last \in NearestWeeks(q, actual, weeks)
  <2>1. last \in Int /\ \A y \in back : y \in Int
    BY <1>4, <1>5
  <2>2. \A y \in back : ~(y > last)
    BY <1>5, <2>1
  <2>4. {later \in back : later > last} = {}
    BY <2>2
  <2>3. Cardinality({}) < weeks
    BY FS_EmptySet
  <2> QED
    BY <1>5, <2>4, <2>3 DEF NearestWeeks, back
<1>7. Min(DOMAIN actual) \in Int /\ Min(DOMAIN actual) <= k /\ k \in Int
  BY Ends
<1>8. k < q
  <2>1. PICK w \in 1..GapFillLookbackWeeks : k = q - w * Week
    BY DEF WeeksBack
  <2>2. w * Week \in Int /\ Quarter <= w * Week
    BY <1>1, Weeks
  <2> QED
    BY <2>1, <2>2, Clock
<1>9. q \in Quarters(Min(DOMAIN actual), end)
  BY <1>7, <1>8 DEF Quarters
<1>10. actual # NoValues /\ weeks # 0
  <2>1. DOMAIN NoValues = {}
    BY DEF NoValues
  <2> QED
    BY <2>1
<1>11. q \in {p \in Quarters(Min(DOMAIN actual), end) \ DOMAIN known :
                NearestWeeks(p, actual, weeks) # {}}
  BY <1>6, <1>9
<1> QED
  BY <1>10, <1>11 DEF FillGapsFromEarlierWeeks

\* So such a quarter, or one with a vintage, has a value in the grid series.
LEMMA GridReaches ==
    ASSUME NEW forecast, NEW actual, IsFiniteSet(DOMAIN actual), DOMAIN actual \subseteq Int,
           NEW end \in Int, NEW weeks \in Nat \ {0}, NEW q \in Int, q % Quarter = 0, q < end,
           q \in DOMAIN forecast \/ \E k \in WeeksBack(q, GapFillLookbackWeeks) : k \in DOMAIN actual
    PROVE  q \in DOMAIN GridOf(forecast, actual, end, weeks).merged
<1> DEFINE extended == ExtendWithLastWeek(forecast, actual, end, weeks)
           known == OrElse(extended, actual)
           filled == FillGapsFromEarlierWeeks(known, actual, end, weeks)
<1>1. DOMAIN forecast \subseteq DOMAIN extended
  BY DEF ExtendWithLastWeek, OrElse
<1> HIDE DEF extended
<1>2. DOMAIN known = DOMAIN extended \union DOMAIN actual
  BY DEF OrElse
<1>3. GridOf(forecast, actual, end, weeks).merged = OrElse(known, filled)
  BY DEF GridOf, GridExtended, GridWith, extended
<1> HIDE DEF known
<1>4. DOMAIN OrElse(known, filled) = DOMAIN known \union DOMAIN filled
  BY DEF OrElse
<1>5. q \in DOMAIN known \/ q \in DOMAIN filled
  <2>1. CASE q \in DOMAIN known
    BY <2>1
  <2>2. CASE q \notin DOMAIN known
    <3>1. PICK k \in WeeksBack(q, GapFillLookbackWeeks) : k \in DOMAIN actual
      BY <1>1, <1>2, <2>2
    <3> QED
      BY <2>2, <3>1, FillReaches
  <2> QED
    BY <2>1, <2>2
<1> QED
  BY <1>3, <1>4, <1>5

\* The store has a value of a series for a quarter, and a quarter of the grid
\* something to be computed from.
Stored(store, of, q) == \E f \in store : f.of = of /\ Floor(f.start) = q

Fillable(store, series, actual, q) ==
    \/ Stored(store, series, q)
    \/ \E k \in WeeksBack(q, GapFillLookbackWeeks) : Stored(store, actual, k)

\* The quarters of some records, and of hourly ones.
LEMMA Buckets ==
    ASSUME NEW records, records \subseteq Facts
    PROVE  /\ \A r \in records : Floor(r.start) \in DOMAIN BucketRecords(records)
           /\ DOMAIN BucketRecords(records) \subseteq 0..(LastTime + Hour)
<1>1. ASSUME NEW r \in records PROVE Floor(r.start) \in 0..(LastTime + Hour)
  <2>1. r.start \in Nat /\ r.start <= LastTime /\ LastTime \in Nat
    BY FactsAssumption, MarketZoneAssumption
  <2> QED
    BY <2>1, QuarterOf, Clock
<1> QED
  BY <1>1 DEF BucketRecords

\* The quarters that hourly records fill.
LEMMA HourlyBuckets ==
    ASSUME NEW records, records \subseteq Facts
    PROVE  /\ \A r \in records : Floor(r.start) \in DOMAIN ExpandHourlyToQuarters(records)
           /\ DOMAIN ExpandHourlyToQuarters(records) \subseteq 0..(LastTime + 2 * Hour)
<1> DEFINE quarters == BucketRecords(records)
           tops == {q \in DOMAIN quarters : q % Hour = 0}
           hours == UNION {Quarters(h, h + Hour) : h \in tops}
           spread == [q \in hours |-> quarters[(q \div Hour) * Hour]]
<1>1. /\ \A r \in records : Floor(r.start) \in DOMAIN quarters
      /\ DOMAIN quarters \subseteq 0..(LastTime + Hour)
  BY Buckets
<1>2. LastTime \in Nat /\ Hour \in Nat \ {0}
  BY MarketZoneAssumption, Clock
<1> HIDE DEF quarters
<1>3. ASSUME NEW q \in hours PROVE q \in 0..(LastTime + 2 * Hour)
  <2>1. PICK h \in tops : q \in Quarters(h, h + Hour)
    OBVIOUS
  <2>2. h \in 0..(LastTime + Hour)
    BY <1>1
  <2> QED
    BY <1>2, <2>1, <2>2 DEF Quarters
<1> HIDE DEF hours
<1>4. DOMAIN OrElse(quarters, spread) = DOMAIN quarters \union hours
  BY DEF OrElse
<1>5. ExpandHourlyToQuarters(records) = OrElse(quarters, spread)
  BY DEF ExpandHourlyToQuarters, quarters, hours
<1> QED
  BY <1>1, <1>2, <1>3, <1>4, <1>5

\* The window of a build starts after every FI price of the store.
LEMMA WindowOfStore ==
    ASSUME NEW store, store \subseteq Facts, NEW now \in 0..LastTime, NEW window,
           window = ForecastWindow(PriceMap(Of(store, Fi)), now)
    PROVE  /\ window.start \in 0..(LastTime + Quarter)
           /\ window = WindowFrom(window.start)
           /\ \A f \in Of(store, Fi) : f.start < window.start
<1> DEFINE fi == Of(store, Fi)
           starts == {f.start : f \in fi}
           start == IF starts = {} THEN now ELSE Max(starts) + Quarter
<1>1. window = WindowFrom(start)
  <2>1. DOMAIN PriceMap(fi) = starts
    BY DEF PriceMap
  <2>2. PriceMap(fi) = NoValues <=> starts = {}
    BY EmptyPriceMap
  <2> HIDE DEF starts, fi
  <2> QED
    BY <2>1, <2>2 DEF ForecastWindow, fi
<1>2. starts \subseteq 0..LastTime /\ LastTime \in Nat /\ Quarter \in Nat \ {0}
  BY FactsAssumption, MarketZoneAssumption, Clock DEF Of
<1>3. \A f \in fi : f.start \in starts
  OBVIOUS
<1> HIDE DEF starts, fi
<1>4. IsFiniteSet(starts) /\ starts \subseteq Int
  <2>1. IsFiniteSet(0..LastTime)
    BY <1>2, FS_Interval
  <2>2. IsFiniteSet(starts)
    BY <1>2, <2>1, FS_Subset
  <2>3. starts \subseteq Int
    BY <1>2
  <2> QED
    BY <2>2, <2>3
<1>5. start \in 0..(LastTime + Quarter) /\ \A s \in starts : s < start
  <2>1. CASE starts = {}
    BY <1>2, <2>1
  <2>2. CASE starts # {}
    <3> DEFINE last == Max(starts)
    <3>1. last \in starts /\ \A s \in starts : s <= last
      BY <1>4, <2>2, Ends
    <3>2. start = last + Quarter
      BY <2>2
    <3> HIDE DEF start, last
    <3> QED
      BY <1>2, <3>1, <3>2
  <2> QED
    BY <2>1, <2>2
<1> HIDE DEF start
<1>6. window.start = start
  BY <1>1 DEF WindowFrom
<1> QED
  BY <1>1, <1>3, <1>5, <1>6 DEF fi

\* The lengths of a window.
LEMMA WindowLengths ==
    ASSUME NEW start \in Int, NEW window, window = WindowFrom(start)
    PROVE  /\ window.start = start /\ window.end \in Int /\ window.history \in Int
           /\ window.end = start + ForecastDays * Day
           /\ \A w \in 1..GapFillLookbackWeeks : window.history <= start - w * Week
           /\ \A w \in 1..ServedShapeWeeks :
                window.history + Day <= start - (w * DaysOfWeek) * Day
<1> DEFINE floor == FloorHistoryDays * Day
           fill == DaysOfWeek * GapFillLookbackWeeks
           shape == DaysOfWeek * ServedShapeWeeks
<1>1. /\ Day \in Nat \ {0} /\ DaysOfWeek \in Nat \ {0} /\ FloorHistoryDays \in Nat
      /\ GapFillLookbackWeeks \in Nat /\ ServedShapeWeeks \in Nat /\ ForecastDays \in Nat
  BY Clock, ForecastPipelineAssumption
<1>2. /\ fill \in Int /\ fill <= FloorHistoryDays
      /\ shape \in Int /\ shape < FloorHistoryDays
  BY <1>1, ForecastPipelineAssumption
<1>3. window = [start |-> start, end |-> start + ForecastDays * Day, history |-> start - floor]
  BY DEF WindowFrom
<1>4. ForecastDays * Day \in Int
  BY <1>1, Multiples
<1>5. \A w \in 1..GapFillLookbackWeeks : w * Week \in Int /\ w * Week <= fill * Day
  BY <1>1, Weeks
<1>6. \A w \in 1..ServedShapeWeeks :
        (w * DaysOfWeek) * Day \in Int /\ (w * DaysOfWeek) * Day <= shape * Day
  BY <1>1, Weeks
<1> HIDE DEF floor, fill, shape
<1>7. /\ floor \in Int /\ fill * Day \in Int /\ fill * Day <= floor
      /\ shape * Day \in Int /\ shape * Day + Day <= floor
  BY <1>1, <1>2, Multiples DEF floor
<1>8. window.history = start - floor /\ window.start = start /\ window.end = start + ForecastDays * Day
  BY <1>3
<1>9. ASSUME NEW w \in 1..GapFillLookbackWeeks PROVE window.history <= start - w * Week
  <2> DEFINE length == w * Week
             most == fill * Day
  <2>1. length \in Int /\ length <= most /\ most \in Int /\ most <= floor
    BY <1>5, <1>7
  <2> HIDE DEF length, most
  <2> QED
    BY <1>7, <1>8, <2>1 DEF length
<1>10. ASSUME NEW w \in 1..ServedShapeWeeks
       PROVE  window.history + Day <= start - (w * DaysOfWeek) * Day
  <2> DEFINE length == (w * DaysOfWeek) * Day
             most == shape * Day
  <2>1. length \in Int /\ length <= most /\ most \in Int /\ most + Day <= floor
    BY <1>6, <1>7
  <2> HIDE DEF length, most
  <2> QED
    BY <1>1, <1>7, <1>8, <2>1 DEF length
<1>11. window.end \in Int /\ window.history \in Int
  BY <1>4, <1>7, <1>8
<1> QED
  BY <1>8, <1>9, <1>10, <1>11

\* A build reads every record of the grid that its window can use.
LEMMA RecordsRead ==
    ASSUME NEW store, store \subseteq Facts, NEW window, window.start \in Nat,
           window = WindowFrom(window.start),
           NEW grid, grid = Starting(NewestPerTarget(Vintages(store)) \union Actuals(store),
                                     window.history, window.end),
           NEW q \in Quarters(window.start, window.end)
    PROVE  /\ \A series \in {"windForecast", "consumptionForecast"} :
                Stored(store, series, q) => \E f \in Of(grid, series) : Floor(f.start) = q
           /\ \A actual \in {"windActual", "consumptionActual"},
                 k \in WeeksBack(q, GapFillLookbackWeeks) :
                Stored(store, actual, k) => \E f \in Of(grid, actual) : Floor(f.start) = k
<1>1. /\ window.start \in Int /\ window.end \in Int /\ window.history \in Int
      /\ q \in Int /\ window.start <= q /\ q < window.end /\ q % Quarter = 0
      /\ \A w \in 1..GapFillLookbackWeeks : window.history <= window.start - w * Week
      /\ Quarter \in Nat \ {0} /\ GapFillLookbackWeeks \in Nat
  <2> DEFINE start == window.start
  <2>1. start \in Int /\ window = WindowFrom(start)
    OBVIOUS
  <2> HIDE DEF start
  <2>2. /\ window.start = start /\ window.end \in Int /\ window.history \in Int
        /\ \A w \in 1..GapFillLookbackWeeks : window.history <= start - w * Week
    BY <2>1, WindowLengths
  <2>3. q \in Int /\ window.start <= q /\ q < window.end /\ q % Quarter = 0
    BY <2>1, <2>2 DEF Quarters
  <2> QED
    BY <2>1, <2>2, <2>3, Clock, ForecastPipelineAssumption
<1>2. \A f \in store : f.start \in Int
  BY FactsAssumption
<1>3. ASSUME NEW series \in {"windForecast", "consumptionForecast"}, Stored(store, series, q)
      PROVE  \E f \in Of(grid, series) : Floor(f.start) = q
  <2>1. PICK f \in store : f.of = series /\ Floor(f.start) = q
    BY <1>3 DEF Stored
  <2>2. IsVintage(f) /\ f \in Facts
    BY <1>3, <2>1 DEF IsVintage
  <2>3. f.start = q
    BY <2>1, <2>2, FactsAssumption, QuarterOf
  <2> DEFINE S == {w \in Vintages(store) : w.of = f.of /\ w.start = f.start}
  <2>4. f \in S /\ S \subseteq Facts
    BY <2>1, <2>2 DEF Vintages
  <2>5. PICK v \in S : \A u \in S : u.issued <= v.issued
    <3> HIDE DEF S
    <3> QED
      BY <2>4, NewestExists
  <2>6. v \in NewestPerTarget(Vintages(store)) /\ v.of = series /\ v.start = q
    BY <2>1, <2>3, <2>5 DEF NewestPerTarget
  <2>7. window.history <= q /\ FloorHistoryDays * Day \in Nat
    <3>1. window.history = window.start - FloorHistoryDays * Day
      BY DEF WindowFrom
    <3>2. FloorHistoryDays * Day \in Nat
      BY ForecastPipelineAssumption, Clock
    <3> QED
      BY <1>1, <3>1, <3>2
  <2>8. v \in Of(grid, series)
    BY <1>1, <2>6, <2>7 DEF Starting, Of
  <2>9. Floor(v.start) = q
    BY <1>1, <2>6, QuarterOf
  <2> QED
    BY <2>8, <2>9
<1>4. ASSUME NEW actual \in {"windActual", "consumptionActual"},
             NEW k \in WeeksBack(q, GapFillLookbackWeeks), Stored(store, actual, k)
      PROVE  \E f \in Of(grid, actual) : Floor(f.start) = k
  <2>1. PICK f \in store : f.of = actual /\ Floor(f.start) = k
    BY <1>4 DEF Stored
  <2>2. f \in Actuals(store)
    BY <1>4, <2>1, FactsAssumption DEF Actuals, IsPrice, IsVintage, Fi
  <2>3. PICK w \in 1..GapFillLookbackWeeks : k = q - w * Week
    BY <1>4 DEF WeeksBack
  <2>4. w * Week \in Int /\ Quarter <= w * Week
    BY <1>1, Weeks
  <2>5. f.start \in Int /\ k <= f.start /\ f.start < k + Quarter
    BY <1>2, <2>1, QuarterOf
  <2>6. window.history <= f.start /\ f.start < window.end
    BY <1>1, <2>3, <2>4, <2>5
  <2> QED
    BY <2>1, <2>2, <2>6 DEF Starting, Of
<1> QED
  BY <1>3, <1>4

\* So a quarter of the window that something could fill has its grid values.
LEMMA GridOfBuild ==
    ASSUME NEW store, store \subseteq Facts, NEW window, window.start \in Nat,
           window = WindowFrom(window.start),
           NEW grid, grid = Starting(NewestPerTarget(Vintages(store)) \union Actuals(store),
                                     window.history, window.end),
           NEW q \in Quarters(window.start, window.end)
    PROVE  /\ Fillable(store, "windForecast", "windActual", q) =>
                q \in DOMAIN GridOf(BucketRecords(Of(grid, "windForecast")),
                                    BucketRecords(Of(grid, "windActual")),
                                    window.end, WindWeeks).merged
           /\ Fillable(store, "consumptionForecast", "consumptionActual", q) =>
                q \in DOMAIN GridOf(BucketRecords(Of(grid, "consumptionForecast")),
                                    ExpandHourlyToQuarters(Of(grid, "consumptionActual")),
                                    window.end, ConsumptionWeeks).merged
<1> DEFINE wind == BucketRecords(Of(grid, "windForecast"))
           windActual == BucketRecords(Of(grid, "windActual"))
           consumption == BucketRecords(Of(grid, "consumptionForecast"))
           consumptionActual == ExpandHourlyToQuarters(Of(grid, "consumptionActual"))
<1>1. /\ window.end \in Int /\ q \in Int /\ q % Quarter = 0 /\ q < window.end
      /\ WindWeeks \in Nat \ {0} /\ ConsumptionWeeks \in Nat \ {0}
      /\ LastTime + Hour \in Int /\ LastTime + 2 * Hour \in Int
  <2>1. window.end \in Int /\ window.start \in Int
    BY WindowLengths
  <2> QED
    BY <2>1, Clock, MarketZoneAssumption, ForecastPipelineAssumption DEF Quarters
<1>2. \A of : Of(grid, of) \subseteq Facts
  <2>1. grid \subseteq store
    BY DEF Starting, NewestPerTarget, Vintages, Actuals
  <2> QED
    BY <2>1 DEF Of
<1>3. /\ \A f \in Of(grid, "windForecast") : Floor(f.start) \in DOMAIN wind
      /\ \A f \in Of(grid, "windActual") : Floor(f.start) \in DOMAIN windActual
      /\ \A f \in Of(grid, "consumptionForecast") : Floor(f.start) \in DOMAIN consumption
      /\ \A f \in Of(grid, "consumptionActual") : Floor(f.start) \in DOMAIN consumptionActual
  BY <1>2, Buckets, HourlyBuckets
<1>4. DOMAIN windActual \subseteq 0..(LastTime + Hour)
  BY <1>2, Buckets
<1>5. DOMAIN consumptionActual \subseteq 0..(LastTime + 2 * Hour)
  BY <1>2, HourlyBuckets
<1> HIDE DEF wind, windActual, consumption, consumptionActual
<1>6. ASSUME NEW S, NEW n \in Int, S \subseteq 0..n PROVE IsFiniteSet(S) /\ S \subseteq Int
  <2>1. IsFiniteSet(0..n)
    BY FS_Interval
  <2>2. IsFiniteSet(S)
    BY <1>6, <2>1, FS_Subset
  <2>3. S \subseteq Int
    BY <1>6
  <2> QED
    BY <2>2, <2>3
<1>7. IsFiniteSet(DOMAIN windActual) /\ DOMAIN windActual \subseteq Int
  BY <1>1, <1>4, <1>6
<1>8. IsFiniteSet(DOMAIN consumptionActual) /\ DOMAIN consumptionActual \subseteq Int
  BY <1>1, <1>5, <1>6
<1>9. /\ Stored(store, "windForecast", q) => q \in DOMAIN wind
      /\ Stored(store, "consumptionForecast", q) => q \in DOMAIN consumption
      /\ \A k \in WeeksBack(q, GapFillLookbackWeeks) :
           /\ Stored(store, "windActual", k) => k \in DOMAIN windActual
           /\ Stored(store, "consumptionActual", k) => k \in DOMAIN consumptionActual
  <2>1. /\ Stored(store, "windForecast", q) =>
             \E f \in Of(grid, "windForecast") : Floor(f.start) = q
        /\ Stored(store, "consumptionForecast", q) =>
             \E f \in Of(grid, "consumptionForecast") : Floor(f.start) = q
    BY RecordsRead
  <2>2. ASSUME NEW k \in WeeksBack(q, GapFillLookbackWeeks)
        PROVE  /\ Stored(store, "windActual", k) =>
                    \E f \in Of(grid, "windActual") : Floor(f.start) = k
               /\ Stored(store, "consumptionActual", k) =>
                    \E f \in Of(grid, "consumptionActual") : Floor(f.start) = k
    BY RecordsRead
  <2> QED
    BY <1>3, <2>1, <2>2
<1>10. Fillable(store, "windForecast", "windActual", q) =>
         q \in DOMAIN GridOf(wind, windActual, window.end, WindWeeks).merged
  BY <1>1, <1>7, <1>9, GridReaches DEF Fillable
<1>11. Fillable(store, "consumptionForecast", "consumptionActual", q) =>
         q \in DOMAIN GridOf(consumption, consumptionActual, window.end, ConsumptionWeeks).merged
  BY <1>1, <1>8, <1>9, GridReaches DEF Fillable
<1> QED
  BY <1>10, <1>11 DEF wind, windActual, consumption, consumptionActual

\* The instants of the local time of q, `length` earlier.
SameTimes(q, length) ==
    {k \in DOMAIN MarketZone :
       Calendar!Local(MarketZone, k) = Calendar!Local(MarketZone, q) - length}

\* The one that the shape takes has the offset of q where one of them has it.
LEMMA SourceOfShape ==
    ASSUME NEW q \in DOMAIN MarketZone, NEW days \in Nat, NEW length \in Int, length = days * Day,
           SameTimes(q, length) # {}
    PROVE  \E k \in SameTimes(q, length) :
             /\ SameLocalTimeDaysBack(q, days) = {k}
             /\ \/ MarketZone[k] = MarketZone[q]
                \/ \A j \in SameTimes(q, length) : MarketZone[j] # MarketZone[q]
<1> DEFINE local == Calendar!Local(MarketZone, q) - days * Day
           same == {t \in {local - offset : offset \in Range(MarketZone)} \intersect DOMAIN MarketZone :
                      Calendar!Local(MarketZone, t) = local}
           later == Max(same)
           source == IF MarketZone[later] = MarketZone[q] THEN later ELSE Min(same)
<1>1. \A t \in DOMAIN MarketZone : t \in Int /\ MarketZone[t] \in Int
  BY MarketZoneAssumption
<1>2. ASSUME NEW t \in DOMAIN MarketZone, Calendar!Local(MarketZone, t) = local
      PROVE  t \in {local - offset : offset \in Range(MarketZone)}
  <2>1. t = local - MarketZone[t]
    BY <1>1, <1>2 DEF Calendar!Local
  <2> QED
    BY <2>1 DEF Range
<1>3. same = SameTimes(q, length)
  BY <1>2 DEF SameTimes
<1>4. SameLocalTimeDaysBack(q, days) = {source}
  <2>1. SameLocalTimeDaysBack(q, days) = IF same = {} THEN {} ELSE {source}
    BY DEF SameLocalTimeDaysBack
  <2> QED
    BY <1>3, <2>1
<1>5. \A s, t, u \in same : s = t \/ t = u \/ s = u
  BY <1>3, MarketZoneAssumption DEF SameTimes
<1>6. IsFiniteSet(same) /\ same \subseteq Int /\ same \subseteq DOMAIN MarketZone
  <2>1. SameTimes(q, length) \subseteq DOMAIN MarketZone
    BY DEF SameTimes
  <2>2. IsFiniteSet(SameTimes(q, length))
    BY <2>1, MarketZoneAssumption, FS_Subset
  <2> HIDE DEF same
  <2> QED
    BY <1>1, <1>3, <2>1, <2>2
<1> HIDE DEF same
<1>7. /\ Min(same) \in same /\ \A y \in same : Min(same) <= y
      /\ later \in same /\ \A y \in same : y <= later
  BY <1>3, <1>6, Ends
<1>8. source \in same
  BY <1>7
<1>9. \/ MarketZone[source] = MarketZone[q]
      \/ \A j \in same : MarketZone[j] # MarketZone[q]
  <2>1. SUFFICES ASSUME MarketZone[later] # MarketZone[q], NEW j \in same,
                        MarketZone[j] = MarketZone[q]
                 PROVE  j = Min(same)
    BY <1>7
  <2>2. j # later
    BY <2>1
  <2>3. CASE Min(same) = later
    <3> DEFINE first == Min(same)
               last == Max(same)
    <3>1. first \in Int /\ last \in Int /\ j \in Int /\ first <= j /\ j <= last /\ first = last
      BY <1>6, <1>7, <2>1, <2>3
    <3> HIDE DEF first, last
    <3>2. j = first
      BY <3>1
    <3> QED
      BY <3>2 DEF first
  <2>4. CASE Min(same) # later
    BY <1>5, <1>7, <2>1, <2>2, <2>4
  <2> QED
    BY <2>3, <2>4
<1> HIDE DEF source
<1> QED
  BY <1>3, <1>4, <1>8, <1>9

\* A quarter without a shape lacks the price of an earlier week.
LEMMA NoWeekdayMean ==
    ASSUME NEW q, NEW weeks \in Nat \ {0}, NEW prices, WeekdayMeanAt(q, weeks, prices) = {}
    PROVE  \E w \in 1..weeks : Held(prices, SameLocalTimeDaysBack(q, w * DaysOfWeek)) = {}
<1> DEFINE sources == [w \in 1..weeks |-> SameLocalTimeDaysBack(q, w * DaysOfWeek)]
<1>1. SUFFICES ASSUME \A w \in 1..weeks : Held(prices, sources[w]) # {} PROVE FALSE
  OBVIOUS
<1>2. WeekdayMeanAt(q, weeks, prices) = UNION Range(sources)
  BY <1>1 DEF WeekdayMeanAt
<1>3. 1 \in 1..weeks /\ DOMAIN sources = 1..weeks
  OBVIOUS
<1> HIDE DEF sources
<1>4. PICK k : k \in sources[1]
  BY <1>1, <1>3 DEF Held
<1>5. k \in UNION Range(sources)
  BY <1>3, <1>4 DEF Range
<1> QED
  BY <1>2, <1>5

\* The shape of a quarter is that of the same local time, or the store lacks a
\* price of that time in one of the weeks.
Unshaped(store, q) ==
    \E w \in 1..ServedShapeWeeks :
      \/ SameTimes(q, w * Week) = {}
      \/ \E k \in SameTimes(q, w * Week) :
           /\ \/ MarketZone[k] = MarketZone[q]
              \/ \A j \in SameTimes(q, w * Week) : MarketZone[j] # MarketZone[q]
           /\ ~Stored(store, Fi, k)

\* The prices that the window reads are all those of the earlier weeks.
LEMMA ShapeOfBuild ==
    ASSUME NEW store, store \subseteq Facts, NEW now \in BuildTimes, NEW window,
           window = ForecastWindow(PriceMap(Of(store, Fi)), now), NEW prices,
           prices = PriceMap(Of(Starting(Prices(store), window.history, window.start), Fi)),
           NEW q \in Quarters(window.start, window.end),
           WeekdayMeanAt(q, ServedShapeWeeks, prices) = {}
    PROVE  Unshaped(store, q)
<1>0. now \in 0..LastTime /\ ServedShapeWeeks \in Nat \ {0} /\ Day \in Nat \ {0}
  BY FactsAssumption, ForecastPipelineAssumption, Clock
<1>1. /\ window.start \in 0..(LastTime + Quarter) /\ window = WindowFrom(window.start)
      /\ \A f \in Of(store, Fi) : f.start < window.start
  BY <1>0, WindowOfStore
<1> DEFINE start == window.start
<1>2. start \in Int /\ 0 <= start /\ start <= LastTime + Quarter /\ LastTime \in Nat /\ Quarter \in Nat
  BY <1>1, Clock, MarketZoneAssumption
<1>3. /\ window.end = start + ForecastDays * Day /\ window.history \in Int /\ window.end \in Int
      /\ \A w \in 1..ServedShapeWeeks : window.history + Day <= start - (w * DaysOfWeek) * Day
  BY <1>1, <1>2, WindowLengths
<1>4. q \in Int /\ start <= q /\ q < window.end
  BY <1>2, <1>3 DEF Quarters
<1>5. q \in DOMAIN MarketZone
  <2> DEFINE length == ForecastDays * Day
  <2>1. length \in Int
    BY ForecastPipelineAssumption, Clock, Multiples
  <2> HIDE DEF length
  <2>2. q \in 0..(LastTime + Quarter + length)
    BY <1>2, <1>3, <1>4, <2>1 DEF length
  <2> QED
    BY <2>2, FactsAssumption DEF length
<1>6. PICK w \in 1..ServedShapeWeeks :
        Held(prices, SameLocalTimeDaysBack(q, w * DaysOfWeek)) = {}
  BY <1>0, NoWeekdayMean
<1> DEFINE days == w * DaysOfWeek
           length == w * Week
<1>7. days \in Nat /\ length \in Int /\ length = days * Day
  BY <1>0, Weeks, Clock
<1>8. window.history + Day <= start - length
  BY <1>3, <1>7
<1> HIDE DEF days, length
<1>9. SUFFICES ASSUME SameTimes(q, length) # {}
               PROVE  \E k \in SameTimes(q, length) :
                        /\ \/ MarketZone[k] = MarketZone[q]
                           \/ \A j \in SameTimes(q, length) : MarketZone[j] # MarketZone[q]
                        /\ ~Stored(store, Fi, k)
  BY DEF Unshaped, length
<1>10. PICK k \in SameTimes(q, length) :
         /\ SameLocalTimeDaysBack(q, days) = {k}
         /\ \/ MarketZone[k] = MarketZone[q]
            \/ \A j \in SameTimes(q, length) : MarketZone[j] # MarketZone[q]
  BY <1>5, <1>7, <1>9, SourceOfShape
<1>11. k \notin DOMAIN prices
  BY <1>6, <1>10 DEF Held, days
<1>12. ASSUME Stored(store, Fi, k) PROVE FALSE
  <2>1. PICK f \in store : f.of = Fi /\ Floor(f.start) = k
    BY <1>12 DEF Stored
  <2>2. IsPrice(f) /\ f.start \in Int /\ f.start % Quarter = 0
    BY <2>1, FactsAssumption DEF IsPrice
  <2>3. f.start = k
    BY <2>1, <2>2, QuarterOf
  <2>4. k < start
    BY <1>1, <2>1, <2>3 DEF Of
  <2>5. window.history <= k
    <3> DEFINE zq == MarketZone[q]
               zk == MarketZone[k]
    <3>1. k \in DOMAIN MarketZone /\ k + zk = (q + zq) - length
      <4>1. /\ k \in DOMAIN MarketZone
            /\ Calendar!Local(MarketZone, k) = Calendar!Local(MarketZone, q) - length
        BY <1>10 DEF SameTimes
      <4> QED
        BY <4>1 DEF Calendar!Local
    <3>2. zq \in Int /\ zk \in Int /\ zk - zq <= Day /\ k \in Int
      BY <1>5, <3>1, MarketZoneAssumption
    <3> HIDE DEF zq, zk
    <3> QED
      BY <1>0, <1>2, <1>3, <1>4, <1>7, <1>8, <3>1, <3>2
  <2>6. f \in Of(Starting(Prices(store), window.history, window.start), Fi)
    BY <2>1, <2>2, <2>3, <2>4, <2>5 DEF Of, Starting, Prices
  <2>7. k \in DOMAIN prices
    BY <2>3, <2>6 DEF PriceMap
  <2> QED
    BY <1>11, <2>7
<1> QED
  BY <1>10, <1>12

\* What FallsBackOnlyWithoutData says of a forecast of a store.
BuildIsWhole(store, forecast) ==
    /\ \A q \in DOMAIN forecast.series : forecast.series[q].kind = "predicted"
    /\ \A q \in forecast.gridMissing :
         \/ ~Fillable(store, "windForecast", "windActual", q)
         \/ ~Fillable(store, "consumptionForecast", "consumptionActual", q)
    /\ \A q \in forecast.flat : Unshaped(store, q)

\* It holds for each build.
LEMMA BuildOfStore ==
    ASSUME NEW store, store \subseteq Facts, NEW now \in BuildTimes, NEW input,
           input = LoadInputs(store, now), NEW forecast,
           forecast = BuildForecast(input, Served, {}, {})
    PROVE  BuildIsWhole(store, forecast)
<1> DEFINE window == ForecastWindow(PriceMap(Of(store, Fi)), now)
           read == Starting(Prices(store), window.history, window.start)
           grid == Starting(NewestPerTarget(Vintages(store)) \union Actuals(store),
                            window.history, window.end)
           ctx == ContextOf(input, GridSeries(input, input.end))
           fitted == FittedOf(ctx, input, Served, {})
           served == Quarters(input.start, input.end)
<1>1. input = Input(read, grid, window)
  BY DEF LoadInputs
<1>2. window.start \in Nat /\ window = WindowFrom(window.start)
  <2>1. now \in 0..LastTime
    BY FactsAssumption
  <2> HIDE DEF window
  <2>2. window.start \in 0..(LastTime + Quarter) /\ window = WindowFrom(window.start)
    BY <2>1, WindowOfStore DEF window
  <2> QED
    BY <2>2
<1>3. window = ForecastWindow(PriceMap(Of(store, Fi)), now)
  OBVIOUS
<1>4. grid = Starting(NewestPerTarget(Vintages(store)) \union Actuals(store),
                      window.history, window.end)
  OBVIOUS
<1>5. read = Starting(Prices(store), window.history, window.start)
  OBVIOUS
<1> HIDE DEF window, read, grid
<1>6. /\ input.start = window.start /\ input.end = window.end
      /\ input.prices = PriceMap(Of(read, Fi))
      /\ input.windForecast = Of(grid, "windForecast")
      /\ input.windActual = Of(grid, "windActual")
      /\ input.consumptionForecast = Of(grid, "consumptionForecast")
      /\ input.consumptionActual = Of(grid, "consumptionActual")
  BY <1>1 DEF Input
<1>7. forecast = Shaped(ctx, input, Served, fitted, {})
  BY DEF BuildForecast, FittedRun, FittedOf
<1>8. DOMAIN fitted.predicted = served
  BY FittedQuarters
<1>9. /\ ctx.grid.wind = GridOf(BucketRecords(Of(grid, "windForecast")),
                                BucketRecords(Of(grid, "windActual")), window.end, WindWeeks)
      /\ ctx.grid.consumption = GridOf(BucketRecords(Of(grid, "consumptionForecast")),
                                       ExpandHourlyToQuarters(Of(grid, "consumptionActual")),
                                       window.end, ConsumptionWeeks)
  BY <1>6 DEF ContextOf, GridSeries
<1> HIDE DEF ctx, fitted
<1>10. /\ forecast.flat = ShapeOf(input, Served, fitted).flat
       /\ forecast.gridMissing = {q \in served : LacksValue(ctx.grid, q)}
  <2> DEFINE opts == Served
             none == {}
  <2>1. forecast = Shaped(ctx, input, opts, fitted, none)
    BY <1>7
  <2> HIDE DEF opts, none
  <2>2. /\ Shaped(ctx, input, opts, fitted, none).flat = ShapeOf(input, opts, fitted).flat
        /\ Shaped(ctx, input, opts, fitted, none).gridMissing
             = {q \in DOMAIN fitted.predicted : LacksValue(ctx.grid, q)}
    BY RunSays
  <2> QED
    BY <1>8, <2>1, <2>2 DEF opts
<1>11. ASSUME NEW q \in DOMAIN forecast.series PROVE forecast.series[q].kind = "predicted"
  BY <1>11, ForecastIsWhole
<1>12. ASSUME NEW q \in forecast.gridMissing
       PROVE  \/ ~Fillable(store, "windForecast", "windActual", q)
              \/ ~Fillable(store, "consumptionForecast", "consumptionActual", q)
  <2>1. q \in Quarters(window.start, window.end) /\ LacksValue(ctx.grid, q)
    BY <1>6, <1>10, <1>12
  <2>2. /\ Fillable(store, "windForecast", "windActual", q) => q \in DOMAIN ctx.grid.wind.merged
        /\ Fillable(store, "consumptionForecast", "consumptionActual", q)
             => q \in DOMAIN ctx.grid.consumption.merged
    BY <1>2, <1>4, <1>9, <2>1, GridOfBuild
  <2> QED
    BY <2>1, <2>2 DEF LacksValue
<1>13. ASSUME NEW q \in forecast.flat PROVE Unshaped(store, q)
  <2>1. Served.shape.kind = "WeekdayMean" /\ Served.shape.weeks = ServedShapeWeeks
    BY DEF Served
  <2>2. \A k : ProfileOf(Served.shape, k, input.prices)
                 = WeekdayMeanAt(k, ServedShapeWeeks, input.prices)
    BY <2>1 DEF ProfileOf
  <2>3. ShapeOf(input, Served, fitted).flat
          = {k \in DOMAIN fitted.predicted : ProfileOf(Served.shape, k, input.prices) = {}}
    BY DEF ShapeOf, ApplyWithinDayShape
  <2>4. q \in Quarters(window.start, window.end)
        /\ WeekdayMeanAt(q, ServedShapeWeeks, input.prices) = {}
    BY <1>6, <1>8, <1>10, <1>13, <2>2, <2>3
  <2>5. input.prices = PriceMap(Of(Starting(Prices(store), window.history, window.start), Fi))
    BY <1>5, <1>6
  <2> QED
    BY <1>3, <2>4, <2>5, ShapeOfBuild
<1> QED
  BY <1>11, <1>12, <1>13 DEF BuildIsWhole

\* Every build has been of its store.
BuildInv ==
    run.kind = "build" /\ run.answer.available =>
      BuildIsWhole(StoreAt(Data, run.at), run.answer.forecast)

\* FallsBackOnlyWithoutData: the served forecast takes the place of a grid value
\* or of a shape only for what the whole store lacks.
THEOREM FallbacksAreNeeded == Spec => []FallsBackOnlyWithoutData
<1>1. Init => BuildInv
  BY DEF Init, BacktestInit, BuildInv
<1>2. BuildInv /\ [Next]_domainVars => BuildInv'
  <2> SUFFICES ASSUME BuildInv, [Next]_domainVars PROVE BuildInv'
    OBVIOUS
  <2>1. CASE UNCHANGED backtestVars
    BY <2>1 DEF BuildInv, backtestVars, Data
  <2>2. CASE run.kind = "none" /\ Outcome
    <3>1. CASE run'.kind # "build"
      BY <3>1 DEF BuildInv
    <3>2. CASE run'.kind = "build"
      <4>1. PICK now \in BuildTimes :
              run' = [kind |-> "build", at |-> now,
                      answer |-> ForecastForRoute(LoadInputs(StoreAt(Data, now), now))]
              /\ UNCHANGED missed
        BY <2>2, <3>2, BuildRun
      <4> DEFINE store == StoreAt(Data, now)
                 forecast == BuildForecast(LoadInputs(store, now), Served, {}, {})
      <4>2. BuildIsWhole(store, forecast)
        <5>1. store \subseteq Facts
          BY DEF StoreAt, Data
        <5> QED
          BY <5>1, BuildOfStore
      <4>3. run'.at = now /\ Data' = Data
        BY <4>1 DEF Data
      <4>4. run'.answer.available => run'.answer.forecast = forecast
        BY <4>1 DEF ForecastForRoute
      <4> HIDE DEF forecast
      <4> QED
        BY <4>2, <4>3, <4>4 DEF BuildInv
    <3> QED
      BY <3>1, <3>2
  <2> QED
    BY <2>1, <2>2, OneRun
<1>3. BuildInv => FallsBackOnlyWithoutData
  BY DEF BuildInv, BuildIsWhole, Fillable, Stored, Unshaped, SameTimes, FallsBackOnlyWithoutData
<1> QED
  BY <1>1, <1>2, <1>3, PTL DEF Spec

-----------------------------------------------------------------------------
(* The bands.                                                              *)

BandsType ==
    /\ IsFiniteSet(residuals)
    /\ \A r \in residuals : r.hour \in UtcHours /\ r.error \in Errors
    /\ origin \in Nat
    /\ IsFiniteSet(scoredDays) /\ scoredDays \subseteq Nat

BandsInv == BandsType /\ ShippedBandsCover

\* The percentile of some samples is one of the errors.
LEMMA PercentileExists ==
    ASSUME NEW samples, IsFiniteSet(samples), samples # {},
           \A r \in samples : r.error \in Errors, NEW percent \in 0..100
    PROVE  NearestRank(samples, percent) \in Int
<1> DEFINE n == Cardinality(samples)
           rank == Max({1, (percent * n + 99) \div 100})
           upTo(e) == Cardinality({r \in samples : r.error <= e})
           enough == {e \in Errors : upTo(e) >= rank}
<1>1. IsFiniteSet(Errors) /\ Errors \subseteq Int
  BY BandsAssumption
<1>2. n \in Nat /\ n > 0
  BY FS_CardinalityType, FS_EmptySet
<1>3. Errors # {}
  OBVIOUS
<1>4. Max(Errors) \in Errors /\ \A e \in Errors : e <= Max(Errors)
  BY <1>1, <1>3, Ends
<1>5. {r \in samples : r.error <= Max(Errors)} = samples
  BY <1>4
<1>6. upTo(Max(Errors)) = n
  BY <1>5
<1>7. rank <= n
  <2> DEFINE share == (percent * n + 99) \div 100
  <2>1. percent * n <= 100 * n /\ percent * n >= 0 /\ percent * n \in Int
    BY <1>2
  <2>2. share \in Int /\ share <= n
    BY <2>1, <1>2
  <2> HIDE DEF share
  <2>3. 1 \in Int /\ share \in Int
    BY <2>2
  <2>4. Max({1, share}) \in {1, share}
    BY <2>3, OfTwo
  <2> QED
    BY <2>2, <2>4, <1>2 DEF share
<1>8. Max(Errors) \in enough
  BY <1>4, <1>6, <1>7, <1>1, <1>2
<1>9. IsFiniteSet(enough) /\ enough \subseteq Int /\ enough # {}
  BY <1>1, <1>8, FS_Subset
<1>10. NearestRank(samples, percent) = Min(enough)
  BY DEF NearestRank
<1> HIDE DEF enough
<1> QED
  BY <1>9, <1>10, Ends

\* Offsets lie on both sides of a point.
LEMMA OffsetsStraddle ==
    ASSUME NEW samples, IsFiniteSet(samples), \A r \in samples : r.error \in Errors,
           NEW o \in OffsetsFromResiduals(samples)
    PROVE  o.low \in Int /\ o.high \in Int /\ o.low <= 0 /\ 0 <= o.high
<1> DEFINE first == NearestRank(samples, (100 - NominalPercent) \div 2)
           last == NearestRank(samples, (100 + NominalPercent) \div 2)
<1>1. samples # {}
  BY DEF OffsetsFromResiduals
<1>2. o = [low |-> Min({0, first}), high |-> Max({0, last})]
  BY <1>1 DEF OffsetsFromResiduals
<1>3. (100 - NominalPercent) \div 2 \in 0..100 /\ (100 + NominalPercent) \div 2 \in 0..100
  BY BandsAssumption
<1>4. first \in Int /\ last \in Int
  BY <1>1, <1>3, PercentileExists
<1> HIDE DEF first, last
<1>5. Min({0, first}) \in {0, first} /\ Min({0, first}) <= 0
  <2>1. 0 \in Int
    OBVIOUS
  <2> QED
    BY <1>4, <2>1, OfTwo
<1>6. Max({0, last}) \in {0, last} /\ Max({0, last}) >= 0
  <2>1. 0 \in Int
    OBVIOUS
  <2> QED
    BY <1>4, <2>1, OfTwo
<1> QED
  BY <1>2, <1>4, <1>5, <1>6

\* So the band around a point is what its offsets say.
LEMMA BandOfOffsets ==
    ASSUME BandsType, NEW h \in UtcHours, NEW bands, bands.calibrated = TRUE,
           bands.byHour = DeriveBandOffsets.byHour, bands.global = DeriveBandOffsets.global
    PROVE  ApplyBand(0, h, bands)
             = {[low |-> o.low, high |-> o.high] : o \in OffsetsForHour(h, DeriveBandOffsets)}
<1> DEFINE offsets == OffsetsForHour(h, DeriveBandOffsets)
<1>1. OffsetsForHour(h, bands) = offsets
  BY DEF OffsetsForHour
<1>2. \/ offsets = OffsetsFromResiduals(OfHours({h}))
      \/ offsets = OffsetsFromResiduals(residuals)
  BY DEF OffsetsForHour, DeriveBandOffsets
<1>3. /\ IsFiniteSet(residuals) /\ \A r \in residuals : r.error \in Errors
      /\ IsFiniteSet(OfHours({h})) /\ \A r \in OfHours({h}) : r.error \in Errors
  BY FS_Subset DEF BandsType, OfHours
<1> HIDE DEF offsets
<1>4. ASSUME NEW o \in offsets
      PROVE  o.low \in Int /\ o.high \in Int /\ o.low <= 0 /\ 0 <= o.high
  BY <1>2, <1>3, OffsetsStraddle
<1>5. ASSUME NEW o \in offsets
      PROVE  Min({0, 0 + o.low}) = o.low /\ Max({0, 0 + o.high}) = o.high
  <2>1. o.low \in Int /\ o.high \in Int /\ o.low <= 0 /\ 0 <= o.high /\ 0 + o.low = o.low /\ 0 + o.high = o.high
    BY <1>4
  <2>2. 0 \in Int /\ 0 + o.low \in Int /\ 0 + o.high \in Int
    BY <2>1
  <2>3. Min({0, 0 + o.low}) \in {0, 0 + o.low} /\ Min({0, 0 + o.low}) <= 0 + o.low
    BY <2>2, OfTwo
  <2>4. Max({0, 0 + o.high}) \in {0, 0 + o.high} /\ Max({0, 0 + o.high}) >= 0 + o.high
    BY <2>2, OfTwo
  <2> QED
    BY <2>1, <2>3, <2>4
<1>6. ApplyBand(0, h, bands)
        = {[low |-> Min({0, 0 + o.low}), high |-> Max({0, 0 + o.high})] : o \in offsets}
  BY <1>1 DEF ApplyBand
<1> QED
  BY <1>5, <1>6 DEF offsets

\* Every residual has offsets, those of its hour or of all hours.
LEMMA EveryHourHasOffsets ==
    ASSUME BandsType, residuals # {}, NEW h
    PROVE  OffsetsForHour(h, DeriveBandOffsets) # {}
<1>1. DeriveBandOffsets.global # {}
  BY DEF DeriveBandOffsets, OffsetsFromResiduals
<1> QED
  BY <1>1 DEF OffsetsForHour

\* An artifact that is calibrated covers what the gate measured.
LEMMA ArtifactCovers ==
    ASSUME BandsType, BuildArtifact.calibrated
    PROVE  100 * Cardinality({r \in residuals :
                    \E b \in ApplyBand(0, r.hour, BuildArtifact) : Lies(r.error, b.low, b.high)})
             >= GatePercent * Cardinality(residuals)
<1> DEFINE derived == DeriveBandOffsets
           bands == BuildArtifact
           coverage == ObservedCoverage(derived)
           inside == {r \in residuals : \E b \in ApplyBand(0, r.hour, bands) : Lies(r.error, b.low, b.high)}
           covered == {r \in residuals : \E o \in OffsetsForHour(r.hour, derived) : Lies(r.error, o.low, o.high)}
           scored == {r \in residuals : OffsetsForHour(r.hour, derived) # {}}
<1>1. /\ ~(Cardinality(residuals) < MinTotalSamples)
      /\ ~(100 * coverage.covered < GatePercent * coverage.scored)
      /\ bands = [calibrated |-> TRUE, byHour |-> derived.byHour, global |-> derived.global]
  BY DEF BuildArtifact, Uncalibrated
<1>2. Cardinality(residuals) \in Nat /\ residuals # {}
  <2>1. Cardinality(residuals) \in Nat
    BY FS_CardinalityType DEF BandsType
  <2>2. Cardinality(residuals) # 0
    BY <1>1, <2>1, BandsAssumption
  <2> QED
    BY <2>1, <2>2, FS_EmptySet
<1>3. coverage.covered = Cardinality(covered) /\ coverage.scored = Cardinality(scored)
  BY DEF ObservedCoverage
<1>4. scored = residuals
  BY <1>2, EveryHourHasOffsets
<1>5. inside = covered
  <2>1. ASSUME NEW r \in residuals
        PROVE  (\E b \in ApplyBand(0, r.hour, bands) : Lies(r.error, b.low, b.high))
                 <=> \E o \in OffsetsForHour(r.hour, derived) : Lies(r.error, o.low, o.high)
    <3>1. ApplyBand(0, r.hour, bands)
            = {[low |-> o.low, high |-> o.high] : o \in OffsetsForHour(r.hour, derived)}
      <4>1. r.hour \in UtcHours
        BY DEF BandsType
      <4> HIDE DEF bands
      <4> QED
        BY <1>1, <4>1, BandOfOffsets
    <3> HIDE DEF bands, derived
    <3>2. ASSUME NEW o \in OffsetsForHour(r.hour, derived)
          PROVE  /\ [low |-> o.low, high |-> o.high] \in ApplyBand(0, r.hour, bands)
                 /\ [low |-> o.low, high |-> o.high].low = o.low
                 /\ [low |-> o.low, high |-> o.high].high = o.high
      BY <3>1
    <3>3. ASSUME NEW b \in ApplyBand(0, r.hour, bands)
          PROVE  \E o \in OffsetsForHour(r.hour, derived) : b.low = o.low /\ b.high = o.high
      BY <3>1
    <3>4. ASSUME NEW o \in OffsetsForHour(r.hour, derived), Lies(r.error, o.low, o.high)
          PROVE  \E b \in ApplyBand(0, r.hour, bands) : Lies(r.error, b.low, b.high)
      <4> DEFINE b == [low |-> o.low, high |-> o.high]
      <4>1. b \in ApplyBand(0, r.hour, bands) /\ b.low = o.low /\ b.high = o.high
        BY <3>2
      <4> HIDE DEF b
      <4> QED
        BY <3>4, <4>1
    <3>5. ASSUME NEW b \in ApplyBand(0, r.hour, bands), Lies(r.error, b.low, b.high)
          PROVE  \E o \in OffsetsForHour(r.hour, derived) : Lies(r.error, o.low, o.high)
      BY <3>3, <3>5
    <3> QED
      BY <3>4, <3>5
  <2> HIDE DEF bands, derived
  <2> QED
    BY <2>1
<1>6. covered \subseteq residuals /\ Cardinality(covered) \in Nat
  BY FS_Subset, FS_CardinalityType DEF BandsType
<1> HIDE DEF bands, derived, coverage, covered, scored
<1>7. ~(100 * Cardinality(covered) < GatePercent * Cardinality(residuals))
  BY <1>1, <1>3, <1>4
<1>8. GatePercent * Cardinality(residuals) \in Nat
  BY <1>2, BandsAssumption
<1>9. 100 * Cardinality(covered) >= GatePercent * Cardinality(residuals)
  BY <1>6, <1>7, <1>8
<1> QED
  BY <1>5, <1>9 DEF inside, bands

\* A window that spans a day has two scored days.
LEMMA SpanOfTwoDays ==
    ASSUME BandsType, ~(WindowSpan < MinWindowDays)
    PROVE  Cardinality(scoredDays) > 1
<1>1. MinWindowDays \in Nat /\ MinWindowDays > 0
  BY BandsAssumption
<1>2. scoredDays # {}
  BY <1>1 DEF WindowSpan
<1> DEFINE first == Min(scoredDays)
           last == Max(scoredDays)
<1>3. first \in scoredDays /\ last \in scoredDays
  <2>1. IsFiniteSet(scoredDays) /\ scoredDays \subseteq Int
    BY DEF BandsType
  <2> QED
    BY <1>2, <2>1, Ends
<1>4. WindowSpan = last - first
  BY <1>2 DEF WindowSpan
<1> HIDE DEF first, last
<1>5. first # last
  BY <1>1, <1>3, <1>4 DEF BandsType
<1>6. Cardinality({first, last}) = 2
  <2>1. IsFiniteSet({first}) /\ Cardinality({first}) = 1
    BY FS_Singleton
  <2> QED
    BY <2>1, <1>5, FS_AddElement, {first, last} = {first} \union {last}
<1>7. Cardinality({first, last}) <= Cardinality(scoredDays) /\ Cardinality(scoredDays) \in Nat
  BY <1>3, FS_Subset, FS_CardinalityType DEF BandsType
<1> QED
  BY <1>6, <1>7

\* The invariant holds after each step of the bands.
LEMMA BandsStep ==
    ASSUME BandsInv, BandsNext
    PROVE  BandsInv'
<1>1. ASSUME NEW h \in UtcHours, NEW e \in Errors, ScoreQuarter(h, e)
      PROVE  BandsInv'
  <2> DEFINE before == {r \in residuals : r.hour = h /\ r.error = e}
             new == [hour |-> h, error |-> e, nth |-> Cardinality(before)]
  <2>1. residuals' = residuals \union {new} /\ new.hour = h /\ new.error = e
    BY <1>1 DEF ScoreQuarter
  <2>2. scoredDays' = scoredDays \union {origin} /\ origin' = origin /\ artifact' = {}
    BY <1>1 DEF ScoreQuarter
  <2> HIDE DEF new
  <2>3. IsFiniteSet(residuals') /\ IsFiniteSet(scoredDays')
    BY <2>1, <2>2, FS_AddElement DEF BandsInv, BandsType
  <2>4. BandsType'
    BY <2>1, <2>2, <2>3 DEF BandsInv, BandsType
  <2> QED
    BY <2>2, <2>4 DEF BandsInv, ShippedBandsCover
<1>2. CASE NextOrigin
  <2>1. BandsType'
    BY <1>2 DEF NextOrigin, BandsInv, BandsType
  <2> QED
    BY <1>2, <2>1 DEF NextOrigin, BandsInv, ShippedBandsCover
<1>3. CASE DeriveBands
  <2>1. BandsType'
    BY <1>3 DEF DeriveBands, BandsInv, BandsType
  <2>2. ASSUME NEW bands \in artifact', bands.calibrated
        PROVE  /\ bands = BuildArtifact
               /\ ~(WindowSpan < MinWindowDays)
    BY <1>3, <2>2 DEF DeriveBands, Uncalibrated
  <2>3. residuals' = residuals /\ scoredDays' = scoredDays
    BY <1>3 DEF DeriveBands
  <2>4. ASSUME NEW bands \in artifact', bands.calibrated
        PROVE  /\ 100 * Cardinality({r \in residuals :
                           \E b \in ApplyBand(0, r.hour, bands) : Lies(r.error, b.low, b.high)})
                    >= GatePercent * Cardinality(residuals)
               /\ Cardinality(scoredDays) > 1
    BY <2>2, <2>4, ArtifactCovers, SpanOfTwoDays DEF BandsInv
  <2>5. ShippedBandsCover'
    BY <2>3, <2>4 DEF ShippedBandsCover
  <2> QED
    BY <2>1, <2>5 DEF BandsInv
<1> QED
  BY <1>1, <1>2, <1>3 DEF BandsNext

\* ShippedBandsCover: a band that the service shows covered at least the share
\* of the gate of all residuals of the backtest, whatever those were.
THEOREM BandsKeepTheirPromise == Spec => []ShippedBandsCover
<1>1. Init => BandsInv
  BY FS_EmptySet DEF Init, BandsInit, BandsInv, BandsType, ShippedBandsCover
<1>2. BandsInv /\ [Next]_domainVars => BandsInv'
  <2> SUFFICES ASSUME BandsInv, [Next]_domainVars PROVE BandsInv'
    OBVIOUS
  <2>1. BandsNext \/ UNCHANGED bandVars
    BY DEF Next, domainVars
  <2>2. CASE UNCHANGED bandVars
    BY <2>2 DEF bandVars, BandsInv, BandsType, ShippedBandsCover
  <2> QED
    BY <2>1, <2>2, BandsStep
<1>3. BandsInv => ShippedBandsCover
  BY DEF BandsInv
<1> QED
  BY <1>1, <1>2, <1>3, PTL DEF Spec

=============================================================================
