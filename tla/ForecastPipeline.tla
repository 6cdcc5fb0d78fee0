-------------------------- MODULE ForecastPipeline --------------------------
(* One run of the FI forecast: the window of route.rs, the features of      *)
(* features.rs and the pipeline of pipeline.rs. The regression of model.rs  *)
(* is a value that depends on every row and target it was fitted on.        *)
(*                                                                          *)
(* An input has the records that forecast.rs takes: prices (a quarter map), *)
(* neighbours (one per area), the four Fingrid series (sets of facts), and  *)
(* the window [start, end) of the predicted quarters.                       *)
EXTENDS ForecastSeries

CONSTANTS
    ForecastDays, FloorHistoryDays, TrainingHistoryDays,
    Neighbours,             \* NEIGHBOR_AREAS
    WindWeeks, ConsumptionWeeks,
    ServedShapeWeeks,
    MinFitSamples

(* Lengths are counts, and the two assertions of pipeline.rs on the windows  *)
(* that are read.                                                            *)
ASSUME ForecastPipelineAssumption ==
    /\ {ForecastDays, FloorHistoryDays, TrainingHistoryDays, GapFillLookbackWeeks} \subseteq Nat
    /\ {WindWeeks, ConsumptionWeeks, ServedShapeWeeks} \subseteq Nat \ {0}
    /\ DaysOfWeek * ServedShapeWeeks < FloorHistoryDays /\ ForecastDays < DaysOfWeek
    /\ DaysOfWeek * GapFillLookbackWeeks <= FloorHistoryDays

-----------------------------------------------------------------------------
(* The window (route.rs).                                                   *)

WindowFrom(start) ==
    [start |-> start, end |-> start + ForecastDays * Day,
     history |-> start - FloorHistoryDays * Day]

(* ForecastWindow::new: one quarter after the last price, else now. *)
ForecastWindow(prices, now) ==
    WindowFrom(IF prices = NoValues THEN now ELSE Max(DOMAIN prices) + Quarter)

HasGridData(input) ==
    input.windForecast \union input.windActual
      \union input.consumptionForecast \union input.consumptionActual # {}

-----------------------------------------------------------------------------
(* The grid series (pipeline.rs): the forecast wins over an actual, the     *)
(* tail extension and then the gap fill take what is left.                  *)

GridWith(forecast, extended, actual, filled) ==
    [forecast |-> forecast, extended |-> OrElse(extended, filled),
     merged |-> OrElse(OrElse(extended, actual), filled)]

GridExtended(forecast, extended, actual, end, weeks) ==
    GridWith(forecast, extended, actual,
             FillGapsFromEarlierWeeks(OrElse(extended, actual), actual, end, weeks))

GridOf(forecast, actual, end, weeks) ==
    GridExtended(forecast, ExtendWithLastWeek(forecast, actual, end, weeks), actual, end, weeks)

GridSeries(input, end) ==
    [wind |-> GridOf(BucketRecords(input.windForecast),
                     BucketRecords(input.windActual), end, WindWeeks),
     consumption |-> GridOf(BucketRecords(input.consumptionForecast),
                            ExpandHourlyToQuarters(input.consumptionActual),
                            end, ConsumptionWeeks)]

LacksValue(grid, q) ==
    q \notin DOMAIN grid.wind.merged \/ q \notin DOMAIN grid.consumption.merged

-----------------------------------------------------------------------------
(* The features (features.rs). A context is [prices, neighbours, grid], and *)
(* the rules are [latest, previousDay].                                     *)

(* The mean FI price stands in for a lag that is missing. *)
Neutral(ctx) == Mean(ctx.prices, DOMAIN ctx.prices)
LagOr(neutral, prices, k) == IF k \in DOMAIN prices THEN prices[k] ELSE neutral

LatestPublished(ctx, q, rule) ==
    LET keys == {k \in DOMAIN ctx.prices : k < q \/ (rule = "AtOrBefore" /\ k = q)} IN
    IF keys = {} THEN Neutral(ctx) ELSE ctx.prices[Max(keys)]

(* The prices of the day before the day of q. *)
PreviousDay(ctx, q, basis) ==
    {k \in DOMAIN ctx.prices :
       IF basis = "UtcDay" THEN UtcDay(k) = UtcDay(q) - 1 ELSE MarketDay(k) = MarketDay(q) - 1}

(* assemble_features: what the row of q depends on. *)
Features(ctx, q, rules) ==
    LET neutral == Neutral(ctx)
        before == PreviousDay(ctx, q, rules.previousDay)
    IN  UNION ({Mean(ctx.grid.wind.merged, {q}), Mean(ctx.grid.consumption.merged, {q}),
                LatestPublished(ctx, q, rules.latest),
                LagOr(neutral, ctx.prices, q - Day), LagOr(neutral, ctx.prices, q - Week),
                IF before = {} THEN neutral ELSE Mean(ctx.prices, before)}
               \union {LagOr(neutral, ctx.neighbours[a], q - n) : a \in Neighbours, n \in {Day, Week}})

ContextOf(input, grid) ==
    [prices |-> input.prices, neighbours |-> input.neighbours, grid |-> grid]

(* training_matrix_at: a row for each price of the training window. *)
TrainingMatrix(ctx, start, rules) ==
    {[target |-> q, row |-> Features(ctx, q, rules), realised |-> ctx.prices[q]] :
       q \in {k \in DOMAIN ctx.prices : start - TrainingHistoryDays * Day <= k /\ k < start}}

-----------------------------------------------------------------------------
(* The fit and the run (model.rs, pipeline.rs).                             *)

(* weighted_normal_equations and solve_spd: the coefficients depend on every *)
(* row and target. (The ridge of the served options excludes a singular      *)
(* system.)                                                                  *)
Coefficients(examples) == UNION {e.row \union e.realised : e \in examples}

(* fit: too few rows give the constant fallback. *)
FitRidge(examples) ==
    [fallback |-> Cardinality(examples) < MinFitSamples, from |-> Coefficients(examples)]

Predict(fit, row) == IF fit.fallback THEN {} ELSE fit.from \union row

Fitted(examples, rows) ==
    LET fit == FitRidge(examples) IN
    [predicted |-> [q \in DOMAIN rows |-> Predict(fit, rows[q])], fallback |-> fit.fallback]

(* fit_realised: rows of the realised prices of the training window. *)
FitRealised(ctx, opts, start, served) ==
    Fitted(TrainingMatrix(ctx, start, opts.rules),
           [q \in served |-> Features(ctx, q, opts.rules)])

(* source: where the wind or the consumption of q comes from. *)
Source(series, q) ==
    CASE q \in DOMAIN series.forecast -> "Vintage"
      [] q \in DOMAIN series.extended -> "Extension"
      [] q \in DOMAIN series.merged -> "Actual"
      [] OTHER -> "Missing"

(* example_row: the row of an issuance, with the lead time, the sources and *)
(* the lags that were there, and the two sources.                           *)
ExampleRow(ctx, q, rules) ==
    [row |-> Features(ctx, q, rules),
     wind |-> Source(ctx.grid.wind, q), consumption |-> Source(ctx.grid.consumption, q)]

(* served_rows: the row of each predicted quarter at the issue of the run. *)
ServedRows(ctx, rules, served) == [q \in served |-> ExampleRow(ctx, q, rules).row]

(* fit_and_predict of the issuance training. *)
FitIssuances(examples, ctx, opts, served) ==
    Fitted(examples, ServedRows(ctx, opts.rules, served))

(* training: the examples of the last days before the run. *)
CorrectionTraining(examples, start, days) ==
    LET first == start - Min({days, TrainingHistoryDays}) * Day IN
    {e \in examples : first <= e.target /\ e.target < start}

(* correction::apply, after the shape step: nothing without a fit, and only *)
(* for the quarters that have a profile price. A joint correction replaces  *)
(* the prediction by profile and correction, a deviation of the day adds    *)
(* the correction and its mean of the day.                                  *)
ApplyCorrection(shaped, ctx, opts, fit) ==
    LET rows == ServedRows(ctx, opts.rules, DOMAIN shaped)
        Profile(q) == ProfileOf(opts.shape, q, ctx.prices)
        HasProfile(q) == Profile(q) # {}
        Correction(q) == Predict(fit, rows[q] \union Mean(ctx.prices, Profile(q)))
        SameDay(q) == {k \in DOMAIN shaped : UtcDay(k) = UtcDay(q) /\ HasProfile(k)}
    IN  IF fit.fallback THEN shaped
        ELSE [q \in DOMAIN shaped |->
                IF ~HasProfile(q) THEN shaped[q]
                ELSE IF opts.correction = "Joint"
                  THEN Mean(ctx.prices, Profile(q)) \union Correction(q)
                ELSE shaped[q] \union UNION {Correction(k) : k \in SameDay(q)}]

(* The points of a run, and what is said of them. *)
Output(ctx, input, fitted, shaped, corrected) ==
    [series |-> BuildPredictedSeries(Clamp(corrected, SanityBoundFromHistory(input.prices)),
                                     input.start, input.end),
     fallback |-> fitted.fallback,
     gridMissing |-> {q \in DOMAIN fitted.predicted : LacksValue(ctx.grid, q)},
     flat |-> shaped.flat]

Corrected(ctx, input, opts, fitted, shaped, corrections) ==
    Output(ctx, input, fitted, shaped,
           IF opts.correction = "None" THEN shaped.result
           ELSE ApplyCorrection(shaped.result, ctx, opts,
                  FitRidge(CorrectionTraining(corrections, input.start, opts.window))))

Shaped(ctx, input, opts, fitted, corrections) ==
    Corrected(ctx, input, opts, fitted,
              ApplyWithinDayShape(fitted.predicted, input.prices, opts.shape), corrections)

FittedRun(ctx, input, opts, training, corrections) ==
    LET served == Quarters(input.start, input.end) IN
    Shaped(ctx, input, opts,
           IF opts.training = "Issuance" THEN FitIssuances(training, ctx, opts, served)
           ELSE FitRealised(ctx, opts, input.start, served),
           corrections)

(* build_forecast, with the rows of the issuance training and of the        *)
(* correction when the options ask for them: the grid, the fit, the shape,  *)
(* the correction and the output follow one another.                        *)
BuildForecast(input, opts, training, corrections) ==
    FittedRun(ContextOf(input, GridSeries(input, input.end)), input, opts, training, corrections)

Served ==
    [training |-> "Realised", correction |-> "None",
     rules |-> [latest |-> "Before", previousDay |-> "UtcDay"],
     shape |-> [kind |-> "WeekdayMean", weeks |-> ServedShapeWeeks]]

(* assess *)
Degraded(forecast) ==
    forecast.fallback \/ \E q \in DOMAIN forecast.series : forecast.series[q].kind = "zero"

(* forecast_for_route *)
ForecastForRoute(input) ==
    IF HasGridData(input)
      THEN [available |-> TRUE, forecast |-> BuildForecast(input, Served, {}, {})]
      ELSE [available |-> FALSE]
=============================================================================
