------------------------------ MODULE Backtest ------------------------------
(* The two callers of the forecast: the build of the service, which reads   *)
(* what the store holds now (load_inputs of forecast_cache.rs), and the     *)
(* rolling-origin backtest, which reconstructs from complete data what was  *)
(* known at an issue time (tools/backtest.rs).                              *)
EXTENDS IssuanceExamples

CONSTANTS
    CorrectionHistoryDays,
    Facts,              \* everything that was ever published
    Gaps, MaxGaps,      \* what the stores may have missed, and how much of it
    BuildTimes,         \* when the service builds a forecast
    Restriction,        \* origins of a restricted backtest
    Horizons,           \* how many HORIZON_LABELS there are
    Variants            \* forecast options of the backtest

VARIABLES
    missed,             \* the facts that were never stored
    run                 \* the last forecast

backtestVars == <<missed, run>>

Fi == "FI"
IsVintage(f) == f.of \in {"windForecast", "consumptionForecast"}
IsPrice(f) == f.of \in {Fi} \union Neighbours

(* Upstream, a price and a vintage start on a quarter, a series is of one   *)
(* kind, and the market zone reaches to the end of the last window.         *)
ASSUME FactsAssumption ==
    /\ IsFiniteSet(Facts)
    /\ \A f \in Facts : f.start \in 0..LastTime /\ f.issued \in Int
    /\ \A f \in Facts : IsPrice(f) \/ IsVintage(f) => f.start % Quarter = 0
    /\ Neighbours \intersect {"windForecast", "windActual",
                              "consumptionForecast", "consumptionActual"} = {}
    /\ BuildTimes \subseteq 0..LastTime /\ CorrectionHistoryDays \in Nat
    /\ 0..(LastTime + Quarter + ForecastDays * Day) \subseteq DOMAIN MarketZone

Data == Facts \ missed
Of(facts, series) == {f \in facts : f.of = series}
Starting(facts, from, to) == {f \in facts : from <= f.start /\ f.start < to}
Prices(facts) == {f \in facts : IsPrice(f)}
Vintages(facts) == {f \in facts : IsVintage(f)}
Actuals(facts) == {f \in facts : ~IsPrice(f) /\ ~IsVintage(f)}
PriceMap(facts) == [q \in {f.start : f \in facts} |-> {f \in facts : f.start = q}]
NewestPerTarget(facts) ==
    {v \in facts : \A w \in facts : w.of = v.of /\ w.start = v.start => w.issued <= v.issued}

(* When a fact came to the stores: a day of prices at the publication, a    *)
(* vintage in the hour of its issue, an actual after its start.             *)
PublishedAt(f) ==
    IF IsPrice(f) THEN (MarketDay(f.start) - 1) * Day + PublicationHour * Hour ELSE f.issued

StoreAt(facts, now) ==
    {f \in facts : IF IsPrice(f) \/ IsVintage(f) THEN PublishedAt(f) <= now ELSE f.start < now}

Input(prices, grid, window) ==
    [prices |-> PriceMap(Of(prices, Fi)),
     neighbours |-> [a \in Neighbours |-> PriceMap(Of(prices, a))],
     windForecast |-> Of(grid, "windForecast"), windActual |-> Of(grid, "windActual"),
     consumptionForecast |-> Of(grid, "consumptionForecast"),
     consumptionActual |-> Of(grid, "consumptionActual"),
     start |-> window.start, end |-> window.end]

(* load_inputs: the prices before the window, the newest vintage of each    *)
(* target and the actuals up to its end.                                    *)
LoadInputs(store, now) ==
    LET window == ForecastWindow(PriceMap(Of(store, Fi)), now)
    IN  Input(Starting(Prices(store), window.history, window.start),
              Starting(NewestPerTarget(Vintages(store)) \union Actuals(store),
                       window.history, window.end),
              window)

-----------------------------------------------------------------------------
(* The reconstruction of an issue time (tools/backtest.rs).                 *)

(* Mutant: the freshest vintage of a target is chosen before the bound. *)
SelectFreshestFirst(vintages, bound) ==
    {v \in NewestPerTarget(vintages) : \A t \in bound : v.issued < t}

(* select_vintages_as_of; no bound lets every vintage in. *)
SelectVintagesAsOf(vintages, bound) ==
    NewestPerTarget({v \in vintages : \A t \in bound : v.issued < t})

(* IssueLadders: every vintage that the mode lets in, for issuance training. *)
Ladders(vintages, t, bound) ==
    LET known == {v \in vintages : \A b \in bound : v.issued < b} IN
    [at |-> t, wind |-> Of(known, "windForecast"), consumption |-> Of(known, "consumptionForecast")]

(* The prices that are published by t, and where the forecast begins.       *)
PublishedStarts(data, t) ==
    {f.start : f \in {g \in Of(data, Fi) : g.start < PublicationHorizon(t)}}

SeriesStart(published, t) == IF published = {} THEN t ELSE Max(published) + Quarter

VintageBound(mode, t) == IF mode = "IssueTime" THEN {t} ELSE {}

(* The prices and actuals from `from`, up to the window and the issue time. *)
KnownInput(data, t, window, from, bound) ==
    Input(Starting(Prices(data), from, window.start),
          Starting(SelectVintagesAsOf(Vintages(data), bound), window.history, window.end)
            \union Starting(Actuals(data), from, Min({t, window.end})),
          window)

(* reconstruct_issue_time, with the older data that only the correction     *)
(* reads, and the ladders.                                                  *)
ReconstructIssueTime(data, t, mode) ==
    LET published == PublishedStarts(data, t)
        window == WindowFrom(SeriesStart(published, t))
        older == window.history - CorrectionHistoryDays * Day
        bound == VintageBound(mode, t)
    IN  [at |-> t,
         input |-> KnownInput(data, t, window, window.history, bound),
         wide |-> KnownInput(data, t, window, older, bound),
         history |-> Ladders(Starting(Vintages(data), window.history, window.end), t, bound)]

(* What an input may depend on, one fact at a time. *)
FactsOf(input) ==
    (UNION Range(input.prices))
      \union (UNION {UNION Range(input.neighbours[a]) : a \in Neighbours})
      \union input.windForecast \union input.windActual
      \union input.consumptionForecast \union input.consumptionActual

(* Mutant: the guard inspects no issue times. *)
LeakingStarts(inputs) ==
    {f \in FactsOf(inputs.wide) :
       IF IsPrice(f) THEN f.start >= inputs.input.start
       ELSE ~IsVintage(f) /\ f.start >= inputs.at}

(* find_leaking_inputs: prices are bounded by the series start, actuals and *)
(* issuances by the issue time.                                             *)
FindLeakingInputs(inputs) ==
    {f \in FactsOf(inputs.wide) \union inputs.history.wind \union inputs.history.consumption :
       IF IsPrice(f) THEN f.start >= inputs.input.start
       ELSE IF IsVintage(f) THEN f.issued >= inputs.at
       ELSE f.start >= inputs.at}

(* correction_examples_at: with the older prices and actuals. *)
CorrectionExamplesAt(inputs, variant) ==
    IF variant.correction = "None" THEN {}
    ELSE BuildCorrectionExamples(inputs.wide, variant, inputs.history)

(* issuance_examples_at: with the inputs of the served forecast. *)
IssuanceExamplesAt(inputs, variant) ==
    IF variant.training = "Realised" THEN {}
    ELSE BuildIssuanceExamples(inputs.input, variant, inputs.history)

(* forecast_of_input *)
ForecastFrom(inputs, variant, training, corrections) ==
    [series |-> BuildForecast(inputs.input, variant, training, corrections).series,
     examples |-> training \union corrections]

ForecastAtIssueTime(inputs, variant) ==
    ForecastFrom(inputs, variant, IssuanceExamplesAt(inputs, variant),
                 CorrectionExamplesAt(inputs, variant))

-----------------------------------------------------------------------------

BacktestInit == missed = {} /\ run = [kind |-> "none"]

(* A fact was never stored: an outage, or an archive that started later. *)
Miss(fact) ==
    /\ run.kind = "none" /\ Cardinality(missed) < MaxGaps
    /\ missed' = missed \union {fact}
    /\ UNCHANGED run

(* A build of the service. *)
Build(now) ==
    /\ run.kind = "none"
    /\ run' = [kind |-> "build", at |-> now,
               answer |-> ForecastForRoute(LoadInputs(StoreAt(Data, now), now))]
    /\ UNCHANGED missed

(* run_backtest: the origin of a day is an hour after the publication.      *)
OriginOf(day) == day * Day + (PublicationHour + 1) * Hour

PriceDays == {UtcDay(f.start) : f \in Of(Data, Fi)}
Origins == IF PriceDays = {} THEN {} ELSE {OriginOf(d) : d \in Min(PriceDays)..Max(PriceDays)}

(* The origins of a run: a restricted one takes those it is given, another  *)
(* leaves out those before the first wind vintage.                          *)
Runs(data, t, restriction) ==
    IF restriction = {} THEN SelectVintagesAsOf(Of(data, "windForecast"), {t}) # {}
    ELSE t \in UNION restriction

(* What is recorded of a replayed forecast. *)
Replayed(inputs, mode, forecast) ==
    [kind |-> "replayed", at |-> inputs.at, mode |-> mode, inputs |-> inputs,
     leaking |-> FindLeakingInputs(inputs), examples |-> forecast.examples,
     from |-> UNION {point.from : point \in Range(forecast.series)}]

ReplayFrom(data, inputs, mode, variant) ==
    IF ~HasGridData(inputs.input) THEN [kind |-> "no grid data"]
    ELSE Replayed(inputs, mode, ForecastAtIssueTime(inputs, variant))

(* One origin of run_backtest. *)
Replay(data, t, mode, variant) ==
    ReplayFrom(data, ReconstructIssueTime(data, t, mode), mode, variant)

ReplayOrigin(t, mode, variant, restriction) ==
    /\ run.kind = "none"
    /\ run' = IF Runs(Data, t, restriction) THEN Replay(Data, t, mode, variant)
              ELSE [kind |-> "skipped"]
    /\ UNCHANGED missed

(* score_origin: the realised quarters of a forecast. *)
ScoreOrigin(data, inputs, variant) ==
    [start |-> inputs.input.start,
     quarters |-> Held(PriceMap(Of(data, Fi)), DOMAIN ForecastAtIssueTime(inputs, variant).series)]

(* The inputs of each origin that a run takes, and their scores: an origin   *)
(* without grid data or without a realised quarter is not counted.          *)
Scores(data, inputs, variant) ==
    [t \in {o \in DOMAIN inputs : HasGridData(inputs[o].input)} |->
       ScoreOrigin(data, inputs[t], variant)]

Counted(scores) == Restrict(scores, {t \in DOMAIN scores : scores[t].quarters # {}})

(* Mutant: each arm takes the origins that its own vintages cover. *)
RunOfItsOwn(data, mode, variant, restriction) ==
    LET inputs == [t \in Origins |-> ReconstructIssueTime(data, t, mode)]
        runs == {t \in Origins : inputs[t].input.windForecast # {}}
    IN  [t \in runs |-> ScoreOrigin(data, inputs[t], variant)]

(* run_backtest *)
RunBacktest(data, mode, variant, restriction) ==
    Counted(Scores(data,
                   [t \in {o \in Origins : Runs(data, o, restriction)} |->
                      ReconstructIssueTime(data, t, mode)],
                   variant))

(* horizon_of, and the origins of a horizon, each with a mean error. *)
InHorizon(score, h) == {q \in score.quarters : (q - score.start) \div Day = h}
ByOrigin(summary, h) == {t \in DOMAIN summary : InHorizon(summary[t], h) # {}}
Pairs(summary, h) ==
    Cardinality(UNION {{t} \X InHorizon(summary[t], h) : t \in DOMAIN summary})

(* paired_delta: an origin where only one arm has a value is left out. *)
PairedDelta(a, b) == [paired |-> a \intersect b, excluded |-> (a \union b) \ (a \intersect b)]

OriginsMatch(first, second) ==
    /\ DOMAIN first = DOMAIN second
    /\ \A h \in 0..(Horizons - 1) : Pairs(first, h) = Pairs(second, h)

(* What a comparison says of its two arms. *)
Compared(first, second) ==
    [kind |-> "compared", first |-> first, second |-> second,
     match |-> OriginsMatch(first, second),
     byHorizon |-> [h \in 0..(Horizons - 1) |->
                      PairedDelta(ByOrigin(first, h), ByOrigin(second, h))]]

(* The second arm runs on the origins that the first one scored. *)
SecondArm(data, first, mode, variant) ==
    Compared(first, RunBacktest(data, mode, variant, {DOMAIN first}))

Comparison(data, variant, otherMode, other) ==
    SecondArm(data, RunBacktest(data, "IssueTime", variant, {}), otherMode, other)

(* compare_optimism: the same run with the latest vintages. *)
CompareOptimism ==
    /\ run.kind = "none"
    /\ run' = Comparison(Data, Served, "Latest", Served)
    /\ UNCHANGED missed

(* compare_variants *)
CompareVariants(a, b) ==
    /\ run.kind = "none"
    /\ run' = Comparison(Data, a, "IssueTime", b)
    /\ UNCHANGED missed

BacktestNext ==
    \/ \E fact \in Gaps : Miss(fact)
    \/ \E now \in BuildTimes : Build(now)
    \/ \E t \in Origins, mode \in {"IssueTime", "Latest"}, variant \in Variants,
          restriction \in {{}, {Restriction}} : ReplayOrigin(t, mode, variant, restriction)
    \/ CompareOptimism
    \/ \E b \in Variants : CompareVariants(Served, b)

-----------------------------------------------------------------------------

(* What anyone could know at t: stated from the facts alone. *)
KnownAt(f, t) ==
    IF IsPrice(f) \/ IsVintage(f)
      THEN PublishedAt(f) <= t /\ (IsVintage(f) => f.issued < t)
      ELSE f.start < t

(* A forecast of an issue time, with the rows it is trained on, its         *)
(* correction, its shape and its bound, depends on nothing that was not     *)
(* known then; and a training example on nothing that was not known at the  *)
(* earlier issuance that it stands for ("Its features use only what the     *)
(* forecast had at that issuance", issuance.rs).                            *)
NoLookAhead ==
    run.kind = "replayed" /\ run.mode = "IssueTime" =>
      /\ \A f \in run.from : KnownAt(f, run.at)
      /\ \A e \in run.examples : \A f \in e.row : KnownAt(f, e.issued)

(* The leakage guard of the backtest finds a leak exactly when the inputs   *)
(* of the forecast hold something that was not known.                       *)
GuardFindsEveryLeak ==
    run.kind = "replayed" =>
      (run.leaking = {} <=>
         \A f \in FactsOf(run.inputs.wide) \union run.inputs.history.wind
                    \union run.inputs.history.consumption : KnownAt(f, run.at))

(* The two arms of a comparison score the same quarters of the same origins, *)
(* so their difference is due to the vintages or the options alone, no       *)
(* origin is left out of the paired deltas of the mean error, and the arms   *)
(* count as matching ("Arm A and arm B scored on the same issue-time         *)
(* origins", "The honest and the leaked run over the same origins",          *)
(* backtest.rs). A rank metric may still leave out an origin of its own: it  *)
(* is not defined for every series (OriginMetrics), and not part of this.    *)
ArmsScoreTheSameTargets ==
    run.kind = "compared" =>
      /\ run.first = run.second /\ run.match
      /\ \A h \in DOMAIN run.byHorizon : run.byHorizon[h].excluded = {}

(* The backtest replays the inputs of the service: those that load_inputs   *)
(* would have read at the issue time, without the vintages of that hour.    *)
ReplayReadsWhatTheRouteRead ==
    run.kind = "replayed" /\ run.mode = "IssueTime" =>
      run.inputs.input =
        LoadInputs({f \in StoreAt(Data, run.at) : IsVintage(f) => f.issued < run.at}, run.at)

(* The served forecast has a wind and a consumption value and a shape for   *)
(* each quarter, unless the whole store, not only the window it reads,      *)
(* lacks what they are computed from: a vintage of the quarter and each     *)
(* earlier week of actuals, or the price of the same local time in an       *)
(* earlier week. When that time comes twice in the night of the clock       *)
(* change, the instant with the offset of the quarter counts, else either.  *)
FallsBackOnlyWithoutData ==
    run.kind = "build" /\ run.answer.available =>
      LET store == StoreAt(Data, run.at)
          forecast == run.answer.forecast
          Stores(of, q) == \E f \in store : f.of = of /\ Floor(f.start) = q
          Filled(series, actual, q) ==
            Stores(series, q) \/ \E k \in WeeksBack(q, GapFillLookbackWeeks) : Stores(actual, k)
          LocalTime(t) == Calendar!Local(MarketZone, t)
      IN  /\ \A q \in DOMAIN forecast.series : forecast.series[q].kind = "predicted"
          /\ \A q \in forecast.gridMissing :
               \/ ~Filled("windForecast", "windActual", q)
               \/ ~Filled("consumptionForecast", "consumptionActual", q)
          /\ \A q \in forecast.flat :
               \E w \in 1..ServedShapeWeeks :
                 LET same == {k \in DOMAIN MarketZone : LocalTime(k) = LocalTime(q) - w * Week} IN
                 \/ same = {}
                 \/ \E k \in same :
                      /\ MarketZone[k] = MarketZone[q] \/ \A j \in same : MarketZone[j] # MarketZone[q]
                      /\ ~Stores(Fi, k)
=============================================================================
