-------------------------- MODULE IssuanceExamples --------------------------
(* Training on earlier issuances (issuance.rs): for each of them, the       *)
(* inputs that it had are reconstructed from the data of this run, and each *)
(* quarter that it predicted and that has a price by now is an example.     *)
(*                                                                          *)
(* A history is [at, wind, consumption]: the issue time of the run and its  *)
(* archived forecast vintages.                                              *)
EXTENDS ForecastPipeline

CONSTANTS PublicationHour   \* PUBLICATION_HOUR_UTC

(* A delivery day is published on the UTC date before it, and before it     *)
(* begins.                                                                  *)
ASSUME PublicationAssumption ==
    /\ PublicationHour \in Nat /\ PublicationHour * Hour <= Day
    /\ \A t \in 0..LastTime : PublicationHour * Hour + MarketZone[t] <= Day

MaxTrainingIssuances == TrainingHistoryDays + ForecastDays + 2

(* publication_horizon: the end of the delivery days that are published at  *)
(* t. The prices of a day come at a fixed hour of the UTC date before it.   *)
PublicationHorizon(t) ==
    LET published == IF (t % Day) \div Hour >= PublicationHour THEN UtcDay(t) + 1 ELSE UtcDay(t)
    IN  MarketDayStart(published + 1)

(* Vintages issued before t. *)
KnownBefore(vintages, t) == {v \in vintages : v.issued < t}

(* Ladder::as_of: per target of the window, the newest vintage known at t. *)
AsOf(vintages, t, from, to) ==
    LET known == {v \in KnownBefore(vintages, t) : from <= v.start /\ v.start < to} IN
    {v \in known : \A w \in known : w.start = v.start => w.issued <= v.issued}

(* Mutant: the actuals are those of the window. *)
RecordsOfWindow(records, from, before) == {r \in records : from <= r.start}

(* records_before *)
RecordsBefore(records, from, before) == {r \in records : from <= r.start /\ r.start < before}

(* issuance_series_start: after the last price that was published at t, and *)
(* never later than this run.                                               *)
IssuanceSeriesStart(input, t) ==
    LET end == Min({Floor(PublicationHorizon(t)), Floor(input.start)})
        published == {q \in DOMAIN input.prices : q < end}
    IN  IF published = {} THEN end ELSE Max(published) + Quarter

(* IssuanceInputs::reconstruct *)
Reconstruct(input, history, t) ==
    LET w == WindowFrom(IssuanceSeriesStart(input, t))
        vintages(archived) == AsOf(KnownBefore(archived, history.at), t, w.history, w.end)
    IN  [prices |-> Within(input.prices, w.history, w.start),
         neighbours |-> [a \in Neighbours |-> Within(input.neighbours[a], w.history, w.start)],
         windForecast |-> vintages(history.wind),
         consumptionForecast |-> vintages(history.consumption),
         windActual |-> RecordsBefore(input.windActual, w.history, t),
         consumptionActual |-> RecordsBefore(input.consumptionActual, w.history, t),
         start |-> w.start, end |-> w.end]

(* The targets of an issuance that this run trains on: those of its window  *)
(* that lie in the training window and have a price.                        *)
Targets(input, issuance) ==
    LET first == Max({issuance.start, Floor(input.start) - TrainingHistoryDays * Day})
        end == Min({issuance.end, Floor(input.start)})
    IN  Held(input.prices, Quarters(first, end))

(* issuance_examples: a target without a wind or a consumption value is     *)
(* left out.                                                                *)
KnownRows(rows) == {q \in DOMAIN rows : "Missing" \notin {rows[q].wind, rows[q].consumption}}

ExamplesIn(ctx, input, opts, issuance, t) ==
    LET rows == [q \in Targets(input, issuance) |-> ExampleRow(ctx, q, opts.rules)] IN
    {[row |-> rows[q].row, issued |-> t, start |-> issuance.start, target |-> q,
      realised |-> input.prices[q]] : q \in KnownRows(rows)}

ExamplesOf(input, opts, issuance, t) ==
    ExamplesIn(ContextOf(issuance, GridSeries(issuance, issuance.end)), input, opts, issuance, t)

(* An issuance without grid data or without a price gives no examples. *)
ExamplesIfUsable(input, opts, issuance, t) ==
    IF HasGridData(issuance) /\ issuance.prices # NoValues
      THEN ExamplesOf(input, opts, issuance, t)
      ELSE {}

(* build_issuance_examples: the issuances at the time of day of this run,   *)
(* as far back as their window reaches the training window.                 *)
BuildIssuanceExamples(input, opts, history) ==
    LET first == Floor(input.start) - TrainingHistoryDays * Day
        times == {history.at - k * Day : k \in 1..MaxTrainingIssuances}
        reaching == {t \in times : t >= 0 /\ IssuanceSeriesStart(input, t) + ForecastDays * Day > first}
    IN  UNION {ExamplesIfUsable(input, opts, Reconstruct(input, history, t), t) : t \in reaching}

(* build_correction_examples (correction.rs): the examples with a profile   *)
(* price, from the prices that their issuance had.                          *)
BuildCorrectionExamples(input, opts, history) ==
    LET Published(e) == Within(input.prices, WindowFrom(e.start).history, e.start)
        Baseline(e) == ProfileOf(opts.shape, e.target, Published(e))
        examples == {e \in BuildIssuanceExamples(input, opts, history) : Baseline(e) # {}}
    IN  {[e EXCEPT !.row = @ \union Mean(Published(e), Baseline(e))] : e \in examples}
=============================================================================
