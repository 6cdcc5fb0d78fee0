--------------------------- MODULE ForecastSeries ---------------------------
(* The series helpers of the FI forecast: quarter.rs and series.rs of the   *)
(* domain crate.                                                            *)
(*                                                                          *)
(* A quarter map is a function from the starts of some quarters. A value is *)
(* the set of the stored facts that it was computed from, [of, start,       *)
(* issued], so that a mean, a sum or a fit is a union. A stored value is    *)
(* finite: the parsers of the upstream services let no other through.       *)
EXTENDS Integers, FiniteSets, FiniteSetsExt, Functions

CONSTANTS
    Quarter, Hour, Day,     \* their lengths, in the unit of the clock
    DaysOfWeek,
    LastTime,               \* the end of the time axis
    MarketZone,             \* the UTC offset of the delivery days, by instant
    GapFillLookbackWeeks,
    PublishedDayLookback    \* PREVIOUS_PUBLISHED_DAY_LOOKBACK_DAYS

ASSUME ForecastSeriesAssumption ==
    /\ {Quarter, Hour, Day, DaysOfWeek} \subseteq Nat \ {0}
    /\ Hour % Quarter = 0 /\ Day % Hour = 0

Week == DaysOfWeek * Day

Calendar == INSTANCE ContractPrices WITH DayLength <- Day, LastInstant <- LastTime

Floor(t) == (t \div Quarter) * Quarter
Quarters(from, to) == {q \in from..(to - 1) : q % Quarter = 0}
UtcDay(q) == q \div Day
MarketDay(q) == Calendar!LocalDate(MarketZone, q)
MarketDayStart(date) == Calendar!StartOfLocalDay(MarketZone, date)

(* The market zone is defined on the whole axis, a change of its clock      *)
(* never goes back over a midnight, its offsets are within a day of each    *)
(* other, and a local time comes at most twice.                             *)
ASSUME MarketZoneAssumption ==
    /\ IsFiniteSet(DOMAIN MarketZone) /\ DOMAIN MarketZone \subseteq Int
    /\ LastTime \in Nat /\ 0..LastTime \subseteq DOMAIN MarketZone
    /\ \A t \in DOMAIN MarketZone : MarketZone[t] \in Int
    /\ \A s, t \in DOMAIN MarketZone : MarketZone[s] - MarketZone[t] <= Day
    /\ \A s, t \in 0..LastTime : s <= t => MarketDay(s) <= MarketDay(t)
    /\ \A s, t, u \in DOMAIN MarketZone :
         Calendar!Local(MarketZone, s) = Calendar!Local(MarketZone, t)
           /\ Calendar!Local(MarketZone, t) = Calendar!Local(MarketZone, u)
           => s = t \/ t = u \/ s = u

Held(map, keys) == keys \intersect DOMAIN map
Mean(map, keys) == UNION {map[k] : k \in Held(map, keys)}
Within(map, from, to) == Restrict(map, {k \in DOMAIN map : from <= k /\ k < to})
NoValues == <<>>    \* the quarter map of no quarter

(* The values of one map, and those of another for the quarters that it     *)
(* lacks.                                                                   *)
OrElse(map, other) ==
    [q \in DOMAIN map \union DOMAIN other |-> IF q \in DOMAIN map THEN map[q] ELSE other[q]]

-----------------------------------------------------------------------------
(* Grid records (series.rs).                                                *)

(* bucket_records: the mean of the samples of each quarter. *)
BucketRecords(records) ==
    [q \in {Floor(r.start) : r \in records} |-> {r \in records : Floor(r.start) = q}]

(* expand_hourly_to_quarters: a value at the top of an hour also fills the  *)
(* quarters of that hour that have none.                                    *)
ExpandHourlyToQuarters(records) ==
    LET quarters == BucketRecords(records)
        tops == {q \in DOMAIN quarters : q % Hour = 0}
        hours == UNION {Quarters(h, h + Hour) : h \in tops}
    IN  OrElse(quarters, [q \in hours |-> quarters[(q \div Hour) * Hour]])

(* The same quarter of the week in earlier weeks. *)
WeeksBack(q, weeks) == {q - w * Week : w \in 1..weeks}

(* extend_with_last_week: after the last forecast, the mean of the last     *)
(* weeks of actuals.                                                        *)
ExtendWithLastWeek(forecast, actual, end, weeks) ==
    IF forecast = NoValues THEN forecast
    ELSE LET tail == {q \in Quarters(Max(DOMAIN forecast) + Quarter, end) :
                        Held(actual, WeeksBack(q, weeks)) # {}}
         IN  OrElse(forecast, [q \in tail |-> Mean(actual, WeeksBack(q, weeks))])

(* Mutant: the fill looks no further back than the extension does. *)
NearestWeeksOnly(q, actual, weeks) == Held(actual, WeeksBack(q, weeks))

(* The nearest `weeks` weeks that have an actual, within the lookback. *)
NearestWeeks(q, actual, weeks) ==
    LET back == Held(actual, WeeksBack(q, Max({weeks, GapFillLookbackWeeks}))) IN
    {k \in back : Cardinality({later \in back : later > k}) < weeks}

(* fill_gaps_from_earlier_weeks: a value for each quarter from the first    *)
(* actual on that `known` lacks.                                            *)
FillGapsFromEarlierWeeks(known, actual, end, weeks) ==
    IF actual = NoValues \/ weeks = 0 THEN NoValues
    ELSE LET gaps == {q \in Quarters(Min(DOMAIN actual), end) \ DOMAIN known :
                        NearestWeeks(q, actual, weeks) # {}}
         IN  [q \in gaps |-> Mean(actual, NearestWeeks(q, actual, weeks))]

-----------------------------------------------------------------------------
(* The shape within the day (series.rs).                                    *)

(* same_local_time_days_back: no quarter in the skipped hour of a day; in a *)
(* repeated hour, the one with the offset of q, else the earlier one.       *)
SameLocalTimeDaysBack(q, days) ==
    LET local == Calendar!Local(MarketZone, q) - days * Day
        same == {t \in {local - offset : offset \in Range(MarketZone)} \intersect DOMAIN MarketZone :
                   Calendar!Local(MarketZone, t) = local}
        later == Max(same)
    IN  IF same = {} THEN {}
        ELSE {IF MarketZone[later] = MarketZone[q] THEN later ELSE Min(same)}

(* complete_local_day *)
CompleteLocalDay(date, prices) ==
    LET quarters == Quarters(MarketDayStart(date), MarketDayStart(date + 1)) IN
    quarters # {} /\ quarters \subseteq DOMAIN prices

(* persistence_at: a day earlier, else a week earlier. *)
PersistenceAt(q, prices) ==
    IF q - Day \in DOMAIN prices THEN {q - Day} ELSE Held(prices, {q - Week})

(* previous_published_day_at: the latest complete day decides, also when it *)
(* has no such local time.                                                  *)
PreviousPublishedDayAt(q, prices) ==
    LET days == {n \in 1..PublishedDayLookback : CompleteLocalDay(MarketDay(q) - n, prices)} IN
    IF days = {} THEN {} ELSE Held(prices, SameLocalTimeDaysBack(q, Min(days)))

(* weekday_mean_at: every week must have a price. *)
WeekdayMeanAt(q, weeks, prices) ==
    LET sources == [w \in 1..weeks |-> SameLocalTimeDaysBack(q, w * DaysOfWeek)] IN
    IF \A w \in 1..weeks : Held(prices, sources[w]) # {}
      THEN UNION Range(sources)
      ELSE {}

(* profile_values: the quarters whose prices are the profile price of q;    *)
(* none for a quarter without one.                                          *)
ProfileOf(profile, q, prices) ==
    CASE profile.kind = "Persistence" -> PersistenceAt(q, prices)
      [] profile.kind = "PreviousPublishedDay" -> PreviousPublishedDayAt(q, prices)
      [] profile.kind = "WeekdayMean" -> WeekdayMeanAt(q, profile.weeks, prices)

(* apply_within_day_shape_with: the mean of the predictions of the UTC day, *)
(* and the deviation of the profile from its mean of the day.               *)
ApplyWithinDayShape(predicted, prices, profile) ==
    LET lag == [q \in DOMAIN predicted |-> ProfileOf(profile, q, prices)]
        SameDay(q) == {k \in DOMAIN predicted : UtcDay(k) = UtcDay(q)}
        Deviation(q) ==
          IF lag[q] = {} THEN {} ELSE Mean(prices, UNION {lag[k] : k \in SameDay(q)})
    IN  [result |-> [q \in DOMAIN predicted |-> Mean(predicted, SameDay(q)) \union Deviation(q)],
         flat |-> {q \in DOMAIN predicted : lag[q] = {}}]

-----------------------------------------------------------------------------
(* The output (series.rs).                                                  *)

(* sanity_bound_from_history: nothing without a price. *)
SanityBoundFromHistory(prices) == Mean(prices, DOMAIN prices)

(* clamp_predictions: a clamped value may also be the bound. *)
Clamp(predicted, bound) == [q \in DOMAIN predicted |-> predicted[q] \union bound]

(* build_predicted_series: a missing quarter takes the last prediction      *)
(* before it, else the first one; without any it is a zero.                 *)
BuildPredictedSeries(predicted, start, end) ==
    LET known == Held(predicted, Quarters(start, end))
        Before(q) == {k \in known : k <= q}
        Point(q) ==
          IF q \in known THEN [kind |-> "predicted", from |-> predicted[q]]
          ELSE IF known = {} THEN [kind |-> "zero", from |-> {}]
          ELSE [kind |-> "filled",
                from |-> predicted[IF Before(q) = {} THEN Min(known) ELSE Max(Before(q))]]
    IN  [q \in Quarters(start, end) |-> Point(q)]
=============================================================================
