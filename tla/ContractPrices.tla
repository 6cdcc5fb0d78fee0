--------------------------- MODULE ContractPrices ---------------------------
(* The pure rules of the price endpoints: price.rs, time.rs and             *)
(* endpoints.rs of the domain crate.                                        *)
(*                                                                          *)
(* An instant is a natural number, a day has DayLength local hours of one   *)
(* instant, and a zone is its UTC offset at each instant, so that a local   *)
(* day is longer or shorter where the offset changes. Money is a whole      *)
(* number of thousandths of a c/kWh, the precision of round3.               *)
EXTENDS Integers, FiniteSets, Sequences, SequencesExt, FiniteSetsExt

CONSTANTS DayLength, LastInstant

ASSUME ContractPricesAssumption == DayLength \in Nat \ {0} /\ LastInstant \in Nat

Instants == 0..LastInstant
NoWindow == [prices |-> <<>>]

----------------------------------------------------------------------------
(* Local days (time.rs).                                                    *)

Local(zone, t) == t + zone[t]
LocalDate(zone, t) == Local(zone, t) \div DayLength
LocalHour(zone, t) == Local(zone, t) % DayLength

(* start_of_local_day_utc: the first instant of the date, also when the     *)
(* clock jumps over its midnight.                                           *)
StartOfLocalDay(zone, date) ==
    IF \E t \in Instants : LocalDate(zone, t) >= date
      THEN Min({t \in Instants : LocalDate(zone, t) >= date})
      ELSE LastInstant + 1

(* utc_range_for_local_date_span: each edge has the offset of its own       *)
(* midnight.                                                                *)
UtcRange(zone, from, to) ==
    [start |-> StartOfLocalDay(zone, from), end |-> StartOfLocalDay(zone, to + 1)]

(* covers_range: the periods in the order of their start, and how far they  *)
(* cover the range without a gap.                                           *)
ByStart(p, q) == p.start < q.start \/ (p.start = q.start /\ p.end <= q.end)

CoverTo(periods, range) ==
    FoldLeft(LAMBDA to, p : IF to >= range.end \/ p.start > to THEN to ELSE Max({to, p.end}),
             range.start, SetToSortSeq(periods, ByStart))

(* Mutant: a day is there when it begins and ends with a period. *)
CoversEdges(periods, range) ==
    /\ \E p \in periods : p.start <= range.start
    /\ \E p \in periods : p.end >= range.end

CoversRange(periods, range) == CoverTo(periods, range) >= range.end

----------------------------------------------------------------------------
(* Contract terms (price.rs).                                               *)

(* math_round of n / d: a tie goes up. *)
Rounded(n, d) == (2 * n + d) \div (2 * d)

(* EUR/MWh in thousandths to c/kWh in thousandths. *)
EurMwhToCentsKwh(eur) == Rounded(eur, 10)

(* The night window wraps past midnight, and is empty when its edges meet. *)
IsNightHour(hour, s) ==
    IF s.nightStart > s.nightEnd
      THEN hour >= s.nightStart \/ hour < s.nightEnd
      ELSE hour >= s.nightStart /\ hour < s.nightEnd

(* The spot counts from 0 up, the shown spot stays negative. *)
ApplyContractTerms(spot, s, hour) ==
    LET transfer == IF IsNightHour(hour, s) THEN s.night ELSE s.day
        beforeVat == Max({0, spot}) + s.margin + transfer + s.tax
    IN  [spot |-> spot, transfer |-> transfer,
         vat |-> Rounded(beforeVat * s.vatPercent, 100),
         total |-> Rounded(beforeVat * (100 + s.vatPercent), 100)]

CalculateTotalPrice(row, s) ==
    [start |-> row.start, end |-> row.end,
     localStart |-> Local(s.zone, row.start),
     breakdown |-> ApplyContractTerms(EurMwhToCentsKwh(row.eur), s, LocalHour(s.zone, row.start))]

CalculateTotalPrices(rows, s) ==
    [i \in DOMAIN rows |-> CalculateTotalPrice(rows[i], s)]

Minutes(p) == p.end - p.start
SumOver(run, f(_)) == FoldLeft(LAMBDA sum, p : sum + f(p), 0, run)
Weighted(run) == SumOver(run, LAMBDA p : p.breakdown.total * Minutes(p))
Lasting(run) == SumOver(run, Minutes)

(* build_price_window: nothing for no prices; the average weighs by length. *)
BuildPriceWindow(run) ==
    IF run = <<>> THEN NoWindow
    ELSE [prices |-> run, start |-> Head(run).start, end |-> Last(run).end,
          min |-> Min({p.breakdown.total : p \in Range(run)}),
          max |-> Max({p.breakdown.total : p \in Range(run)}),
          average |-> Rounded(Weighted(run), Lasting(run))]

(* Mutant: a gap between two prices does not end a run. *)
GoesOverGaps(scan, p) == scan.going

(* find_cheapest_window. From each start the scan takes prices until the    *)
(* run is long enough; a gap ends it.                                       *)
Goes(scan, p) == scan.going /\ (scan.run = <<>> \/ Last(scan.run).end = p.start)

RunFrom(totals, first, duration) ==
    LET Take(scan, p) ==
          IF ~Goes(scan, p) THEN [scan EXCEPT !.going = FALSE]
          ELSE LET run == Append(scan.run, p) IN
               [run |-> run, found |-> Lasting(run) >= duration,
                going |-> Lasting(run) < duration]
        scan == FoldLeft(Take, [run |-> <<>>, found |-> FALSE, going |-> TRUE],
                         SubSeq(totals, first, Len(totals)))
    IN  IF scan.found THEN scan.run ELSE <<>>

(* Whether run a has a lower average than run b; nothing is worse. *)
Cheaper(a, b) ==
    a # <<>> /\ (b = <<>> \/ Weighted(a) * Lasting(b) < Weighted(b) * Lasting(a))

FindCheapestWindow(totals, duration) ==
    BuildPriceWindow(
      FoldLeft(LAMBDA best, first :
                 LET run == RunFrom(totals, first, duration) IN
                 IF Cheaper(run, best) THEN run ELSE best,
               <<>>, [i \in DOMAIN totals |-> i]))

----------------------------------------------------------------------------
(* The answers (endpoints.rs).                                              *)

(* The price list: unavailable without prices, never an estimate. *)
FromTotals(totals) == [available |-> totals # <<>>, window |-> BuildPriceWindow(totals)]

(* The list of tomorrow: unavailable unless the day is complete. *)
TomorrowFromTotals(totals, complete) ==
    IF complete THEN FromTotals(totals) ELSE FromTotals(<<>>)

(* The interval that contains `now`. *)
CurrentPrice(rows, now) == SelectSeq(rows, LAMBDA r : r.start <= now /\ now < r.end)

(* What a cheapest window may use. A query without a start begins now, one  *)
(* without an end or a highest price has none.                              *)
CheapestCandidates(rows, query, now) ==
    LET earliest == IF query.start = {} THEN now ELSE Min(query.start) IN
    SelectSeq(rows, LAMBDA r : r.start >= earliest /\ \A end \in query.end : r.end <= end)

CheapestWindow(rows, s, query, now) ==
    LET candidates == CheapestCandidates(rows, query, now)
        affordable == SelectSeq(CalculateTotalPrices(candidates, s),
                        LAMBDA p : \A most \in query.maxPrice : p.breakdown.total <= most)
        window == FindCheapestWindow(affordable, query.duration)
    IN  IF candidates = <<>> THEN [status |-> 404, why |-> "NoPriceData"]
        ELSE IF window = NoWindow THEN [status |-> 404, why |-> "NotEnoughData"]
        ELSE [status |-> 200, window |-> window]
=============================================================================
