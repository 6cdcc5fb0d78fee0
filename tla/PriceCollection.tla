-------------------------- MODULE PriceCollection ---------------------------
(***************************************************************************)
(* One run of the price job in detail (crates/server/src/jobs/prices.rs):  *)
(* the completeness of a date, counted in rows, and the attempts of the    *)
(* Nord Pool client (upstream/nordpool.rs).  PriceScheduler has the        *)
(* schedules around it and abstracts both.                                 *)
(*                                                                         *)
(* Nord Pool sells a market day, which begins at midnight in central       *)
(* Europe: one or two hours before the UTC date of the same name.  The job *)
(* counts the rows of the UTC date, so the last hours of a date come with  *)
(* the market day after it.                                                *)
(***************************************************************************)
EXTENDS Upstream

CONSTANTS
    Areas,           \* ALL_AREAS
    MinEntries,      \* MIN_ENTRIES_PER_AREA
    Resolutions,     \* the rows of an hour: 1, or 4 since the quarter-hour market
    ClockChange,     \* the last date whose market day begins in winter time
    MaxAttempts,     \* RetrySettings::attempts
    RetryDelay,      \* RetrySettings::delay, in seconds
    PriceDeadline,   \* PRICE_DEADLINE, in seconds
    LastDate,        \* bound on the dates
    MaxPriceFaults   \* bound on failed statements, deadlines and stops

ASSUME PriceAssumption ==
    /\ Resolutions \subseteq Nat \ {0} /\ Resolutions # {}
    /\ MaxAttempts \in Nat \ {0}
    /\ \A n \in {MinEntries, RetryDelay, PriceDeadline, LastDate, MaxPriceFaults} : n \in Nat
    /\ ClockChange \in Int
    \* the first two hours of the next market day never count as a whole date
    /\ \A r \in Resolutions : 2 * r < MinEntries

\* The deadline has room for all attempts at both dates, with their delays.
ASSUME PriceDeadlineAssumption ==
    2 * (MaxAttempts * RequestTimeout + (MaxAttempts - 1) * RetryDelay) <= PriceDeadline

VARIABLES
    resolution,   \* the rows of an hour
    date,         \* the UTC date of the clock
    onSale,       \* Nord Pool: onSale[d], the areas whose market day d is published
    prices,       \* prices[d][a]: the stored part of market day d
    prun,         \* the run of run_fetch_job
    priceFaults

priceVars == <<resolution, date, onSale, prices, prun, priceFaults>>

\* prun.met is history: the outcomes of the attempts at the current date;
\* prun.elapsed is the longest time that the run may have waited so far.

\* Dates that a run touches, and the one whose market day ends the last.
Dates == 0 .. LastDate + 1
MarketDays == 0 .. LastDate + 2

\* "holed": an entry of the reply was invalid, and its row is missing.
Parts == {"none", "holed", "whole"}

PriceIdle == [at |-> "idle", today |-> 0, date |-> 0, tries |-> 0, met |-> {}, elapsed |-> 0,
              answer |-> "none", offered |-> {}]

PriceTypeOK ==
    /\ resolution \in Resolutions
    /\ date \in 0 .. LastDate
    /\ onSale \in [MarketDays -> SUBSET Areas]
    /\ prices \in [MarketDays -> [Areas -> Parts]]
    /\ prun.at \in {"idle", "check", "attempt", "store", "done"}
    /\ prun.date \in {prun.today, prun.today + 1}
    /\ prun.tries <= MaxAttempts
    /\ prun.answer \in {"none", "skipped", "empty", "error", "holed", "whole", "fault"}
    /\ priceFaults \in 0 .. MaxPriceFaults

PriceInit ==
    /\ resolution \in Resolutions
    /\ date = 0
    /\ onSale = [d \in MarketDays |-> IF d = 0 THEN Areas ELSE {}]
    /\ prices = [d \in MarketDays |-> [a \in Areas |-> "none"]]
    /\ prun = PriceIdle
    /\ priceFaults = 0

-----------------------------------------------------------------------------

\* The hours between the start of market day d and that of the UTC date d.
Offset(d) == IF d <= ClockChange THEN 1 ELSE 2

\* The stored rows of area a that start in the UTC date d, as
\* count_prices_by_range counts them: the part of market day d that lies in
\* the date, and the first hours of the market day after it.  The range ends
\* one millisecond early, which no row notices.
CountPrices(d, a) ==
    LET rows(part, hours) == CASE part = "none" -> 0
                               [] part = "whole" -> hours * resolution
                               [] part = "holed" -> hours * resolution - 1
    IN  rows(prices[d][a], 24 - Offset(d + 1))
          + (IF prices[d + 1][a] = "none" THEN 0 ELSE Offset(d + 1) * resolution)

\* Mutant: one complete area is enough.
AnyAreaComplete(d) == \E a \in Areas : CountPrices(d, a) >= MinEntries

\* all_areas_present
AllAreasComplete(d) == \A a \in Areas : CountPrices(d, a) >= MinEntries

StartPriceFetch ==
    /\ prun.at = "idle"
    /\ prun' = [PriceIdle EXCEPT !.at = "check", !.today = date, !.date = date,
                                 !.offered = onSale[date]]
    /\ UNCHANGED <<resolution, date, onSale, prices, priceFaults>>

\* fetch_for_date of a date is over: tomorrow follows unless today failed.
GoesOn(answer) == prun.date = prun.today /\ answer \notin {"error", "fault"}

Answered(answer) ==
    prun' = [prun EXCEPT !.at = "done", !.answer = answer]

\* run_fetch_job: the next date, or the end of the run.
NextFetch ==
    /\ prun.at = "done"
    /\ prun' = IF GoesOn(prun.answer)
               THEN [prun EXCEPT !.at = "check", !.date = @ + 1, !.answer = "none",
                                 !.tries = 0, !.met = {}, !.offered = onSale[prun.today + 1]]
               ELSE PriceIdle
    /\ UNCHANGED <<resolution, date, onSale, prices, priceFaults>>

\* fetch_for_date: a date whose areas are all complete is not fetched.
CheckDate ==
    /\ prun.at = "check"
    /\ IF AllAreasComplete(prun.date) THEN Answered("skipped")
                                      ELSE prun' = [prun EXCEPT !.at = "attempt"]
    /\ UNCHANGED <<resolution, date, onSale, prices, priceFaults>>

\* Mutant: drift is taken as "not published yet" at once.
RetriesFailures(outcome) == outcome = "failed"

Retries(outcome) == outcome \in {"failed", "drift"}

\* One turn of the loop of fetch_day_ahead_prices.  Prices, and "no prices",
\* answer at once; a failure or drift is tried again after the delay, and the
\* last attempt decides.  A reply without a row of any area counts as empty.
AttemptDate ==
    /\ prun.at = "attempt"
    /\ \E outcome \in NordPoolOutcomes :
          LET tries == prun.tries + 1
              spent == [prun EXCEPT !.tries = tries, !.met = @ \cup {outcome},
                                    !.elapsed = @ + RequestTimeout]
          IN  prun' =
                CASE Retries(outcome) /\ tries < MaxAttempts ->
                       [spent EXCEPT !.elapsed = @ + RetryDelay]
                  [] outcome = "failed" /\ tries = MaxAttempts ->
                       [spent EXCEPT !.at = "done", !.answer = "error"]
                  [] outcome \in {"whole", "holed"} /\ onSale[prun.date] # {} ->
                       [spent EXCEPT !.at = "store", !.answer = outcome]
                  [] OTHER -> [spent EXCEPT !.at = "done", !.answer = "empty"]
    /\ UNCHANGED <<resolution, date, onSale, prices, priceFaults>>

\* store_prices: an upsert of the rows of the published areas; a row that a
\* holed reply lacks stays when an earlier reply had it.
StoreDate ==
    /\ prun.at = "store"
    /\ prices' = [prices EXCEPT ![prun.date] = [a \in Areas |->
          CASE a \notin onSale[prun.date] \/ @[a] = "whole" -> @[a]
            [] OTHER -> prun.answer]]
    /\ prun' = [prun EXCEPT !.at = "done"]
    /\ UNCHANGED <<resolution, date, onSale, priceFaults>>

\* A count or a store fails.
PriceStoreFails ==
    /\ priceFaults < MaxPriceFaults
    /\ prun.at \in {"check", "store"}
    /\ Answered("fault")
    /\ priceFaults' = priceFaults + 1
    /\ UNCHANGED <<resolution, date, onSale, prices>>

\* The deadline, a panic, a stop signal or a crash.
DropPriceRun ==
    /\ prun.at # "idle" /\ priceFaults < MaxPriceFaults
    /\ prun' = PriceIdle
    /\ priceFaults' = priceFaults + 1
    /\ UNCHANGED <<resolution, date, onSale, prices>>

\* Nord Pool publishes a market day, in full or area by area.
PublishPrices ==
    \E d \in {date, date + 1}, more \in SUBSET Areas :
        /\ more # {} /\ more \cap onSale[d] = {}
        /\ onSale' = [onSale EXCEPT ![d] = @ \cup more]
        /\ UNCHANGED <<resolution, date, prices, prun, priceFaults>>

NextDate ==
    /\ date < LastDate
    /\ prun.at # "idle" => prun.today = date
    /\ date' = date + 1
    /\ UNCHANGED <<resolution, onSale, prices, prun, priceFaults>>

PriceNext ==
    \/ StartPriceFetch \/ NextFetch \/ CheckDate \/ AttemptDate \/ StoreDate
    \/ PriceStoreFails \/ DropPriceRun
    \/ PublishPrices \/ NextDate

PriceSpec == PriceInit /\ [][PriceNext]_priceVars

-----------------------------------------------------------------------------

\* The count of 23 rows in a UTC date never takes the first hours of the next
\* market day for the market day itself: a date that counts as complete, and
\* is never fetched again, has rows of its own market day in every area, with
\* one row or four rows an hour, in winter and in summer time.
CompleteDateHasItsDay ==
    \A d \in Dates : AllAreasComplete(d) => \A a \in Areas : prices[d][a] # "none"

\* The answer that a run has for a date is the whole truth of its attempts:
\* it gives up only after MaxAttempts failures, and when any attempt brought
\* prices, those of every area that was on sale when the run asked are
\* stored, whatever happened to the other date.
RunStoresWhatIsOnSale ==
    prun.at = "done" /\ prun.answer # "fault" =>
        /\ prun.met \cap {"whole", "holed"} # {} =>
              \A a \in prun.offered : prices[prun.date][a] # "none"
        /\ prun.answer \in {"error", "empty"} /\ prun.offered # {} =>
              "unpublished" \in prun.met \/ prun.tries = MaxAttempts

\* Before each attempt of both dates there is time for a request that takes
\* its full limit, so the deadline of the job never cuts a run that only
\* waits for Nord Pool (PRICE_DEADLINE against attempts, delay and timeout).
PriceFitsItsDeadline ==
    prun.at = "attempt" => prun.elapsed + RequestTimeout <= PriceDeadline

=============================================================================
