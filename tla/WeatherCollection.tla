------------------------- MODULE WeatherCollection --------------------------
(***************************************************************************)
(* The hourly weather run (crates/server/src/jobs/weather.rs) and its two  *)
(* tables (store/weather.rs).  Every point is fetched on its own; the      *)
(* hourly and the daily block of a reply are checked and stored on their   *)
(* own; the prune follows only when an hourly block came.                  *)
(*                                                                         *)
(* Time is counted in hours.  A row stands for all targets of one block:   *)
(* a block is stored in one transaction.                                   *)
(***************************************************************************)
EXTENDS Upstream

CONSTANTS
    Points,             \* WEATHER_POINTS, a sequence
    WeatherRetention,   \* WEATHER_RETENTION_DAYS
    WeatherDeadline,    \* HOURLY_DEADLINE, in seconds
    MaxWeatherHour,     \* bound on the clock
    MaxForecasts,       \* bound on the forecasts that the provider issues
    MaxWeatherFaults    \* bound on failed statements, deadlines and stops

ASSUME WeatherAssumption ==
    /\ Points \in Seq(Range(Points)) /\ Len(Points) > 0
    /\ \A n \in {WeatherRetention, WeatherDeadline, MaxWeatherHour,
                 MaxForecasts, MaxWeatherFaults} : n \in Nat

\* The deadline has room for one request of each point.
ASSUME WeatherDeadlineAssumption == Len(Points) * RequestTimeout <= WeatherDeadline

VARIABLES
    weatherHour,   \* the hour of the clock
    issuedCount,   \* the number of the forecast that the provider now gives
    hourlyRows,    \* weather_forecasts
    dailyRows,     \* weather_daily_forecasts
    wrun,          \* the run of run_weather_fetch_job
    weatherFaults

weatherVars == <<weatherHour, issuedCount, hourlyRows, dailyRows, wrun, weatherFaults>>

\* delivered and dailyLost are history: the points whose hourly or daily block
\* was valid, and those whose daily statement failed;
\* elapsed is the longest time that the run may have waited so far.
WeatherIdle ==
    [at |-> "idle", result |-> "none", now |-> 0, point |-> 1, elapsed |-> 0,
     block |-> WeatherDegraded, version |-> 0, failed |-> {}, dailyLost |-> {},
     delivered |-> [hourly |-> {}, daily |-> {}]]

Rows(p) == [point : {Points[p]}, issued : 0 .. MaxWeatherHour, version : 0 .. MaxForecasts]
AllRows == UNION {Rows(p) : p \in DOMAIN Points}

WeatherTypeOK ==
    /\ weatherHour \in 0 .. MaxWeatherHour
    /\ issuedCount \in 0 .. MaxForecasts
    /\ hourlyRows \subseteq AllRows /\ dailyRows \subseteq AllRows
    /\ wrun.at \in {"idle", "fetch", "hourly", "daily", "pruneHourly", "pruneDaily"}
    /\ wrun.result \in {"none", "Ok", "Partial", "Failed", "Err"}
    /\ wrun.point \in DOMAIN Points
    /\ weatherFaults \in 0 .. MaxWeatherFaults

WeatherInit ==
    /\ weatherHour = 0
    /\ issuedCount = 0
    /\ hourlyRows = {}
    /\ dailyRows = {}
    /\ wrun = WeatherIdle
    /\ weatherFaults = 0

-----------------------------------------------------------------------------

Point == Points[wrun.point]

\* store_weather_records and store_weather_daily_records: ON CONFLICT DO
\* NOTHING on the point and the issuance hour.
Inserted(table, row) ==
    IF \E old \in table : old.point = row.point /\ old.issued = row.issued
    THEN table ELSE table \cup {row}

Row == [point |-> Point, issued |-> wrun.now, version |-> wrun.version]

\* prune_weather_records_before, prune_weather_daily_records_before
Kept(table) == {row \in table : row.issued >= wrun.now - WeatherRetention}

StartWeather ==
    /\ wrun.at = "idle"
    /\ wrun' = [WeatherIdle EXCEPT !.at = "fetch", !.now = weatherHour]
    /\ UNCHANGED <<weatherHour, issuedCount, hourlyRows, dailyRows, weatherFaults>>

\* One billed call: fetch_weather of the current point.
FetchPoint ==
    /\ wrun.at = "fetch"
    /\ \E block \in WeatherOutcomes :
          wrun' = [wrun EXCEPT
            !.at = "hourly", !.block = block, !.version = issuedCount,
            !.elapsed = @ + RequestTimeout,
            !.delivered = [hourly |-> IF block.hourly THEN @.hourly \cup {Point} ELSE @.hourly,
                           daily |-> IF block.daily THEN @.daily \cup {Point} ELSE @.daily]]
    /\ UNCHANGED <<weatherHour, issuedCount, hourlyRows, dailyRows, weatherFaults>>

\* Mutant: after an hourly failure the point is left, and its daily block
\* with it.
StoreHourlyOrSkip ==
    /\ wrun.at = "hourly"
    /\ IF wrun.block.hourly
       THEN /\ hourlyRows' = Inserted(hourlyRows, Row)
            /\ wrun' = [wrun EXCEPT !.at = "daily"]
       ELSE /\ hourlyRows' = hourlyRows
            /\ wrun' = [wrun EXCEPT !.at = "daily", !.block = WeatherDegraded,
                                    !.failed = @ \cup {Point}]
    /\ UNCHANGED <<weatherHour, issuedCount, dailyRows, weatherFaults>>

\* The hourly block of a point is stored, or its failure is noted.
StoreHourly ==
    /\ wrun.at = "hourly"
    /\ wrun' = [wrun EXCEPT !.at = "daily",
                            !.failed = IF wrun.block.hourly THEN @ ELSE @ \cup {Point}]
    /\ hourlyRows' = IF wrun.block.hourly THEN Inserted(hourlyRows, Row) ELSE hourlyRows
    /\ UNCHANGED <<weatherHour, issuedCount, dailyRows, weatherFaults>>

\* Mutant: the prune runs although no hourly block came.
PruneAnyway(failed) == TRUE

\* successes > 0
MayPrune(failed) == failed # Range(Points)

\* The next point, or after the last one the prune, which an outage of the
\* hourly blocks prevents.
AfterPoint(r) ==
    IF r.point < Len(Points)
    THEN [r EXCEPT !.at = "fetch", !.point = @ + 1, !.block = WeatherDegraded]
    ELSE IF MayPrune(r.failed) THEN [r EXCEPT !.at = "pruneHourly"]
    ELSE [r EXCEPT !.at = "idle", !.result = "Failed"]

\* The daily block has its own transaction and its own failure, after an
\* hourly failure too.
StoreDaily ==
    /\ wrun.at = "daily"
    /\ \/ /\ wrun.block.daily
          /\ dailyRows' = Inserted(dailyRows, Row)
          /\ wrun' = AfterPoint(wrun)
          /\ UNCHANGED weatherFaults
       \/ /\ ~wrun.block.daily
          /\ wrun' = AfterPoint(wrun)
          /\ UNCHANGED <<dailyRows, weatherFaults>>
       \/ /\ wrun.block.daily /\ weatherFaults < MaxWeatherFaults
          /\ wrun' = AfterPoint([wrun EXCEPT !.dailyLost = @ \cup {Point}])
          /\ weatherFaults' = weatherFaults + 1
          /\ UNCHANGED dailyRows
    /\ UNCHANGED <<weatherHour, issuedCount, hourlyRows>>

PruneHourly ==
    /\ wrun.at = "pruneHourly"
    /\ hourlyRows' = Kept(hourlyRows)
    /\ wrun' = [wrun EXCEPT !.at = "pruneDaily"]
    /\ UNCHANGED <<weatherHour, issuedCount, dailyRows, weatherFaults>>

\* The last step; its failure is only logged.
PruneDaily ==
    /\ wrun.at = "pruneDaily"
    /\ \/ dailyRows' = Kept(dailyRows) /\ UNCHANGED weatherFaults
       \/ /\ weatherFaults < MaxWeatherFaults
          /\ weatherFaults' = weatherFaults + 1
          /\ UNCHANGED dailyRows
    /\ wrun' = [wrun EXCEPT !.at = "idle",
                            !.result = IF wrun.failed = {} THEN "Ok" ELSE "Partial"]
    /\ UNCHANGED <<weatherHour, issuedCount, hourlyRows>>

\* A statement of the hourly side fails: the error leaves the whole run, the
\* points that were not reached included.
HourlyStoreFails ==
    /\ weatherFaults < MaxWeatherFaults
    /\ \/ wrun.at = "hourly" /\ wrun.block.hourly
       \/ wrun.at = "pruneHourly"
    /\ wrun' = [WeatherIdle EXCEPT !.result = "Err"]
    /\ weatherFaults' = weatherFaults + 1
    /\ UNCHANGED <<weatherHour, issuedCount, hourlyRows, dailyRows>>

\* The deadline, a panic, a stop signal or a crash.
DropWeatherRun ==
    /\ wrun.at # "idle" /\ weatherFaults < MaxWeatherFaults
    /\ wrun' = WeatherIdle
    /\ weatherFaults' = weatherFaults + 1
    /\ UNCHANGED <<weatherHour, issuedCount, hourlyRows, dailyRows>>

IssueForecast ==
    /\ issuedCount < MaxForecasts
    /\ issuedCount' = issuedCount + 1
    /\ UNCHANGED <<weatherHour, hourlyRows, dailyRows, wrun, weatherFaults>>

NextWeatherHour ==
    /\ weatherHour < MaxWeatherHour
    /\ wrun.at # "idle" => wrun.now = weatherHour
    /\ weatherHour' = weatherHour + 1
    /\ UNCHANGED <<issuedCount, hourlyRows, dailyRows, wrun, weatherFaults>>

WeatherNext ==
    \/ StartWeather \/ FetchPoint \/ StoreHourly \/ StoreDaily
    \/ PruneHourly \/ PruneDaily
    \/ HourlyStoreFails \/ DropWeatherRun
    \/ IssueForecast \/ NextWeatherHour

WeatherSpec == WeatherInit /\ [][WeatherNext]_weatherVars

-----------------------------------------------------------------------------

\* When a run ends without a failed hourly statement, every block that a
\* provider reply delivered is in its table: a failed point never costs the
\* other point, a drifted hourly block never costs the daily one, and the
\* prune at the end removes nothing of the run (run_weather_fetch_job).
DeliveredBlocksAreStored ==
    wrun.at = "idle" /\ wrun.result \in {"Ok", "Partial", "Failed"} =>
        /\ \A p \in wrun.delivered.hourly :
              \E row \in hourlyRows : row.point = p /\ row.issued = wrun.now
        /\ \A p \in wrun.delivered.daily \ wrun.dailyLost :
              \E row \in dailyRows : row.point = p /\ row.issued = wrun.now

\* History only goes when new data came: a row is deleted only by a run that
\* got an hourly block of some point, and only past the retention.  An outage
\* of the provider, however long, empties no table.
OnlyOldRowsGo ==
    \A row \in (hourlyRows \ hourlyRows') \cup (dailyRows \ dailyRows') :
       /\ row.issued < weatherHour - WeatherRetention
       /\ wrun.delivered.hourly # {}
OutageKeepsHistory == [][OnlyOldRowsGo]_weatherVars

\* A stored issuance never changes its values: of two runs in one hour the
\* first one counts, for every point and block.
IssuedForecastKept ==
    \A old \in hourlyRows, new \in hourlyRows' :
       old.point = new.point /\ old.issued = new.issued => old = new
IssuedForecastStays == [][IssuedForecastKept]_weatherVars

\* A call that waits for its full time limit still ends before the deadline
\* of the hourly job, for every point.
WeatherFitsItsDeadline ==
    wrun.at = "fetch" => wrun.elapsed + RequestTimeout <= WeatherDeadline

=============================================================================
