--------------------------- MODULE CollectorProofs ----------------------------
(***************************************************************************)
(* Proofs about WeatherCollection, and about the three collecting jobs as  *)
(* MCCollectors composes them: any points, any retention and any bounds.   *)
(***************************************************************************)
EXTENDS MCCollectors, FingridProofs

(***************************************************************************)
(* The inductive invariant of the weather run.                             *)
(***************************************************************************)

WeatherRow ==
    [point : Range(Points), issued : 0 .. MaxWeatherHour, version : 0 .. MaxForecasts]

WeatherRunType ==
    [at : {"idle", "fetch", "hourly", "daily", "pruneHourly", "pruneDaily"},
     result : {"none", "Ok", "Partial", "Failed", "Err"},
     now : 0 .. MaxWeatherHour, point : DOMAIN Points, elapsed : Nat,
     block : WeatherOutcomes \cup {WeatherDegraded}, version : 0 .. MaxForecasts,
     failed : SUBSET Range(Points), dailyLost : SUBSET Range(Points),
     delivered : [hourly : SUBSET Range(Points), daily : SUBSET Range(Points)]]

WeatherStateInv ==
    /\ weatherHour \in 0 .. MaxWeatherHour
    /\ issuedCount \in 0 .. MaxForecasts
    /\ hourlyRows \subseteq WeatherRow /\ dailyRows \subseteq WeatherRow
    /\ wrun \in WeatherRunType
    /\ wrun.now <= weatherHour
    /\ weatherFaults \in 0 .. MaxWeatherFaults

\* An issuance has one row of a point.
OneRow ==
    \A row, other \in hourlyRows :
       row.point = other.point /\ row.issued = other.issued => row = other

Holds(table, p) == \E row \in table : row.point = p /\ row.issued = wrun.now

\* The blocks that came are stored, but for those of the point at hand.
StoredInv ==
    /\ \A p \in wrun.delivered.hourly :
          \/ wrun.at = "hourly" /\ p = Point /\ wrun.block.hourly
          \/ Holds(hourlyRows, p)
    /\ \A p \in wrun.delivered.daily \ wrun.dailyLost :
          \/ wrun.at \in {"hourly", "daily"} /\ p = Point /\ wrun.block.daily
          \/ Holds(dailyRows, p)

\* A point that the run is past has failed, or its hourly block came; a run that
\* prunes got one.
ReachedInv ==
    /\ wrun.at \in {"fetch", "hourly", "daily"} =>
          \A i \in DOMAIN Points :
             i < wrun.point => Points[i] \in wrun.failed \cup wrun.delivered.hourly
    /\ wrun.at = "hourly" /\ wrun.block.hourly => Point \in wrun.delivered.hourly
    /\ wrun.at = "daily" => Point \in wrun.failed \cup wrun.delivered.hourly
    /\ wrun.at \in {"pruneHourly", "pruneDaily"} => wrun.delivered.hourly # {}

WeatherIInv == WeatherStateInv /\ OneRow /\ StoredInv /\ ReachedInv

-----------------------------------------------------------------------------

\* The parameters are natural numbers, and there is a point.
LEMMA WeatherConstants ==
    /\ WeatherRetention \in Nat /\ MaxWeatherHour \in Nat /\ MaxForecasts \in Nat
    /\ MaxWeatherFaults \in Nat /\ RequestTimeout \in Nat
    /\ Len(Points) \in Nat /\ Len(Points) > 0 /\ DOMAIN Points = 1 .. Len(Points)
    /\ \A i \in DOMAIN Points : Points[i] \in Range(Points)
    /\ \A p \in Range(Points) : \E i \in DOMAIN Points : Points[i] = p
BY WeatherAssumption, UpstreamAssumption DEF Range

\* The fields of a typed run.
LEMMA WeatherRunFields ==
    ASSUME NEW r \in WeatherRunType
    PROVE  /\ r.now \in 0 .. MaxWeatherHour /\ r.point \in DOMAIN Points
           /\ r.version \in 0 .. MaxForecasts
           /\ Points[r.point] \in Range(Points) /\ r.elapsed \in Nat
           /\ r.failed \subseteq Range(Points) /\ r.dailyLost \subseteq Range(Points)
           /\ r.delivered \in [hourly : SUBSET Range(Points), daily : SUBSET Range(Points)]
           /\ r.delivered.hourly \subseteq Range(Points)
BY WeatherConstants DEF WeatherRunType

\* The run that waits for the next hour, and the one that starts.
LEMMA WeatherIdleRun ==
    /\ WeatherIdle \in WeatherRunType
    /\ WeatherIdle.at = "idle" /\ WeatherIdle.result = "none" /\ WeatherIdle.now = 0
    /\ WeatherIdle.delivered.hourly = {} /\ WeatherIdle.delivered.daily = {}
    /\ WeatherIdle.point = 1
BY WeatherConstants DEF WeatherIdle, WeatherRunType

\* A run that starts has fetched nothing.
LEMMA WeatherStartRun ==
    ASSUME WeatherStateInv, StartWeather
    PROVE  /\ wrun' \in WeatherRunType
           /\ wrun'.at = "fetch" /\ wrun'.now = weatherHour /\ wrun'.point = 1
           /\ wrun'.delivered.hourly = {} /\ wrun'.delivered.daily = {}
<1>1. wrun' = [WeatherIdle EXCEPT !.at = "fetch", !.now = weatherHour]
  BY DEF StartWeather
<1>2. weatherHour \in 0 .. MaxWeatherHour
  BY DEF WeatherStateInv
<1> QED
  BY <1>1, <1>2, WeatherIdleRun DEF WeatherIdle, WeatherRunType

\* The run that has fetched a point.
LEMMA FetchedRun ==
    ASSUME WeatherStateInv, FetchPoint
    PROVE  /\ wrun' \in WeatherRunType /\ wrun.at = "fetch" /\ wrun'.at = "hourly"
           /\ wrun'.now = wrun.now /\ wrun'.point = wrun.point
           /\ wrun'.failed = wrun.failed /\ wrun'.dailyLost = wrun.dailyLost
           /\ wrun'.delivered.hourly =
                IF wrun'.block.hourly THEN wrun.delivered.hourly \cup {Point}
                                      ELSE wrun.delivered.hourly
           /\ wrun'.delivered.daily =
                IF wrun'.block.daily THEN wrun.delivered.daily \cup {Point}
                                     ELSE wrun.delivered.daily
<1>1. PICK block \in WeatherOutcomes :
          wrun' = [wrun EXCEPT
            !.at = "hourly", !.block = block, !.version = issuedCount,
            !.elapsed = @ + RequestTimeout,
            !.delivered = [hourly |-> IF block.hourly THEN @.hourly \cup {Point} ELSE @.hourly,
                           daily |-> IF block.daily THEN @.daily \cup {Point} ELSE @.daily]]
  BY DEF FetchPoint
<1> DEFINE delivered ==
      [hourly |-> IF block.hourly THEN wrun.delivered.hourly \cup {Point}
                                  ELSE wrun.delivered.hourly,
       daily |-> IF block.daily THEN wrun.delivered.daily \cup {Point}
                                ELSE wrun.delivered.daily]
<1>2. wrun \in WeatherRunType /\ issuedCount \in 0 .. MaxForecasts
  BY DEF WeatherStateInv
<1>3. Point \in Range(Points) /\ wrun.elapsed + RequestTimeout \in Nat
  BY <1>2, WeatherRunFields, WeatherConstants DEF Point
<1>4. delivered \in [hourly : SUBSET Range(Points), daily : SUBSET Range(Points)]
  BY <1>2, <1>3, WeatherRunFields
<1>5. wrun' = [wrun EXCEPT !.at = "hourly", !.block = block, !.version = issuedCount,
                           !.elapsed = @ + RequestTimeout, !.delivered = delivered]
  BY <1>1
<1>6. /\ delivered.hourly = IF block.hourly THEN wrun.delivered.hourly \cup {Point}
                                            ELSE wrun.delivered.hourly
      /\ delivered.daily = IF block.daily THEN wrun.delivered.daily \cup {Point}
                                          ELSE wrun.delivered.daily
  OBVIOUS
<1> HIDE DEF delivered
<1>7. /\ wrun' \in WeatherRunType /\ wrun'.at = "hourly" /\ wrun'.now = wrun.now
      /\ wrun'.point = wrun.point /\ wrun'.failed = wrun.failed
      /\ wrun'.dailyLost = wrun.dailyLost /\ wrun'.delivered = delivered
      /\ wrun'.block = block
  BY <1>2, <1>3, <1>4, <1>5 DEF WeatherRunType
<1> QED
  BY <1>6, <1>7 DEF FetchPoint

\* The run that has stored an hourly block, or noted its failure.
LEMMA HourlyRun ==
    ASSUME WeatherStateInv, StoreHourly
    PROVE  /\ wrun' \in WeatherRunType /\ wrun.at = "hourly" /\ wrun'.at = "daily"
           /\ wrun'.now = wrun.now /\ wrun'.point = wrun.point /\ wrun'.block = wrun.block
           /\ wrun'.dailyLost = wrun.dailyLost /\ wrun'.delivered = wrun.delivered
           /\ wrun'.failed = IF wrun.block.hourly THEN wrun.failed ELSE wrun.failed \cup {Point}
<1>1. wrun \in WeatherRunType
  BY DEF WeatherStateInv
<1> DEFINE failed == IF wrun.block.hourly THEN wrun.failed ELSE wrun.failed \cup {Point}
<1>2. failed \in SUBSET Range(Points)
  BY <1>1, WeatherRunFields DEF Point
<1>3. wrun' = [wrun EXCEPT !.at = "daily", !.failed = failed]
  BY DEF StoreHourly
<1> HIDE DEF failed
<1>4. /\ wrun' \in WeatherRunType /\ wrun'.at = "daily" /\ wrun'.failed = failed
      /\ wrun'.now = wrun.now /\ wrun'.point = wrun.point /\ wrun'.block = wrun.block
      /\ wrun'.dailyLost = wrun.dailyLost /\ wrun'.delivered = wrun.delivered
  BY <1>1, <1>2, <1>3 DEF WeatherRunType
<1> QED
  BY <1>4 DEF failed, StoreHourly

\* The run after a point.
LEMMA AfterPointRun ==
    ASSUME NEW r \in WeatherRunType
    PROVE  /\ AfterPoint(r) \in WeatherRunType
           /\ AfterPoint(r).now = r.now /\ AfterPoint(r).failed = r.failed
           /\ AfterPoint(r).dailyLost = r.dailyLost /\ AfterPoint(r).delivered = r.delivered
           /\ \/ AfterPoint(r).at = "fetch" /\ AfterPoint(r).point = r.point + 1
              \/ /\ AfterPoint(r).at = "pruneHourly" /\ r.failed # Range(Points)
                 /\ r.point = Len(Points)
              \/ AfterPoint(r).at = "idle"
<1>1. r.point \in 1 .. Len(Points) /\ Len(Points) \in Nat
  BY WeatherConstants DEF WeatherRunType
<1>2. CASE r.point < Len(Points)
  <2>1. r.point + 1 \in DOMAIN Points
    BY <1>1, <1>2, WeatherConstants
  <2>2. AfterPoint(r) = [r EXCEPT !.at = "fetch", !.point = @ + 1, !.block = WeatherDegraded]
    BY <1>2 DEF AfterPoint
  <2> QED
    BY <2>1, <2>2 DEF WeatherRunType
<1>3. CASE ~(r.point < Len(Points)) /\ MayPrune(r.failed)
  <2>1. AfterPoint(r) = [r EXCEPT !.at = "pruneHourly"]
    BY <1>3 DEF AfterPoint
  <2>2. r.point = Len(Points) /\ r.failed # Range(Points)
    BY <1>1, <1>3 DEF MayPrune
  <2> QED
    BY <2>1, <2>2 DEF WeatherRunType
<1>4. CASE ~(r.point < Len(Points)) /\ ~MayPrune(r.failed)
  <2>1. AfterPoint(r) = [r EXCEPT !.at = "idle", !.result = "Failed"]
    BY <1>4 DEF AfterPoint
  <2> QED
    BY <2>1 DEF WeatherRunType
<1> QED
  BY <1>2, <1>3, <1>4

\* The run that is done with the daily block.
LEMMA DailyRun ==
    ASSUME WeatherStateInv, StoreDaily
    PROVE  /\ wrun.at = "daily" /\ wrun' \in WeatherRunType /\ wrun'.now = wrun.now
           /\ wrun'.failed = wrun.failed /\ wrun'.delivered = wrun.delivered
           /\ \/ wrun'.at = "fetch" /\ wrun'.point = wrun.point + 1
              \/ /\ wrun'.at = "pruneHourly" /\ wrun.failed # Range(Points)
                 /\ wrun.point = Len(Points)
              \/ wrun'.at = "idle"
           /\ \/ /\ wrun.block.daily /\ dailyRows' = Inserted(dailyRows, Row)
                 /\ wrun'.dailyLost = wrun.dailyLost
              \/ /\ ~wrun.block.daily /\ dailyRows' = dailyRows
                 /\ wrun'.dailyLost = wrun.dailyLost
              \/ /\ dailyRows' = dailyRows
                 /\ wrun'.dailyLost = wrun.dailyLost \cup {Point}
<1>1. wrun \in WeatherRunType
  BY DEF WeatherStateInv
<1> DEFINE lost == [wrun EXCEPT !.dailyLost = @ \cup {Point}]
<1>2. /\ lost \in WeatherRunType /\ lost.now = wrun.now /\ lost.failed = wrun.failed
      /\ lost.delivered = wrun.delivered /\ lost.point = wrun.point
      /\ lost.dailyLost = wrun.dailyLost \cup {Point}
  <2>1. wrun.dailyLost \cup {Point} \in SUBSET Range(Points)
    BY <1>1, WeatherRunFields DEF Point
  <2> QED
    BY <1>1, <2>1 DEF WeatherRunType
<1> HIDE DEF lost
<1>3. CASE /\ wrun' = AfterPoint(wrun)
           /\ \/ wrun.block.daily /\ dailyRows' = Inserted(dailyRows, Row)
              \/ ~wrun.block.daily /\ dailyRows' = dailyRows
  BY <1>1, <1>3, AfterPointRun DEF StoreDaily
<1>4. CASE wrun' = AfterPoint(lost) /\ dailyRows' = dailyRows
  BY <1>2, <1>4, AfterPointRun DEF StoreDaily
<1> QED
  BY <1>3, <1>4 DEF StoreDaily, lost

\* The run that prunes.
LEMMA PruneRun ==
    ASSUME WeatherStateInv, PruneHourly \/ PruneDaily
    PROVE  /\ wrun' \in WeatherRunType /\ wrun'.now = wrun.now
           /\ wrun.at \in {"pruneHourly", "pruneDaily"}
           /\ wrun'.at \in {"pruneDaily", "idle"}
           /\ wrun'.delivered = wrun.delivered /\ wrun'.dailyLost = wrun.dailyLost
<1>1. wrun \in WeatherRunType
  BY DEF WeatherStateInv
<1>2. CASE PruneHourly
  BY <1>1, <1>2 DEF PruneHourly, WeatherRunType
<1>3. CASE PruneDaily
  <2> DEFINE result == IF wrun.failed = {} THEN "Ok" ELSE "Partial"
  <2>1. wrun' = [wrun EXCEPT !.at = "idle", !.result = result] /\ wrun.at = "pruneDaily"
    BY <1>3 DEF PruneDaily
  <2>2. result \in {"none", "Ok", "Partial", "Failed", "Err"}
    OBVIOUS
  <2> HIDE DEF result
  <2> QED
    BY <1>1, <2>1, <2>2 DEF WeatherRunType
<1> QED
  BY <1>2, <1>3

\* The run that a failure or a stop ends.
LEMMA EndedRun ==
    ASSUME HourlyStoreFails \/ DropWeatherRun
    PROVE  /\ wrun' \in WeatherRunType /\ wrun'.at = "idle" /\ wrun'.now = 0
           /\ wrun'.delivered.hourly = {} /\ wrun'.delivered.daily = {}
<1>1. CASE wrun' = WeatherIdle
  BY <1>1, WeatherIdleRun
<1>2. CASE wrun' = [WeatherIdle EXCEPT !.result = "Err"]
  BY <1>2, WeatherIdleRun DEF WeatherIdle, WeatherRunType
<1> QED
  BY <1>1, <1>2 DEF HourlyStoreFails, DropWeatherRun

-----------------------------------------------------------------------------

\* A row of the point at hand is typed.
LEMMA RowType ==
    ASSUME WeatherStateInv
    PROVE  /\ Row \in WeatherRow /\ Row.point = Point /\ Row.issued = wrun.now
           /\ wrun.now \in Int /\ weatherHour \in Int
<1>1. wrun \in WeatherRunType
  BY DEF WeatherStateInv
<1> QED
  BY <1>1, WeatherRunFields DEF Row, WeatherRow, Point, WeatherStateInv

\* An insert adds the row of its issuance when there is none, and only then.
LEMMA InsertedRows ==
    ASSUME NEW table, NEW row
    PROVE  /\ table \subseteq Inserted(table, row)
           /\ Inserted(table, row) \subseteq table \cup {row}
           /\ \E r \in Inserted(table, row) : r.point = row.point /\ r.issued = row.issued
           /\ \A r \in Inserted(table, row) \ table : r = row /\
                 \A old \in table : ~(old.point = row.point /\ old.issued = row.issued)
<1>1. CASE \E old \in table : old.point = row.point /\ old.issued = row.issued
  BY <1>1 DEF Inserted
<1>2. CASE ~\E old \in table : old.point = row.point /\ old.issued = row.issued
  BY <1>2 DEF Inserted
<1> QED
  BY <1>1, <1>2

\* What a step does to the two tables.
LEMMA TableSteps ==
    ASSUME WeatherStateInv, [WeatherNext]_weatherVars
    PROVE  /\ \/ hourlyRows' = hourlyRows
              \/ wrun.at = "hourly" /\ hourlyRows' = Inserted(hourlyRows, Row)
              \/ wrun.at = "pruneHourly" /\ hourlyRows' = Kept(hourlyRows)
           /\ \/ dailyRows' = dailyRows
              \/ wrun.at = "daily" /\ dailyRows' = Inserted(dailyRows, Row)
              \/ wrun.at = "pruneDaily" /\ dailyRows' = Kept(dailyRows)
BY DEF WeatherNext, StartWeather, FetchPoint, StoreHourly, StoreDaily, PruneHourly,
       PruneDaily, HourlyStoreFails, DropWeatherRun, IssueForecast, NextWeatherHour,
       weatherVars

\* What it does to the run.
LEMMA WeatherRunStep ==
    ASSUME WeatherStateInv, [WeatherNext]_weatherVars
    PROVE  /\ wrun' \in WeatherRunType
           /\ wrun'.now \in {wrun.now, weatherHour, 0}
           /\ weatherHour' \in {weatherHour, weatherHour + 1}
<1>1. CASE UNCHANGED wrun
  BY <1>1 DEF WeatherStateInv, WeatherNext, StartWeather, FetchPoint, StoreHourly, StoreDaily,
       PruneHourly, PruneDaily, HourlyStoreFails, DropWeatherRun, IssueForecast,
       NextWeatherHour, weatherVars
<1>2. CASE StartWeather
  BY <1>2, WeatherStartRun DEF StartWeather
<1>3. CASE FetchPoint
  BY <1>3, FetchedRun DEF FetchPoint
<1>4. CASE StoreHourly
  BY <1>4, HourlyRun DEF StoreHourly
<1>5. CASE StoreDaily
  BY <1>5, DailyRun DEF StoreDaily
<1>6. CASE PruneHourly \/ PruneDaily
  BY <1>6, PruneRun DEF PruneHourly, PruneDaily
<1>7. CASE HourlyStoreFails \/ DropWeatherRun
  BY <1>7, EndedRun DEF HourlyStoreFails, DropWeatherRun
<1> QED
  BY <1>1, <1>2, <1>3, <1>4, <1>5, <1>6, <1>7
     DEF WeatherNext, IssueForecast, NextWeatherHour, weatherVars

\* What it does to the three counters.
LEMMA CounterSteps ==
    ASSUME [WeatherNext]_weatherVars
    PROVE  /\ \/ weatherHour' = weatherHour
              \/ weatherHour < MaxWeatherHour /\ weatherHour' = weatherHour + 1
           /\ \/ issuedCount' = issuedCount
              \/ issuedCount < MaxForecasts /\ issuedCount' = issuedCount + 1
           /\ \/ weatherFaults' = weatherFaults
              \/ weatherFaults < MaxWeatherFaults /\ weatherFaults' = weatherFaults + 1
<1>1. CASE UNCHANGED weatherVars
  BY <1>1 DEF weatherVars
<1>2. CASE StartWeather
  BY <1>2 DEF StartWeather
<1>3. CASE FetchPoint
  BY <1>3 DEF FetchPoint
<1>4. CASE StoreHourly
  BY <1>4 DEF StoreHourly
<1>5. CASE StoreDaily
  BY <1>5 DEF StoreDaily
<1>6. CASE PruneHourly \/ PruneDaily
  BY <1>6 DEF PruneHourly, PruneDaily
<1>7. CASE HourlyStoreFails \/ DropWeatherRun
  BY <1>7 DEF HourlyStoreFails, DropWeatherRun
<1>8. CASE IssueForecast \/ NextWeatherHour
  BY <1>8 DEF IssueForecast, NextWeatherHour
<1> QED
  BY <1>1, <1>2, <1>3, <1>4, <1>5, <1>6, <1>7, <1>8 DEF WeatherNext

\* Every step keeps the types.
LEMMA NextWeatherStateInv ==
    ASSUME WeatherStateInv, [WeatherNext]_weatherVars
    PROVE  WeatherStateInv'
<1>1. wrun.now \in Int /\ wrun.now >= 0 /\ weatherHour \in Int /\ wrun.now <= weatherHour
  <2>1. wrun.now \in 0 .. MaxWeatherHour
    BY WeatherRunFields DEF WeatherStateInv
  <2> QED
    BY <2>1, WeatherConstants DEF WeatherStateInv
<1>2. wrun' \in WeatherRunType /\ wrun'.now <= weatherHour'
  BY <1>1, WeatherRunStep DEF WeatherStateInv
<1>3. hourlyRows' \subseteq WeatherRow /\ dailyRows' \subseteq WeatherRow
  <2>1. Inserted(hourlyRows, Row) \subseteq hourlyRows \cup {Row}
        /\ Inserted(dailyRows, Row) \subseteq dailyRows \cup {Row}
    BY InsertedRows
  <2>2. Kept(hourlyRows) \subseteq hourlyRows /\ Kept(dailyRows) \subseteq dailyRows
    BY DEF Kept
  <2> QED
    BY <2>1, <2>2, RowType, TableSteps DEF WeatherStateInv
<1>4. /\ weatherHour' \in 0 .. MaxWeatherHour /\ issuedCount' \in 0 .. MaxForecasts
      /\ weatherFaults' \in 0 .. MaxWeatherFaults
  <2>1. /\ \/ weatherHour' = weatherHour
           \/ weatherHour < MaxWeatherHour /\ weatherHour' = weatherHour + 1
        /\ \/ issuedCount' = issuedCount
           \/ issuedCount < MaxForecasts /\ issuedCount' = issuedCount + 1
        /\ \/ weatherFaults' = weatherFaults
           \/ weatherFaults < MaxWeatherFaults /\ weatherFaults' = weatherFaults + 1
    BY CounterSteps
  <2>2. /\ weatherHour \in 0 .. MaxWeatherHour /\ issuedCount \in 0 .. MaxForecasts
        /\ weatherFaults \in 0 .. MaxWeatherFaults
    BY DEF WeatherStateInv
  <2>3. weatherHour' \in 0 .. MaxWeatherHour
    BY <2>1, <2>2, WeatherConstants
  <2>4. issuedCount' \in 0 .. MaxForecasts
    BY <2>1, <2>2, WeatherConstants
  <2>5. weatherFaults' \in 0 .. MaxWeatherFaults
    BY <2>1, <2>2, WeatherConstants
  <2> QED
    BY <2>3, <2>4, <2>5
<1> QED
  BY <1>2, <1>3, <1>4 DEF WeatherStateInv

\* A repeated issuance adds no second row, and an issued row keeps its values.
LEMMA NextOneRow ==
    ASSUME WeatherStateInv, OneRow, [WeatherNext]_weatherVars
    PROVE  OneRow' /\ IssuedForecastKept
<1>1. CASE hourlyRows' \subseteq hourlyRows
  BY <1>1 DEF OneRow, IssuedForecastKept
<1>2. CASE hourlyRows' = Inserted(hourlyRows, Row)
  BY <1>2, InsertedRows DEF OneRow, IssuedForecastKept
<1> QED
  BY <1>1, <1>2, TableSteps DEF Kept

-----------------------------------------------------------------------------

\* A prune of the run at hand keeps the rows of its own hour.
LEMMA PruneKeepsTheRun ==
    ASSUME WeatherStateInv, NEW table, NEW p, Holds(table, p)
    PROVE  Holds(Kept(table), p)
<1>1. wrun.now \in Int /\ wrun.now >= wrun.now - WeatherRetention
  BY RowType, WeatherConstants
<1> QED
  BY <1>1 DEF Holds, Kept

\* A step that keeps the run's hour and the rows of a point keeps what it holds.
LEMMA HoldsStays ==
    ASSUME NEW table, NEW next, NEW p, Holds(table, p), wrun'.now = wrun.now,
           \/ table \subseteq next
           \/ next = Kept(table) /\ WeatherStateInv
    PROVE  \E row \in next : row.point = p /\ row.issued = wrun'.now
<1>1. CASE table \subseteq next
  BY <1>1 DEF Holds
<1>2. CASE next = Kept(table) /\ WeatherStateInv
  <2>1. Holds(next, p)
    BY <1>2, PruneKeepsTheRun
  <2> QED
    BY <2>1 DEF Holds
<1> QED
  BY <1>1, <1>2

\* The rows of the run at hand stay through its steps, the prune included.
LEMMA RunKeepsItsRows ==
    ASSUME WeatherStateInv, [WeatherNext]_weatherVars, wrun'.now = wrun.now
    PROVE  /\ \A p : Holds(hourlyRows, p) => Holds(hourlyRows, p)'
           /\ \A p : Holds(dailyRows, p) => Holds(dailyRows, p)'
<1>1. \/ hourlyRows \subseteq hourlyRows'
      \/ hourlyRows' = Kept(hourlyRows)
  BY TableSteps, InsertedRows
<1>2. \/ dailyRows \subseteq dailyRows'
      \/ dailyRows' = Kept(dailyRows)
  BY TableSteps, InsertedRows
<1>3. ASSUME NEW p, Holds(hourlyRows, p) PROVE Holds(hourlyRows, p)'
  <2>1. \E row \in hourlyRows' : row.point = p /\ row.issued = wrun'.now
    BY <1>1, <1>3, HoldsStays
  <2> QED
    BY <2>1 DEF Holds
<1>4. ASSUME NEW p, Holds(dailyRows, p) PROVE Holds(dailyRows, p)'
  <2>1. \E row \in dailyRows' : row.point = p /\ row.issued = wrun'.now
    BY <1>2, <1>4, HoldsStays
  <2> QED
    BY <2>1 DEF Holds
<1> QED
  BY <1>3, <1>4

\* Every step keeps the delivered blocks stored.
LEMMA NextStoredInv ==
    ASSUME WeatherStateInv, StoredInv, [WeatherNext]_weatherVars
    PROVE  StoredInv'
<1>1. CASE IssueForecast \/ NextWeatherHour \/ UNCHANGED weatherVars
  BY <1>1 DEF IssueForecast, NextWeatherHour, weatherVars, StoredInv, Holds, Point
<1>2. CASE StartWeather
  BY <1>2, WeatherStartRun DEF StoredInv
<1>3. CASE FetchPoint
  <2>1. hourlyRows' = hourlyRows /\ dailyRows' = dailyRows
    BY <1>3 DEF FetchPoint
  <2>2. Point' = Point /\ wrun'.now = wrun.now /\ wrun'.at = "hourly" /\ wrun.at = "fetch"
    BY <1>3, FetchedRun DEF Point
  <2>3. /\ \A p \in wrun.delivered.hourly : Holds(hourlyRows, p)'
        /\ \A p \in wrun.delivered.daily \ wrun.dailyLost : Holds(dailyRows, p)'
    BY <2>1, <2>2 DEF StoredInv, Holds
  <2>4. \A p \in wrun'.delivered.hourly :
           p \in wrun.delivered.hourly \/ (p = Point /\ wrun'.block.hourly)
    BY <1>3, FetchedRun
  <2>5. \A p \in wrun'.delivered.daily \ wrun'.dailyLost :
           \/ p \in wrun.delivered.daily \ wrun.dailyLost
           \/ p = Point /\ wrun'.block.daily
    BY <1>3, FetchedRun
  <2> QED
    BY <2>2, <2>3, <2>4, <2>5 DEF StoredInv
<1>4. CASE StoreHourly
  <2>1. /\ wrun'.at = "daily" /\ wrun.at = "hourly" /\ Point' = Point /\ wrun'.now = wrun.now
        /\ wrun'.block = wrun.block /\ wrun'.delivered = wrun.delivered
        /\ wrun'.dailyLost = wrun.dailyLost
    BY <1>4, HourlyRun DEF Point
  <2>2. \A p : Holds(hourlyRows, p) => Holds(hourlyRows, p)'
    BY <1>4, <2>1, RunKeepsItsRows
  <2>3. \A p : Holds(dailyRows, p) => Holds(dailyRows, p)'
    BY <1>4, <2>1, RunKeepsItsRows
  <2>4. wrun.block.hourly => Holds(hourlyRows, Point)'
    <3>1. wrun.block.hourly => hourlyRows' = Inserted(hourlyRows, Row)
      BY <1>4 DEF StoreHourly
    <3>2. \E r \in Inserted(hourlyRows, Row) : r.point = Point /\ r.issued = wrun.now
      BY InsertedRows, RowType
    <3> QED
      BY <2>1, <3>1, <3>2 DEF Holds
  <2>5. \A p \in wrun'.delivered.hourly : Holds(hourlyRows, p)'
    BY <2>1, <2>2, <2>4 DEF StoredInv, Holds
  <2>6. \A p \in (wrun.delivered.daily \ wrun.dailyLost)' :
           \/ wrun'.at \in {"hourly", "daily"} /\ p = Point' /\ wrun'.block.daily
           \/ Holds(dailyRows, p)'
    BY <2>1, <2>3 DEF StoredInv
  <2> QED
    BY <2>5, <2>6 DEF StoredInv
<1>5. CASE StoreDaily
  <2>1. wrun.at = "daily" /\ wrun'.now = wrun.now /\ wrun'.delivered = wrun.delivered
    BY <1>5, DailyRun
  <2>2. \A p : Holds(hourlyRows, p) => Holds(hourlyRows, p)'
    BY <1>5, <2>1, RunKeepsItsRows
  <2>3. \A p : Holds(dailyRows, p) => Holds(dailyRows, p)'
    BY <1>5, <2>1, RunKeepsItsRows
  <2>4. \A p \in wrun'.delivered.hourly : Holds(hourlyRows, p)'
    BY <2>1, <2>2 DEF StoredInv
  <2>5. \A p \in wrun'.delivered.daily \ wrun'.dailyLost :
           \/ Holds(dailyRows, p)
           \/ /\ p = Point /\ wrun.block.daily /\ p \notin wrun'.dailyLost
    BY <1>5, <2>1, DailyRun DEF StoredInv
  <2>6. wrun.block.daily /\ Point \notin wrun'.dailyLost =>
           \E row \in dailyRows' : row.point = Point /\ row.issued = wrun'.now
    <3>1. wrun.block.daily /\ Point \notin wrun'.dailyLost =>
             dailyRows' = Inserted(dailyRows, Row)
      BY <1>5, DailyRun
    <3>2. \E r \in Inserted(dailyRows, Row) : r.point = Point /\ r.issued = wrun.now
      BY InsertedRows, RowType
    <3>3. dailyRows' = Inserted(dailyRows, Row) =>
             \E r \in dailyRows' : r.point = Point /\ r.issued = wrun'.now
      BY <2>1, <3>2
    <3> QED
      BY <3>1, <3>3
  <2>7. \A p \in wrun'.delivered.daily \ wrun'.dailyLost : Holds(dailyRows, p)'
    BY <2>3, <2>5, <2>6 DEF Holds
  <2> QED
    BY <2>4, <2>7 DEF StoredInv
<1>6. CASE PruneHourly \/ PruneDaily
  <2>1. /\ wrun.at \in {"pruneHourly", "pruneDaily"} /\ wrun'.now = wrun.now
        /\ wrun'.delivered = wrun.delivered /\ wrun'.dailyLost = wrun.dailyLost
    BY <1>6, PruneRun
  <2>2. \A p : Holds(hourlyRows, p) => Holds(hourlyRows, p)'
    BY <1>6, <2>1, RunKeepsItsRows DEF WeatherNext
  <2>3. \A p : Holds(dailyRows, p) => Holds(dailyRows, p)'
    BY <1>6, <2>1, RunKeepsItsRows DEF WeatherNext
  <2> QED
    BY <2>1, <2>2, <2>3 DEF StoredInv
<1>7. CASE HourlyStoreFails \/ DropWeatherRun
  BY <1>7, EndedRun DEF StoredInv
<1> QED
  BY <1>1, <1>2, <1>3, <1>4, <1>5, <1>6, <1>7 DEF WeatherNext

\* Every step keeps count of the points that were reached.
LEMMA NextReachedInv ==
    ASSUME WeatherStateInv, ReachedInv, [WeatherNext]_weatherVars
    PROVE  ReachedInv'
<1>0. wrun.point \in 1 .. Len(Points) /\ Len(Points) \in Nat
  BY WeatherConstants, WeatherRunFields DEF WeatherStateInv
<1>1. CASE IssueForecast \/ NextWeatherHour \/ UNCHANGED weatherVars
  BY <1>1 DEF IssueForecast, NextWeatherHour, weatherVars, ReachedInv, Point
<1>2. CASE StartWeather
  <2>1. wrun'.at = "fetch" /\ wrun'.point = 1
    BY <1>2, WeatherStartRun
  <2>2. \A i \in DOMAIN Points : ~(i < wrun'.point)
    BY <2>1, WeatherConstants
  <2> QED
    BY <2>1, <2>2 DEF ReachedInv
<1>3. CASE FetchPoint
  <2>1. wrun.at = "fetch" /\ wrun'.at = "hourly" /\ wrun'.point = wrun.point
        /\ wrun'.failed = wrun.failed /\ Point' = Point
    BY <1>3, FetchedRun DEF Point
  <2>2. wrun.delivered.hourly \subseteq wrun'.delivered.hourly
        /\ (wrun'.block.hourly => Point \in wrun'.delivered.hourly)
    BY <1>3, FetchedRun
  <2> QED
    BY <2>1, <2>2 DEF ReachedInv
<1>4. CASE StoreHourly
  <2>1. wrun.at = "hourly" /\ wrun'.at = "daily" /\ wrun'.point = wrun.point
        /\ wrun'.delivered = wrun.delivered /\ Point' = Point
    BY <1>4, HourlyRun DEF Point
  <2>2. wrun.failed \subseteq wrun'.failed /\ (~wrun.block.hourly => Point \in wrun'.failed)
    BY <1>4, HourlyRun
  <2>3. Point \in wrun'.failed \cup wrun.delivered.hourly
    BY <2>1, <2>2 DEF ReachedInv
  <2>4. \A i \in DOMAIN Points :
           i < wrun.point => Points[i] \in wrun'.failed \cup wrun.delivered.hourly
    BY <2>1, <2>2 DEF ReachedInv
  <2> QED
    BY <2>1, <2>3, <2>4 DEF ReachedInv
<1>5. CASE StoreDaily
  <2>1. wrun.at = "daily" /\ wrun'.failed = wrun.failed /\ wrun'.delivered = wrun.delivered
    BY <1>5, DailyRun
  <2>2. \A i \in DOMAIN Points :
           i <= wrun.point => Points[i] \in wrun.failed \cup wrun.delivered.hourly
    BY <1>0, <2>1, WeatherConstants DEF ReachedInv, Point
  <2>3. CASE wrun'.at = "fetch" /\ wrun'.point = wrun.point + 1
    <3>1. \A i \in DOMAIN Points : i < wrun'.point => i <= wrun.point
      BY <1>0, <2>3, WeatherConstants
    <3> QED
      BY <2>1, <2>2, <2>3, <3>1 DEF ReachedInv
  <2>4. CASE /\ wrun'.at = "pruneHourly" /\ wrun.failed # Range(Points)
             /\ wrun.point = Len(Points)
    <3>1. wrun.failed \subseteq Range(Points)
      BY WeatherRunFields DEF WeatherStateInv
    <3>2. PICK p \in Range(Points) : p \notin wrun.failed
      BY <2>4, <3>1
    <3>3. PICK i \in DOMAIN Points : Points[i] = p
      BY WeatherConstants
    <3>4. p \in wrun.delivered.hourly
      BY <1>0, <2>2, <2>4, <3>2, <3>3, WeatherConstants
    <3> QED
      BY <2>1, <2>4, <3>4 DEF ReachedInv
  <2>5. CASE wrun'.at = "idle"
    BY <2>5 DEF ReachedInv
  <2> QED
    BY <1>5, <2>3, <2>4, <2>5, DailyRun
<1>6. CASE PruneHourly \/ PruneDaily
  BY <1>6, PruneRun DEF ReachedInv
<1>7. CASE HourlyStoreFails \/ DropWeatherRun
  BY <1>7, EndedRun DEF ReachedInv
<1> QED
  BY <1>1, <1>2, <1>3, <1>4, <1>5, <1>6, <1>7 DEF WeatherNext

\* Only a prune deletes rows, of a run that got an hourly block.
LEMMA DeletesOnlyOldRows ==
    ASSUME WeatherStateInv, ReachedInv, [WeatherNext]_weatherVars,
           NEW row \in (hourlyRows \ hourlyRows') \cup (dailyRows \ dailyRows')
    PROVE  row.issued < weatherHour - WeatherRetention /\ wrun.delivered.hourly # {}
<1>1. /\ wrun.at \in {"pruneHourly", "pruneDaily"}
      /\ row \in (hourlyRows \ Kept(hourlyRows)) \cup (dailyRows \ Kept(dailyRows))
  BY TableSteps, InsertedRows
<1>2. wrun.delivered.hourly # {}
  BY <1>1 DEF ReachedInv
<1>3. row \in WeatherRow /\ ~(row.issued >= wrun.now - WeatherRetention)
  BY <1>1 DEF Kept, WeatherStateInv
<1>4. /\ row.issued \in Int /\ wrun.now \in Int /\ weatherHour \in Int
      /\ wrun.now <= weatherHour /\ WeatherRetention \in Int
  BY <1>3, RowType, WeatherConstants DEF WeatherRow, WeatherStateInv
<1> QED
  BY <1>2, <1>3, <1>4

-----------------------------------------------------------------------------

\* The tables are empty at first and no run has begun.
LEMMA InitWeatherIInv == WeatherInit => WeatherIInv
<1> SUFFICES ASSUME WeatherInit PROVE WeatherIInv
  OBVIOUS
<1>1. WeatherStateInv
  BY WeatherIdleRun, WeatherConstants DEF WeatherInit, WeatherStateInv
<1>2. OneRow /\ StoredInv /\ ReachedInv
  BY WeatherIdleRun DEF WeatherInit, OneRow, StoredInv, ReachedInv
<1> QED
  BY <1>1, <1>2 DEF WeatherIInv

\* Every step of the weather job keeps the invariant.
LEMMA NextWeatherIInv == WeatherIInv /\ [WeatherNext]_weatherVars => WeatherIInv'
BY NextWeatherStateInv, NextOneRow, NextStoredInv, NextReachedInv DEF WeatherIInv

\* The weather job keeps its invariant.
THEOREM WeatherInvariant == WeatherSpec => []WeatherIInv
BY InitWeatherIInv, NextWeatherIInv, PTL DEF WeatherSpec

\* What every state of the invariant promises of a finished run.
LEMMA FinishedRunHasStored == WeatherIInv => DeliveredBlocksAreStored
BY DEF WeatherIInv, StoredInv, Holds, DeliveredBlocksAreStored

\* A finished run of run_weather_fetch_job has stored every block that a reply
\* delivered, whatever happened at the other points and blocks, and its own
\* prune took none of it.
THEOREM BlocksAreStored == WeatherSpec => []DeliveredBlocksAreStored
BY WeatherInvariant, FinishedRunHasStored, PTL

\* An outage of the weather provider, however long, deletes no row: only a run
\* that got an hourly block prunes, and only past WEATHER_RETENTION_DAYS.
THEOREM HistoryOutlivesAnOutage == WeatherSpec => OutageKeepsHistory
<1>1. WeatherIInv /\ [WeatherNext]_weatherVars => OnlyOldRowsGo
  BY DeletesOnlyOldRows DEF WeatherIInv, OnlyOldRowsGo
<1> QED
  BY <1>1, WeatherInvariant, PTL DEF WeatherSpec, OutageKeepsHistory

\* The first of two runs in one hour decides what an issuance says: the ON
\* CONFLICT DO NOTHING of store_weather_records, over whole behaviours.
THEOREM IssuancesStay == WeatherSpec => IssuedForecastStays
<1>1. WeatherIInv /\ [WeatherNext]_weatherVars => IssuedForecastKept
  BY NextOneRow DEF WeatherIInv
<1> QED
  BY <1>1, WeatherInvariant, PTL DEF WeatherSpec, IssuedForecastStays

-----------------------------------------------------------------------------
(* The price run.                                                          *)

PriceRunType ==
    [at : {"idle", "check", "attempt", "store", "done"}, today : 0 .. LastDate,
     date : Dates, tries : 0 .. MaxAttempts, met : SUBSET NordPoolOutcomes, elapsed : Nat,
     answer : {"none", "skipped", "empty", "error", "holed", "whole", "fault"},
     offered : SUBSET Areas]

PriceStateInv ==
    /\ resolution \in Resolutions
    /\ date \in 0 .. LastDate
    /\ onSale \in [MarketDays -> SUBSET Areas]
    /\ prices \in [MarketDays -> [Areas -> Parts]]
    /\ prun \in PriceRunType
    /\ prun.date \in {prun.today, prun.today + 1}
    /\ prun.at \in {"check", "attempt"} => prun.tries < MaxAttempts
    /\ prun.at = "store" => prun.answer \in {"whole", "holed"}
    /\ priceFaults \in 0 .. MaxPriceFaults

\* What the run asked for is still on sale; prices among the replies are in the
\* store when the date is done; a run that gives up was told so or has used
\* up its attempts.
AnswerInv ==
    /\ prun.offered \subseteq onSale[prun.date]
    /\ prun.at \in {"check", "attempt"} => prun.met \cap {"whole", "holed"} = {}
    /\ prun.at = "done" /\ prun.answer # "fault" /\ prun.met \cap {"whole", "holed"} # {} =>
          \A a \in prun.offered : prices[prun.date][a] # "none"
    /\ prun.at = "done" /\ prun.answer \in {"error", "empty"} /\ prun.offered # {} =>
          "unpublished" \in prun.met \/ prun.tries = MaxAttempts

PriceIInv == PriceStateInv /\ AnswerInv

\* The bounds of the price job are numbers, and two hours never make a day.
LEMMA PriceConstants ==
    /\ LastDate \in Nat /\ MaxAttempts \in Nat \ {0} /\ MaxPriceFaults \in Nat
    /\ RetryDelay \in Nat /\ RequestTimeout \in Nat /\ PriceDeadline \in Nat
    /\ MinEntries \in Nat /\ Resolutions \subseteq Nat /\ ClockChange \in Int
    /\ \A r \in Resolutions : 2 * r < MinEntries
BY PriceAssumption, UpstreamAssumption

\* An idle price job has no date and no answers.
LEMMA PriceIdleType ==
    /\ PriceIdle \in PriceRunType /\ PriceIdle.at = "idle" /\ PriceIdle.offered = {}
    /\ PriceIdle.date = 0 /\ PriceIdle.today = 0
BY PriceConstants DEF PriceIdle, PriceRunType, Dates

\* What a body that was read says is blank or what the reply holds.
LEMMA BodyContents ==
    ASSUME NEW reply
    PROVE  ReadBody(reply).ok => ReadBody(reply).content \in {"blank", reply.content}
<1>1. CASE reply.declared > MaxBody \/ BodySize(reply) > MaxBody
  BY <1>1 DEF ReadBody
<1>2. CASE ~(reply.declared > MaxBody \/ BodySize(reply) > MaxBody) /\ reply.cut # "none"
  BY <1>2 DEF ReadBody
<1>3. CASE ~(reply.declared > MaxBody \/ BodySize(reply) > MaxBody) /\ reply.cut = "none"
  BY <1>3 DEF ReadBody
<1> QED
  BY <1>1, <1>2, <1>3

\* The five outcomes of an attempt at Nord Pool.
LEMMA NordPoolKinds ==
    NordPoolOutcomes \subseteq {"unpublished", "failed", "drift", "holed", "whole"}
<1>1. ASSUME NEW content \in Contents
      PROVE  ParseDayAhead(content) \in {"unpublished", "drift", "holed", "whole"}
  BY DEF Contents, ParseDayAhead
<1>2. ASSUME NEW reply \in Replies
      PROVE  Attempt(reply) \in {"unpublished", "failed", "drift", "holed", "whole"}
  <2>1. CASE reply.kind = "status" /\ reply.status \in {204, 404}
    BY <2>1 DEF Attempt, Transport, NotSuccess
  <2>2. CASE Transport(reply) \/ (NotSuccess(reply) /\ reply.status # 404)
    BY <2>2 DEF Attempt, Transport, NotSuccess
  <2>3. CASE /\ ~(reply.kind = "status" /\ reply.status \in {204, 404})
             /\ ~(Transport(reply) \/ (NotSuccess(reply) /\ reply.status # 404))
    <3>1. Attempt(reply) = IF ReadBody(reply).ok THEN ParseDayAhead(ReadBody(reply).content)
                                                 ELSE "failed"
      BY <2>3 DEF Attempt
    <3>2. reply.content \in Contents
      BY <2>3 DEF Replies, Transport, NotSuccess
    <3>3. ReadBody(reply).ok => ReadBody(reply).content \in Contents
      BY <3>2, BodyContents DEF Contents
    <3> QED
      BY <1>1, <3>1, <3>3
  <2> QED
    BY <2>1, <2>2, <2>3
<1> QED
  BY <1>2 DEF NordPoolOutcomes

\* A run that is not in the middle of an attempt keeps its type when it moves on.
LEMMA PriceRunFields ==
    ASSUME NEW r \in PriceRunType
    PROVE  /\ r.today \in 0 .. LastDate /\ r.date \in Dates /\ r.tries \in 0 .. MaxAttempts
           /\ r.met \subseteq NordPoolOutcomes /\ r.elapsed \in Nat /\ r.offered \subseteq Areas
           /\ r.today \in Int /\ r.date \in Int /\ r.tries \in Int
BY PriceConstants DEF PriceRunType, Dates

\* The steps of a run outside an attempt: it starts, checks its date, stores,
\* goes on to the next date, or ends.
LEMMA StartPriceRun ==
    ASSUME PriceStateInv, StartPriceFetch
    PROVE  /\ prun' \in PriceRunType /\ prun'.at = "check" /\ prun'.tries = 0
           /\ prun'.met = {} /\ prun'.offered = onSale[prun'.date] /\ prun'.elapsed = 0
           /\ prun'.date = prun'.today
<1>1. date \in 0 .. LastDate /\ date \in Dates /\ onSale[date] \in SUBSET Areas
  BY PriceConstants DEF PriceStateInv, Dates, MarketDays
<1>2. prun' = [PriceIdle EXCEPT !.at = "check", !.today = date, !.date = date,
                                !.offered = onSale[date]]
  BY DEF StartPriceFetch
<1>3. /\ prun'.tries = 0 /\ prun'.met = {} /\ prun'.elapsed = 0 /\ prun'.at = "check"
      /\ prun'.today = date /\ prun'.date = date /\ prun'.offered = onSale[date]
  BY <1>2 DEF PriceIdle
<1>4. prun' \in PriceRunType
  BY <1>1, <1>2, PriceIdleType DEF PriceRunType
<1> QED
  BY <1>3, <1>4 DEF StartPriceFetch

\* After the count the run fetches its date, or skips it.
LEMMA CheckedRun ==
    ASSUME PriceStateInv, CheckDate
    PROVE  /\ prun' \in PriceRunType /\ prun.at = "check"
           /\ prun'.today = prun.today /\ prun'.date = prun.date /\ prun'.tries = prun.tries
           /\ prun'.met = prun.met /\ prun'.offered = prun.offered
           /\ prun'.elapsed = prun.elapsed
           /\ \/ prun'.at = "attempt"
              \/ prun'.at = "done" /\ prun'.answer = "skipped"
<1>1. prun \in PriceRunType
  BY DEF PriceStateInv
<1>2. CASE prun' = [prun EXCEPT !.at = "attempt"]
  BY <1>1, <1>2 DEF PriceRunType, CheckDate
<1>3. CASE prun' = [prun EXCEPT !.at = "done", !.answer = "skipped"]
  BY <1>1, <1>3 DEF PriceRunType, CheckDate
<1> QED
  BY <1>2, <1>3 DEF CheckDate, Answered

\* A store ends the work on its date.
LEMMA StoredRun ==
    ASSUME PriceStateInv, StoreDate
    PROVE  /\ prun' \in PriceRunType /\ prun.at = "store" /\ prun'.at = "done"
           /\ prun'.today = prun.today /\ prun'.date = prun.date /\ prun'.tries = prun.tries
           /\ prun'.met = prun.met /\ prun'.offered = prun.offered
           /\ prun'.elapsed = prun.elapsed /\ prun'.answer = prun.answer
<1>1. prun \in PriceRunType
  BY DEF PriceStateInv
<1> QED
  BY <1>1 DEF StoreDate, PriceRunType

\* A failed statement ends the work on its date.
LEMMA FailedPriceRun ==
    ASSUME PriceStateInv, PriceStoreFails
    PROVE  /\ prun' \in PriceRunType /\ prun.at \in {"check", "store"} /\ prun'.at = "done"
           /\ prun'.today = prun.today /\ prun'.date = prun.date
           /\ prun'.offered = prun.offered /\ prun'.elapsed = prun.elapsed
           /\ prun'.answer = "fault"
<1>1. prun \in PriceRunType
  BY DEF PriceStateInv
<1>2. prun' = [prun EXCEPT !.at = "done", !.answer = "fault"]
  BY DEF PriceStoreFails, Answered
<1>3. prun.at \in {"check", "store"}
  BY DEF PriceStoreFails
<1> QED
  BY <1>1, <1>2, <1>3 DEF PriceRunType

\* A finished date is followed by the day after, or by the end of the run.
LEMMA NextDateRun ==
    ASSUME PriceStateInv, NextFetch
    PROVE  /\ prun' \in PriceRunType /\ prun.at = "done"
           /\ \/ prun' = PriceIdle
              \/ /\ prun'.at = "check" /\ prun'.tries = 0 /\ prun'.met = {}
                 /\ prun.date = prun.today
                 /\ prun'.today = prun.today /\ prun'.date = prun.today + 1
                 /\ prun'.offered = onSale[prun'.date] /\ prun'.elapsed = prun.elapsed
<1>1. prun \in PriceRunType
  BY DEF PriceStateInv
<1>2. CASE prun' = PriceIdle
  BY <1>2, PriceIdleType DEF NextFetch
<1>3. CASE GoesOn(prun.answer)
  <2>1. prun.date = prun.today
    BY <1>3 DEF GoesOn
  <2>2. prun.date + 1 \in Dates /\ prun.today + 1 \in Dates
        /\ onSale[prun.today + 1] \in SUBSET Areas
    BY <1>1, <2>1, PriceRunFields, PriceConstants DEF Dates, MarketDays, PriceStateInv
  <2>3. prun' = [prun EXCEPT !.at = "check", !.date = prun.date + 1, !.answer = "none",
                             !.tries = 0, !.met = {}, !.offered = onSale[prun.today + 1]]
    BY <1>3 DEF NextFetch
  <2>4. /\ prun' \in PriceRunType /\ prun'.at = "check" /\ prun'.tries = 0 /\ prun'.met = {}
        /\ prun'.today = prun.today /\ prun'.date = prun.date + 1
        /\ prun'.offered = onSale[prun.today + 1] /\ prun'.elapsed = prun.elapsed
    <3>1. 0 \in 0 .. MaxAttempts /\ {} \in SUBSET NordPoolOutcomes
      BY PriceConstants
    <3> QED
      BY <1>1, <2>2, <2>3, <3>1 DEF PriceRunType
  <2> QED
    BY <2>1, <2>4 DEF NextFetch
<1> QED
  BY <1>2, <1>3 DEF NextFetch

\* An attempt: another one follows, or it decides the answer of its date.
Decides(outcome) ==
    /\ outcome \in NordPoolOutcomes /\ prun'.met = prun.met \cup {outcome}
    /\ prun'.elapsed = prun.elapsed + RequestTimeout
                        + IF prun'.at = "attempt" THEN RetryDelay ELSE 0
    /\ \/ /\ prun'.at = "attempt" /\ prun'.tries < MaxAttempts
          /\ outcome \in {"failed", "drift"}
       \/ prun'.at = "done" /\ prun'.answer = "error" /\ prun'.tries = MaxAttempts
          /\ outcome = "failed"
       \/ /\ prun'.at = "store" /\ prun'.answer = outcome
          /\ outcome \in {"whole", "holed"}
       \/ /\ prun'.at = "done" /\ prun'.answer = "empty"
          /\ \/ outcome = "unpublished"
             \/ outcome = "drift" /\ prun'.tries = MaxAttempts
             \/ onSale[prun.date] = {}

\* One attempt ends in one of the outcomes that decide the next step.
LEMMA AttemptRun ==
    ASSUME PriceStateInv, AttemptDate
    PROVE  /\ prun' \in PriceRunType /\ prun.at = "attempt"
           /\ prun'.today = prun.today /\ prun'.date = prun.date
           /\ prun'.offered = prun.offered /\ prun'.tries = prun.tries + 1
           /\ \E outcome : Decides(outcome)
<1>1. prun \in PriceRunType /\ prun.tries < MaxAttempts /\ prun.tries \in 0 .. MaxAttempts
      /\ prun.at = "attempt" /\ MaxAttempts \in Nat /\ prun.elapsed \in Nat
  BY PriceConstants, PriceRunFields DEF PriceStateInv, AttemptDate
<1> DEFINE spent(outcome) ==
      [prun EXCEPT !.tries = prun.tries + 1, !.met = @ \cup {outcome},
                   !.elapsed = @ + RequestTimeout]
           after(outcome) ==
      CASE Retries(outcome) /\ prun.tries + 1 < MaxAttempts ->
             [spent(outcome) EXCEPT !.elapsed = @ + RetryDelay]
        [] outcome = "failed" /\ prun.tries + 1 = MaxAttempts ->
             [spent(outcome) EXCEPT !.at = "done", !.answer = "error"]
        [] outcome \in {"whole", "holed"} /\ onSale[prun.date] # {} ->
             [spent(outcome) EXCEPT !.at = "store", !.answer = outcome]
        [] OTHER -> [spent(outcome) EXCEPT !.at = "done", !.answer = "empty"]
<1>2. PICK outcome \in NordPoolOutcomes : prun' = after(outcome)
  BY DEF AttemptDate
<1>3. outcome \in {"unpublished", "failed", "drift", "holed", "whole"}
  BY NordPoolKinds
<1>4. /\ spent(outcome) \in PriceRunType /\ spent(outcome).at = "attempt"
      /\ spent(outcome).today = prun.today /\ spent(outcome).date = prun.date
      /\ spent(outcome).offered = prun.offered /\ spent(outcome).tries = prun.tries + 1
      /\ spent(outcome).met = prun.met \cup {outcome}
      /\ spent(outcome).elapsed = prun.elapsed + RequestTimeout
      /\ prun.elapsed + RequestTimeout + RetryDelay \in Nat
  <2>1. prun.tries + 1 \in 0 .. MaxAttempts /\ prun.elapsed + RequestTimeout \in Nat
        /\ prun.elapsed + RequestTimeout + RetryDelay \in Nat
    BY <1>1, PriceConstants
  <2>2. prun.met \cup {outcome} \in SUBSET NordPoolOutcomes
    BY <1>1, PriceRunFields
  <2> QED
    BY <1>1, <2>1, <2>2 DEF PriceRunType
<1> HIDE DEF spent
<1>5. CASE Retries(outcome) /\ prun.tries + 1 < MaxAttempts
  <2>1. prun' = [spent(outcome) EXCEPT !.elapsed = @ + RetryDelay]
    BY <1>1, <1>2, <1>5 DEF Retries
  <2>2. outcome \in {"failed", "drift"}
    BY <1>5 DEF Retries
  <2>3. spent(outcome).elapsed + RetryDelay \in Nat
    BY <1>4
  <2>4. /\ prun' \in PriceRunType /\ prun'.at = "attempt" /\ prun'.today = prun.today
        /\ prun'.date = prun.date /\ prun'.offered = prun.offered
        /\ prun'.tries = prun.tries + 1 /\ prun'.met = prun.met \cup {outcome}
        /\ prun'.elapsed = prun.elapsed + RequestTimeout + RetryDelay
    BY <1>4, <2>1, <2>3 DEF PriceRunType
  <2> QED
    BY <1>1, <1>5, <2>2, <2>4 DEF Decides
<1>6. CASE ~(Retries(outcome) /\ prun.tries + 1 < MaxAttempts)
  <2>1. CASE outcome = "failed" /\ prun.tries + 1 = MaxAttempts
    <3>1. prun' = [spent(outcome) EXCEPT !.at = "done", !.answer = "error"]
      BY <1>2, <1>6, <2>1
    <3>2. /\ prun' \in PriceRunType /\ prun'.at = "done" /\ prun'.today = prun.today
          /\ prun'.date = prun.date /\ prun'.offered = prun.offered
          /\ prun'.tries = prun.tries + 1 /\ prun'.met = prun.met \cup {outcome}
          /\ prun'.elapsed = prun.elapsed + RequestTimeout /\ prun'.answer = "error"
      BY <1>4, <3>1 DEF PriceRunType
    <3>3. prun'.elapsed = prun.elapsed + RequestTimeout + 0
      BY <1>1, <3>2, PriceConstants
    <3> QED
      BY <1>1, <2>1, <3>2, <3>3 DEF Decides
  <2>2. CASE outcome \in {"whole", "holed"} /\ onSale[prun.date] # {}
    <3>1. prun' = [spent(outcome) EXCEPT !.at = "store", !.answer = outcome]
      BY <1>2, <1>6, <2>2
    <3>2. /\ prun' \in PriceRunType /\ prun'.at = "store" /\ prun'.today = prun.today
          /\ prun'.date = prun.date /\ prun'.offered = prun.offered
          /\ prun'.tries = prun.tries + 1 /\ prun'.met = prun.met \cup {outcome}
          /\ prun'.elapsed = prun.elapsed + RequestTimeout /\ prun'.answer = outcome
      BY <1>4, <2>2, <3>1 DEF PriceRunType
    <3>3. prun'.elapsed = prun.elapsed + RequestTimeout + 0
      BY <1>1, <3>2, PriceConstants
    <3> QED
      BY <1>1, <2>2, <3>2, <3>3 DEF Decides
  <2>3. CASE /\ ~(outcome = "failed" /\ prun.tries + 1 = MaxAttempts)
             /\ ~(outcome \in {"whole", "holed"} /\ onSale[prun.date] # {})
    <3>1. prun' = [spent(outcome) EXCEPT !.at = "done", !.answer = "empty"]
      BY <1>2, <1>6, <2>3
    <3>2. /\ prun' \in PriceRunType /\ prun'.at = "done" /\ prun'.today = prun.today
          /\ prun'.date = prun.date /\ prun'.offered = prun.offered
          /\ prun'.tries = prun.tries + 1 /\ prun'.met = prun.met \cup {outcome}
          /\ prun'.elapsed = prun.elapsed + RequestTimeout /\ prun'.answer = "empty"
      BY <1>4, <3>1 DEF PriceRunType
    <3>3. prun'.elapsed = prun.elapsed + RequestTimeout + 0
      BY <1>1, <3>2, PriceConstants
    <3>4. \/ outcome = "unpublished"
          \/ outcome = "drift" /\ prun.tries + 1 = MaxAttempts
          \/ onSale[prun.date] = {}
      BY <1>1, <1>3, <1>6, <2>3 DEF Retries
    <3> QED
      BY <1>1, <3>2, <3>3, <3>4 DEF Decides
  <2> QED
    BY <2>1, <2>2, <2>3
<1> QED
  BY <1>5, <1>6

-----------------------------------------------------------------------------

\* What a step does to the clock, the market and the table: the market only
\* grows, and a stored part is never lost.
LEMMA MarketSteps ==
    ASSUME PriceStateInv, [PriceNext]_priceVars
    PROVE  /\ resolution' = resolution
           /\ date' \in 0 .. LastDate
           /\ onSale' \in [MarketDays -> SUBSET Areas]
           /\ \A d \in MarketDays : onSale[d] \subseteq onSale'[d]
           /\ prices' \in [MarketDays -> [Areas -> Parts]]
           /\ \A d \in MarketDays, a \in Areas : prices[d][a] # "none" => prices'[d][a] # "none"
           /\ priceFaults' \in 0 .. MaxPriceFaults
<1>1. CASE StoreDate
  <2>1. prun \in PriceRunType /\ prun.date \in MarketDays
    BY PriceRunFields, PriceConstants DEF PriceStateInv, Dates, MarketDays
  <2> DEFINE row == [a \in Areas |->
          CASE a \notin onSale[prun.date] \/ prices[prun.date][a] = "whole" ->
                 prices[prun.date][a]
            [] OTHER -> prun.answer]
  <2>2. prun.answer \in {"holed", "whole"}
    BY <1>1 DEF PriceStateInv, StoreDate
  <2>3. row \in [Areas -> Parts]
        /\ \A a \in Areas : prices[prun.date][a] # "none" => row[a] # "none"
    BY <2>1, <2>2 DEF PriceStateInv, Parts
  <2>4. prices' = [prices EXCEPT ![prun.date] = row]
    BY <1>1 DEF StoreDate
  <2> HIDE DEF row
  <2>5. /\ prices' \in [MarketDays -> [Areas -> Parts]]
        /\ \A d \in MarketDays, a \in Areas : prices[d][a] # "none" => prices'[d][a] # "none"
    BY <2>1, <2>3, <2>4 DEF PriceStateInv
  <2> QED
    BY <1>1, <2>5 DEF StoreDate, PriceStateInv
<1>2. CASE PublishPrices
  <2>1. PICK d \in {date, date + 1}, more \in SUBSET Areas :
             onSale' = [onSale EXCEPT ![d] = @ \cup more]
    BY <1>2 DEF PublishPrices
  <2>2. d \in MarketDays
    BY <2>1, PriceConstants DEF PriceStateInv, MarketDays
  <2>3. /\ onSale' \in [MarketDays -> SUBSET Areas]
        /\ \A e \in MarketDays : onSale[e] \subseteq onSale'[e]
    BY <2>1, <2>2 DEF PriceStateInv
  <2> QED
    BY <1>2, <2>3 DEF PublishPrices, PriceStateInv
<1>3. CASE NextDate
  <2>1. date' \in 0 .. LastDate
    BY <1>3, PriceConstants DEF NextDate, PriceStateInv
  <2> QED
    BY <1>3, <2>1 DEF NextDate, PriceStateInv
<1>4. CASE PriceStoreFails \/ DropPriceRun
  <2>1. priceFaults' \in 0 .. MaxPriceFaults
    BY <1>4, PriceConstants DEF PriceStoreFails, DropPriceRun, PriceStateInv
  <2> QED
    BY <1>4, <2>1 DEF PriceStoreFails, DropPriceRun, PriceStateInv
<1>5. CASE UNCHANGED <<resolution, date, onSale, prices, priceFaults>>
  BY <1>5 DEF PriceStateInv
<1> QED
  BY <1>1, <1>2, <1>3, <1>4, <1>5
     DEF PriceNext, StartPriceFetch, NextFetch, CheckDate, AttemptDate, priceVars

\* Every step keeps the types.
LEMMA NextPriceStateInv ==
    ASSUME PriceStateInv, AnswerInv, [PriceNext]_priceVars
    PROVE  PriceStateInv'
<1> SUFFICES /\ prun' \in PriceRunType
             /\ prun'.date \in {prun'.today, prun'.today + 1}
             /\ prun'.at \in {"check", "attempt"} => prun'.tries < MaxAttempts
             /\ prun'.at = "store" => prun'.answer \in {"whole", "holed"}
  BY MarketSteps DEF PriceStateInv
<1>0. MaxAttempts \in Nat \ {0}
  BY PriceConstants
<1>1. CASE StartPriceFetch
  BY <1>0, <1>1, StartPriceRun
<1>2. CASE NextFetch
  BY <1>0, <1>2, NextDateRun, PriceIdleType
<1>3. CASE CheckDate
  BY <1>3, CheckedRun DEF PriceStateInv
<1>4. CASE AttemptDate
  <2>1. PICK outcome : Decides(outcome)
    BY <1>4, AttemptRun
  <2>2. prun' \in PriceRunType /\ prun'.date \in {prun'.today, prun'.today + 1}
    BY <1>4, AttemptRun DEF PriceStateInv
  <2> QED
    BY <2>1, <2>2 DEF Decides
<1>5. CASE StoreDate
  BY <1>5, StoredRun DEF PriceStateInv
<1>6. CASE PriceStoreFails
  BY <1>6, FailedPriceRun DEF PriceStateInv
<1>7. CASE prun' = PriceIdle
  BY <1>7, PriceIdleType
<1>8. CASE UNCHANGED prun
  BY <1>8 DEF PriceStateInv
<1> QED
  BY <1>1, <1>2, <1>3, <1>4, <1>5, <1>6, <1>7, <1>8
     DEF PriceNext, DropPriceRun, PublishPrices, NextDate, priceVars

\* Every step keeps the answer of the run true.
LEMMA NextAnswerInv ==
    ASSUME PriceStateInv, AnswerInv, [PriceNext]_priceVars
    PROVE  AnswerInv'
<1>0. /\ prun \in PriceRunType /\ prun.date \in MarketDays
      /\ onSale[prun.date] \subseteq onSale'[prun.date]
      /\ \A a \in Areas : prices[prun.date][a] # "none" => prices'[prun.date][a] # "none"
      /\ prun.offered \subseteq Areas
  <2>1. prun \in PriceRunType /\ prun.date \in MarketDays
    BY PriceRunFields, PriceConstants DEF PriceStateInv, Dates, MarketDays
  <2> QED
    BY <2>1, MarketSteps, PriceRunFields
<1>1. CASE StartPriceFetch
  <2>1. /\ prun'.at = "check" /\ prun'.met = {} /\ prun'.offered = onSale[prun'.date]
    BY <1>1, StartPriceRun
  <2>2. onSale' = onSale
    BY <1>1 DEF StartPriceFetch
  <2> QED
    BY <2>1, <2>2 DEF AnswerInv
<1>2. CASE NextFetch
  <2>1. onSale' = onSale
    BY <1>2 DEF NextFetch
  <2> QED
    BY <1>2, <2>1, NextDateRun, PriceIdleType DEF AnswerInv
<1>3. CASE CheckDate
  BY <1>0, <1>3, CheckedRun DEF AnswerInv
<1>4. CASE AttemptDate
  <2>1. PICK outcome : Decides(outcome)
    BY <1>4, AttemptRun
  <2>2. /\ prun.at = "attempt" /\ prun'.date = prun.date /\ prun'.offered = prun.offered
        /\ onSale' = onSale
    BY <1>4, AttemptRun DEF AttemptDate
  <2>3. prun.met \cap {"whole", "holed"} = {} /\ prun.offered \subseteq onSale[prun.date]
    BY <2>2 DEF AnswerInv
  <2>4. CASE prun'.at = "attempt"
    BY <2>1, <2>2, <2>3, <2>4 DEF AnswerInv, Decides
  <2>5. CASE prun'.at = "store"
    BY <2>1, <2>2, <2>3, <2>5 DEF AnswerInv, Decides
  <2>6. CASE prun'.at = "done" /\ onSale[prun.date] = {}
    <3>1. prun'.offered = {}
      BY <2>2, <2>3, <2>6
    <3> QED
      BY <2>6, <3>1 DEF AnswerInv
  <2>7. CASE prun'.at = "done" /\ onSale[prun.date] # {}
    <3>1. /\ outcome \notin {"whole", "holed"} /\ prun'.met = prun.met \cup {outcome}
          /\ outcome = "unpublished" \/ prun'.tries = MaxAttempts
      BY <2>1, <2>7 DEF Decides
    <3>2. prun'.met \cap {"whole", "holed"} = {}
      BY <2>3, <3>1
    <3> QED
      BY <2>2, <2>3, <2>7, <3>1, <3>2 DEF AnswerInv
  <2> QED
    BY <2>1, <2>4, <2>5, <2>6, <2>7 DEF Decides
<1>5. CASE StoreDate
  <2>1. /\ prun.at = "store" /\ prun'.at = "done" /\ prun'.date = prun.date
        /\ prun'.offered = prun.offered /\ prun'.answer = prun.answer /\ onSale' = onSale
    BY <1>5, StoredRun DEF StoreDate
  <2>2. prun.answer \in {"holed", "whole"} /\ prun.offered \subseteq onSale[prun.date]
    BY <2>1 DEF PriceStateInv, AnswerInv
  <2>3. \A a \in prun.offered : prices'[prun.date][a] # "none"
    <3>1. prices' = [prices EXCEPT ![prun.date] = [a \in Areas |->
            CASE a \notin onSale[prun.date] \/ prices[prun.date][a] = "whole" ->
                   prices[prun.date][a]
              [] OTHER -> prun.answer]]
      BY <1>5 DEF StoreDate
    <3>2. \A a \in Areas : prices'[prun.date][a] =
            CASE a \notin onSale[prun.date] \/ prices[prun.date][a] = "whole" ->
                   prices[prun.date][a]
              [] OTHER -> prun.answer
      BY <1>0, <3>1 DEF PriceStateInv
    <3> QED
      BY <1>0, <2>2, <3>2
  <2> QED
    BY <2>1, <2>2, <2>3 DEF AnswerInv
<1>6. CASE PriceStoreFails
  <2>1. onSale' = onSale
    BY <1>6 DEF PriceStoreFails
  <2> QED
    BY <1>6, <2>1, FailedPriceRun DEF AnswerInv
<1>7. CASE prun' = PriceIdle
  BY <1>7, PriceIdleType DEF AnswerInv
<1>8. CASE UNCHANGED prun
  BY <1>0, <1>8 DEF AnswerInv
<1> QED
  BY <1>1, <1>2, <1>3, <1>4, <1>5, <1>6, <1>7, <1>8
     DEF PriceNext, DropPriceRun, PublishPrices, NextDate, priceVars

\* Nothing is stored at first and no run has begun.
LEMMA InitPriceIInv == PriceInit => PriceIInv
<1> SUFFICES ASSUME PriceInit PROVE PriceIInv
  OBVIOUS
<1>1. PriceStateInv
  BY PriceIdleType, PriceConstants DEF PriceInit, PriceStateInv, MarketDays, Parts
<1>2. AnswerInv
  BY PriceIdleType DEF PriceInit, AnswerInv
<1> QED
  BY <1>1, <1>2 DEF PriceIInv

\* Every step of the price job keeps its invariant.
LEMMA NextPriceIInv == PriceIInv /\ [PriceNext]_priceVars => PriceIInv'
BY NextPriceStateInv, NextAnswerInv DEF PriceIInv

\* The price job keeps its invariant.
THEOREM PriceInvariant == PriceSpec => []PriceIInv
BY InitPriceIInv, NextPriceIInv, PTL DEF PriceSpec

\* A date whose rows count as complete, and is never fetched again, has rows of
\* its own market day in every area: the first hours of the next market day are
\* never enough (fetch_for_date and count_prices_by_range).
THEOREM CompleteDatesHaveTheirDay == PriceSpec => []CompleteDateHasItsDay
<1>1. PriceIInv => CompleteDateHasItsDay
  <2> SUFFICES ASSUME PriceStateInv, NEW d \in Dates, AllAreasComplete(d), NEW a \in Areas,
                      prices[d][a] = "none"
               PROVE  FALSE
    BY DEF CompleteDateHasItsDay, PriceIInv
  <2>1. CountPrices(d, a) >= MinEntries
    BY DEF AllAreasComplete
  <2>2. CountPrices(d, a) =
          0 + (IF prices[d + 1][a] = "none" THEN 0 ELSE Offset(d + 1) * resolution)
    BY DEF CountPrices
  <2>3. /\ resolution \in Nat /\ 2 * resolution < MinEntries /\ Offset(d + 1) \in {1, 2}
        /\ MinEntries \in Nat
    BY PriceConstants DEF PriceStateInv, Offset
  <2>4. Offset(d + 1) * resolution <= 2 * resolution
    BY <2>3
  <2> QED
    BY <2>1, <2>2, <2>3, <2>4
<1> QED
  BY <1>1, PriceInvariant, PTL

\* The answer that a run gives for a date is the whole truth of its attempts at
\* Nord Pool (fetch_day_ahead_prices, store_prices).
THEOREM RunsStoreWhatIsOnSale == PriceSpec => []RunStoresWhatIsOnSale
<1>1. PriceIInv => RunStoresWhatIsOnSale
  BY DEF PriceIInv, AnswerInv, RunStoresWhatIsOnSale
<1> QED
  BY <1>1, PriceInvariant, PTL

-----------------------------------------------------------------------------
(* The time that the runs wait for their providers.                        *)

FingridTimeInv ==
    /\ run.at = "fetch" => run.elapsed = 0
    /\ run.at \in {"actuals", "pruneActuals", "vintages", "pruneVintages"} =>
          run.elapsed = RequestTimeout
    /\ run.at = "archive" => run.elapsed <= RequestTimeout + RequestSpacing

WeatherTimeInv ==
    /\ wrun.at = "fetch" => wrun.elapsed <= (wrun.point - 1) * RequestTimeout
    /\ wrun.at \in {"hourly", "daily"} => wrun.elapsed <= wrun.point * RequestTimeout

\* The longest wait for one date, and what the dates before it took.
DateWait == MaxAttempts * RequestTimeout + (MaxAttempts - 1) * RetryDelay
Before == IF prun.date = prun.today THEN 0 ELSE DateWait

PriceTimeInv ==
    /\ prun.at = "check" => prun.tries = 0 /\ prun.elapsed <= Before
    /\ prun.at = "attempt" =>
          prun.elapsed <= Before + prun.tries * (RequestTimeout + RetryDelay)
    /\ prun.at \in {"store", "done"} => prun.elapsed <= Before + DateWait

\* Each request of the Fingrid run adds its time limit, and there are two.
LEMMA NextFingridTimeInv ==
    ASSUME StateInv, FingridTimeInv, [FingridNext]_fingridVars
    PROVE  FingridTimeInv'
<1>1. /\ run \in RunType /\ run.elapsed \in Nat /\ RequestTimeout \in Nat
      /\ RequestSpacing \in Nat
  BY Constants DEF StateInv, RunType
<1>2. CASE StartFingrid
  BY <1>2 DEF StartFingrid, Idle, FingridTimeInv
<1>3. CASE FetchFingridSeries
  <2>1. run.elapsed = 0
    BY <1>3 DEF FetchFingridSeries, FingridTimeInv
  <2>2. \/ run'.at = "actuals" /\ run'.elapsed = run.elapsed + RequestTimeout
        \/ run'.at = "archive" /\ run'.elapsed = run.elapsed + RequestTimeout + RequestSpacing
    BY <1>1, <1>3 DEF FetchFingridSeries, SeriesWait, RunType
  <2> QED
    BY <1>1, <2>1, <2>2 DEF FingridTimeInv
<1>4. CASE StoreFingridActuals \/ PruneFingridActuals \/ StoreFingridVintages
  BY <1>1, <1>4
     DEF StoreFingridActuals, PruneFingridActuals, StoreFingridVintages, FingridTimeInv, RunType
<1>5. CASE PruneFingridVintages
  BY <1>1, <1>5 DEF PruneFingridVintages, FingridTimeInv, RunType
<1>6. CASE FetchFingridArchive
  BY <1>6, FetchArchiveRun, IdleFields DEF FingridTimeInv
<1>7. CASE StoreFingridArchive
  BY <1>7, EndRun DEF FingridTimeInv
<1>8. CASE FingridStoreFails \/ DropFingridRun
  <2>1. \/ run' = Idle
        \/ /\ run.at \in {"actuals", "pruneActuals", "vintages", "pruneVintages"}
           /\ run'.at = "archive" /\ run'.elapsed = run.elapsed + RequestSpacing
    BY <1>1, <1>8 DEF FingridStoreFails, DropFingridRun, RunType
  <2> QED
    BY <1>1, <2>1, IdleFields DEF FingridTimeInv
<1>9. CASE UNCHANGED run
  BY <1>9 DEF FingridTimeInv
<1> QED
  BY <1>2, <1>3, <1>4, <1>5, <1>6, <1>7, <1>8, <1>9
     DEF FingridNext, PublishVersion, NextHour, fingridVars

\* Each point of the weather run adds the time limit of one request.
LEMMA NextWeatherTimeInv ==
    ASSUME WeatherStateInv, WeatherTimeInv, [WeatherNext]_weatherVars
    PROVE  WeatherTimeInv'
<1>1. /\ wrun \in WeatherRunType /\ wrun.elapsed \in Nat /\ wrun.point \in Int
      /\ RequestTimeout \in Nat
  BY WeatherRunFields, WeatherConstants DEF WeatherStateInv
<1>2. (wrun.point - 1) * RequestTimeout + RequestTimeout = wrun.point * RequestTimeout
  BY <1>1
<1>3. CASE StartWeather
  <2>1. wrun'.at = "fetch" /\ wrun'.point = 1 /\ wrun'.elapsed = 0
    BY <1>3, WeatherStartRun DEF StartWeather, WeatherIdle
  <2>2. (wrun'.point - 1) * RequestTimeout = 0
    BY <1>1, <2>1
  <2> QED
    BY <2>1, <2>2 DEF WeatherTimeInv
<1>4. CASE FetchPoint
  <2>1. /\ wrun.at = "fetch" /\ wrun'.at = "hourly" /\ wrun'.point = wrun.point
        /\ wrun'.elapsed = wrun.elapsed + RequestTimeout
    <3>1. wrun'.elapsed = wrun.elapsed + RequestTimeout
      BY <1>1, <1>4 DEF FetchPoint, WeatherRunType
    <3> QED
      BY <1>4, <3>1, FetchedRun
  <2> QED
    BY <1>1, <1>2, <2>1 DEF WeatherTimeInv
<1>5. CASE StoreHourly
  <2>1. wrun'.elapsed = wrun.elapsed
    BY <1>1, <1>5 DEF StoreHourly, WeatherRunType
  <2> QED
    BY <1>5, <2>1, HourlyRun DEF WeatherTimeInv
<1>6. CASE StoreDaily
  <2>1. \/ wrun'.at = "fetch" /\ wrun'.point = wrun.point + 1 /\ wrun'.elapsed = wrun.elapsed
        \/ wrun'.at \in {"pruneHourly", "idle"}
    <3>1. PICK r : /\ wrun' = AfterPoint(r) /\ r \in WeatherRunType
                   /\ r.point = wrun.point /\ r.elapsed = wrun.elapsed
      <4>1. CASE wrun' = AfterPoint(wrun)
        BY <1>1, <4>1
      <4>2. CASE wrun' = AfterPoint([wrun EXCEPT !.dailyLost = @ \cup {Point}])
        <5>1. wrun.dailyLost \cup {Point} \in SUBSET Range(Points)
          BY <1>1, WeatherRunFields DEF Point
        <5>2. /\ [wrun EXCEPT !.dailyLost = @ \cup {Point}] \in WeatherRunType
              /\ [wrun EXCEPT !.dailyLost = @ \cup {Point}].point = wrun.point
              /\ [wrun EXCEPT !.dailyLost = @ \cup {Point}].elapsed = wrun.elapsed
          BY <1>1, <5>1 DEF WeatherRunType
        <5> QED
          BY <4>2, <5>2
      <4> QED
        BY <1>6, <4>1, <4>2 DEF StoreDaily
    <3>2. /\ AfterPoint(r).elapsed = r.elapsed
          /\ \/ AfterPoint(r).at = "fetch" /\ AfterPoint(r).point = r.point + 1
             \/ AfterPoint(r).at \in {"pruneHourly", "idle"}
      BY <3>1 DEF AfterPoint, WeatherRunType
    <3> QED
      BY <3>1, <3>2
  <2>2. wrun'.at = "fetch" => wrun'.point - 1 = wrun.point
    BY <1>1, <2>1
  <2>3. wrun.elapsed <= wrun.point * RequestTimeout
    BY <1>6, DailyRun DEF WeatherTimeInv
  <2>4. wrun'.at = "fetch" => wrun'.elapsed <= (wrun'.point - 1) * RequestTimeout
    BY <2>1, <2>2, <2>3
  <2> QED
    BY <2>1, <2>4 DEF WeatherTimeInv
<1>7. CASE PruneHourly \/ PruneDaily
  BY <1>7, PruneRun DEF WeatherTimeInv
<1>8. CASE HourlyStoreFails \/ DropWeatherRun
  BY <1>8, EndedRun DEF WeatherTimeInv
<1>9. CASE UNCHANGED wrun
  BY <1>9 DEF WeatherTimeInv
<1> QED
  BY <1>3, <1>4, <1>5, <1>6, <1>7, <1>8, <1>9
     DEF WeatherNext, IssueForecast, NextWeatherHour, weatherVars

\* The attempts at one date take no longer than their time limits and delays.
LEMMA WaitOfTries ==
    ASSUME NEW tries \in Nat, tries < MaxAttempts
    PROVE  /\ DateWait \in Nat
           /\ (tries + 1) * (RequestTimeout + RetryDelay) =
                tries * (RequestTimeout + RetryDelay) + RequestTimeout + RetryDelay
           /\ tries * (RequestTimeout + RetryDelay) + RequestTimeout <= DateWait
           /\ 0 * (RequestTimeout + RetryDelay) = 0
           /\ 2 * DateWait <= PriceDeadline
<1>1. MaxAttempts \in Nat \ {0} /\ RequestTimeout \in Nat /\ RetryDelay \in Nat
  BY PriceConstants
<1> DEFINE step == RequestTimeout + RetryDelay
           last == MaxAttempts - 1
<1>2. last \in Nat /\ step \in Nat /\ tries <= last
  BY <1>1
<1>3. DateWait = last * step + RequestTimeout
  BY <1>1 DEF DateWait
<1>4. tries * step <= last * step /\ last * step \in Nat
  <2> HIDE DEF step, last
  <2>1. \A a, b, c \in Nat : a <= b => a * c <= b * c /\ b * c \in Nat
    OBVIOUS
  <2> QED
    BY <1>2, <2>1
<1>5. (tries + 1) * step = tries * step + step
  <2> HIDE DEF step
  <2> QED
    BY <1>2
<1>6. tries * step \in Nat /\ 0 * step = 0
  <2> HIDE DEF step
  <2>1. \A a, b \in Nat : a * b \in Nat /\ 0 * b = 0
    OBVIOUS
  <2> QED
    BY <1>2, <2>1
<1>7. tries * step + RequestTimeout <= DateWait /\ DateWait \in Nat
  BY <1>1, <1>3, <1>4, <1>6
<1> QED
  BY <1>1, <1>5, <1>6, <1>7, PriceDeadlineAssumption DEF DateWait

\* Each attempt adds its time limit, and its delay when another one follows.
LEMMA NextPriceTimeInv ==
    ASSUME PriceStateInv, PriceTimeInv, [PriceNext]_priceVars
    PROVE  PriceTimeInv'
<1>1. /\ prun \in PriceRunType /\ prun.elapsed \in Nat /\ prun.tries \in Nat
      /\ RequestTimeout \in Nat /\ RetryDelay \in Nat /\ MaxAttempts \in Nat \ {0}
      /\ DateWait \in Nat /\ Before \in Nat
  <2>1. prun \in PriceRunType /\ prun.elapsed \in Nat /\ prun.tries \in Nat
    BY PriceRunFields, PriceConstants DEF PriceStateInv
  <2>2. DateWait \in Nat
    BY WaitOfTries, PriceConstants
  <2> QED
    BY <2>1, <2>2, PriceConstants DEF Before
<1>2. CASE StartPriceFetch
  BY <1>1, <1>2, StartPriceRun DEF PriceTimeInv, Before
<1>3. CASE NextFetch
  <2>1. CASE prun' = PriceIdle
    BY <2>1, PriceIdleType DEF PriceTimeInv
  <2>2. CASE /\ prun'.at = "check" /\ prun'.tries = 0 /\ prun.date = prun.today
             /\ prun'.today = prun.today /\ prun'.date = prun.today + 1
             /\ prun'.elapsed = prun.elapsed
    <3>1. prun.elapsed <= DateWait
      BY <1>1, <1>3, <2>2, NextDateRun DEF PriceTimeInv, Before
    <3>2. prun'.date # prun'.today
      BY <1>1, <2>2, PriceRunFields
    <3> QED
      BY <2>2, <3>1, <3>2 DEF PriceTimeInv, Before
  <2> QED
    BY <1>3, <2>1, <2>2, NextDateRun
<1>4. CASE CheckDate
  <2>1. /\ prun'.today = prun.today /\ prun'.date = prun.date /\ prun'.tries = 0
        /\ prun'.elapsed = prun.elapsed /\ prun.elapsed <= Before
        /\ prun'.at \in {"attempt", "done"}
    BY <1>4, CheckedRun DEF PriceTimeInv
  <2>2. Before' = Before /\ 0 * (RequestTimeout + RetryDelay) = 0
    BY <1>1, <2>1 DEF Before
  <2>3. prun.elapsed <= Before + 0 /\ prun.elapsed <= Before + DateWait
    BY <1>1, <2>1
  <2> QED
    BY <2>1, <2>2, <2>3 DEF PriceTimeInv
<1>5. CASE AttemptDate
  <2>1. PICK outcome : Decides(outcome)
    BY <1>5, AttemptRun
  <2>2. /\ prun.at = "attempt" /\ prun'.date = prun.date /\ prun'.today = prun.today
        /\ prun'.tries = prun.tries + 1 /\ prun.tries < MaxAttempts
    BY <1>5, AttemptRun DEF PriceStateInv
  <2>3. /\ (prun.tries + 1) * (RequestTimeout + RetryDelay) =
             prun.tries * (RequestTimeout + RetryDelay) + RequestTimeout + RetryDelay
        /\ prun.tries * (RequestTimeout + RetryDelay) + RequestTimeout <= DateWait
    BY <1>1, <2>2, WaitOfTries
  <2>4. prun.elapsed <= Before + prun.tries * (RequestTimeout + RetryDelay)
        /\ Before' = Before
    BY <2>2 DEF PriceTimeInv, Before
  <2>5. prun.tries * (RequestTimeout + RetryDelay) \in Int
    BY <1>1
  <2>6. CASE prun'.at = "attempt"
    <3>1. prun'.elapsed = prun.elapsed + RequestTimeout + RetryDelay
      BY <2>1, <2>6 DEF Decides
    <3>2. prun'.elapsed <= Before + (prun.tries + 1) * (RequestTimeout + RetryDelay)
      <4> DEFINE waited == prun.tries * (RequestTimeout + RetryDelay)
                 next == (prun.tries + 1) * (RequestTimeout + RetryDelay)
      <4>1. waited \in Int /\ next = waited + RequestTimeout + RetryDelay
            /\ prun.elapsed <= Before + waited
        BY <2>3, <2>4, <2>5
      <4> HIDE DEF waited, next
      <4>2. prun.elapsed + RequestTimeout + RetryDelay <= Before + next
        BY <1>1, <4>1
      <4> QED
        BY <3>1, <4>2 DEF next
    <3> QED
      BY <2>2, <2>4, <2>6, <3>2 DEF PriceTimeInv
  <2>7. CASE prun'.at # "attempt"
    <3>1. prun'.elapsed = prun.elapsed + RequestTimeout
      BY <1>1, <2>1, <2>7 DEF Decides
    <3>2. prun.elapsed + RequestTimeout <= Before + DateWait
      <4> DEFINE waited == prun.tries * (RequestTimeout + RetryDelay)
      <4>1. waited \in Int /\ prun.elapsed <= Before + waited
            /\ waited + RequestTimeout <= DateWait
        BY <2>3, <2>4, <2>5
      <4> HIDE DEF waited
      <4> QED
        BY <1>1, <4>1
    <3>3. prun'.at \in {"store", "done"}
      BY <2>1, <2>7 DEF Decides
    <3>4. DateWait' = DateWait
      BY DEF DateWait
    <3> QED
      BY <2>4, <3>1, <3>2, <3>3, <3>4 DEF PriceTimeInv
  <2> QED
    BY <2>6, <2>7
<1>6. CASE StoreDate
  BY <1>6, StoredRun DEF PriceTimeInv, Before, DateWait
<1>7. CASE PriceStoreFails
  <2>1. /\ prun.at \in {"check", "store"} /\ prun'.at = "done" /\ prun'.elapsed = prun.elapsed
        /\ prun'.today = prun.today /\ prun'.date = prun.date
    BY <1>7, FailedPriceRun
  <2>2. prun.elapsed <= Before + DateWait
    BY <1>1, <2>1 DEF PriceTimeInv
  <2>3. Before' = Before /\ DateWait' = DateWait
    BY <2>1 DEF Before, DateWait
  <2> QED
    BY <2>1, <2>2, <2>3 DEF PriceTimeInv
<1>8. CASE prun' = PriceIdle
  BY <1>8, PriceIdleType DEF PriceTimeInv
<1>9. CASE UNCHANGED prun
  BY <1>9 DEF PriceTimeInv, Before, DateWait
<1> QED
  BY <1>2, <1>3, <1>4, <1>5, <1>6, <1>7, <1>8, <1>9
     DEF PriceNext, DropPriceRun, PublishPrices, NextDate, priceVars

-----------------------------------------------------------------------------
(* The three jobs side by side.                                            *)

\* No job has waited when the process starts.
LEMMA InitTimes == Init => FingridTimeInv /\ WeatherTimeInv /\ PriceTimeInv
BY IdleFields, WeatherIdleRun, PriceIdleType
   DEF Init, FingridInit, WeatherInit, PriceInit, FingridTimeInv, WeatherTimeInv, PriceTimeInv

\* Every behaviour of the composition is one of each collecting job: a step of
\* one job is a stutter of the others.
THEOREM CollectorsRunApart == Spec => FingridSpec /\ WeatherSpec /\ PriceSpec
<1>1. Init => FingridInit /\ WeatherInit /\ PriceInit
  BY DEF Init
<1>2. [Next]_<<collector, fingridVars, weatherVars, priceVars>> =>
         [FingridNext]_fingridVars /\ [WeatherNext]_weatherVars /\ [PriceNext]_priceVars
  BY DEF Next
<1> QED
  BY <1>1, <1>2, PTL DEF Spec, FingridSpec, WeatherSpec, PriceSpec

\* Nothing that was archived as issued at some hour is ever rewritten, and it
\* leaves only by age: the vintages of Fingrid and the hourly weather rows.
THEOREM IssuancesStayPut == Spec => IssuancesNeverChange
<1>1. Spec => [][VintagesKept]_fingridVars /\ [][IssuedForecastKept]_weatherVars
  BY CollectorsRunApart, VintagesStay, IssuancesStay
     DEF VintagesNeverChange, IssuedForecastStays
<1>2. UNCHANGED fingridVars => VintagesKept
  BY DEF fingridVars, VintagesKept
<1>3. WeatherStateInv /\ OneRow /\ UNCHANGED weatherVars => IssuedForecastKept
  BY DEF weatherVars, OneRow, IssuedForecastKept
<1>4. WeatherIInv => WeatherStateInv /\ OneRow
  BY DEF WeatherIInv
<1> QED
  BY <1>1, <1>2, <1>3, <1>4, CollectorsRunApart, WeatherInvariant, PTL DEF IssuancesNeverChange

\* A run that only waits for its provider always ends before its deadline: two
\* requests with their spacing, one request of each point, and every attempt at
\* both dates with its delay (the limits of scheduler.rs).
THEOREM WaitingFitsTheDeadlines == Spec => []UpstreamFitsTheDeadlines
<1> DEFINE Times == FingridTimeInv /\ WeatherTimeInv /\ PriceTimeInv
           Types == IInv /\ WeatherIInv /\ PriceIInv
<1>1. Init => Times
  BY InitTimes
<1>2. Times /\ Types /\ [Next]_<<collector, fingridVars, weatherVars, priceVars>> => Times'
  <2>1. [Next]_<<collector, fingridVars, weatherVars, priceVars>> =>
           [FingridNext]_fingridVars /\ [WeatherNext]_weatherVars /\ [PriceNext]_priceVars
    BY DEF Next
  <2> QED
    BY <2>1, NextFingridTimeInv, NextWeatherTimeInv, NextPriceTimeInv
       DEF IInv, WeatherIInv, PriceIInv
<1>3. Times /\ Types => UpstreamFitsTheDeadlines
  <2> SUFFICES ASSUME Times, Types PROVE UpstreamFitsTheDeadlines
    OBVIOUS
  <2>1. FingridFitsItsDeadline
    <3>1. run.elapsed \in Nat
      BY DEF IInv, StateInv
    <3> QED
      BY <3>1, Constants, FingridDeadlineAssumption DEF FingridTimeInv, FingridFitsItsDeadline
  <2>2. WeatherFitsItsDeadline
    <3> SUFFICES ASSUME wrun.at = "fetch" PROVE wrun.elapsed + RequestTimeout <= WeatherDeadline
      BY DEF WeatherFitsItsDeadline
    <3>1. /\ wrun.elapsed \in Nat /\ wrun.point \in 1 .. Len(Points) /\ Len(Points) \in Nat
          /\ RequestTimeout \in Nat /\ WeatherDeadline \in Nat
      BY WeatherRunFields, WeatherConstants, WeatherAssumption DEF WeatherIInv, WeatherStateInv
    <3>2. wrun.elapsed <= (wrun.point - 1) * RequestTimeout
      BY DEF WeatherTimeInv
    <3>3. /\ (wrun.point - 1) * RequestTimeout + RequestTimeout = wrun.point * RequestTimeout
          /\ (wrun.point - 1) * RequestTimeout \in Int
      BY <3>1
    <3>4. wrun.point * RequestTimeout <= Len(Points) * RequestTimeout
      <4>1. \A a, b, c \in Nat : a <= b => a * c <= b * c
        OBVIOUS
      <4> QED
        BY <3>1, <4>1
    <3>5. wrun.elapsed + RequestTimeout <= wrun.point * RequestTimeout
          /\ wrun.point * RequestTimeout \in Int
      BY <3>1, <3>2, <3>3
    <3>6. Len(Points) * RequestTimeout \in Int
      BY <3>1
    <3> QED
      BY <3>1, <3>4, <3>5, <3>6, WeatherDeadlineAssumption
  <2>3. PriceFitsItsDeadline
    <3> SUFFICES ASSUME prun.at = "attempt" PROVE prun.elapsed + RequestTimeout <= PriceDeadline
      BY DEF PriceFitsItsDeadline
    <3>1. /\ prun.elapsed \in Nat /\ prun.tries \in Nat /\ prun.tries < MaxAttempts
          /\ RequestTimeout \in Nat /\ PriceDeadline \in Nat /\ RetryDelay \in Nat
      BY PriceRunFields, PriceConstants DEF PriceIInv, PriceStateInv
    <3> DEFINE waited == prun.tries * (RequestTimeout + RetryDelay)
    <3>2. /\ waited + RequestTimeout <= DateWait /\ DateWait \in Nat
          /\ 2 * DateWait <= PriceDeadline
      BY <3>1, WaitOfTries
    <3>3. prun.elapsed <= Before + waited /\ Before \in {0, DateWait} /\ waited \in Int
      BY <3>1 DEF PriceTimeInv, Before
    <3> HIDE DEF waited
    <3> QED
      BY <3>1, <3>2, <3>3
  <2> QED
    BY <2>1, <2>2, <2>3 DEF UpstreamFitsTheDeadlines
<1>4. Spec => []Types
  BY CollectorsRunApart, Invariant, WeatherInvariant, PriceInvariant, PTL
<1> HIDE DEF Times, Types
<1> QED
  BY <1>1, <1>2, <1>3, <1>4, PTL DEF Spec

=============================================================================
