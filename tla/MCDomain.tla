------------------------------ MODULE MCDomain ------------------------------
(* What the domain crate computes: the answers of the price routes, the     *)
(* decisions about a request, the forecast of the service and of the        *)
(* backtest, and its bands. They share no state, so a behaviour is one of   *)
(* them.                                                                    *)
EXTENDS PriceRoutes, RequestInput, Backtest, Bands

-----------------------------------------------------------------------------
\* The price routes.

\* Helsinki is one hour ahead of the market and loses an hour of its third
\* day; the market zone gains one on its second.
Helsinki == [t \in 0..20 |-> IF t < 8 THEN 1 ELSE 2]
Market == [t \in 0..20 |-> IF t < 5 THEN 0 ELSE -1]
MCZones == {Helsinki, Market}

MCContracts ==
    {[margin |-> 0, day |-> 2000, night |-> 0, tax |-> 10, vatPercent |-> 25,
      nightStart |-> 2, nightEnd |-> 1],
     [margin |-> 5, day |-> 0, night |-> 0, tax |-> 0, vatPercent |-> 0,
      nightStart |-> 0, nightEnd |-> 0]}

\* A delivery is three hours of the market. Its middle may be missing, and
\* two of its hours may be one price, which may hold across a midnight: that
\* of 5 in Helsinki, that of 7 in the market. Later deliveries replace some.
MCPrice(t) == <<-500, 12345, 300, 300, 4000>>[1 + (t % 5)]
Row(t, n) == [start |-> t, end |-> t + n, eur |-> MCPrice(t)]
MCDeliveries ==
    {{Row(t, 1), Row(t + 1, 1), Row(t + 2, 1)} : t \in {0, 3, 6}}
      \union {{Row(3, 1), Row(5, 1)}, {Row(3, 1), Row(4, 2)}, {Row(6, 2), Row(8, 1)}}

\* A query bounds nothing, the start, the end or the price, or all of them.
MCQueries ==
    {[duration |-> d, start |-> b[1], end |-> b[2], maxPrice |-> b[3]] :
       d \in {2, 4},
       b \in {<<{}, {}, {}>>, <<{4}, {}, {}>>, <<{}, {8}, {}>>, <<{}, {}, {400}>>, <<{4}, {8}, {400}>>}}
MCSpans == {[from |-> 0, to |-> 1], [from |-> 2, to |-> 2]}
MCRoutes == {"now", "today", "tomorrow", "all", "cheapest", "history", "public", "chart"}

-----------------------------------------------------------------------------
\* The input of a request.

Number(n) == [body |-> "decimal", signed |-> FALSE, twice |-> n]
Text(b) == [body |-> b, signed |-> FALSE, twice |-> 0]
MCNumbers ==
    {Number(n) : n \in {-2, 0, 1, 2, 120, 2880, 2881, 2882, 4002}}
      \union {Text(b) : b \in {"blank", "plus", "minus", "other"}}
      \union {[body |-> "radix", signed |-> s, twice |-> 120] : s \in BOOLEAN}

Date(y, m, d) == [digits |-> TRUE, exact |-> TRUE, year |-> y, month |-> m, day |-> d]
Junk == [digits |-> FALSE, exact |-> FALSE, year |-> 0, month |-> 0, day |-> 0]
Time(d, h, s, o) == [date |-> d, hour |-> h, minute |-> 0, sign |-> s, offset |-> o]
MCInstants ==
    {Time(Date(2024, 2, 29), 23, s, o) : s \in {"Z", "+", "%2B", "-"}, o \in {2, 23, 24}}
      \union {Time(Date(9999, 12, 31), 24, "Z", 0), Time(Date(9999, 12, 31), 23, "-", 23),
              Time(Date(2023, 2, 29), 0, "Z", 0), Time(Junk, 0, "Z", 0)}

\* No, one or two values of a name.
Params(name, texts) ==
    {<<>>, <<[name |-> name, text |-> CHOOSE t \in texts : TRUE],
             [name |-> name, text |-> CHOOSE t \in texts : TRUE]>>}
      \union {<<[name |-> name, text |-> t]>> : t \in texts}

MCCheapest ==
    {d \o s : d \in Params("duration", MCNumbers), s \in Params("startTime", MCInstants)}
      \union {d \o e \o m : d \in Params("duration", {Number(120), Number(0)}),
                            e \in Params("endTime", MCInstants),
                            m \in Params("maxPrice", MCNumbers)}

MCDates ==
    {Date(y, m, d) : y \in {1999, 2000, 2023, 2024}, m \in {0, 1, 2, 3, 12, 13},
                     d \in {0, 1, 28, 29, 30, 31}}
      \union {[Date(2024, 1, 1) EXCEPT !.exact = FALSE], Junk, Date(50, 1, 1), Date(150, 1, 1)}
MCHistory ==
    {f \o t : f \in Params("from", MCDates), t \in Params("to", MCDates)}

JsonNumber(n) == [type |-> "number", number |-> Finite(n), text |-> ""]
JsonText(s) == [type |-> "string", number |-> NaN, text |-> s]
MCJson ==
    {JsonNumber(n) : n \in {-4002, -2, 0, 1, 46, 48, 200, 201, 4002}}
      \union {[type |-> "number", number |-> [form |-> f, twice |-> 0], text |-> ""] : f \in {"plus", "minus"}}
      \union {JsonText(s) : s \in {"FI", "Europe/Helsinki", "other"}}
      \union {[type |-> t, number |-> NaN, text |-> ""] : t \in {"null", "array"}}
MCFields == {"marginCentsKwh", "vatPercent", "nightStartHour", "nightEndHour", "timezone", "area", "unknown"}
MCObjects ==
    UNION {[fields -> MCJson] : fields \in {fs \in SUBSET MCFields : Cardinality(fs) <= 2}}
MCTypes ==
    {[subtype |-> s, parameters |-> p] :
       s \in {"json", "JSON", "x+json", "jsonp", "absent"}, p \in {"none", "valid", "invalid"}}
MCSettings ==
    {[contentType |-> [subtype |-> "json", parameters |-> "none"],
      body |-> [type |-> "object", fields |-> o]] : o \in MCObjects}
      \union {[contentType |-> t, body |-> [type |-> b]] : t \in MCTypes, b \in {"malformed", "array"}}

-----------------------------------------------------------------------------
\* The forecast.

\* A day of three hours, an hour of two quarters, a week of two days. The
\* market skips an hour on day 4 and repeats one on day 8.
MCMarketZone == [t \in 0..170 |-> IF t < 52 \/ t >= 96 THEN 0 ELSE 4]

Fact(of, start, issued) == [of |-> of, start |-> start, issued |-> issued]
FirstDay == 1
LastDay == 9
Times(step) == {t \in (FirstDay * Day)..((LastDay + 1) * Day - 1) : t % step = 0}

\* Prices each quarter, the neighbour's each hour, wind off the quarter, the
\* consumption each hour, and vintages of two issues a day for the next hours.
MCFacts ==
    {Fact("FI", t, 0) : t \in Times(Quarter)}
      \union {Fact("SE3", t, 0) : t \in Times(Hour)}
      \union {Fact("windActual", t + 1, 0) : t \in Times(Quarter)}
      \union {Fact("consumptionActual", t, 0) : t \in Times(Hour)}
      \union {Fact(of, i + h * Hour, i) :
                of \in {"windForecast", "consumptionForecast"},
                i \in {t \in Times(Hour) : t % Day >= Hour /\ t >= 5 * Day}, h \in 0..3}

MCGaps ==
    {Fact("FI", t, 0) : t \in {68, 92, 96, 104}}
      \union {Fact("windActual", 71, 0), Fact("windActual", 89, 0), Fact("consumptionActual", 68, 0)}
      \union {Fact("windForecast", 108, 100), Fact("consumptionForecast", 108, 100)}

Rules(l, p) == [latest |-> l, previousDay |-> p]
MCVariants ==
    {Served,
     [Served EXCEPT !.training = "Issuance", !.rules = Rules("AtOrBefore", "DeliveryDay"),
                    !.shape = [kind |-> "Persistence", weeks |-> 0]]}
      \union {[training |-> "Realised", correction |-> c, rules |-> Served.rules,
               shape |-> s, window |-> 2] :
                c \in {"Joint", "DayDeviation"},
                s \in {Served.shape, [kind |-> "PreviousPublishedDay", weeks |-> 0]}}

-----------------------------------------------------------------------------
\* The bands: the values of a residual.
MCErrors == {-2, 0, 1}

-----------------------------------------------------------------------------

VARIABLE part   \* what this behaviour is about

domainVars == <<part, routeVars, received, backtestVars, bandVars>>

Init ==
    /\ part \in {"routes", "input", "forecast", "bands"}
    /\ RoutesInit /\ InputInit /\ BacktestInit /\ BandsInit
    /\ part # "routes" => instant = 0

Next ==
    /\ \/ /\ part = "routes"
          /\ RoutesNext
          /\ UNCHANGED <<received, backtestVars, bandVars>>
       \/ /\ part = "input"
          /\ InputNext
          /\ UNCHANGED <<routeVars, backtestVars, bandVars>>
       \/ /\ part = "forecast"
          /\ BacktestNext
          /\ UNCHANGED <<routeVars, received, bandVars>>
       \/ /\ part = "bands"
          /\ BandsNext
          /\ UNCHANGED <<routeVars, received, backtestVars>>
    /\ UNCHANGED part

Spec == Init /\ [][Next]_domainVars
=============================================================================
