----------------------------- MODULE PriceRoutes -----------------------------
(* The handlers of http/price.rs and the chart of http/me.rs. Each reads    *)
(* the settings of the user, then the clock, then the store with one query  *)
(* (two for the public spot and the chart), and answers; meanwhile prices   *)
(* are stored, settings are saved and time passes.                          *)
EXTENDS ContractPrices, TLC

CONSTANTS
    Routes,         \* the routes that a request takes
    Zones,          \* the time zones
    Contracts,      \* the settings that a user may have, without the zone
    Queries,        \* cheapest queries, see CheapestCandidates
    Spans,          \* history queries: [from, to]
    Deliveries,     \* what one store call may write: a set of rows
    MaxStores,      \* bound: store calls
    MaxSaves        \* bound: saved settings

VARIABLES
    instant,        \* the clock
    stored,         \* the rows of the area of the user
    contract,       \* the settings row, or None
    call,           \* the request
    stores, saves   \* counters of the bounds

routeVars == <<instant, stored, contract, call, stores, saves>>

None == [kind |-> "none"]
Idle == [step |-> "idle"]
TwoQueries == {"public", "chart"}

(* get_prices_by_range: rows that start in the range, by start. *)
RowsIn(range) ==
    SetToSortSeq({r \in stored : range.start <= r.start /\ r.start < range.end}, ByStart)

(* The query range of a route. *)
RangeOf(c) ==
    LET zone == c.settings.zone
        today == LocalDate(zone, c.now)
    IN  CASE c.route = "today" -> UtcRange(zone, today, today)
          [] c.route = "tomorrow" -> UtcRange(zone, today + 1, today + 1)
          [] c.route \in {"now", "all", "cheapest"} -> UtcRange(zone, today, today + 1)
          [] c.route = "history" -> UtcRange(zone, c.query.from, c.query.to)
          [] c.route \in TwoQueries ->
               IF c.step = "query" THEN UtcRange(zone, today, today)
               ELSE UtcRange(zone, today + 1, today + 1)

(* tomorrow_available: the rows cover the whole local day. *)
TomorrowAvailable(rows, range) == CoversRange(Range(rows), range)

RoutesInit ==
    /\ instant \in {0, DayLength - 1}
    /\ stored = {} /\ stores = 0 /\ saves = 0
    /\ contract = None
    /\ call = Idle

(* A request, valid as its query parser found it. *)
Request(route, query) ==
    /\ call.step = "idle"
    /\ call' = [step |-> "settings", route |-> route, query |-> query]
    /\ UNCHANGED <<instant, stored, contract, stores, saves>>

(* load_settings: 404 without a row; a query that fails is a 500. The       *)
(* public route has the zone of the area, the chart makes default settings. *)
LoadSettings(zone) ==
    /\ call.step = "settings"
    /\ call' = IF call.route = "public" THEN [call EXCEPT !.step = "clock"] @@ [settings |-> [zone |-> zone]]
               ELSE IF contract # None THEN [call EXCEPT !.step = "clock"] @@ [settings |-> contract]
               ELSE IF call.route = "chart"
                      THEN [call EXCEPT !.step = "clock"]
                             @@ [settings |-> [zone |-> zone] @@ CHOOSE c \in Contracts : TRUE]
               ELSE [call EXCEPT !.step = "answered"] @@ [answer |-> [status |-> 404]]
    /\ UNCHANGED <<instant, stored, contract, stores, saves>>

Fails ==
    /\ call.step \in {"settings", "query", "second"}
    /\ call' = [call EXCEPT !.step = "answered"] @@ [answer |-> [status |-> 500]]
    /\ UNCHANGED <<instant, stored, contract, stores, saves>>

(* state.now() of the handler: one instant decides every day of the answer. *)
ReadNow ==
    /\ call.step = "clock"
    /\ call' = [call EXCEPT !.step = "query"] @@ [now |-> instant]
    /\ UNCHANGED <<instant, stored, contract, stores, saves>>

AnswerTo(c, rows, range) ==
    LET totals == CalculateTotalPrices(rows, c.settings) IN
    CASE c.route = "now" ->
           IF CurrentPrice(rows, c.now) = <<>> THEN [status |-> 404]
           ELSE [status |-> 200,
                 price |-> CalculateTotalPrice(Head(CurrentPrice(rows, c.now)), c.settings)]
      [] c.route \in {"today", "all", "history"} -> [status |-> 200] @@ FromTotals(totals)
      [] c.route = "tomorrow" ->
           [status |-> 200] @@ TomorrowFromTotals(totals, TomorrowAvailable(rows, range))
      [] c.route = "cheapest" -> CheapestWindow(rows, c.settings, c.query, c.now)
      [] c.route \in TwoQueries ->
           [status |-> 200, today |-> c.today, tomorrow |-> rows,
            available |-> TomorrowAvailable(rows, range)]

(* The query, and the second one of two, and the answer. *)
QueryPrices ==
    /\ call.step \in {"query", "second"}
    /\ LET range == RangeOf(call)
           rows == RowsIn(range)
       IN  call' = IF call.route \in TwoQueries /\ call.step = "query"
                     THEN [call EXCEPT !.step = "second"] @@ [today |-> rows]
                     ELSE [call EXCEPT !.step = "answered"] @@ [seen |-> rows, answer |-> AnswerTo(call, rows, range)]
    /\ UNCHANGED <<instant, stored, contract, stores, saves>>

Respond ==
    /\ call.step = "answered"
    /\ call' = Idle
    /\ UNCHANGED <<instant, stored, contract, stores, saves>>

(* store_prices: the rows replace those with the same start. *)
StoreDelivery(rows) ==
    /\ stores < MaxStores
    /\ stored' = rows \union {r \in stored : \A n \in rows : n.start # r.start}
    /\ stores' = stores + 1
    /\ UNCHANGED <<instant, contract, call, saves>>

SaveSettings(zone, c) ==
    /\ saves < MaxSaves
    /\ contract' = [zone |-> zone] @@ c
    /\ saves' = saves + 1
    /\ UNCHANGED <<instant, stored, call, stores>>

TimePasses ==
    /\ instant < LastInstant - 2 * DayLength
    /\ instant' = instant + 1
    /\ UNCHANGED <<stored, contract, call, stores, saves>>

RoutesNext ==
    \/ \E route \in Routes :
         \/ route = "cheapest" /\ \E q \in Queries : Request(route, q)
         \/ route = "history" /\ \E q \in Spans : Request(route, q)
         \/ route \notin {"cheapest", "history"} /\ Request(route, None)
    \/ (\E zone \in Zones : LoadSettings(zone)) \/ Fails \/ ReadNow \/ QueryPrices \/ Respond
    \/ \E rows \in Deliveries : StoreDelivery(rows)
    \/ \E zone \in Zones, c \in Contracts : SaveSettings(zone, c)
    \/ TimePasses

----------------------------------------------------------------------------
Answered(route) == call.step = "answered" /\ call.route = route /\ call.answer.status = 200

(* A day is called available if and only if it is whole: at each instant of *)
(* the local day after the one of the request, a price that begins on that  *)
(* day holds; and then the answer lists such prices for all of it (http/    *)
(* price.rs, tomorrow_available; endpoints.rs, tomorrow_from_totals: "a     *)
(* partial day is unavailable"). The store has the first hour of the next   *)
(* local day long before the auction, days with a clock change are shorter  *)
(* or longer, and a price may hold across midnight. More than one price may *)
(* hold at an instant: a store replaces rows by their start alone, and the  *)
(* periods "can overlap" (time.rs, covers_range).                           *)
TomorrowIsWhole ==
    LET Whole(rows) ==
          \A t \in Instants :
            LocalDate(call.settings.zone, t) = LocalDate(call.settings.zone, call.now) + 1 =>
              \E i \in DOMAIN rows : rows[i].start <= t /\ t < rows[i].end
    IN  /\ Answered("tomorrow") =>
             /\ call.answer.available <=> Whole(call.seen)
             /\ call.answer.available => Whole(call.answer.window.prices)
        /\ \A route \in TwoQueries :
             Answered(route) => (call.answer.available <=> Whole(call.answer.tomorrow))

(* The window of /price/cheapest has no gap, lasts as long as was asked and *)
(* no price longer, lies inside what was asked, and no other such window    *)
(* that the query read has a lower average or, with the same, starts earlier *)
(* (price.rs, find_cheapest_window).                                        *)
CheapestIsCheapest ==
    Answered("cheapest") =>
      LET q == call.query
          run == call.answer.window.prices
          Joined(w) == \A i \in 1..(Len(w) - 1) : w[i].end = w[i + 1].start
          Inside(p) ==
            /\ p.start >= (IF q.start = {} THEN call.now ELSE Min(q.start))
            /\ \A end \in q.end : p.end <= end
            /\ \A most \in q.maxPrice : p.breakdown.total <= most
          Fits(w) ==
            /\ w # <<>> /\ Joined(w) /\ \A p \in Range(w) : Inside(p)
            /\ Lasting(w) >= q.duration /\ Lasting(Front(w)) < q.duration
          all == CalculateTotalPrices(call.seen, call.settings)
      IN  /\ Fits(run)
          /\ \A i, j \in DOMAIN all :
               LET other == SubSeq(all, i, j) IN
               i <= j /\ Fits(other) =>
                 /\ ~Cheaper(other, run)
                 /\ ~Cheaper(run, other) => Head(run).start <= Head(other).start
=============================================================================
