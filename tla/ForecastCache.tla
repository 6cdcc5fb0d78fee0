--------------------------- MODULE ForecastCache ---------------------------
(***************************************************************************)
(* The precomputed FI forecast and everything that touches it while the    *)
(* service runs (crates/server/src/forecast_cache.rs):                     *)
(*                                                                         *)
(*   - three background tasks recompute it: the start-up task, the price   *)
(*     job after a run that stored prices, and the Fingrid job after a run *)
(*     that stored data;                                                   *)
(*   - every recompute waits for the refresh mutex, reads its inputs with  *)
(*     queries that share no transaction, and swaps its result in;         *)
(*   - requests read the cached result, or build one of their own when     *)
(*     there is none that may be served;                                   *)
(*   - a deadline or a panic drops a task at any await point, a query or   *)
(*     the model can fail, and the process can restart.                    *)
(*                                                                         *)
(* The data of a table is abstracted to a version: the instant at which    *)
(* its newest rows were written (prices.fetched_at, the fetch of the       *)
(* actuals, fingrid_forecasts.issued_at).  A query returns the version of  *)
(* its table.  Version 0 is the empty table.                               *)
(***************************************************************************)
EXTENDS Integers

CONSTANTS
    Requests,     \* the concurrent GET /api/v1/price/forecast requests
    FingridKey,   \* whether FINGRID_API_KEY is set; without it that job is off
    NoSnapshot,   \* the cache before the first result: Option::None
    Free,         \* the refresh mutex when nobody holds it
    MaxTime,      \* bound on the clock
    MaxFaults     \* bound on failures, empty series, deadlines, panics and restarts

Jobs == {"startup", "price", "fingrid"}

\* Whoever runs forecast_cache::build.
Builders == Jobs \cup Requests

Time == 0 .. MaxTime

Tables == {"prices", "actuals", "vintages"}

\* The queries of load_inputs, each with the table that it reads.  The wind
\* and the consumption dataset of one table are read at the same await point
\* by the same query; one of the two stands for both.
Source == [last            |-> "prices",
           fi              |-> "prices",
           neighbors       |-> "prices",
           forecasts       |-> "vintages",
           actuals         |-> "actuals",
           pricesFetchedAt |-> "prices",
           issuedAt        |-> "vintages"]

Queries == DOMAIN Source

\* The await point of load_inputs that runs the query.  The queries of one
\* await point run concurrently (tokio::try_join!).
Stage == [last |-> 1, fi |-> 2, neighbors |-> 3, forecasts |-> 4, actuals |-> 4,
          pricesFetchedAt |-> 5, issuedAt |-> 5]

\* A query that a build has not run yet.
Unread == -1

\* What a finished build holds: what each query returned.  The instant of the
\* build only labels results that are not served from the cache.
Snapshot == [Queries -> Time]

ASSUME ConstantsAssumption ==
    /\ Requests \cap (Jobs \cup {Free}) = {}
    /\ Free \notin Jobs
    /\ FingridKey \in BOOLEAN
    /\ NoSnapshot \notin Snapshot \cup [Tables -> Time]
    /\ MaxTime \in Nat \ {0}
    /\ MaxFaults \in Nat

VARIABLES
    clock,     \* the wall clock
    db,        \* db[t]: the version of table t
    pc,        \* pc[b]: where task or request b is
    issue,     \* the instant of the Fingrid run, the issued_at of its vintages
    stored,    \* the price run stored prices (any(|r| r.stored > 0))
    reads,     \* reads[b]: what the build of b has read so far
    lock,      \* who holds the refresh mutex
    cache,     \* ForecastCache::current
    answer,    \* answer[r]: the snapshot that request r answers with
    faults,    \* failures so far
    base       \* history: db when b asked for a result (see below)

vars == <<clock, db, pc, issue, stored, reads, lock, cache, answer, faults, base>>

\* Where a task can be.  "waiting" is the wait for the refresh mutex,
\* "building" the build under it; "refreshed" and "failed" are the two
\* outcomes of ForecastCache::refresh, back in the job that called it.
JobStates == {"idle", "stopped", "boot", "today", "tomorrow", "fetch", "prune",
              "vintages", "waiting", "building", "refreshed", "failed", "archive"}

RequestStates == {"idle", "settings", "building", "answered"}

TypeOK ==
    /\ clock \in Time
    /\ db \in [Tables -> Time]
    /\ pc \in [Builders -> JobStates \cup RequestStates]
    /\ \A j \in Jobs : pc[j] \in JobStates
    /\ \A r \in Requests : pc[r] \in RequestStates
    /\ issue \in Time
    /\ stored \in BOOLEAN
    /\ reads \in [Builders -> [Queries -> Time \cup {Unread}]]
    /\ lock \in Jobs \cup {Free}
    /\ cache \in Snapshot \cup {NoSnapshot}
    /\ answer \in [Requests -> Snapshot \cup {NoSnapshot}]
    /\ faults \in 0 .. MaxFaults
    /\ base \in [Builders -> [Tables -> Time]]

NothingRead == [q \in Queries |-> Unread]

EmptyDatabase == [t \in Tables |-> 0]

\* The state of a process that has just started.
Booted(b) == IF b = "startup" THEN "boot" ELSE "idle"

Init ==
    /\ clock = 1
    /\ db = EmptyDatabase
    /\ pc = [b \in Builders |-> Booted(b)]
    /\ issue = 0
    /\ stored = FALSE
    /\ reads = [b \in Builders |-> NothingRead]
    /\ lock = Free
    /\ cache = NoSnapshot
    /\ answer = [r \in Requests |-> NoSnapshot]
    /\ faults = 0
    /\ base = [b \in Builders |-> EmptyDatabase]

-----------------------------------------------------------------------------
(***************************************************************************)
(* The build: load_inputs and Snapshot::compute.                           *)
(***************************************************************************)

\* One query of the build of b.  It runs when every query of the earlier
\* await points has returned, and sees what is committed at that moment.
Read(b, q) ==
    /\ pc[b] = "building"
    /\ reads[b][q] = Unread
    /\ \A p \in Queries : Stage[p] < Stage[q] => reads[b][p] # Unread
    /\ reads' = [reads EXCEPT ![b][q] = db[Source[q]]]
    /\ UNCHANGED <<clock, db, pc, issue, stored, lock, cache, answer, faults, base>>

\* The inputs of a build are dropped with its future.
DropBuild(b) == reads' = [reads EXCEPT ![b] = NothingRead]

\* The history of a task or request ends with it.
ForgetBase(b) == base' = [base EXCEPT ![b] = EmptyDatabase]

AllRead(b) == \A q \in Queries : reads[b][q] # Unread

\* Inputs::window_from_clock: no FI price was stored when the window was read.
WindowFromClock(snapshot) == snapshot["last"] = 0

-----------------------------------------------------------------------------
(***************************************************************************)
(* ForecastCache::refresh, called by task j.                               *)
(***************************************************************************)

\* Task j calls refresh; newdb is the database at that moment.
CallRefresh(j, newdb) ==
    /\ pc' = [pc EXCEPT ![j] = "waiting"]
    /\ base' = [base EXCEPT ![j] = newdb]

\* Mutant: the recomputes are not serialised.
AcquireUnserialised(j) ==
    /\ pc[j] = "waiting"
    /\ lock' = j
    /\ pc' = [pc EXCEPT ![j] = "building"]
    /\ UNCHANGED <<clock, db, issue, stored, reads, cache, answer, faults, base>>

\* Mutant: a refresh that finds another one running counts as done.
AcquireOrCoalesce(j) ==
    /\ pc[j] = "waiting"
    /\ lock' = IF lock = Free THEN j ELSE lock
    /\ pc' = [pc EXCEPT ![j] = IF lock = Free THEN "building" ELSE "refreshed"]
    /\ UNCHANGED <<clock, db, issue, stored, reads, cache, answer, faults, base>>

AcquireRefresh(j) ==
    /\ pc[j] = "waiting"
    /\ lock = Free
    /\ lock' = j
    /\ pc' = [pc EXCEPT ![j] = "building"]
    /\ UNCHANGED <<clock, db, issue, stored, reads, cache, answer, faults, base>>

\* The build succeeded: one swap, and the guard is dropped.
SwapIn(j) ==
    /\ pc[j] = "building"
    /\ AllRead(j)
    /\ cache' = reads[j]
    /\ lock' = Free
    /\ pc' = [pc EXCEPT ![j] = "refreshed"]
    /\ DropBuild(j)
    /\ UNCHANGED <<clock, db, issue, stored, answer, faults, base>>

\* Mutant: a failed build swaps in what it has read.
BuildFailedSwapsIn(j) ==
    /\ pc[j] = "building"
    /\ faults < MaxFaults
    /\ faults' = faults + 1
    /\ cache' = reads[j]
    /\ lock' = Free
    /\ pc' = [pc EXCEPT ![j] = "failed"]
    /\ DropBuild(j)
    /\ UNCHANGED <<clock, db, issue, stored, answer, base>>

\* A query failed, or the blocking task of the model stopped: the previous
\* result stays.
BuildFailed(j) ==
    /\ pc[j] = "building"
    /\ faults < MaxFaults
    /\ faults' = faults + 1
    /\ lock' = Free
    /\ pc' = [pc EXCEPT ![j] = "failed"]
    /\ DropBuild(j)
    /\ UNCHANGED <<clock, db, issue, stored, cache, answer, base>>

\* The caller of refresh ignores its outcome and goes on.
AfterRefresh(j) ==
    /\ pc[j] \in {"refreshed", "failed"}
    /\ pc' = [pc EXCEPT ![j] = CASE j = "startup" -> "stopped"
                                  [] j = "price"   -> "idle"
                                  [] j = "fingrid" -> "archive"]
    /\ ForgetBase(j)
    /\ UNCHANGED <<clock, db, issue, stored, reads, lock, cache, answer, faults>>

\* The deadline of a task, or a panic in it, drops its future at an await
\* point: a held guard is released, and nothing more happens in this run.
Deadline(j) ==
    /\ pc[j] \notin {"idle", "stopped", "boot"}
    /\ faults < MaxFaults
    /\ faults' = faults + 1
    /\ pc' = [pc EXCEPT ![j] = IF j = "startup" THEN "stopped" ELSE "idle"]
    /\ lock' = IF lock = j THEN Free ELSE lock
    /\ DropBuild(j)
    /\ ForgetBase(j)
    /\ UNCHANGED <<clock, db, issue, stored, cache, answer>>

-----------------------------------------------------------------------------
(***************************************************************************)
(* The tasks that call it.                                                 *)
(***************************************************************************)

\* lifecycle::startup_forecast
StartupForecast ==
    /\ pc["startup"] = "boot"
    /\ CallRefresh("startup", db)
    /\ UNCHANGED <<clock, db, issue, stored, reads, lock, cache, answer, faults>>

\* A price schedule starts a run (jobs::price_fetch).  PriceScheduler models
\* when it does; here a run may start whenever none is active.
StartPriceRun ==
    /\ pc["price"] = "idle"
    /\ pc' = [pc EXCEPT !["price"] = "today"]
    /\ stored' = FALSE
    /\ UNCHANGED <<clock, db, issue, reads, lock, cache, answer, faults, base>>

StorePrices == db' = [db EXCEPT !["prices"] = clock]

\* fetch_for_date(today): it stores prices, or it finds the date complete or
\* not published, or it fails, which ends the run.
FetchToday ==
    /\ pc["price"] = "today"
    /\ \/ /\ StorePrices
          /\ stored' = TRUE
          /\ pc' = [pc EXCEPT !["price"] = "tomorrow"]
          /\ UNCHANGED faults
       \/ /\ pc' = [pc EXCEPT !["price"] = "tomorrow"]
          /\ UNCHANGED <<db, stored, faults>>
       \/ /\ faults < MaxFaults
          /\ faults' = faults + 1
          /\ pc' = [pc EXCEPT !["price"] = "idle"]
          /\ UNCHANGED <<db, stored>>
    /\ UNCHANGED <<clock, issue, reads, lock, cache, answer, base>>

\* fetch_for_date(tomorrow): a failure counts as nothing stored.  The run
\* recomputes when one of its two dates stored prices.
FetchTomorrow ==
    /\ pc["price"] = "tomorrow"
    /\ \/ /\ StorePrices
          /\ CallRefresh("price", db')
       \/ /\ stored
          /\ CallRefresh("price", db)
          /\ UNCHANGED db
       \/ /\ ~stored
          /\ pc' = [pc EXCEPT !["price"] = "idle"]
          /\ UNCHANGED <<db, base>>
    /\ stored' = FALSE
    /\ UNCHANGED <<clock, issue, reads, lock, cache, answer, faults>>

\* jobs::fingrid_fetch reads the clock once for the whole run.
StartFingridRun ==
    /\ FingridKey
    /\ pc["fingrid"] = "idle"
    /\ pc' = [pc EXCEPT !["fingrid"] = "fetch"]
    /\ issue' = clock
    /\ UNCHANGED <<clock, db, stored, reads, lock, cache, answer, faults, base>>

\* fetch_series and store_fingrid_records: the actuals commit.  Or the series
\* holds none and the run goes on, or the fetch is degraded or the store
\* fails, and the run goes on to the archive.
FetchSeries ==
    /\ pc["fingrid"] = "fetch"
    /\ \/ /\ db' = [db EXCEPT !["actuals"] = clock]
          /\ pc' = [pc EXCEPT !["fingrid"] = "prune"]
          /\ UNCHANGED faults
       \/ /\ faults < MaxFaults
          /\ faults' = faults + 1
          /\ \E step \in {"prune", "archive"} : pc' = [pc EXCEPT !["fingrid"] = step]
          /\ UNCHANGED db
    /\ UNCHANGED <<clock, issue, stored, reads, lock, cache, answer, base>>

\* prune_fingrid_records_before: its failure ends the served part of the run
\* with an error, although the actuals are stored.
PruneActuals ==
    /\ pc["fingrid"] = "prune"
    /\ \/ /\ pc' = [pc EXCEPT !["fingrid"] = "vintages"]
          /\ UNCHANGED faults
       \/ /\ faults < MaxFaults
          /\ faults' = faults + 1
          /\ pc' = [pc EXCEPT !["fingrid"] = "archive"]
    /\ UNCHANGED <<clock, db, issue, stored, reads, lock, cache, answer, base>>

\* Mutant: a run recomputes only when it stored a new issuance.
StoreVintagesIfNew ==
    /\ pc["fingrid"] = "vintages"
    /\ \/ /\ issue # db["vintages"]
          /\ db' = [db EXCEPT !["vintages"] = issue]
          /\ CallRefresh("fingrid", db')
       \/ /\ issue = db["vintages"]
          /\ pc' = [pc EXCEPT !["fingrid"] = "archive"]
          /\ UNCHANGED <<db, base>>
    /\ UNCHANGED <<clock, issue, stored, reads, lock, cache, answer, faults>>

\* The vintages are stored under the hour of the run, or the series holds
\* none, or their archival is degraded.  Either way the run recomputes the
\* forecast.
StoreVintages ==
    /\ pc["fingrid"] = "vintages"
    /\ \/ /\ db' = [db EXCEPT !["vintages"] = issue]
          /\ UNCHANGED faults
       \/ /\ faults < MaxFaults
          /\ faults' = faults + 1
          /\ UNCHANGED db
    /\ CallRefresh("fingrid", db')
    /\ UNCHANGED <<clock, issue, stored, reads, lock, cache, answer>>

\* The archive request writes datasets that no query of load_inputs reads.
ArchiveVintages ==
    /\ pc["fingrid"] = "archive"
    /\ pc' = [pc EXCEPT !["fingrid"] = "idle"]
    /\ UNCHANGED <<clock, db, issue, stored, reads, lock, cache, answer, faults, base>>

-----------------------------------------------------------------------------
(***************************************************************************)
(* The requests (http/forecast.rs).                                        *)
(***************************************************************************)

\* answer: the request instant is read, then the settings are loaded.
RequestStart(r) ==
    /\ pc[r] = "idle"
    /\ pc' = [pc EXCEPT ![r] = "settings"]
    /\ base' = [base EXCEPT ![r] = db]
    /\ UNCHANGED <<clock, db, issue, stored, reads, lock, cache, answer, faults>>

\* No settings (404), an area other than FI, or a failed read: answered
\* without a forecast.
RequestWithoutForecast(r) ==
    /\ pc[r] = "settings"
    /\ pc' = [pc EXCEPT ![r] = "idle"]
    /\ ForgetBase(r)
    /\ UNCHANGED <<clock, db, issue, stored, reads, lock, cache, answer, faults>>

\* Mutant: every cached result is served.
UsableAny == cache # NoSnapshot

\* cached: a result whose window came from the build clock is not served.
Usable == cache # NoSnapshot /\ ~WindowFromClock(cache)

RequestCached(r) ==
    /\ pc[r] = "settings"
    /\ Usable
    /\ answer' = [answer EXCEPT ![r] = cache]
    /\ pc' = [pc EXCEPT ![r] = "answered"]
    /\ UNCHANGED <<clock, db, issue, stored, reads, lock, cache, faults, base>>

RequestBuild(r) ==
    /\ pc[r] = "settings"
    /\ ~Usable
    /\ pc' = [pc EXCEPT ![r] = "building"]
    /\ UNCHANGED <<clock, db, issue, stored, reads, lock, cache, answer, faults, base>>

\* The result of a request's own build is not cached.
RequestBuilt(r) ==
    /\ pc[r] = "building"
    /\ AllRead(r)
    /\ answer' = [answer EXCEPT ![r] = reads[r]]
    /\ pc' = [pc EXCEPT ![r] = "answered"]
    /\ DropBuild(r)
    /\ UNCHANGED <<clock, db, issue, stored, lock, cache, faults, base>>

\* The request ends: the answer is sent, the build failed (500), or the
\* client went away.
RequestEnd(r) ==
    /\ pc[r] \in {"building", "answered"}
    /\ pc' = [pc EXCEPT ![r] = "idle"]
    /\ answer' = [answer EXCEPT ![r] = NoSnapshot]
    /\ DropBuild(r)
    /\ ForgetBase(r)
    /\ UNCHANGED <<clock, db, issue, stored, lock, cache, faults>>

-----------------------------------------------------------------------------

Tick ==
    /\ clock < MaxTime
    /\ clock' = clock + 1
    /\ UNCHANGED <<db, pc, issue, stored, reads, lock, cache, answer, faults, base>>

\* The process stops at any point and starts again: only the database stays.
Restart ==
    /\ faults < MaxFaults
    /\ faults' = faults + 1
    /\ pc' = [b \in Builders |-> Booted(b)]
    /\ lock' = Free
    /\ cache' = NoSnapshot
    /\ answer' = [r \in Requests |-> NoSnapshot]
    /\ reads' = [b \in Builders |-> NothingRead]
    /\ base' = [b \in Builders |-> EmptyDatabase]
    /\ UNCHANGED <<clock, db, issue, stored>>

Refresh(j) ==
    \/ AcquireRefresh(j)
    \/ SwapIn(j)
    \/ BuildFailed(j)
    \/ AfterRefresh(j)
    \/ \E q \in Queries : Read(j, q)

PriceRun == StartPriceRun \/ FetchToday \/ FetchTomorrow

FingridRun ==
    \/ StartFingridRun \/ FetchSeries \/ PruneActuals
    \/ StoreVintages \/ ArchiveVintages

Request(r) ==
    \/ RequestStart(r)
    \/ RequestWithoutForecast(r)
    \/ RequestCached(r)
    \/ RequestBuild(r)
    \/ RequestBuilt(r)
    \/ RequestEnd(r)
    \/ \E q \in Queries : Read(r, q)

Next ==
    \/ \E j \in Jobs : Refresh(j) \/ Deadline(j)
    \/ StartupForecast
    \/ PriceRun
    \/ FingridRun
    \/ \E r \in Requests : Request(r)
    \/ Tick
    \/ Restart

Spec == Init /\ [][Next]_vars

\* Every spawned task goes on until it waits for its schedule, and each
\* schedule keeps firing.  The refresh mutex of Tokio is a fair queue, so a
\* task that waits for it gets it.  Failures are finite (MaxFaults).
Fairness ==
    /\ WF_vars(StartupForecast)
    /\ WF_vars(PriceRun)
    /\ WF_vars(FingridRun)
    /\ \A j \in Jobs : WF_vars(Refresh(j)) /\ SF_vars(AcquireRefresh(j))

FairSpec == Spec /\ Fairness

-----------------------------------------------------------------------------
(***************************************************************************)
(* What the cache promises.                                                *)
(***************************************************************************)

\* The result that the cache serves after a refresh that succeeded holds
\* everything that was committed when the refresh was asked for, the writes
\* of the job that asked for it included: a job never ends with its own data
\* missing from the forecast, whatever the other tasks swapped in meanwhile
\* (jobs::recompute_forecast after the stores, ForecastCache::refresh).
RefreshReflectsCommitted ==
    \A j \in Jobs : pc[j] = "refreshed" =>
        /\ cache # NoSnapshot
        /\ \A q \in Queries : cache[q] >= base[j][Source[q]]

\* "A slow older build cannot replace a newer result" (Inner::refresh): from
\* one result to the next no input of the served forecast goes back, and
\* only a restart empties the cache.
CacheNeverRegresses ==
    [][/\ cache' = NoSnapshot => faults' > faults
       /\ cache # NoSnapshot /\ cache' # NoSnapshot
             => \A q \in Queries : cache'[q] >= cache[q]]_cache

\* A request that starts when an FI price is stored is not answered with a
\* window taken from a clock, even when the cache still holds a result from
\* before the first price (http/forecast.rs cached and snapshot).
AnswerStartsAfterPublishedPrices ==
    \A r \in Requests :
        pc[r] = "answered" /\ base[r]["prices"] # 0 => ~WindowFromClock(answer[r])

\* The database when job j asked, as long as its refresh waits or builds.
Asked(j) == IF pc[j] \in {"waiting", "building"} THEN base[j] ELSE NoSnapshot

Promise == INSTANCE ServedForecast WITH
    Callers   <- Jobs,
    Inputs    <- Queries,
    TableOf   <- Source,
    Versions  <- Time,
    Nothing   <- NoSnapshot,
    committed <- db,
    served    <- cache,
    asked     <- [j \in Jobs |-> Asked(j)]

\* The cache implements ServedForecast: a refresh is one publication, however
\* its queries interleave with the writes of the jobs, with the other
\* refreshes and with failures, deadlines and restarts.
KeepsItsPromise == Promise!Spec

\* With a Fingrid key, whatever is committed is served in the end: a run that
\* stored data and then passed its deadline, panicked or failed to recompute
\* is made good by a later run, and no task can leave the refresh mutex held
\* (jobs::fingrid_fetch: "the next run recomputes").
CommittedDataIsServed ==
    \A t \in Tables : \A v \in 1 .. MaxTime :
        db[t] >= v ~> /\ cache # NoSnapshot
                      /\ \A q \in Queries : Source[q] = t => cache[q] >= v

\* generatedAt is "the data freshness" of the served result (Inputs::data_as_of,
\* STACK.md section 9): the issuance that it names is the one that the model
\* read.  The two are separate queries, so the code does not keep this.
GeneratedAtIsOfTheDataRead ==
    cache # NoSnapshot => cache["issuedAt"] <= cache["forecasts"]

=============================================================================
