# Verification of spot-price

TLA+ models of the service in this repository, TLC configurations that check
them on small instances, and TLAPS proofs of the properties that matter most.
`PROJECT.json` holds the same facts in machine form: for every definition the
source lines it models, for every property a mutant of the code that breaks it,
and for every hazard the property that would catch it.

Contents: 1 the system · 2 the modules · 3 the runs · 4 fairness · 5 the proofs ·
6 what the code does not keep · 7 what is not modelled · 8 what is left.

## 1. The system

spot-price is one Rust process (Axum, Tokio, PostgreSQL through sqlx). It fetches
the Nord Pool day-ahead prices, the Fingrid and the weather series, computes a
price forecast for Finland, and serves prices and forecasts to users who have an
account, contract settings and one API key. Two crates run in production:
`server` (everything with state) and `domain` (pure functions). `tools` is
offline research code, and the UI is a static page.

### 1.1 Components

| Component | Code | State it keeps | Operations |
|---|---|---|---|
| Forecast cache | `server/src/forecast_cache.rs` | `current: RwLock<Option<Snapshot>>`, the `refresh` mutex | `refresh` (lock, read inputs, compute, swap), `build`, `current`, `cached` |
| Forecast route | `http/forecast.rs` | none | settings → cached result, or a build of its own |
| Schedules | `jobs/scheduler.rs` | `last_fire` per loop, `price_lock`, the captured day of the burst | `run_schedule`, ticks of price, burst, Fingrid and weather, `guarded` (deadline and panic) |
| Price job | `jobs/prices.rs`, `store/prices.rs` | `spot_prices` | fetch today, fetch tomorrow, recompute |
| Fingrid job | `jobs/fingrid.rs`, `store/fingrid.rs` | `fingrid_records`, `fingrid_forecasts` (append-only vintages) | fetch, store actuals, prune, store vintages, recompute, archive |
| Weather job | `jobs/weather.rs`, `store/weather.rs` | hourly and daily records, vintages | fetch per point, store, prune |
| Upstream clients | `upstream/*.rs` | none | HTTP with attempts and classification of failures |
| Accounts and sessions | `http/account.rs`, `http/session.rs`, `store/accounts.rs`, `store/sessions.rs` | `user`, `account`, `usernames`, `app_sessions` | `login_or_signup`, `current` with renewal, `sign_out` |
| Settings and API key | `http/me.rs`, `http/account.rs`, `store/user_settings.rs`, `store/api_keys.rs` | `user_settings`, `api_keys` | get, put, key, regenerate |
| Rate limits | `http/rate_limit.rs` | windows by key, at most `MAX_KEYS` | `hit` |
| Password hashing | `auth/password.rs` | a semaphore of two permits | `hash`, `verify` |
| Price routes | `http/price.rs`, `http/api_key.rs` | none | reads of one query each |
| Life cycle | `lifecycle.rs`, `main.rs` | the shutdown token, the task tracker | start, start-up forecast, graceful stop |
| Domain: prices and time | `domain/src/{price,time,settings,areas,query}.rs` | none | cheapest window, day coverage, contract price |
| Domain: forecast | `domain/src/forecast/*.rs` | none | features, regression, conformal bands, entries |
| Tools | `tools/src/*.rs` | none | back-tests |

### 1.2 Interactions

    schedules --(price_lock)--> price job -----> spot_prices ---+
        |                          | recompute                  |
        +--> Fingrid job ----------+--> refresh mutex --> build reads the tables
        |        +--> fingrid tables                            |
        +--> weather job --> weather tables                     v
    start-up task -----------------> refresh            cached snapshot
                                                                |
    request -> rate limit -> session / API key -> settings -> forecast route

The tasks share only the database, the refresh mutex, the price lock and the cached
snapshot. No two statements of a handler or a job share a transaction unless a store
function opens one (`create_account`, `create_session`, `replace_api_key`,
`store_prices`).

### 1.3 What is hard, and what correct means

- **Forecast cache.** Three tasks recompute concurrently with requests; every query
  of a build sees its own moment; any task can be dropped at any await point by
  its deadline. Correct: a slow older build never replaces a newer result, a job
  that recomputed finds its own data in the served result, a request never
  answers with a window from the clock once prices exist, and committed data
  is served in the end whatever failed in between.
- **Price schedules.** Two loops share a job and a lock, a tick that finds the lock
  is lost, sleeps end early, the start-up run overlaps the ticks, the publication
  comes late and in parts. Correct: the lock follows the run exactly, no time
  fires twice, the burst pauses only for the right day, and a published day is
  stored before it begins.
- **Accounts.** A sign-up is six statements with a slow hash in between; renewals,
  sign-outs and purges of one session race. Correct: no session without the
  password of its account, registration closes up to the requests in flight, a
  sign-out is final, an active session lasts.
- **Settings and key.** Read-modify-write without a transaction for the settings; a
  DELETE and an INSERT under READ COMMITTED for the key. Correct: at most one key,
  never none in between, a regeneration revokes, defaults never overwrite.
- **Collectors.** Upstream services fail, drift, answer in parts or hang; a run may repeat
  in the hour of the one before. Correct: the archive keeps what was the newest forecast
  at its issue time and never changes it, delivered blocks are stored whatever fails next
  to them, an outage prunes nothing, no waiting outlasts the deadline of a job.
- **Rate limits, hashing, life cycle.** Clocks are read before locks, windows are
  evicted, requests are dropped while their hash runs, releases migrate under a running
  process, a stop has several limits one after the other. Correct: a bound on what any span
  of time admits, no lost permit, a stop that ends in time and cuts no request before
  its grace, no process on a schema that lacks its migrations.
- **Domain functions.** Days of 23, 24 and 25 hours, gaps in prices and grid data, JavaScript's
  number and date rules, vintages that must not be looked at before their time. Correct:
  an available day is whole, the cheapest window is the cheapest, exactly the valid input
  is accepted, no forecast and no training example uses what was not known, a fallback
  happens only for want of data, and a shipped band covers.

## 2. The modules

### ForecastCache

One task per caller of `refresh` (`startup`, `price`, `fingrid`) and a set of requests.
The contents of a table become a *version*: the instant at which its newest rows
were written. `reads[b][q]` is what query `q` of the build of `b` returned; a finished
build is the snapshot. `Stage` gives the await point of each query in `load_inputs`:
queries of one point run in any order (`tokio::try_join!`), those of a later
point only after them.

| Actions | Code |
|---|---|
| `AcquireRefresh`, `Read`, `SwapIn`, `BuildFailed` | `Inner::refresh`, `load_inputs`, `Snapshot::compute` |
| `StartPriceRun`, `FetchToday`, `FetchTomorrow` | `jobs::price_fetch`, `prices::run_fetch_job` |
| `StartFingridRun`, `FetchSeries`, `PruneActuals`, `StoreVintages`, `ArchiveVintages` | `jobs::fingrid_fetch`, `fingrid::run` |
| `StartupForecast` | `lifecycle::startup_forecast` |
| `Deadline` | `scheduler::guarded`, the start-up deadline |
| `RequestStart` … `RequestEnd` | `http::forecast` |
| `Restart` | the process stops at any point; only `db` survives |

`base` is a history variable: the database as it was when a task called `refresh` or a
request began.

### PriceScheduler

The two price loops as `run_schedule` writes them (compute the next time from
`max(last_fire, now)`, sleep, tick), the two tick closures, the price job and the
publication. A *slot* is the gap between two burst ticks (ten minutes). A run that starts
on a tick ends within its slot because its deadline is shorter; only the start-up run,
which begins anywhere in a slot, may reach into the next. The cron expressions are the
constants `PriceSlots` and `BurstSlots`. Sleeps may end one slot early, which is coarser
than the code's jitter and includes it. `FetchForDate` gives the three outcomes of
`fetch_for_date`; failures of every step are `Fault`s.

### Accounts

A worker is a request in flight; every database statement is a step
(`Lookup`, `SignIn`, `CountUsers`, `EmailExists`, `CreateAccount`, `StartSession`,
`CreateSession`; `UseSession`, `FindSession`, `ExtendSession`; `SignOut`,
`DeleteSession`). A request reads the clock once and keeps that instant, so statements
carry stale instants; `MaxDelay` bounds how stale. A session row also records the
name and the password that opened it, as history. `Fail` ends a request with an error at any
statement; the session of a sign-in may be committed all the same, its answer lost, and then
nobody has its token.

### UserData

The requests of one user. `ReadSettings`, `InsertDefaults` and `RereadSettings` are
`ensure_user_settings`; `Save` is the merge and the upsert of `put_settings`; `ReadKey`,
`BeginReplace`, `DeleteKeys`, `InsertKey`, `CommitReplace` are `current_api_key` and
`replace_api_key`. PostgreSQL is external and modelled by what READ COMMITTED does: a
DELETE works on the snapshot of its statement and waits for a row that another
transaction deletes; an INSERT waits for an uncommitted row under the unique index
`idx_api_keys_single_per_user`, then stores or fails. `Fail` is a failed statement, a
client that went away or a lost reply after the effect.

### ServedForecast

The abstract promise of the cache: jobs ask for a result at a moment of the database, and
one step publishes a result that was read from that moment on, older than nothing that
was published before. `ForecastCache` instantiates it (`Promise`, with `committed <- db`,
`served <- cache`, and `asked` the base of each job that waits or builds) and
`KeepsItsPromise` is its specification: queries, mutex, deadlines and failures of the
detailed module are stutters or one abstract step each. TLC checks it on the instance of
`ForecastRequests.cfg`, and `ForecastCacheProofs` proves it for every instance.

### Upstream, FingridCollection, WeatherCollection, PriceCollection

`Upstream` turns the replies that a request can meet (network errors, statuses, bodies in
chunks, drifted or partial content) into what each client reports. The three job modules
have one action per statement or request of a run, a provider that publishes new versions,
a failure of any store, and `Drop…Run` for a deadline, a panic or a stop. `Fingrid` keeps
actuals (overwritten) and vintages (first row of an hour wins) by target;
`WholeRunServesItsHour`, `VintageIsNewestAtItsFetch` and `LatestNeverGoesBack` relate them to
the provider's history. `Weather` keeps the hourly and the daily rows per point.
`PriceCollection` counts rows as `all_areas_present` does, over market days that begin in
central Europe, with hour and quarter rows and a change of the clock. The seconds that a run
can wait upstream are computed by the `…Wait` operators from the limits of the code.

### RateLimits, PasswordHasher, Lifecycle

`RateLimits`: a slot is a request on its way through the layers of its route; `ReadClock` and
`Check` are two steps because the clock is read before the lock. `hits` saturate at one above
the limit. `admitted` is a history that the code does not keep: the instants at which each key
was let pass, as long as a span of one window can still hold them. `Shown` nests the headers of at most two layers, the most a route has. `PasswordHasher`: permits, their queue in order, hashes of requests that are gone.
`Lifecycle`: `migrate` of a release, `serve` up to the schema check, the bind and the tasks,
`StopSignal`, and the sequence of the stop (`NextStep`) with one step of time for five
seconds. One process serves at a time, and `axum::serve` itself never fails.

### ContractPrices, PriceRoutes

The pure rules of `price.rs`, `time.rs` and `endpoints.rs` as operators over instants, zones
(an offset per instant) and rows; and each handler of the price routes as its steps: settings,
clock, one or two queries, answer, with stores, saves and the clock in between.

### RequestInput

`parse_cheapest_query`, `parse_history_query` and `settings_body` over texts that are reduced
to what their parsers tell apart. `AcceptsExactlyWhatIsValid` compares the answer with a
definition of validity that is written independently of the parsers.

### ForecastSeries, ForecastPipeline, IssuanceExamples, Backtest

The forecast without its numbers: a value is the *set of stored facts it was computed
from*, so a mean or a fit is a union, and "depends on" is membership. `ForecastSeries` has the
fills, `ForecastPipeline` the window, the features, the fits with their fallbacks and
corrections, `IssuanceExamples` the training on earlier issuances. `Backtest` drives them: a
`Build` of the service over the store at a time, `ReplayOrigin` of the backtest over the complete
data, the comparisons `CompareOptimism` and `CompareVariants`. `Miss` takes any published
fact away, so every single gap is tried.

### Bands

`conformal.rs` and `derive_bands_from_backtest` over sets of numbered residuals: percentiles, offsets
per hour with the pooled ones behind them, the gate, the dark artifact, and the band around a
point. The space of the model is that of the fit, where an offset is added.

### MC modules

`MCForecastCache`, `MCPriceScheduler`, `MCAccounts` and `MCUserData` give the cron slots and
the symmetry sets. `MCCollectors`, `MCService` and `MCDomain` each hold several modules that
share no state: the initial state chooses one, and only its steps follow, which
checks each without the product of their states. Operators whose comment begins with
"Mutant:" are not part of a specification: each is a plausible bug in the definition
below it, which the property named in `PROJECT.json` detects.

### Proof modules

A component's theorems stand in a module that extends it: `ForecastCacheProofs` (with the
refinement of `ServedForecast`), `PriceSchedulerProofs`, `AccountsProofs`,
`UserDataProofs`, `FingridProofs` (`FingridCollection`), `CollectorProofs` (the weather and
the price job, and the three jobs as `MCCollectors` composes them), `ServiceProofs` (hash
permits, life cycle and rate limits as `MCService` composes them), `DomainProofs` (forecast,
backtest and bands as `MCDomain` composes them).

## 3. The runs

| Run | What it asks | Bounds |
|---|---|---|
| `ForecastRequests.cfg` | `CacheNeverRegresses`, `AnswerStartsAfterPublishedPrices`, the refinement `KeepsItsPromise` | one request, no Fingrid key, clock 0..2, one failure |
| `ForecastCatchUp.cfg` | `RefreshReflectsCommitted`, `CommittedDataIsServed` (liveness) | clock 0..1, one failure |
| `ForecastFreshness.cfg` | the freshness that the docs promise; violated | clock 0..2, no failure |
| `PriceScheduler.cfg` | lock, double fire, pause, completeness | two areas, two days of six slots, one failure |
| `PriceBurst.cfg` | completeness of a captured day; violated | one day, no failure |
| `Accounts.cfg` | authentication, closing, sign-out, lasting sessions | two requests, three names, two passwords, two sessions, one failure |
| `UserData.cfg` | the key and the default settings, and deadlock freedom | three requests, two fields, three keys, one failure |
| `UserSettings.cfg` | "Only provided fields are changed"; violated | two requests, two fields |
| `Collectors.cfg` | nine properties of the three collecting jobs | two hours and two versions, one dataset of each kind, two points, two areas and dates, one or two failures |
| `Service.cfg` | admission, headers, permits, the stop, the schema | two requests in flight, windows of two and three ticks, one permit, three builds in two releases, two connections |
| `Hashes.cfg` | "at most `MAX_CONCURRENT_HASHES` at a time"; violated | as `Service.cfg` |
| `Domain.cfg` | nine properties of the price routes, the validation, the forecast, the backtest and the bands | see below |

Why the bounds are enough. *Clock 0..1* in the cache gives the two versions "empty" and
"written", which is all that "did it see the write" compares; the monotonicity of the
cache and the refinement need a third, which `ForecastRequests.cfg` has; its price run and
start-up task are two callers that race. One request suffices there because requests never
write what another one reads. In the scheduler a day of six slots has a baseline tick alone, a
burst tick alone and one slot with both, two areas make a partial publication possible, and two
days make a captured day go stale. In `Accounts`, two requests and three names with `MAX_USERS` 1
let the count race the insert; a life time of 3 with renewal after 1 lets a stale renewal meet an
expiry; a symmetric set of names is sound since no definition tells names apart. In `UserData`
three requests are the least with which a lock queue has a waiter behind a waiter.

In the collectors two hours let a run repeat its hour and a next one follow, and a window of
one or two hours has a target that only it reaches; the time limits are the code's, in
seconds. In `Service.cfg` a delay of one tick, half of the shorter window, lets a late request meet the
window after its own, limits of one fill a span with few requests, one key per limiter forces evictions, and the builds `{1}`, `{1, 2}`, `{1, 3}` include a
roll-back and a sibling whose ledger has as many migrations but not the same.

`Domain.cfg` shrinks the calendar and keeps its shape: for the routes a day of three hours
with a zone that loses an hour and one that gains one, three stores of whole days or of parts with a
gap, among them prices of two hours, which cross the midnight of a zone and, once a store
has replaced one of the same start, overlap; for the forecast a day of three hours of
two quarters and a week of two days, with a skipped and a repeated hour; prices each
quarter, neighbours each hour, wind measured off the quarter, vintages twice a day; one gap
(`MaxGaps`) anywhere among the facts that a fill has to bridge, prices on both sides of the
clock changes included; one horizon. Inputs of
the validation are all the boundary values of each field, alone and in pairs. The bands have
two hours, three residual values and up to six residuals, which reach every way the gate
can decide. A behaviour of this run ends when its one computation is done.

`CHECK_DEADLOCK FALSE` stands where a bound or a finished computation ends the behaviour.
`UserData.cfg` checks deadlock, so the row and index locks of the key transaction are shown
never to wait in a circle. The symmetry sets are used in runs without liveness only.

Type invariants: those of `ForecastCache`, `PriceScheduler`, `Accounts`, `UserData` and
`FingridCollection` are proved for every instance (section 5), and the types of the weather run,
the price run, the sign-ins, the life cycle and the requests of the limiters are the first
part of the inductive invariants there, so no run repeats them. The domain modules have theirs
beside their specifications.

## 4. Fairness

Only `ForecastCatchUp.cfg` assumes any; the other runs check safety, and the refinement is
one of safety. `Fairness` asks weak fairness of the start-up task
and of the two jobs: Tokio polls every spawned task that can proceed, and each
schedule keeps firing (`run_schedule` is an endless loop that only the shutdown token
ends). It asks strong fairness of taking the refresh mutex: `tokio::sync::Mutex` hands
the lock to its waiters in order, so a task that keeps waiting gets it although the mutex
is repeatedly taken by others. Nothing is assumed of failures: they may happen at any
step, `MaxFaults` times. Successful steps are not assumed to be fast: a build may
take any number of other tasks' steps.

`CommittedDataIsServed` needs a Fingrid key. Without one, a price run that stored
and then failed to recompute is made good only by the next publication, because a run that
stores nothing does not recompute (`jobs/mod.rs:103`).

## 5. The proofs

Every theorem holds for every value of the constants that satisfies the named assumption of
its module: any requests, areas, slots, datasets, points, limits, failures. Each proof goes to
its last leaf with the SMT solver, Zenon and, for the temporal steps, LS4. Per component there is
an inductive invariant (`IInv` or the like), one lemma per conjunct and step that can disturb it,
and the theorems that follow.

### Forecast cache

`IInv` is the conjunction of

- `TypeOK`;
- `LockInv`: the mutex is held exactly by the job that builds;
- `VersionInv`: no table is newer than the clock, and no vintages are newer than the
  Fingrid run, so a store never makes a table older;
- `PastInv`: nothing read, served or remembered is newer than the database;
- `ReadsInv`: only a build holds inputs;
- `BuildInv`: what a job has read under the mutex is at least what it had to see and at
  least what is served;
- `RefreshReflectsCommitted`.

`RefreshReflectsCommitted` alone is not inductive: it says nothing before the swap. `BuildInv`
carries it through the build; it holds at the first read because of `PastInv` (the
database is at least the cache), and no other swap happens meanwhile because of
`LockInv`. At a swap by another job, a job that is already "refreshed" keeps its
promise since `BuildInv` compares the new result with the cached one. The steps that touch
neither the mutex nor the cache are one lemma (`Outside`, `TaskStepIsOutside`). From `IInv`:

- `TypeCorrect`, `RefreshIsComplete` (`RefreshReflectsCommitted`);
- `CacheIsMonotonic` (`CacheNeverRegresses`, an action property): a swap installs
  `reads[j]`, which `BuildInv` puts above the cache;
- `AnswersFollowPrices` (`AnswerStartsAfterPublishedPrices`), with the further
  `RequestInv`: what a request builds after the first price has read that price;
- `ImplementsPromise` (`KeepsItsPromise`): the initial state maps to
  the abstract one; a task that calls `refresh` is the abstract request; a swap is the abstract
  publication, whose guards are `BuildInv`; every other step is a write of the tables or a stutter.

### Price schedules

`TypeCorrect`, `LockIsExclusive` (`LockHeldByItsRun` is inductive with the types),
`NoDoubleFire` (`NeverFiresTwice`, likewise: the next time comes after
`max(last_fire, now)`), and `PauseIsJustified`, which needs `CapturedInv`: a captured day,
and a day that the active run found available, has stored prices.

`PublishedDaysArrive` (`PublishedDayIsStoredWhenItBegins`) is about all the steps of a day.
Its invariant `NoFaultInv` says that while nothing failed every day published in time
is *coming*: it is stored; or the last baseline tick before it is still ahead (`Ahead`: the loop
sleeps until that tick or an earlier one, or has yet to compute its next time); or a run that
will fetch it is on its way (`Fetching`: the run of that tick, or the burst run that held the
lock when that tick was skipped). `PunctualInv` says where the two loops can be: a sleeping baseline
passes no tick of the cron expression, and the run of the burst belongs to the present day.
`PublishedInv` covers the run that reached its recompute after the publication: it has stored
the day already. The clock cannot pass the last tick while `Ahead` holds, and a run cannot outlast
its slot, so at the day's first slot only "stored" is left (`ComingIsStored`).

### Accounts

`IInv` joins to `TypeOK` and three of the properties

- `RequestInv`: what a request carries at each statement; the account and password it signs in
  with are those of a stored user;
- `TokenInv`: the token of a session that is not stored yet is known to its own request only, so
  nothing renews, ends or replaces that session before it is stored;
- `TimeInv`: the instant that a request read is at most `MaxDelay` ago, and no session was seen
  later than now;
- `UserInv`: ids were given in order of creation;
- `CountInv`: `users` plus the sign-ups between the count and the insert are at most
  `MaxUsers + |Workers| - 1`. `RegistrationCloses` itself is not inductive, because each of those
  sign-ups may still insert; and the count reads fewer than `MaxUsers`, so all requests that
  pass it together overshoot by one less than their number.

Theorems: `TypeCorrect`, `SessionsAuthenticated`, `RegistrationBounded`, `SignOutIsFinal`,
`ActiveSessionIsKept`. The last is the race of a purge or a stale renewal with a newer one; it
uses `TimeInv` and `MaxDelay <= UpdateAge`.

### Settings and key

`DeleteInv` (transactions delete stored rows, no two the same row), `InsertInv` (one transaction
at most has an uncommitted key, and it deletes every stored row), `IssueInv` (a key is made
once, so a fresh key is none of the revoked ones) and `SettingsInv` (a request past
`ensure_user_settings` finds a row). Two replacements can both have passed their DELETE, so "one
key" alone is not inductive; what holds is that the second INSERT waits for the first, and then
fails on a row that its own DELETE missed, or has deleted every stored row. Theorems: `TypeCorrect`,
`OneKeyAtMost`, `KeyIsKept` (action property), `RegenerationRevokes`, `SavedSettingsAreKept`.

### Collecting jobs

`FingridProofs`: `ClockInv` (a run sees the end of one hour at most), `RecordInv` (a reply has
one version of a dataset, the newest of some instant of its hour, `NewestIn`), `VintageInv`
(one row per key, later issuances not older, what a run is to store at least as new as
the issuances before it), `ActualInv`, `WindowInv` (the targets of a reply) and `WholeInv`
(what a run in which nothing failed has stored so far). Theorems: `TypeCorrect`,
`VintagesAreNewest`, `WholeRunServes`, `VintagesStay`, `LatestIsMonotonic`.

`CollectorProofs`: for the weather, `StoredInv` (a delivered block is stored or is that of the point
at hand), `ReachedInv` (a point that the run is past failed or delivered; a run that prunes has
hourly data) and `OneRow`: `BlocksAreStored`, `HistoryOutlivesAnOutage`, `IssuancesStay`. For the
prices, `AnswerInv`: `CompleteDatesHaveTheirDay` (with the arithmetic of `2 * r < MinEntries`: a day
shifted by a change of the clock keeps at most two foreign hours) and `RunsStoreWhatIsOnSale`.
For all three, what a run has waited so far at each step: `WaitingFitsTheDeadlines`. The jobs
share no variable, so `CollectorsRunApart` takes the theorems of each over to the composition,
as in `IssuancesStayPut`.

### Service

`ServiceProofs`: for the hash permits, the queue holds each waiting request once, a
request has one task at most, and free permits plus requests that hash are
`MaxConcurrentHashes`, while tasks are those requests plus the abandoned ones (`PermitInv`):
`NoPermitIsLost`. For the life cycle, `StopTimeInv` (the time used when a phase of the stop began,
and in it), `LeftoverInv` (after a drain shorter than its grace no request is left) and
`SchemaInv`: `StopIsBounded`, `SchemaIsServed`. For the limiters, `RequestInv` (each
request in flight is at a `Stage` with the decisions of the limiters that let it pass):
`LimiterIsShown`.

`SpansAreBounded` (`SpanAdmitsAtMost`) is about windows that the state no longer holds when a
span ends. Its invariant `SpanIInv` adds to the requests' stages `DelayInv` (the instant a layer
has read is at most `MaxDelay` ago) and `AdmittedInv`, which counts backwards from the end of the
present window of a key, or from now when it has none: with `w = Length - MaxDelay`, the
admissions after `end - w` are hits of that window; those after `end - 2 * w` are at most `Limit`
more; and all of the span are at most one `Limit` more again (none, without delays). Two windows that
follow one another end at least `w` apart, because the second begins at an instant that is at most
`MaxDelay` old; so a new window shifts the count by one `Limit` and what falls out is older than the span.
This takes `2 * MaxDelay <= Length`. With windows of one tick and delays of one tick the bound is
false once enough requests are late, because windows that follow one another may end at the same
instant. The run, whose clock stops after two ticks, meets few windows in a span and leaves the
long sequences to the theorem.

### Forecast, backtest and bands

`DomainProofs` is about one computation at a time: `Outcome` lists what the one run of a behaviour can
be, and `OneRun` shows that none follows it. So each theorem is a lemma about the
operators, for any facts, any missing ones, lengths, zone and options, and one step.

*Dependence.* `DependsOn(map, K)` says that each value of a quarter map was computed from facts in
`K`. It is carried through the pipeline, one lemma per stage: buckets, expansion, extension, fill,
features, training rows, fit, shape, correction, clamp (`GridWithin`, `FeaturesWithin`,
`TrainingWithin`, `ShapeWithin`, `CorrectionWithin`, `ForecastWithin`); `ForecastIsWhole` adds that each quarter of the
window has a prediction of its own.

*Publication.* `HorizonOfPublication` is the arithmetic of the delivery days: a price starts before
`PublicationHorizon(t)` exactly when it was published by `t`, over clock changes. With
`Known(t)`, the facts known at `t`, `InputKnown` says when an input holds only those, and
`SeriesStartKnown`, `IssuanceStartKnown` and `IssuanceKnown` that the window of an origin, and of
an earlier issuance in it, is such.

- `NothingFromTheFuture` (`NoLookAhead`): both together, for the forecast of an origin
  and each training and correction example at its own issuance.
- `GuardIsExact` (`GuardFindsEveryLeak`): the guard compares a price with the series start,
  which is not the issue time; the two agree by `SeriesStartKnown`.
- `ReplayIsFaithful` (`ReplayReadsWhatTheRouteRead`): the store of an issue time is the part of the
  data that the reconstruction selects (`StoredFacts`), hence the same window and the same input.
- `ArmsArePaired` (`ArmsScoreTheSameTargets`): the targets of an origin depend on prices alone
  (`ScoreOfTargets`), and an origin with grid data at its issue time has some in any
  mode (`GridDataInAnyMode`), so the second arm keeps the origins of the first.
- `FallbacksAreNeeded` (`FallsBackOnlyWithoutData`): the window reads all that a fill of one of its
  quarters can use (`WindowLengths`, `RecordsRead`), the fill reaches it (`FillReaches`, `GridReaches`),
  and the instant that the shape takes in a repeated hour is the one with the offset of the quarter
  (`SourceOfShape`) and lies in the window (`ShapeOfBuild`). The two compile-time
  assertions of `pipeline.rs` (lines 95-104) on the lengths are what the proof needs.
- `BandsKeepTheirPromise` (`ShippedBandsCover`), with `BandsInv`: residuals and scored days are
  finite and of their types, and the shipped artifact covers. The gate measures with offsets, `apply_band`
  clamps them around the point; `OffsetsStraddle` and `BandOfOffsets` show that the two agree, and
  `EveryHourHasOffsets` that none of the residuals escapes the gate's count.

While proving, the property `FallsBackOnlyWithoutData` turned out to be too strong in the repeated hour:
two instants have the same local time, and the code reads the one with the offset of the
quarter only. It states this now, and a gap on either side of the repeated hour is part of the run.

### Assumptions on the constants

They are the `ASSUME`s beside the constants; TLC evaluates each in a run. Those that are more than
types:

| Assumption | Why the code justifies it |
|---|---|
| `MaxDelay <= UpdateAge < Lifetime` | a session is renewed after 24 hours (`session.rs:25`); a request takes at most some statements of 30 seconds (`db.rs:37`) |
| `2 * MaxDelay <= Length[l]` | the windows last 60 seconds and 15 minutes (`rate_limit.rs:162-174`); the lock is held for one operation on a map |
| the last slot of `PriceSlots` is not the first of a day | the baseline cron is `0 */2 * * *` (`scheduler.rs:30`): its last tick of a day is 22:00 |
| `BackfillHours <= HistoryHours` | 6 hours (`store/fingrid.rs:43`) against 31 days (`jobs/fingrid.rs:33`) |
| `2 * RequestTimeout + RequestSpacing <= HourlyDeadline` | the two Fingrid requests and the pause between them, against the deadline of the hourly jobs |
| `Len(Points) * RequestTimeout <= WeatherDeadline` | one weather request per point |
| `2 * (MaxAttempts * RequestTimeout + (MaxAttempts - 1) * RetryDelay) <= PriceDeadline` | two dates with all their attempts |
| `2 * r < MinEntries` | at most 4 rows an hour against `MIN_ENTRIES_PER_AREA`, 23 (`prices.rs:16`) |
| `ShutdownGrace + 2 * StopTimeout + RuntimeShutdown < DrainingSeconds` | stated in `lifecycle.rs:21-22` |
| `MarketZone`: offsets within a day of each other, no change over a midnight, a local time at most twice | the zone is `Europe/Oslo` (`forecast/route.rs:19`), which changes by an hour, at 02:00 or 03:00 |
| `PublicationHour * Hour + MarketZone[t] <= Day` | 12:00 UTC (`issuance.rs:32`), and offsets of one and two hours: published before the delivery day begins |
| `DaysOfWeek * ServedShapeWeeks < FloorHistoryDays`, `DaysOfWeek * GapFillLookbackWeeks <= FloorHistoryDays` | asserted when `pipeline.rs` is compiled (lines 95-104) |
| a price and a vintage start on a quarter | what Nord Pool and Fingrid publish: quarters or hours. For vintages it matters only to `FallbacksAreNeeded` and a store without an FI price, whose window starts at the clock |
| no neighbour is named like a Fingrid series; `MarketZone` reaches to the end of the last window | areas and dataset numbers are columns of different tables |
| `NominalPercent <= 100`, finitely many whole errors | `conformal.rs`; an order of the residuals is all that a percentile uses |

The others say that a marker (`None`, `Free`, `NoSnapshot`) is no value, that kinds of datasets are
disjoint, and that the requests or sessions that are counted are finitely many.

### Only model-checked

- `CommittedDataIsServed`: liveness under fairness is out of the prover's reach.
- `TomorrowIsWhole`, `CheapestIsCheapest`: `covers_range` and `find_cheapest_window` are
  folds over a sorted sequence, so what they compute is shown by induction over the rows.
- `AcceptsExactlyWhatIsValid`: the calendar of the parser is a fold over months and days as well.

The installed provers cannot do an induction over data, and the values of a recursive function
are out of their reach. The minimum of a finite set of integers, which the forecast uses everywhere, is not:
`Ends` derives it from the well-foundedness of the naturals.

## 6. What the code does not keep

Four statements of the documentation are contradicted by the code. Each has a run
that ends in a counterexample:

- `ForecastFreshness.cfg`: `generatedAt` can be newer than the data of the forecast,
  because the newest `issued_at` is a query of its own after the vintages were read
  (`forecast_cache.rs:167`; `STACK.md:477`, `README.md:84`).
- `PriceBurst.cfg`: the burst pauses when any price of tomorrow was stored, not when
  tomorrow is complete (`scheduler.rs:184`, `prices.rs:108`; `STACK.md:452`). The
  baseline schedule still completes the day (`PublishedDayIsStoredWhenItBegins`).
- `UserSettings.cfg`: two saves at once can undo each other's fields
  (`me.rs:118`; `me.rs:59`, `me.rs:53`).
- `Hashes.cfg`: the permit of a request whose client goes away is free while its hash still
  runs, so more than `MAX_CONCURRENT_HASHES` run (`password.rs:130`; `password.rs:22`, `:89`).
  What does hold is `OnlyAbandonedHashesExceed`.

Seen while modelling, without a run of their own:

- A failed store ends the weather run and with it the other points, while the head of
  `weather.rs` (lines 3-5) speaks of each point on its own. An hourly block that is valid and empty
  counts as success and lets the prune run.
- The issues of `parse_history_query` are not always in field order (`query.rs:4-5`): the checks
  of order and span come last.
- A history date with a year below 100 is taken as one of the 1900s by `Date.UTC`, so the years
  0000-0099 have a span of their own; `AcceptsExactlyWhatIsValid` leaves them out.
- The backtest excludes the vintages of the very hour of its origin, which the service may
  read; `ReplayReadsWhatTheRouteRead` states this difference.
- The coverage that `build_artifact` compares with its gate is measured on the residuals that
  the offsets were taken from. They are out of sample for the regression only; with as many
  samples in every hour the percentiles meet the gate by construction, so only thin hours can
  fail it.
- `store_prices` replaces rows by their start alone (`store/prices.rs:38`), and `covers_range` accepts
  periods that overlap (`time.rs:191`, its test at `:515`). So a day that is called available
  may list more than one price at an instant; `TomorrowIsWhole` says at least one, which
  is what the comments promise.
- Two first gets of the key at once: the second deletes the key that the first was told
  (`account.rs:388`).

## 7. What is not modelled, and why

- The numbers of the forecast: regression weights, the columns of `features.rs`, holidays, rounding.
  Floating point is out of TLC's reach; which facts a number depends on is modelled.
- `evaluation.rs`, `eval_cli.rs`, `revision*.rs`, `metrics.rs`, `criteria.rs`, `profile.rs`,
  `schedule.rs`, `bootstrap.rs`, the command lines and `data.rs` of the tools: statistics, sampling
  and printing over the summaries that `Backtest` computes. Of `backtest.rs` itself the rank metrics, so
  the paired deltas are those of the mean error; the naive baselines that a forecast is compared with
  (`baseline_for`, `last_published_day_key`); and the ladder diagnostic.
- Wire formats, OpenAPI, the UI, logging, configuration: no state after the start. `areas.rs`
  and `endpoints.rs` are tables of constants.
- The password hash and the random generator: a password stands for its hash, tokens and
  keys are fresh values.
- The cron calendar: expressions are sets of slots.
- PostgreSQL and Tokio: external, modelled by the guarantees that the code uses. The connection
  options and the error classes of `db.rs` decide only the text of an answer.

## 8. What is left

The modelling plan is complete up to the parts of section 7, and every property of the passing runs is
proved for all values of the constants but four: the liveness of `CommittedDataIsServed`, and
`TomorrowIsWhole`, `CheapestIsCheapest` and `AcceptsExactlyWhatIsValid`, which need an induction over
sequences that the installed provers lack. These stay with TLC at the bounds of section 3.

Run a check with `tlc -workers 2 -config ForecastCatchUp.cfg MCForecastCache`, and a proof with
`tlapm ForecastCacheProofs.tla`.
