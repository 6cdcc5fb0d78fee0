------------------------- MODULE FingridCollection --------------------------
(***************************************************************************)
(* The hourly Fingrid run (crates/server/src/jobs/fingrid.rs, fingrid_fetch*)
(* of jobs/mod.rs) and its tables (store/fingrid.rs): the actuals, which   *)
(* are overwritten, and the vintages of the forecasts, which are archived  *)
(* under the hour of the fetch and never change.                           *)
(*                                                                         *)
(* Time is counted in hours; a target is an hour too.  The provider        *)
(* publishes new versions of a dataset; a version gives a value to every   *)
(* target.  A fetch lies inside an hour, so a window that ends at now      *)
(* includes the target of the hour of now.                                 *)
(***************************************************************************)
EXTENDS Upstream, FiniteSets

CONSTANTS
    ActualDatasets,     \* DATASET_WIND_ACTUAL, DATASET_CONSUMPTION_ACTUAL
    ServedForecasts,    \* the forecasts of FORECAST_DATASETS
    ArchivedDatasets,   \* ARCHIVED_DATASETS
    HistoryHours,       \* HISTORY_DAYS
    ForecastHours,      \* FORECAST_DAYS
    BackfillHours,      \* VINTAGE_BACKFILL_HOURS
    ArchiveHours,       \* ARCHIVE_HORIZON_HOURS
    ActualRetention,    \* RETENTION_DAYS
    VintageRetention,   \* VINTAGE_RETENTION_DAYS
    RequestSpacing,     \* REQUEST_SPACING, in seconds
    HourlyDeadline,     \* HOURLY_DEADLINE, in seconds
    MaxHour,            \* bound on the clock
    MaxVersions,        \* bound on the publications of a dataset
    MaxFingridFaults    \* bound on failed statements, deadlines and stops

ASSUME FingridAssumption ==
    /\ \A n \in {HistoryHours, ForecastHours, BackfillHours, ArchiveHours,
                 ActualRetention, VintageRetention, RequestSpacing,
                 HourlyDeadline, MaxHour, MaxVersions, MaxFingridFaults} :
          n \in Nat
    /\ BackfillHours <= HistoryHours
    /\ ActualDatasets \cap (ServedForecasts \cup ArchivedDatasets) = {}
    /\ ServedForecasts \cap ArchivedDatasets = {}

\* The deadline has room for two requests and the spacing between them.
ASSUME FingridDeadlineAssumption ==
    2 * RequestTimeout + RequestSpacing <= HourlyDeadline

ForecastDatasets == ServedForecasts \cup ArchivedDatasets
Datasets == ActualDatasets \cup ForecastDatasets

\* is_forecast_dataset
IsForecast(dataset) == dataset \in ForecastDatasets

VARIABLES
    hour,         \* the hour of the clock
    publishedAt,  \* publishedAt[d]: the hours of the new versions of d, in order
    actuals,      \* fingrid_actuals
    vintages,     \* fingrid_forecasts
    run,          \* the run of fingrid_fetch
    fingridFaults

fingridVars == <<hour, publishedAt, actuals, vintages, run, fingridFaults>>

\* elapsed is the longest time that the run may have waited so far.
Idle == [at |-> "idle", now |-> 0, records |-> {}, elapsed |-> 0, whole |-> FALSE]

Version(d) == Len(publishedAt[d])

\* The version that d had when the hour h began.
VersionAt(d, h) == Cardinality({i \in DOMAIN publishedAt[d] : publishedAt[d][i] < h})

Targets == (0 - HistoryHours) .. (MaxHour + ForecastHours + ArchiveHours)

FingridTypeOK ==
    /\ hour \in 0 .. MaxHour
    /\ \A d \in Datasets : Version(d) <= MaxVersions
    /\ \A r \in actuals : r.dataset \in ActualDatasets /\ r.start \in Targets
    /\ \A r \in vintages :
          IsForecast(r.dataset) /\ r.issued \in 0 .. MaxHour /\ r.start \in Targets
    /\ \A r, q \in actuals :
          r.dataset = q.dataset /\ r.start = q.start => r = q
    /\ run.at \in {"idle", "fetch", "actuals", "pruneActuals", "vintages",
                   "pruneVintages", "archive", "storeArchive"}
    /\ fingridFaults \in 0 .. MaxFingridFaults

FingridInit ==
    /\ hour = 0
    /\ publishedAt = [d \in Datasets |-> <<>>]
    /\ actuals = {}
    /\ vintages = {}
    /\ run = Idle
    /\ fingridFaults = 0

-----------------------------------------------------------------------------
(* The tables.                                                             *)

Key(r) == <<r.dataset, r.issued, r.start>>

\* store_fingrid_records, one transaction of upserts.
Upserted(records) ==
    records \cup {old \in actuals : \A new \in records :
                     <<new.dataset, new.start>> # <<old.dataset, old.start>>}

\* Mutant: the oldest target of the backfill is left out.
AdmittedStrictly(issued, r) == IsForecast(r.dataset) /\ r.start > issued - BackfillHours

\* The two guards of store_fingrid_forecast_vintages: forecasts only, and no
\* target before the backfill; the bound is inclusive.
Admitted(issued, r) == IsForecast(r.dataset) /\ r.start >= issued - BackfillHours

VintagesOf(issued, records) ==
    {[dataset |-> r.dataset, issued |-> issued, start |-> r.start,
      version |-> r.version] : r \in {q \in records : Admitted(issued, q)}}

\* Mutant: the archive overwrites the row of a repeated issuance.
ArchivedAnew(issued, records) ==
    LET rows == VintagesOf(issued, records)
    IN  rows \cup {old \in vintages : \A row \in rows : Key(old) # Key(row)}

\* store_fingrid_forecast_vintages: one transaction of inserts that leave an
\* existing row alone.
Archived(issued, records) ==
    vintages \cup {row \in VintagesOf(issued, records) :
                     \A old \in vintages : Key(old) # Key(row)}

\* prune_fingrid_records_before, prune_fingrid_forecast_vintages_before
ActualsSince(before) == {r \in actuals : r.start >= before}
VintagesSince(before) == {r \in vintages : r.issued >= before}

\* Mutant: any row of the target, without the order by issuance.
LatestUnordered(d, t) == {r \in vintages : r.dataset = d /\ r.start = t}

\* get_fingrid_forecast_vintages_latest: the newest issuance of one target.
Latest(d, t) ==
    LET ofTarget == {r \in vintages : r.dataset = d /\ r.start = t}
    IN  {r \in ofTarget : \A q \in ofTarget : q.issued <= r.issued}

-----------------------------------------------------------------------------
(* The run.                                                                *)

\* What the provider answers for the targets from .. to.  The body is not
\* filtered by dataset; actuals end with the hour of the answer.
Series(datasets, from, to) ==
    UNION {{[dataset |-> d, start |-> t, version |-> Version(d)] :
              t \in {t \in from .. to : IsForecast(d) \/ t <= hour}} :
           d \in datasets}

\* fingrid_fetch: the clock is read once for both requests.
StartFingrid ==
    /\ run.at = "idle"
    /\ run' = [Idle EXCEPT !.at = "fetch", !.now = hour, !.whole = TRUE]
    /\ UNCHANGED <<hour, publishedAt, actuals, vintages, fingridFaults>>

\* Mutant: one request for each of the four datasets.
SeriesWaitEach == 4 * (RequestTimeout + RequestSpacing)

\* fetch_series: one request for the datasets of the served forecast.
SeriesWait == RequestTimeout

\* run_forecast_fetch_job up to its first write.  A degraded answer writes
\* nothing; the archive request follows all the same, after the spacing.
FetchFingridSeries ==
    /\ run.at = "fetch"
    /\ \E outcome \in FingridOutcomes,
          datasets \in {ActualDatasets \cup ServedForecasts, Datasets} :
          IF outcome = "series"
          THEN run' = [run EXCEPT
                 !.at = "actuals", !.elapsed = @ + SeriesWait,
                 !.records = Series(datasets, run.now - HistoryHours,
                                    run.now + ForecastHours)]
          ELSE run' = [run EXCEPT !.at = "archive", !.whole = FALSE,
                                  !.elapsed = @ + SeriesWait + RequestSpacing]
    /\ UNCHANGED <<hour, publishedAt, actuals, vintages, fingridFaults>>

StoreFingridActuals ==
    /\ run.at = "actuals"
    /\ actuals' = Upserted({r \in run.records : ~IsForecast(r.dataset)})
    /\ run' = [run EXCEPT !.at = "pruneActuals"]
    /\ UNCHANGED <<hour, publishedAt, vintages, fingridFaults>>

PruneFingridActuals ==
    /\ run.at = "pruneActuals"
    /\ actuals' = ActualsSince(run.now - ActualRetention)
    /\ run' = [run EXCEPT !.at = "vintages"]
    /\ UNCHANGED <<hour, publishedAt, vintages, fingridFaults>>

\* Mutant: the hour of the write instead of the hour of the fetch.
IssuedAtWrite == hour

\* truncate_to_utc_hour(now)
IssuedAt == run.now

StoreFingridVintages ==
    /\ run.at = "vintages"
    /\ vintages' = Archived(IssuedAt, run.records)
    /\ run' = [run EXCEPT !.at = "pruneVintages"]
    /\ UNCHANGED <<hour, publishedAt, actuals, fingridFaults>>

PruneFingridVintages ==
    /\ run.at = "pruneVintages"
    /\ vintages' = VintagesSince(run.now - VintageRetention)
    /\ run' = [run EXCEPT !.at = "archive", !.records = {},
                          !.elapsed = @ + RequestSpacing]
    /\ UNCHANGED <<hour, publishedAt, actuals, fingridFaults>>

\* run_vintage_archive_job: the same now, another window, no prune.
FetchFingridArchive ==
    /\ run.at = "archive"
    /\ \E outcome \in FingridOutcomes, datasets \in {ArchivedDatasets, Datasets} :
          IF outcome = "series"
          THEN run' = [run EXCEPT
                 !.at = "storeArchive", !.elapsed = 0,
                 !.records = {r \in Series(datasets, IssuedAt - BackfillHours,
                                           run.now + ArchiveHours) :
                                r.dataset \in ArchivedDatasets}]
          ELSE run' = Idle
    /\ UNCHANGED <<hour, publishedAt, actuals, vintages, fingridFaults>>

StoreFingridArchive ==
    /\ run.at = "storeArchive"
    /\ vintages' = Archived(IssuedAt, run.records)
    /\ run' = IF run.whole THEN [Idle EXCEPT !.now = run.now, !.whole = TRUE]
                           ELSE Idle
    /\ UNCHANGED <<hour, publishedAt, actuals, fingridFaults>>

\* A statement fails.  The two statements of the actuals end the first job,
\* those of the vintages only degrade it; the archive request follows both.
FingridStoreFails ==
    /\ fingridFaults < MaxFingridFaults
    /\ run.at \in {"actuals", "pruneActuals", "vintages", "pruneVintages",
                   "storeArchive"}
    /\ run' = IF run.at = "storeArchive" THEN Idle
              ELSE [run EXCEPT !.at = "archive", !.whole = FALSE, !.records = {},
                               !.elapsed = @ + RequestSpacing]
    /\ fingridFaults' = fingridFaults + 1
    /\ UNCHANGED <<hour, publishedAt, actuals, vintages>>

\* The deadline, a panic, a stop signal or a crash drops the run at an await
\* point.  A run after a restart may fall into the same hour.
DropFingridRun ==
    /\ run.at # "idle"
    /\ fingridFaults < MaxFingridFaults
    /\ run' = Idle
    /\ fingridFaults' = fingridFaults + 1
    /\ UNCHANGED <<hour, publishedAt, actuals, vintages>>

\* The provider publishes.  Only versions of forecasts and of actuals differ;
\* nothing is withdrawn.
PublishVersion(d) ==
    /\ Version(d) < MaxVersions
    /\ publishedAt' = [publishedAt EXCEPT ![d] = Append(@, hour)]
    /\ UNCHANGED <<hour, actuals, vintages, run, fingridFaults>>

\* A run is dropped by its deadline long before it could see two full hours.
NextHour ==
    /\ hour < MaxHour
    /\ run.at # "idle" => run.now = hour
    /\ hour' = hour + 1
    /\ UNCHANGED <<publishedAt, actuals, vintages, run, fingridFaults>>

FingridNext ==
    \/ StartFingrid \/ FetchFingridSeries
    \/ StoreFingridActuals \/ PruneFingridActuals
    \/ StoreFingridVintages \/ PruneFingridVintages
    \/ FetchFingridArchive \/ StoreFingridArchive
    \/ FingridStoreFails \/ DropFingridRun
    \/ \E d \in Datasets : PublishVersion(d)
    \/ NextHour

FingridSpec == FingridInit /\ [][FingridNext]_fingridVars

-----------------------------------------------------------------------------

\* A vintage that is archived keeps its value, and leaves the table only when
\* its issuance is older than the retention: a repeated issuance (a restart
\* in the same hour) or a degraded run rewrites and deletes nothing
\* (store_fingrid_forecast_vintages, append-only).
VintagesKept ==
    \A v \in vintages : v \in vintages' \/ v.issued < hour - VintageRetention
VintagesNeverChange == [][VintagesKept]_fingridVars

\* Each vintage is the newest version of the provider at its fetch: published
\* before the hour after the issuance was over, and not replaced before the
\* hour of the issuance began.  A backtest that reads the archive as "known
\* at issued_at" rests on it (jobs/fingrid.rs, run_vintage_archive_job).
VintageIsNewestAtItsFetch ==
    \A v \in vintages :
        /\ v.version >= 1 => publishedAt[v.dataset][v.version] <= v.issued + 1
        /\ v.version < Version(v.dataset) =>
              publishedAt[v.dataset][v.version + 1] >= v.issued

\* The value that the forecast reads for a target never goes back to an older
\* version, whatever fails and however often a run repeats its hour
\* (get_fingrid_forecast_vintages_latest over the append-only archive).
LatestNeverGoesBack ==
    [][\A d \in ForecastDatasets, t \in Targets :
          \A old \in Latest(d, t), new \in Latest(d, t)' :
             old.version <= new.version]_fingridVars

\* A run in which nothing failed leaves, for every target of its windows, the
\* actuals and the newest vintages at least as new as the provider was when
\* the hour of the run began, although the archive keeps the first row of an
\* hour and the two jobs use different windows.
WholeRunServesItsHour ==
    run.at = "idle" /\ run.whole =>
        /\ \A d \in ActualDatasets, t \in (run.now - HistoryHours) .. run.now :
              t >= run.now - ActualRetention =>
                 \E r \in actuals : r.dataset = d /\ r.start = t
                                    /\ r.version >= VersionAt(d, run.now)
        /\ \A d \in ForecastDatasets, t \in Targets :
              /\ t >= run.now - BackfillHours
              /\ t <= run.now + (IF d \in ServedForecasts THEN ForecastHours
                                                          ELSE ArchiveHours)
              => \E r \in Latest(d, t) : r.version >= VersionAt(d, run.now)

\* Two requests that both wait for their full time limit, with the spacing
\* between them, end before the deadline of the hourly job, so a slow
\* provider never costs the archive (HOURLY_DEADLINE against request_timeout).
FingridFitsItsDeadline ==
    run.at = "archive" => run.elapsed + RequestTimeout <= HourlyDeadline

=============================================================================
