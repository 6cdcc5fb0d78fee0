---------------------------- MODULE FingridProofs -----------------------------
(***************************************************************************)
(* Proofs about FingridCollection for any datasets, windows, retentions,   *)
(* and any bound on the hours, the publications and the faults.            *)
(***************************************************************************)
EXTENDS FingridCollection, FiniteSetTheorems, TLAPS

(***************************************************************************)
(* The inductive invariant.                                                *)
(***************************************************************************)

RunSteps == {"idle", "fetch", "actuals", "pruneActuals", "vintages",
             "pruneVintages", "archive", "storeArchive"}

Record == [dataset : Datasets, start : Targets, version : Nat]

Vintage == [dataset : ForecastDatasets, issued : 0 .. MaxHour, start : Targets,
            version : Nat]

\* The types that the steps need; they imply FingridTypeOK together with the
\* bound on the versions.
StateInv ==
    /\ hour \in 0 .. MaxHour
    /\ publishedAt \in [Datasets -> Seq(Nat)]
    /\ \A d \in Datasets : Version(d) <= MaxVersions
    /\ actuals \subseteq Record
    /\ \A r \in actuals : r.dataset \in ActualDatasets
    /\ vintages \subseteq Vintage
    /\ run \in [at : RunSteps, now : 0 .. MaxHour, records : SUBSET Record,
                elapsed : Nat, whole : BOOLEAN]
    /\ fingridFaults \in 0 .. MaxFingridFaults

\* A run sees the end of one hour at most, and versions are published in order.
ClockInv ==
    /\ run.at # "idle" => hour \in {run.now, run.now + 1}
    /\ run.now <= hour
    /\ \A d \in Datasets : \A i \in 1 .. Version(d) :
          /\ publishedAt[d][i] <= hour
          /\ \A j \in i .. Version(d) : publishedAt[d][i] <= publishedAt[d][j]

\* The version n of d was the newest at some instant of the hour h.
NewestIn(d, n, h) ==
    /\ n \in 0 .. Version(d)
    /\ n >= 1 => publishedAt[d][n] <= h + 1
    /\ n < Version(d) => publishedAt[d][n + 1] >= h

\* A reply carries one version of a dataset, the newest of its hour.
RecordInv ==
    /\ run.at \in {"idle", "fetch", "archive"} => run.records = {}
    /\ run.at = "storeArchive" => \A r \in run.records : r.dataset \in ArchivedDatasets
    /\ \A r \in run.records : NewestIn(r.dataset, r.version, run.now)
    /\ \A r, q \in run.records : r.dataset = q.dataset => r.version = q.version

\* An issuance has one row of a target; a later issuance is not older; and what
\* a run is about to store is at least as new as the issuances before it.
VintageInv ==
    /\ \A v \in vintages : NewestIn(v.dataset, v.version, v.issued)
    /\ \A v, q \in vintages : Key(v) = Key(q) => v = q
    /\ \A v, q \in vintages :
          v.dataset = q.dataset /\ v.issued < q.issued => v.version <= q.version
    /\ \A v \in vintages :
          /\ v.issued <= hour
          /\ run.at # "idle" \/ run.whole => v.issued <= run.now
    /\ \A v \in vintages, r \in run.records :
          v.dataset = r.dataset /\ v.issued < run.now => v.version <= r.version

ActualInv ==
    \A r, q \in actuals : r.dataset = q.dataset /\ r.start = q.start => r = q

\* The reply of a run has every target of its window.
WindowInv ==
    /\ run.at = "actuals" =>
          \A d \in ActualDatasets, t \in (run.now - HistoryHours) .. run.now :
             \E r \in run.records : r.dataset = d /\ r.start = t
    /\ run.at \in {"actuals", "pruneActuals", "vintages"} =>
          \A d \in ServedForecasts, t \in (run.now - HistoryHours) .. (run.now + ForecastHours) :
             \E r \in run.records : r.dataset = d /\ r.start = t
    /\ run.at = "storeArchive" =>
          \A d \in ArchivedDatasets, t \in (run.now - BackfillHours) .. (run.now + ArchiveHours) :
             \E r \in run.records : r.dataset = d /\ r.start = t

\* The row of the target t that was archived in the hour of the run.
ArchivedNow(d, t) ==
    \E v \in vintages : v.dataset = d /\ v.start = t /\ v.issued = run.now

\* What a run in which nothing failed has stored when it is past its writes.
WholeInv ==
    /\ run.whole /\ run.at \in {"pruneActuals", "vintages", "pruneVintages", "archive",
                               "storeArchive", "idle"} =>
          \A d \in ActualDatasets, t \in (run.now - HistoryHours) .. run.now :
             t >= run.now - ActualRetention =>
                \E r \in actuals : r.dataset = d /\ r.start = t
                                  /\ NewestIn(d, r.version, run.now)
    /\ run.whole /\ run.at \in {"pruneVintages", "archive", "storeArchive", "idle"} =>
          \A d \in ServedForecasts, t \in (run.now - BackfillHours) .. (run.now + ForecastHours) :
             ArchivedNow(d, t)
    /\ run.whole /\ run.at = "idle" =>
          \A d \in ArchivedDatasets, t \in (run.now - BackfillHours) .. (run.now + ArchiveHours) :
             ArchivedNow(d, t)

IInv ==
    /\ StateInv /\ ClockInv /\ RecordInv /\ VintageInv /\ ActualInv
    /\ WindowInv /\ WholeInv

-----------------------------------------------------------------------------

\* The parameters are natural numbers.
LEMMA Constants ==
    /\ HistoryHours \in Nat /\ ForecastHours \in Nat /\ BackfillHours \in Nat
    /\ ArchiveHours \in Nat /\ ActualRetention \in Nat /\ VintageRetention \in Nat
    /\ RequestSpacing \in Nat /\ HourlyDeadline \in Nat /\ MaxHour \in Nat
    /\ MaxVersions \in Nat /\ MaxFingridFaults \in Nat /\ RequestTimeout \in Nat
    /\ BackfillHours <= HistoryHours
BY FingridAssumption, UpstreamAssumption

\* The three kinds of datasets are apart.
LEMMA Kinds ==
    /\ \A d \in ActualDatasets : d \in Datasets /\ ~IsForecast(d)
    /\ \A d \in ServedForecasts : d \in Datasets /\ IsForecast(d) /\ d \notin ArchivedDatasets
    /\ \A d \in ArchivedDatasets : d \in Datasets /\ IsForecast(d) /\ d \notin ServedForecasts
    /\ \A d \in Datasets : IsForecast(d) => d \in ForecastDatasets
    /\ \A d \in Datasets : ~IsForecast(d) => d \in ActualDatasets
BY FingridAssumption DEF Datasets, ForecastDatasets, IsForecast

\* The run that waits for the next hour.
LEMMA IdleFields ==
    /\ Idle.at = "idle" /\ Idle.now = 0 /\ Idle.records = {} /\ Idle.whole = FALSE
    /\ Idle.elapsed = 0
BY DEF Idle

RunType == [at : RunSteps, now : 0 .. MaxHour, records : SUBSET Record,
            elapsed : Nat, whole : BOOLEAN]

\* An idle job is a run of its type.
LEMMA IdleType == Idle \in RunType
BY Constants DEF Idle, RunType, RunSteps

\* Every version of a reply is the newest one, and every target lies in its
\* window.
LEMMA SeriesType ==
    ASSUME StateInv, NEW datasets \in SUBSET Datasets, NEW from \in Int, NEW to \in Int,
           \A t \in from .. to : t \in Targets
    PROVE  /\ Series(datasets, from, to) \subseteq Record
           /\ \A r \in Series(datasets, from, to) :
                 r.dataset \in datasets /\ r.version = Version(r.dataset)
           /\ \A d \in datasets, t \in from .. to :
                 IsForecast(d) \/ t <= hour =>
                    \E r \in Series(datasets, from, to) : r.dataset = d /\ r.start = t
<1>1. \A d \in datasets : Version(d) \in Nat
  BY DEF StateInv, Version
<1>2. ASSUME NEW r \in Series(datasets, from, to)
      PROVE  r \in Record /\ r.dataset \in datasets /\ r.version = Version(r.dataset)
  <2>1. PICK d \in datasets, t \in from .. to :
          r = [dataset |-> d, start |-> t, version |-> Version(d)]
    BY DEF Series
  <2> QED
    BY <1>1, <2>1 DEF Record
<1>3. ASSUME NEW d \in datasets, NEW t \in from .. to, IsForecast(d) \/ t <= hour
      PROVE  \E r \in Series(datasets, from, to) : r.dataset = d /\ r.start = t
  <2>1. [dataset |-> d, start |-> t, version |-> Version(d)] \in Series(datasets, from, to)
    BY <1>3 DEF Series
  <2> QED
    BY <2>1
<1> QED
  BY <1>2, <1>3

\* The windows of the two requests lie in the targets.
LEMMA Windows ==
    ASSUME NEW n \in 0 .. MaxHour
    PROVE  /\ \A t \in (n - HistoryHours) .. (n + ForecastHours) : t \in Targets
           /\ \A t \in (n - BackfillHours) .. (n + ArchiveHours) : t \in Targets
BY Constants DEF Targets

\* A reply has the value of the row v.
From(v, records) ==
    \E r \in records :
       r.dataset = v.dataset /\ r.start = v.start /\ r.version = v.version

\* The rows that an archive adds.
LEMMA ArchivedType ==
    ASSUME StateInv, NEW records \in SUBSET Record, NEW issued \in 0 .. MaxHour
    PROVE  /\ Archived(issued, records) \subseteq Vintage
           /\ vintages \subseteq Archived(issued, records)
           /\ \A v \in Archived(issued, records) \ vintages :
                 /\ v.issued = issued
                 /\ \A old \in vintages : Key(old) # Key(v)
                 /\ From(v, records)
           /\ \A r \in records : Admitted(issued, r) =>
                 \E v \in Archived(issued, records) :
                    v.dataset = r.dataset /\ v.start = r.start /\ v.issued = issued
<1>1. ASSUME NEW v \in VintagesOf(issued, records)
      PROVE  /\ v \in Vintage /\ v.issued = issued
             /\ From(v, records)
  <2>1. PICK r \in records : /\ Admitted(issued, r)
                             /\ v = [dataset |-> r.dataset, issued |-> issued,
                                     start |-> r.start, version |-> r.version]
    BY DEF VintagesOf
  <2>2. r.dataset \in ForecastDatasets /\ r.start \in Targets /\ r.version \in Nat
    BY <2>1 DEF Record, Admitted, IsForecast
  <2> QED
    BY <2>1, <2>2 DEF Vintage, From
<1>2. Archived(issued, records) \subseteq Vintage
  BY <1>1 DEF Archived, StateInv
<1>3. \A v \in Archived(issued, records) \ vintages :
         v \in VintagesOf(issued, records) /\ \A old \in vintages : Key(old) # Key(v)
  BY DEF Archived
<1>4. ASSUME NEW r \in records, Admitted(issued, r)
      PROVE  \E v \in Archived(issued, records) :
                v.dataset = r.dataset /\ v.start = r.start /\ v.issued = issued
  <2> DEFINE row == [dataset |-> r.dataset, issued |-> issued,
                     start |-> r.start, version |-> r.version]
  <2>1. row \in VintagesOf(issued, records)
    BY <1>4 DEF VintagesOf
  <2>2. row.dataset = r.dataset /\ row.start = r.start /\ row.issued = issued
    OBVIOUS
  <2>3. CASE \A old \in vintages : Key(old) # Key(row)
    BY <2>1, <2>2, <2>3 DEF Archived
  <2>4. CASE \E old \in vintages : Key(old) = Key(row)
    <3>1. PICK old \in vintages : Key(old) = Key(row)
      BY <2>4
    <3>2. old.dataset = row.dataset /\ old.start = row.start /\ old.issued = row.issued
      BY <3>1 DEF Key
    <3>3. old \in Archived(issued, records)
      BY DEF Archived
    <3> QED
      BY <2>2, <3>2, <3>3
  <2> QED
    BY <2>3, <2>4
<1> QED
  BY <1>1, <1>2, <1>3, <1>4 DEF Archived

\* The rows that an upsert leaves.
LEMMA UpsertedRows ==
    ASSUME NEW records
    PROVE  /\ records \subseteq Upserted(records)
           /\ \A r \in Upserted(records) : r \in records \/ r \in actuals
           /\ \A r \in Upserted(records) \ records, q \in records :
                 ~(r.dataset = q.dataset /\ r.start = q.start)
BY DEF Upserted

\* The instants of an appended version.
LEMMA PublishedSteps ==
    ASSUME StateInv, NEW d \in Datasets, PublishVersion(d)
    PROVE  /\ publishedAt' \in [Datasets -> Seq(Nat)]
           /\ Version(d)' = Version(d) + 1 /\ publishedAt'[d][Version(d) + 1] = hour
           /\ \A i \in 1 .. Version(d) : publishedAt'[d][i] = publishedAt[d][i]
           /\ \A e \in Datasets \ {d} : publishedAt'[e] = publishedAt[e]
<1>1. hour \in Nat /\ publishedAt[d] \in Seq(Nat)
  BY Constants DEF StateInv
<1>2. publishedAt' = [publishedAt EXCEPT ![d] = Append(publishedAt[d], hour)]
  BY DEF PublishVersion
<1>3. publishedAt'[d] = Append(publishedAt[d], hour)
  BY <1>2 DEF StateInv
<1>4. \A e \in Datasets \ {d} : publishedAt'[e] = publishedAt[e]
  BY <1>2 DEF StateInv
<1>5. Append(publishedAt[d], hour) \in Seq(Nat)
  BY <1>1
<1>6. publishedAt' \in [Datasets -> Seq(Nat)]
  BY <1>2, <1>5 DEF StateInv
<1> QED
  BY <1>1, <1>3, <1>4, <1>6 DEF Version

-----------------------------------------------------------------------------

\* What the two requests bring.
LEMMA FetchSeriesRun ==
    ASSUME StateInv, FetchFingridSeries
    PROVE  /\ run' \in RunType /\ run'.now = run.now
           /\ \/ /\ run'.at = "archive" /\ run'.records = run.records /\ run'.whole = FALSE
              \/ /\ run'.at = "actuals" /\ run'.whole = run.whole
                 /\ \A r \in run'.records : r.version = Version(r.dataset)
                 /\ \A d \in ActualDatasets, t \in (run.now - HistoryHours) .. run.now :
                       t <= hour => \E r \in run'.records : r.dataset = d /\ r.start = t
                 /\ \A d \in ServedForecasts,
                       t \in (run.now - HistoryHours) .. (run.now + ForecastHours) :
                          \E r \in run'.records : r.dataset = d /\ r.start = t
<1> USE Constants
<1>1. run \in RunType /\ run.now \in 0 .. MaxHour /\ run.now \in Int
  BY DEF StateInv, RunType
<1>2. PICK outcome \in FingridOutcomes,
           datasets \in {ActualDatasets \cup ServedForecasts, Datasets} :
          IF outcome = "series"
          THEN run' = [run EXCEPT
                 !.at = "actuals", !.elapsed = @ + SeriesWait,
                 !.records = Series(datasets, run.now - HistoryHours,
                                    run.now + ForecastHours)]
          ELSE run' = [run EXCEPT !.at = "archive", !.whole = FALSE,
                                  !.elapsed = @ + SeriesWait + RequestSpacing]
  BY DEF FetchFingridSeries
<1>3. SeriesWait \in Nat
  BY DEF SeriesWait
<1>4. CASE outcome # "series"
  <2>1. run.elapsed + SeriesWait + RequestSpacing \in Nat
    BY <1>1, <1>3 DEF RunType
  <2> QED
    BY <1>1, <1>2, <1>4, <2>1 DEF RunType, RunSteps
<1>5. CASE outcome = "series"
  <2> DEFINE from == run.now - HistoryHours
             to == run.now + ForecastHours
             records == Series(datasets, from, to)
  <2>1. datasets \in SUBSET Datasets /\ ActualDatasets \subseteq datasets
        /\ ServedForecasts \subseteq datasets
    BY DEF Datasets, ForecastDatasets
  <2>2. from \in Int /\ to \in Int /\ \A t \in from .. to : t \in Targets
    <3>1. from \in Int /\ to \in Int
      BY <1>1
    <3>2. \A t \in from .. to : t \in Targets
      BY ONLY <1>1, Windows
    <3> QED
      BY <3>1, <3>2
  <2> HIDE DEF from, to
  <2>3. /\ records \subseteq Record
        /\ \A r \in records : r.version = Version(r.dataset)
        /\ \A d \in datasets, t \in from .. to :
              IsForecast(d) \/ t <= hour => \E r \in records : r.dataset = d /\ r.start = t
    BY <2>1, <2>2, SeriesType
  <2>4. run' = [run EXCEPT !.at = "actuals", !.elapsed = @ + SeriesWait,
                           !.records = records]
    BY <1>2, <1>5 DEF from, to
  <2> HIDE DEF records
  <2>5. /\ run' \in RunType /\ run'.now = run.now /\ run'.at = "actuals"
        /\ run'.whole = run.whole /\ run'.records = records
    <3>1. run.elapsed + SeriesWait \in Nat /\ records \in SUBSET Record
      BY <1>1, <1>3, <2>3 DEF RunType
    <3> QED
      BY <1>1, <2>4, <3>1 DEF RunType, RunSteps
  <2>6. \A d \in ActualDatasets, t \in (run.now - HistoryHours) .. run.now :
           t <= hour => \E r \in run'.records : r.dataset = d /\ r.start = t
    BY <1>1, <2>1, <2>3, <2>5 DEF from, to
  <2>7. \A d \in ServedForecasts, t \in (run.now - HistoryHours) .. (run.now + ForecastHours) :
           \E r \in run'.records : r.dataset = d /\ r.start = t
    BY <2>1, <2>3, <2>5, Kinds DEF from, to
  <2> QED
    BY <2>3, <2>5, <2>6, <2>7
<1> QED
  BY <1>4, <1>5

\* The archive fetch ends the run, or brings every hour of its window.
LEMMA FetchArchiveRun ==
    ASSUME StateInv, FetchFingridArchive
    PROVE  /\ run' \in RunType
           /\ \/ run' = Idle
              \/ /\ run'.at = "storeArchive" /\ run'.now = run.now /\ run'.whole = run.whole
                 /\ \A r \in run'.records :
                       r.version = Version(r.dataset) /\ r.dataset \in ArchivedDatasets
                 /\ \A d \in ArchivedDatasets,
                       t \in (run.now - BackfillHours) .. (run.now + ArchiveHours) :
                          \E r \in run'.records : r.dataset = d /\ r.start = t
<1> USE Constants
<1>1. run \in RunType /\ run.now \in 0 .. MaxHour /\ run.now \in Int
  BY DEF StateInv, RunType
<1>2. PICK outcome \in FingridOutcomes, datasets \in {ArchivedDatasets, Datasets} :
          IF outcome = "series"
          THEN run' = [run EXCEPT
                 !.at = "storeArchive", !.elapsed = 0,
                 !.records = {r \in Series(datasets, IssuedAt - BackfillHours,
                                           run.now + ArchiveHours) :
                                r.dataset \in ArchivedDatasets}]
          ELSE run' = Idle
  BY DEF FetchFingridArchive
<1>3. CASE outcome # "series"
  BY <1>2, <1>3, IdleType
<1>4. CASE outcome = "series"
  <2> DEFINE from == run.now - BackfillHours
             to == run.now + ArchiveHours
             reply == Series(datasets, from, to)
             records == {r \in reply : r.dataset \in ArchivedDatasets}
  <2>1. datasets \in SUBSET Datasets /\ ArchivedDatasets \subseteq datasets
    BY DEF Datasets, ForecastDatasets
  <2>2. from \in Int /\ to \in Int /\ \A t \in from .. to : t \in Targets
    <3>1. from \in Int /\ to \in Int
      BY <1>1
    <3>2. \A t \in from .. to : t \in Targets
      BY ONLY <1>1, Windows
    <3> QED
      BY <3>1, <3>2
  <2> HIDE DEF from, to
  <2>3. /\ reply \subseteq Record
        /\ \A r \in reply : r.version = Version(r.dataset)
        /\ \A d \in datasets, t \in from .. to :
              IsForecast(d) \/ t <= hour => \E r \in reply : r.dataset = d /\ r.start = t
    BY <2>1, <2>2, SeriesType
  <2>4. run' = [run EXCEPT !.at = "storeArchive", !.elapsed = 0, !.records = records]
    BY <1>2, <1>4 DEF from, to, IssuedAt
  <2> HIDE DEF reply
  <2>5. records \subseteq Record
    BY <2>3
  <2>6. \A d \in ArchivedDatasets, t \in from .. to :
           \E r \in records : r.dataset = d /\ r.start = t
    BY <2>1, <2>3, Kinds
  <2>7. \A r \in records : r.version = Version(r.dataset) /\ r.dataset \in ArchivedDatasets
    BY <2>3
  <2> HIDE DEF records
  <2>8. /\ run' \in RunType /\ run'.now = run.now /\ run'.at = "storeArchive"
        /\ run'.whole = run.whole /\ run'.records = records
    BY <1>1, <2>4, <2>5 DEF RunType, RunSteps
  <2> QED
    BY <2>6, <2>7, <2>8 DEF from, to
<1> QED
  BY <1>3, <1>4

\* What the run of any other step becomes.
LEMMA StartRun ==
    ASSUME StateInv, StartFingrid
    PROVE  /\ run' \in RunType /\ run'.at = "fetch" /\ run'.now = hour
           /\ run'.records = {} /\ run'.whole = TRUE
BY IdleType DEF StateInv, StartFingrid, Idle, RunType, RunSteps

\* A store or a prune only moves the run to its next step.
LEMMA StoreRun ==
    ASSUME StateInv, \/ StoreFingridActuals \/ PruneFingridActuals
                     \/ StoreFingridVintages \/ PruneFingridVintages
    PROVE  /\ run' \in RunType /\ run'.now = run.now /\ run'.whole = run.whole
           /\ run'.records = IF run.at = "pruneVintages" THEN {} ELSE run.records
           /\ run.at = "actuals" => run'.at = "pruneActuals"
           /\ run.at = "pruneActuals" => run'.at = "vintages"
           /\ run.at = "vintages" => run'.at = "pruneVintages"
           /\ run.at = "pruneVintages" => run'.at = "archive"
           /\ run.at \in {"actuals", "pruneActuals", "vintages", "pruneVintages"}
<1>1. run \in RunType
  BY DEF StateInv, RunType
<1>2. run.elapsed + RequestSpacing \in Nat
  BY <1>1, Constants DEF RunType
<1>3. CASE StoreFingridActuals
  BY <1>1, <1>3 DEF StoreFingridActuals, RunType, RunSteps
<1>4. CASE PruneFingridActuals
  BY <1>1, <1>4 DEF PruneFingridActuals, RunType, RunSteps
<1>5. CASE StoreFingridVintages
  BY <1>1, <1>5 DEF StoreFingridVintages, RunType, RunSteps
<1>6. CASE PruneFingridVintages
  BY <1>1, <1>2, <1>6 DEF PruneFingridVintages, RunType, RunSteps
<1> QED
  BY <1>3, <1>4, <1>5, <1>6

\* The archive store ends the run, which remembers whether it was whole.
LEMMA EndRun ==
    ASSUME StateInv, StoreFingridArchive
    PROVE  /\ run' \in RunType /\ run'.at = "idle" /\ run'.records = {}
           /\ run'.whole = run.whole
           /\ run'.whole => run'.now = run.now
           /\ ~run'.whole => run' = Idle
<1>1. run.now \in 0 .. MaxHour /\ run.whole \in BOOLEAN
  BY DEF StateInv
<1>2. CASE run.whole
  <2>1. run' = [Idle EXCEPT !.now = run.now, !.whole = TRUE]
    BY <1>2 DEF StoreFingridArchive
  <2>2. run' = [at |-> "idle", now |-> run.now, records |-> {}, elapsed |-> 0, whole |-> TRUE]
    BY <2>1 DEF Idle
  <2> QED
    BY <1>1, <1>2, <2>2 DEF RunType, RunSteps
<1>3. CASE ~run.whole
  BY <1>1, <1>3, IdleType, IdleFields DEF StoreFingridArchive
<1> QED
  BY <1>2, <1>3

\* A failed or dropped run forgets its records and is not whole.
LEMMA FailedRun ==
    ASSUME StateInv, FingridStoreFails \/ DropFingridRun
    PROVE  /\ run' \in RunType /\ run'.records = {} /\ run'.whole = FALSE
           /\ \/ run' = Idle
              \/ run'.at = "archive" /\ run'.now = run.now
<1>1. CASE run' = Idle
  BY <1>1, IdleType, IdleFields
<1>2. CASE run' # Idle
  <2>1. run' = [run EXCEPT !.at = "archive", !.whole = FALSE, !.records = {},
                           !.elapsed = @ + RequestSpacing]
    BY <1>2 DEF FingridStoreFails, DropFingridRun
  <2>2. run \in RunType
    BY DEF StateInv, RunType
  <2>3. run.elapsed + RequestSpacing \in Nat
    BY <2>2, Constants DEF RunType
  <2> QED
    BY <2>1, <2>2, <2>3 DEF RunType, RunSteps
<1> QED
  BY <1>1, <1>2

-----------------------------------------------------------------------------

\* The process starts with empty tables and an idle job.
LEMMA InitStateInv == FingridInit => StateInv
<1> SUFFICES ASSUME FingridInit PROVE StateInv
  OBVIOUS
<1>1. publishedAt \in [Datasets -> Seq(Nat)] /\ \A d \in Datasets : Version(d) = 0
  BY DEF FingridInit, Version
<1>2. run \in RunType
  BY IdleType DEF FingridInit
<1> QED
  BY <1>1, <1>2, Constants DEF FingridInit, StateInv, RunType

\* Every step keeps the types, action by action.
LEMMA NextStateInv ==
    ASSUME StateInv, [FingridNext]_fingridVars
    PROVE  StateInv'
<1> DEFINE Tables == UNCHANGED <<hour, publishedAt, actuals, vintages>>
<1> USE Constants
<1>1. CASE UNCHANGED fingridVars
  BY <1>1 DEF fingridVars, StateInv, Version
<1>2. ASSUME run' \in RunType, UNCHANGED <<hour, publishedAt>>,
             fingridFaults' \in 0 .. MaxFingridFaults,
             actuals' \subseteq Record, \A r \in actuals' : r.dataset \in ActualDatasets,
             vintages' \subseteq Vintage
      PROVE  StateInv'
  BY <1>2 DEF StateInv, RunType, Version
<1>3. ASSUME run' \in RunType, Tables, fingridFaults' \in 0 .. MaxFingridFaults
      PROVE  StateInv'
  BY <1>2, <1>3 DEF StateInv
<1>4. CASE StartFingrid
  BY <1>3, <1>4, StartRun DEF StartFingrid, StateInv
<1>5. CASE FetchFingridSeries
  BY <1>3, <1>5, FetchSeriesRun DEF FetchFingridSeries, StateInv
<1>6. CASE FetchFingridArchive
  BY <1>3, <1>6, FetchArchiveRun DEF FetchFingridArchive, StateInv
<1>7. CASE FingridStoreFails \/ DropFingridRun
  <2>1. fingridFaults' \in 0 .. MaxFingridFaults
    <3>1. fingridFaults' = fingridFaults + 1 /\ fingridFaults < MaxFingridFaults
      BY <1>7, ZenonT(30) DEF FingridStoreFails, DropFingridRun
    <3>2. fingridFaults \in 0 .. MaxFingridFaults
      BY DEF StateInv
    <3> HIDE DEF Tables
    <3> QED
      BY <3>1, <3>2
  <2> QED
    BY <1>3, <1>7, <2>1, FailedRun DEF FingridStoreFails, DropFingridRun
<1>8. CASE StoreFingridActuals
  <2> DEFINE new == {r \in run.records : ~IsForecast(r.dataset)}
  <2>1. new \subseteq Record /\ \A r \in new : r.dataset \in ActualDatasets
    BY Kinds DEF StateInv, Record
  <2>2. actuals' = Upserted(new)
    BY <1>8 DEF StoreFingridActuals
  <2> HIDE DEF new
  <2>3. actuals' \subseteq Record /\ \A r \in actuals' : r.dataset \in ActualDatasets
    BY <2>1, <2>2, UpsertedRows DEF StateInv
  <2> QED
    BY <1>2, <1>8, <2>3, StoreRun DEF StoreFingridActuals, StateInv
<1>9. CASE PruneFingridActuals
  <2>1. actuals' \subseteq actuals
    BY <1>9 DEF PruneFingridActuals, ActualsSince
  <2> QED
    BY <1>2, <1>9, <2>1, StoreRun DEF PruneFingridActuals, StateInv
<1>10. CASE StoreFingridVintages \/ StoreFingridArchive
  <2>1. run.records \in SUBSET Record /\ run.now \in 0 .. MaxHour
    BY DEF StateInv
  <2>2. vintages' = Archived(run.now, run.records)
    BY <1>10 DEF StoreFingridVintages, StoreFingridArchive, IssuedAt
  <2>3. vintages' \subseteq Vintage
    BY <2>1, <2>2, ArchivedType
  <2>4. run' \in RunType
    BY <1>10, StoreRun, EndRun
  <2> QED
    BY <1>2, <1>10, <2>3, <2>4 DEF StoreFingridVintages, StoreFingridArchive, StateInv
<1>11. CASE PruneFingridVintages
  <2>1. vintages' \subseteq vintages
    BY <1>11 DEF PruneFingridVintages, VintagesSince
  <2> QED
    BY <1>2, <1>11, <2>1, StoreRun DEF PruneFingridVintages, StateInv
<1>12. ASSUME NEW d \in Datasets, PublishVersion(d) PROVE StateInv'
  <2>1. Version(d) < MaxVersions /\ Version(d) \in Nat
        /\ UNCHANGED <<hour, actuals, vintages, run, fingridFaults>>
    BY <1>12 DEF PublishVersion, StateInv, Version
  <2>2. publishedAt' \in [Datasets -> Seq(Nat)]
    BY <1>12, PublishedSteps
  <2>3. \A e \in Datasets : Version(e)' <= MaxVersions
    <3>1. Version(d)' <= MaxVersions
      BY <1>12, <2>1, PublishedSteps
    <3>2. \A e \in Datasets \ {d} : Version(e)' <= MaxVersions
      BY <1>12, PublishedSteps DEF StateInv, Version
    <3> QED
      BY <3>1, <3>2
  <2> QED
    BY <2>1, <2>2, <2>3 DEF StateInv
<1>13. CASE NextHour
  BY <1>13 DEF NextHour, StateInv, Version
<1> QED
  BY <1>1, <1>4, <1>5, <1>6, <1>7, <1>8, <1>9, <1>10, <1>11, <1>12, <1>13 DEF FingridNext

\* The clock and the publications.
LEMMA NextClockInv ==
    ASSUME StateInv, ClockInv, [FingridNext]_fingridVars
    PROVE  ClockInv'
<1> USE Constants
<1>i. hour \in Int /\ run.now \in Int /\ run.now >= 0 /\ hour >= 0
  BY DEF StateInv
<1>1. ASSUME UNCHANGED <<hour, publishedAt>>, run'.now \in {run.now, hour, 0},
             run'.at # "idle" => (run.at # "idle" /\ run'.now = run.now) \/ run'.now = hour
      PROVE  ClockInv'
  <2>1. \A d \in Datasets : Version(d)' = Version(d)
    BY <1>1 DEF Version
  <2>2. run'.now <= hour /\ (run'.at # "idle" => hour \in {run'.now, run'.now + 1})
    BY <1>1, <1>i DEF ClockInv
  <2> QED
    BY <1>1, <2>1, <2>2 DEF ClockInv
<1>2. CASE UNCHANGED fingridVars
  BY <1>1, <1>2 DEF fingridVars
<1>3. CASE StartFingrid
  BY <1>1, <1>3, StartRun DEF StartFingrid
<1>4. CASE FetchFingridSeries
  BY <1>1, <1>4, FetchSeriesRun DEF FetchFingridSeries
<1>5. CASE FetchFingridArchive
  BY <1>1, <1>5, FetchArchiveRun, IdleFields DEF FetchFingridArchive
<1>6. CASE StoreFingridActuals \/ PruneFingridActuals \/ StoreFingridVintages
           \/ PruneFingridVintages
  <2>1. UNCHANGED <<hour, publishedAt>> /\ run.at # "idle"
    BY <1>6 DEF StoreFingridActuals, PruneFingridActuals, StoreFingridVintages,
                PruneFingridVintages
  <2>2. run'.now = run.now
    BY <1>6, StoreRun
  <2> QED
    BY <1>1, <2>1, <2>2
<1>7. CASE StoreFingridArchive
  <2>1. UNCHANGED <<hour, publishedAt>>
    BY <1>7 DEF StoreFingridArchive
  <2>2. run'.at = "idle" /\ run'.now \in {run.now, 0}
    BY <1>7, EndRun, IdleFields
  <2> QED
    BY <1>1, <2>1, <2>2
<1>8. CASE FingridStoreFails \/ DropFingridRun
  <2>1. UNCHANGED <<hour, publishedAt>> /\ run.at # "idle"
    BY <1>8 DEF FingridStoreFails, DropFingridRun
  <2>2. run'.now \in {run.now, 0} /\ (run'.at # "idle" => run'.now = run.now)
    BY <1>8, FailedRun, IdleFields
  <2> QED
    BY <1>1, <2>1, <2>2
<1>9. ASSUME NEW d \in Datasets, PublishVersion(d) PROVE ClockInv'
  <2>1. UNCHANGED <<hour, run>>
    BY <1>9 DEF PublishVersion
  <2>2. ASSUME NEW e \in Datasets, NEW i \in 1 .. Version(e)'
        PROVE  /\ publishedAt'[e][i] <= hour
               /\ \A j \in i .. Version(e)' : publishedAt'[e][i] <= publishedAt'[e][j]
    <3>1. CASE e # d
      BY <1>9, <3>1, PublishedSteps DEF ClockInv, Version
    <3>2. CASE e = d
      <4>1. /\ Version(d) \in Nat /\ Version(d)' = Version(d) + 1
            /\ publishedAt'[d][Version(d) + 1] = hour
            /\ \A k \in 1 .. Version(d) : publishedAt'[d][k] = publishedAt[d][k]
        BY <1>9, PublishedSteps DEF StateInv, Version
      <4>2. /\ \A k \in 1 .. Version(d) : publishedAt[d][k] <= hour
            /\ \A k \in 1 .. Version(d) : \A j \in k .. Version(d) :
                  publishedAt[d][k] <= publishedAt[d][j]
        BY DEF ClockInv
      <4>3. CASE i = Version(d) + 1
        BY <1>i, <3>2, <4>1, <4>3
      <4>4. CASE i \in 1 .. Version(d)
        <5>1. publishedAt'[d][i] <= hour
          BY <4>1, <4>2, <4>4
        <5>2. ASSUME NEW j \in i .. Version(d)'
              PROVE  publishedAt'[d][i] <= publishedAt'[d][j]
          <6>1. j = Version(d) + 1 \/ j \in i .. Version(d)
            BY <4>1
          <6>2. j \in i .. Version(d) => j \in 1 .. Version(d)
            BY <4>1, <4>4
          <6> QED
            BY <4>1, <4>2, <4>4, <5>1, <6>1, <6>2
        <5> QED
          BY <3>2, <5>1, <5>2
      <4> QED
        BY <3>2, <4>1, <4>3, <4>4
    <3> QED
      BY <3>1, <3>2
  <2> QED
    BY <2>1, <2>2 DEF ClockInv
<1>10. CASE NextHour
  <2>1. /\ hour' = hour + 1 /\ UNCHANGED <<publishedAt, run>>
        /\ run.at # "idle" => run.now = hour
    BY <1>10 DEF NextHour
  <2>2. ASSUME NEW d \in Datasets, NEW i \in 1 .. Version(d) PROVE publishedAt[d][i] <= hour + 1
    <3>1. publishedAt[d][i] \in Int
      BY DEF StateInv, Version
    <3> QED
      BY <1>i, <3>1 DEF ClockInv
  <2> QED
    BY <1>i, <2>1, <2>2 DEF ClockInv, Version
<1> QED
  BY <1>2, <1>3, <1>4, <1>5, <1>6, <1>7, <1>8, <1>9, <1>10 DEF FingridNext

-----------------------------------------------------------------------------

\* Nothing is withdrawn: a step keeps the publications, or adds one now.
LEMMA Publications ==
    ASSUME StateInv, [FingridNext]_fingridVars, NEW d \in Datasets
    PROVE  /\ Version(d) \in Nat /\ Version(d)' \in {Version(d), Version(d) + 1}
           /\ \A i \in 1 .. Version(d) : publishedAt'[d][i] = publishedAt[d][i]
           /\ Version(d)' = Version(d) + 1 => publishedAt'[d][Version(d) + 1] = hour
<1>1. Version(d) \in Nat
  BY DEF StateInv, Version
<1>2. CASE publishedAt'[d] = publishedAt[d]
  BY <1>1, <1>2 DEF Version
<1>3. CASE PublishVersion(d)
  BY <1>1, <1>3, PublishedSteps
<1>4. publishedAt'[d] = publishedAt[d] \/ PublishVersion(d)
  <2>1. CASE UNCHANGED publishedAt
    BY <2>1
  <2>2. CASE \E e \in Datasets : PublishVersion(e)
    BY <2>2, PublishedSteps
  <2> QED
    BY <2>1, <2>2
       DEF FingridNext, StartFingrid, FetchFingridSeries, StoreFingridActuals,
           PruneFingridActuals, StoreFingridVintages, PruneFingridVintages,
           FetchFingridArchive, StoreFingridArchive, FingridStoreFails, DropFingridRun,
           NextHour, fingridVars
<1> QED
  BY <1>2, <1>3, <1>4

\* What was the newest version in an hour stays it.
LEMMA NewestStays ==
    ASSUME StateInv, [FingridNext]_fingridVars, NEW d \in Datasets, NEW n, NEW h \in Int,
           h <= hour, NewestIn(d, n, h)
    PROVE  NewestIn(d, n, h)'
<1>1. hour \in Int
  BY DEF StateInv
<1>2. n \in Nat /\ n <= Version(d)
  BY Publications DEF NewestIn
<1>3. n \in 0 .. Version(d)'
  BY <1>2, Publications
<1>4. n >= 1 => publishedAt'[d][n] <= h + 1
  BY <1>2, Publications DEF NewestIn
<1>5. n < Version(d)' => publishedAt'[d][n + 1] >= h
  <2>1. CASE n < Version(d)
    <3>1. n + 1 \in 1 .. Version(d)
      BY <1>2, <2>1, Publications
    <3> QED
      BY <2>1, <3>1, Publications DEF NewestIn
  <2>2. CASE n = Version(d)
    BY <1>1, <2>2, Publications
  <2> QED
    BY <1>2, <2>1, <2>2, Publications
<1> QED
  BY <1>3, <1>4, <1>5 DEF NewestIn

\* What a reply of this instant carries is the newest of the hour of the run.
LEMMA NewestNow ==
    ASSUME StateInv, ClockInv, run.at # "idle", NEW d \in Datasets
    PROVE  NewestIn(d, Version(d), run.now)
<1>1. hour \in Int /\ run.now \in Int /\ hour <= run.now + 1 /\ Version(d) \in Nat
  BY DEF StateInv, ClockInv, Version
<1>2. Version(d) >= 1 => publishedAt[d][Version(d)] <= hour
  BY <1>1 DEF ClockInv
<1>3. Version(d) >= 1 => publishedAt[d][Version(d)] \in Int
  BY <1>1 DEF StateInv, Version
<1> QED
  BY <1>1, <1>2, <1>3 DEF NewestIn

\* The replies.
LEMMA NextRecordInv ==
    ASSUME StateInv, ClockInv, RecordInv, [FingridNext]_fingridVars
    PROVE  RecordInv'
<1>i. run.now \in Int /\ run.now <= hour
  BY DEF StateInv, ClockInv
<1>r. \A r \in run.records : r.dataset \in Datasets
  BY DEF StateInv, Record
<1>s. \A r \in run.records : NewestIn(r.dataset, r.version, run.now)'
                               \/ run'.now # run.now
  <2> SUFFICES ASSUME NEW r \in run.records, run'.now = run.now
               PROVE  NewestIn(r.dataset, r.version, run.now)'
    OBVIOUS
  <2>1. NewestIn(r.dataset, r.version, run.now)
    BY DEF RecordInv
  <2>2. ASSUME NEW h \in Int, h = run.now PROVE NewestIn(r.dataset, r.version, h)'
    BY <1>i, <1>r, <2>1, <2>2, NewestStays
  <2> QED
    BY <1>i, <2>2
<1>1. ASSUME run'.records = {} PROVE RecordInv'
  BY <1>1 DEF RecordInv
<1>2. ASSUME run'.now = run.now, run'.records = run.records,
             run'.at \in {"idle", "fetch", "archive"} => run.records = {},
             run'.at = "storeArchive" => run.at = "storeArchive"
      PROVE  RecordInv'
  <2>1. \A r \in run'.records : NewestIn(r.dataset, r.version, run.now)'
    BY <1>2, <1>s
  <2> QED
    BY <1>2, <2>1 DEF RecordInv
<1>3. ASSUME run.at # "idle", run'.now = run.now, UNCHANGED publishedAt,
             run'.at \notin {"idle", "fetch", "archive"}, run'.records \subseteq Record,
             run'.at = "storeArchive" => \A r \in run'.records : r.dataset \in ArchivedDatasets,
             \A r \in run'.records : r.version = Version(r.dataset)
      PROVE  RecordInv'
  <2>1. ASSUME NEW r \in run'.records PROVE NewestIn(r.dataset, r.version, run.now)'
    <3>1. r.dataset \in Datasets
      BY <1>3 DEF Record
    <3>2. NewestIn(r.dataset, r.version, run.now)
      BY <1>3, <3>1, NewestNow
    <3> QED
      BY <1>3, <3>2 DEF NewestIn, Version
  <2>2. \A r, q \in run'.records : r.dataset = q.dataset => r.version = q.version
    BY <1>3
  <2> QED
    BY <1>3, <2>1, <2>2 DEF RecordInv
<1>4. CASE UNCHANGED run
  BY <1>2, <1>4 DEF RecordInv
<1>5. CASE StartFingrid
  BY <1>1, <1>5, StartRun
<1>6. CASE FetchFingridSeries
  <2>1. run.at = "fetch" /\ UNCHANGED publishedAt
    BY <1>6 DEF FetchFingridSeries
  <2>2. run' \in RunType /\ run'.now = run.now
    BY <1>6, FetchSeriesRun
  <2>3. CASE run'.at = "archive"
    <3>1. run'.records = run.records
      BY <1>6, <2>3, FetchSeriesRun
    <3> QED
      BY <1>1, <2>1, <3>1 DEF RecordInv
  <2>4. CASE run'.at # "archive"
    <3>1. run'.at = "actuals" /\ \A r \in run'.records : r.version = Version(r.dataset)
      BY <1>6, <2>4, FetchSeriesRun
    <3>2. run'.records \subseteq Record
      BY <2>2 DEF RunType
    <3> QED
      BY <1>3, <2>1, <2>2, <3>1, <3>2
  <2> QED
    BY <2>3, <2>4
<1>7. CASE FetchFingridArchive
  <2>1. run.at = "archive" /\ UNCHANGED publishedAt
    BY <1>7 DEF FetchFingridArchive
  <2>2. CASE run' = Idle
    BY <1>1, <2>2, IdleFields
  <2>3. CASE run' # Idle
    <3>1. /\ run' \in RunType /\ run'.at = "storeArchive" /\ run'.now = run.now
          /\ \A r \in run'.records :
                r.version = Version(r.dataset) /\ r.dataset \in ArchivedDatasets
      BY <1>7, <2>3, FetchArchiveRun
    <3>2. run'.records \subseteq Record
      BY <3>1 DEF RunType
    <3> QED
      BY <1>3, <2>1, <3>1, <3>2
  <2> QED
    BY <2>2, <2>3
<1>8. CASE StoreFingridActuals \/ PruneFingridActuals \/ StoreFingridVintages
           \/ PruneFingridVintages
  <2>1. CASE run.at = "pruneVintages"
    BY <1>1, <1>8, <2>1, StoreRun
  <2>2. CASE run.at # "pruneVintages"
    <3>1. /\ run'.now = run.now /\ run'.records = run.records
          /\ run'.at \in {"pruneActuals", "vintages", "pruneVintages"}
      BY <1>8, <2>2, StoreRun
    <3> QED
      BY <1>2, <3>1
  <2> QED
    BY <2>1, <2>2
<1>9. CASE StoreFingridArchive
  BY <1>1, <1>9, EndRun
<1>10. CASE FingridStoreFails \/ DropFingridRun
  BY <1>1, <1>10, FailedRun
<1> QED
  BY <1>4, <1>5, <1>6, <1>7, <1>8, <1>9, <1>10
     DEF FingridNext, PublishVersion, NextHour, fingridVars

\* The table of the actuals has one row of a target.
LEMMA NextActualInv ==
    ASSUME StateInv, RecordInv, ActualInv, [FingridNext]_fingridVars
    PROVE  ActualInv'
<1>1. CASE UNCHANGED actuals
  BY <1>1 DEF ActualInv
<1>2. CASE StoreFingridActuals
  <2> DEFINE new == {r \in run.records : ~IsForecast(r.dataset)}
  <2>1. actuals' = Upserted(new)
    BY <1>2 DEF StoreFingridActuals
  <2>2. ASSUME NEW r \in new, NEW q \in new, r.dataset = q.dataset, r.start = q.start
        PROVE  r = q
    <3>1. r \in Record /\ q \in Record /\ r.version = q.version
      BY <2>2 DEF StateInv, RecordInv
    <3> QED
      BY <2>2, <3>1 DEF Record
  <2> HIDE DEF new
  <2>3. ASSUME NEW r \in Upserted(new), NEW q \in Upserted(new),
               r.dataset = q.dataset, r.start = q.start
        PROVE  r = q
    BY <2>2, <2>3, UpsertedRows DEF ActualInv
  <2> QED
    BY <2>1, <2>3 DEF ActualInv
<1>3. CASE PruneFingridActuals
  BY <1>3 DEF PruneFingridActuals, ActualsSince, ActualInv
<1> QED
  BY <1>1, <1>2, <1>3
     DEF FingridNext, StartFingrid, FetchFingridSeries, StoreFingridVintages,
         PruneFingridVintages, FetchFingridArchive, StoreFingridArchive,
         FingridStoreFails, DropFingridRun, PublishVersion, NextHour, fingridVars

-----------------------------------------------------------------------------

\* A reply is at least as new as every vintage.
LEMMA ReplyIsNewest ==
    ASSUME StateInv, VintageInv, NEW v \in vintages, NEW r \in Record,
           r.dataset = v.dataset, r.version = Version(r.dataset)
    PROVE  v.version <= r.version
BY DEF VintageInv, NewestIn

\* The vintages after an archive of the run.
LEMMA ArchiveInv ==
    ASSUME StateInv, ClockInv, RecordInv, VintageInv, run.at # "idle",
           vintages' = Archived(run.now, run.records),
           UNCHANGED <<hour, publishedAt>>,
           run'.records \in {{}, run.records},
           run'.now = run.now \/ (run'.records = {} /\ run'.at = "idle" /\ ~run'.whole)
    PROVE  VintageInv'
<1>1. /\ run.records \in SUBSET Record /\ run.now \in 0 .. MaxHour
      /\ run.now \in Int /\ hour \in Int /\ run.now <= hour
  BY DEF StateInv, ClockInv
<1>2. /\ vintages' \subseteq Vintage
      /\ \A v \in vintages' \ vintages :
            /\ v.issued = run.now
            /\ \A old \in vintages : Key(old) # Key(v)
            /\ \E r \in run.records : r.dataset = v.dataset /\ r.start = v.start
                                      /\ r.version = v.version
  <2> DEFINE after == Archived(run.now, run.records)
  <2>1. /\ after \subseteq Vintage
        /\ \A v \in after \ vintages :
              /\ v.issued = run.now
              /\ \A old \in vintages : Key(old) # Key(v)
              /\ From(v, run.records)
    BY <1>1, ArchivedType
  <2> HIDE DEF after
  <2>2. vintages' = after
    BY DEF after
  <2> QED
    BY <2>1, <2>2 DEF From
<1>3. \A v \in vintages' : v.issued \in Int /\ v.version \in Int
  BY <1>2 DEF Vintage
<1>4. \A v \in vintages' : NewestIn(v.dataset, v.version, v.issued)'
  <2>1. \A v \in vintages' : NewestIn(v.dataset, v.version, v.issued)
    BY <1>2 DEF VintageInv, RecordInv
  <2> QED
    BY <2>1 DEF NewestIn, Version
<1>5. ASSUME NEW v \in vintages', NEW q \in vintages', Key(v) = Key(q) PROVE v = q
  <2>1. CASE v \in vintages /\ q \in vintages
    BY <1>5, <2>1 DEF VintageInv
  <2>2. CASE v \notin vintages /\ q \notin vintages
    <3>1. v.dataset = q.dataset /\ v.start = q.start /\ v.issued = q.issued
      BY <1>5 DEF Key
    <3>2. v.version = q.version
      BY <1>2, <2>2, <3>1 DEF RecordInv
    <3> QED
      BY <1>2, <3>1, <3>2 DEF Vintage
  <2>3. CASE ~(v \in vintages <=> q \in vintages)
    BY <1>2, <1>5, <2>3
  <2> QED
    BY <2>1, <2>2, <2>3
<1>6. ASSUME NEW v \in vintages', NEW q \in vintages', v.dataset = q.dataset,
             v.issued < q.issued
      PROVE  v.version <= q.version
  <2>1. v.issued <= run.now /\ q.issued <= run.now
    BY <1>2, <1>3 DEF VintageInv
  <2>2. v \in vintages
    BY <1>1, <1>2, <1>3, <1>6, <2>1
  <2>3. CASE q \in vintages
    BY <1>6, <2>2, <2>3 DEF VintageInv
  <2>4. CASE q \notin vintages
    BY <1>2, <1>6, <2>2, <2>4 DEF VintageInv
  <2> QED
    BY <2>3, <2>4
<1>7. \A v \in vintages' : v.issued <= run.now /\ v.issued <= hour
  BY <1>1, <1>2, <1>3 DEF VintageInv
<1>8. ASSUME NEW v \in vintages', NEW r \in run'.records, v.dataset = r.dataset,
             v.issued < run'.now
      PROVE  v.version <= r.version
  <2>1. run'.records = run.records /\ run'.now = run.now
    BY <1>8
  <2>2. v \in vintages
    BY <1>1, <1>2, <1>8, <2>1
  <2> QED
    BY <1>8, <2>1, <2>2 DEF VintageInv
<1> QED
  BY <1>4, <1>5, <1>6, <1>7, <1>8 DEF VintageInv

\* The archive stays ordered.
LEMMA NextVintageInv ==
    ASSUME StateInv, ClockInv, RecordInv, VintageInv, [FingridNext]_fingridVars
    PROVE  VintageInv'
<1>i. run.now \in Int /\ hour \in Int /\ run.now <= hour
  BY DEF StateInv, ClockInv
<1>v. \A v \in vintages : /\ v.dataset \in Datasets /\ v.issued \in Int /\ v.version \in Int
                          /\ v.issued <= hour
  BY DEF StateInv, Vintage, VintageInv, Datasets
<1>s. \A v \in vintages : NewestIn(v.dataset, v.version, v.issued)'
  BY <1>v, NewestStays DEF VintageInv
<1>1. ASSUME vintages' \subseteq vintages, hour' >= hour, hour' \in Int,
             run'.at # "idle" \/ run'.whole =>
                run'.now = hour \/ (run'.now = run.now /\ (run.at # "idle" \/ run.whole)),
             \A v \in vintages, r \in run'.records :
                v.dataset = r.dataset /\ v.issued < run'.now => v.version <= r.version
      PROVE  VintageInv'
  <2>1. \A v \in vintages' : NewestIn(v.dataset, v.version, v.issued)'
    BY <1>1, <1>s
  <2>2. \A v, q \in vintages' :
           /\ Key(v) = Key(q) => v = q
           /\ v.dataset = q.dataset /\ v.issued < q.issued => v.version <= q.version
    BY <1>1 DEF VintageInv
  <2>3. \A v \in vintages' : /\ v.issued <= hour'
                             /\ run'.at # "idle" \/ run'.whole => v.issued <= run'.now
    BY <1>1, <1>i, <1>v DEF VintageInv
  <2>4. \A v \in vintages', r \in run'.records :
           v.dataset = r.dataset /\ v.issued < run'.now => v.version <= r.version
    BY <1>1
  <2> QED
    BY <2>1, <2>2, <2>3, <2>4 DEF VintageInv
<1>2. CASE UNCHANGED fingridVars
  BY <1>1, <1>2, <1>i DEF fingridVars, VintageInv
<1>3. CASE StartFingrid
  BY <1>1, <1>3, <1>i, StartRun DEF StartFingrid
<1>4. CASE FetchFingridSeries
  <2>1. UNCHANGED <<hour, vintages>> /\ run.at = "fetch"
    BY <1>4 DEF FetchFingridSeries
  <2>2. run' \in RunType /\ run'.now = run.now
    BY <1>4, FetchSeriesRun
  <2>3. \A v \in vintages, r \in run'.records :
           v.dataset = r.dataset /\ v.issued < run'.now => v.version <= r.version
    <3>1. CASE run'.records = run.records
      BY <2>2, <3>1 DEF VintageInv
    <3>2. CASE run'.records # run.records
      <4>1. \A r \in run'.records : r \in Record /\ r.version = Version(r.dataset)
        BY <1>4, <2>2, <3>2, FetchSeriesRun DEF RunType
      <4> QED
        BY <4>1, ReplyIsNewest
    <3> QED
      BY <3>1, <3>2
  <2> QED
    BY <1>1, <1>i, <2>1, <2>2, <2>3
<1>5. CASE FetchFingridArchive
  <2>1. UNCHANGED <<hour, vintages>> /\ run.at = "archive"
    BY <1>5 DEF FetchFingridArchive
  <2>2. CASE run' = Idle
    BY <1>1, <1>i, <2>1, <2>2, IdleFields
  <2>3. CASE run' # Idle
    <3>1. run' \in RunType /\ run'.now = run.now
          /\ \A r \in run'.records : r.version = Version(r.dataset)
      BY <1>5, <2>3, FetchArchiveRun
    <3>2. \A r \in run'.records : r \in Record
      BY <3>1 DEF RunType
    <3>3. \A v \in vintages, r \in run'.records :
             v.dataset = r.dataset /\ v.issued < run'.now => v.version <= r.version
      BY <3>1, <3>2, ReplyIsNewest
    <3> QED
      BY <1>1, <1>i, <2>1, <3>1, <3>3
  <2> QED
    BY <2>2, <2>3
<1>6. CASE StoreFingridActuals \/ PruneFingridActuals \/ PruneFingridVintages
  <2>1. hour' = hour /\ vintages' \subseteq vintages /\ run.at # "idle"
    BY <1>6 DEF StoreFingridActuals, PruneFingridActuals, PruneFingridVintages, VintagesSince
  <2>2. run'.now = run.now /\ run'.records \in {{}, run.records}
    BY <1>6, StoreRun
  <2> QED
    BY <1>1, <1>i, <2>1, <2>2 DEF VintageInv
<1>7. CASE StoreFingridVintages
  <2>1. /\ vintages' = Archived(run.now, run.records) /\ run.at = "vintages"
        /\ UNCHANGED <<hour, publishedAt>>
    BY <1>7 DEF StoreFingridVintages, IssuedAt
  <2>2. run'.now = run.now /\ run'.records = run.records
    BY <1>7, <2>1, StoreRun
  <2> QED
    BY <2>1, <2>2, ArchiveInv
<1>8. CASE StoreFingridArchive
  <2>1. /\ vintages' = Archived(run.now, run.records) /\ run.at = "storeArchive"
        /\ UNCHANGED <<hour, publishedAt>>
    BY <1>8 DEF StoreFingridArchive, IssuedAt
  <2>2. run'.at = "idle" /\ run'.records = {} /\ (run'.now = run.now \/ ~run'.whole)
    BY <1>8, EndRun
  <2> QED
    BY <2>1, <2>2, ArchiveInv
<1>9. CASE FingridStoreFails \/ DropFingridRun
  <2>1. UNCHANGED <<hour, vintages>> /\ run.at # "idle"
    BY <1>9 DEF FingridStoreFails, DropFingridRun
  <2>2. run'.records = {} /\ run'.whole = FALSE /\ (run'.at = "idle" \/ run'.now = run.now)
    BY <1>9, FailedRun, IdleFields
  <2> QED
    BY <1>1, <1>i, <2>1, <2>2
<1>10. CASE NextHour \/ \E d \in Datasets : PublishVersion(d)
  <2>1. UNCHANGED <<run, vintages>> /\ hour' \in {hour, hour + 1}
    BY <1>10 DEF NextHour, PublishVersion
  <2> QED
    BY <1>1, <1>i, <2>1 DEF VintageInv
<1> QED
  BY <1>2, <1>3, <1>4, <1>5, <1>6, <1>7, <1>8, <1>9, <1>10 DEF FingridNext

-----------------------------------------------------------------------------

\* A reply keeps every target of its window until it is stored.
LEMMA NextWindowInv ==
    ASSUME StateInv, ClockInv, WindowInv, [FingridNext]_fingridVars
    PROVE  WindowInv'
<1>i. run.now \in Int /\ run.now <= hour /\ hour \in Int
  BY DEF StateInv, ClockInv
<1>1. ASSUME run'.at \notin {"actuals", "pruneActuals", "vintages", "storeArchive"}
      PROVE  WindowInv'
  BY <1>1 DEF WindowInv
<1>2. CASE UNCHANGED run
  BY <1>2 DEF WindowInv
<1>3. CASE StartFingrid
  BY <1>1, <1>3, StartRun
<1>4. CASE FetchFingridSeries
  <2>1. CASE run'.at = "archive"
    BY <1>1, <2>1
  <2>2. CASE run'.at # "archive"
    <3>1. /\ run'.at = "actuals" /\ run'.now = run.now
          /\ \A d \in ActualDatasets, t \in (run.now - HistoryHours) .. run.now :
                t <= hour => \E r \in run'.records : r.dataset = d /\ r.start = t
          /\ \A d \in ServedForecasts,
                t \in (run.now - HistoryHours) .. (run.now + ForecastHours) :
                   \E r \in run'.records : r.dataset = d /\ r.start = t
      BY <1>4, <2>2, FetchSeriesRun
    <3>2. \A t \in (run.now - HistoryHours) .. run.now : t <= hour
      BY <1>i, Constants
    <3> QED
      BY <3>1, <3>2 DEF WindowInv
  <2> QED
    BY <2>1, <2>2
<1>5. CASE FetchFingridArchive
  <2>1. CASE run' = Idle
    BY <1>1, <2>1, IdleFields
  <2>2. CASE run' # Idle
    <3>1. /\ run'.at = "storeArchive" /\ run'.now = run.now
          /\ \A d \in ArchivedDatasets,
                t \in (run.now - BackfillHours) .. (run.now + ArchiveHours) :
                   \E r \in run'.records : r.dataset = d /\ r.start = t
      BY <1>5, <2>2, FetchArchiveRun
    <3> QED
      BY <3>1 DEF WindowInv
  <2> QED
    BY <2>1, <2>2
<1>6. CASE StoreFingridActuals \/ PruneFingridActuals \/ StoreFingridVintages
           \/ PruneFingridVintages
  <2>1. CASE run.at \in {"actuals", "pruneActuals"}
    <3>1. /\ run'.now = run.now /\ run'.records = run.records
          /\ run'.at \in {"pruneActuals", "vintages"}
      BY <1>6, <2>1, StoreRun
    <3>2. run'.at # "actuals" /\ run'.at # "storeArchive"
      BY <3>1
    <3> QED
      BY <2>1, <3>1, <3>2 DEF WindowInv
  <2>2. CASE run.at \notin {"actuals", "pruneActuals"}
    BY <1>1, <1>6, <2>2, StoreRun
  <2> QED
    BY <2>1, <2>2
<1>7. CASE StoreFingridArchive
  BY <1>1, <1>7, EndRun
<1>8. CASE FingridStoreFails \/ DropFingridRun
  BY <1>1, <1>8, FailedRun, IdleFields
<1> QED
  BY <1>2, <1>3, <1>4, <1>5, <1>6, <1>7, <1>8
     DEF FingridNext, PublishVersion, NextHour, fingridVars

\* The parts of WholeInv.
ActualsDone ==
    \A d \in ActualDatasets, t \in (run.now - HistoryHours) .. run.now :
       t >= run.now - ActualRetention =>
          \E r \in actuals : r.dataset = d /\ r.start = t
                             /\ NewestIn(d, r.version, run.now)
ServedDone ==
    \A d \in ServedForecasts, t \in (run.now - BackfillHours) .. (run.now + ForecastHours) :
       ArchivedNow(d, t)
ArchiveDone ==
    \A d \in ArchivedDatasets, t \in (run.now - BackfillHours) .. (run.now + ArchiveHours) :
       ArchivedNow(d, t)

\* What a whole run has done, stage by stage.
LEMMA WholeParts ==
    WholeInv <=>
      /\ run.whole /\ run.at \in {"pruneActuals", "vintages", "pruneVintages", "archive",
                                  "storeArchive", "idle"} => ActualsDone
      /\ run.whole /\ run.at \in {"pruneVintages", "archive", "storeArchive", "idle"}
            => ServedDone
      /\ run.whole /\ run.at = "idle" => ArchiveDone
BY DEF WholeInv, ActualsDone, ServedDone, ArchiveDone

\* What is stored stays: publications come later, and an archive only adds.
LEMMA ActualsStay ==
    ASSUME StateInv, ClockInv, ActualsDone, [FingridNext]_fingridVars,
           run'.now = run.now,
           \A r \in actuals : r.start >= run.now - ActualRetention => r \in actuals'
    PROVE  ActualsDone'
<1>i. run.now \in Int /\ run.now <= hour
  BY DEF StateInv, ClockInv
<1>1. ASSUME NEW d \in ActualDatasets, NEW t \in (run.now - HistoryHours) .. run.now,
             t >= run.now - ActualRetention
      PROVE  \E r \in actuals' : r.dataset = d /\ r.start = t
                                 /\ NewestIn(d, r.version, run.now)'
  <2>1. PICK r \in actuals : r.dataset = d /\ r.start = t /\ NewestIn(d, r.version, run.now)
    BY <1>1 DEF ActualsDone
  <2>2. ASSUME NEW h \in Int, h = run.now PROVE NewestIn(d, r.version, h)'
    BY <1>i, <2>1, <2>2, Kinds, NewestStays
  <2> QED
    BY <1>1, <1>i, <2>1, <2>2
<1> QED
  BY <1>1 DEF ActualsDone

\* An archived hour stays archived for the rest of its run.
LEMMA ArchivedStays ==
    ASSUME run'.now = run.now, NEW d, NEW t, ArchivedNow(d, t),
           \A v \in vintages : v.issued >= run.now => v \in vintages',
           StateInv
    PROVE  ArchivedNow(d, t)'
BY DEF ArchivedNow, StateInv

\* A run that failed nowhere has stored what it is past.
LEMMA NextWholeInv ==
    ASSUME StateInv, ClockInv, RecordInv, WindowInv, WholeInv, [FingridNext]_fingridVars
    PROVE  WholeInv'
<1> DEFINE PartsDone ==
        /\ run.whole /\ run.at \in {"pruneActuals", "vintages", "pruneVintages", "archive",
                                    "storeArchive", "idle"} => ActualsDone
        /\ run.whole /\ run.at \in {"pruneVintages", "archive", "storeArchive", "idle"}
              => ServedDone
        /\ run.whole /\ run.at = "idle" => ArchiveDone
<1>w. PartsDone
  BY WholeParts
<1>q. SUFFICES PartsDone'
  BY WholeParts, PTL
<1>i. run.now \in Int /\ run.now <= hour /\ run.now \in 0 .. MaxHour
  BY DEF StateInv, ClockInv
<1>k. ASSUME run'.now = run.now, UNCHANGED vintages
      PROVE  (ServedDone => ServedDone') /\ (ArchiveDone => ArchiveDone')
  BY <1>k, ArchivedStays DEF ServedDone, ArchiveDone
<1>a. ASSUME run'.now = run.now, UNCHANGED actuals
      PROVE  ActualsDone => ActualsDone'
  BY <1>a, ActualsStay
<1>1. ASSUME run'.whole = FALSE PROVE PartsDone'
  BY <1>1
<1>2. CASE UNCHANGED <<run, actuals, vintages>>
  BY <1>2, <1>w, <1>k, <1>a
<1>3. CASE StartFingrid
  BY <1>3, StartRun
<1>4. CASE FetchFingridSeries
  BY <1>4, FetchSeriesRun
<1>5. CASE FetchFingridArchive
  <2>1. run.at = "archive" /\ UNCHANGED <<actuals, vintages>>
    BY <1>5 DEF FetchFingridArchive
  <2>2. CASE run' = Idle
    BY <1>1, <2>2, IdleFields
  <2>3. CASE run' # Idle
    <3>1. run'.at = "storeArchive" /\ run'.now = run.now /\ run'.whole = run.whole
      BY <1>5, <2>3, FetchArchiveRun
    <3> QED
      BY <1>w, <1>k, <1>a, <2>1, <3>1
  <2> QED
    BY <2>2, <2>3
<1>6. CASE StoreFingridActuals
  <2> DEFINE new == {r \in run.records : ~IsForecast(r.dataset)}
  <2>1. run'.now = run.now /\ run'.at = "pruneActuals" /\ UNCHANGED publishedAt
        /\ run.at = "actuals" /\ actuals' = Upserted(new)
    BY <1>6, StoreRun DEF StoreFingridActuals
  <2>2. ASSUME NEW d \in ActualDatasets, NEW t \in (run.now - HistoryHours) .. run.now
        PROVE  \E r \in actuals' : r.dataset = d /\ r.start = t
                                   /\ NewestIn(d, r.version, run.now)'
    <3>1. PICK r \in run.records : r.dataset = d /\ r.start = t
      BY <2>1 DEF WindowInv
    <3>2. r \in new /\ NewestIn(d, r.version, run.now)
      BY <3>1, Kinds DEF RecordInv
    <3>3. r \in actuals'
      BY <2>1, <3>2, UpsertedRows
    <3>4. NewestIn(d, r.version, run.now)'
      BY <2>1, <3>2 DEF NewestIn, Version
    <3> QED
      BY <3>1, <3>3, <3>4
  <2>3. ActualsDone'
    BY <2>1, <2>2 DEF ActualsDone
  <2> QED
    BY <2>1, <2>3
<1>7. CASE PruneFingridActuals
  <2>1. /\ run'.now = run.now /\ run'.at = "vintages" /\ run'.whole = run.whole
        /\ run.at = "pruneActuals" /\ actuals' = ActualsSince(run.now - ActualRetention)
    BY <1>7, StoreRun DEF PruneFingridActuals
  <2>2. ActualsDone => ActualsDone'
    BY <2>1, ActualsStay DEF ActualsSince
  <2> QED
    BY <1>w, <2>1, <2>2
<1>8. CASE StoreFingridVintages
  <2>1. /\ run'.now = run.now /\ run'.at = "pruneVintages" /\ run'.whole = run.whole
        /\ run.at = "vintages" /\ vintages' = Archived(run.now, run.records)
        /\ UNCHANGED actuals
    BY <1>8, StoreRun DEF StoreFingridVintages, IssuedAt
  <2>2. ASSUME NEW d \in ServedForecasts,
               NEW t \in (run.now - BackfillHours) .. (run.now + ForecastHours)
        PROVE  ArchivedNow(d, t)'
    <3>1. t \in (run.now - HistoryHours) .. (run.now + ForecastHours)
      BY <1>i, Constants
    <3>2. PICK r \in run.records : r.dataset = d /\ r.start = t
      BY <2>1, <3>1 DEF WindowInv
    <3>3. Admitted(run.now, r)
      BY <1>i, <3>2, Kinds, Constants DEF Admitted
    <3>4. run.records \in SUBSET Record
      BY DEF StateInv
    <3>5. \E v \in Archived(run.now, run.records) :
             v.dataset = r.dataset /\ v.start = r.start /\ v.issued = run.now
      BY <1>i, <3>3, <3>4, ArchivedType
    <3> QED
      BY <2>1, <3>2, <3>5 DEF ArchivedNow
  <2>3. ServedDone'
    BY <2>1, <2>2 DEF ServedDone
  <2> QED
    BY <1>w, <1>a, <2>1, <2>3
<1>9. CASE PruneFingridVintages
  <2>1. /\ run'.now = run.now /\ run'.at = "archive" /\ run'.whole = run.whole
        /\ run.at = "pruneVintages" /\ vintages' = VintagesSince(run.now - VintageRetention)
        /\ UNCHANGED actuals
    BY <1>9, StoreRun DEF PruneFingridVintages
  <2>2. ASSUME NEW v \in vintages, v.issued >= run.now PROVE v \in vintages'
    <3>1. v.issued \in Int
      BY DEF StateInv, Vintage
    <3> QED
      BY <1>i, <2>1, <2>2, <3>1, Constants DEF VintagesSince
  <2>3. ServedDone => ServedDone'
    BY <2>1, <2>2, ArchivedStays DEF ServedDone
  <2> QED
    BY <1>w, <1>a, <2>1, <2>3
<1>10. CASE StoreFingridArchive
  <2>1. /\ run.at = "storeArchive" /\ vintages' = Archived(run.now, run.records)
        /\ UNCHANGED actuals
    BY <1>10 DEF StoreFingridArchive, IssuedAt
  <2>2. /\ run'.whole => run.whole /\ run'.now = run.now
        /\ run'.at = "idle" /\ run'.whole \in BOOLEAN
    BY <1>10, EndRun DEF RunType
  <2>3. CASE ~run'.whole
    BY <1>1, <2>2, <2>3
  <2>4. CASE run'.whole
    <3>1. run.records \in SUBSET Record
      BY DEF StateInv
    <3>2. vintages \subseteq vintages'
      BY <1>i, <2>1, <3>1, ArchivedType
    <3>3. ServedDone'
      BY <1>w, <2>1, <2>2, <2>4, <3>2, ArchivedStays DEF ServedDone
    <3>4. ASSUME NEW d \in ArchivedDatasets,
                 NEW t \in (run.now - BackfillHours) .. (run.now + ArchiveHours)
          PROVE  ArchivedNow(d, t)'
      <4>1. PICK r \in run.records : r.dataset = d /\ r.start = t
        BY <2>1 DEF WindowInv
      <4>2. Admitted(run.now, r)
        BY <1>i, <4>1, Kinds, Constants DEF Admitted
      <4>3. \E v \in Archived(run.now, run.records) :
               v.dataset = r.dataset /\ v.start = r.start /\ v.issued = run.now
        BY <1>i, <3>1, <4>2, ArchivedType
      <4> QED
        BY <2>1, <2>2, <2>4, <4>1, <4>3 DEF ArchivedNow
    <3>5. ArchiveDone'
      BY <2>2, <2>4, <3>4 DEF ArchiveDone
    <3>6. ActualsDone'
      BY <1>w, <1>a, <2>1, <2>2, <2>4
    <3> QED
      BY <3>3, <3>5, <3>6
  <2> QED
    BY <2>3, <2>4
<1>11. CASE FingridStoreFails \/ DropFingridRun
  BY <1>1, <1>11, FailedRun
<1> QED
  BY <1>2, <1>3, <1>4, <1>5, <1>6, <1>7, <1>8, <1>9, <1>10, <1>11
     DEF FingridNext, PublishVersion, NextHour, fingridVars

-----------------------------------------------------------------------------

\* The initial states satisfy the invariant.
LEMMA InitIInv == FingridInit => IInv
<1> SUFFICES ASSUME FingridInit PROVE IInv
  OBVIOUS
<1>1. StateInv
  BY InitStateInv
<1>2. hour = 0 /\ \A d \in Datasets : Version(d) = 0
  BY DEF FingridInit, Version
<1>3. run = Idle /\ vintages = {} /\ actuals = {}
  BY DEF FingridInit
<1>4. ClockInv
  BY <1>2, <1>3, IdleFields DEF ClockInv
<1>5. RecordInv /\ VintageInv /\ ActualInv /\ WindowInv /\ WholeInv
  BY <1>3, IdleFields DEF RecordInv, VintageInv, ActualInv, WindowInv, WholeInv
<1> QED
  BY <1>1, <1>4, <1>5 DEF IInv

\* Every step keeps it.
LEMMA NextIInv == IInv /\ [FingridNext]_fingridVars => IInv'
BY NextStateInv, NextClockInv, NextRecordInv, NextVintageInv, NextActualInv, NextWindowInv,
   NextWholeInv DEF IInv

\* The inductive invariant holds in every reachable state.
THEOREM Invariant == FingridSpec => []IInv
BY InitIInv, NextIInv, PTL DEF FingridSpec

\* Every reachable state is typed, and a target has one row of actuals.
THEOREM TypeCorrect == FingridSpec => []FingridTypeOK
<1>1. IInv => FingridTypeOK
  <2> SUFFICES ASSUME IInv PROVE FingridTypeOK
    OBVIOUS
  <2>1. StateInv /\ ActualInv
    BY DEF IInv
  <2>2. \A r \in actuals : r.dataset \in ActualDatasets /\ r.start \in Targets
    BY <2>1 DEF StateInv, Record
  <2>3. \A r \in vintages :
           IsForecast(r.dataset) /\ r.issued \in 0 .. MaxHour /\ r.start \in Targets
    BY <2>1 DEF StateInv, Vintage, IsForecast
  <2>4. run.at \in RunSteps
    BY <2>1 DEF StateInv
  <2> QED
    BY <2>1, <2>2, <2>3, <2>4 DEF FingridTypeOK, StateInv, ActualInv, RunSteps
<1> QED
  BY <1>1, Invariant, PTL

\* A vintage is the newest version of the provider at its fetch, however the
\* publications fall into the hour and whatever of its run fails
\* (jobs/fingrid.rs run_vintage_archive_job).
THEOREM VintagesAreNewest == FingridSpec => []VintageIsNewestAtItsFetch
<1>1. IInv => VintageIsNewestAtItsFetch
  BY DEF IInv, VintageInv, NewestIn, VintageIsNewestAtItsFetch
<1> QED
  BY <1>1, Invariant, PTL

\* The version of an hour's beginning is not after one that was still the newest
\* in that hour.
LEMMA VersionAtBound ==
    ASSUME StateInv, ClockInv, NEW d \in Datasets, NEW n, NEW h \in Int, NewestIn(d, n, h)
    PROVE  VersionAt(d, h) <= n
<1> DEFINE before == {i \in DOMAIN publishedAt[d] : publishedAt[d][i] < h}
<1>1. /\ Version(d) \in Nat /\ DOMAIN publishedAt[d] = 1 .. Version(d)
      /\ \A i \in 1 .. Version(d) : publishedAt[d][i] \in Int
  BY DEF StateInv, Version
<1>2. n \in Nat /\ n <= Version(d)
  BY <1>1 DEF NewestIn
<1>3. before \subseteq 1 .. n
  <2> SUFFICES ASSUME NEW i \in 1 .. Version(d), i > n PROVE publishedAt[d][i] >= h
    BY <1>1, <1>2
  <2>1. n + 1 \in 1 .. Version(d) /\ i \in (n + 1) .. Version(d)
    BY <1>1, <1>2
  <2>2. publishedAt[d][n + 1] <= publishedAt[d][i]
    BY <2>1 DEF ClockInv
  <2>3. publishedAt[d][n + 1] >= h
    BY <1>1, <1>2, <2>1 DEF NewestIn
  <2> QED
    BY <1>1, <2>1, <2>2, <2>3
<1>4. IsFiniteSet(1 .. n) /\ Cardinality(1 .. n) = n
  BY <1>2, FS_Interval
<1>5. Cardinality(before) <= n
  BY <1>3, <1>4, FS_Subset
<1> QED
  BY <1>5 DEF VersionAt

\* A run in which nothing failed leaves every target of its windows at least as
\* new as the provider was when the hour of the run began (jobs/mod.rs
\* fingrid_fetch).
THEOREM WholeRunServes == FingridSpec => []WholeRunServesItsHour
<1>1. IInv => WholeRunServesItsHour
  <2> SUFFICES ASSUME IInv, run.at = "idle", run.whole PROVE WholeRunServesItsHour
    BY DEF WholeRunServesItsHour
  <2>1. /\ StateInv /\ ClockInv /\ VintageInv /\ run.now \in Int
        /\ ActualsDone /\ ServedDone /\ ArchiveDone
    BY WholeParts DEF IInv, StateInv
  <2>2. ASSUME NEW d \in ActualDatasets, NEW t \in (run.now - HistoryHours) .. run.now,
               t >= run.now - ActualRetention
        PROVE  \E r \in actuals : r.dataset = d /\ r.start = t
                                  /\ r.version >= VersionAt(d, run.now)
    <3>1. PICK r \in actuals : r.dataset = d /\ r.start = t
                               /\ NewestIn(d, r.version, run.now)
      BY <2>1, <2>2 DEF ActualsDone
    <3>2. VersionAt(d, run.now) <= r.version
      BY <2>1, <3>1, VersionAtBound, Kinds
    <3> QED
      BY <3>1, <3>2
  <2>3. ASSUME NEW d \in ForecastDatasets, NEW t \in Targets, ArchivedNow(d, t)
        PROVE  \E r \in Latest(d, t) : r.version >= VersionAt(d, run.now)
    <3>1. PICK v \in vintages : v.dataset = d /\ v.start = t /\ v.issued = run.now
      BY <2>3 DEF ArchivedNow
    <3>2. \A q \in vintages : q.issued <= v.issued
      BY <2>1, <3>1 DEF VintageInv
    <3>3. v \in Latest(d, t)
      BY <3>1, <3>2 DEF Latest
    <3>4. NewestIn(d, v.version, run.now)
      BY <2>1, <3>1 DEF VintageInv
    <3>5. VersionAt(d, run.now) <= v.version
      BY <2>1, <3>4, VersionAtBound DEF Datasets
    <3> QED
      BY <3>3, <3>5
  <2>4. ASSUME NEW d \in ForecastDatasets, NEW t \in Targets, t >= run.now - BackfillHours,
               t <= run.now + (IF d \in ServedForecasts THEN ForecastHours ELSE ArchiveHours)
        PROVE  ArchivedNow(d, t)
    <3>1. t \in Int
      BY DEF Targets
    <3>2. CASE d \in ServedForecasts
      <4>1. t \in (run.now - BackfillHours) .. (run.now + ForecastHours)
        BY <2>1, <2>4, <3>1, <3>2, Constants
      <4> QED
        BY <2>1, <3>2, <4>1 DEF ServedDone
    <3>3. CASE d \notin ServedForecasts
      <4>1. t \in (run.now - BackfillHours) .. (run.now + ArchiveHours)
        BY <2>1, <2>4, <3>1, <3>3, Constants
      <4> QED
        BY <2>1, <3>3, <4>1 DEF ArchiveDone, ForecastDatasets
    <3> QED
      BY <3>2, <3>3
  <2> QED
    BY <2>2, <2>3, <2>4 DEF WholeRunServesItsHour
<1> QED
  BY <1>1, Invariant, PTL

-----------------------------------------------------------------------------

\* The archive only grows, except for what its prune drops by age.
LEMMA VintageSteps ==
    ASSUME StateInv, ClockInv, [FingridNext]_fingridVars
    PROVE  \/ UNCHANGED vintages
           \/ run.at # "idle" /\ vintages' = Archived(run.now, run.records)
           \/ run.at # "idle" /\ vintages' = VintagesSince(run.now - VintageRetention)
BY DEF FingridNext, fingridVars, StartFingrid, FetchFingridSeries, StoreFingridActuals,
       PruneFingridActuals, StoreFingridVintages, PruneFingridVintages,
       FetchFingridArchive, StoreFingridArchive, FingridStoreFails, DropFingridRun,
       PublishVersion, NextHour, IssuedAt

\* A vintage keeps its value, and leaves only by age.
LEMMA VintagesAreKept ==
    ASSUME StateInv, ClockInv, [FingridNext]_fingridVars
    PROVE  VintagesKept
<1>i. run.now \in Int /\ hour \in Int /\ run.now <= hour /\ VintageRetention \in Int
  BY Constants DEF StateInv, ClockInv
<1> SUFFICES ASSUME NEW v \in vintages, v \notin vintages'
             PROVE  v.issued < hour - VintageRetention
  BY DEF VintagesKept
<1>1. v.issued \in Int
  BY DEF StateInv, Vintage
<1>2. vintages' = VintagesSince(run.now - VintageRetention)
  BY VintageSteps DEF Archived
<1> QED
  BY <1>i, <1>1, <1>2 DEF VintagesSince

\* No step of the run, however often it repeats its hour, changes or deletes an
\* archived vintage before its age (store_fingrid_forecast_vintages).
THEOREM VintagesStay == FingridSpec => VintagesNeverChange
<1>1. IInv /\ [FingridNext]_fingridVars => [VintagesKept]_fingridVars
  BY VintagesAreKept DEF IInv
<1> QED
  BY <1>1, Invariant, PTL DEF FingridSpec, VintagesNeverChange

\* The value that the forecast reads for a target never goes back to an older
\* version (get_fingrid_forecast_vintages_latest).
THEOREM LatestIsMonotonic == FingridSpec => LatestNeverGoesBack
<1> DEFINE Monotonic ==
        \A d \in ForecastDatasets, t \in Targets :
           \A old \in Latest(d, t), new \in Latest(d, t)' : old.version <= new.version
<1>1. ASSUME IInv, [FingridNext]_fingridVars PROVE Monotonic
  <2>1. StateInv /\ ClockInv /\ VintageInv /\ StateInv' /\ VintageInv'
    BY <1>1, NextIInv DEF IInv
  <2>2. SUFFICES ASSUME NEW d \in ForecastDatasets, NEW t \in Targets,
                        NEW old \in Latest(d, t), NEW new \in Latest(d, t)'
                 PROVE  old.version <= new.version
    OBVIOUS
  <2>3. /\ old \in vintages /\ old.dataset = d /\ old.start = t
        /\ \A q \in vintages : q.dataset = d /\ q.start = t => q.issued <= old.issued
        /\ new \in vintages' /\ new.dataset = d /\ new.start = t
        /\ \A q \in vintages' : q.dataset = d /\ q.start = t => q.issued <= new.issued
    BY DEF Latest
  <2>4. /\ old.issued \in Int /\ old.version \in Int /\ old \in Vintage
        /\ new.issued \in Int /\ new.version \in Int /\ new \in Vintage
    BY <2>1, <2>3 DEF StateInv, Vintage
  <2>5. CASE old \in vintages'
    <3>1. old.issued <= new.issued
      BY <2>3, <2>5
    <3>2. CASE old.issued < new.issued
      BY <2>1, <2>3, <2>5, <3>2 DEF VintageInv
    <3>3. CASE old.issued = new.issued
      <4>1. Key(old) = Key(new)
        BY <2>3, <3>3 DEF Key
      <4>2. old = new
        BY <2>1, <2>3, <2>5, <4>1 DEF VintageInv
      <4> QED
        BY <2>4, <4>2
    <3> QED
      BY <2>4, <3>1, <3>2, <3>3
  <2>6. CASE old \notin vintages'
    <3>1. vintages' = VintagesSince(run.now - VintageRetention)
      BY <1>1, <2>1, <2>3, <2>6, VintageSteps DEF Archived
    <3>2. new \in vintages /\ new.issued <= old.issued
      BY <2>3, <3>1 DEF VintagesSince
    <3>3. old \in vintages'
      <4>1. run.now - VintageRetention \in Int
        BY <2>1, Constants DEF StateInv
      <4>2. new.issued >= run.now - VintageRetention
        BY <2>3, <3>1 DEF VintagesSince
      <4> QED
        BY <2>3, <2>4, <3>1, <3>2, <4>1, <4>2 DEF VintagesSince
    <3> QED
      BY <2>6, <3>3
  <2> QED
    BY <2>5, <2>6
<1>2. IInv /\ [FingridNext]_fingridVars => [Monotonic]_fingridVars
  BY <1>1
<1> QED
  BY <1>2, Invariant, PTL DEF FingridSpec, LatestNeverGoesBack

=============================================================================
