------------------------ MODULE ForecastCacheProofs ------------------------
(***************************************************************************)
(* Proofs about ForecastCache for any set of requests, any bound on the    *)
(* clock and any number of failures: its invariants, and that it           *)
(* implements ServedForecast.                                              *)
(***************************************************************************)
EXTENDS ForecastCache, TLAPS

(***************************************************************************)
(* The inductive invariant.                                                *)
(***************************************************************************)

\* The refresh mutex is held by the job that builds, and by no other.
LockInv == \A j \in Jobs : lock = j <=> pc[j] = "building"

\* The versions of the tables only grow: what is stored next is not older.
VersionInv ==
    /\ issue <= clock
    /\ db["vintages"] <= issue
    /\ \A t \in Tables : db[t] <= clock

\* Nothing that was read, served or remembered is newer than the database.
PastInv ==
    /\ \A b \in Builders : \A q \in Queries : reads[b][q] <= db[Source[q]]
    /\ \A b \in Builders : \A t \in Tables : base[b][t] <= db[t]
    /\ cache # NoSnapshot => \A q \in Queries : cache[q] <= db[Source[q]]

\* Only a build holds inputs.
ReadsInv == \A b \in Builders : pc[b] # "building" => reads[b] = NothingRead

\* What the job that builds has read is not older than what it had to see,
\* nor than what is served.
BuildInv ==
    \A j \in Jobs : pc[j] = "building" =>
        \A q \in Queries : reads[j][q] # Unread =>
            /\ base[j][Source[q]] <= reads[j][q]
            /\ cache # NoSnapshot => cache[q] <= reads[j][q]

IInv ==
    /\ TypeOK
    /\ LockInv
    /\ VersionInv
    /\ PastInv
    /\ ReadsInv
    /\ BuildInv
    /\ RefreshReflectsCommitted

-----------------------------------------------------------------------------

\* Every query reads a table.
LEMMA SourceType == Source \in [Queries -> Tables]
BY DEF Source, Queries, Tables

\* The jobs are not requests, and no job is the free lock.
LEMMA NamesDiffer ==
    /\ "startup" \in Jobs /\ "price" \in Jobs /\ "fingrid" \in Jobs
    /\ Jobs \subseteq Builders /\ Requests \subseteq Builders
    /\ Free \notin Jobs
    /\ \A r \in Requests : r \notin Jobs
BY ConstantsAssumption DEF Jobs, Builders

\* The times are integers from 0 on.
LEMMA TimeType == Time \subseteq Int /\ Unread \notin Time /\ 0 \in Time /\ 1 \in Time
BY ConstantsAssumption DEF Time, Unread

\* The initial states are typed.
LEMMA InitTypeOK == Init => TypeOK
<1> SUFFICES ASSUME Init PROVE TypeOK
  OBVIOUS
<1> USE ConstantsAssumption, NamesDiffer, TimeType
<1>1. pc \in [Builders -> JobStates \cup RequestStates]
  BY DEF Init, Booted, JobStates, RequestStates
<1>2. \A j \in Jobs : pc[j] \in JobStates
  BY DEF Init, Booted, JobStates
<1>3. \A r \in Requests : pc[r] \in RequestStates
  BY DEF Init, Booted, RequestStates, Jobs
<1>4. reads \in [Builders -> [Queries -> Time \cup {Unread}]]
  BY DEF Init, NothingRead
<1>5. /\ db \in [Tables -> Time]
      /\ base \in [Builders -> [Tables -> Time]]
  BY DEF Init, EmptyDatabase
<1>6. answer \in [Requests -> Snapshot \cup {NoSnapshot}]
  BY DEF Init
<1>7. clock \in Time /\ issue \in Time
  BY DEF Init
<1>8. stored \in BOOLEAN
  BY DEF Init
<1>9. faults \in 0 .. MaxFaults
  BY DEF Init, ConstantsAssumption
<1> QED
  BY <1>1, <1>2, <1>3, <1>4, <1>5, <1>6, <1>7, <1>8, <1>9 DEF Init, TypeOK

\* A job moves to another of its states.
LEMMA JobMoves ==
    ASSUME TypeOK, NEW j \in Jobs, NEW step \in JobStates, pc' = [pc EXCEPT ![j] = step]
    PROVE  /\ pc' \in [Builders -> JobStates \cup RequestStates]
           /\ \A k \in Jobs : pc'[k] \in JobStates
           /\ \A r \in Requests : pc'[r] \in RequestStates
<1>1. j \in Builders /\ j \notin Requests
  BY ConstantsAssumption DEF Builders
<1> QED
  BY <1>1 DEF TypeOK, Builders

\* Every step keeps the types, action by action.
LEMMA NextTypeOK == TypeOK /\ [Next]_vars => TypeOK'
<1> SUFFICES ASSUME TypeOK, [Next]_vars PROVE TypeOK'
  OBVIOUS
<1> USE ConstantsAssumption, NamesDiffer, TimeType, SourceType DEF TypeOK
<1>1. CASE UNCHANGED vars
  BY <1>1 DEF vars
<1>2. ASSUME NEW j \in Jobs, AcquireRefresh(j) PROVE TypeOK'
  BY <1>2 DEF AcquireRefresh, JobStates
<1>3. ASSUME NEW j \in Jobs, SwapIn(j) PROVE TypeOK'
  BY <1>3 DEF SwapIn, AllRead, DropBuild, NothingRead, Snapshot, JobStates
<1>4. ASSUME NEW j \in Jobs, BuildFailed(j) PROVE TypeOK'
  BY <1>4 DEF BuildFailed, DropBuild, NothingRead, JobStates
<1>5. ASSUME NEW j \in Jobs, AfterRefresh(j) PROVE TypeOK'
  BY <1>5 DEF AfterRefresh, ForgetBase, EmptyDatabase, JobStates, Jobs
<1>6. ASSUME NEW b \in Builders, NEW q \in Queries, Read(b, q) PROVE TypeOK'
  BY <1>6 DEF Read
<1>7. ASSUME NEW j \in Jobs, Deadline(j) PROVE TypeOK'
  BY <1>7 DEF Deadline, DropBuild, NothingRead, ForgetBase, EmptyDatabase, JobStates
<1>8. CASE StartupForecast
  BY <1>8 DEF StartupForecast, CallRefresh, JobStates
<1>9. CASE StartPriceRun
  BY <1>9 DEF StartPriceRun, JobStates
<1>10. CASE FetchToday
  <2>1. db' \in [Tables -> Time]
    BY <1>10 DEF FetchToday, StorePrices, Tables
  <2>2. /\ pc' \in [Builders -> JobStates \cup RequestStates]
        /\ \A j \in Jobs : pc'[j] \in JobStates
        /\ \A r \in Requests : pc'[r] \in RequestStates
    <3>1. PICK step \in {"tomorrow", "idle"} : pc' = [pc EXCEPT !["price"] = step]
      BY <1>10, Zenon DEF FetchToday
    <3> QED
      BY <3>1, JobMoves DEF JobStates, Jobs
  <2>3. stored' \in BOOLEAN
    BY <1>10 DEF FetchToday
  <2>4. faults' \in 0 .. MaxFaults
    BY <1>10 DEF FetchToday
  <2> QED
    BY <1>10, <2>1, <2>2, <2>3, <2>4 DEF FetchToday
<1>11. CASE FetchTomorrow
  <2>1. db' \in [Tables -> Time]
    BY <1>11 DEF FetchTomorrow, StorePrices, Tables
  <2>2. /\ pc' \in [Builders -> JobStates \cup RequestStates]
        /\ \A j \in Jobs : pc'[j] \in JobStates
        /\ \A r \in Requests : pc'[r] \in RequestStates
    <3>1. PICK step \in {"waiting", "idle"} : pc' = [pc EXCEPT !["price"] = step]
      BY <1>11, Zenon DEF FetchTomorrow, CallRefresh
    <3> QED
      BY <3>1, JobMoves DEF JobStates, Jobs
  <2>3. stored' \in BOOLEAN
    BY <1>11 DEF FetchTomorrow
  <2>4. faults' \in 0 .. MaxFaults
    BY <1>11 DEF FetchTomorrow
  <2>5. base' \in [Builders -> [Tables -> Time]]
    <3>1. CASE UNCHANGED base
      BY <3>1
    <3>2. CASE base' = [base EXCEPT !["price"] = db]
      BY <3>2
    <3>3. CASE base' = [base EXCEPT !["price"] = db']
      BY <3>3, <2>1
    <3> QED
      BY <1>11, <3>1, <3>2, <3>3 DEF FetchTomorrow, CallRefresh
  <2> QED
    BY <1>11, <2>1, <2>2, <2>3, <2>4, <2>5 DEF FetchTomorrow
<1>12. CASE StartFingridRun
  BY <1>12 DEF StartFingridRun, JobStates
<1>13. CASE FetchSeries
  <2>1. db' \in [Tables -> Time]
    BY <1>13 DEF FetchSeries, Tables
  <2>2. /\ pc' \in [Builders -> JobStates \cup RequestStates]
        /\ \A j \in Jobs : pc'[j] \in JobStates
        /\ \A r \in Requests : pc'[r] \in RequestStates
    <3>1. PICK step \in {"prune", "archive"} : pc' = [pc EXCEPT !["fingrid"] = step]
      BY <1>13 DEF FetchSeries
    <3> QED
      BY <3>1, JobMoves DEF JobStates, Jobs
  <2>3. stored' \in BOOLEAN
    BY <1>13 DEF FetchSeries
  <2>4. faults' \in 0 .. MaxFaults
    BY <1>13 DEF FetchSeries
  <2> QED
    BY <1>13, <2>1, <2>2, <2>3, <2>4 DEF FetchSeries
<1>14. CASE PruneActuals
  <2>1. /\ pc' \in [Builders -> JobStates \cup RequestStates]
        /\ \A j \in Jobs : pc'[j] \in JobStates
        /\ \A r \in Requests : pc'[r] \in RequestStates
    <3>1. PICK step \in {"vintages", "archive"} : pc' = [pc EXCEPT !["fingrid"] = step]
      BY <1>14, Zenon DEF PruneActuals
    <3> QED
      BY <3>1, JobMoves DEF JobStates, Jobs
  <2>2. faults' \in 0 .. MaxFaults
    BY <1>14 DEF PruneActuals
  <2> QED
    BY <1>14, <2>1, <2>2 DEF PruneActuals
<1>15. CASE StoreVintages
  <2>1. db' \in [Tables -> Time]
    BY <1>15 DEF StoreVintages, Tables
  <2>2. /\ pc' \in [Builders -> JobStates \cup RequestStates]
        /\ \A j \in Jobs : pc'[j] \in JobStates
        /\ \A r \in Requests : pc'[r] \in RequestStates
    BY <1>15 DEF StoreVintages, CallRefresh, JobStates
  <2>3. stored' \in BOOLEAN
    BY <1>15 DEF StoreVintages
  <2>4. faults' \in 0 .. MaxFaults
    BY <1>15 DEF StoreVintages
  <2> QED
    BY <1>15, <2>1, <2>2, <2>3, <2>4 DEF StoreVintages, CallRefresh
<1>16. CASE ArchiveVintages
  BY <1>16 DEF ArchiveVintages, JobStates
<1>17. ASSUME NEW r \in Requests, RequestStart(r) PROVE TypeOK'
  BY <1>17 DEF RequestStart, RequestStates
<1>18. ASSUME NEW r \in Requests, RequestWithoutForecast(r) PROVE TypeOK'
  BY <1>18 DEF RequestWithoutForecast, ForgetBase, EmptyDatabase, RequestStates
<1>19. ASSUME NEW r \in Requests, RequestCached(r) PROVE TypeOK'
  BY <1>19 DEF RequestCached, Usable, RequestStates
<1>20. ASSUME NEW r \in Requests, RequestBuild(r) PROVE TypeOK'
  BY <1>20 DEF RequestBuild, RequestStates
<1>21. ASSUME NEW r \in Requests, RequestBuilt(r) PROVE TypeOK'
  BY <1>21 DEF RequestBuilt, AllRead, DropBuild, NothingRead, Snapshot, RequestStates
<1>22. ASSUME NEW r \in Requests, RequestEnd(r) PROVE TypeOK'
  BY <1>22 DEF RequestEnd, DropBuild, NothingRead, ForgetBase, EmptyDatabase, RequestStates
<1>23. CASE Tick
  BY <1>23 DEF Tick, Time
<1>24. CASE Restart
  BY <1>24 DEF Restart, Booted, NothingRead, EmptyDatabase, JobStates, RequestStates, Jobs
<1> QED
  BY <1>1, <1>2, <1>3, <1>4, <1>5, <1>6, <1>7, <1>8, <1>9, <1>10, <1>11, <1>12,
     <1>13, <1>14, <1>15, <1>16, <1>17, <1>18, <1>19, <1>20, <1>21, <1>22, <1>23, <1>24
  DEF Next, Refresh, PriceRun, FingridRun, Request

\* Every variable holds a value of its type in every reachable state.
THEOREM TypeCorrect == Spec => []TypeOK
BY InitTypeOK, NextTypeOK, PTL DEF Spec

-----------------------------------------------------------------------------

\* The versions as integers.
Numbers ==
    /\ clock \in Int /\ issue \in Int
    /\ \A t \in Tables : db[t] \in Int /\ 0 <= db[t]
    /\ \A b \in Builders : \A q \in Queries : reads[b][q] \in Int
    /\ \A b \in Builders : \A t \in Tables : base[b][t] \in Int /\ 0 <= base[b][t]
    /\ cache # NoSnapshot => \A q \in Queries : cache[q] \in Int

\* All instants of a typed state are numbers.
LEMMA NumbersNow == TypeOK => Numbers
BY ConstantsAssumption DEF TypeOK, Numbers, Time, Unread, Snapshot

\* All instants of a typed next state are numbers.
LEMMA NumbersNext == TypeOK' => Numbers'
BY ConstantsAssumption DEF TypeOK, Numbers, Time, Unread, Snapshot

\* Every query of a build reads a table.
LEMMA SourceIsTable == \A q \in Queries : Source[q] \in Tables
BY SourceType

\* A step outside the refresh: it stores newer rows or none, moves a task or a
\* request that is not building, or ends a request.
Outside ==
    /\ UNCHANGED <<lock, cache>>
    /\ \A t \in Tables : db[t] <= db'[t]
    /\ VersionInv'
    /\ \A b \in Builders : reads'[b] \in {reads[b], NothingRead}
    /\ \A j \in Jobs : pc[j] = "building" <=> pc'[j] = "building"
    /\ \A j \in Jobs : pc'[j] = "refreshed" => pc[j] = "refreshed"
    /\ \A j \in Jobs : pc'[j] \in {"building", "refreshed"} => base'[j] = base[j]
    /\ \A b \in Builders : base'[b] \in {base[b], db, db', EmptyDatabase}
    /\ ReadsInv'

\* Such a step keeps the inductive invariant: the refresh does not see it.
LEMMA OutsideKeepsIInv == IInv /\ TypeOK' /\ Outside => IInv'
<1> SUFFICES ASSUME IInv, TypeOK', Outside PROVE IInv'
  OBVIOUS
<1> USE NamesDiffer, SourceIsTable DEF IInv, Outside
<1>n. Numbers /\ Numbers'
  BY NumbersNow, NumbersNext
<1>1. LockInv'
  BY DEF LockInv
<1>2. PastInv'
  <2>1. ASSUME NEW b \in Builders, NEW q \in Queries PROVE reads'[b][q] <= db'[Source[q]]
    <3>1. reads[b][q] <= db[Source[q]] /\ db[Source[q]] <= db'[Source[q]]
      BY DEF PastInv
    <3>2. reads'[b][q] \in {reads[b][q], -1}
      BY DEF NothingRead, Unread
    <3> QED
      BY <1>n, <3>1, <3>2 DEF Numbers
  <2>2. ASSUME NEW b \in Builders, NEW t \in Tables PROVE base'[b][t] <= db'[t]
    <3>1. base[b][t] <= db[t] /\ db[t] <= db'[t]
      BY DEF PastInv
    <3>2. base'[b][t] \in {base[b][t], db[t], db'[t], 0}
      BY DEF EmptyDatabase
    <3> QED
      BY <1>n, <3>1, <3>2 DEF Numbers
  <2>3. ASSUME cache' # NoSnapshot, NEW q \in Queries PROVE cache'[q] <= db'[Source[q]]
    <3>1. cache[q] <= db[Source[q]] /\ db[Source[q]] <= db'[Source[q]] /\ cache' = cache
      BY <2>3 DEF PastInv
    <3> QED
      BY <1>n, <2>3, <3>1 DEF Numbers
  <2> QED
    BY <2>1, <2>2, <2>3 DEF PastInv
<1>3. BuildInv'
  <2> SUFFICES ASSUME NEW j \in Jobs, pc'[j] = "building",
                      NEW q \in Queries, reads'[j][q] # Unread
               PROVE  /\ base'[j][Source[q]] <= reads'[j][q]
                      /\ cache' # NoSnapshot => cache'[q] <= reads'[j][q]
    BY DEF BuildInv
  <2>1. reads'[j] = reads[j]
    BY DEF NothingRead
  <2>2. pc[j] = "building" /\ base'[j] = base[j]
    OBVIOUS
  <2> QED
    BY <2>1, <2>2 DEF BuildInv
<1>4. RefreshReflectsCommitted'
  BY DEF RefreshReflectsCommitted
<1> QED
  BY <1>1, <1>2, <1>3, <1>4

-----------------------------------------------------------------------------

\* The initial states satisfy the invariant.
LEMMA InitIInv == Init => IInv
<1> SUFFICES ASSUME Init PROVE IInv
  OBVIOUS
<1> USE NamesDiffer, SourceIsTable DEF Init
<1>1. TypeOK
  BY InitTypeOK
<1>2. LockInv
  BY DEF LockInv, Booted
<1>3. VersionInv
  BY DEF VersionInv, EmptyDatabase, Tables
<1>4. PastInv
  BY DEF PastInv, NothingRead, Unread, EmptyDatabase
<1>5. ReadsInv
  BY DEF ReadsInv
<1>6. BuildInv
  BY DEF BuildInv, NothingRead
<1>7. RefreshReflectsCommitted
  BY DEF RefreshReflectsCommitted, Booted
<1> QED
  BY <1>1, <1>2, <1>3, <1>4, <1>5, <1>6, <1>7 DEF IInv

\* The steps of the tasks and the requests outside the refresh.
LEMMA TaskStepIsOutside ==
    ASSUME IInv, TypeOK',
           \/ StartupForecast \/ PriceRun \/ FingridRun \/ Tick
           \/ \E r \in Requests :
                 \/ RequestStart(r) \/ RequestWithoutForecast(r) \/ RequestCached(r)
                 \/ RequestBuild(r) \/ RequestBuilt(r) \/ RequestEnd(r)
           \/ \E j \in Jobs : AfterRefresh(j)
    PROVE  Outside
<1> USE NamesDiffer DEF IInv
<1>n. Numbers /\ Numbers'
  BY NumbersNow, NumbersNext
<1>1. CASE StartupForecast
  BY <1>1, <1>n DEF StartupForecast, CallRefresh, Outside, VersionInv, ReadsInv, Numbers, TypeOK
<1>2. CASE StartPriceRun
  BY <1>2, <1>n DEF StartPriceRun, Outside, VersionInv, ReadsInv, Numbers, TypeOK
<1>3. CASE FetchToday
  <2>1. (\A t \in Tables : db[t] <= db'[t]) /\ VersionInv'
    <3>1. /\ UNCHANGED <<clock, issue>>
          /\ db' = db \/ db' = [db EXCEPT !["prices"] = clock]
      BY <1>3 DEF FetchToday, StorePrices
    <3> QED
      BY <3>1, <1>n DEF VersionInv, Numbers, TypeOK, Tables
  <2>2. /\ \A j \in Jobs : pc[j] = "building" <=> pc'[j] = "building"
        /\ \A j \in Jobs : pc'[j] = "refreshed" => pc[j] = "refreshed"
        /\ \A j \in Jobs : pc'[j] \in {"building", "refreshed"} => base'[j] = base[j]
    BY <1>3 DEF FetchToday, TypeOK
  <2>3. ReadsInv'
    BY <1>3, <2>2 DEF FetchToday, ReadsInv, TypeOK
  <2>4. \A b \in Builders : base'[b] \in {base[b], db, db', EmptyDatabase}
    BY <1>3 DEF FetchToday, TypeOK
  <2> QED
    BY <1>3, <2>1, <2>2, <2>3, <2>4 DEF FetchToday, Outside
<1>4. CASE FetchTomorrow
  <2>1. (\A t \in Tables : db[t] <= db'[t]) /\ VersionInv'
    <3>1. /\ UNCHANGED <<clock, issue>>
          /\ db' = db \/ db' = [db EXCEPT !["prices"] = clock]
      BY <1>4 DEF FetchTomorrow, StorePrices
    <3> QED
      BY <3>1, <1>n DEF VersionInv, Numbers, TypeOK, Tables
  <2>2. /\ \A j \in Jobs : pc[j] = "building" <=> pc'[j] = "building"
        /\ \A j \in Jobs : pc'[j] = "refreshed" => pc[j] = "refreshed"
        /\ \A j \in Jobs : pc'[j] \in {"building", "refreshed"} => base'[j] = base[j]
    BY <1>4 DEF FetchTomorrow, CallRefresh, TypeOK
  <2>3. ReadsInv'
    BY <1>4, <2>2 DEF FetchTomorrow, CallRefresh, ReadsInv, TypeOK
  <2>4. \A b \in Builders : base'[b] \in {base[b], db, db', EmptyDatabase}
    BY <1>4 DEF FetchTomorrow, CallRefresh, TypeOK
  <2> QED
    BY <1>4, <2>1, <2>2, <2>3, <2>4 DEF FetchTomorrow, Outside
<1>5. CASE StartFingridRun
  <2>1. (\A t \in Tables : db[t] <= db'[t]) /\ VersionInv'
    BY <1>5, <1>n DEF StartFingridRun, VersionInv, Numbers, TypeOK, Tables
  <2>2. /\ \A j \in Jobs : pc[j] = "building" <=> pc'[j] = "building"
        /\ \A j \in Jobs : pc'[j] = "refreshed" => pc[j] = "refreshed"
        /\ \A j \in Jobs : pc'[j] \in {"building", "refreshed"} => base'[j] = base[j]
    BY <1>5 DEF StartFingridRun, TypeOK
  <2>3. ReadsInv'
    BY <1>5, <2>2 DEF StartFingridRun, ReadsInv, TypeOK
  <2>4. \A b \in Builders : base'[b] \in {base[b], db, db', EmptyDatabase}
    BY <1>5 DEF StartFingridRun, TypeOK
  <2> QED
    BY <1>5, <2>1, <2>2, <2>3, <2>4 DEF StartFingridRun, Outside
<1>6. CASE FetchSeries
  <2>1. (\A t \in Tables : db[t] <= db'[t]) /\ VersionInv'
    BY <1>6, <1>n DEF FetchSeries, VersionInv, Numbers, TypeOK, Tables
  <2>2. /\ \A j \in Jobs : pc[j] = "building" <=> pc'[j] = "building"
        /\ \A j \in Jobs : pc'[j] = "refreshed" => pc[j] = "refreshed"
        /\ \A j \in Jobs : pc'[j] \in {"building", "refreshed"} => base'[j] = base[j]
    BY <1>6 DEF FetchSeries, TypeOK
  <2>3. ReadsInv'
    BY <1>6, <2>2 DEF FetchSeries, ReadsInv, TypeOK
  <2>4. \A b \in Builders : base'[b] \in {base[b], db, db', EmptyDatabase}
    BY <1>6 DEF FetchSeries, TypeOK
  <2> QED
    BY <1>6, <2>1, <2>2, <2>3, <2>4 DEF FetchSeries, Outside
<1>7. CASE PruneActuals
  BY <1>7, <1>n DEF PruneActuals, Outside, VersionInv, ReadsInv, Numbers, TypeOK
<1>8. CASE StoreVintages
  <2>1. (\A t \in Tables : db[t] <= db'[t]) /\ VersionInv'
    BY <1>8, <1>n DEF StoreVintages, VersionInv, Numbers, TypeOK, Tables
  <2>2. /\ \A j \in Jobs : pc[j] = "building" <=> pc'[j] = "building"
        /\ \A j \in Jobs : pc'[j] = "refreshed" => pc[j] = "refreshed"
        /\ \A j \in Jobs : pc'[j] \in {"building", "refreshed"} => base'[j] = base[j]
    BY <1>8 DEF StoreVintages, CallRefresh, TypeOK
  <2>3. ReadsInv'
    BY <1>8, <2>2 DEF StoreVintages, CallRefresh, ReadsInv, TypeOK
  <2>4. \A b \in Builders : base'[b] \in {base[b], db, db', EmptyDatabase}
    BY <1>8 DEF StoreVintages, CallRefresh, TypeOK
  <2> QED
    BY <1>8, <2>1, <2>2, <2>3, <2>4 DEF StoreVintages, Outside
<1>9. CASE ArchiveVintages
  BY <1>9, <1>n DEF ArchiveVintages, Outside, VersionInv, ReadsInv, Numbers, TypeOK
<1>10. CASE Tick
  BY <1>10, <1>n DEF Tick, Outside, VersionInv, ReadsInv, Numbers
<1>11. ASSUME NEW r \in Requests, RequestStart(r) PROVE Outside
  BY <1>11, <1>n DEF RequestStart, Outside, VersionInv, ReadsInv, Numbers, TypeOK
<1>12. ASSUME NEW r \in Requests, RequestWithoutForecast(r) PROVE Outside
  BY <1>12, <1>n DEF RequestWithoutForecast, ForgetBase, Outside, VersionInv, ReadsInv, Numbers, TypeOK
<1>13. ASSUME NEW r \in Requests, RequestCached(r) PROVE Outside
  BY <1>13, <1>n DEF RequestCached, Outside, VersionInv, ReadsInv, Numbers, TypeOK
<1>14. ASSUME NEW r \in Requests, RequestBuild(r) PROVE Outside
  BY <1>14, <1>n DEF RequestBuild, Outside, VersionInv, ReadsInv, Numbers, TypeOK
<1>15. ASSUME NEW r \in Requests, RequestBuilt(r) PROVE Outside
  BY <1>15, <1>n DEF RequestBuilt, DropBuild, Outside, VersionInv, ReadsInv, Numbers, TypeOK
<1>16. ASSUME NEW r \in Requests, RequestEnd(r) PROVE Outside
  BY <1>16, <1>n DEF RequestEnd, DropBuild, ForgetBase, Outside, VersionInv, ReadsInv, Numbers, TypeOK
<1>17. ASSUME NEW j \in Jobs, AfterRefresh(j) PROVE Outside
  BY <1>17, <1>n DEF AfterRefresh, ForgetBase, Outside, VersionInv, ReadsInv, Numbers, TypeOK, Jobs
<1> QED
  BY <1>1, <1>2, <1>3, <1>4, <1>5, <1>6, <1>7, <1>8, <1>9, <1>10, <1>11, <1>12,
     <1>13, <1>14, <1>15, <1>16, <1>17 DEF PriceRun, FingridRun

-----------------------------------------------------------------------------

\* The steps of the refresh, each with the parts of the invariant it disturbs.

\* The holder of the mutex starts with nothing read.
LEMMA AcquireKeepsIInv ==
    ASSUME NEW j \in Jobs, IInv, TypeOK', AcquireRefresh(j)
    PROVE  IInv'
<1> USE NamesDiffer DEF IInv, AcquireRefresh
<1>1. LockInv'
  BY DEF LockInv, TypeOK
<1>2. VersionInv' /\ PastInv'
  BY DEF VersionInv, PastInv
<1>3. ReadsInv'
  BY DEF ReadsInv, TypeOK
<1>4. BuildInv'
  <2>1. reads[j] = NothingRead
    BY DEF ReadsInv
  <2>2. \A k \in Jobs : pc'[k] = "building" => k = j
    BY DEF LockInv, TypeOK
  <2> QED
    BY <2>1, <2>2 DEF BuildInv, NothingRead
<1>5. RefreshReflectsCommitted'
  BY DEF RefreshReflectsCommitted, TypeOK
<1> QED
  BY <1>1, <1>2, <1>3, <1>4, <1>5

\* What a query returns is at least what the build had to see and what is served.
LEMMA ReadKeepsIInv ==
    ASSUME NEW b \in Builders, NEW q \in Queries, IInv, TypeOK', Read(b, q)
    PROVE  IInv'
<1> USE NamesDiffer, SourceIsTable DEF IInv, Read
<1>n. Numbers /\ Numbers'
  BY NumbersNow, NumbersNext
<1>1. LockInv' /\ VersionInv' /\ RefreshReflectsCommitted'
  BY DEF LockInv, VersionInv, RefreshReflectsCommitted
<1>2. PastInv'
  <2>1. ASSUME NEW c \in Builders, NEW p \in Queries PROVE reads'[c][p] <= db'[Source[p]]
    <3>1. reads'[c][p] \in {reads[c][p], db[Source[p]]}
      BY DEF TypeOK
    <3> QED
      BY <1>n, <3>1 DEF PastInv, Numbers
  <2> QED
    BY <2>1 DEF PastInv
<1>3. ReadsInv'
  BY DEF ReadsInv, TypeOK
<1>4. BuildInv'
  <2> SUFFICES ASSUME NEW j \in Jobs, pc'[j] = "building",
                      NEW p \in Queries, reads'[j][p] # Unread
               PROVE  /\ base'[j][Source[p]] <= reads'[j][p]
                      /\ cache' # NoSnapshot => cache'[p] <= reads'[j][p]
    BY DEF BuildInv
  <2>1. CASE reads'[j][p] = reads[j][p]
    BY <2>1 DEF BuildInv
  <2>2. CASE reads'[j][p] = db[Source[p]]
    BY <2>2 DEF PastInv
  <2> QED
    BY <2>1, <2>2 DEF TypeOK
<1> QED
  BY <1>1, <1>2, <1>3, <1>4

\* The result of the holder replaces one that is not newer.
LEMMA SwapInKeepsIInv ==
    ASSUME NEW j \in Jobs, IInv, TypeOK', SwapIn(j)
    PROVE  IInv'
<1> USE NamesDiffer, SourceIsTable DEF IInv, SwapIn, DropBuild
<1>n. Numbers /\ Numbers'
  BY NumbersNow, NumbersNext
<1>1. \A k \in Jobs : pc'[k] # "building"
  BY DEF LockInv, TypeOK
<1>2. LockInv'
  BY <1>1
  DEF LockInv
<1>3. VersionInv'
  BY DEF VersionInv
<1>4. PastInv'
  BY DEF PastInv, NothingRead, Unread, TypeOK, Time
<1>5. ReadsInv'
  BY DEF ReadsInv, TypeOK
<1>6. BuildInv'
  BY <1>1 DEF BuildInv
<1>7. cache' # NoSnapshot
  <2>1. cache' \in Snapshot
    BY DEF AllRead, TypeOK, Snapshot
  <2> QED
    BY <2>1, ConstantsAssumption
<1>8. \A q \in Queries : /\ base[j][Source[q]] <= cache'[q]
                         /\ cache # NoSnapshot => cache[q] <= cache'[q]
  BY DEF BuildInv, AllRead
<1>9. RefreshReflectsCommitted'
  <2> SUFFICES ASSUME NEW k \in Jobs, pc'[k] = "refreshed", NEW q \in Queries
               PROVE  cache'[q] >= base[k][Source[q]]
    BY <1>7 DEF RefreshReflectsCommitted
  <2>1. CASE k = j
    BY <1>n, <1>8, <2>1 DEF Numbers
  <2>2. CASE k # j
    <3>1. cache # NoSnapshot /\ cache[q] >= base[k][Source[q]]
      BY <2>2 DEF RefreshReflectsCommitted, TypeOK
    <3> QED
      BY <1>n, <1>7, <1>8, <3>1 DEF Numbers
  <2> QED
    BY <2>1, <2>2
<1> QED
  BY <1>2, <1>3, <1>4, <1>5, <1>6, <1>9

\* A build that ends without a result releases the mutex and its inputs.
LEMMA DroppedBuildKeepsIInv ==
    ASSUME NEW j \in Jobs, IInv, TypeOK', BuildFailed(j) \/ Deadline(j)
    PROVE  IInv'
<1> USE NamesDiffer, SourceIsTable DEF IInv, DropBuild, ForgetBase
<1>n. Numbers /\ Numbers'
  BY NumbersNow, NumbersNext
<1>1. /\ UNCHANGED <<clock, db, issue, cache>>
      /\ lock' = IF lock = j THEN Free ELSE lock
      /\ reads' = [reads EXCEPT ![j] = NothingRead]
      /\ base' \in {base, [base EXCEPT ![j] = EmptyDatabase]}
      /\ pc'[j] \notin {"building", "refreshed"}
      /\ \A b \in Builders : b # j => pc'[b] = pc[b]
  BY DEF BuildFailed, Deadline, LockInv, TypeOK
<1>2. LockInv'
  BY <1>1 DEF LockInv
<1>3. VersionInv'
  BY <1>1 DEF VersionInv
<1>4. PastInv'
  <2>1. ASSUME NEW b \in Builders, NEW q \in Queries PROVE reads'[b][q] <= db'[Source[q]]
    <3>1. reads'[b][q] \in {reads[b][q], -1}
      BY <1>1 DEF NothingRead, Unread, TypeOK
    <3> QED
      BY <1>n, <1>1, <3>1 DEF Numbers, PastInv
  <2>2. ASSUME NEW b \in Builders, NEW t \in Tables PROVE base'[b][t] <= db'[t]
    <3>1. base'[b][t] \in {base[b][t], 0}
      BY <1>1 DEF EmptyDatabase, TypeOK
    <3> QED
      BY <1>n, <1>1, <3>1 DEF Numbers, PastInv
  <2> QED
    BY <1>1, <2>1, <2>2 DEF PastInv
<1>5. ReadsInv'
  BY <1>1 DEF ReadsInv, TypeOK
<1>6. \A k \in Jobs : pc'[k] \in {"building", "refreshed"} =>
          k # j /\ pc[k] = pc'[k] /\ reads'[k] = reads[k] /\ base'[k] = base[k]
  BY <1>1 DEF TypeOK
<1>7. BuildInv' /\ RefreshReflectsCommitted'
  BY <1>1, <1>6 DEF BuildInv, RefreshReflectsCommitted
<1> QED
  BY <1>2, <1>3, <1>4, <1>5, <1>7

\* A restart keeps the database only.
LEMMA RestartKeepsIInv == IInv /\ TypeOK' /\ Restart => IInv'
<1> SUFFICES ASSUME IInv, TypeOK', Restart PROVE IInv'
  OBVIOUS
<1> USE NamesDiffer, SourceIsTable DEF IInv, Restart
<1>n. Numbers
  BY NumbersNow
<1>1. \A b \in Builders : pc'[b] \notin {"building", "refreshed"}
  BY DEF Booted
<1>2. LockInv'
  BY <1>1 DEF LockInv
<1>3. VersionInv'
  BY DEF VersionInv
<1>4. PastInv'
  BY <1>n DEF PastInv, NothingRead, Unread, EmptyDatabase, Numbers
<1>5. ReadsInv'
  BY DEF ReadsInv
<1>6. BuildInv' /\ RefreshReflectsCommitted'
  BY <1>1 DEF BuildInv, RefreshReflectsCommitted
<1> QED
  BY <1>2, <1>3, <1>4, <1>5, <1>6

\* Every step keeps the inductive invariant.
LEMMA NextIInv == IInv /\ [Next]_vars => IInv'
<1> SUFFICES ASSUME IInv, [Next]_vars PROVE IInv'
  OBVIOUS
<1>t. TypeOK'
  BY NextTypeOK DEF IInv
<1>1. CASE UNCHANGED vars
  <2>1. UNCHANGED <<clock, db, pc, issue, stored, reads, lock, cache, answer, faults, base>>
    BY <1>1 DEF vars
  <2> QED
    BY <1>t, <2>1 DEF IInv, LockInv, VersionInv, PastInv, ReadsInv, BuildInv, RefreshReflectsCommitted
<1>2. ASSUME NEW j \in Jobs, Refresh(j) \/ Deadline(j) PROVE IInv'
  <2>1. CASE AcquireRefresh(j)
    BY <1>t, <2>1, AcquireKeepsIInv
  <2>2. CASE SwapIn(j)
    BY <1>t, <2>2, SwapInKeepsIInv
  <2>3. CASE BuildFailed(j) \/ Deadline(j)
    BY <1>t, <2>3, DroppedBuildKeepsIInv
  <2>4. CASE AfterRefresh(j)
    BY <1>t, <2>4, TaskStepIsOutside, OutsideKeepsIInv
  <2>5. CASE \E q \in Queries : Read(j, q)
    BY <1>t, <2>5, ReadKeepsIInv, NamesDiffer
  <2> QED
    BY <1>2, <2>1, <2>2, <2>3, <2>4, <2>5 DEF Refresh
<1>3. CASE StartupForecast \/ PriceRun \/ FingridRun \/ Tick
  BY <1>t, <1>3, TaskStepIsOutside, OutsideKeepsIInv
<1>4. ASSUME NEW r \in Requests, Request(r) PROVE IInv'
  <2>1. CASE \E q \in Queries : Read(r, q)
    BY <1>t, <2>1, ReadKeepsIInv, NamesDiffer
  <2>2. CASE ~ \E q \in Queries : Read(r, q)
    BY <1>t, <1>4, <2>2, TaskStepIsOutside, OutsideKeepsIInv DEF Request
  <2> QED
    BY <2>1, <2>2
<1>5. CASE Restart
  BY <1>t, <1>5, RestartKeepsIInv
<1> QED
  BY <1>1, <1>2, <1>3, <1>4, <1>5 DEF Next

\* The inductive invariant holds in every reachable state.
LEMMA Invariant == Spec => []IInv
BY InitIInv, NextIInv, PTL DEF Spec

\* After a refresh that succeeded, the cache serves everything that was
\* committed when the refresh was asked for (ForecastCache::refresh).
THEOREM RefreshIsComplete == Spec => []RefreshReflectsCommitted
<1>1. IInv => RefreshReflectsCommitted
  BY DEF IInv
<1> QED
  BY <1>1, Invariant, PTL

\* No result with an older input replaces the served one, and only a restart
\* empties the cache (ForecastCache::replace under the refresh mutex).
THEOREM CacheIsMonotonic == Spec => CacheNeverRegresses
<1> DEFINE NoRegress ==
        /\ cache' = NoSnapshot => faults' > faults
        /\ cache # NoSnapshot /\ cache' # NoSnapshot
              => \A q \in Queries : cache'[q] >= cache[q]
<1>1. IInv /\ [Next]_vars => [NoRegress]_cache
  <2> SUFFICES ASSUME IInv, [Next]_vars, cache' # cache PROVE NoRegress
    OBVIOUS
  <2>n. Numbers /\ Numbers'
    BY NextTypeOK, NumbersNow, NumbersNext DEF IInv
  <2>1. (\E j \in Jobs : SwapIn(j)) \/ Restart
    BY DEF Next, vars, Refresh, AcquireRefresh, BuildFailed, AfterRefresh, Read, Deadline,
           StartupForecast, PriceRun, StartPriceRun, FetchToday, FetchTomorrow,
           FingridRun, StartFingridRun, FetchSeries, PruneActuals, StoreVintages,
           ArchiveVintages, Request, RequestStart, RequestWithoutForecast, RequestCached,
           RequestBuild, RequestBuilt, RequestEnd, Tick
  <2>2. CASE Restart
    BY <2>2 DEF Restart, IInv, TypeOK
  <2>3. ASSUME NEW j \in Jobs, SwapIn(j) PROVE NoRegress
    <3>1. cache' # NoSnapshot
      <4>1. cache' \in Snapshot
        BY <2>3, NamesDiffer DEF SwapIn, AllRead, IInv, TypeOK, Snapshot
      <4> QED
        BY <4>1, ConstantsAssumption
    <3>2. cache # NoSnapshot => \A q \in Queries : cache[q] <= cache'[q]
      BY <2>3 DEF SwapIn, AllRead, IInv, BuildInv
    <3> QED
      BY <2>n, <3>1, <3>2 DEF Numbers
  <2> QED
    BY <2>1, <2>2, <2>3
<1> QED
  BY <1>1, Invariant, PTL DEF Spec, CacheNeverRegresses

-----------------------------------------------------------------------------

\* What the build of a request has read is not older than its start.
RequestInv ==
    \A r \in Requests : pc[r] = "building" =>
        \A q \in Queries : reads[r][q] # Unread => base[r][Source[q]] <= reads[r][q]

\* A step that is not of request r, nor a restart, does not touch its part.
LEMMA OthersKeepRequest ==
    ASSUME NEW r \in Requests, [Next]_vars, TypeOK,
           ~Request(r), ~Restart
    PROVE  /\ pc'[r] = pc[r] /\ reads'[r] = reads[r]
           /\ base'[r] = base[r] /\ answer'[r] = answer[r]
<1> USE NamesDiffer DEF TypeOK
<1>1. CASE UNCHANGED vars
  BY <1>1 DEF vars
<1>2. ASSUME NEW j \in Jobs, Refresh(j) \/ Deadline(j)
      PROVE  /\ pc'[r] = pc[r] /\ reads'[r] = reads[r]
             /\ base'[r] = base[r] /\ answer'[r] = answer[r]
  BY <1>2 DEF Refresh, Deadline, AcquireRefresh, SwapIn, BuildFailed, AfterRefresh, Read,
              DropBuild, ForgetBase
<1>3. CASE StartupForecast
  BY <1>3 DEF StartupForecast, CallRefresh
<1>4. CASE PriceRun
  BY <1>4 DEF PriceRun, StartPriceRun, FetchToday, FetchTomorrow, CallRefresh
<1>5. CASE FingridRun
  BY <1>5 DEF FingridRun, StartFingridRun, FetchSeries, PruneActuals, StoreVintages,
              ArchiveVintages, CallRefresh
<1>6. ASSUME NEW s \in Requests, s # r, Request(s)
      PROVE  /\ pc'[r] = pc[r] /\ reads'[r] = reads[r]
             /\ base'[r] = base[r] /\ answer'[r] = answer[r]
  BY <1>6 DEF Request, RequestStart, RequestWithoutForecast, RequestCached, RequestBuild,
              RequestBuilt, RequestEnd, Read, DropBuild, ForgetBase
<1>7. CASE Tick
  BY <1>7 DEF Tick
<1> QED
  BY <1>1, <1>2, <1>3, <1>4, <1>5, <1>6, <1>7 DEF Next

\* The build of a request sees its start, and its answer follows.
LEMMA NextRequestInv ==
    IInv /\ RequestInv /\ AnswerStartsAfterPublishedPrices /\ [Next]_vars
        => RequestInv' /\ AnswerStartsAfterPublishedPrices'
<1> SUFFICES ASSUME IInv, RequestInv, AnswerStartsAfterPublishedPrices, [Next]_vars,
                    NEW r \in Requests
             PROVE  /\ pc'[r] = "building" =>
                          \A q \in Queries : reads'[r][q] # Unread
                              => base'[r][Source[q]] <= reads'[r][q]
                    /\ pc'[r] = "answered" /\ base'[r]["prices"] # 0
                          => ~WindowFromClock(answer'[r])
  BY DEF RequestInv, AnswerStartsAfterPublishedPrices
<1> USE NamesDiffer, SourceIsTable DEF RequestInv, AnswerStartsAfterPublishedPrices
<1>t. TypeOK /\ TypeOK'
  BY NextTypeOK DEF IInv
<1>n. Numbers
  BY <1>t, NumbersNow
<1>1. CASE ~Request(r) /\ ~Restart
  BY <1>1, <1>t, OthersKeepRequest
<1>2. CASE Restart
  BY <1>2 DEF Restart, Booted, Jobs
<1>3. CASE RequestStart(r) \/ RequestWithoutForecast(r) \/ RequestEnd(r)
  BY <1>3, <1>t DEF RequestStart, RequestWithoutForecast, RequestEnd, TypeOK
<1>4. CASE RequestCached(r)
  BY <1>4, <1>t DEF RequestCached, Usable, TypeOK
<1>5. CASE RequestBuild(r)
  <2>1. reads'[r] = NothingRead /\ pc'[r] = "building"
    BY <1>5, <1>t DEF RequestBuild, IInv, ReadsInv, TypeOK
  <2> QED
    BY <2>1 DEF NothingRead
<1>6. CASE RequestBuilt(r)
  <2>1. /\ pc[r] = "building" /\ pc'[r] = "answered"
        /\ answer'[r] = reads[r] /\ base'[r] = base[r]
    BY <1>6, <1>t DEF RequestBuilt, TypeOK
  <2>2. "last" \in Queries /\ Source["last"] = "prices" /\ "prices" \in Tables
    BY DEF Queries, Source, Tables
  <2>3. base[r]["prices"] <= reads[r]["last"]
    BY <1>6, <2>1, <2>2 DEF RequestBuilt, AllRead
  <2>4. base[r]["prices"] \in Int /\ 0 <= base[r]["prices"] /\ reads[r]["last"] \in Int
    BY <1>n, <2>2 DEF Numbers
  <2>5. base[r]["prices"] # 0 => reads[r]["last"] # 0
    BY <2>3, <2>4
  <2> QED
    BY <2>1, <2>5 DEF WindowFromClock
<1>7. ASSUME NEW p \in Queries, Read(r, p)
      PROVE  /\ pc'[r] = "building" =>
                    \A q \in Queries : reads'[r][q] # Unread
                        => base'[r][Source[q]] <= reads'[r][q]
             /\ pc'[r] = "answered" /\ base'[r]["prices"] # 0
                    => ~WindowFromClock(answer'[r])
  <2>1. pc[r] = "building" /\ pc' = pc /\ base' = base /\ answer' = answer
    BY <1>7 DEF Read
  <2>2. \A q \in Queries : reads'[r][q] \in {reads[r][q], db[Source[q]]}
    BY <1>7, <1>t DEF Read, TypeOK
  <2>3. \A q \in Queries : base[r][Source[q]] <= db[Source[q]]
    BY DEF IInv, PastInv
  <2>4. \A q \in Queries : reads'[r][q] = reads[r][q] \/ reads'[r][q] = db[Source[q]]
    BY <2>2
  <2> QED
    BY <2>1, <2>3, <2>4
<1> QED
  BY <1>1, <1>2, <1>3, <1>4, <1>5, <1>6, <1>7 DEF Request

\* A request that starts when an FI price is stored never answers with a
\* window that was taken from the clock (http/forecast.rs).
THEOREM AnswersFollowPrices == Spec => []AnswerStartsAfterPublishedPrices
<1>1. Init => RequestInv /\ AnswerStartsAfterPublishedPrices
  BY NamesDiffer DEF Init, Booted, RequestInv, AnswerStartsAfterPublishedPrices, Jobs
<1> QED
  BY <1>1, Invariant, NextRequestInv, PTL DEF Spec

-----------------------------------------------------------------------------
(***************************************************************************)
(* The refinement of ServedForecast: every step of a job, a request or the *)
(* environment is one step of the abstract specification or leaves its     *)
(* variables alone.                                                        *)
(***************************************************************************)

\* The value of `asked` in the abstract specification.
Questions == [j \in Jobs |-> Asked(j)]

\* No table gets older rows.
Grown == \A t \in Tables : db'[t] >= db[t]

\* What a job asked is the database that it saw.
LEMMA AskedType ==
    ASSUME TypeOK, NEW j \in Jobs, pc[j] \in {"waiting", "building"}
    PROVE  Asked(j) = base[j] /\ Asked(j) # NoSnapshot
<1>1. base[j] \in [Tables -> Time]
  BY NamesDiffer DEF TypeOK
<1> QED
  BY <1>1, ConstantsAssumption DEF Asked

-----------------------------------------------------------------------------

\* A step that neither swaps a result nor begins or ends a refresh is a write
\* of the database, or it is not seen.
LEMMA QuietStep ==
    ASSUME TypeOK, TypeOK', UNCHANGED cache, Grown,
           \A k \in Jobs : Asked(k)' = Asked(k)
    PROVE  [Promise!Next]_(Promise!vars)
<1>1. Questions' = Questions
  BY DEF Questions
<1>2. Promise!Write
  BY DEF Promise!Write, Promise!Grows, Grown, TypeOK
<1> QED
  BY <1>1, <1>2 DEF Promise!Next, Promise!vars, Questions

\* A job calls refresh.
LEMMA AskStep ==
    ASSUME TypeOK, TypeOK', UNCHANGED cache, Grown, NEW j \in Jobs,
           Asked(j) = NoSnapshot, Asked(j)' = db',
           \A k \in Jobs \ {j} : Asked(k)' = Asked(k)
    PROVE  Promise!Next
<1>1. Questions' = [Questions EXCEPT ![j] = db']
  BY DEF Questions
<1>2. Promise!Write
  BY DEF Promise!Write, Promise!Grows, Grown, TypeOK
<1>3. Promise!Ask(j)
  BY <1>1, <1>2 DEF Promise!Ask, Questions
<1> QED
  BY <1>3 DEF Promise!Next

\* A refresh ends without a result, or was not running.
LEMMA GiveUpStep ==
    ASSUME UNCHANGED <<cache, db>>, NEW j \in Jobs, Asked(j)' = NoSnapshot,
           \A k \in Jobs \ {j} : Asked(k)' = Asked(k)
    PROVE  Promise!Next
<1>1. Questions' = [Questions EXCEPT ![j] = NoSnapshot]
  BY DEF Questions
<1>2. Promise!GiveUp(j)
  BY <1>1 DEF Promise!GiveUp, Questions
<1> QED
  BY <1>2 DEF Promise!Next

\* The swap publishes: the build read every input after the job had asked and
\* before now, and at least as late as the build of the served result.
LEMMA SwapInPublishes ==
    ASSUME IInv, TypeOK', NEW j \in Jobs, SwapIn(j)
    PROVE  Promise!Publish(j)
<1> USE NamesDiffer, SourceIsTable
<1>n. Numbers
  BY NumbersNow DEF IInv
<1>1. /\ pc[j] = "building" /\ pc'[j] = "refreshed"
      /\ \A k \in Jobs \ {j} : pc'[k] = pc[k] /\ base'[k] = base[k]
  BY DEF SwapIn, IInv, TypeOK
<1>2. Questions' = [Questions EXCEPT ![j] = NoSnapshot]
  BY <1>1 DEF Questions, Asked
<1>3. Questions[j] = base[j] /\ Questions[j] # NoSnapshot
  BY <1>1, AskedType DEF Questions, IInv
<1>4. cache' = reads[j] /\ cache' \in Snapshot
  BY DEF SwapIn, AllRead, IInv, TypeOK, Snapshot
<1>5. \A q \in Queries : cache'[q] \in base[j][Source[q]] .. db[Source[q]]
  <2> SUFFICES ASSUME NEW q \in Queries
               PROVE  cache'[q] \in base[j][Source[q]] .. db[Source[q]]
    OBVIOUS
  <2>1. base[j][Source[q]] <= reads[j][q] /\ reads[j][q] <= db[Source[q]]
    BY <1>1 DEF SwapIn, AllRead, IInv, BuildInv, PastInv
  <2>2. /\ base[j][Source[q]] \in Int /\ reads[j][q] \in Int
        /\ db[Source[q]] \in Int
    BY <1>n DEF Numbers
  <2> QED
    BY <1>4, <2>1, <2>2
<1>6. cache # NoSnapshot => Promise!Grows(cache, cache')
  <2> SUFFICES ASSUME cache # NoSnapshot PROVE Promise!Grows(cache, cache')
    OBVIOUS
  <2>1. DOMAIN cache = Queries
    BY DEF IInv, TypeOK, Snapshot
  <2>2. ASSUME NEW q \in Queries PROVE cache'[q] >= cache[q]
    <3>1. cache[q] <= reads[j][q]
      BY <1>1 DEF SwapIn, AllRead, IInv, BuildInv
    <3>2. cache[q] \in Int /\ reads[j][q] \in Int
      BY <1>n DEF Numbers
    <3> QED
      BY <1>4, <3>1, <3>2
  <2> QED
    BY <2>1, <2>2 DEF Promise!Grows
<1>7. UNCHANGED db
  BY DEF SwapIn
<1>8. Questions = [k \in Jobs |-> Asked(k)]
  BY DEF Questions
<1> QED
  BY <1>2, <1>3, <1>4, <1>5, <1>6, <1>7, <1>8 DEF Promise!Publish, Snapshot, Questions

-----------------------------------------------------------------------------

\* The database only grows in a step outside the refresh.
LEMMA OutsideGrows == TypeOK /\ TypeOK' /\ Outside => Grown
BY NumbersNow, NumbersNext DEF Outside, Grown, Numbers

\* The steps of the tasks outside the refresh: some call it, the others are
\* not seen.
LEMMA TaskStepMaps ==
    ASSUME IInv, TypeOK', StartupForecast \/ PriceRun \/ FingridRun \/ Tick
    PROVE  [Promise!Next]_(Promise!vars)
<1> USE NamesDiffer
<1>t. TypeOK
  BY DEF IInv
<1>o. Outside /\ Grown /\ UNCHANGED cache
  BY <1>t, TaskStepIsOutside, OutsideGrows DEF Outside
<1>1. CASE StartupForecast
  <2>1. /\ Asked("startup") = NoSnapshot /\ Asked("startup")' = db'
        /\ \A k \in Jobs \ {"startup"} : Asked(k)' = Asked(k)
    BY <1>1, <1>t DEF StartupForecast, CallRefresh, Asked, TypeOK
  <2> QED
    BY <2>1, <1>t, <1>o, AskStep
<1>2. CASE StartPriceRun
  <2>1. \A k \in Jobs : Asked(k)' = Asked(k)
    BY <1>2, <1>t DEF StartPriceRun, Asked, TypeOK
  <2> QED
    BY <2>1, <1>t, <1>o, QuietStep
<1>3. CASE FetchToday
  <2>1. \A k \in Jobs : Asked(k)' = Asked(k)
    BY <1>3, <1>t DEF FetchToday, Asked, TypeOK
  <2> QED
    BY <2>1, <1>t, <1>o, QuietStep
<1>4. CASE FetchTomorrow
  <2>1. CASE pc'["price"] = "idle"
    <3>1. \A k \in Jobs : Asked(k)' = Asked(k)
      BY <1>4, <1>t, <2>1 DEF FetchTomorrow, CallRefresh, Asked, TypeOK
    <3> QED
      BY <3>1, <1>t, <1>o, QuietStep
  <2>2. CASE pc'["price"] # "idle"
    <3>1. /\ pc["price"] = "tomorrow" /\ pc' = [pc EXCEPT !["price"] = "waiting"]
          /\ base' = [base EXCEPT !["price"] = db']
      BY <1>4, <1>t, <2>2 DEF FetchTomorrow, CallRefresh, TypeOK
    <3>2. /\ Asked("price") = NoSnapshot /\ Asked("price")' = db'
          /\ \A k \in Jobs \ {"price"} : Asked(k)' = Asked(k)
      BY <3>1, <1>t DEF Asked, TypeOK
    <3> QED
      BY <3>2, <1>t, <1>o, AskStep
  <2> QED
    BY <2>1, <2>2
<1>5. CASE StartFingridRun
  <2>1. \A k \in Jobs : Asked(k)' = Asked(k)
    BY <1>5, <1>t DEF StartFingridRun, Asked, TypeOK
  <2> QED
    BY <2>1, <1>t, <1>o, QuietStep
<1>6. CASE FetchSeries
  <2>1. \A k \in Jobs : Asked(k)' = Asked(k)
    BY <1>6, <1>t DEF FetchSeries, Asked, TypeOK
  <2> QED
    BY <2>1, <1>t, <1>o, QuietStep
<1>7. CASE PruneActuals
  <2>1. \A k \in Jobs : Asked(k)' = Asked(k)
    BY <1>7, <1>t DEF PruneActuals, Asked, TypeOK
  <2> QED
    BY <2>1, <1>t, <1>o, QuietStep
<1>8. CASE StoreVintages
  <2>1. /\ pc["fingrid"] = "vintages" /\ pc' = [pc EXCEPT !["fingrid"] = "waiting"]
        /\ base' = [base EXCEPT !["fingrid"] = db']
    BY <1>8 DEF StoreVintages, CallRefresh
  <2>2. /\ Asked("fingrid") = NoSnapshot /\ Asked("fingrid")' = db'
        /\ \A k \in Jobs \ {"fingrid"} : Asked(k)' = Asked(k)
    BY <2>1, <1>t DEF Asked, TypeOK
  <2> QED
    BY <2>2, <1>t, <1>o, AskStep
<1>9. CASE ArchiveVintages
  <2>1. \A k \in Jobs : Asked(k)' = Asked(k)
    BY <1>9, <1>t DEF ArchiveVintages, Asked, TypeOK
  <2> QED
    BY <2>1, <1>t, <1>o, QuietStep
<1>10. CASE Tick
  <2>1. \A k \in Jobs : Asked(k)' = Asked(k)
    BY <1>10 DEF Tick, Asked
  <2> QED
    BY <2>1, <1>t, <1>o, QuietStep
<1> QED
  BY <1>1, <1>2, <1>3, <1>4, <1>5, <1>6, <1>7, <1>8, <1>9, <1>10 DEF PriceRun, FingridRun

\* The steps of the refresh: the swap publishes, a failure or a deadline gives
\* up, and the rest is not seen.
LEMMA RefreshStepMaps ==
    ASSUME IInv, TypeOK', NEW j \in Jobs, Refresh(j) \/ Deadline(j)
    PROVE  [Promise!Next]_(Promise!vars)
<1> USE NamesDiffer
<1>t. TypeOK
  BY DEF IInv
<1>s. UNCHANGED db => Grown
  BY <1>t, NumbersNow DEF Grown, Numbers
<1>1. CASE AcquireRefresh(j)
  <2>1. UNCHANGED <<cache, db>> /\ \A k \in Jobs : Asked(k)' = Asked(k)
    BY <1>1, <1>t DEF AcquireRefresh, Asked, TypeOK
  <2> QED
    BY <2>1, <1>t, <1>s, QuietStep
<1>2. CASE SwapIn(j)
  BY <1>2, SwapInPublishes DEF Promise!Next
<1>3. CASE BuildFailed(j)
  <2>1. /\ UNCHANGED <<cache, db>> /\ Asked(j)' = NoSnapshot
        /\ \A k \in Jobs \ {j} : Asked(k)' = Asked(k)
    BY <1>3, <1>t DEF BuildFailed, Asked, TypeOK
  <2> QED
    BY <2>1, GiveUpStep
<1>4. CASE Deadline(j)
  <2>1. /\ UNCHANGED <<cache, db>> /\ Asked(j)' = NoSnapshot
        /\ \A k \in Jobs \ {j} : Asked(k)' = Asked(k)
    BY <1>4, <1>t DEF Deadline, ForgetBase, Asked, TypeOK
  <2> QED
    BY <2>1, GiveUpStep
<1>5. CASE AfterRefresh(j)
  <2>1. UNCHANGED <<cache, db>> /\ \A k \in Jobs : Asked(k)' = Asked(k)
    BY <1>5, <1>t DEF AfterRefresh, ForgetBase, Asked, TypeOK, Jobs
  <2> QED
    BY <2>1, <1>t, <1>s, QuietStep
<1>6. CASE \E q \in Queries : Read(j, q)
  <2>1. UNCHANGED <<cache, db>> /\ \A k \in Jobs : Asked(k)' = Asked(k)
    BY <1>6 DEF Read, Asked
  <2> QED
    BY <2>1, <1>t, <1>s, QuietStep
<1> QED
  BY <1>1, <1>2, <1>3, <1>4, <1>5, <1>6 DEF Refresh

\* No step of a request is seen: it only reads.
LEMMA RequestStepMaps ==
    ASSUME TypeOK, TypeOK', NEW r \in Requests, Request(r)
    PROVE  [Promise!Next]_(Promise!vars)
<1> USE NamesDiffer
<1>1. UNCHANGED <<cache, db>>
  BY DEF Request, RequestStart, RequestWithoutForecast, RequestCached, RequestBuild,
         RequestBuilt, RequestEnd, Read
<1>2. \A k \in Jobs : pc'[k] = pc[k] /\ base'[k] = base[k]
  BY DEF Request, RequestStart, RequestWithoutForecast, RequestCached, RequestBuild,
         RequestBuilt, RequestEnd, Read, ForgetBase, TypeOK
<1>3. Grown
  BY <1>1, NumbersNow DEF Grown, Numbers
<1>4. \A k \in Jobs : Asked(k)' = Asked(k)
  BY <1>2 DEF Asked
<1> QED
  BY <1>1, <1>3, <1>4, QuietStep

\* A restart of the process is a restart of what it served.
LEMMA RestartMaps ==
    ASSUME Restart
    PROVE  Promise!Restart
<1>1. \A k \in Jobs : Asked(k)' = NoSnapshot
  BY DEF Restart, Booted, Asked, Builders
<1> QED
  BY <1>1 DEF Promise!Restart, Restart

\* The cache implements what it promises: a refresh is one publication, however
\* its queries interleave with the writes of the jobs, with the other refreshes
\* and with failures, deadlines and restarts (ForecastCache::refresh, build).
THEOREM ImplementsPromise == Spec => KeepsItsPromise
<1>1. Init => Promise!Init
  <2> SUFFICES ASSUME Init PROVE Promise!Init
    OBVIOUS
  <2>1. \A k \in Jobs : Asked(k) = NoSnapshot
    BY NamesDiffer DEF Init, Booted, Asked
  <2>2. db \in [Tables -> Time] /\ cache = NoSnapshot
    BY InitTypeOK DEF Init, TypeOK
  <2> QED
    BY <2>1, <2>2 DEF Promise!Init
<1>2. IInv /\ [Next]_vars => [Promise!Next]_(Promise!vars)
  <2> SUFFICES ASSUME IInv, [Next]_vars PROVE [Promise!Next]_(Promise!vars)
    OBVIOUS
  <2>t. TypeOK /\ TypeOK'
    BY NextTypeOK DEF IInv
  <2>1. CASE UNCHANGED vars
    BY <2>1 DEF vars, Promise!vars, Asked
  <2>2. ASSUME NEW j \in Jobs, Refresh(j) \/ Deadline(j)
        PROVE  [Promise!Next]_(Promise!vars)
    BY <2>2, <2>t, RefreshStepMaps
  <2>3. CASE StartupForecast \/ PriceRun \/ FingridRun \/ Tick
    BY <2>3, <2>t, TaskStepMaps
  <2>4. ASSUME NEW r \in Requests, Request(r)
        PROVE  [Promise!Next]_(Promise!vars)
    BY <2>4, <2>t, RequestStepMaps
  <2>5. CASE Restart
    BY <2>5, RestartMaps DEF Promise!Next
  <2> QED
    BY <2>1, <2>2, <2>3, <2>4, <2>5 DEF Next
<1> QED
  BY <1>1, <1>2, Invariant, PTL DEF Spec, KeepsItsPromise, Promise!Spec

=============================================================================
