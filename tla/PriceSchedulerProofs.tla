----------------------- MODULE PriceSchedulerProofs ------------------------
(***************************************************************************)
(* Proofs about PriceScheduler for any number of areas, any days and any   *)
(* schedule slots.                                                         *)
(***************************************************************************)
EXTENDS PriceScheduler, TLAPS

\* The UTC date of a time is one of the modelled days.
LEMMA UtcDateType == \A t \in Time : UtcDate(t) \in 0 .. LastDay + 1
<1> SUFFICES ASSUME NEW t \in Time PROVE UtcDate(t) \in 0 .. LastDay + 1
  OBVIOUS
<1> DEFINE k == LastDay + 1
<1>1. /\ SlotsPerDay \in Nat /\ SlotsPerDay # 0
      /\ k \in Nat
      /\ t \in Nat /\ t <= k * SlotsPerDay
  <2>1. LastDay \in Nat /\ SlotsPerDay \in Nat /\ SlotsPerDay # 0
    BY ConstantsAssumption
  <2> QED
    BY <2>1 DEF Time, Horizon
<1>2. \A n \in Nat : t <= n * SlotsPerDay => t \div SlotsPerDay \in 0 .. n
  BY <1>1
<1> QED
  BY <1>1, <1>2 DEF UtcDate

\* The names and bounds that every proof below uses.
LEMMA ScheduleNames ==
    /\ "price" \in Schedules /\ "burst" \in Schedules
    /\ Free \notin Schedules
    /\ LastDay \in Nat /\ SlotsPerDay \in Nat \ {0} /\ MaxFaults \in Nat
    /\ None \notin Days
    /\ \A d \in 0 .. LastDay + 1 : d \in Days /\ d + 1 \in Days
BY ConstantsAssumption DEF Schedules, Days

\* The initial states are typed.
LEMMA InitTypeOK == Init => TypeOK
<1> SUFFICES ASSUME Init PROVE TypeOK
  OBVIOUS
<1> USE ConstantsAssumption, ScheduleNames DEF Init
<1>1. time \in Time /\ bootAt \in Time
  <2>1. SlotsPerDay - 1 <= Horizon
    <3>1. \A n \in Nat : SlotsPerDay <= (n + 1) * SlotsPerDay
      OBVIOUS
    <3> QED
      BY <3>1 DEF Horizon
  <2> QED
    BY <2>1 DEF Time, Horizon
<1>2. /\ published \in [Days -> SUBSET Areas] /\ stored \in [Days -> SUBSET Areas]
      /\ inTime \subseteq Days
  OBVIOUS
<1>3. pc \in [Schedules -> LoopStates]
  BY DEF Booted, LoopStates
<1>4. next \in [Schedules -> Nat] /\ lastFire \in [Schedules -> Nat \cup {Never}]
  BY DEF Never
<1>5. today \in [Schedules -> 0 .. LastDay + 1]
  OBVIOUS
<1>6. available \in BOOLEAN
  OBVIOUS
<1>7. priceLock \in Schedules \cup {Free} /\ captured \in Days \cup {None}
  OBVIOUS
<1>8. faults \in 0 .. MaxFaults
  OBVIOUS
<1> QED
  BY <1>1, <1>2, <1>3, <1>4, <1>5, <1>6, <1>7, <1>8 DEF TypeOK

-----------------------------------------------------------------------------

\* What a fetch of day d can do to the stored rows.
LEMMA FetchType ==
    ASSUME NEW d \in Days, NEW outcome \in Outcomes, TypeOK, FetchForDate(d, outcome)
    PROVE  /\ stored' \in [Days -> SUBSET Areas]
           /\ faults' \in 0 .. MaxFaults
           /\ \A e \in Days : stored[e] \subseteq stored'[e]
           /\ outcome \in {"skipped", "stored"} => stored'[d] # {}
<1> USE ConstantsAssumption DEF TypeOK
<1>1. CASE outcome = "skipped"
  BY <1>1 DEF FetchForDate, AllAreasPresent
<1>2. CASE outcome = "stored"
  <2>1. PICK areas \in SUBSET published[d] :
            /\ areas # {} /\ StorePrices(d, areas) /\ (UNCHANGED faults \/ Fault)
    BY <1>2 DEF FetchForDate
  <2>2. faults' \in 0 .. MaxFaults
    BY <2>1 DEF Fault
  <2>3. /\ stored' \in [Days -> SUBSET Areas]
        /\ \A e \in Days : stored[e] \subseteq stored'[e]
        /\ stored'[d] # {}
    BY <2>1 DEF StorePrices
  <2> QED
    BY <2>2, <2>3
<1>3. CASE outcome = "empty"
  <2>1. UNCHANGED stored /\ (UNCHANGED faults \/ Fault)
    BY <1>3 DEF FetchForDate
  <2>2. faults' \in 0 .. MaxFaults
    BY <2>1 DEF Fault
  <2> QED
    BY <1>3, <2>1, <2>2
<1> QED
  BY <1>1, <1>2, <1>3 DEF Outcomes

\* Every step keeps the types, action by action.
LEMMA NextTypeOK == TypeOK /\ [Next]_vars => TypeOK'
<1> SUFFICES ASSUME TypeOK, [Next]_vars PROVE TypeOK'
  OBVIOUS
<1> USE ScheduleNames
<1>f. Fault => faults' \in 0 .. MaxFaults
  BY DEF Fault, TypeOK
<1>1. CASE UNCHANGED vars
  BY <1>1 DEF vars, TypeOK
<1>2. ASSUME NEW s \in Schedules, Sleep(s) PROVE TypeOK'
  <2>1. next' \in [Schedules -> Nat]
    <3>1. After(s) \in Nat
      BY DEF After, TypeOK, Time, Never, Horizon
    <3> QED
      BY <1>2, <3>1 DEF Sleep, TypeOK
  <2>2. pc' \in [Schedules -> LoopStates]
    BY <1>2 DEF Sleep, TypeOK, LoopStates
  <2> QED
    BY <1>2, <2>1, <2>2 DEF Sleep, TypeOK, nordpool
<1>3. ASSUME NEW s \in Schedules, SkipLocked(s) PROVE TypeOK'
  BY <1>3 DEF SkipLocked, Fired, TypeOK, LoopStates, nordpool
<1>4. CASE SkipCaptured
  BY <1>4 DEF SkipCaptured, Fired, TypeOK, LoopStates, nordpool
<1>5. ASSUME NEW s \in Schedules, StartRun(s) PROVE TypeOK'
  <2>1. /\ lastFire' \in [Schedules -> Nat \cup {Never}]
        /\ today' \in [Schedules -> 0 .. LastDay + 1]
        /\ pc' \in [Schedules -> LoopStates]
    BY <1>5, UtcDateType DEF StartRun, Fired, TypeOK, LoopStates, Running
  <2>2. available' \in BOOLEAN
    BY <1>5 DEF StartRun
  <2> QED
    BY <1>5, <2>1, <2>2 DEF StartRun, TypeOK, nordpool
<1>6. ASSUME NEW s \in Schedules, FetchToday(s) PROVE TypeOK'
  <2>1. today[s] \in Days
    BY DEF TypeOK
  <2>2. stored' \in [Days -> SUBSET Areas] /\ faults' \in 0 .. MaxFaults
    BY <1>6, <1>f, <2>1, FetchType DEF FetchToday, TypeOK
  <2>3. pc' \in [Schedules -> LoopStates] /\ priceLock' \in Schedules \cup {Free}
    BY <1>6 DEF FetchToday, Release, TypeOK, LoopStates, Running
  <2> QED
    BY <1>6, <2>2, <2>3 DEF FetchToday, TypeOK, nordpool
<1>7. ASSUME NEW s \in Schedules, FetchTomorrow(s) PROVE TypeOK'
  <2>1. today[s] + 1 \in Days
    BY DEF TypeOK
  <2>2. stored' \in [Days -> SUBSET Areas] /\ faults' \in 0 .. MaxFaults
    BY <1>7, <1>f, <2>1, FetchType DEF FetchTomorrow, TypeOK
  <2>3. available' \in BOOLEAN
    <3>1. CASE \E outcome \in Outcomes : available' = (outcome \in {"skipped", "stored"})
      BY <3>1
    <3>2. CASE available' = FALSE
      BY <3>2
    <3> QED
      BY <1>7, <3>1, <3>2 DEF FetchTomorrow
  <2>4. pc' \in [Schedules -> LoopStates]
    BY <1>7 DEF FetchTomorrow, TypeOK, LoopStates, Running
  <2> QED
    BY <1>7, <2>2, <2>3, <2>4 DEF FetchTomorrow, TypeOK, nordpool
<1>8. ASSUME NEW s \in Schedules, EndRun(s) PROVE TypeOK'
  <2>1. today[s] + 1 \in Days
    BY DEF TypeOK
  <2> QED
    BY <1>8, <2>1 DEF EndRun, Release, TypeOK, LoopStates, nordpool
<1>9. ASSUME NEW s \in Schedules, Deadline(s) PROVE TypeOK'
  <2>1. faults' \in 0 .. MaxFaults
    BY <1>9, <1>f DEF Deadline
  <2> QED
    BY <1>9, <2>1 DEF Deadline, Release, TypeOK, LoopStates, nordpool
<1>10. ASSUME NEW d \in Days, Publish(d) PROVE TypeOK'
  BY <1>10 DEF Publish, TypeOK, loop
<1>11. CASE Tick
  <2>1. time' \in Time
    BY <1>11 DEF Tick, TypeOK, Time, Horizon
  <2> QED
    BY <1>11, <2>1 DEF Tick, TypeOK, loop, nordpool
<1>12. CASE Restart
  <2>1. faults' \in 0 .. MaxFaults
    BY <1>12, <1>f DEF Restart
  <2> QED
    BY <1>12, <2>1 DEF Restart, TypeOK, Booted, LoopStates, Never, nordpool
<1> QED
  BY <1>1, <1>2, <1>3, <1>4, <1>5, <1>6, <1>7, <1>8, <1>9, <1>10, <1>11, <1>12
  DEF Next, Schedule

\* Every variable holds a value of its type in every reachable state.
THEOREM TypeCorrect == Spec => []TypeOK
BY InitTypeOK, NextTypeOK, PTL DEF Spec

-----------------------------------------------------------------------------

\* The lock follows the run of its schedule through every step.
LEMMA NextLock == TypeOK /\ LockHeldByItsRun /\ [Next]_vars => LockHeldByItsRun'
<1> SUFFICES ASSUME TypeOK, LockHeldByItsRun, [Next]_vars PROVE LockHeldByItsRun'
  OBVIOUS
<1> USE ScheduleNames DEF TypeOK, LockHeldByItsRun, Running
<1>1. CASE UNCHANGED vars
  BY <1>1 DEF vars
<1>2. ASSUME NEW s \in Schedules, Sleep(s) \/ SkipLocked(s) PROVE LockHeldByItsRun'
  BY <1>2 DEF Sleep, SkipLocked, Fires, Due
<1>3. CASE SkipCaptured
  BY <1>3 DEF SkipCaptured, Fires, Due
<1>4. ASSUME NEW s \in Schedules, StartRun(s) PROVE LockHeldByItsRun'
  BY <1>4 DEF StartRun
<1>5. ASSUME NEW s \in Schedules, FetchToday(s) PROVE LockHeldByItsRun'
  <2>1. \/ pc' = [pc EXCEPT ![s] = "tomorrow"] /\ UNCHANGED priceLock
        \/ pc' = [pc EXCEPT ![s] = "schedule"] /\ priceLock' = Free
    BY <1>5 DEF FetchToday, Release
  <2>2. priceLock = s
    BY <1>5 DEF FetchToday
  <2> QED
    BY <2>1, <2>2
<1>6. ASSUME NEW s \in Schedules, FetchTomorrow(s) PROVE LockHeldByItsRun'
  BY <1>6 DEF FetchTomorrow
<1>7. ASSUME NEW s \in Schedules, EndRun(s) \/ Deadline(s) PROVE LockHeldByItsRun'
  BY <1>7 DEF EndRun, Deadline, Release
<1>8. CASE Tick \/ \E d \in Days : Publish(d)
  BY <1>8 DEF Tick, Publish, loop
<1>9. CASE Restart
  BY <1>9 DEF Restart, Booted
<1> QED
  BY <1>1, <1>2, <1>3, <1>4, <1>5, <1>6, <1>7, <1>8, <1>9 DEF Next, Schedule

\* The price lock is held exactly while its schedule runs the job, whatever
\* fails, is dropped or is skipped (the guards of scheduler::start).
THEOREM LockIsExclusive == Spec => []LockHeldByItsRun
<1>1. Init => LockHeldByItsRun
  BY ScheduleNames DEF Init, Booted, LockHeldByItsRun, Running
<1> QED
  BY <1>1, NextLock, TypeCorrect, PTL DEF Spec

\* The time that a schedule sleeps for comes after the one it fired last.
LEMMA NextFire == TypeOK /\ NeverFiresTwice /\ [Next]_vars => NeverFiresTwice'
<1> SUFFICES ASSUME TypeOK, NeverFiresTwice, [Next]_vars PROVE NeverFiresTwice'
  OBVIOUS
<1> USE ScheduleNames DEF TypeOK, NeverFiresTwice
<1>1. CASE UNCHANGED vars
  BY <1>1 DEF vars
<1>2. ASSUME NEW s \in Schedules, Sleep(s) PROVE NeverFiresTwice'
  <2>1. After(s) \in Nat /\ lastFire[s] <= After(s)
    BY DEF After, Time, Horizon, Never
  <2>2. PICK u \in After(s) + 1 .. After(s) + SlotsPerDay : next' = [next EXCEPT ![s] = u]
    BY <1>2 DEF Sleep
  <2>3. lastFire[s] \in Int /\ next'[s] > lastFire[s]
    BY <2>1, <2>2 DEF Never
  <2> QED
    BY <1>2, <2>2, <2>3 DEF Sleep
<1>3. ASSUME NEW s \in Schedules, SkipLocked(s) \/ StartRun(s) PROVE NeverFiresTwice'
  <2>1. pc'[s] # "sleeping"
    BY <1>3 DEF SkipLocked, StartRun
  <2>2. /\ UNCHANGED next
        /\ \A k \in Schedules : k # s => pc'[k] = pc[k] /\ lastFire'[k] = lastFire[k]
    BY <1>3 DEF SkipLocked, StartRun, Fired
  <2> QED
    BY <2>1, <2>2
<1>4. CASE SkipCaptured
  BY <1>4 DEF SkipCaptured, Fired
<1>5. ASSUME NEW s \in Schedules, FetchToday(s) \/ FetchTomorrow(s) \/ EndRun(s) \/ Deadline(s)
      PROVE  NeverFiresTwice'
  <2>1. UNCHANGED <<next, lastFire>> /\ pc'[s] # "sleeping"
        /\ \A k \in Schedules : k # s => pc'[k] = pc[k]
    BY <1>5 DEF FetchToday, FetchTomorrow, EndRun, Deadline, Release
  <2> QED
    BY <2>1
<1>6. CASE Tick \/ \E d \in Days : Publish(d)
  BY <1>6 DEF Tick, Publish, loop
<1>7. CASE Restart
  BY <1>7 DEF Restart, Booted
<1> QED
  BY <1>1, <1>2, <1>3, <1>4, <1>5, <1>6, <1>7 DEF Next, Schedule

\* A wake-up that comes early does not fire its time again (run_schedule).
THEOREM NoDoubleFire == Spec => []NeverFiresTwice
<1>1. Init => NeverFiresTwice
  BY DEF Init, Booted, NeverFiresTwice
<1> QED
  BY <1>1, NextFire, TypeCorrect, PTL DEF Spec

-----------------------------------------------------------------------------

\* What the burst remembers as captured was found stored.
CapturedInv ==
    /\ captured # None => stored[captured] # {}
    /\ \A s \in Schedules :
          pc[s] = "recompute" /\ available => stored[today[s] + 1] # {}

\* Rows are never removed, and only the run with the lock sets `available`.
LEMMA NextCaptured ==
    TypeOK /\ LockHeldByItsRun /\ CapturedInv /\ [Next]_vars => CapturedInv'
<1> SUFFICES ASSUME TypeOK, LockHeldByItsRun, CapturedInv, [Next]_vars PROVE CapturedInv'
  OBVIOUS
<1> USE ScheduleNames DEF TypeOK, CapturedInv
<1>1. CASE UNCHANGED vars
  BY <1>1 DEF vars
<1>2. ASSUME NEW s \in Schedules, Sleep(s) \/ SkipLocked(s) PROVE CapturedInv'
  BY <1>2 DEF Sleep, SkipLocked
<1>3. CASE SkipCaptured
  BY <1>3 DEF SkipCaptured
<1>4. ASSUME NEW s \in Schedules, StartRun(s) PROVE CapturedInv'
  BY <1>4 DEF StartRun
<1>5. ASSUME NEW s \in Schedules, FetchToday(s) PROVE CapturedInv'
  <2>1. today[s] \in Days
    OBVIOUS
  <2>2. \A e \in Days : stored[e] \subseteq stored'[e]
    BY <1>5, <2>1, FetchType DEF FetchToday
  <2>3. /\ UNCHANGED <<captured, available, today>>
        /\ \A k \in Schedules : pc'[k] = "recompute" => pc[k] = "recompute"
    BY <1>5 DEF FetchToday, Release
  <2> QED
    BY <2>2, <2>3
<1>6. ASSUME NEW s \in Schedules, FetchTomorrow(s) PROVE CapturedInv'
  <2>1. today[s] + 1 \in Days
    OBVIOUS
  <2>2. ASSUME NEW outcome \in Outcomes, FetchForDate(today[s] + 1, outcome),
               available' = (outcome \in {"skipped", "stored"})
        PROVE  /\ \A e \in Days : stored[e] \subseteq stored'[e]
               /\ available' => stored'[today[s] + 1] # {}
    BY <2>1, <2>2, FetchType
  <2>3. /\ \A e \in Days : stored[e] \subseteq stored'[e]
        /\ available' => stored'[today[s] + 1] # {}
    <3>1. CASE available' = FALSE /\ UNCHANGED stored
      BY <3>1
    <3> QED
      BY <1>6, <2>2, <3>1 DEF FetchTomorrow
  <2>4. \A k \in Schedules : pc'[k] = "recompute" => k = s
    BY <1>6 DEF FetchTomorrow, LockHeldByItsRun, Running
  <2> QED
    BY <1>6, <2>3, <2>4 DEF FetchTomorrow
<1>7. ASSUME NEW s \in Schedules, EndRun(s) \/ Deadline(s) PROVE CapturedInv'
  <2>1. /\ UNCHANGED <<stored, available, today>>
        /\ \A k \in Schedules : pc'[k] = "recompute" => pc[k] = "recompute"
    BY <1>7 DEF EndRun, Deadline, Release
  <2>2. captured' # None => stored[captured'] # {}
    BY <1>7 DEF EndRun, Deadline
  <2> QED
    BY <2>1, <2>2
<1>8. CASE Tick \/ \E d \in Days : Publish(d)
  BY <1>8 DEF Tick, Publish, loop
<1>9. CASE Restart
  BY <1>9 DEF Restart, Booted
<1> QED
  BY <1>1, <1>2, <1>3, <1>4, <1>5, <1>6, <1>7, <1>8, <1>9 DEF Next, Schedule

\* The burst pauses only when prices of the next UTC day are stored
\* (scheduler::burst_can_skip).
THEOREM PauseIsJustified == Spec => PausesOnlyForStoredTomorrow
<1> DEFINE Justified == SkipCaptured => stored[UtcDate(time) + 1] # {}
<1>1. Init => CapturedInv
  BY DEF Init, Booted, CapturedInv
<1>2. CapturedInv => Justified
  BY DEF CapturedInv, SkipCaptured, BurstCanSkip
<1>3. CapturedInv /\ [Next]_vars => [Justified]_vars
  BY <1>2
<1> QED
  BY <1>1, <1>3, NextCaptured, TypeCorrect, LockIsExclusive, PTL
  DEF Spec, PausesOnlyForStoredTomorrow

-----------------------------------------------------------------------------
(* A published day is stored when it begins.                               *)

\* Where the two loops can be while nothing fails.
PunctualInv ==
    /\ bootAt <= time
    /\ pc["price"] = "boot" => time = bootAt
    /\ lastFire["price"] <= time + 1
    /\ pc["price"] = "sleeping" =>
          /\ time <= next["price"]
          /\ \A t \in After("price") + 1 .. next["price"] - 1 : t % SlotsPerDay \notin PriceSlots
    /\ pc["burst"] \in Running => today["burst"] = UtcDate(time)

\* A day that is published in time is published in full, and a burst run that
\* started later and is past its fetches has stored it.  The first day was
\* published before the start.
PublishedInv ==
    /\ published[0] = Areas
    /\ \A d \in inTime :
          /\ d >= 1 /\ published[d] = Areas
          /\ /\ time > LastTickBefore(d) - 2
             /\ pc["burst"] = "recompute" /\ today["burst"] = d - 1
             => stored[d] = Areas

\* The last baseline tick before the day is still to come.
Ahead(d) ==
    LET last == LastTickBefore(d) IN
    \/ pc["price"] # "sleeping" /\ lastFire["price"] < last /\ time < last
    \/ pc["price"] = "sleeping" /\ next["price"] <= last

\* A run of that tick, or the one it was skipped for, is about to fetch the day.
Fetching(s, d) ==
    /\ pc[s] \in {"today", "tomorrow"} /\ today[s] = d - 1
    /\ time <= LastTickBefore(d)
    /\ s = "price" => lastFire[s] # Never

\* The day d is stored, or it is about to be.
Coming(d) == stored[d] = Areas \/ Ahead(d) \/ (\E s \in Schedules : Fetching(s, d))

ComingInv == \A d \in inTime : InTimeFor(d, bootAt) => Coming(d)

NoFaultInv == faults = 0 => PunctualInv /\ PublishedInv /\ ComingInv

\* A time of the day k, counted from its start.
LEMMA TimeOfDay ==
    ASSUME NEW n \in Nat \ {0}, NEW k \in Nat, NEW t \in Int, k * n <= t, t < (k + 1) * n
    PROVE  t \div n = k /\ t % n = t - k * n
<1>1. ASSUME NEW r \in 0 .. n - 1 PROVE (k * n + r) \div n = k /\ (k * n + r) % n = r
  OBVIOUS
<1>2. (k + 1) * n = k * n + n /\ k * n \in Int
  OBVIOUS
<1>3. t - k * n \in 0 .. n - 1 /\ k * n + (t - k * n) = t
  BY <1>2
<1> QED
  BY <1>1, <1>3

\* The last baseline tick before a day is a time of the day before, and not its
\* first slot; the slot before it belongs to the same day.
LEMMA LastTick ==
    ASSUME NEW d \in Nat, d >= 1
    PROVE  LET last == LastTickBefore(d) IN
           /\ last \in Nat /\ last >= 1 /\ last % SlotsPerDay \in PriceSlots
           /\ last < d * SlotsPerDay
           /\ UtcDate(last) = d - 1 /\ UtcDate(last - 1) = d - 1
<1> DEFINE from == (d - 1) * SlotsPerDay
           to == d * SlotsPerDay
           P(t) == /\ t % SlotsPerDay \in PriceSlots
                   /\ \A u \in t + 1 .. to - 1 : u % SlotsPerDay \notin PriceSlots
<1>1. PICK slot \in PriceSlots : slot > 0 /\ \A other \in PriceSlots : other <= slot
  BY ConstantsAssumption
<1>2. /\ SlotsPerDay \in Nat \ {0} /\ PriceSlots \subseteq 0 .. SlotsPerDay - 1
      /\ slot \in 1 .. SlotsPerDay - 1
  BY <1>1, ConstantsAssumption
<1>3. /\ from \in Nat /\ to \in Nat /\ to = from + SlotsPerDay /\ (d - 1) + 1 = d /\ d - 1 \in Nat
  <2>1. \A k, n \in Nat : (k + 1) * n = k * n + n /\ k * n \in Nat
    OBVIOUS
  <2>2. d - 1 \in Nat /\ (d - 1) + 1 = d
    OBVIOUS
  <2>3. ((d - 1) + 1) * SlotsPerDay = (d - 1) * SlotsPerDay + SlotsPerDay
        /\ (d - 1) * SlotsPerDay \in Nat
    BY <1>2, <2>1, <2>2
  <2> QED
    BY <1>2, <2>2, <2>3
<1>4. ASSUME NEW t \in from .. to - 1
      PROVE  t \div SlotsPerDay = d - 1 /\ t % SlotsPerDay = t - from
  <2>1. (d - 1) * SlotsPerDay <= t /\ t < ((d - 1) + 1) * SlotsPerDay /\ t \in Int
    BY <1>3, <1>4
  <2> QED
    BY <1>2, <1>3, <2>1, TimeOfDay
<1> HIDE DEF from, to
<1>5. from + slot \in from .. to - 1 /\ P(from + slot)
  <2>1. from + slot \in from .. to - 1
    BY <1>2, <1>3
  <2>2. (from + slot) % SlotsPerDay = slot
    BY <1>2, <1>3, <1>4, <2>1
  <2>3. ASSUME NEW u \in from + slot + 1 .. to - 1 PROVE u % SlotsPerDay \notin PriceSlots
    <3>1. u \in from .. to - 1 /\ u - from > slot
      BY <1>2, <1>3, <2>3
    <3>2. u % SlotsPerDay = u - from
      BY <1>4, <3>1
    <3> QED
      BY <1>1, <1>2, <1>3, <3>1, <3>2
  <2> QED
    BY <1>1, <2>1, <2>2, <2>3
<1> DEFINE last == CHOOSE t \in from .. to - 1 : P(t)
<1>6. LastTickBefore(d) = last
  BY DEF LastTickBefore, from, to
<1>7. last \in from .. to - 1 /\ P(last)
  BY <1>5
<1> HIDE DEF last
<1>8. last >= from + slot
  <2> SUFFICES ASSUME last < from + slot PROVE FALSE
    BY <1>2, <1>3, <1>7
  <2>1. from + slot \in last + 1 .. to - 1
    BY <1>2, <1>3, <1>5, <1>7
  <2> QED
    BY <1>5, <1>7, <2>1
<1>9. last - 1 \in from .. to - 1 /\ last \in Nat /\ last >= 1 /\ last < to
  BY <1>2, <1>3, <1>7, <1>8
<1> QED
  BY <1>4, <1>6, <1>7, <1>9 DEF UtcDate, to

\* A step fails or leaves the count of failures alone.
LEMMA FaultCount == [Next]_vars => faults' = faults \/ faults' = faults + 1
<1> SUFFICES ASSUME [Next]_vars PROVE faults' = faults \/ faults' = faults + 1
  OBVIOUS
<1> USE DEF Fault
<1>1. ASSUME NEW d, NEW outcome, FetchForDate(d, outcome)
      PROVE  faults' = faults \/ faults' = faults + 1
  BY <1>1 DEF FetchForDate
<1>2. ASSUME NEW s \in Schedules, Schedule(s)
      PROVE  faults' = faults \/ faults' = faults + 1
  BY <1>1, <1>2 DEF Schedule, Sleep, SkipLocked, StartRun, FetchToday, FetchTomorrow,
                    EndRun, Deadline
<1> QED
  BY <1>2 DEF Next, SkipCaptured, Publish, Tick, Restart, vars

\* A fetch that does not fail stores a day that is published in full.
LEMMA FaultlessFetch ==
    ASSUME TypeOK, NEW d \in Days, NEW outcome \in Outcomes, FetchForDate(d, outcome),
           faults' = faults, published[d] = Areas
    PROVE  stored'[d] = Areas
<1>1. ~Fault
  BY DEF Fault, TypeOK
<1>2. Areas # {}
  BY ConstantsAssumption
<1> QED
  BY <1>1, <1>2 DEF FetchForDate, AllAreasPresent, StorePrices, TypeOK

\* The baseline loop wakes for each of its times, and the burst runs in its slot.
LEMMA NextPunctual ==
    ASSUME TypeOK, PunctualInv, [Next]_vars, faults' = faults
    PROVE  PunctualInv'
<1> USE ScheduleNames DEF TypeOK, Time, Running
<1>0. ~Fault
  BY DEF Fault
<1>n. Horizon \in Int /\ Never \in Int
  BY DEF Horizon, Never
<1>p. time \in Nat /\ lastFire["price"] \in Int /\ next["price"] \in Nat
  BY DEF Never
<1>1. CASE UNCHANGED vars
  BY <1>1 DEF vars, PunctualInv, After
<1>2. CASE Sleep("price")
  <2>1. After("price") \in Nat /\ time <= After("price") /\ After("price")' = After("price")
    BY <1>2, <1>p DEF Sleep, After, Never
  <2>2. PICK u \in After("price") + 1 .. After("price") + SlotsPerDay :
            NextAfter("price", After("price"), u) /\ next' = [next EXCEPT !["price"] = u]
    BY <1>2 DEF Sleep
  <2>3. next'["price"] = u /\ u \in Nat /\ time <= u
    BY <2>1, <2>2
  <2>4. \A t \in After("price") + 1 .. u - 1 : t % SlotsPerDay \notin PriceSlots
    BY <2>2 DEF NextAfter, Slots
  <2>5. pc'["price"] = "sleeping" /\ pc'["burst"] = pc["burst"]
        /\ UNCHANGED <<time, bootAt, lastFire, today>>
    BY <1>2 DEF Sleep
  <2> QED
    BY <2>1, <2>3, <2>4, <2>5 DEF PunctualInv
<1>3. CASE Sleep("burst")
  BY <1>3 DEF Sleep, PunctualInv, After
<1>4. CASE SkipLocked("price") \/ StartRun("price")
  <2>1. lastFire'["price"] <= time + 1
    BY <1>4, <1>p DEF SkipLocked, StartRun, Fired, Fires, Due, PunctualInv
  <2>2. /\ pc'["price"] \in {"schedule", "today"} /\ pc'["burst"] = pc["burst"]
        /\ today'["burst"] = today["burst"] /\ UNCHANGED <<time, bootAt>>
    BY <1>4 DEF SkipLocked, StartRun
  <2> QED
    BY <2>1, <2>2 DEF PunctualInv
<1>5. CASE SkipLocked("burst") \/ StartRun("burst") \/ SkipCaptured
  <2>1. /\ pc'["price"] = pc["price"] /\ lastFire'["price"] = lastFire["price"]
        /\ UNCHANGED <<time, bootAt, next>>
    BY <1>5 DEF SkipLocked, StartRun, SkipCaptured, Fired
  <2>2. pc'["burst"] \in Running => today'["burst"] = UtcDate(time)
    BY <1>5 DEF SkipLocked, StartRun, SkipCaptured
  <2> QED
    BY <2>1, <2>2 DEF PunctualInv, After, UtcDate
<1>6. ASSUME NEW s \in Schedules,
             FetchToday(s) \/ FetchTomorrow(s) \/ EndRun(s) \/ Deadline(s)
      PROVE  PunctualInv'
  <2>1. /\ UNCHANGED <<time, bootAt, next, lastFire, today>> /\ pc[s] \in Running
        /\ pc'[s] \in Running \cup {"schedule"}
        /\ \A k \in Schedules : k # s => pc'[k] = pc[k]
    BY <1>6 DEF FetchToday, FetchTomorrow, EndRun, Deadline, Release
  <2> QED
    BY <2>1 DEF PunctualInv, After, UtcDate
<1>7. CASE Tick
  <2>1. /\ time' = time + 1 /\ UNCHANGED <<pc, next, lastFire, bootAt>>
        /\ pc["burst"] = "sleeping"
        /\ \/ pc["price"] = "sleeping" /\ next["price"] > time
           \/ pc["price"] \in Running
    BY <1>7 DEF Tick, loop
  <2>2. After("price") \in Int /\ After("price")' \in Int /\ After("price") <= After("price")'
    BY <1>p, <2>1 DEF After
  <2>3. \A t \in After("price")' + 1 .. next["price"] - 1 :
            t \in After("price") + 1 .. next["price"] - 1
    BY <1>p, <2>2
  <2>4. pc["price"] = "sleeping" =>
            \A t \in After("price")' + 1 .. next'["price"] - 1 : t % SlotsPerDay \notin PriceSlots
    BY <2>1, <2>3 DEF PunctualInv
  <2>5. bootAt' <= time' /\ lastFire'["price"] <= time' + 1
        /\ (pc["price"] = "sleeping" => time' <= next'["price"])
    BY <1>p, <2>1 DEF PunctualInv
  <2> QED
    BY <2>1, <2>4, <2>5 DEF PunctualInv
<1>8. CASE \E d \in Days : Publish(d)
  BY <1>8 DEF Publish, loop, PunctualInv, After, UtcDate
<1> QED
  BY <1>0, <1>1, <1>2, <1>3, <1>4, <1>5, <1>6, <1>7, <1>8
  DEF Next, Schedule, Restart, Schedules

\* Nothing but a fetch changes the rows, and rows are never removed.
LEMMA RowsStay ==
    TypeOK /\ [Next]_vars => \A d \in Days : stored[d] \subseteq stored'[d]
<1> SUFFICES ASSUME TypeOK, [Next]_vars PROVE \A d \in Days : stored[d] \subseteq stored'[d]
  OBVIOUS
<1>1. ASSUME NEW s \in Schedules, FetchToday(s) \/ FetchTomorrow(s)
      PROVE  \A d \in Days : stored[d] \subseteq stored'[d]
  <2>1. today[s] \in Days /\ today[s] + 1 \in Days
    BY ScheduleNames DEF TypeOK
  <2> QED
    BY <1>1, <2>1, FetchType DEF FetchToday, FetchTomorrow
<1>2. ASSUME NEW s \in Schedules, Schedule(s)
      PROVE  \A d \in Days : stored[d] \subseteq stored'[d]
  BY <1>1, <1>2 DEF Schedule, Sleep, SkipLocked, StartRun, EndRun, Deadline
<1> QED
  BY <1>2 DEF Next, SkipCaptured, Publish, Tick, Restart, vars

\* What was published in full stays so, and a burst run past its fetches has it.
LEMMA NextPublished ==
    ASSUME TypeOK, LockHeldByItsRun, PublishedInv, [Next]_vars, faults' = faults
    PROVE  PublishedInv'
<1> USE ScheduleNames
<1>0. ~Fault /\ 0 \in Days
  BY DEF Fault, TypeOK, Days
<1>t. inTime \subseteq Days /\ time \in Nat
  BY DEF TypeOK, Time
<1>r. \A d \in Days : stored[d] = Areas => stored'[d] = Areas
  BY RowsStay, NextTypeOK DEF TypeOK
<1>1. ASSUME UNCHANGED <<published, inTime>>,
             pc'["burst"] = "recompute" =>
                /\ pc["burst"] = "recompute" /\ today'["burst"] = today["burst"]
                /\ time' = time
      PROVE  PublishedInv'
  <2>1. ASSUME NEW d \in inTime, time' > LastTickBefore(d) - 2,
               pc'["burst"] = "recompute", today'["burst"] = d - 1
        PROVE  stored'[d] = Areas
    BY <1>1, <1>r, <1>t, <2>1 DEF PublishedInv
  <2> QED
    BY <1>1, <2>1 DEF PublishedInv
<1>2. CASE UNCHANGED vars
  BY <1>1, <1>2 DEF vars
<1>3. ASSUME NEW s \in Schedules, Sleep(s) \/ SkipLocked(s) \/ StartRun(s)
      PROVE  PublishedInv'
  <2>1. /\ UNCHANGED <<published, inTime, time>>
        /\ pc'[s] # "recompute"
        /\ \A k \in Schedules : k # s => pc'[k] = pc[k] /\ today'[k] = today[k]
    BY <1>3 DEF Sleep, SkipLocked, StartRun, nordpool, TypeOK
  <2> QED
    BY <1>1, <2>1
<1>4. CASE SkipCaptured
  BY <1>1, <1>4 DEF SkipCaptured, nordpool, TypeOK
<1>5. ASSUME NEW s \in Schedules, FetchToday(s) \/ EndRun(s) \/ Deadline(s)
      PROVE  PublishedInv'
  <2>1. /\ UNCHANGED <<published, inTime, time, today>>
        /\ pc'[s] # "recompute"
        /\ \A k \in Schedules : k # s => pc'[k] = pc[k]
    BY <1>5 DEF FetchToday, EndRun, Deadline, Release, nordpool, TypeOK
  <2> QED
    BY <1>1, <2>1
<1>6. CASE FetchTomorrow("price")
  BY <1>1, <1>6 DEF FetchTomorrow, nordpool, TypeOK
<1>7. CASE FetchTomorrow("burst")
  <2>1. /\ UNCHANGED <<published, inTime, time, today>>
        /\ today["burst"] + 1 \in Days
        /\ \E outcome \in Outcomes : FetchForDate(today["burst"] + 1, outcome)
    BY <1>0, <1>7 DEF FetchTomorrow, nordpool, TypeOK
  <2>2. ASSUME NEW d \in inTime, today'["burst"] = d - 1
        PROVE  stored'[d] = Areas
    <3>1. d \in Nat /\ d = today["burst"] + 1 /\ published[d] = Areas
      BY <1>t, <2>1, <2>2 DEF PublishedInv, Days, TypeOK
    <3> QED
      BY <2>1, <3>1, FaultlessFetch
  <2> QED
    BY <2>1, <2>2 DEF PublishedInv
<1>8. ASSUME NEW e \in Days, Publish(e) PROVE PublishedInv'
  <2>1. /\ UNCHANGED <<time, stored, pc, today>>
        /\ \A d \in Days : published[d] = Areas => published'[d] = Areas
    BY <1>8 DEF Publish, loop, TypeOK
  <2>2. ASSUME NEW d \in inTime', d \notin inTime
        PROVE  d = e /\ published'[d] = Areas /\ InTimeFor(d, time)
    BY <1>8, <2>2 DEF Publish
  <2>3. published[e] # Areas
    BY <1>8 DEF Publish
  <2>4. ASSUME NEW d \in inTime', d \notin inTime
        PROVE  d >= 1 /\ ~(time > LastTickBefore(d) - 2)
    <3>1. d \in Nat /\ d # 0
      BY <2>2, <2>3, <2>4 DEF PublishedInv, Days
    <3>2. LastTickBefore(d) \in Nat
      BY <3>1, LastTick
    <3> QED
      BY <1>t, <2>2, <2>4, <3>1, <3>2 DEF InTimeFor
  <2>5. published'[0] = Areas
    BY <1>0, <2>1 DEF PublishedInv
  <2>6. ASSUME NEW d \in inTime'
        PROVE  /\ d >= 1 /\ published'[d] = Areas
               /\ /\ time' > LastTickBefore(d) - 2
                  /\ pc'["burst"] = "recompute" /\ today'["burst"] = d - 1
                  => stored'[d] = Areas
    <3>1. CASE d \in inTime
      BY <1>t, <2>1, <3>1 DEF PublishedInv
    <3>2. CASE d \notin inTime
      BY <2>1, <2>2, <2>4, <3>2
    <3> QED
      BY <3>1, <3>2
  <2> QED
    BY <2>5, <2>6 DEF PublishedInv
<1>9. CASE Tick
  BY <1>1, <1>9 DEF Tick, nordpool, loop, Running
<1> QED
  BY <1>0, <1>2, <1>3, <1>4, <1>5, <1>6, <1>7, <1>8, <1>9
  DEF Next, Schedule, Restart, Schedules

\* A day published in time finds the last baseline tick still ahead of it.
LEMMA PublishAhead ==
    ASSUME TypeOK, PunctualInv, NEW d \in Nat, d >= 1, InTimeFor(d, time)
    PROVE  Ahead(d)
<1> DEFINE last == LastTickBefore(d)
<1>1. last \in Nat /\ last % SlotsPerDay \in PriceSlots
  BY LastTick
<1>2. time <= last - 2
  BY DEF InTimeFor
<1>3. Ahead(d) <=> \/ pc["price"] # "sleeping" /\ lastFire["price"] < last /\ time < last
                   \/ pc["price"] = "sleeping" /\ next["price"] <= last
  BY DEF Ahead
<1> HIDE DEF last
<1>4. /\ time \in Nat /\ lastFire["price"] \in Int /\ next["price"] \in Nat
      /\ lastFire["price"] <= time + 1
  BY ScheduleNames DEF TypeOK, Time, Never, PunctualInv
<1>5. time < last /\ lastFire["price"] < last
  BY <1>1, <1>2, <1>4
<1>6. CASE pc["price"] = "sleeping"
  <2>1. After("price") \in Int /\ After("price") < last
    BY <1>4, <1>5 DEF After
  <2>2. last \notin After("price") + 1 .. next["price"] - 1
    BY <1>1, <1>6 DEF PunctualInv
  <2> QED
    BY <1>1, <1>3, <1>4, <1>6, <2>1, <2>2
<1> QED
  BY <1>3, <1>5, <1>6

\* The baseline loop reaches its last tick before the day: it runs the job, or
\* a burst run of the same day holds the lock.
LEMMA FireComing ==
    ASSUME TypeOK, LockHeldByItsRun, PunctualInv, PublishedInv, NEW d \in inTime,
           SkipLocked("price") \/ StartRun("price"), Ahead(d)
    PROVE  Coming(d)'
<1> DEFINE last == LastTickBefore(d)
<1> USE ScheduleNames
<1>1. d \in Nat /\ d >= 1 /\ d \in Days
  BY DEF TypeOK, PublishedInv, Days
<1>2. /\ last \in Nat /\ last >= 1
      /\ UtcDate(last) = d - 1 /\ UtcDate(last - 1) = d - 1
  BY <1>1, LastTick
<1>3. \/ pc["price"] # "sleeping" /\ lastFire["price"] < last /\ time < last
      \/ pc["price"] = "sleeping" /\ next["price"] <= last
  BY DEF Ahead
<1>4. lastFire'["price"] < last /\ time' < last /\ pc'["price"] # "sleeping" => Ahead(d)'
  BY DEF Ahead
<1>5. \A s \in Schedules : Fetching(s, d)' <=>
        /\ pc'[s] \in {"today", "tomorrow"} /\ today'[s] = d - 1
        /\ time' <= last
        /\ s = "price" => lastFire'[s] # Never
  BY DEF Fetching
<1>6. stored' = stored /\ time' = time /\ pc'["price"] # "sleeping" /\ d' = d
  BY DEF SkipLocked, StartRun, TypeOK
<1>7. PublishedInv => (time > last - 2 /\ pc["burst"] = "recompute" /\ today["burst"] = d - 1
                         => stored[d] = Areas)
  BY DEF PublishedInv
<1> HIDE DEF last
<1>8. /\ time \in Nat /\ lastFire["price"] \in Int /\ next["price"] \in Nat
  BY DEF TypeOK, Time, Never
<1>9. CASE pc["price"] = "boot"
  <2>1. lastFire'["price"] = lastFire["price"]
    BY <1>9 DEF SkipLocked, StartRun, Fired
  <2> QED
    BY <1>3, <1>4, <1>6, <1>9, <2>1 DEF Coming
<1>10. CASE pc["price"] # "boot"
  <2>1. /\ pc["price"] = "sleeping" /\ time + 1 >= next["price"]
        /\ lastFire'["price"] = next["price"]
    BY <1>10 DEF SkipLocked, StartRun, Fires, Fired, Due, TypeOK
  <2>2. time <= next["price"] /\ next["price"] <= last
    BY <1>3, <2>1 DEF PunctualInv
  <2>3. CASE next["price"] < last
    <3>1. lastFire'["price"] < last /\ time' < last
      BY <1>2, <1>6, <1>8, <2>1, <2>2, <2>3
    <3> QED
      BY <1>4, <1>6, <3>1 DEF Coming
  <2>4. CASE next["price"] = last
    <3>1. time = last \/ time = last - 1
      BY <1>2, <1>8, <2>1, <2>2, <2>4
    <3>2. UtcDate(time) = d - 1 /\ time <= last /\ time > last - 2
      BY <1>2, <3>1
    <3>3. CASE StartRun("price")
      <4>1. /\ pc'["price"] = "today" /\ today'["price"] = d - 1
            /\ lastFire'["price"] # Never
        BY <1>2, <2>1, <2>4, <3>2, <3>3 DEF StartRun, TypeOK, Never
      <4>2. Fetching("price", d)'
        BY <1>5, <1>6, <3>2, <4>1
      <4> QED
        BY <4>2 DEF Coming
    <3>4. CASE SkipLocked("price")
      <4>1. priceLock # "price"
        BY <2>1 DEF LockHeldByItsRun, Running
      <4>2. priceLock = "burst"
        BY <3>4, <4>1 DEF SkipLocked, TypeOK, Schedules
      <4>3. pc["burst"] \in Running /\ today["burst"] = d - 1
        BY <3>2, <4>2 DEF LockHeldByItsRun, PunctualInv
      <4>4. pc'["burst"] = pc["burst"] /\ today'["burst"] = today["burst"]
        BY <3>4 DEF SkipLocked, TypeOK
      <4>5. CASE pc["burst"] = "recompute"
        <5>1. stored[d] = Areas
          BY <1>7, <3>2, <4>3, <4>5
        <5> QED
          BY <1>6, <5>1 DEF Coming
      <4>6. CASE pc["burst"] # "recompute"
        <5>1. Fetching("burst", d)'
          BY <1>5, <1>6, <3>2, <4>3, <4>4, <4>6 DEF Running
        <5> QED
          BY <5>1 DEF Coming
      <4> QED
        BY <4>5, <4>6
    <3> QED
      BY <3>3, <3>4
  <2> QED
    BY <1>2, <1>8, <2>2, <2>3, <2>4
<1> QED
  BY <1>9, <1>10

\* A day that the fetch of tomorrow was for is stored after it.
LEMMA FetchComing ==
    ASSUME TypeOK, PublishedInv, NEW d \in inTime, NEW s \in Schedules,
           FetchTomorrow(s), faults' = faults, today[s] = d - 1
    PROVE  stored'[d] = Areas
<1>1. d \in Nat /\ d \in Days /\ published[d] = Areas
  BY DEF TypeOK, PublishedInv, Days
<1>2. ~Fault
  BY DEF Fault, TypeOK
<1>3. today[s] + 1 = d
  BY <1>1
<1> QED
  BY <1>1, <1>2, <1>3, FaultlessFetch DEF FetchTomorrow

\* A day that is coming stays so until it is stored.
LEMMA KeepsComing ==
    ASSUME TypeOK, LockHeldByItsRun, PunctualInv, PublishedInv, [Next]_vars,
           faults' = faults, NEW d \in inTime, InTimeFor(d, bootAt), Coming(d)
    PROVE  Coming(d)'
<1> DEFINE last == LastTickBefore(d)
<1> USE ScheduleNames
<1>0. ~Fault
  BY DEF Fault, TypeOK
<1>d. d \in Nat /\ d >= 1 /\ d \in Days
  BY DEF TypeOK, PublishedInv, Days
<1>l. last \in Nat /\ last % SlotsPerDay \in PriceSlots
  BY <1>d, LastTick
<1>s. stored[d] = Areas => Coming(d)'
  BY <1>d, RowsStay, NextTypeOK DEF TypeOK, Coming
<1>a. Ahead(d) <=> \/ pc["price"] # "sleeping" /\ lastFire["price"] < last /\ time < last
                   \/ pc["price"] = "sleeping" /\ next["price"] <= last
  BY DEF Ahead
<1>b. Ahead(d)' <=> \/ pc'["price"] # "sleeping" /\ lastFire'["price"] < last /\ time' < last
                    \/ pc'["price"] = "sleeping" /\ next'["price"] <= last
  BY DEF Ahead
<1>f. \A s \in Schedules : Fetching(s, d) <=>
        /\ pc[s] \in {"today", "tomorrow"} /\ today[s] = d - 1
        /\ time <= last
        /\ s = "price" => lastFire[s] # Never
  BY DEF Fetching
<1>g. \A s \in Schedules : Fetching(s, d)' <=>
        /\ pc'[s] \in {"today", "tomorrow"} /\ today'[s] = d - 1
        /\ time' <= last
        /\ s = "price" => lastFire'[s] # Never
  BY DEF Fetching
<1>c. (Ahead(d)' \/ \E s \in Schedules : Fetching(s, d)') => Coming(d)'
  BY DEF Coming
<1>i. bootAt <= last - 2
  BY DEF InTimeFor
<1> HIDE DEF last
<1>p. /\ time \in Nat /\ lastFire["price"] \in Int /\ next["price"] \in Nat
      /\ bootAt \in Nat
  BY DEF TypeOK, Time, Never
<1>1. CASE UNCHANGED vars
  BY <1>1, <1>s, <1>a, <1>b, <1>c, <1>f, <1>g DEF vars, Coming
<1>2. CASE Sleep("price")
  <2>1. /\ pc["price"] = "schedule" /\ pc'["price"] = "sleeping"
        /\ UNCHANGED <<time, stored, lastFire, today>>
        /\ pc'["burst"] = pc["burst"]
    BY <1>2 DEF Sleep, TypeOK
  <2>2. CASE Ahead(d)
    <3>1. time < last /\ lastFire["price"] < last
      BY <1>a, <2>1, <2>2
    <3>2. After("price") \in Int /\ After("price") < last
      BY <1>p, <3>1 DEF After
    <3>3. PICK u \in After("price") + 1 .. After("price") + SlotsPerDay :
            NextAfter("price", After("price"), u) /\ next' = [next EXCEPT !["price"] = u]
      BY <1>2 DEF Sleep
    <3>4. next'["price"] = u /\ last \notin After("price") + 1 .. u - 1
      BY <1>l, <3>3 DEF NextAfter, Slots, TypeOK
    <3>5. u <= last
      BY <1>l, <3>2, <3>3, <3>4
    <3> QED
      BY <1>b, <1>c, <2>1, <3>4, <3>5
  <2>3. CASE \E s \in Schedules : Fetching(s, d)
    <3>1. Fetching("burst", d)
      BY <1>f, <2>1, <2>3 DEF Schedules
    <3> QED
      BY <1>c, <1>f, <1>g, <2>1, <3>1
  <2> QED
    BY <1>s, <2>2, <2>3 DEF Coming
<1>3. CASE Sleep("burst") \/ SkipLocked("burst") \/ SkipCaptured \/ StartRun("burst")
  <2>1. /\ pc["burst"] \notin {"today", "tomorrow"}
        /\ pc'["price"] = pc["price"] /\ next'["price"] = next["price"]
        /\ lastFire'["price"] = lastFire["price"] /\ today'["price"] = today["price"]
        /\ UNCHANGED <<time, stored>>
    BY <1>3 DEF Sleep, SkipLocked, SkipCaptured, StartRun, Fires, Due, Fired, TypeOK
  <2>2. Ahead(d) => Ahead(d)'
    BY <1>a, <1>b, <2>1
  <2>3. (\E s \in Schedules : Fetching(s, d)) => Fetching("price", d)'
    BY <1>f, <1>g, <2>1 DEF Schedules
  <2> QED
    BY <1>s, <1>c, <2>2, <2>3 DEF Coming
<1>4. CASE SkipLocked("price") \/ StartRun("price")
  <2>1. CASE Ahead(d)
    BY <1>4, <2>1, FireComing
  <2>2. CASE \E s \in Schedules : Fetching(s, d)
    <3>1. /\ pc["price"] \notin {"today", "tomorrow"}
          /\ pc'["burst"] = pc["burst"] /\ today'["burst"] = today["burst"]
          /\ UNCHANGED time
      BY <1>4 DEF SkipLocked, StartRun, Fires, Due, TypeOK
    <3> QED
      BY <1>c, <1>f, <1>g, <2>2, <3>1 DEF Schedules
  <2> QED
    BY <1>s, <2>1, <2>2 DEF Coming
<1>5. ASSUME NEW s \in Schedules, FetchToday(s) \/ FetchTomorrow(s) \/ EndRun(s)
      PROVE  Coming(d)'
  <2>1. /\ UNCHANGED <<time, next, lastFire, today>>
        /\ pc[s] # "sleeping" /\ pc'[s] # "sleeping"
        /\ \A k \in Schedules : k # s => pc'[k] = pc[k]
    BY <1>5 DEF FetchToday, FetchTomorrow, EndRun, Release, TypeOK
  <2>2. Ahead(d) => Ahead(d)'
    BY <1>a, <1>b, <2>1
  <2>3. ASSUME NEW k \in Schedules, Fetching(k, d) PROVE Coming(d)'
    <3>1. CASE k # s
      BY <1>c, <1>f, <1>g, <2>1, <2>3, <3>1
    <3>2. CASE k = s /\ FetchToday(s)
      <4>1. pc'[s] = "tomorrow"
        BY <1>0, <3>2 DEF FetchToday, TypeOK
      <4> QED
        BY <1>c, <1>f, <1>g, <2>1, <2>3, <3>2, <4>1
    <3>3. CASE k = s /\ FetchTomorrow(s)
      <4>1. today[s] = d - 1
        BY <1>f, <2>3, <3>3
      <4>2. stored'[d] = Areas
        BY <3>3, <4>1, FetchComing
      <4> QED
        BY <4>2 DEF Coming
    <3>4. CASE k = s /\ EndRun(s)
      BY <1>f, <2>3, <3>4 DEF EndRun
    <3> QED
      BY <1>5, <3>1, <3>2, <3>3, <3>4
  <2> QED
    BY <1>s, <1>c, <2>2, <2>3 DEF Coming
<1>6. CASE \E e \in Days : Publish(e)
  BY <1>6, <1>s, <1>a, <1>b, <1>c, <1>f, <1>g DEF Publish, loop, Coming
<1>7. CASE Tick
  <2>1. /\ time' = time + 1 /\ UNCHANGED <<pc, next, lastFire, today>>
        /\ pc["burst"] = "sleeping"
        /\ \/ pc["price"] = "sleeping"
           \/ pc["price"] \in Running /\ lastFire["price"] = Never /\ time = bootAt
    BY <1>7 DEF Tick, loop
  <2>2. Ahead(d) => Ahead(d)'
    <3>1. pc["price"] # "sleeping" => time' < last
      BY <1>i, <1>l, <1>p, <2>1
    <3> QED
      BY <1>a, <1>b, <2>1, <3>1
  <2>3. ~\E s \in Schedules : Fetching(s, d)
    BY <1>f, <2>1 DEF Schedules
  <2> QED
    BY <1>s, <1>c, <2>2, <2>3 DEF Coming
<1> QED
  BY <1>0, <1>1, <1>2, <1>3, <1>4, <1>5, <1>6, <1>7
  DEF Next, Schedule, Deadline, Restart, Schedules

\* While nothing fails, every published day is stored or about to be.
LEMMA NextNoFault ==
    TypeOK /\ LockHeldByItsRun /\ NoFaultInv /\ [Next]_vars => NoFaultInv'
<1> SUFFICES ASSUME TypeOK, LockHeldByItsRun, NoFaultInv, [Next]_vars, faults' = 0
             PROVE  (PunctualInv /\ PublishedInv /\ ComingInv)'
  BY DEF NoFaultInv
<1>1. faults = 0 /\ faults' = faults
  BY FaultCount DEF TypeOK
<1>2. PunctualInv /\ PublishedInv /\ ComingInv
  BY <1>1 DEF NoFaultInv
<1>3. PunctualInv' /\ PublishedInv'
  BY <1>1, <1>2, NextPunctual, NextPublished
<1>4. bootAt' = bootAt
  BY <1>1 DEF Next, Schedule, Sleep, SkipLocked, StartRun, FetchToday, FetchTomorrow,
              EndRun, Deadline, SkipCaptured, Publish, Tick, Restart, Fault, vars
<1>5. ASSUME NEW d \in inTime, InTimeFor(d, bootAt)' PROVE Coming(d)'
  <2>1. InTimeFor(d, bootAt)
    BY <1>4, <1>5 DEF InTimeFor
  <2>2. Coming(d)
    BY <1>2, <2>1 DEF ComingInv
  <2> QED
    BY <1>1, <1>2, <2>1, <2>2, KeepsComing
<1>6. ASSUME NEW d \in inTime', d \notin inTime PROVE Coming(d)'
  <2>1. PICK e \in Days : Publish(e)
    BY <1>6 DEF Next, Schedule, Sleep, SkipLocked, StartRun, FetchToday, FetchTomorrow,
                EndRun, Deadline, SkipCaptured, Tick, Restart, vars, nordpool
  <2>2. d = e /\ InTimeFor(d, time)
    BY <1>6, <2>1 DEF Publish
  <2>3. d \in Nat /\ d >= 1
    BY <1>3, <2>1, <2>2 DEF PublishedInv, Days
  <2>4. Ahead(d)
    BY <1>2, <2>2, <2>3, PublishAhead
  <2>5. UNCHANGED <<time, pc, next, lastFire>>
    BY <2>1 DEF Publish, loop
  <2>6. Ahead(d)'
    BY <2>4, <2>5 DEF Ahead
  <2> QED
    BY <2>6 DEF Coming
<1> QED
  BY <1>3, <1>5, <1>6 DEF ComingInv

\* The clock cannot reach a day that is still coming.
LEMMA ComingIsStored ==
    TypeOK /\ NoFaultInv => PublishedDayIsStoredWhenItBegins
<1> SUFFICES ASSUME TypeOK, NoFaultInv, faults = 0,
                    NEW d \in inTime, time >= d * SlotsPerDay, InTimeFor(d, bootAt)
             PROVE  stored[d] = Areas
  BY DEF PublishedDayIsStoredWhenItBegins
<1> DEFINE last == LastTickBefore(d)
<1>1. Coming(d) /\ PunctualInv /\ d \in Nat /\ d >= 1
  BY DEF NoFaultInv, ComingInv, PublishedInv, TypeOK, Days
<1>2. last \in Nat /\ last < d * SlotsPerDay
  BY <1>1, LastTick
<1>3. ~(time <= last)
  <2>1. time \in Nat /\ d * SlotsPerDay \in Int
    BY <1>1, ConstantsAssumption DEF TypeOK, Time
  <2> QED
    BY <1>2, <2>1
<1>4. ~\E s \in Schedules : Fetching(s, d)
  BY <1>3 DEF Fetching
<1>5. ~Ahead(d)
  <2>1. time \in Nat /\ next["price"] \in Nat
    BY ScheduleNames DEF TypeOK, Time
  <2>2. Ahead(d) <=> \/ pc["price"] # "sleeping" /\ lastFire["price"] < last /\ time < last
                     \/ pc["price"] = "sleeping" /\ next["price"] <= last
    BY DEF Ahead
  <2> HIDE DEF last
  <2> QED
    BY <1>1, <1>2, <1>3, <2>1, <2>2 DEF PunctualInv
<1> QED
  BY <1>1, <1>4, <1>5 DEF Coming

\* A day that Nord Pool published in full two slots before the last baseline
\* tick of the day before is stored when it begins, if nothing fails: a burst
\* that paused on a part of it and ticks skipped for the lock cannot lose it
\* (the two loops of scheduler::start and prices::run_fetch_job).
THEOREM PublishedDaysArrive == Spec => []PublishedDayIsStoredWhenItBegins
<1>1. Init => NoFaultInv
  <2> SUFFICES ASSUME Init PROVE PunctualInv /\ PublishedInv /\ ComingInv
    BY DEF NoFaultInv
  <2>1. time \in Nat /\ bootAt = time
    BY ConstantsAssumption DEF Init
  <2>2. lastFire["price"] = -1 /\ pc["price"] = "boot" /\ pc["burst"] = "schedule"
    BY ScheduleNames DEF Init, Booted, Never
  <2>3. PunctualInv
    BY <2>1, <2>2 DEF PunctualInv, Running
  <2>4. PublishedInv /\ ComingInv
    BY ScheduleNames DEF Init, PublishedInv, ComingInv, Days
  <2> QED
    BY <2>3, <2>4
<1> QED
  BY <1>1, NextNoFault, ComingIsStored, TypeCorrect, LockIsExclusive, PTL DEF Spec

=============================================================================
