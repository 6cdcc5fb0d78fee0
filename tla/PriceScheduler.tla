-------------------------- MODULE PriceScheduler ---------------------------
(***************************************************************************)
(* The two price schedules (crates/server/src/jobs/scheduler.rs) and the   *)
(* price job that they share (jobs/prices.rs).  The baseline schedule runs *)
(* the job at start-up and then every two hours; the burst schedule runs   *)
(* it every ten minutes around the Nord Pool publication, until tomorrow   *)
(* is captured.  They share one lock: a tick is skipped while the other    *)
(* schedule runs the job.                                                  *)
(*                                                                         *)
(* Time is divided into slots.  A slot is the gap between two burst ticks, *)
(* which is longer than the deadline of a run: a run that starts on a      *)
(* schedule time ends in that slot.  Only the start-up run, which starts   *)
(* anywhere in a slot, may still be active in the next one.  A day has     *)
(* SlotsPerDay slots and is the UTC date.  The burst slots (12:00 to 13:59 *)
(* in Oslo) never cross the UTC midnight.                                  *)
(***************************************************************************)
EXTENDS Integers

CONSTANTS
    Areas,        \* the delivery areas
    SlotsPerDay,
    PriceSlots,   \* the slots of a day in which the baseline schedule fires
    BurstSlots,   \* the slots of a day in which the burst schedule fires
    Free,         \* the price lock when nobody holds it
    None,         \* Option::None
    LastDay,      \* bound: the clock stops at the end of this day
    MaxFaults     \* bound on failures, deadlines, panics and restarts

ASSUME ConstantsAssumption ==
    /\ Areas # {}
    /\ SlotsPerDay \in Nat \ {0}
    /\ PriceSlots \subseteq 0 .. SlotsPerDay - 1
    \* the baseline fires for the last time after the first slot of a day
    /\ \E last \in PriceSlots : last > 0 /\ \A slot \in PriceSlots : slot <= last
    /\ BurstSlots \subseteq 0 .. SlotsPerDay - 1 /\ BurstSlots # {}
    /\ Free \notin {"price", "burst"}
    /\ None \notin Nat
    /\ LastDay \in Nat
    /\ MaxFaults \in Nat

Schedules == {"price", "burst"}

Slots(s) == IF s = "price" THEN PriceSlots ELSE BurstSlots

Horizon == (LastDay + 1) * SlotsPerDay

Time == 0 .. Horizon

\* utc_date, as the number of the day.
UtcDate(t) == t \div SlotsPerDay

\* The days that a run can fetch: up to the day after the last one.
Days == 0 .. LastDay + 2

\* last_fire of a schedule that has not fired.
Never == -1

VARIABLES
    time,        \* the clock, in slots
    published,   \* Nord Pool: published[d], the areas with prices for day d
    inTime,      \* history: the days that were published in full in time
    stored,      \* stored[d]: the areas whose rows of day d are complete
    pc,          \* pc[s]: where the loop of schedule s is
    next,        \* next[s]: the schedule time that s sleeps for
    lastFire,    \* last_fire[s]
    today,       \* today[s]: the UTC date that the tick of s read
    available,   \* tomorrow_available of the active run
    priceLock,   \* price_lock: the schedule whose tick holds it
    captured,    \* the date of the last captured day of the burst
    bootAt,      \* history: when the process started
    faults       \* failures so far

vars == <<time, published, inTime, stored, pc, next, lastFire, today,
          available, priceLock, captured, bootAt, faults>>

loop == <<pc, next, lastFire>>
nordpool == <<published, inTime>>

\* "boot" is the tick at start-up; the last three are the steps of a run.
Running == {"today", "tomorrow", "recompute"}
LoopStates == {"boot", "schedule", "sleeping"} \cup Running

TypeOK ==
    /\ time \in Time
    /\ published \in [Days -> SUBSET Areas]
    /\ inTime \subseteq Days
    /\ stored \in [Days -> SUBSET Areas]
    /\ pc \in [Schedules -> LoopStates]
    /\ next \in [Schedules -> Nat]
    /\ lastFire \in [Schedules -> Nat \cup {Never}]
    /\ today \in [Schedules -> 0 .. LastDay + 1]
    /\ available \in BOOLEAN
    /\ priceLock \in Schedules \cup {Free}
    /\ captured \in Days \cup {None}
    /\ bootAt \in Time
    /\ faults \in 0 .. MaxFaults

\* The price loop starts with a tick, the burst loop with its first sleep.
Booted == [s \in Schedules |-> IF s = "price" THEN "boot" ELSE "schedule"]

\* The process starts in some slot of the first day, with nothing stored.
\* The prices of that day were published on the day before.
Init ==
    /\ time \in 0 .. SlotsPerDay - 1
    /\ published = [d \in Days |-> IF d = 0 THEN Areas ELSE {}]
    /\ inTime = {}
    /\ stored = [d \in Days |-> {}]
    /\ pc = Booted
    /\ next = [s \in Schedules |-> 0]
    /\ lastFire = [s \in Schedules |-> Never]
    /\ today = [s \in Schedules |-> 0]
    /\ available = FALSE
    /\ priceLock = Free
    /\ captured = None
    /\ bootAt = time
    /\ faults = 0

-----------------------------------------------------------------------------
(***************************************************************************)
(* run_schedule                                                            *)
(***************************************************************************)

\* Schedule::next_after: u is the first time of schedule s after t.
NextAfter(s, t, u) ==
    /\ u % SlotsPerDay \in Slots(s)
    /\ \A v \in t + 1 .. u - 1 : v % SlotsPerDay \notin Slots(s)

\* Mutant: the next time is taken from the clock alone.
AfterClock(s) == time

\* The instant that the next schedule time comes after.
After(s) == IF lastFire[s] > time THEN lastFire[s] ELSE time

\* The loop computes the next schedule time and sleeps until then.
Sleep(s) ==
    /\ pc[s] = "schedule"
    /\ \E u \in After(s) + 1 .. After(s) + SlotsPerDay :
          /\ NextAfter(s, After(s), u)
          /\ next' = [next EXCEPT ![s] = u]
    /\ pc' = [pc EXCEPT ![s] = "sleeping"]
    /\ UNCHANGED <<time, nordpool, stored, lastFire, today, available,
                   priceLock, captured, bootAt, faults>>

\* The sleep of s is over.  It can end a little before the schedule time.
Due(s) == pc[s] = "sleeping" /\ time + 1 >= next[s]

\* The tick at start-up has no schedule time.
Fires(s) == pc[s] = "boot" \/ Due(s)

Fired(s) ==
    lastFire' = IF pc[s] = "boot" THEN lastFire
                ELSE [lastFire EXCEPT ![s] = next[s]]

-----------------------------------------------------------------------------
(***************************************************************************)
(* The tick closures of scheduler::start                                   *)
(***************************************************************************)

\* Mutant: any captured day pauses the burst.
CanSkipAnyDay(now, last) == last # None

\* burst_can_skip
BurstCanSkip(now, last) == last # None /\ last = UtcDate(now) + 1

\* The burst tick is not needed: tomorrow is captured.
SkipCaptured ==
    /\ Fires("burst")
    /\ BurstCanSkip(time, captured)
    /\ Fired("burst")
    /\ pc' = [pc EXCEPT !["burst"] = "schedule"]
    /\ UNCHANGED <<time, nordpool, stored, next, today, available, priceLock,
                   captured, bootAt, faults>>

\* The tick finds the lock held by the other schedule.
SkipLocked(s) ==
    /\ Fires(s)
    /\ s = "burst" => ~BurstCanSkip(time, captured)
    /\ priceLock # Free
    /\ Fired(s)
    /\ pc' = [pc EXCEPT ![s] = "schedule"]
    /\ UNCHANGED <<time, nordpool, stored, next, today, available, priceLock,
                   captured, bootAt, faults>>

\* The tick takes the lock and starts a run.
StartRun(s) ==
    /\ Fires(s)
    /\ s = "burst" => ~BurstCanSkip(time, captured)
    /\ priceLock = Free
    /\ priceLock' = s
    /\ Fired(s)
    /\ today' = [today EXCEPT ![s] = UtcDate(time)]
    /\ available' = FALSE
    /\ pc' = [pc EXCEPT ![s] = "today"]
    /\ UNCHANGED <<time, nordpool, stored, next, captured, bootAt, faults>>

\* The run of s returned: its guard is dropped.
Release(s) ==
    /\ priceLock' = Free
    /\ pc' = [pc EXCEPT ![s] = "schedule"]

-----------------------------------------------------------------------------
(***************************************************************************)
(* jobs::price_fetch and prices::run_fetch_job                             *)
(***************************************************************************)

Fault == faults < MaxFaults /\ faults' = faults + 1

\* Mutant: one complete area makes the date complete.
AnyAreaPresent(d) == stored[d] # {}

\* all_areas_present
AllAreasPresent(d) == stored[d] = Areas

\* store_prices: one transaction that adds the rows of the areas.
StorePrices(d, areas) == stored' = [stored EXCEPT ![d] = @ \cup areas]

\* The outcomes of fetch_for_date that are not an error.  The rows of an area
\* can be missing from what is stored (a malformed entry is dropped), and a
\* response of an unknown form on the last attempt counts as not published.
FetchForDate(d, outcome) ==
    \/ /\ outcome = "skipped"
       /\ AllAreasPresent(d)
       /\ UNCHANGED <<stored, faults>>
    \/ /\ outcome = "stored"
       /\ ~AllAreasPresent(d)
       /\ published[d] # {}
       /\ \/ StorePrices(d, published[d]) /\ UNCHANGED faults
          \/ Fault /\ \E areas \in (SUBSET published[d]) \ {{}} : StorePrices(d, areas)
    \/ /\ outcome = "empty"
       /\ ~AllAreasPresent(d)
       /\ \/ published[d] = {} /\ UNCHANGED faults
          \/ Fault
       /\ UNCHANGED stored

Outcomes == {"skipped", "stored", "empty"}

\* A failed count, fetch or store of today ends the run with an error.
FetchToday(s) ==
    /\ pc[s] = "today"
    /\ \/ /\ \E outcome \in Outcomes : FetchForDate(today[s], outcome)
          /\ pc' = [pc EXCEPT ![s] = "tomorrow"]
          /\ UNCHANGED priceLock
       \/ /\ Fault
          /\ Release(s)
          /\ UNCHANGED stored
    /\ UNCHANGED <<time, nordpool, next, lastFire, today, available, captured, bootAt>>

\* After a failed count, fetch or store of tomorrow the run goes on.
FetchTomorrow(s) ==
    /\ pc[s] = "tomorrow"
    /\ \/ \E outcome \in Outcomes :
             /\ FetchForDate(today[s] + 1, outcome)
             /\ available' = (outcome \in {"skipped", "stored"})
       \/ /\ Fault
          /\ available' = FALSE
          /\ UNCHANGED stored
    /\ pc' = [pc EXCEPT ![s] = "recompute"]
    /\ UNCHANGED <<time, nordpool, next, lastFire, today, priceLock, captured, bootAt>>

\* The forecast is recomputed (ForecastCache), and the run returns.  A burst
\* run that found tomorrow available pauses the burst.
EndRun(s) ==
    /\ pc[s] = "recompute"
    /\ captured' = IF s = "burst" /\ available THEN today[s] + 1 ELSE captured
    /\ Release(s)
    /\ UNCHANGED <<time, nordpool, stored, next, lastFire, today, available,
                   bootAt, faults>>

\* Mutant: the run is dropped without its guard.
DeadlineKeepsLock(s) ==
    /\ pc[s] \in Running
    /\ Fault
    /\ pc' = [pc EXCEPT ![s] = "schedule"]
    /\ UNCHANGED <<time, nordpool, stored, next, lastFire, today, available,
                   priceLock, captured, bootAt>>

\* guarded: a deadline or a panic drops the run, which then counts as false.
Deadline(s) ==
    /\ pc[s] \in Running
    /\ Fault
    /\ Release(s)
    /\ UNCHANGED <<time, nordpool, stored, next, lastFire, today, available,
                   captured, bootAt>>

-----------------------------------------------------------------------------

\* The last baseline tick before day d begins.
LastTickBefore(d) ==
    CHOOSE t \in (d - 1) * SlotsPerDay .. d * SlotsPerDay - 1 :
        /\ t % SlotsPerDay \in PriceSlots
        /\ \A u \in t + 1 .. d * SlotsPerDay - 1 : u % SlotsPerDay \notin PriceSlots

\* Two slots before that tick.
InTimeFor(d, t) == t <= LastTickBefore(d) - 2

\* Nord Pool publishes the day-ahead prices of some areas, at any time from
\* the day before on.
Publish(d) ==
    /\ d <= UtcDate(time) + 1
    /\ \E areas \in (SUBSET (Areas \ published[d])) \ {{}} :
          published' = [published EXCEPT ![d] = @ \cup areas]
    /\ inTime' = IF published'[d] = Areas /\ InTimeFor(d, time)
                 THEN inTime \cup {d} ELSE inTime
    /\ UNCHANGED <<time, stored, loop, today, available, priceLock, captured,
                   bootAt, faults>>

\* Time passes when no tick is due, and no run is active but a start-up run
\* that began in this slot.
Tick ==
    /\ time < Horizon
    /\ \A s \in Schedules :
          \/ pc[s] = "sleeping" /\ next[s] > time
          \/ /\ s = "price" /\ pc[s] \in Running
             /\ lastFire[s] = Never /\ time = bootAt
    /\ time' = time + 1
    /\ UNCHANGED <<nordpool, stored, loop, today, available, priceLock,
                   captured, bootAt, faults>>

\* The process stops and starts again: the captured day and the lock are lost.
Restart ==
    /\ Fault
    /\ pc' = Booted
    /\ next' = [s \in Schedules |-> 0]
    /\ lastFire' = [s \in Schedules |-> Never]
    /\ priceLock' = Free
    /\ captured' = None
    /\ bootAt' = time
    /\ UNCHANGED <<time, nordpool, stored, today, available>>

Schedule(s) ==
    \/ Sleep(s) \/ SkipLocked(s) \/ StartRun(s)
    \/ FetchToday(s) \/ FetchTomorrow(s) \/ EndRun(s) \/ Deadline(s)

Next ==
    \/ \E s \in Schedules : Schedule(s)
    \/ SkipCaptured
    \/ \E d \in Days : Publish(d)
    \/ Tick
    \/ Restart

Spec == Init /\ [][Next]_vars

-----------------------------------------------------------------------------

\* The lock is held by a schedule exactly while that schedule runs the job, so
\* the two never fetch and store at the same time, and no deadline, panic,
\* failure or skipped tick leaves the lock behind (the guards of
\* scheduler::start).
LockHeldByItsRun ==
    \A s \in Schedules : priceLock = s <=> pc[s] \in Running

\* A schedule never fires a time twice, even when its sleep ends before that
\* time (run_schedule: "must not fire it twice").
NeverFiresTwice ==
    \A s \in Schedules : pc[s] = "sleeping" => next[s] > lastFire[s]

\* The burst skips a tick only when prices of the next UTC day are stored: a
\* day that was captured earlier never hides the day after it.
PausesOnlyForStoredTomorrow ==
    [][SkipCaptured => stored[UtcDate(time) + 1] # {}]_vars

\* When Nord Pool and the database do not fail, a day whose prices were
\* published in full two slots before the last baseline tick of the day before
\* is stored in full when it begins, although the burst may have paused on a
\* part of them and ticks were skipped for the lock.
PublishedDayIsStoredWhenItBegins ==
    faults = 0 =>
        \A d \in inTime :
            time >= d * SlotsPerDay /\ InTimeFor(d, bootAt) => stored[d] = Areas

\* The burst polls "until tomorrow is complete" (STACK.md section 9): a
\* captured day is stored in full.  The code captures a day when any price of
\* it was stored.
CapturedDayIsComplete == captured # None => stored[captured] = Areas

=============================================================================
