SPECIFICATION Spec
CONSTANTS
    Areas = {a1, a2}
    SlotsPerDay = 6
    PriceSlots <- MCPriceSlots
    BurstSlots <- MCBurstSlots
    Free = Free
    None = None
    LastDay = 1
    MaxFaults = 1
\* The clock is bounded, so the schedules stop at the end of the last day.
SYMMETRY Symmetry
CHECK_DEADLOCK FALSE
INVARIANTS
    LockHeldByItsRun
    NeverFiresTwice
    PublishedDayIsStoredWhenItBegins
PROPERTIES
    PausesOnlyForStoredTomorrow
