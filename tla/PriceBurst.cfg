SPECIFICATION Spec
CONSTANTS
    Areas = {a1, a2}
    SlotsPerDay = 6
    PriceSlots <- MCPriceSlots
    BurstSlots <- MCBurstSlots
    Free = Free
    None = None
    LastDay = 0
    MaxFaults = 0
\* The clock is bounded, so the schedules stop at the end of the last day.
CHECK_DEADLOCK FALSE
INVARIANTS
    CapturedDayIsComplete
