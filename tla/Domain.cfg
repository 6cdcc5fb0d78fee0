SPECIFICATION Spec
CONSTANTS
    DayLength = 3
    LastInstant = 11
    Routes <- MCRoutes
    Zones <- MCZones
    Contracts <- MCContracts
    Queries <- MCQueries
    Spans <- MCSpans
    Deliveries <- MCDeliveries
    MaxStores = 3
    MaxSaves = 1
    MaxHistorySpanDays = 31
    MaxWindowMinutes = 1440
    MaxSafeInteger = 2000
    LastHour = 70389502
    AreaCodes = {"FI"}
    ZoneNames = {"Europe/Helsinki"}
    CheapestInputs <- MCCheapest
    HistoryInputs <- MCHistory
    SettingsInputs <- MCSettings
    Quarter = 2
    Hour = 4
    Day = 12
    DaysOfWeek = 2
    LastTime = 150
    MarketZone <- MCMarketZone
    GapFillLookbackWeeks = 2
    PublishedDayLookback = 2
    ForecastDays = 1
    FloorHistoryDays = 5
    TrainingHistoryDays = 2
    CorrectionHistoryDays = 2
    Neighbours = {"SE3"}
    WindWeeks = 2
    ConsumptionWeeks = 1
    ServedShapeWeeks = 2
    MinFitSamples = 3
    PublicationHour = 1
    Facts <- MCFacts
    Gaps <- MCGaps
    MaxGaps = 1
    BuildTimes = {92, 100, 104}
    Restriction = {20, 56}
    Horizons = 1
    Variants <- MCVariants
    UtcHours = {0, 1}
    Errors <- MCErrors
    NominalPercent = 40
    GatePercent = 70
    MinHourSamples = 3
    MinTotalSamples = 3
    MinWindowDays = 1
    MaxResiduals = 6
    MaxDays = 2
INVARIANTS
    TomorrowIsWhole
    CheapestIsCheapest
    AcceptsExactlyWhatIsValid
    NoLookAhead
    GuardFindsEveryLeak
    ArmsScoreTheSameTargets
    ReplayReadsWhatTheRouteRead
    FallsBackOnlyWithoutData
    ShippedBandsCover
CHECK_DEADLOCK FALSE
