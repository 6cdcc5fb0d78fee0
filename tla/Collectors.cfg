SPECIFICATION Spec
CONSTANTS
    MaxBody = 2
    RequestTimeout = 30
    ActualDatasets = {windActual}
    ServedForecasts = {wind}
    ArchivedDatasets = {solar}
    HistoryHours = 2
    ForecastHours = 1
    BackfillHours = 1
    ArchiveHours = 1
    ActualRetention = 1
    VintageRetention = 0
    RequestSpacing = 2
    HourlyDeadline = 120
    MaxHour = 1
    MaxVersions = 1
    MaxFingridFaults = 2
    Points <- MCPoints
    WeatherRetention = 0
    WeatherDeadline = 120
    MaxWeatherHour = 1
    MaxForecasts = 1
    MaxWeatherFaults = 1
    Areas = {fi, se}
    MinEntries = 23
    Resolutions = {1, 4}
    ClockChange = 1
    MaxAttempts = 3
    RetryDelay = 7
    PriceDeadline = 300
    LastDate = 1
    MaxPriceFaults = 1
\* The clocks are bounded.
SYMMETRY Symmetry
CHECK_DEADLOCK FALSE
INVARIANTS
    VintageIsNewestAtItsFetch
    WholeRunServesItsHour
    DeliveredBlocksAreStored
    CompleteDateHasItsDay
    RunStoresWhatIsOnSale
    UpstreamFitsTheDeadlines
PROPERTIES
    IssuancesNeverChange
    LatestNeverGoesBack
    OutageKeepsHistory
