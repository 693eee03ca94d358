\* Two overlapping runs of each program, one to three rows of each kind.
CONSTANTS
    Sessions = {s1, s2}
    None = None
    Debts = {i1}
    Levels = {l1, l2}
    DailyRuns = {r1, r2}
    NoDate = None
    Ahead = 1
    MaxReminderDay = 2
    MaxLevelCalls = 3
    MaxCutOff = 1
    MaxSeedRuns = 3
    Workers <- SomeWorkers
    Cars = {"v"}
    Nom <- SomeNoms
    LastName <- SomeNoms
    Sheet <- SomeSheet
    CarPapers <- SomePapers
    Demands <- SomeDemands
    Nobody = None
    MaxFills = 2
    RouteCodes = {3}
    SheetCodes = {"1029", "174"}
    SheetDays = {1, 2}
    SheetMonth = 2
    MaxMonth = 2
    MaxNumbered = 5
    Sirens <- SomeSirens
    Sirets <- SomeSirets
    Nirs <- SomeNirs
    Ibans <- SomeIbans
    Untyped = None
    Uploaders = {u1}
    Parcels <- SomeParcels
    FilledFiles = {"b"}
    Cleaners = {k1, k2}
    PageSize = 2
    MaxPapers = 3
    MaxWhole = 1
    MaxErrors = 1
    MaxLaunches = 3
    MaxOfficeCalls = 1
    Plates = {v1, v2}
    Certified = {v1}
    Insured = {v1, v2}
    Dated = {v1}
    TestCar = v1
    Staff = {d1}
    Qualified <- SomeQualified
    InFleet = {v1}
    MaxLoads = 2
    MaxPuts = 1
SPECIFICATION UpkeepSpec
INVARIANTS UpkeepTypeOK SlipsAreCaught SentPapersHaveObjects LatestSurvives
PROPERTIES RelancesCatchUp
CHECK_DEADLOCK FALSE
