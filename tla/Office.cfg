\* One to three rows of each table, and two calls that overlap.
CONSTANTS
    Sessions = {s1, s2}
    None = None
    Frequencies = {1}
    Amounts = {1}
    AlertDays = 0
    MaxFleetCalls = 3
    MaxFleetDay = 1
    MaxClaims = 2
    MaxClaimDay = 1
    Orders = {j1}
    Prices = {1, 2}
    MaxOffers = 3
    OcrWorkers = {w1}
    MaxScans = 2
    MaxBills = 2
    Customers = {c1}
    Jobs = {j1, j2}
    Owner <- OneOwner
    Distances = {1, 2}
    RuleBodies <- SmallRules
    Cent = 10
    MaxRules = 1
    MaxPriced = 1
    MaxCredits = 1
    Codes = {c1}
    OtherCodes = {}
    YearWeeks = 53
    MonthDays = 30
    MaxDate = 1
    MaxRuns = 2
    Stops = {m1, m2}
    MaxPlace = 3
    MaxListed = 2
    Tours = {m1, m2}
    Crew = {d1}
    MaxDay = 0
    Preset = {v1}
    SettingIds = {a1, a2}
    Months = {k1}
    Shifts = {k2}
    Spans <- SmallSpans
    MaxReports = 3
SYMMETRY Symmetry
SPECIFICATION OfficeSpec
INVARIANTS OfficeTypeOK SameDistanceSamePrice GeneratedOnce
PROPERTIES GaplessClaims  ApprovalFollowsMatching
CHECK_DEADLOCK FALSE
