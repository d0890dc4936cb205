SPECIFICATION Spec
CONSTANTS
    none = none
    Rule <- WeeklyRules
    Empty = none
    MaxRules = 2
    RuleBase = 2
    RulesIdEnd = 3
    Faults = {"write", "length"}
    RemovePayloads = {}
    QueueCap = 1
    Traffic = TRUE
    MinutesPerHour = 2
    HoursPerDay = 2
    DaysPerWeek = 2
    DaysPerMonth = 2
    MonthsPerYear = 2
    Start = 0
    Horizon = 4
    MaxRestarts = 1
INVARIANTS TypeOK WeeklyDueIsFed AddIsAnnounced RulesEvaluated
PROPERTIES FedOncePerLoad FedInItsMinute FedFromLoad
