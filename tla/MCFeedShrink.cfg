SPECIFICATION Spec
CONSTANTS
    none = none
    Rule <- SuccessiveRules
    Empty = none
    MaxRules = 2
    RuleBase = 2
    RulesIdEnd = 3
    Faults = {}
    RemovePayloads = {}
    QueueCap = 2
    Traffic = FALSE
    MinutesPerHour = 2
    HoursPerDay = 2
    DaysPerWeek = 2
    DaysPerMonth = 1
    MonthsPerYear = 2
    Start = 5
    Horizon = 6
    MaxRestarts = 0
INVARIANT
WeeklyDueIsFed
