SPECIFICATION Spec
CONSTANTS
    none = none
    Rule <- WeeklyRules
    Empty = none
    MaxRules = 2
    RuleBase = 2
    RulesIdEnd = 3
    Faults = {}
    RemovePayloads = {}
    QueueCap = 2
    Traffic = FALSE
    MinutesPerHour = 2
    HoursPerDay = 2
    DaysPerWeek = 2
    DaysPerMonth = 2
    MonthsPerYear = 2
    Start = 0
    Horizon = 2
    MaxRestarts = 0
PROPERTY
FedOncePerMatch
