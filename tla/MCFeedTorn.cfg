SPECIFICATION Spec
CONSTANTS
    none = none
    Rule <- HourlyRules
    Empty = none
    MaxRules = 1
    RuleBase = 2
    RulesIdEnd = 2
    Faults = {}
    RemovePayloads = {}
    QueueCap = 2
    Traffic = FALSE
    MinutesPerHour = 2
    HoursPerDay = 2
    DaysPerWeek = 2
    DaysPerMonth = 2
    MonthsPerYear = 2
    Start = 0
    Horizon = 2
    MaxRestarts = 0
PROPERTY
FedWhenDue
