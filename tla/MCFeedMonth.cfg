SPECIFICATION Spec
CONSTANTS
    none = none
    Rule <- DateRules
    Empty = none
    MaxRules = 1
    RuleBase = 2
    RulesIdEnd = 2
    Faults = {}
    RemovePayloads = {}
    QueueCap = 2
    Traffic = FALSE
    MinutesPerHour = 2
    HoursPerDay = 2
    DaysPerWeek = 2
    DaysPerMonth = 1
    MonthsPerYear = 2
    Start = 0
    Horizon = 1
    MaxRestarts = 0
INVARIANT
SpecificDueIsFed
