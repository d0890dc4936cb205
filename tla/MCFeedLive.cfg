SPECIFICATION FairSpec
CONSTANTS
    none = none
    Rule <- MixedRules
    Empty = none
    MaxRules = 1
    RuleBase = 2
    RulesIdEnd = 2
    Faults = {"delete"}
    RemovePayloads = {0, 255}
    QueueCap = 1
    Traffic = TRUE
    MinutesPerHour = 2
    HoursPerDay = 2
    DaysPerWeek = 2
    DaysPerMonth = 1
    MonthsPerYear = 2
    Start = 5
    Horizon = 5
    MaxRestarts = 0
PROPERTIES AcceptedIsLoaded FedOncePerLoad
