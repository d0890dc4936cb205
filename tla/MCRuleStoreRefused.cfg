SPECIFICATION Spec
CONSTANTS
    r1 = r1
    r2 = r2
    none = none
    Rule = {r1, r2}
    Empty = none
    MaxRules = 2
    RuleBase = 2
    RulesIdEnd = 3
    Faults = {}
    Removals <- MqttLow
    Clearers = {}
    MaxRestarts = 0
SYMMETRY RuleSymmetry
INVARIANTS RefusedOnlyWhenFull
