SPECIFICATION Spec
CONSTANTS
    r1 = r1
    r2 = r2
    none = none
    Rule = {r1, r2}
    Empty = none
    MaxRules = 2
    RuleBase = 2
    RulesIdEnd = 3
    Faults = {"length"}
    Removals <- NoRemovals
    Clearers = {}
    MaxRestarts = 1
SYMMETRY RuleSymmetry
PROPERTY RestartKeeps
