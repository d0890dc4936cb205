SPECIFICATION Spec
CONSTANTS
    r1 = r1
    r2 = r2
    none = none
    Rule = {r1, r2}
    Empty = none
    MaxRules = 3
    RuleBase = 2
    RulesIdEnd = 4
    Faults = {"delete", "length"}
    Removals <- NoRemovals
    Clearers = {"mqtt"}
    MaxRestarts = 2
SYMMETRY RuleSymmetry
INVARIANTS TypeOK IndexMirrorsFlash RefusedOnlyWhenFull
PROPERTY IsTable
