SPECIFICATION FairSpec
CONSTANTS
    Amounts <- MCAmounts
    RuleAmounts = {0, 2}
    Leftovers <- MCLeftovers
    QueueCap = 2
INVARIANTS TypeOK RestsDisabled
PROPERTIES UpdateIsTold
