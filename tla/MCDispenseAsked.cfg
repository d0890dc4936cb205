SPECIFICATION Spec
CONSTANTS
    Amounts <- MCAmounts
    RuleAmounts = {0, 2}
    Leftovers <- MCLeftovers
    QueueCap = 2
INVARIANT FedAsAsked
