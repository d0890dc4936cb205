SPECIFICATION Spec
CONSTANTS
    MaxTries = 2
    QueueCap = 10
    Traffic = TRUE
    Prompt = FALSE
    Faults = {}
    MaxSubmits = 0
CHECK_DEADLOCK FALSE
INVARIANT DropIsNoticed
