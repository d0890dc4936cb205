SPECIFICATION Spec
CONSTANTS
    MaxTries = 2
    QueueCap = 5
    Traffic = FALSE
    Prompt = TRUE
    Faults = {}
    MaxSubmits = 0
CHECK_DEADLOCK FALSE
INVARIANT RssiCancelled
