SPECIFICATION FairSpec
CONSTANTS
    MaxTries = 2
    QueueCap = 5
    Traffic = FALSE
    Prompt = TRUE
    Faults = {"ifup"}
    MaxSubmits = 0
CHECK_DEADLOCK FALSE
PROPERTY InitializingEnds
