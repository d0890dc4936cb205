SPECIFICATION FairSpec
CONSTANTS
    MaxTries = 3
    QueueCap = 5
    Traffic = TRUE
    Prompt = TRUE
    Faults = {"iface", "ifup", "connect", "bt"}
    MaxSubmits = 0
PROPERTIES WaitingEnds
CHECK_DEADLOCK FALSE
