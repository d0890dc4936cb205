SPECIFICATION Spec
CONSTANTS
    MaxTries = 3
    QueueCap = 3
    Traffic = FALSE
    Prompt = FALSE
    Faults = {"iface", "ifup", "connect", "bt", "store", "led"}
    MaxSubmits = 1
INVARIANTS TypeOK OnlineIsUp WaitIsTimed
PROPERTIES GivesUpAfterTries IsSession
CHECK_DEADLOCK FALSE
