SPECIFICATION Spec
CONSTANTS
    KeepAlive = 6
    Limit = 7
    Slow = 1
    ConnackWait = 1
    Pause = 1
    QueueCap = 2
    Recreated = {"restart"}
INVARIANT ReconnectsInTime
CHECK_DEADLOCK FALSE
