SPECIFICATION Spec
CONSTANTS
    KeepAlive = 2
    Limit = 3
    Slow = 1
    ConnackWait = 1
    Pause = 1
    QueueCap = 2
    Recreated = {"restart"}
INVARIANT SensorAlwaysTold
CHECK_DEADLOCK FALSE
