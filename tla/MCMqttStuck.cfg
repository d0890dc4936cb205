SPECIFICATION FairSpec
CONSTANTS
    KeepAlive = 2
    Limit = 3
    Slow = 1
    ConnackWait = 1
    Pause = 1
    QueueCap = 2
    Recreated = {"restart"}
PROPERTY ConnectingEnds
CHECK_DEADLOCK FALSE
