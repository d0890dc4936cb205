SPECIFICATION FairSpec
CONSTANTS
    KeepAlive = 1
    Limit = 2
    Slow = 1
    ConnackWait = 1
    Pause = 1
    QueueCap = 2
    Recreated = {"restart", "dead", "fault"}
INVARIANTS TypeOK RunningIsSession SensorFollows SessionIsFed
PROPERTIES LostIsRetried SamplesFlow
CHECK_DEADLOCK FALSE
