SPECIFICATION HealthySpec
CONSTANTS
    p1 = p1  p2 = p2  s1 = s1  s2 = s2  s3 = s3
    unload = unload  none = none
    Polls <- OnePoll
    Subs <- TwoSubs
    Unload = unload
    None = none
    OldEvent = "virt.instance.query"
    NewEvent = "container.query"
    Locked = TRUE
    InOrder = TRUE
    UnsubEnds = TRUE
    MaxMsgs = 1
    MaxSrv = 1
    Threshold = 0
    Consecutive = 1
INVARIANT NoOrphanConsumer
PROPERTIES UnloadEndsConsumers Resubscribes TopicFollows CatchesUp
CHECK_DEADLOCK FALSE
