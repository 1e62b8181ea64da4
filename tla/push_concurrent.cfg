SPECIFICATION Spec
CONSTANTS
    p1 = p1  p2 = p2  s1 = s1  s2 = s2  s3 = s3
    unload = unload  none = none
    Polls <- TwoPolls
    Subs <- TwoSubs
    Unload = unload
    None = none
    OldEvent = "virt.instance.query"
    NewEvent = "virt.instance.query"
    Locked = TRUE
    InOrder = FALSE
    UnsubEnds = FALSE
    MaxMsgs = 1
    MaxSrv = 2
    Threshold = 1
    Consecutive = 2
INVARIANTS TypeOK PushNotLost
PROPERTY ImplementsForwardView
SYMMETRY Symmetry
CHECK_DEADLOCK FALSE
