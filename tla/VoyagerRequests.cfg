CONSTANTS
    c1 = c1
    c2 = c2
    s1 = s1
    d1 = d1
    d2 = d2
    r1 = r1
    r2 = r2
    Classes <- OneClass
    SimpleReqs <- OneSimple
    DebugReqs <- OneDebug
    RetrySlots <- OneRetry
    MaxBackground = 1
    MaxLapses = 1
SPECIFICATION FairSpec
INVARIANTS TrackingInv SingleFlight WaitersHaveWaker
PROPERTIES LatchSpec RequestsTerminate
CHECK_DEADLOCK FALSE
