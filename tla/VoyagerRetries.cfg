CONSTANTS
    c1 = c1
    c2 = c2
    s1 = s1
    d1 = d1
    d2 = d2
    r1 = r1
    r2 = r2
    Classes <- TwoClasses
    SimpleReqs <- NoSimple
    DebugReqs <- TwoDebug
    RetrySlots <- TwoRetries
    MaxBackground = 1
    MaxLapses = 0
SPECIFICATION FairSpec
INVARIANT RetryExclusion
PROPERTIES Phase1LeavesVerdict RetriesEnd
CHECK_DEADLOCK FALSE
