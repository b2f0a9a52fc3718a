SPECIFICATION Spec
CONSTANTS
    Ops = {"json"}
    MaxAttempts = 2
    Reserved = 4
    Usage <- MCUsage
    Rate <- MCRate
INVARIANT FallbackFollowsFailure
CHECK_DEADLOCK FALSE
