SPECIFICATION Spec
CONSTANTS
    Ops = {"stream"}
    MaxAttempts = 2
    Reserved = 4
    Usage <- MCUsage
    Rate <- MCRate
INVARIANT FailedDeliveryFenceCaptures
CHECK_DEADLOCK FALSE
