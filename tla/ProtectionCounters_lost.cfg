SPECIFICATION CountersSpecWithFailures
CONSTANTS
    MaxLag = 1
    Callers = {c1, c2}
    Costs = {1, 2}
    Budget = 3
    FreeTtl = 2
    MaxCount = 3
    MaxUsed = 5
    MaxClock = 3
INVARIANT CountIsShortLived
CHECK_DEADLOCK FALSE
