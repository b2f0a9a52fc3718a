SPECIFICATION SplitSpec
CONSTANTS
    ConsecutiveThreshold = 2
    BurstThreshold = 2
    BurstWindow = 1
    OpenDuration = 1
    Calls = {1, 2, 3, 4}
    s1 = s1
    s2 = s2
    Scopes = {s1, s2}
    MaxScoped = 1
    MaxClock = 3
INVARIANT ProbesAreSole
PROPERTY OpenEndsByProbe
PROPERTY HalfOpenIsLeft
CHECK_DEADLOCK FALSE
