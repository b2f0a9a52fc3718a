SPECIFICATION Spec
SYMMETRY Symmetry
CONSTANTS
    MaxLag = 1
    MaxClock = 4
    narrow = narrow
    broad = broad
    Buckets = {narrow, broad}
    Capacity <- MCCapacity
    Refill <- MCRefill
    Ttl <- MCTtl
    Charges <- MCCharges
    MaxLate = 2
    wide = wide
    single = single
    Keys = {wide, single}
    Requests = {r1}
    NoRequest = NoRequest
    Leases = {l1, l2, l3}
    Limit <- MCLimit
    Lifetimes = {1, 3}
    TicketIds = {t1, t2}
    Calls = {c1, c2, c3}
    Destinations = {d1, d2}
    TicketTtl = 2
    RedeemedTtl = 2
    StateTtl = 2
    Callers = {h1, h2}
    Costs = {1, 2}
    Budget = 3
    FreeTtl = 2
    MaxCount = 3
    MaxUsed = 4
INVARIANT AdmissionBound
INVARIANT RetryAfterSuffices
INVARIANT WithinLimit
INVARIANT ReleasedIsFree
INVARIANT SpentOnce
INVARIANT PublishedInTime
INVARIANT CountIsShortLived
INVARIANT FreeWithinBudget
CHECK_DEADLOCK FALSE
