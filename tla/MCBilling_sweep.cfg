SPECIFICATION FairSpec
CONSTANTS
    a1 = a1
    k1 = k1
    Accounts = {a1}
    Requests = {r1, r2}
    Keys = {k1}
    AccountOf <- OneAccount
    KeyOf <- OneKey
    AmountOf <- Unit
    Fundings = {"balance"}
    KeyLimit <- LimitHigh
    Costs = {1}
    Credits = {3}
    MaxCredited = 3
    DailyBudget = 0
    Days = 1
    TrialCeiling = 0
    PoolBudget = 0
    Allowance = 0
    Replies = 1
    TokenBudget = 3
    EstTokens = 1
    SweepLimit = 2
    MaxVanished = 1
PROPERTY StaleHoldsAreFinalized
CHECK_DEADLOCK FALSE
