SPECIFICATION FairSpec
CONSTANTS
    a1 = a1
    k1 = k1
    Accounts = {a1}
    Requests = {r1, r2, r3}
    Keys = {k1}
    AccountOf <- OneAccount
    KeyOf <- OneKey
    AmountOf <- Unit
    Fundings = {"trial"}
    KeyLimit <- LimitHigh
    Costs = {1}
    Credits = {}
    MaxCredited = 0
    DailyBudget = 0
    Days = 1
    TrialCeiling = 3
    PoolBudget = 0
    Allowance = 0
    Replies = 3
    TokenBudget = 3
    EstTokens = 1
    SweepLimit = 2
    MaxVanished = 2
PROPERTY StaleHoldsAreFinalized
CHECK_DEADLOCK FALSE
