SPECIFICATION Spec
ACTION_CONSTRAINT KeepsToScenario
CONSTANTS
    a1 = a1
    a2 = a2
    limited = limited
    open = open
    w1 = w1
    w2 = w2
    r1 = r1
    r2 = r2
    r3 = r3
    Accounts = {a1, a2}
    Requests = {w1, w2, r1, r2, r3}
    Keys = {limited, open}
    AccountOf <- MCAccountOf
    KeyOf <- MCKeyOf
    AmountOf <- MCAmountOf
    Fundings = {"balance", "trial", "trial_pool"}
    KeyLimit <- MCKeyLimit
    Costs = {1, 4}
    Credits = {5}
    MaxCredited = 5
    DailyBudget = 5
    Days = 2
    TrialCeiling = 4
    PoolBudget = 6
    Allowance = 4
    Replies = 2
    TokenBudget = 3
    EstTokens = 1
    SweepLimit = 2
    MaxVanished = 1
INVARIANT WalletBalances
INVARIANT DailyHoldsAreReturned
INVARIANT LimitsHold
CHECK_DEADLOCK FALSE
