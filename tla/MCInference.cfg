SPECIFICATION FairSpec
CONSTANTS
    Ops = {"stream","json","embeddings","media","e2ee"}
    MaxAttempts = 2
    Reserved = 4
    Usage <- MCUsage
    Rate <- MCRate
INVARIANT DeliveredIsPaid
INVARIANT OutcomeIsJustified
INVARIANT OutputIsBacked
PROPERTY TerminalRowIsFrozen
PROPERTY HoldsAreFinalized
PROPERTY IsPrepaidRequest
CHECK_DEADLOCK FALSE
