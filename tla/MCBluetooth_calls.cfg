SPECIFICATION FairSpec
CONSTANTS
    Budgets <- MCBudgets
    Slack = 1
    UnpairTimeout = 10
    ReleaseVerifyTimeout = 3
    ReleasePollInterval = 2
    ReleaseWindow = 20
    AcquireSettleSleep = 5
    PairTimeout = 80
    ConnectAttemptTimeout = 50
    AcquireVerifyTimeout = 10
    AcquirePollInterval = 2
    AcquireVerifyWindow = 10
CHECK_DEADLOCK FALSE
INVARIANTS TypeOK BudgetKept SuccessIsReal TimeoutIsReal
PROPERTIES RetryCanVerify EveryCallEnds
