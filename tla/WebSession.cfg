\* The tab, the account and everybody else who uses it.
SPECIFICATION Spec
CONSTANTS
    Attempts = {browser, other}
    Browser = browser
    MaxFailedAttempts = 2
    LockDuration = 2
    SessionLifetime = 2
    Budgets <- TheBudgets
    Hotels = {1, 2}
    Periods = {7, 30}
INVARIANTS
    SessionsFollowThePassword
    GuessesAreBounded
    RotationLiftsTheLock
    QuietPageHasSettled
\* Every behaviour ends when its budget is spent.
CHECK_DEADLOCK FALSE
