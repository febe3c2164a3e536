SPECIFICATION MCSpec
CONSTANTS
    Threads = {t1, t2}
    Addresses = {a1}
    Accounts = {u1}
    MaxLag = 1
    IpMaxAttempts = 2
    IpWindow = 1
    AccountMaxFailures = 2
    AccountWindow = 3
    IpMaxRequests = 2
    IpResetWindow = 2
    AccountMaxRequests = 2
    AccountResetWindow = 3
INVARIANTS
    GuessesAreLimited
    AttemptsAreLimited
    RetryAfterIsEnough
