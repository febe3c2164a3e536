SPECIFICATION ProgressSpec
CONSTANTS
    Messages = {1, 2, 3}
    Relays = {r1}
    None = None
    RetryTicks = 3
    Poison = {1, 2}
    Tasks = {1, 2}
    Reconcilers = {w1}
    Tokens = {k1, k2, k3}
    LeaseTicks = 1
    BatchSize = 2
    PoisonTasks = {1}
    Users = {u1, u2}
    PoolSize = 2
    ReadMaxAttempts = 2
INVARIANTS
    AnswersAreTrue
PROPERTIES
    HealthyRowsPublished
    HealthyTasksSettle
    EveryRequestIsAnswered
