SPECIFICATION ServiceSpec
CONSTANTS
    Operations = {o1}
    Keys = {k1, k2, k3}
    Ttl = 3
    MinTtl = 2
    MaxTtl = 6
    ClockSkew = 1
    MaxClockSkew = 1
    MaxOffset = 1
    Timeout = 2
    Backoff = 1
    ReadAttempts = 2
INVARIANTS
    LateAttemptsExpire
PROPERTIES
    RefusedOnlyBetweenTheSwitches
