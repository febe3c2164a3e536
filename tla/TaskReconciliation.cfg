CONSTANTS
    Tasks = {1}
    Reconcilers = {w1, w2, w3}
    Tokens = {k1, k2, k3, k4}
    None = None
    LeaseTicks = 1
    BatchSize = 1
SPECIFICATION Spec
INVARIANTS
    WorkIsRepeatedForAReason
PROPERTIES
    ClaimHoldsForTheLease
    SettlesEveryTask
