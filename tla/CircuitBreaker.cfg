CONSTANTS
    Calls = {c1, c2, c3}
    Generations = {g1, g2, g3, g4, g5}
    Threshold = 2
    RecoveryTicks = 1
    ReadMaxAttempts = 2
SPECIFICATION Spec
INVARIANTS
    SingleProbe
PROPERTIES
    OutageRunsItsCourse
    LateResultsAreIgnored
    RecoversWithTheService
