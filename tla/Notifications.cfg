SPECIFICATION MCSpec
CONSTANTS
    Messages = {e1, e2}
    Malformed = {e2}
    Workers = {r1}
    HookWorkers = {h1}
    Connections = {c1, c2}
    Established = {c1}
    BatchSize = 2
    MaxReceives = 2
    Secrets = {s1, s2}
    None = None
INVARIANTS
    AcknowledgedWasAnnounced
    ChannelsAreIndependent
    RepeatsNeedAFailure
    OpenConnectionsAreListed
    DeliveredBeforeDeleted
    DeadByItsOwnFailures
CHECK_DEADLOCK FALSE
