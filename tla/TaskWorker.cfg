CONSTANTS
    Messages <- MCMessages
    Notifications <- MCNotifications
    Workers = {w1, w2}
    Keys <- MCKeys
    Tasks <- MCTasks
    Contents <- MCContents
    KeyOf <- MCKeyOf
    TaskOf <- MCTaskOf
    ContentOf <- MCContentOf
    Traffics <- MCTraffics
    BatchSize = 2
    MaxReceives = 2
    None = None
SPECIFICATION Spec
CHECK_DEADLOCK FALSE
INVARIANTS
    AcknowledgedWasProcessed
    OneEffectPerKey
PROPERTIES
    EveryMessageIsSettled
