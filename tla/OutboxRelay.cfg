CONSTANTS
    Messages = {1, 2}
    Relays = {r1, r2}
    None = None
    RetryTicks = 1
SPECIFICATION Spec
INVARIANTS
    DuplicatesNeedAFault
PROPERTIES
    DeliversAtLeastOnce
