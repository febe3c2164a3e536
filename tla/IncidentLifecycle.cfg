CONSTANTS
    Attempts = {p1, p2}
    Requests = {e1, e2}
    Payloads <- MCPayloads
    InitialRows <- MCInitialRows
    Client = Client
    None = None
    Unset = Unset
    Gone = Gone
SPECIFICATION Spec
SYMMETRY Symmetric
CHECK_DEADLOCK FALSE
INVARIANTS
    ResolvedTimestampLifecycle
    EffectIsReached
PROPERTIES
    EventReportsTheCommit
