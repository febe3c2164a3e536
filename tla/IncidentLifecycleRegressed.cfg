CONSTANTS
    Attempts = {p1}
    Requests = {e1}
    Payloads <- MCPayloads
    InitialRows <- MCInitialRows
    Client = Client
    None = None
    Unset = Unset
    Gone = Gone
SPECIFICATION Spec
CHECK_DEADLOCK FALSE
PROPERTIES
    NeverRegressed
