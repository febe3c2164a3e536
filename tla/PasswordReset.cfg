CONSTANTS
    Issues = {i1, i2}
    Confirms = {c1, c2}
    Changes = {p1, p2}
    Logins = {l1}
    Original = Original
    None = None
SPECIFICATION Spec
SYMMETRY Symmetric
CHECK_DEADLOCK FALSE
INVARIANTS
    OneUsableToken
    NoLockCycle
    SessionsFollowThePassword
PROPERTIES
    ChangesBuildOnWhatTheyVerified
