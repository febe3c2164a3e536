CONSTANTS
    Tabs = {a, b}
    Refreshes = {r1, r2, r3}
    Logouts = {o1}
    LogoutAlls = {q1}
    Original = Original
    None = None
    Pages = {p1, p2}
    MaxSignIns = 2
    MaxRotations = 2
SPECIFICATION MCSpec
SYMMETRY Symmetric
CHECK_DEADLOCK FALSE
INVARIANTS
    OneRedemption
    ReuseEndsTheSession
    BrowserKeepsItsSession
    UserAndTokenAgree
PROPERTIES
    RevokedIsFinal
    StaysSignedIn
