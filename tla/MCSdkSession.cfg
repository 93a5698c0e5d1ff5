SPECIFICATION Spec
CONSTANTS
    Users = {u1, u2}
    Logins = {l1, l2}
    Logouts = {x1}
    Reads = {r1}
    KeyCalls = {k1}
    Boot = boot
    MaxGen = 1
    MaxLoads = 1
    None = None
SYMMETRY Symmetry
INVARIANTS
    TypeOK
    RefreshedOnce
    SessionsMixOnlyByRefresh
    LogoutForgets
    ReloadKeepsUser
CHECK_DEADLOCK FALSE
