SPECIFICATION Spec
CONSTANTS
    Users = {u1}
    Logins = {l1}
    Logouts = {x1}
    Reads = {}
    KeyCalls = {k1}
    Boot = boot
    MaxGen = 1
    MaxLoads = 1
    None = None
INVARIANTS
    KeyOnlyDuringSession
CHECK_DEADLOCK FALSE
