SPECIFICATION Spec
CONSTANTS
    Users = {u1}
    Logins = {l1}
    Logouts = {}
    Reads = {}
    KeyCalls = {k1}
    Boot = boot
    MaxGen = 1
    MaxLoads = 1
    None = None
INVARIANTS
    BackendShareNotKept
CHECK_DEADLOCK FALSE
