SPECIFICATION FairSpec
CONSTANTS
    Users = {u1}
    Logins = {l1}
    Logouts = {x1}
    Reads = {r1}
    KeyCalls = {k1}
    Boot = boot
    MaxGen = 1
    MaxLoads = 1
    None = None
PROPERTIES
    CallsEnd
CHECK_DEADLOCK FALSE
