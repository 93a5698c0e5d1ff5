SPECIFICATION Spec
CONSTANTS
    Ops = {c1, c2, o3}
    CallLists <- Batches
    Unknown = Unknown
    Urls = 3
    Callers = {c1, c2}
    MaxRequests = 4
    BuiltIn = {n1}
    Custom = {x1}
    Switches = {c1, c2}
    MaxProviders = 2
    NoChain = NoChain
    Accounts = {a1, a2}
    Networks = {w1, w2}
    AdapterCalls = {c1, c2}
    MaxOpened = 2
    Nobody = Nobody
    MaxSdks = 2
    HookCalls = {c1, c2}
INVARIANT BatchDecodes
SYMMETRY Interchangeable
CHECK_DEADLOCK FALSE
