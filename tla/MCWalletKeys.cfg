SPECIFICATION Spec
CONSTANTS
    u1 = u1
    u2 = u2
    Users = {u1, u2}
    MaxLoads = 1
    MaxCalls = 4
    None = None
SYMMETRY Symmetry
INVARIANTS
    TypeOK
    WalletIsOwn
    StoredIsRegistered
    ShareKept
    EntriesOpen
    LoginRestores
CHECK_DEADLOCK FALSE
