SPECIFICATION Spec
CONSTANTS
    Q = 5
    Challenge <- MCChallenge
    XCoord <- MCXCoord
    SCALAR_BITS = 3
    Sessions = {1, 2}
    FactorsA <- Few
    FactorsB = {0, 2, 4}
    KeyDraws <- MCDraws
    PadDraws <- MCDraws
    None = None
    DklsNonces <- Few
    Digests = {0, 3, 7}
    NoValue = NoValue
    Coefficients = {1, 4}
    PartyIds = {1, 2, 3}
    Nonces <- Few
    Hashes = {2, 4}
    Null = Null
    short = short
    long = long
    other = other
    k1 = k1
    weak = weak
    Passwords = {short, long, other}
    ShortPasswords = {short}
    Salts = {1, 2}
    SeedScalar <- MCSeedScalar
    Kdfs = {k1, weak}
    BadKdfs = {weak}
    Wallets = 2
    WalletDraws = {2, 3}
    Nothing = Nothing
INVARIANTS
    SharesMultiply
    OpensOnlyTheChosen
    KeyIsShared
    SignatureVerifies
    SharesInterpolate
    AcceptedPartialIsRight
    TypesOK
    RecoversTheBackedUpWallet
PROPERTIES
    ImplementsMultiplication
CHECK_DEADLOCK FALSE
