SPECIFICATION FairSpec
CONSTANTS
    c1 = c1
    c2 = c2
    Calls <- MCCalls
    TransactionCalls <- MCTransactionCalls
    OldSession = OldSession
    NoSession = NoSession
INVARIANTS
    TypeOK
    OneSessionPerPartial
    AcceptedIsOwn
    NoNonceLeftBehind
    FailureHasCause
PROPERTIES
    CallsSettle
    ImplementsThresholdSigning
CHECK_DEADLOCK FALSE
