SPECIFICATION Spec
CONSTANTS
    Ids = {b1, b2}
    Instances = {s, t}
    None = None
    TtlSeconds = 1
    MaxTokenFailures = 2
    MaxRegs = 2
    MaxTxns = 1
INVARIANTS
    TypeOK
    IdPendingOrLive
    RegistrationsDistinct
PROPERTIES
    RedeemsOnlyFresh
    FinalizedForever
    DetachedIdIsFreed
    ImplementsHandshake
