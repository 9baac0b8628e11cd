SPECIFICATION Spec
CONSTANTS
    Requests = {u1, u2, u3, u4}
    Isolations = {"serializable", "read_committed"}
    Lifespan = 1
    MaxTime = 1
    None = None
SYMMETRY Symmetry
INVARIANTS
    IndInv
    SecretReturnsStale
    SecretSpoiltByRetry
    TokenReturnsWithLifespans
    LiveRequestResolves
PROPERTY
    DeletedStaysDeleted
CHECK_DEADLOCK FALSE
