SPECIFICATION FairSpec
CONSTANTS
    Codes = {c1}
    Challenged = {c1}
    OpenIDCodes = {c1}
    OfflineCodes = {c1}
    Requests = {r1, r2, r3}
    EnforcePKCE = TRUE
    Graceful = FALSE
    GraceCount = 0
    Serializable = TRUE
    StorageFaults = FALSE
    NoCode = NoCode
    NoToken = NoToken
PROPERTIES
    RequestsAreAnswered
    ImplementsFamily
CHECK_DEADLOCK FALSE
