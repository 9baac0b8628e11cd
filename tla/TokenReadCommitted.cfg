SPECIFICATION Spec
CONSTANTS
    Codes = {c1}
    Challenged = {}
    OpenIDCodes = {c1}
    OfflineCodes = {c1}
    Requests = {r1, r2, r3, r4}
    EnforcePKCE = FALSE
    Graceful = TRUE
    GraceCount = 2
    Serializable = FALSE
    StorageFaults = TRUE
    NoCode = NoCode
    NoToken = NoToken
SYMMETRY Symmetry
INVARIANTS
    RevokedConsentIsFinal
    OpenIDRowFollowsCode
    GraceBound
    ParentRetired
CHECK_DEADLOCK FALSE
