SPECIFICATION Spec
CONSTANTS
    Codes = {c1}
    Challenged = {c1}
    OpenIDCodes = {c1}
    OfflineCodes = {c1}
    Requests = {r1, r2, r3, r4}
    EnforcePKCE = TRUE
    Graceful = FALSE
    GraceCount = 0
    Serializable = TRUE
    StorageFaults = TRUE
    NoCode = NoCode
    NoToken = NoToken
SYMMETRY Symmetry
INVARIANTS
    IndInv
    SingleRedemption
    StrictSinglePair
    KilledIsFinal
    ReplayLeavesNoRefresh
    VerifierChecked
CHECK_DEADLOCK FALSE
