SPECIFICATION Spec
CONSTANTS
    Devices = {d1, d2}
    UserCodes = {k1}
    Flows = {f1, f2}
    Scopes = {"openid"}
    Verifiers = {v1, v2}
    Polls = {p1, p2}
    Isolations = {"serializable", "read_committed"}
    NoDevice = NoDevice
    NoFlow = NoFlow
    NoRow = NoRow
SYMMETRY Symmetry
INVARIANTS
    IndInv
    DeviceTokensBacked
PROPERTY
    ImplementsDeviceFamily
CHECK_DEADLOCK FALSE
