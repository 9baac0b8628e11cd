SPECIFICATION Spec
CONSTANTS
    Requests = {r1, r2, r3}
    Assertions = {a1, a2}
    Bearer = {a2}
    Proofs = {p1}
    Codes = {c1}
    Anonymous = TRUE
    Exp = 2
    Start = 1
    MaxTime = 3
    None = None
SYMMETRY Symmetry
INVARIANTS
    IndInv
    AcceptedOnceInTime
    ProofReplayOverlaps
    TokenEarned
PROPERTY
    ImplementsCodeFamily
CHECK_DEADLOCK FALSE
