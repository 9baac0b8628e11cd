SPECIFICATION Spec
CONSTANTS
    Requests = {u1, u2}
    Isolations = {"serializable"}
    Lifespan = 1
    MaxTime = 1
    None = None
SYMMETRY Symmetry
INVARIANT
    SecretUsable
CHECK_DEADLOCK FALSE
