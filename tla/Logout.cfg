SPECIFICATION Spec
CONSTANTS
    Sids = {s1, s2}
    Browsers = {b1}
    Subjects = {u1, u2}
    Clients = {c1}
    Logouts = {l1}
    Requests = {r1, r2}
    MaxLogins = 2
    b1 = b1
    Home <- OneHome
    NoSid = NoSid
    NoBrowser = NoBrowser
    NoSubject = NoSubject
    NoLogout = NoLogout
SYMMETRY Symmetry
INVARIANTS
    IndInv
    NotifiedBeforeGone
    ConfirmedLogout
    CalledTwiceOverlaps
CHECK_DEADLOCK FALSE
