SPECIFICATION Spec
CONSTANTS
    Flows = {f1, f2}
    Browsers = {b1, b2}
    Subjects = {s1, s2}
    Cids = {c1, c2}
    Prompts = {"", "none"}
    Hints = {NoSubject, s1}
    MaxAnswers = 2
    MaxExpired = 1
    NoFlow = NoFlow
    NoSubject = NoSubject
    NoCid = NoCid
    NoChallenge = NoChallenge
    NoSession = NoSession
    NoRow = NoRow
SYMMETRY Symmetry
INVARIANTS
    IndInv
    CodeToStarter
    CookieFromOwnLogin
    SkipRootedInConsent
    PromptHonoured
PROPERTY
    ImplementsAuthorization
CHECK_DEADLOCK FALSE
