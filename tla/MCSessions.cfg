SPECIFICATION SessionsSpec
CONSTANTS
    Tokens = {t1, t2}
    Identities = {admin, viewer}
    Allowed = {admin}
    Nobody = Nobody
    Requests = {r1, r2}
    AbsoluteTtl = 4
    IdleTtl = 2
    RememberedAbsoluteTtl = 5
    RememberedIdleTtl = 3
    MaxLag = 1
    MaxTime = 5
SYMMETRY Symmetry
INVARIANTS
    MapIsSwept
    LiveSessionSurvives
PROPERTIES
    LoggedOutNotServed
    ExpiryEnforced
