SPECIFICATION Spec
CONSTANTS
    Workers = {w1, w2}
    Names = {alice, bob}
    Passwords = {p1, p2}
    Roles = {viewer}
    Admin = admin
    NoRow = NoRow
    MaxId = 4
SYMMETRY Symmetry
INVARIANTS
    UsernamesUnique
PROPERTIES
    WriteHitsWhatWasRead
    LastAdminLostOnlyInRace
    SetupLateOnlyInRace
