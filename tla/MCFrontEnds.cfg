SPECIFICATION Spec
CONSTANTS
    ann = ann
    bob = bob
    t1 = t1
    c1 = c1
    c2 = c2
    Users = {ann, bob}
    Tokens = {t1}
    Calls = {c1, c2}
    Routes <- MCRoutes
    Commands <- MCCommands
    Local = Local
    LocalRole <- MCLocalRole
    Stored <- MCStored
    Granted <- MCGranted
    Gone = Gone
    Unused = Unused
    Nobody = Nobody
SYMMETRY Symmetry
INVARIANTS
    TraceOfWhatWasDone
    NamesWhoActed
    BeyondRoleOnlyIfDemoted
    SessionAsSaid
