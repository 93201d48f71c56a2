SPECIFICATION FairSpec
CONSTANTS
    Commands = {c1, c2}
    Binds = {b1}
    Ports = {p1, p2}
    Users = {}
    NoUser = NoUser
    Clients = {tab}
    NoServer = NoServer
INVARIANTS
    NoSocketForgotten
    ServerListens
    BothNeedsOverlap
    ServerAsPersisted
PROPERTIES
    AutologinKeepsMode
    CommandsReturn
