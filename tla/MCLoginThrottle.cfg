SPECIFICATION Spec
CONSTANTS
    Users = {u1, u2}
    IPs = {ip1}
    IpOnly = ipOnly
    Attempts = {a1, a2, a3}
    MaxFailures = 2
    MaxIpFailures = 3
    Lockout = 2
    MaxLag = 0
    MaxTime = 4
SYMMETRY Symmetry
INVARIANTS
    LockFollowsStreak
    SweepDecides
    LockBoundsStreak
PROPERTIES
    LockNeverShortened
