SPECIFICATION FairSpec
CONSTANTS
    Names = {n1, n2}
    Wanted = {n1}
    Processes = {p1, p2}
    Clients = {c1}
    None = None
    MaxCrashes = 1
    MaxInbox = 2
INVARIANTS
    NeverAborts
    ExitsUnused
    RegistrationAccepted
PROPERTIES
    WaitersServed
    IdleServiceStops
