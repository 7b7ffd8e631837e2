\* Two seeds and two requests of any kind, three transactions at a time.
SPECIFICATION FairSpec
CONSTANTS
    Emails = {demo, other}
    Names = {hawks}
    Missing = missing
    Registrations = {g1, g2}
    Creations = {a1}
    Seeds = {s1, s2}
    Admin = admin
    Changes = {c1, c2}
    Writes = {w1}
    DemoEmail = demo
    League = league
    Hawks = hawks
    Owls = owls
    Foxes = foxes
    Bears = bears
    MaxBusy = 3
    MaxCalls = 2
INVARIANTS
    OneAccount
    EveryMatchListed
    OneScorekeeper
    DemoOnce
    DemoMatchReady
PROPERTIES
    AllEnd
