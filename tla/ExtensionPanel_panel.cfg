\* Two games, two accounts, three handlers that wait at a time.
SPECIFICATION Spec
CONSTANTS
    Games = {g1, g2}
    Today = {g1}
    Demo = demo
    Accounts = {demo, real}
    Nothing = nothing
    Tasks = {t1, t2, t3}
SYMMETRY Symmetric
INVARIANTS
    SocketOfTicker
    ControlsMatchAlone
PROPERTIES
    ListOmitsOnlyMoved
