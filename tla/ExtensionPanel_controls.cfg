\* An answer about one game arrives when the ticker of another is shown.
SPECIFICATION Spec
CONSTANTS
    Games = {g1, g2}
    Today = {g1}
    Demo = demo
    Accounts = {demo, real}
    Nothing = nothing
    Tasks = {t1, t2}
SYMMETRY Symmetric
INVARIANTS
    ControlsMatchTicker
