\* Two addresses and one account, over two windows.
SPECIFICATION Spec
CONSTANTS
    Addresses = {a1, a2}
    Accounts = {b1}
    MaxAttempts = 2
    Window = 2
    MaxTime = 4
SYMMETRY Symmetric
INVARIANTS
    WindowLimit
