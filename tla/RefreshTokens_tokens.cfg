\* Calls whose transactions overlap, with lost answers, expiry and rollbacks.
SPECIFICATION TokensSpec
CONSTANTS
    Calls = {c1, c2, c3}
    MaxTokens = 4
    Overlap = 2
SYMMETRY Symmetric
INVARIANTS
    ChainAscends
    ExchangedIsDead
    OneUsablePerLogin
PROPERTIES
    ReuseEndsLogin
