\* Two rotations of one token that overlap.
SPECIFICATION TokensSpec
CONSTANTS
    Calls = {c1, c2}
    MaxTokens = 3
    Overlap = 2
SYMMETRY Symmetric
INVARIANTS
    SingleUse
