\* Two clicks, one of them maybe a sign-in; a sign-in or a view; a sign-out; two at a
\* time, with a failure.
SPECIFICATION FairSpec
CONSTANTS
    Calls <- CallsOfTasks
    Clicks = {s1, s2}
    SignOuts = {o1}
    SignIns = {i1, s2}
    Views = {i1}
    MaxTokens = 3
    Overlap = 2
    MaxBusy = 2
INVARIANTS
    StoredTokenUsable
    SignedOutIsRevoked
PROPERTIES
    KeptUntilCap
    EveryClickEnds
