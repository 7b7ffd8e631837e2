\* A viewer of one of two matches; answers in any order, lost, and restarts.
SPECIFICATION FairSpec
CONSTANTS
    m1 = m1  m2 = m2  v1 = v1
    k1 = k1  k2 = k2  k3 = k3  k4 = k4
    Matches = {m1, m2}
    Keys = {k1, k2, k3, k4}
    Scores = {0}
    Viewers = {v1}
    Watching <- OneViewer
    ScoredTypes = {"round_won_home"}
    MailboxSize = 1
    MaxEvents = 3
    MaxPending = 2
    AnswersLost = TRUE
INVARIANTS
    TypeOK
    FeedInOrder
    GapExplained
    FeedTruthful
PROPERTIES
    CatchesUp
