\* Every request is answered.
SPECIFICATION FairSpec
CONSTANTS
    r1 = r1  r2 = r2  r3 = r3
    m1 = m1  m2 = m2  m3 = m3
    k1 = k1  k2 = k2  k3 = k3  k4 = k4
    c1 = c1  tA = tA  tB = tB  tC = tC  tD = tD
    Requests = {r1, r2}
    Matches = {m1, m2}
    Fixture <- TwoFixtures
    Keys = {k1, k2, k3}
    Posts <- SharedKeyPosts
    MaxInt = 2
    PoolSize = 2
PROPERTIES
    EveryPostAnswered
