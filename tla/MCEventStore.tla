--------------------------- MODULE MCEventStore ---------------------------
(***************************************************************************)
(* Instances of EventStore for TLC.                                        *)
(***************************************************************************)
EXTENDS EventStore

CONSTANTS r1, r2, r3, m1, m2, m3, k1, k2, k3, k4, c1, tA, tB, tC, tD

Symmetric == Permutations(Requests)

Body(m, k, type, home, away) ==
    [match |-> m, key |-> k, type |-> type, score_home |-> home, score_away |-> away]
Plain(m, k, type) == Body(m, k, type, 0, 0)

\* The same key on two matches, and other keys on each.
TwoFixtures == (m1 :> [competition |-> c1, home |-> tA, away |-> tB])
            @@ (m2 :> [competition |-> c1, home |-> tB, away |-> tA])
SharedKeyPosts ==
    {Plain(m, k1, "round_won_home") : m \in {m1, m2}}
      \cup {Plain(m1, k2, "match_finalised"), Plain(m2, k3, "match_finalised")}

\* Three matches of one competition, each finalised once: a table with a common
\* team, with teams of its own, and with the teams the other way round.
ThreeFixtures == TwoFixtures
              @@ (m3 :> [competition |-> c1, home |-> tC, away |-> tD])
Finals ==
    {Plain(m1, k1, "match_finalised"), Plain(m2, k2, "match_finalised"),
     Plain(m3, k3, "match_finalised")}

\* Also events that change what is final or its score, before and after the end of a
\* match, keys that are posted with two bodies or on two matches, and a correction that
\* the next round pushes out of the range of the columns.
AppendPosts ==
    Finals \cup
    {Plain(m1, k1, "round_won_away"), Plain(m1, k3, "round_won_home"),
     Plain(m1, k4, "match_started"), Plain(m2, k2, "round_won_home"),
     Body(m2, k4, "score_correction", 2, 0)}
============================================================================
