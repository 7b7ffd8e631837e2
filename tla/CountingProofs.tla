--------------------------- MODULE CountingProofs ---------------------------
(***************************************************************************)
(* Proofs that fold() and compute_standings() give what one counts, for    *)
(* logs and results of any number, any teams and any scores.               *)
(***************************************************************************)
EXTENDS Counting, ProjectionsProofs, SequenceTheorems

-----------------------------------------------------------------------------
(* fold(), one event at a time.                                            *)

\* The position of the last event of the types, or 0.
LastOf(log, types, k) ==
    /\ k \in 0 .. Len(log)
    /\ k # 0 => log[k].type \in types
    /\ \A i \in 1 .. Len(log) : log[i].type \in types => i <= k

\* The scores that the last correction, at k, gives.
BaseHome(log, k) == IF k = 0 THEN 0 ELSE log[k].score_home
BaseAway(log, k) == IF k = 0 THEN 0 ELSE log[k].score_away

StatusAfter(log, k) ==
    IF k = 0 THEN "scheduled"
    ELSE IF log[k].type = "match_started" THEN "in_progress" ELSE "final"

\* What is kept from one event to the next.
FoldInv(log) ==
    LET state == Fold(log)
    IN  /\ state \in States
        /\ state.version = Len(log)
        /\ state.current_round = state.score_home + state.score_away
        /\ \E k : /\ LastOf(log, {"score_correction"}, k)
                  /\ state.score_home = BaseHome(log, k) + CountEvents(log, k + 1, "round_won_home")
                  /\ state.score_away = BaseAway(log, k) + CountEvents(log, k + 1, "round_won_away")
        /\ \E k : LastOf(log, Lifecycle, k) /\ state.status = StatusAfter(log, k)

\* The fields of the state that an event leads to.
LEMMA ApplyFields ==
    ASSUME NEW matches, NEW keys, NEW state \in States, NEW event \in ScoringEvents(matches, keys)
    PROVE  LET new == Apply(state, event)
           IN  /\ new \in States /\ new.version = event.version
               /\ event.type \in Lifecycle =>
                    /\ new.score_home = state.score_home /\ new.score_away = state.score_away
                    /\ new.current_round = state.current_round
                    /\ new.status = IF event.type = "match_started" THEN "in_progress" ELSE "final"
               /\ event.type \notin Lifecycle => new.status = state.status
               /\ event.type = "round_won_home" =>
                    /\ new.score_home = state.score_home + 1 /\ new.score_away = state.score_away
                    /\ new.current_round = state.current_round + 1
               /\ event.type = "round_won_away" =>
                    /\ new.score_home = state.score_home /\ new.score_away = state.score_away + 1
                    /\ new.current_round = state.current_round + 1
               /\ event.type = "score_correction" =>
                    /\ new.score_home = event.score_home /\ new.score_away = event.score_away
                    /\ new.current_round = event.score_home + event.score_away
<1> DEFINE new == Apply(state, event)
<1>1. new \in States /\ new.version = event.version
  BY ApplyType
<1>2. event.type \in EventTypes
  BY DEF ScoringEvents
<1>3. CASE event.type = "match_started"
  BY <1>1, <1>3 DEF Apply, States, Lifecycle
<1>4. CASE event.type = "match_finalised"
  BY <1>1, <1>4 DEF Apply, States, Lifecycle
<1>5. CASE event.type = "round_won_home"
  BY <1>1, <1>5 DEF Apply, States, Lifecycle
<1>6. CASE event.type = "round_won_away"
  BY <1>1, <1>6 DEF Apply, States, Lifecycle
<1>7. CASE event.type = "score_correction"
  BY <1>1, <1>7 DEF Apply, States, Lifecycle
<1> QED
  BY <1>2, <1>3, <1>4, <1>5, <1>6, <1>7 DEF EventTypes

\* No events.
LEMMA FoldInvEmpty == FoldInv(<<>>)
<1> DEFINE log == <<>>
<1>1. Fold(log) = InitialState
  BY FoldEmpty
<1>2. Len(log) = 0 /\ \A i : i \notin 1 .. Len(log)
  OBVIOUS
<1>3. LastOf(log, {"score_correction"}, 0) /\ LastOf(log, Lifecycle, 0)
  BY <1>2 DEF LastOf
<1>4. CountEvents(log, 0 + 1, "round_won_home") = 0 /\ CountEvents(log, 0 + 1, "round_won_away") = 0
  <2>1. /\ {i \in 0 + 1 .. Len(log) : log[i].type = "round_won_home"} = {}
        /\ {i \in 0 + 1 .. Len(log) : log[i].type = "round_won_away"} = {}
    BY <1>2
  <2> QED
    BY <2>1, FS_EmptySet DEF CountEvents
<1> HIDE DEF log
<1>5. /\ InitialState.score_home = BaseHome(log, 0) + CountEvents(log, 0 + 1, "round_won_home")
      /\ InitialState.score_away = BaseAway(log, 0) + CountEvents(log, 0 + 1, "round_won_away")
      /\ InitialState.status = StatusAfter(log, 0)
      /\ InitialState.version = Len(log)
      /\ InitialState.current_round = InitialState.score_home + InitialState.score_away
  BY <1>2, <1>4 DEF InitialState, BaseHome, BaseAway, StatusAfter
<1>6. FoldInv(log)
  BY <1>1, <1>3, <1>5, InitialStateType DEF FoldInv
<1> QED
  BY <1>6 DEF log

\* One event more.
LEMMA FoldInvStep ==
    ASSUME NEW matches, NEW keys, NEW log \in Seq(ScoringEvents(matches, keys)), FoldInv(log),
           NEW event \in ScoringEvents(matches, keys), event.version = Len(log) + 1,
           NEW longer, longer = Append(log, event)
    PROVE  FoldInv(longer)
<1> DEFINE old == Fold(log)
<1>0. PICK n \in Nat : n = Len(log)
  OBVIOUS
<1>1. /\ Len(longer) = n + 1 /\ longer[n + 1] = event
      /\ \A i \in 1 .. n : longer[i] = log[i] /\ log[i] \in ScoringEvents(matches, keys)
  BY <1>0
<1>2. PICK new : new = Apply(old, event) /\ Fold(longer) = new
  BY FoldAppend
<1>3. PICK k : /\ LastOf(log, {"score_correction"}, k)
               /\ old.score_home = BaseHome(log, k) + CountEvents(log, k + 1, "round_won_home")
               /\ old.score_away = BaseAway(log, k) + CountEvents(log, k + 1, "round_won_away")
  BY DEF FoldInv
<1>4. PICK m : LastOf(log, Lifecycle, m) /\ old.status = StatusAfter(log, m)
  BY DEF FoldInv
<1>5. /\ old \in States /\ old.current_round = old.score_home + old.score_away
      /\ old.score_home \in Int /\ old.score_away \in Int
  BY DEF FoldInv, States
<1>6. event.type \in EventTypes /\ event.score_home \in Int /\ event.score_away \in Int
  BY DEF ScoringEvents
<1> HIDE DEF old
<1>7. /\ new \in States /\ new.version = n + 1
      /\ event.type \in Lifecycle =>
           /\ new.score_home = old.score_home /\ new.score_away = old.score_away
           /\ new.current_round = old.current_round
           /\ new.status = IF event.type = "match_started" THEN "in_progress" ELSE "final"
      /\ event.type \notin Lifecycle => new.status = old.status
      /\ event.type = "round_won_home" =>
           /\ new.score_home = old.score_home + 1 /\ new.score_away = old.score_away
           /\ new.current_round = old.current_round + 1
      /\ event.type = "round_won_away" =>
           /\ new.score_home = old.score_home /\ new.score_away = old.score_away + 1
           /\ new.current_round = old.current_round + 1
      /\ event.type = "score_correction" =>
           /\ new.score_home = event.score_home /\ new.score_away = event.score_away
           /\ new.current_round = event.score_home + event.score_away
  BY <1>0, <1>2, <1>5, ApplyFields
<1>8. new.current_round = new.score_home + new.score_away
  BY <1>5, <1>6, <1>7 DEF EventTypes, Lifecycle
<1>9. ASSUME NEW types, NEW j, LastOf(log, types, j), event.type \notin types
      PROVE  LastOf(longer, types, j) /\ (j # 0 => longer[j] = log[j])
  <2>1. j \in 0 .. n /\ (j # 0 => j \in 1 .. n) /\ \A i \in 1 .. n + 1 : i \in 1 .. n \/ i = n + 1
    BY <1>0, <1>9 DEF LastOf
  <2> QED
    BY <1>0, <1>1, <1>9, <2>1 DEF LastOf
<1>10. ASSUME NEW types, event.type \in types
       PROVE  LastOf(longer, types, n + 1)
  BY <1>1, <1>10 DEF LastOf
<1>11. ASSUME NEW type, NEW from \in 1 .. n + 1
       PROVE  /\ CountEvents(log, from, type) \in Nat
              /\ CountEvents(longer, from, type) =
                   CountEvents(log, from, type) + (IF event.type = type THEN 1 ELSE 0)
  <2> DEFINE S == {i \in from .. n + 1 : longer[i].type = type}
             before == {i \in from .. n : log[i].type = type}
  <2>1. S \subseteq 1 .. n + 1 /\ S \cap (1 .. n) = before /\ (n + 1 \in S <=> event.type = type)
    BY <1>1
  <2>2. CountEvents(log, from, type) = Cardinality(before) /\ CountEvents(longer, from, type) = Cardinality(S)
    BY <1>0, <1>1 DEF CountEvents
  <2> HIDE DEF S, before
  <2>3. /\ Cardinality(S) \in Nat /\ Cardinality(before) \in Nat
        /\ n + 1 \in S => Cardinality(S) = Cardinality(before) + 1
        /\ n + 1 \notin S => Cardinality(S) = Cardinality(before)
    BY <2>1, CountNext
  <2> QED
    BY <2>1, <2>2, <2>3
<1>12. \A type : CountEvents(longer, n + 2, type) = 0
  <2> SUFFICES ASSUME NEW type PROVE CountEvents(longer, n + 2, type) = 0
    OBVIOUS
  <2>1. {i \in n + 2 .. n + 1 : longer[i].type = type} = {}
    OBVIOUS
  <2> QED
    BY <1>1, <2>1, FS_EmptySet DEF CountEvents
<1>13. \E j : /\ LastOf(longer, {"score_correction"}, j)
              /\ new.score_home = BaseHome(longer, j) + CountEvents(longer, j + 1, "round_won_home")
              /\ new.score_away = BaseAway(longer, j) + CountEvents(longer, j + 1, "round_won_away")
  <2>1. CASE event.type = "score_correction"
    <3>1. LastOf(longer, {"score_correction"}, n + 1) /\ (n + 1) + 1 = n + 2 /\ n + 1 # 0
      BY <1>10, <2>1
    <3>2. BaseHome(longer, n + 1) = event.score_home /\ BaseAway(longer, n + 1) = event.score_away
      BY <1>1, <3>1 DEF BaseHome, BaseAway
    <3>3. /\ new.score_home = event.score_home + 0 /\ new.score_away = event.score_away + 0
      BY <1>6, <1>7, <2>1
    <3> QED
      BY <1>12, <3>1, <3>2, <3>3
  <2>2. CASE event.type # "score_correction"
    <3>1. LastOf(longer, {"score_correction"}, k) /\ (k # 0 => longer[k] = log[k])
      BY <1>3, <1>9, <2>2
    <3>2. k \in 0 .. n /\ (k # 0 => k \in 1 .. n) /\ k + 1 \in 1 .. n + 1
      BY <1>0, <1>3 DEF LastOf
    <3>3. BaseHome(longer, k) = BaseHome(log, k) /\ BaseAway(longer, k) = BaseAway(log, k)
      BY <3>1 DEF BaseHome, BaseAway
    <3>4. BaseHome(log, k) \in Int /\ BaseAway(log, k) \in Int
      BY <1>1, <3>2 DEF BaseHome, BaseAway, ScoringEvents
    <3> DEFINE home == CountEvents(log, k + 1, "round_won_home")
               away == CountEvents(log, k + 1, "round_won_away")
               more_home == CountEvents(longer, k + 1, "round_won_home")
               more_away == CountEvents(longer, k + 1, "round_won_away")
    <3>5. /\ home \in Nat /\ more_home = home + (IF event.type = "round_won_home" THEN 1 ELSE 0)
          /\ away \in Nat /\ more_away = away + (IF event.type = "round_won_away" THEN 1 ELSE 0)
      BY <1>11, <3>2
    <3>6. old.score_home = BaseHome(log, k) + home /\ old.score_away = BaseAway(log, k) + away
      BY <1>3
    <3>7. /\ new.score_home = old.score_home + (IF event.type = "round_won_home" THEN 1 ELSE 0)
          /\ new.score_away = old.score_away + (IF event.type = "round_won_away" THEN 1 ELSE 0)
      BY <1>5, <1>6, <1>7, <2>2 DEF EventTypes, Lifecycle
    <3>8. /\ new.score_home = BaseHome(log, k) + CountEvents(longer, k + 1, "round_won_home")
          /\ new.score_away = BaseAway(log, k) + CountEvents(longer, k + 1, "round_won_away")
      BY <3>4, <3>5, <3>6, <3>7
    <3> QED
      BY <3>1, <3>3, <3>8
  <2> QED
    BY <2>1, <2>2
<1>14. \E j : LastOf(longer, Lifecycle, j) /\ new.status = StatusAfter(longer, j)
  <2>1. CASE event.type \in Lifecycle
    <3>1. LastOf(longer, Lifecycle, n + 1) /\ n + 1 # 0
      BY <1>10, <2>1
    <3>2. new.status = StatusAfter(longer, n + 1)
      BY <1>1, <1>7, <2>1, <3>1 DEF StatusAfter
    <3> QED
      BY <3>1, <3>2
  <2>2. CASE event.type \notin Lifecycle
    <3>1. LastOf(longer, Lifecycle, m) /\ (m # 0 => longer[m] = log[m])
      BY <1>4, <1>9, <2>2
    <3>2. StatusAfter(longer, m) = StatusAfter(log, m)
      BY <3>1 DEF StatusAfter
    <3> QED
      BY <1>4, <1>7, <2>2, <3>1, <3>2
  <2> QED
    BY <2>1, <2>2
<1> QED
  BY <1>1, <1>2, <1>7, <1>8, <1>13, <1>14 DEF FoldInv

\* A log of contiguous versions, as append() makes it.
IsLog(log, matches, keys) ==
    /\ log \in Seq(ScoringEvents(matches, keys))
    /\ \A i \in 1 .. Len(log) : log[i].version = i

\* So it holds of every log.
LEMMA FoldInvHolds ==
    ASSUME NEW matches, NEW keys, NEW log, IsLog(log, matches, keys)
    PROVE  FoldInv(log)
<1> DEFINE Events == ScoringEvents(matches, keys)
           S == {k \in Nat : \A x \in Seq(Events) :
                    Len(x) = k /\ (\A i \in 1 .. k : x[i].version = i) => FoldInv(x)}
<1>1. 0 \in S
  <2>1. \A x \in Seq(Events) : Len(x) = 0 => x = <<>>
    OBVIOUS
  <2> QED
    BY <2>1, FoldInvEmpty
<1>2. ASSUME NEW k \in Nat, k \in S
      PROVE  k + 1 \in S
  <2> SUFFICES ASSUME NEW x \in Seq(Events), Len(x) = k + 1,
                      \A i \in 1 .. k + 1 : x[i].version = i
               PROVE  FoldInv(x)
    OBVIOUS
  <2> DEFINE front == SubSeq(x, 1, k)
  <2>1. /\ front \in Seq(Events) /\ Len(front) = k
        /\ \A i \in 1 .. k : front[i] = x[i]
        /\ x[k + 1] \in Events /\ x[k + 1].version = k + 1
    OBVIOUS
  <2>2. x = Append(front, x[k + 1])
    <3> HIDE DEF front
    <3>1. Len(Append(front, x[k + 1])) = k + 1 /\ Append(front, x[k + 1]) \in Seq(Events)
      BY <2>1
    <3>2. \A i \in 1 .. k + 1 : Append(front, x[k + 1])[i] = x[i]
      BY <2>1
    <3> QED
      BY <3>1, <3>2, SeqEqual
  <2> HIDE DEF front, Events
  <2>3. FoldInv(front)
    BY <1>2, <2>1
  <2> QED
    BY <2>1, <2>2, <2>3, FoldInvStep DEF Events
<1> HIDE DEF S
<1>3. Nat \subseteq S
  BY <1>1, <1>2, NatSetInduction
<1>4. Len(log) \in Nat /\ log \in Seq(Events) /\ \A i \in 1 .. Len(log) : log[i].version = i
  BY DEF IsLog
<1> QED
  BY <1>3, <1>4 DEF S

\* fold() gives what one counts in the log: the last correction and the rounds after it,
\* the last lifecycle event, the last version.
LEMMA FoldCounts ==
    ASSUME NEW matches, NEW keys, NEW log, IsLog(log, matches, keys)
    PROVE  CountsTheLog(Fold(log), log)
<1> DEFINE state == Fold(log)
           fixes == {i \in DOMAIN log : log[i].type = "score_correction"}
           moves == {i \in DOMAIN log : log[i].type \in Lifecycle}
<1>0. Len(log) \in Nat /\ DOMAIN log = 1 .. Len(log)
  BY DEF IsLog
<1>1. PICK k : /\ LastOf(log, {"score_correction"}, k)
               /\ state.score_home = BaseHome(log, k) + CountEvents(log, k + 1, "round_won_home")
               /\ state.score_away = BaseAway(log, k) + CountEvents(log, k + 1, "round_won_away")
  BY FoldInvHolds DEF FoldInv
<1>2. PICK m : LastOf(log, Lifecycle, m) /\ state.status = StatusAfter(log, m)
  BY FoldInvHolds DEF FoldInv
<1>3. Max(fixes \cup {0}) = k
  <2>1. /\ fixes \cup {0} \subseteq Int /\ k \in fixes \cup {0}
        /\ \A y \in fixes \cup {0} : k >= y
    BY <1>0, <1>1 DEF LastOf
  <2> QED
    BY <2>1, MaxIs
<1>4. /\ moves = {} => m = 0
      /\ moves # {} => m # 0 /\ Max(moves) = m
  <2>1. moves = {} => m = 0
    BY <1>0, <1>2 DEF LastOf
  <2>2. ASSUME moves # {}
        PROVE  m # 0 /\ m \in moves /\ moves \subseteq Int /\ \A y \in moves : m >= y
    BY <1>0, <1>2, <2>2 DEF LastOf
  <2> QED
    BY <2>1, <2>2, MaxIs
<1>5. /\ state.version = Len(log)
      /\ state.current_round = state.score_home + state.score_away
  BY FoldInvHolds DEF FoldInv
<1>6. LET base == IF k = 0 THEN [score_home |-> 0, score_away |-> 0] ELSE log[k]
      IN  base.score_home = BaseHome(log, k) /\ base.score_away = BaseAway(log, k)
  BY DEF BaseHome, BaseAway
<1>7. state.status = IF moves = {} THEN "scheduled"
                     ELSE IF log[Max(moves)].type = "match_started" THEN "in_progress" ELSE "final"
  BY <1>2, <1>4 DEF StatusAfter
<1> HIDE DEF state, fixes, moves
<1>8. CountsTheLog(state, log)
  BY <1>1, <1>3, <1>5, <1>6, <1>7 DEF CountsTheLog, fixes, moves
<1> QED
  BY <1>8 DEF state

-----------------------------------------------------------------------------
(* compute_standings().                                                    *)

\* compute_standings() gives one row for each team that has a result, and it is the
\* team's count over all results, on whichever side and in whatever order they come.
LEMMA TableCounts ==
    ASSUME NEW competition, NEW S, IsFiniteSet(S),
           \A x \in S : x.home # x.away /\ x.score_home \in Int /\ x.score_away \in Int,
           NEW s \in SetToSeqs(S)
    PROVE  ToSet(ComputeStandings(competition, s)) = CountedTable(competition, S)
<1> DEFINE n == Cardinality(S)
<1>1. n \in Nat /\ DOMAIN s = 1 .. n /\ S = {s[i] : i \in 1 .. n} /\ \A i \in 1 .. n : s[i] \in S
  <2>1. n \in Nat /\ DOMAIN s = 1 .. n /\ S = {s[i] : i \in 1 .. n}
    BY OrderOfSet
  <2> HIDE DEF n
  <2> QED
    BY <2>1
<1>2. \A T : T \subseteq S => Cardinality({i \in 1 .. n : s[i] \in T}) = Cardinality(T)
  BY CountOfSet
<1> HIDE DEF n
<1>3. ASSUME NEW team
      PROVE  CountRow(competition, s, n, team) = CountedRow(competition, team, S)
  <2> DEFINE SP == {x \in S : Plays(x, team)}
             SW == {x \in S : Beats(x, team)}
             SL == {x \in S : Loses(x, team)}
             SD == {x \in S : Draws(x, team)}
  <2>1. SP \subseteq S /\ SW \subseteq S /\ SL \subseteq S /\ SD \subseteq S
    OBVIOUS
  <2>2. /\ {i \in 1 .. n : Plays(s[i], team)} = {i \in 1 .. n : s[i] \in SP}
        /\ {i \in 1 .. n : Beats(s[i], team)} = {i \in 1 .. n : s[i] \in SW}
        /\ {i \in 1 .. n : Loses(s[i], team)} = {i \in 1 .. n : s[i] \in SL}
        /\ {i \in 1 .. n : Draws(s[i], team)} = {i \in 1 .. n : s[i] \in SD}
    BY <1>1
  <2> HIDE DEF SP, SW, SL, SD
  <2>3. /\ Cardinality({i \in 1 .. n : Plays(s[i], team)}) = Cardinality(SP)
        /\ Cardinality({i \in 1 .. n : Beats(s[i], team)}) = Cardinality(SW)
        /\ Cardinality({i \in 1 .. n : Loses(s[i], team)}) = Cardinality(SL)
        /\ Cardinality({i \in 1 .. n : Draws(s[i], team)}) = Cardinality(SD)
    BY <1>2, <2>1, <2>2, Zenon
  <2> QED
    BY <2>3 DEF CountRow, CountedRow, SP, SW, SL, SD
<1>4. TeamsOf(s, n) = {x.home : x \in S} \cup {x.away : x \in S}
  BY <1>1 DEF TeamsOf
<1>5. Counted(competition, s, n, ComputeStandings(competition, s))
  <2>1. n \in Nat /\ DOMAIN s = 1 .. n /\ IsResults(s, n)
    BY <1>1 DEF IsResults
  <2> QED
    BY <2>1, StandingsCount
<1> QED
  BY <1>3, <1>4, <1>5 DEF Counted, CountedTable

\* So the rows do not depend on the order in which the query gives the results.
LEMMA OrderIsIrrelevant ==
    ASSUME NEW competition, NEW S, IsFiniteSet(S),
           \A x \in S : x.home # x.away /\ x.score_home \in Int /\ x.score_away \in Int,
           NEW s \in SetToSeqs(S), NEW t \in SetToSeqs(S)
    PROVE  ToSet(ComputeStandings(competition, s)) = ToSet(ComputeStandings(competition, t))
BY TableCounts
=============================================================================
