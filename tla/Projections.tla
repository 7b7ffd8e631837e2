---------------------------- MODULE Projections ----------------------------
(***************************************************************************)
(* The pure projection logic of app/core/projections.py over the value     *)
(* types of app/core/events.py: the state a scoring event leads to, the    *)
(* fold of a log, and a competition's points table computed from its       *)
(* finalised matches.                                                      *)
(*                                                                         *)
(* An event is a record [match, version, type, score_home, score_away,     *)
(* key].  The payload of a score_correction is the pair score_home,        *)
(* score_away; the other types ignore it (both are 0 there).  id, actor    *)
(* and timestamps are left out: no decision of the code reads them.        *)
(***************************************************************************)
EXTENDS Integers, SequencesExt

EventTypes == {"match_started", "round_won_home", "round_won_away",
               "score_correction", "match_finalised"}

Statuses == {"scheduled", "in_progress", "final"}

ScoringEvents(matches, keys) ==
    [match : matches, version : Nat, type : EventTypes,
     score_home : Int, score_away : Int, key : keys]

States == [score_home : Int, score_away : Int, current_round : Int,
           status : Statuses, version : Nat]

\* MatchState(): the defaults, also what snapshot() answers without a row.
InitialState ==
    [score_home |-> 0, score_away |-> 0, current_round |-> 0,
     status |-> "scheduled", version |-> 0]

\* Mutant of Apply: a correction adds to the round instead of deriving it again.
ApplyKeepsRound(state, event) ==
    IF event.type = "score_correction"
    THEN [state EXCEPT !.score_home = event.score_home,
                       !.score_away = event.score_away,
                       !.version = event.version]
    ELSE state

\* apply(): no lifecycle check; any type is applied in any status.
Apply(state, event) ==
    [CASE event.type = "match_started" ->
            [state EXCEPT !.status = "in_progress"]
       [] event.type = "round_won_home" ->
            [state EXCEPT !.score_home = @ + 1, !.current_round = @ + 1]
       [] event.type = "round_won_away" ->
            [state EXCEPT !.score_away = @ + 1, !.current_round = @ + 1]
       [] event.type = "score_correction" ->
            [state EXCEPT !.score_home = event.score_home,
                          !.score_away = event.score_away,
                          !.current_round = event.score_home + event.score_away]
       [] event.type = "match_finalised" ->
            [state EXCEPT !.status = "final"]
     EXCEPT !.version = event.version]

\* fold(): the rebuild path.
Fold(events) == FoldLeft(Apply, InitialState, events)

-----------------------------------------------------------------------------
(***************************************************************************)
(* compute_standings().  Its dict is a sequence of rows with one row per   *)
(* team, in the order in which the teams first appear: the rows are later  *)
(* inserted in that order.                                                 *)
(***************************************************************************)
ZeroRow(competition, team) ==
    [competition |-> competition, team |-> team,
     played |-> 0, wins |-> 0, losses |-> 0, points |-> 0]

\* Mutant of Tally: every result starts a new row.
FreshTally(table, competition, team) == ZeroRow(competition, team)

Tally(table, competition, team) ==
    LET rows == {row \in ToSet(table) : row.team = team}
    IN  IF rows = {} THEN ZeroRow(competition, team)
                     ELSE CHOOSE row \in rows : TRUE

Put(table, row) ==
    IF \E i \in DOMAIN table : table[i].team = row.team
    THEN [i \in DOMAIN table |-> IF table[i].team = row.team THEN row ELSE table[i]]
    ELSE Append(table, row)

Won(row)  == [row EXCEPT !.played = @ + 1, !.wins = @ + 1, !.points = @ + 3]
Lost(row) == [row EXCEPT !.played = @ + 1, !.losses = @ + 1]
Drew(row) == [row EXCEPT !.played = @ + 1, !.points = @ + 1]

\* One pass of the loop: both rows are read before either is written.
AddResult(competition, table, r) ==
    LET home == Tally(table, competition, r.home)
        away == Tally(table, competition, r.away)
    IN  CASE r.score_home > r.score_away -> Put(Put(table, Won(home)), Lost(away))
          [] r.score_home < r.score_away -> Put(Put(table, Lost(home)), Won(away))
          [] r.score_home = r.score_away -> Put(Put(table, Drew(home)), Drew(away))

ComputeStandings(competition, results) ==
    FoldLeft(LAMBDA table, r : AddResult(competition, table, r), <<>>, results)
=============================================================================
