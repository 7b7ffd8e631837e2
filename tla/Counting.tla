------------------------------ MODULE Counting ------------------------------
(***************************************************************************)
(* What the projections of a log and of a list of results should be, by    *)
(* counting instead of folding: the definitions against which the code's   *)
(* computations are compared.                                              *)
(***************************************************************************)
EXTENDS Projections

CountEvents(log, from, type) ==
    Cardinality({i \in from .. Len(log) : log[i].type = type})

Lifecycle == {"match_started", "match_finalised"}

\* What a reader of the log would count: the scores are those of the last
\* correction plus the rounds won after it, the round is their sum, the status is
\* that of the last lifecycle event, the version that of the last event.
CountsTheLog(state, log) ==
    LET fixes == {i \in DOMAIN log : log[i].type = "score_correction"}
        fixed == Max(fixes \cup {0})
        base  == IF fixed = 0 THEN [score_home |-> 0, score_away |-> 0] ELSE log[fixed]
        moves == {i \in DOMAIN log : log[i].type \in Lifecycle}
    IN  /\ state.score_home = base.score_home + CountEvents(log, fixed + 1, "round_won_home")
        /\ state.score_away = base.score_away + CountEvents(log, fixed + 1, "round_won_away")
        /\ state.current_round = state.score_home + state.score_away
        /\ state.version = Len(log)
        /\ state.status =
             IF moves = {} THEN "scheduled"
             ELSE IF log[Max(moves)].type = "match_started" THEN "in_progress" ELSE "final"

-----------------------------------------------------------------------------
(* A result is a record with home, away, score_home and score_away.        *)

Plays(x, team) == team \in {x.home, x.away}
Beats(x, team) == \/ x.home = team /\ x.score_home > x.score_away
                  \/ x.away = team /\ x.score_away > x.score_home
Loses(x, team) == \/ x.home = team /\ x.score_home < x.score_away
                  \/ x.away = team /\ x.score_away < x.score_home
Draws(x, team) == Plays(x, team) /\ x.score_home = x.score_away

\* The record and the points of a team by the points rule of the documents: 3
\* for a win, 1 for a draw.
CountedRow(competition, team, results) ==
    LET wins == Cardinality({x \in results : Beats(x, team)})
    IN  [competition |-> competition, team |-> team,
         played |-> Cardinality({x \in results : Plays(x, team)}),
         wins   |-> wins,
         losses |-> Cardinality({x \in results : Loses(x, team)}),
         points |-> 3 * wins + Cardinality({x \in results : Draws(x, team)})]

\* One row for each team that has a result, whatever the order of the results,
\* which the query gives without an ORDER BY.
CountedTable(competition, results) ==
    {CountedRow(competition, team, results) :
        team \in {x.home : x \in results} \cup {x.away : x \in results}}
=============================================================================
