--------------------------- MODULE StandingsTable ---------------------------
(***************************************************************************)
(* _recompute_standings of app/events/postgres.py, statement by statement, *)
(* inside the transaction of a request that appends match_finalised.  The  *)
(* transactions run at READ COMMITTED: a statement sees what was committed *)
(* when it started and what its own transaction wrote, waits for the       *)
(* transaction in flight that locked a row it needs, and inserts are       *)
(* subject to PRIMARY KEY (competition_id, team_id).                       *)
(*                                                                         *)
(* A row carries the request that wrote it ("by"), which tells two         *)
(* versions of a row apart as the database does.                           *)
(***************************************************************************)
EXTENDS Projections

CONSTANTS Requests  \* the requests, one transaction each

VARIABLES standings, \* the committed rows of the standings table
          recompute  \* per request, its recompute

tableVars == <<standings, recompute>>

(***************************************************************************)
(* A recompute is "idle", has "read" the finalised matches, is "deleting"  *)
(* (the rows of its DELETE are chosen), "inserting", or was "committed".   *)
(* "table" holds the rows still to insert, "doomed" those it deletes,       *)
(* "inserted" those it wrote, and "saw", for the properties, the committed *)
(* projections when it read the results.                                   *)
(***************************************************************************)
NoRecompute ==
    [stage |-> "idle", table |-> <<>>, doomed |-> {}, inserted |-> {}, saw |-> <<>>]

TableInit ==
    /\ standings = {}
    /\ recompute = [r \in Requests |-> NoRecompute]

WrittenBy(r, row) ==
    [competition |-> row.competition, team |-> row.team, played |-> row.played,
     wins |-> row.wins, losses |-> row.losses, points |-> row.points, by |-> r]
SameKey(row1, row2) == row1.competition = row2.competition /\ row1.team = row2.team

\* The SELECT of the finalised matches, and compute_standings on its rows in
\* whatever order they come.  `finals` is a set of results, one per match, and
\* `states` the committed projections.
ReadFinals(r, competition, finals, states) ==
    /\ recompute[r].stage = "idle"
    /\ \E results \in SetToSeqs(finals) :
         recompute' = [recompute EXCEPT
             ![r].stage = "read",
             ![r].table = ComputeStandings(competition, results),
             ![r].saw = states]
    /\ UNCHANGED standings

\* Mutant of RowsOf: DELETE only the rows of the recomputed teams.
RowsOfTable(r, competition) ==
    {row \in standings : row.competition = competition
                           /\ \E i \in DOMAIN recompute[r].table : recompute[r].table[i].team = row.team}

\* DELETE FROM standings WHERE competition_id = :c, as its snapshot shows it.
RowsOf(r, competition) == {row \in standings : row.competition = competition}

StartDelete(r, competition) ==
    /\ recompute[r].stage = "read"
    /\ recompute' = [recompute EXCEPT ![r].stage = "deleting",
                                      ![r].doomed = RowsOf(r, competition)]
    /\ UNCHANGED standings

\* The transactions in flight that already deleted one of these rows.
DeletersOf(rows) ==
    {q \in Requests : recompute[q].stage = "inserting" /\ recompute[q].doomed \cap rows # {}}

\* The rows are locked in one scan order, so DELETEs wait but do not deadlock
\* with each other; a row that another transaction deleted meanwhile is skipped.
FinishDelete(r) ==
    /\ recompute[r].stage = "deleting"
    /\ DeletersOf(recompute[r].doomed) = {}
    /\ recompute' = [recompute EXCEPT ![r].stage = "inserting",
                                      ![r].doomed = @ \cap standings]
    /\ UNCHANGED standings

\* Committed rows, not deleted by r itself, with the primary key of `row`.
KeyRows(r, row) == {other \in standings \ recompute[r].doomed : SameKey(row, other)}

\* The other transactions whose uncommitted insert or delete decides whether
\* the primary key of `row` is free.
KeyHolders(r, row) ==
    {q \in Requests \ {r} : \/ \E other \in recompute[q].inserted :
                                 recompute[q].stage = "inserting" /\ SameKey(row, other)
                            \/ q \in DeletersOf(KeyRows(r, row))}

Inserting(r) == recompute[r].stage = "inserting" /\ recompute[r].table # <<>>
NextRow(r) == Head(recompute[r].table)

\* Mutant of PrimaryKeyFree: standings has no primary key.
NoPrimaryKey(r) == TRUE

PrimaryKeyFree(r) == KeyHolders(r, NextRow(r)) = {} /\ KeyRows(r, NextRow(r)) = {}

\* One INSERT of the loop over the computed rows.
InsertStanding(r) ==
    /\ Inserting(r)
    /\ PrimaryKeyFree(r)
    /\ recompute' = [recompute EXCEPT
           ![r].table = Tail(@),
           ![r].inserted = @ \cup {WrittenBy(r, NextRow(r))}]
    /\ UNCHANGED standings

\* The INSERT hits a committed row: IntegrityError.
PrimaryKeyTaken(r) ==
    /\ Inserting(r)
    /\ KeyHolders(r, NextRow(r)) = {}
    /\ KeyRows(r, NextRow(r)) # {}

Recomputed(r) == recompute[r].stage = "inserting" /\ recompute[r].table = <<>>

\* The requests r is blocked on at the statement it is executing.
TableWaitsFor(r) ==
    CASE recompute[r].stage = "deleting" -> DeletersOf(recompute[r].doomed) \ {r}
      [] Inserting(r) -> KeyHolders(r, NextRow(r))
      [] OTHER -> {}

CommitTable(r) ==
    /\ standings' = (standings \ recompute[r].doomed) \cup recompute[r].inserted
    /\ recompute' = [recompute EXCEPT ![r].stage = "committed",
                                      ![r].doomed = {}, ![r].saw = <<>>]

AbortTable(r) ==
    /\ recompute' = [recompute EXCEPT ![r] = NoRecompute]
    /\ UNCHANGED standings

-----------------------------------------------------------------------------
\* A competition never shows two rows for one team, however the recomputes of
\* its matches interleave.
OneRowPerTeam ==
    \A row1, row2 \in standings : SameKey(row1, row2) => row1 = row2

\* A row is shown only when the recompute that wrote it has committed, and only
\* together with all that this recompute wrote: the table is a union of whole
\* tables, never a part of one.  It may be more than one of them, since two
\* finalisations of different teams that overlap delete none of each other's rows.
WholeRecompute ==
    \A row \in standings :
        /\ recompute[row.by].stage = "committed"
        /\ row \in recompute[row.by].inserted
        /\ recompute[row.by].inserted \subseteq standings
=============================================================================
