----------------------------- MODULE Assignment -----------------------------
(***************************************************************************)
(* The scorekeeper of a match (app/auth/assignment.py) and the check of it *)
(* before a write (require_match_writer of app/api/deps.py).               *)
(*                                                                         *)
(* assign() is a DELETE and an INSERT in one transaction at READ           *)
(* COMMITTED, unassign() a DELETE, the seed an INSERT ... ON CONFLICT DO   *)
(* NOTHING; transactions overlap, and UNIQUE (match_id) decides between    *)
(* them.  A write reads the scorekeeper, and its append commits later.     *)
(***************************************************************************)
EXTENDS ReferenceTables

CONSTANTS Admin,   \* the user of a token with the role admin
          Changes, \* calls of assign() and unassign()
          Writes   \* requests that post an event

\* The seed's own inserts, one for each of its two matches.
SeedChanges == Seeds \X {1, 2}

ASSUME AssignmentAssumption == Writes \cap Seeds = {} /\ Changes \cap SeedChanges = {}

VARIABLES assignments, \* match_scorekeepers: the committed rows
          change,      \* per change, where it is
          write        \* per post, where it is

NoChange == [stage |-> "idle"]

assignVars == <<assignments, change, write>>

AssignInit ==
    /\ assignments = {}
    /\ change = [c \in Changes \cup SeedChanges |-> NoChange]
    /\ write = [w \in Writes |-> [stage |-> "idle"]]

RowsOf(m) == {row \in assignments : row.match = m}

\* The row that a call inserts; "by" tells it from another row for the user.
KeeperRow(c) == [match |-> change[c].match, user |-> change[c].user, by |-> c]

\* A transaction holds the rows it deleted and the row it inserted until its end.
Deleting(row) == {c \in Changes : /\ change[c].stage \in {"deleted", "inserted"}
                                 /\ row \in change[c].doomed}
InsertedFor(m) == {c \in DOMAIN change : change[c].stage = "inserted" /\ change[c].match = m}

SetStage(c, stage) == change' = [change EXCEPT ![c].stage = stage]

-----------------------------------------------------------------------------
(* assign() and unassign().                                                *)

\* The DELETE starts: its snapshot chooses the rows.
StartChange(c, m, user, op) ==
    /\ change[c].stage = "idle"
    /\ change' = [change EXCEPT ![c] =
           [stage |-> "deleting", op |-> op, match |-> m, user |-> user, doomed |-> RowsOf(m)]]
    /\ UNCHANGED <<assignments, write>>

\* The endpoints look first whether the match exists.
Assign(c, m, user) == m \in Matches /\ StartChange(c, m, user, "assign")
Unassign(c, m) == m \in Matches /\ StartChange(c, m, Missing, "unassign")

\* It waits for a transaction that deletes the row too, and skips a row that is
\* gone by then.
Delete(c) ==
    /\ change[c].stage = "deleting"
    /\ \A row \in change[c].doomed : Deleting(row) = {}
    /\ change' = [change EXCEPT ![c].stage = "deleted",
                                ![c].doomed = @ \cap assignments]
    /\ UNCHANGED <<assignments, write>>

\* Mutant of Others: the DELETE is made on another connection.
AllRows(m, doomed) == RowsOf(m)

\* Committed rows of the match that the transaction itself did not delete.
Others(m, doomed) == RowsOf(m) \ doomed

\* An INSERT waits for a transaction that inserted a row of the match, or that
\* deletes one which is in the way.
InsertWaitsFor(m, doomed) == InsertedFor(m) \cup UNION {Deleting(row) : row \in Others(m, doomed)}

\* Mutant of MatchFree: no UNIQUE (match_id).
NoUnique(m, doomed) == TRUE

MatchFree(m, doomed) == InsertWaitsFor(m, doomed) = {} /\ Others(m, doomed) = {}
MatchTaken(m, doomed) == InsertWaitsFor(m, doomed) = {} /\ Others(m, doomed) # {}

Exists(c) == change[c].user \in Users

Assigning(c) == change[c].stage = "deleted" /\ change[c].op = "assign"

Insert(c) ==
    /\ Assigning(c)
    /\ MatchFree(change[c].match, change[c].doomed)
    /\ Exists(c)
    /\ SetStage(c, "inserted")
    /\ UNCHANGED <<assignments, write>>

\* IntegrityError: the foreign key, or the unique index.  Both are reported as
\* InvalidAssignment.
InsertRefused(c) ==
    /\ Assigning(c)
    /\ ~Exists(c) \/ MatchTaken(change[c].match, change[c].doomed)
    /\ SetStage(c, "invalid")
    /\ UNCHANGED <<assignments, write>>

CommitAssign(c) ==
    /\ c \in Changes
    /\ change[c].stage = "inserted"
    /\ SetStage(c, "confirmed")
    /\ assignments' = (assignments \ change[c].doomed) \cup {KeeperRow(c)}
    /\ UNCHANGED write

CommitUnassign(c) ==
    /\ change[c].stage = "deleted"
    /\ change[c].op = "unassign"
    /\ SetStage(c, "confirmed")
    /\ assignments' = assignments \ change[c].doomed
    /\ UNCHANGED write

\* The transaction is undone: connection, task or process are gone.
RollbackChange(c) ==
    /\ change[c].stage \in {"deleting", "deleted", "inserted"}
    /\ SetStage(c, "failed")
    /\ UNCHANGED <<assignments, write>>

\* The seed's INSERT, which a row in the way turns into nothing.
InsertKeeper(c, m, user) ==
    /\ InsertWaitsFor(m, {}) = {}
    /\ change' = [change EXCEPT ![c] =
           [stage |-> IF MatchFree(m, {}) THEN "inserted" ELSE "kept",
            op |-> "seed", match |-> m, user |-> user, doomed |-> {}]]
    /\ UNCHANGED <<assignments, write>>

-----------------------------------------------------------------------------
(* A post: require_match_writer(), then append().                          *)

StartWrite(w, m, user) ==
    /\ write[w].stage = "idle"
    /\ write' = [write EXCEPT ![w] = [stage |-> "asked", match |-> m, user |-> user]]
    /\ UNCHANGED <<assignments, change>>

Scorekeepers(m) == {row.user : row \in RowsOf(m)}

MayWrite(w) == write[w].user = Admin \/ write[w].user \in Scorekeepers(write[w].match)

\* get_scorekeeper() and the comparison.
Check(w) ==
    /\ write[w].stage = "asked"
    /\ write' = [write EXCEPT ![w].stage = IF MayWrite(w) THEN "checked" ELSE "forbidden"]
    /\ UNCHANGED <<assignments, change, rows>>

\* The append of the event commits, and with it the row of match_state.
WriteEvent(w) ==
    /\ write[w].stage = "checked"
    /\ write' = [write EXCEPT ![w].stage = "written"]
    /\ rows' = IF Find("match_state", <<write[w].match>>, rows) # {} THEN rows
               ELSE rows \cup {Row("match_state", <<write[w].match>>, w)}
    /\ UNCHANGED <<assignments, change>>

-----------------------------------------------------------------------------
ChangeProgress(c) ==
    Delete(c) \/ Insert(c) \/ InsertRefused(c) \/ CommitAssign(c) \/ CommitUnassign(c)

StartSomeChange(c) ==
    \E m \in Matches :
        Unassign(c, m) \/ \E user \in Users \cup {Missing} : Assign(c, m, user)

-----------------------------------------------------------------------------
(* Properties.                                                             *)

\* "exactly one scorekeeper per match": the table never has two rows for a
\* match, so .one_or_none() of get_scorekeeper() does not raise.
OneScorekeeper ==
    \A row1, row2 \in assignments : row1.match = row2.match => row1 = row2

\* "unassigning a scorekeeper revokes their write access at once": an event is
\* written by an admin or by the present scorekeeper of its match.  An unassign
\* that commits between the check and the append violates it.
WriterIsAssigned ==
    [][\A w \in Writes :
         write[w].stage = "checked" /\ write'[w].stage = "written" => MayWrite(w)]_assignVars
=============================================================================
