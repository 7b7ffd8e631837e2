--------------------------- MODULE ReferenceTables ---------------------------
(***************************************************************************)
(* The reference data: users, competitions, teams and matches, as the      *)
(* registration of an account (app/auth/service.py), the admin's calls     *)
(* (app/management/service.py) and the seed write them, and as the match   *)
(* list (app/read/service.py) joins them.                                  *)
(*                                                                         *)
(* A row is [table, key, by]: "key" is what the code looks a row up by,    *)
(* and the transaction that inserted it, "by", tells it from other rows    *)
(* with that key, as its id does.  The key of a match is the three rows it *)
(* refers to, that of a match_state its match.  Only users.email is        *)
(* UNIQUE: names are not.                                                  *)
(***************************************************************************)
EXTENDS Integers, FiniteSets, Sequences, TLC

CONSTANTS Emails,        \* addresses that users may register
          Names,         \* names that the admin gives to competitions and teams
          Missing,       \* an id of no row
          Registrations, \* calls of register()
          Creations,     \* calls of create_competition(), create_team(), create_match()
          Seeds          \* runs of the seed

\* A transaction is one thing only: "by" tells what wrote a row.
ASSUME TablesAssumption ==
    /\ Registrations \cap Creations = {}
    /\ (Registrations \cup Creations) \cap Seeds = {}

VARIABLES rows,     \* the committed rows
          inserted, \* per registration and seed, its uncommitted rows
          call      \* per registration and creation, where it is

tablesVars == <<rows, inserted, call>>

Row(table, key, by) == [table |-> table, key |-> key, by |-> by]
RowsIn(table, data) == {row \in data : row.table = table}
Find(table, key, data) == {row \in RowsIn(table, data) : row.key = key}

Users == RowsIn("users", rows)
Matches == RowsIn("matches", rows)

TablesInit ==
    /\ rows = {}
    /\ inserted = [t \in Registrations \cup Seeds |-> {}]
    /\ call = [c \in Registrations \cup Creations |-> [stage |-> "idle"]]

SetCall(c, stage) == call' = [call EXCEPT ![c].stage = stage]

-----------------------------------------------------------------------------
(* register().                                                             *)

Register(g, email) ==
    /\ call[g].stage = "idle"
    /\ call' = [call EXCEPT ![g] = [stage |-> "inserting", email |-> email]]
    /\ UNCHANGED <<rows, inserted>>

\* The INSERT waits for a transaction in flight that inserted the address.
EmailHolders(t, email) == {u \in DOMAIN inserted \ {t} : Find("users", email, inserted[u]) # {}}

\* Mutant of EmailTaken: no UNIQUE (email).
NeverTaken(email) == FALSE

EmailTaken(email) == Find("users", email, rows) # {}

InsertUser(g) ==
    /\ call[g].stage = "inserting"
    /\ EmailHolders(g, call[g].email) = {}
    /\ ~EmailTaken(call[g].email)
    /\ inserted' = [inserted EXCEPT ![g] = {Row("users", call[g].email, g)}]
    /\ SetCall(g, "inserted")
    /\ UNCHANGED rows

\* IntegrityError: EmailAlreadyExists.
RefuseUser(g) ==
    /\ call[g].stage = "inserting"
    /\ EmailHolders(g, call[g].email) = {}
    /\ EmailTaken(call[g].email)
    /\ SetCall(g, "refused")
    /\ UNCHANGED <<rows, inserted>>

CommitUser(g) ==
    /\ call[g].stage = "inserted"
    /\ rows' = rows \cup inserted[g]
    /\ inserted' = [inserted EXCEPT ![g] = {}]
    /\ SetCall(g, "created")

RollbackUser(g) ==
    /\ call[g].stage \in {"inserting", "inserted"}
    /\ inserted' = [inserted EXCEPT ![g] = {}]
    /\ SetCall(g, "failed")
    /\ UNCHANGED rows

-----------------------------------------------------------------------------
(* The admin's calls: transactions of one INSERT, which no one waits for.  *)

Create(c, row) ==
    /\ call[c].stage = "idle"
    /\ rows' = rows \cup {row}
    /\ SetCall(c, "created")
    /\ UNCHANGED inserted

CreateCompetition(c, name) == Create(c, Row("competitions", name, c))
CreateTeam(c, name) == Create(c, Row("teams", name, c))

\* The request's validator has seen to home # away.  No match_state row is made.
CreateMatch(c, competition, home, away) ==
    /\ home # away
    /\ {competition, home, away} \subseteq rows
    /\ Create(c, Row("matches", <<competition, home, away>>, c))

\* IntegrityError of a foreign key: InvalidReference.
RefuseMatch(c, competition, home, away) ==
    /\ call[c].stage = "idle"
    /\ home # away
    /\ Missing \in {competition, home, away}
    /\ SetCall(c, "invalid")
    /\ UNCHANGED <<rows, inserted>>

-----------------------------------------------------------------------------
(* list_matches().                                                         *)

\* Mutant of StatesOf: JOIN match_state instead of LEFT JOIN.
JoinedStates(match) == Find("match_state", <<match>>, rows)

\* LEFT JOIN match_state: a match without a row there is listed with 0:0.
StatesOf(match) ==
    LET found == Find("match_state", <<match>>, rows)
    IN  IF found = {} THEN {Missing} ELSE found

\* The rows of the answer; joins with teams and competitions keep a match if the
\* rows are there.
ListMatches ==
    {entry \in Matches \X (RowsIn("match_state", rows) \cup {Missing}) :
        /\ \A i \in 1..3 : entry[1].key[i] \in rows
        /\ entry[2] \in StatesOf(entry[1])}

TablesProgress(g) == InsertUser(g) \/ RefuseUser(g) \/ CommitUser(g)

CreateSomething(c) ==
    \/ \E name \in Names : CreateCompetition(c, name) \/ CreateTeam(c, name)
    \/ \E competition \in RowsIn("competitions", rows) \cup {Missing} :
         \E home, away \in RowsIn("teams", rows) \cup {Missing} :
            \/ CreateMatch(c, competition, home, away)
            \/ RefuseMatch(c, competition, home, away)

-----------------------------------------------------------------------------
\* An address has one account, and a registration is refused only if it has one,
\* however registrations and seeds that insert it overlap and fail.
OneAccount ==
    /\ \A email \in Emails : Cardinality(Find("users", email, rows)) <= 1
    /\ \A g \in Registrations :
         /\ call[g].stage = "refused" => EmailTaken(call[g].email)
         /\ call[g].stage = "created" => Find("users", call[g].email, rows) = {Row("users", call[g].email, g)}

\* The match list shows every match that is committed, once: one that the admin
\* created and nobody scored yet, one of the seed, and one whose projection was
\* written by its first event.
EveryMatchListed ==
    \A match \in Matches : Cardinality({entry \in ListMatches : entry[1] = match}) = 1
=============================================================================
