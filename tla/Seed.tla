-------------------------------- MODULE Seed --------------------------------
(***************************************************************************)
(* The seed of the demo data (app/seed.py), which every start of the       *)
(* container runs before the server: one transaction that looks up each    *)
(* entity and inserts it if there is none.  Runs of it may be repeated,    *)
(* fail half way, overlap each other, and overlap the calls of a server    *)
(* that is still up.                                                       *)
(***************************************************************************)
EXTENDS Assignment

CONSTANTS DemoEmail, League, Hawks, Owls, Foxes, Bears, \* what the seed looks up
          MaxBusy,  \* transactions open at a time
          MaxCalls  \* requests that an execution makes

VARIABLES seed \* per run, its stage and the rows of the steps done, in order

vars == <<tablesVars, assignVars, seed>>

\* The steps of seed(): a table and the key to look up; a match refers to the
\* rows of earlier steps, an assignment of the user of step 1 is the 1st or 2nd.
Steps ==
    << <<"users", DemoEmail>>, <<"competitions", League>>,
       <<"teams", Hawks>>, <<"teams", Owls>>, <<"matches", <<2, 3, 4>>>>,
       <<"match_scorekeepers", 1>>,
       <<"teams", Foxes>>, <<"teams", Bears>>, <<"matches", <<2, 7, 8>>>>,
       <<"match_scorekeepers", 2>> >>

Init ==
    /\ TablesInit
    /\ AssignInit
    /\ seed = [s \in Seeds |-> [stage |-> "idle", found |-> <<>>]]

StartSeed(s) ==
    /\ seed[s].stage = "idle"
    /\ seed' = [seed EXCEPT ![s].stage = "lookup"]
    /\ UNCHANGED <<tablesVars, assignVars>>

Step(s) == Len(seed[s].found) + 1
At(s, stage) == seed[s].stage = stage /\ Step(s) \in DOMAIN Steps
Table(s) == Steps[Step(s)][1]
Key(s) ==
    LET key == Steps[Step(s)][2]
    IN  IF Table(s) = "matches" THEN [i \in 1..3 |-> seed[s].found[key[i]]] ELSE key

\* The step is done; `row` is what its helper returned.
StepDone(s, row) ==
    seed' = [seed EXCEPT ![s] = [stage |-> "lookup", found |-> Append(@.found, row)]]

\* The SELECT by name, email or the three ids, in the seed's own transaction.
Candidates(s) == Find(Table(s), Key(s), rows \cup inserted[s])

\* scalar_one_or_none().
Found(s) ==
    /\ At(s, "lookup")
    /\ Table(s) # "match_scorekeepers"
    /\ \E row \in Candidates(s) : Candidates(s) = {row} /\ StepDone(s, row)
    /\ UNCHANGED <<tablesVars, assignVars>>

NotFound(s) ==
    /\ At(s, "lookup")
    /\ Table(s) # "match_scorekeepers"
    /\ Candidates(s) = {}
    /\ seed' = [seed EXCEPT ![s].stage = "insert"]
    /\ UNCHANGED <<tablesVars, assignVars>>

\* The transaction is over; nothing reads what it found any more.
EndSeed(s, stage) ==
    /\ seed' = [seed EXCEPT ![s] = [stage |-> stage, found |-> <<>>]]
    /\ inserted' = [inserted EXCEPT ![s] = {}]
    /\ change' = [c \in DOMAIN change |-> IF c \in {s} \X {1, 2} THEN NoChange ELSE change[c]]

\* It is undone, and the entrypoint of the container stops.
Fail(s) == EndSeed(s, "failed") /\ UNCHANGED <<rows, call, assignments, write>>

\* MultipleResultsFound.
Ambiguous(s) ==
    /\ At(s, "lookup")
    /\ Table(s) # "match_scorekeepers"
    /\ Cardinality(Candidates(s)) > 1
    /\ Fail(s)

\* What an INSERT step writes; a match comes with its match_state row.
NewRows(s) ==
    LET row == Row(Table(s), Key(s), s)
    IN  IF Table(s) = "matches" THEN {row, Row("match_state", <<row>>, s)} ELSE {row}

\* Mutant of Keep: each statement is a transaction of its own.
KeepAtOnce(s, new) == rows' = rows \cup new /\ UNCHANGED inserted

Keep(s, new) == inserted' = [inserted EXCEPT ![s] = @ \cup new] /\ UNCHANGED rows

InsertEntity(s) ==
    /\ At(s, "insert")
    /\ Table(s) = "users" => EmailHolders(s, DemoEmail) = {} /\ ~EmailTaken(DemoEmail)
    /\ Keep(s, NewRows(s))
    /\ StepDone(s, Row(Table(s), Key(s), s))
    /\ UNCHANGED <<call, assignVars>>

\* IntegrityError: the address was committed since the lookup.
UserTaken(s) ==
    /\ At(s, "insert")
    /\ Table(s) = "users"
    /\ EmailHolders(s, DemoEmail) = {}
    /\ EmailTaken(DemoEmail)
    /\ Fail(s)

AssignDemoUser(s) ==
    /\ At(s, "lookup")
    /\ Table(s) = "match_scorekeepers"
    /\ LET match == seed[s].found[Len(seed[s].found)]
       IN  InsertKeeper(<<s, Key(s)>>, match, seed[s].found[1]) /\ StepDone(s, match)
    /\ UNCHANGED tablesVars

CommitSeed(s) ==
    /\ seed[s].stage = "lookup"
    /\ Len(seed[s].found) = Len(Steps)
    /\ EndSeed(s, "done")
    /\ rows' = rows \cup inserted[s]
    /\ assignments' = assignments \cup
           {KeeperRow(c) : c \in {d \in {s} \X {1, 2} : change[d].stage = "inserted"}}
    /\ UNCHANGED <<call, write>>

\* The process or its connection is gone.
CrashSeed(s) == seed[s].stage \in {"lookup", "insert"} /\ Fail(s)

SeedProgress(s) ==
    Found(s) \/ NotFound(s) \/ Ambiguous(s) \/ InsertEntity(s) \/ UserTaken(s)
      \/ AssignDemoUser(s) \/ CommitSeed(s)

-----------------------------------------------------------------------------
Busy ==
    {s \in Seeds : seed[s].stage \in {"lookup", "insert"}}
      \cup {g \in Registrations : call[g].stage \in {"inserting", "inserted"}}
      \cup {c \in Changes : change[c].stage \in {"deleting", "deleted", "inserted"}}

Called ==
    {c \in DOMAIN call : call[c].stage # "idle"}
      \cup {c \in Changes : change[c].stage # "idle"}
      \cup {w \in Writes : write[w].stage # "idle"}

SeedOver == {"done", "failed"}
CallOver == {"created", "refused", "invalid", "failed"}
ChangeOver == {"confirmed", "invalid", "failed"}

Finished ==
    /\ \A s \in Seeds : seed[s].stage \in SeedOver
    /\ UNCHANGED vars

\* A request comes in.
Receive ==
    \/ /\ \/ \E g \in Registrations, email \in Emails : Register(g, email)
          \/ \E c \in Creations : CreateSomething(c)
       /\ UNCHANGED <<assignVars, seed>>
    \/ /\ \E c \in Changes : StartSomeChange(c)
       /\ UNCHANGED <<tablesVars, seed>>
    \/ /\ \E w \in Writes, m \in Matches, user \in Users \cup {Admin} : StartWrite(w, m, user)
       /\ UNCHANGED <<tablesVars, seed>>

Next ==
    \/ Cardinality(Busy) < MaxBusy /\ \E s \in Seeds : StartSeed(s)
    \/ Cardinality(Busy) < MaxBusy /\ Cardinality(Called) < MaxCalls /\ Receive
    \/ \E s \in Seeds : SeedProgress(s) \/ CrashSeed(s)
    \/ \E g \in Registrations :
         (TablesProgress(g) \/ RollbackUser(g)) /\ UNCHANGED <<assignVars, seed>>
    \/ \E c \in Changes :
         (ChangeProgress(c) \/ RollbackChange(c)) /\ UNCHANGED <<tablesVars, seed>>
    \/ \E w \in Writes : (Check(w) \/ WriteEvent(w)) /\ UNCHANGED <<inserted, call, seed>>
    \/ Finished

Spec == Init /\ [][Next]_vars

\* The database runs a statement that is not blocked, and the seed goes on.
Fairness ==
    /\ \A s \in Seeds : WF_vars(SeedProgress(s))
    /\ \A g \in Registrations : WF_vars(TablesProgress(g) /\ UNCHANGED <<assignVars, seed>>)
    /\ \A c \in Changes : WF_vars(ChangeProgress(c) /\ UNCHANGED <<tablesVars, seed>>)

FairSpec == Spec /\ Fairness

-----------------------------------------------------------------------------
(* Properties.                                                             *)

\* The account that a user registered under the demo address.
DemoRegistered == \E row \in Find("users", DemoEmail, rows) : row.by \in Registrations

\* "running this script multiple times is always safe": runs that are repeated,
\* overlap or fail insert no demo row twice, as long as it is a seed that made
\* the demo account, whose UNIQUE address lets one run through at a time.
DemoOnce ==
    \/ DemoRegistered
    \/ \A row1, row2 \in rows :
         /\ row1.by \in Seeds /\ row2.by \in Seeds
         /\ row1.table = row2.table /\ row1.key = row2.key
         => row1 = row2

\* A match of the seed is never seen half made: it has its match_state row, and
\* its scorekeeper unless the admin changed it.
DemoMatchReady ==
    \A m \in Matches : m.by \in Seeds =>
        /\ Find("match_state", <<m>>, rows) # {}
        /\ \/ RowsOf(m) # {}
           \/ \E c \in Changes : change[c].stage = "confirmed" /\ change[c].match = m

\* Every transaction ends, so that it comes to a state without one: the locks of
\* seeds, registrations and changes form no circle.
AllEnd == []<>(Busy = {})
=============================================================================
