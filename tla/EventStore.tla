----------------------------- MODULE EventStore -----------------------------
(***************************************************************************)
(* The write path of a scoring action: PostgresEventStore.append and the   *)
(* snapshot that ScoringService.record reads after it, for concurrent      *)
(* requests (app/events/postgres.py, app/scoring/service.py).              *)
(*                                                                         *)
(* Each request runs its transaction statement by statement.  What the     *)
(* database does for the code is modelled from the SQL it is given: READ   *)
(* COMMITTED snapshots, the two UNIQUE constraints of match_events, ON     *)
(* CONFLICT (idempotency_key), rollback of everything on an error, and the *)
(* abort of a transaction in a deadlock.  The uncommitted writes of a      *)
(* request stay in its own variables until Commit.                         *)
(***************************************************************************)
EXTENDS StandingsTable, Counting

CONSTANTS Matches,   \* ids of the matches
          Fixture,   \* per match, its competition and its two teams
          Keys,      \* idempotency keys
          Posts,     \* the bodies clients may post: match, key, type, scores
          MaxInt,    \* greatest value of an INT column
          PoolSize   \* connections the engine's pool hands out at a time

ASSUME PostsAssumption ==
    Posts \subseteq [match : Matches, key : Keys, type : EventTypes,
                     score_home : Int, score_away : Int]
ASSUME PayloadAssumption ==
    \A body \in Posts :
        body.type # "score_correction" => body.score_home = 0 /\ body.score_away = 0
\* CHECK (home_team_id <> away_team_id).
ASSUME FixtureAssumption ==
    IsFiniteSet(Matches) /\ \A m \in Matches : Fixture[m].home # Fixture[m].away
ASSUME IntAssumption == MaxInt \in Nat

VARIABLES history,      \* match_events: per match, the committed updates in commit order
          match_state,  \* match_state: the committed row of each match, or the default
          match_status, \* matches.status, committed
          pc,           \* per request, where it is
          post,         \* per request, the body it received
          ver,          \* per request, the version its INSERT computed
          new_state,    \* per request, the state its write-through computed
          reply         \* per request, its answer

storeVars == <<history, match_state, match_status, pc, post, ver, new_state, reply>>
vars == <<storeVars, tableVars>>

-----------------------------------------------------------------------------
Log(m) == {history[m][i].event : i \in DOMAIN history[m]}
CommittedEvents == UNION {Log(m) : m \in Matches}

\* The row that the INSERT of request r makes.
EventOf(r) ==
    [match |-> post[r].match, version |-> ver[r], type |-> post[r].type,
     score_home |-> post[r].score_home, score_away |-> post[r].score_away,
     key |-> post[r].key]

UpdateOf(r) == [event |-> EventOf(r), state |-> new_state[r]]

\* Stages in which the request's row is in match_events, not yet committed.
Holding == {"inserted", "applied", "written"}

\* Stages in which the request is inside its transaction, before the COMMIT.
InTransaction == {"ready", "arbiter", "index", "duplicate"} \cup Holding

\* Stages in which the request is over.
Answered == {"created", "replayed", "failed"}

NoReply == [kind |-> "none"]
NoPost == [kind |-> "none"]

Init ==
    /\ TableInit
    /\ history = [m \in Matches |-> <<>>]
    /\ match_state = [m \in Matches |-> InitialState]
    /\ match_status = [m \in Matches |-> "scheduled"]
    /\ pc = [r \in Requests |-> "idle"]
    /\ post = [r \in Requests |-> NoPost]
    /\ ver = [r \in Requests |-> 0]
    /\ new_state = [r \in Requests |-> InitialState]
    /\ reply = [r \in Requests |-> NoReply]

Goto(r, from, to) == pc[r] = from /\ pc' = [pc EXCEPT ![r] = to]

\* Every write of the transaction is undone; the client gets a 500 or nothing.
Fail(r) ==
    /\ pc' = [pc EXCEPT ![r] = "failed"]
    /\ AbortTable(r)
    /\ UNCHANGED <<history, match_state, match_status, post, ver, new_state, reply>>

-----------------------------------------------------------------------------
(* The transaction of append().                                            *)

\* record() is called with a body and append() takes a connection of the pool.
Begin(r, body) ==
    /\ Goto(r, "idle", "ready")
    /\ Cardinality({q \in Requests : pc[q] \in InTransaction}) < PoolSize
    /\ post' = [post EXCEPT ![r] = body]
    /\ UNCHANGED <<history, match_state, match_status, ver, new_state, reply, tableVars>>

\* The statement snapshot of INSERT ... SELECT fixes MAX(version) + 1.
MaxVersion(m) == Max({e.version : e \in Log(m)} \cup {0})

SelectVersion(r) ==
    /\ Goto(r, "ready", "arbiter")
    /\ ver' = [ver EXCEPT ![r] = MaxVersion(post[r].match) + 1]
    /\ UNCHANGED <<history, match_state, match_status, post, new_state, reply, tableVars>>

\* Mutant of KeyCommitted: no UNIQUE (idempotency_key).
NeverCommitted(k) == FALSE

\* Requests in flight whose uncommitted row has the key.
HoldersOfKey(k) == {q \in Requests : pc[q] \in Holding /\ post[q].key = k}
KeyCommitted(k) == \E e \in CommittedEvents : e.key = k

\* ON CONFLICT (idempotency_key) looks at the key first; it waits for a
\* transaction in flight that holds it.
KeyIsNew(r) ==
    /\ Goto(r, "arbiter", "index")
    /\ HoldersOfKey(post[r].key) = {}
    /\ ~ KeyCommitted(post[r].key)
    /\ UNCHANGED <<history, match_state, match_status, post, ver, new_state, reply, tableVars>>

KeyConflict(k) == HoldersOfKey(k) = {} /\ KeyCommitted(k)

\* DO NOTHING: the INSERT returns no row.
KeyIsTaken(r) ==
    /\ Goto(r, "arbiter", "duplicate")
    /\ KeyConflict(post[r].key)
    /\ UNCHANGED <<history, match_state, match_status, post, ver, new_state, reply, tableVars>>

\* Mutants of HoldersOfVersion and VersionCommitted: no UNIQUE (match_id, version).
NoVersionHolders(m, v) == {}
VersionNeverCommitted(m, v) == FALSE

HoldersOfVersion(m, v) ==
    {q \in Requests : pc[q] \in Holding /\ post[q].match = m /\ ver[q] = v}
VersionCommitted(m, v) == \E e \in Log(m) : e.version = v

\* The index entries of the new row: both are unique, each waits for a
\* transaction in flight that holds the same entry.
InsertEvent(r) ==
    /\ Goto(r, "index", "inserted")
    /\ ~ VersionCommitted(post[r].match, ver[r])
    /\ HoldersOfVersion(post[r].match, ver[r]) = {}
    /\ ~ KeyCommitted(post[r].key)
    /\ HoldersOfKey(post[r].key) = {}
    /\ UNCHANGED <<history, match_state, match_status, post, ver, new_state, reply, tableVars>>

\* A key that appeared since the first look: the INSERT starts over.
KeyAppeared(r) ==
    /\ Goto(r, "index", "arbiter")
    /\ ~ VersionCommitted(post[r].match, ver[r])
    /\ HoldersOfVersion(post[r].match, ver[r]) = {}
    /\ KeyCommitted(post[r].key) \/ HoldersOfKey(post[r].key) # {}
    /\ UNCHANGED <<history, match_state, match_status, post, ver, new_state, reply, tableVars>>

\* UNIQUE (match_id, version) is not the arbiter of ON CONFLICT: a concurrent
\* append to the match that committed first makes this one an IntegrityError.
VersionTaken(r) ==
    /\ pc[r] = "index"
    /\ VersionCommitted(post[r].match, ver[r])
    /\ Fail(r)

-----------------------------------------------------------------------------
(* _write_through().                                                       *)

\* Mutant of NextState: the event is applied to the default state.
StateFromScratch(r) == Apply(InitialState, EventOf(r))

NextState(r) == Apply(match_state[post[r].match], EventOf(r))

\* apply(await self._read_state(...), event).
ApplyEvent(r) ==
    /\ Goto(r, "inserted", "applied")
    /\ new_state' = [new_state EXCEPT ![r] = NextState(r)]
    /\ UNCHANGED <<history, match_state, match_status, post, ver, reply, tableVars>>

FitsInt(state) ==
    \A n \in {state.score_home, state.score_away, state.current_round} :
        n \in -MaxInt - 1 .. MaxInt

\* Mutant of Storable: the columns take a number of any size.
AnyNumber(state) == TRUE

\* A score out of the range of INT is an error of the statement.
Storable(state) == FitsInt(state)

\* The upsert of match_state and, for the two lifecycle events, the UPDATE of
\* matches.
WriteState(r) ==
    /\ Goto(r, "applied", "written")
    /\ Storable(new_state[r])
    /\ UNCHANGED <<history, match_state, match_status, post, ver, new_state, reply, tableVars>>

OutOfRange(r) ==
    /\ pc[r] = "applied"
    /\ ~ Storable(new_state[r])
    /\ Fail(r)

\* Mutant of Mirrored: matches.status is only written when the match ends.
MirroredAtEnd(r) ==
    IF post[r].type = "match_finalised"
    THEN new_state[r].status ELSE match_status[post[r].match]

\* matches.status as the transaction leaves it.
Mirrored(r) ==
    IF post[r].type \in {"match_started", "match_finalised"}
    THEN new_state[r].status ELSE match_status[post[r].match]

-----------------------------------------------------------------------------
(* _recompute_standings(), only for match_finalised.                       *)

Recomputing(r) == pc[r] = "written" /\ post[r].type = "match_finalised"
CompetitionOf(r) == Fixture[post[r].match].competition

\* A match with its score as the results query shows it.
ResultOf(m, state) ==
    [match |-> m, home |-> Fixture[m].home, away |-> Fixture[m].away,
     score_home |-> state.score_home, score_away |-> state.score_away]

FinalResults(competition, states) ==
    {ResultOf(m, states[m]) :
        m \in {n \in Matches : /\ Fixture[n].competition = competition
                               /\ states[n].status = "final"}}

\* Mutant of VisibleTo: the results are read before the write-through.
CommittedOnly(r) == match_state

\* The rows of match_state that r's statements see: its own write included.
VisibleTo(r) == [match_state EXCEPT ![post[r].match] = new_state[r]]

RecomputeStep(r) ==
    /\ Recomputing(r)
    /\ \/ ReadFinals(r, CompetitionOf(r), FinalResults(CompetitionOf(r), VisibleTo(r)),
                     match_state)
       \/ StartDelete(r, CompetitionOf(r))
       \/ FinishDelete(r)
       \/ InsertStanding(r)
    /\ UNCHANGED storeVars

\* Concurrent finalisation of two matches of the competition.
StandingTaken(r) ==
    /\ Recomputing(r)
    /\ PrimaryKeyTaken(r)
    /\ Fail(r)

-----------------------------------------------------------------------------
(* The end of the transaction, and of the request.                         *)

\* COMMIT takes effect in the database.
Commit(r) ==
    /\ Goto(r, "written", "committed")
    /\ post[r].type = "match_finalised" => Recomputed(r)
    /\ history' = [history EXCEPT ![post[r].match] = Append(@, UpdateOf(r))]
    /\ match_state' = [match_state EXCEPT ![post[r].match] = new_state[r]]
    /\ match_status' = [match_status EXCEPT ![post[r].match] = Mirrored(r)]
    /\ IF post[r].type = "match_finalised" THEN CommitTable(r) ELSE UNCHANGED tableVars
    /\ UNCHANGED <<post, ver, new_state, reply>>

\* The answer to COMMIT arrives: append() publishes, without an await between,
\* and returns created=True.
Publish(r) ==
    /\ Goto(r, "committed", "published")
    /\ UNCHANGED <<history, match_state, match_status, post, ver, new_state, reply, tableVars>>

\* The answer to COMMIT is lost: append() raises, nothing is published.
LoseAnswer(r) ==
    /\ Goto(r, "committed", "failed")
    /\ UNCHANGED <<history, match_state, match_status, post, ver, new_state, reply, tableVars>>

\* Mutant of Snapshot: the answer takes the state the request itself computed.
OwnState(r) == new_state[r]

Snapshot(r) == match_state[post[r].match]

\* record() reads the snapshot in a transaction of its own and answers.
Answer(r, event, kind) ==
    /\ pc' = [pc EXCEPT ![r] = kind]
    /\ reply' = [reply EXCEPT ![r] =
           [kind |-> kind, event |-> event, state |-> Snapshot(r)]]
    /\ UNCHANGED <<history, match_state, match_status, post, ver, new_state, tableVars>>

\* 201 with the new event.
AnswerCreated(r) == pc[r] = "published" /\ Answer(r, EventOf(r), "created")

\* The duplicate path: .one() on the key finds the original; the transaction
\* ends without writing and nothing is published.
SelectOriginal(r) ==
    /\ Goto(r, "duplicate", "original")
    /\ \E e \in CommittedEvents : e.key = post[r].key
    /\ UNCHANGED <<history, match_state, match_status, post, ver, new_state, reply, tableVars>>

\* 200 with the original event.
AnswerReplayed(r) ==
    /\ pc[r] = "original"
    /\ \E e \in CommittedEvents : e.key = post[r].key /\ Answer(r, e, "replayed")

\* A connection, the process or the client may go at any statement.
Rollback(r) == pc[r] \in InTransaction /\ Fail(r)

-----------------------------------------------------------------------------
\* The requests whose end r waits for at its current statement.
WaitsFor(r) ==
    (CASE pc[r] = "arbiter" -> HoldersOfKey(post[r].key)
       [] pc[r] = "index" /\ ~ VersionCommitted(post[r].match, ver[r]) ->
            HoldersOfVersion(post[r].match, ver[r])
       [] Recomputing(r) -> TableWaitsFor(r)
       [] OTHER -> {}) \ {r}

\* r waits for a circle of requests that wait for each other.
Deadlocked(r) ==
    \E S \in SUBSET Requests : r \in S /\ \A q \in S : WaitsFor(q) \cap S # {}

\* Mutant of AbortVictim: nothing breaks a circle.
NoVictim(r) == FALSE

\* deadlock_timeout: the database aborts a transaction of the circle.
AbortVictim(r) == Deadlocked(r) /\ Rollback(r)

\* What the request's task and the database do without a failure.
Progress(r) ==
    \/ SelectVersion(r) \/ KeyIsNew(r) \/ KeyIsTaken(r)
    \/ InsertEvent(r) \/ KeyAppeared(r) \/ VersionTaken(r)
    \/ ApplyEvent(r) \/ WriteState(r) \/ OutOfRange(r)
    \/ RecomputeStep(r) \/ StandingTaken(r)
    \/ Commit(r) \/ Publish(r) \/ AnswerCreated(r)
    \/ SelectOriginal(r) \/ AnswerReplayed(r)

\* All requests are answered: the model, not the server, ends here.
Finished == (\A r \in Requests : pc[r] \in Answered) /\ UNCHANGED vars

Next ==
    \/ \E r \in Requests :
         \/ \E body \in Posts : Begin(r, body)
         \/ Progress(r)
         \/ LoseAnswer(r)
         \/ Rollback(r)
    \/ Finished

Spec == Init /\ [][Next]_vars

\* The event loop runs every ready task and the database every statement that
\* is not blocked; it breaks circles.  No failure is assumed to happen.
Fairness == \A r \in Requests : WF_vars(Progress(r)) /\ WF_vars(AbortVictim(r))

FairSpec == Spec /\ Fairness

-----------------------------------------------------------------------------
(* Properties.                                                             *)

\* The abstract store: an update is pending between its commit and its answer.
Pending == {UpdateOf(r) : r \in {q \in Requests : pc[q] = "committed"}}
PostedScores == UNION {{body.score_home, body.score_away} : body \in Posts}

Store == INSTANCE EventLog WITH pending <- Pending, Scores <- PostedScores

Stages == {"idle", "committed", "published", "original"} \cup InTransaction \cup Answered

Updates == [event : ScoringEvents(Matches, Keys), state : States]

\* Types of the committed rows and of the requests; no score that a correction
\* and later rounds add up to leaves the range of its INT column.
TypeOK ==
    /\ history \in [Matches -> Seq(Updates)]
    /\ match_state \in [Matches -> States]
    /\ match_status \in [Matches -> Statuses]
    /\ pc \in [Requests -> Stages]
    /\ post \in [Requests -> Posts \cup {NoPost}]
    /\ ver \in [Requests -> Nat]
    /\ new_state \in [Requests -> States]
    /\ DOMAIN reply = Requests
    /\ \A r \in Requests : pc[r] # "idle" => post[r] \in Posts
    /\ \A r \in Requests : pc[r] = "written" => FitsInt(new_state[r])
    /\ \A m \in Matches : FitsInt(match_state[m])

\* Concurrent appends give a match the versions 1, 2, 3, ... in the order in
\* which they commit: no version is skipped, reused or committed after a later
\* one ("assigns the next contiguous per-match version", EventStore.append).
LogContiguous ==
    \A m \in Matches : \A i \in DOMAIN history[m] :
        history[m][i].event.version = i /\ history[m][i].event.match = m

\* The state stored with each event, which is what is published, is the one
\* that follows from the state of the version before it, and match_state is the
\* state of the last: no concurrent append is overwritten or applied twice.
StatesChain ==
    \A m \in Matches :
        /\ match_state[m] = Store!StateAfter(history[m])
        /\ \A i \in DOMAIN history[m] :
             history[m][i].state =
                Apply(IF i = 1 THEN InitialState ELSE history[m][i - 1].state,
                      history[m][i].event)

\* The stored projection, kept in place by one read-modify-write per append, is
\* what one counts in the committed log of the match, whatever the order of the
\* events and of the requests.
StateCountsTheLog ==
    \A m \in Matches :
        CountsTheLog(match_state[m], [i \in DOMAIN history[m] |-> history[m][i].event])

\* matches.status, written apart from match_state and only for two of the five
\* types, never disagrees with the projection.
StatusMirrorsState == \A m \in Matches : match_status[m] = match_state[m].status

\* A key is appended once, whatever retries run concurrently with the original,
\* at most one of its requests is told 201, and every 201 and 200 names the
\* event that is in the log under the key of the request.
ExactlyOncePerKey ==
    /\ \A m, n \in Matches : \A i \in DOMAIN history[m], j \in DOMAIN history[n] :
         history[m][i].event.key = history[n][j].event.key => m = n /\ i = j
    /\ \A q, r \in Requests :
         pc[q] = "created" /\ pc[r] = "created" /\ post[q].key = post[r].key => q = r
    /\ \A r \in Requests :
         pc[r] \in {"created", "replayed"} =>
            reply[r].event.key = post[r].key /\ reply[r].event \in CommittedEvents

\* When the INSERT reports a duplicate, the SELECT by key that follows in the
\* same transaction finds the original: .one() does not raise.
DuplicateSelectFinds ==
    \A r \in Requests : pc[r] = "duplicate" => KeyCommitted(post[r].key)

\* The state of an answer, read in another transaction than the append, is one
\* the match was really in and already contains the event of the answer; the
\* claim is void only for a key first used on another match.
ReplyCoversEvent ==
    \A r \in Requests :
        pc[r] \in {"created", "replayed"} /\ reply[r].event.match = post[r].match =>
            LET state == reply[r].state
            IN  /\ state.version \in reply[r].event.version .. Len(history[post[r].match])
                /\ state = history[post[r].match][state.version].state

\* The step in which the transaction of r becomes durable.
Committing(r) == pc[r] = "written" /\ pc'[r] = "committed"
Finalising(r) == Committing(r) /\ post[r].type = "match_finalised"

\* The table that counting the results gives, with `by` as the writer of its rows.
TableOf(by, competition, results) ==
    {WrittenBy(by, row) : row \in CountedTable(competition, results)}

\* A finalisation that commits counts the match it ends: its own rows are exactly
\* the table of the results that were final when it read them and of its own
\* result, which is the one it stores, whatever was committed for this match or
\* for others meanwhile.
FinaliseCountsOwnMatch ==
    [][\A r \in Requests : Finalising(r) =>
         LET m == post[r].match
             counted == FinalResults(CompetitionOf(r),
                                     [recompute[r].saw EXCEPT ![m] = match_state'[m]])
         IN  /\ ResultOf(m, match_state'[m]) \in counted
             /\ {row \in standings' : row.by = r} = TableOf(r, CompetitionOf(r), counted)]_vars

\* The committed table of the competition is the one computed from all its
\* final matches at their present scores, and has no other row.
TableIsCurrent(competition, rows, states) ==
    {[row EXCEPT !.by = "any"] : row \in {x \in rows : x.competition = competition}}
      = TableOf("any", competition, FinalResults(competition, states))

\* "recomputed in full on finalisation": after a finalisation commits, the table
\* of the competition is the one computed from all its final matches.
FinaliseRefreshes ==
    [][\A r \in Requests :
         Finalising(r) => TableIsCurrent(CompetitionOf(r), standings', match_state')]_vars

\* A finalisation repairs what went before it, whether results lost by earlier
\* recomputes, corrections of a final match or matches started again: when no
\* append to the competition commits between its read of the results and its own
\* commit, the table it leaves is the current one.
RefreshesWhenCurrent ==
    [][\A r \in Requests :
         /\ Finalising(r)
         /\ \A m \in Matches : Fixture[m].competition = CompetitionOf(r) =>
                               recompute[r].saw[m] = match_state[m]
         => TableIsCurrent(CompetitionOf(r), standings', match_state')]_vars

\* Every request that got a connection is answered, whatever the transactions
\* of the others wait for.
EveryPostAnswered == \A r \in Requests : pc[r] = "ready" ~> pc[r] \in Answered

\* The statements above implement the atomic store that the interface promises.
ImplementsEventLog == Store!LogSpec

-----------------------------------------------------------------------------
(* The inductive invariant of the write path.                              *)

\* A version computed before the row is in the index may be stale but never
\* ahead; a row in the index has the next version of its match.
VersionsAhead ==
    \A r \in Requests :
        /\ pc[r] \in {"arbiter", "index"} => ver[r] \in 1 .. Len(history[post[r].match]) + 1
        /\ pc[r] \in Holding => ver[r] = Len(history[post[r].match]) + 1

\* So uncommitted rows are of different matches, and of different, new keys.
HoldersApart ==
    /\ \A r \in Requests : pc[r] \in Holding => ~ KeyCommitted(post[r].key)
    /\ \A q, r \in Requests :
         pc[q] \in Holding /\ pc[r] \in Holding /\ q # r =>
            post[q].match # post[r].match /\ post[q].key # post[r].key

\* What the write-through computed is still what the commit has to store: no
\* other append to the match commits between the read and the commit.
NewStateCurrent ==
    \A r \in Requests :
        pc[r] \in {"applied", "written"} =>
            new_state[r] = Apply(match_state[post[r].match], EventOf(r))

\* Stages after the request's own commit.
Done == {"committed", "published", "created"}

\* What a request committed is in the log under its version, and no other
\* request committed its key.
CommittedInLog ==
    /\ \A r \in Requests :
         pc[r] \in Done => /\ ver[r] \in DOMAIN history[post[r].match]
                          /\ history[post[r].match][ver[r]] = UpdateOf(r)
    /\ \A q, r \in Requests :
         pc[q] \in Done /\ pc[r] \in Done /\ post[q].key = post[r].key => q = r

\* The event a replayed request answers with is committed.
OriginalSelected == \A r \in Requests : pc[r] = "original" => KeyCommitted(post[r].key)

\* The inductive invariant: whatever the interleaving of the statements, rows
\* that wait for their commit are of different matches, so the UNIQUE index on
\* the version makes the read-modify-write of a projection atomic.
StoreInv ==
    /\ TypeOK
    /\ LogContiguous
    /\ StatesChain
    /\ VersionsAhead
    /\ HoldersApart
    /\ NewStateCurrent
    /\ CommittedInLog
    /\ OriginalSelected
    /\ DuplicateSelectFinds
    /\ ExactlyOncePerKey
    /\ StatusMirrorsState
    /\ ReplyCoversEvent
=============================================================================
