# Dodgeball live scores: a TLA+ model

This directory holds a TLA+ model of the server in `src/app` and of the clients
that its live feed serves: what the code does to its tables and its in-memory
state, for every interleaving of the requests and connections, the TLC runs that
check it on small instances, and the theorems that TLAPS proves for instances of
any size.

## The system

A scorekeeper posts scoring actions of a match; each becomes an event in an
append-only log in PostgreSQL, updates the stored projection of the match in the
same transaction, and is pushed to the WebSocket viewers of the match. The server
is one asyncio process; everything that suspends (a SQL statement, a COMMIT, a
send) lets the other requests run in between.

| Component | State it keeps | Operations | How it interacts |
|---|---|---|---|
| Projections (`core/projections.py`, `core/events.py`) | none | `apply`, `fold`, `compute_standings` | called by the store (write-through, recompute) and by the replay of a connection |
| Event store (`events/store.py`, `events/postgres.py`) | tables `match_events`, `match_state`, `matches.status`, `standings` | `append`, `read_since`, `snapshot` | called by scoring, reads and connections; calls `Dispatcher.publish` after the commit |
| Scoring (`scoring/service.py`, `api/scoring.py`) | none | `record` / `POST /matches/{id}/events` | `append`, then `snapshot` in a second transaction |
| Dispatcher (`core/dispatcher.py`) | per connection a mailbox of at most 256 updates | `subscribe`, `unsubscribe`, `publish` | fed by the store, drained by the pumps |
| Delivery (`api/ws.py`, `delivery/stream.py`) | per connection the replay position and the watermark `last_sent` | `match_feed`, `_replay`, `_pump`, `_watch_disconnect` | subscribes first, replays the log, then forwards the mailbox |
| Refresh tokens (`auth/refresh.py`) | table `refresh_tokens` | `issue`, `rotate`, `revoke`, chain revocation | called by `AuthService` |
| Auth service, access tokens, passwords (`auth/service.py`, ...) | table `users` | `register`, `login`, `refresh`, `logout` | calls the refresh-token store |
| Rate limiter (`auth/ratelimit.py`) | per key the times of the recent attempts | `allow` | called by the auth routes, once or twice per request |
| Assignment (`auth/assignment.py`, `api/deps.py`) | table `match_scorekeepers` | `assign`, `unassign`, the check before a write | read before each post |
| Management (`management/`, `api/management.py`) | tables `competitions`, `teams`, `matches` | one INSERT per call, and the assignment endpoints | creates what posts, lists and the seed refer to |
| Reads (`read/`, `api/read.py`) | none | snapshot, match list, standings | single SELECTs; the match list joins the reference tables with `match_state` |
| Seed (`seed.py`, `docker-entrypoint.sh`) | all reference tables | look up or insert ten entities in one transaction | run by every start of the container, before the server and maybe beside another one |
| Browser extension (`extension/content.js`) | tokens in the browser's storage; per page a panel and one socket | sign in/out, refresh, list, watch, score | HTTP and WebSocket |
| Example clients, configuration, shell | - | - | - |

### What is hard about it

The hazards are listed one by one, each at its line, in `PROJECT.json`. In short:

- the next version is `MAX(version) + 1` of a snapshot, and `match_state` is read,
  changed in Python and written back: only the two `UNIQUE` constraints of
  `match_events` stand between that and a lost update;
- a retry may run while its original is in flight, or after its answer was lost;
- a recompute of the standings is a SELECT, a DELETE and a loop of INSERTs at READ
  COMMITTED, beside other recomputes of the same competition;
- an append is durable before it is published, and the two can be torn apart by a
  lost answer, a crash, or another append that overtakes it;
- a connection joins a replay of the log to a bounded, lossy mailbox;
- a refresh token is read without a lock, exchanged, and revoked along a chain that
  other transactions extend;
- the browser reads tokens from its storage, waits for the server, and writes them
  back, while other tabs and buttons do the same;
- the panel's handlers wait for answers while the user opens another view, and then
  write into elements that may be gone or belong to another game;
- the right to score is checked in one transaction and used in another;
- the seed looks up and inserts in separate statements, in runs that repeat, fail and
  overlap, and only one of its keys, the address of an account, is `UNIQUE`.

## The modules

```
Projections ── ProjectionsProofs
   ├── Counting ── CountingProofs
   ├── EventLog ───────────── LiveFeed ── MCLiveFeed (cfg), LiveFeedProofs
   └── StandingsTable
          └── EventStore (and Counting) ── MCEventStore (cfgs), EventStoreProofs
                    Store == INSTANCE EventLog

RefreshTokens ── MCRefreshTokens (cfgs)
   └── ExtensionSession ── MCExtensionSession (cfg), SessionProofs

ReferenceTables ── Assignment ── Seed (cfgs) ── SeedProofs

ExtensionPanel ── MCExtensionPanel (cfgs), ExtensionPanelProofs
RateLimiter ── MCRateLimiter (cfg), RateLimiterProofs
```

A module extends those above it. The modules of proofs hold no part of the model.

**Projections** is the pure code: `Apply`, `Fold`, `ComputeStandings`. An event is
`[match, version, type, score_home, score_away, key]`; identifiers and timestamps
that no decision reads are left out. The dictionary of `compute_standings` is a
sequence of rows in insertion order, because that is the order of the later INSERTs.
**Counting** says what those operators should return, in terms of the log and of the set
of results alone: a score is the last correction plus the rounds won since, the status
that of the last lifecycle event, and a row of the table is a count over the results of
its team. The properties of the write path are stated with it.

**EventLog** is the promise of the `EventStore` interface as an atomic machine: an
append adds the next version to the log of a match, with the state that follows, at
most once per key. `pending` holds what is durable and not yet returned to the
caller; leaving it is `Publish` (the answer to COMMIT arrived) or `LoseAnswer`.

**EventStore** is `PostgresEventStore.append` and `ScoringService.record` one SQL
statement at a time, for the requests in `Requests`. `pc` follows a request through

| `pc` | the code is |
|---|---|
| `ready` | inside `engine.begin()`, before the INSERT |
| `arbiter`, `index` | in the INSERT: the version is computed; looking for the key (ON CONFLICT); entering the row in the unique indexes |
| `duplicate`, `original` | on the duplicate path: before and after the SELECT by key |
| `inserted`, `applied`, `written` | row inserted; state computed; projection and status written, recomputing if the match was finalised |
| `committed`, `published` | COMMIT took effect; its answer arrived and `publish` ran |
| `created`, `replayed`, `failed` | answered 201, 200, or with an error |

The uncommitted writes of a request are in its own `post`, `ver` and `new_state`
until `Commit` moves them to `history`, `match_state` and `match_status`. The
database is modelled by what it does for these statements: a statement reads what
was committed when it started and what its own transaction wrote; a unique index
entry of an uncommitted row makes another request wait; `ON CONFLICT
(idempotency_key)` covers that constraint only, so the loser of a race for a version
fails; a deadlock aborts one of its transactions; `Rollback` is a connection, task
or process that goes away inside a transaction, `LoseAnswer` one that goes away
between the commit and its answer. **StandingsTable** holds the statements of
`_recompute_standings`; its rows carry the request that wrote them, which is how the
database tells two versions of a row apart. EventStore extends it and gives it the
results each request sees. The field `saw` of a recompute is history: the projections
that were committed when it read the results, so that a recompute can be told from one
that another commit overtook.

**LiveFeed** composes the atomic log with the dispatcher, the connections and the
clients. A step is the code between two awaits: `PublishUpdate` is `publish` for all
mailboxes, `Connect` is `accept` and `subscribe`, `Handshake` reads the log,
`SendReplay`, `ServeLive` and `Pump` are turns of `_replay`, `serve_live` and
`_pump`. A client keeps the version and the state of the last message, may reconnect
with its cursor or from 0, and may adopt a snapshot. `Restart` empties all memory of
the process and keeps the log. Two history variables, `evicted` and `skipped`, record
why a version can be missing: its mailbox was full, or it was published after a later
one or never.

**RefreshTokens** is `RefreshTokenStore`, one transaction per call at READ COMMITTED.
A token is the id of its row. `SelectToken` is the SELECT and the branch it leads to,
`InsertSuccessor` and `ReplaceOld` are the two statements of an exchange,
`SelectChain` and `LockTargets` the two halves of the recursive UPDATE (its snapshot
chooses the rows; it then waits for rows that are locked and skips those revoked
meanwhile), `SelectLogout` the UPDATE of `revoke`. The writes of a call become visible
in `CommitRotation` and `CommitRevocation`. `TakeToken` is the arrival of the answer:
without it the client goes on with the token it had. The history field `parent` is
the token a row was exchanged for; the chain of `replaced_by` is meant to be its
inverse. The role that `AuthService.refresh` reads after the rotation is left out.

**ExtensionSession** is the token handling of `extension/content.js` over that store.
The storage is shared by all tabs; a task is a click that scores, a click on "sign
out", a sign-in or a view, and moves from one `await` to the next. An access token is
named by the refresh token it was issued with. `StoreTokens` writes two keys and
leaves `expires_at` as it is, `Clear` removes all. `NoAnswer` is a request that fails
on the way: every such failure of a refresh signs out, as in the code. Three history
variables say whether something has failed, whether two tasks have overlapped, and
which refresh tokens a sign-in has written over: nothing revokes those.

**ExtensionPanel** is the rest of `extension/content.js`: the list of games, the ticker
and the controls under it. `page` is what the body of the panel shows, and a task is a
handler that waits at an `await`; its stage says which: the stored session (`current`,
`sk`), one of the two requests of a list (`live`, `scheduled`), or the answer to a post,
a sign-in or a sign-out. A task's `live` says whether the element it will write is still
in the page: replacing the body makes it FALSE for every other task. `status` is the
server's; `SessionEnds` is the cap or another page that signs out. Closing the panel
drops what waits, as nothing of it can be seen. A server error of a list request counts
as no answer: it has no JSON body. Two fields are history: `crossed`, that a ticker was
opened while an action on another game was under way, and `moved`, the games whose
status changed between the two requests of a list.

**ReferenceTables** holds the reference data as one set of committed rows
`[table, key, by]`: the key is what the code looks a row up by, and the transaction that
inserted it stands for its id, so that two rows with a name are two rows. `inserted` has
the uncommitted rows of a registration or a seed. A registration is its INSERT, which
waits for an uncommitted row with the address, and its COMMIT. The admin's creation
calls are transactions of one INSERT that nobody can wait for, hence one step.
`ListMatches` is the join of the match list.

**Assignment** adds `match_scorekeepers`: `assign` (a DELETE and an INSERT in one
transaction) and `unassign` one statement at a time, with the waits that
`UNIQUE (match_id)` causes, and a post as `Check` (`require_match_writer`) and
`WriteEvent`. A change of `match_scorekeepers` is in `change` until it commits.

**Seed** composes both with the seed and gives the specification. `Steps` lists the ten
entities in the order of `seed()`; each is a look-up (`Found`, `NotFound`, `Ambiguous`)
and, if there is none, an insert (`InsertEntity`, `UserTaken`) in the run's transaction;
an assignment is one INSERT ... ON CONFLICT DO NOTHING, with the change ids `<<s, 1>>`
and `<<s, 2>>`. `CommitSeed` makes all of it visible, and `EndSeed` forgets the rows a
run found. A run that fails stops the container; the next start is another run.

**RateLimiter** is `allow` and the requests that call it once (register, refresh) or
twice (login: the account only if the address has room). `allow` has no `await`, so a
request is one step. `granted` keeps every attempt that was allowed, to state what the
pruned deque of `hits` should amount to.

### Abstractions

- The upsert of `match_state` and the UPDATE of `matches.status` are one step: they
  are statements of one transaction and nothing reads between them but itself.
- A DELETE of standings takes its row locks at once (all recomputes scan the rows in
  the same order, so they wait for each other but not in a circle).
- The connection that the answer's snapshot takes is not counted in `PoolSize`.
- A cancelled task, a lost connection and a dying process are one action, `Rollback`.
- The row locks of a chain revocation are taken at once. It has no circle to close:
  a rotation holds one row and waits for none while it holds it.
- Refresh tokens live for 14 days and a session of the extension for 5 hours, so
  ExtensionSession lets access tokens and the cap pass, not refresh tokens. Access
  tokens that nobody can send any more do not expire in the model.
- A fresh idempotency key in LiveFeed is any unused one; nothing there looks at it.
- Existing users and matches stay: the application has no way to delete them.
- A creation call of Seed commits in one step; one that fails changes nothing, as if it
  had not been made. `MaxBusy` bounds the transactions that are open at a time and
  `MaxCalls` the requests of an execution.
- The set `Tasks` bounds the handlers of the panel that wait at a time; a click needs a
  free one.
- The mailbox limit 256 and the INT limit are constants, 1 or 2 in the runs.

## The runs

| Run | Config | Instance | What it shows |
|---|---|---|---|
| `append` | `EventStore_append` | 3 requests, 3 matches of one competition, 4 keys, 8 bodies, MaxInt 2, a pool of 3 | all the log, projection, idempotency and answer properties, the inductive invariant of the proofs, and `ImplementsEventLog`; the stored projection is what the log counts (`StateCountsTheLog`); under any interleaving one row per team (`OneRowPerTeam`), a table that is a union of whole tables (`WholeRecompute`), and a finalisation whose rows count the results it read and its own match (`FinaliseCountsOwnMatch`); a finalisation that no commit overtook makes the table current again, whatever it was before (`RefreshesWhenCurrent`) |
| `append_answers` | `EventStore_answers` | 2 requests, 2 matches, a key used on both, 2 finalisations | every request is answered, because the database breaks deadlocks |
| `feed` | `LiveFeed_feed` | 1 viewer of one of 2 matches, 3 events each, 4 keys, mailbox of 1, 2 appends outstanding, lost answers, restarts | versions ascend; every message and screen is true; what is missing was evicted, late or unpublished; the newest version arrives |
| `tokens` | `RefreshTokens_tokens` | 3 calls, 4 tokens, 2 transactions at a time | the chain ascends and ends; an exchanged token stays dead; one usable token per login and a reuse that ends the login, where no two rotations of a token overlapped |
| `session` | `ExtensionSession_session` | 2 clicks, one of them maybe a sign-in, a sign-in or a view, a sign-out, 2 at a time, one failure | tasks one at a time: the stored token is usable, its cap is kept, and a session ends by a sign-out or the cap and then for the server too, unless a second sign-in wrote over it; tasks at the same time: every click is over |
| `panel` | `ExtensionPanel_panel` | 2 games, one of them today's, 2 accounts, 3 handlers waiting at a time | a ticker has the socket of its game or a list is on its way; its controls are those of its game unless an action on another was under way; a list omits only games that moved between its two requests |
| `seed` | `Seed_seed` | 2 seeds, and 2 requests of: 2 registrations, a creation, 2 changes of a scorekeeper, a post; 3 transactions at a time | one account per address, and a refusal only if it is taken; every match listed once; one scorekeeper per match; demo rows once; no half-made demo match; no circle of waits |
| `rate_limit` | `RateLimiter_window` | 2 addresses, 1 account, limit 2, window 2, clock to 4 | no window holds more than the limit, and below the limit nothing is refused |
| `lost_result` | `EventStore_lost_result` | 3 requests that finalise the 3 matches | **violated**: a concurrent finalisation is missing from the table |
| `single_use` | `RefreshTokens_single_use` | 2 calls, 3 tokens | **violated**: a token is exchanged twice |
| `write_access` | `Seed_write_access` | 1 seed, a change of a scorekeeper, a post | **violated**: an event by someone who is no scorekeeper any more |
| `panel_controls` | `ExtensionPanel_controls` | 2 handlers waiting at a time | **violated**: the controls of one game under the ticker of another |

Bounds. Three requests are the smallest number in which a retry, its original and a
third append race for one version, and in which a circle of waits can close over a
third party. Three matches of one competition give a table with a common team, with
disjoint ones, and with the teams the other way round. The eight bodies of `append` are
the three finalisations, two rounds of the first match, a start, a round of the second
match and a correction of it: a match can be scored before and after its end, started
again when it is final, and its final score corrected, which are the ways to make a table
stale; a key is posted with two bodies, and keys of one match on another; the correction
to the limit and a round after it leave the range of the columns. `append_answers` has
only the posts that a circle of waits needs, as liveness is checked without symmetry.
Three events
through a mailbox of one contain an eviction before, at and after the seam between
replay and live updates; two outstanding appends are what it takes for one to overtake
the other; the second match shows that its events do not reach the viewer. Three calls
contain a chain of two exchanges and the reuse of its first token, and a reuse beside
the second exchange; four tokens are two exchanges of one token that overlap, and
an exchange of a successor. Two clicks are a refresh and a second one that
depends on what the first stored; with a second sign-in instead of a click there is a
session that is written over. A bound of one failure in `ExtensionSession` puts it
at any request or transaction of them. Two seeds are what
it takes to overlap, to repeat, and to fail and repeat; with two requests beside them
there are a registration of the demo address before or during a seed, a second row of a
demo name, two changes that race with the seed's own assignment for a match, and a post
whose scorekeeper is replaced; three transactions at a time let a circle of waits close
over a third. Two games and three handlers of the panel give an answer for one game under
the ticker of another while a list is on its way. The clock of RateLimiter passes two
windows. Symmetry is used for requests, calls, addresses and handlers in runs that check
no liveness. The violated runs are the smallest instances with the actors of their
scenario; each checks what a document promises, and the passing runs of the same module
check what remains true.

### Findings

- `lost_result`. `r2` reads the finalised matches before `r1` commits; `r1` commits
  its match and its rows; the DELETE of `r2` starts after that, sees those rows and
  removes them; `r2` inserts a table without the match of `r1`. The recompute stays
  wrong until a later finalisation. If the DELETE starts before `r1` commits, the
  rows of `r1` survive and an INSERT for a common team fails instead, so the second
  finalisation is answered with an error and leaves nothing behind.
- `panel_controls`. `renderScorekeeper` takes the `[data-sk]` that is in the page when
  it is called, of whichever ticker that is, and its check for "view was replaced" only
  notices that there is none. A post, sign-in or sign-out begun under the ticker of one
  game and answered after the user has opened another's puts the first game's controls
  under the second's score, and their clicks score the first game. `crossed` says that
  this was under way; without it the controls always match (`ControlsMatchAlone`).
- `single_use`. ADR-0007 calls the refresh token single-use. `rotate` selects the row
  without a lock and updates it by id: two rotations of a token can select it before
  either commits; the second UPDATE waits for the first and then overwrites
  `replaced_by`. Both callers get a working token, and the first one is on no chain that
  a later reuse would revoke. Without such an overlap a login has one usable token
  (`OneUsablePerLogin`).
- `write_access`. ADR-0008 says that unassigning takes effect at once. The check and the
  append are two transactions, and an unassign that commits in between does not stop the
  append, which is written by someone who is no scorekeeper any more.

Observations that follow from the models and that no run asserts; where a property names
one as its exception, it states what remains true:

- `data-model.md` gives the statuses an order; neither `apply` nor `append` looks at the
  status. A match is finalised without a start, and `match_started` after
  `match_finalised` makes a final match `in_progress` again. The second leaves the
  standings as they were, as does a score correction after the end; both are repaired by
  the next finalisation in the competition that no other commit overtakes
  (`RefreshesWhenCurrent`).
- NFR-7 has the viewer detect a dropped delivery by a gap in the versions. An answer to
  COMMIT that is lost skips `publish`, and the retry finds the key and returns without
  publishing; after the last event of a match there is no later version to show a gap.
  The state that is shown stays a true one, and any later event or replay delivers the
  version. `GapExplained` and `CatchesUp` name these cases through `skipped`.
- ADR-0007 has a reuse revoke the whole chain. The snapshot of the UPDATE chooses the
  rows; a rotation of the last one that commits after it adds a token which is not
  chosen, also if each token was exchanged once. What the snapshot saw is revoked
  (`ReuseEndsLogin`).
- `seed.py` calls itself safe to run any number of times. A second competition, team or
  match that the admin gives a name (or teams) the seed looks up makes every later seed
  raise `MultipleResultsFound`, and the entrypoint stops on it (`set -e`). The seed's own
  rows stay single (`DemoOnce`).
- The README of the repository says that signing out ends a session immediately. A click
  may be refreshing when `signOut` clears the storage; the answer to the refresh then
  stores its two tokens, without `expires_at`. The session is back, and `current` and
  `refresh` take the missing key for "no cap". `StoredTokenUsable` demands the cap where
  tasks ran one at a time.
- For ADR-0007 a replaced token that is presented is a theft. Two clicks whose access
  token has expired refresh with the same token; if the second runs after the first has
  committed, it is a reuse, and the user is signed out. Hence the condition on overlapping
  tasks in `KeptUntilCap`; that both clicks are over is `EveryClickEnds`.
- The panel lists the games in progress. A game that starts between the requests for the
  live and for the scheduled games is in neither answer. A list omits nothing else
  (`ListOmitsOnlyMoved`).
- Two finalisations of different teams that overlap delete none of each other's rows, so
  the table is then a union of two tables; that each of them is whole is
  `WholeRecompute`, and that a result can get lost is `lost_result`.
- `publish` runs when the answer to COMMIT is handled. If the answers of two appends
  of a match were handled in the other order, the pump would skip the lower version as
  already sent, and a full mailbox could drop the *newest*.
- A key that was first used on another match is answered 200 with the event of that
  match and the state of this one (`ReplyCoversEvent` excludes it).
- Any refresh of the extension that fails, by a lost answer for example, signs out.
- A sign-in over an existing session, from the form of another tab for example, leaves
  the tokens of the old one usable; `SignedOutIsRevoked` excepts them (`left`).
- Of two assignments of a match without a scorekeeper, or of an assignment and the
  seed, the loser violates `UNIQUE (match_id)` and is answered that the user does not
  exist.
- If the demo address was registered by a user, no `UNIQUE` key holds two overlapping
  seeds apart any more, and they insert the demo rows twice, so that later
  seeds raise; hence the first disjunct of `DemoOnce`. A demo scorekeeper that the admin
  unassigned is assigned again at the next start.
- In the extension, a list that was asked for before a ticker was opened cannot replace
  it afterwards, but one whose session look-up is still pending can; the ticker's socket
  then stays open until the next view (`SocketOfTicker` speaks of tickers). A socket
  that breaks is not opened again. Accounts other than the demo see no scheduled game
  without a date of today. A sign-in form is overwritten by the answer of a list. Every
  click has a key of its own, so a repeated click is a second event.
- ADR-0008 says that a role alone is never sufficient to write; the code and the API
  contract let admins write.
- A login that is refused for its account has used a slot of its address, and the
  limiter never drops a key.

### Fairness

`FairSpec` of EventStore assumes that the event loop resumes a request whose
statement has finished and that the database runs a statement which is not blocked
and aborts one transaction of a deadlock (`deadlock_timeout`). That no failure
happens is not assumed; nor that clients post. `FairSpec` of LiveFeed assumes that a
COMMIT is answered or given up, and that replay, pump and socket move on while they
have work. Nobody has to score or to connect. `FairSpec` of ExtensionSession assumes that a
task goes on when its `await` is over and that the server runs what is not blocked;
not that a request arrives. `FairSpec` of Seed assumes that the database runs a
statement that is not blocked and that the seed goes on with the next one; a request's
id is used once, so that `AllEnd` says of every transaction that it ends.

## The proofs

Each module of proofs proves for every value of the constants, and for behaviours of
any length, what the runs check on small instances. The assumptions are stated with the
constants, and TLC evaluates them in every run:

| Assumption | Says | Because |
|---|---|---|
| `PostsAssumption`, `PayloadAssumption` | bodies are well formed, only corrections carry scores | `PostEventRequest` and `_check_correction_payload` |
| `FixtureAssumption` | there are finitely many matches, of two different teams each | a table; `CHECK (home_team_id <> away_team_id)` |
| `IntAssumption`, `ScoresAssumption` | `MaxInt` is a natural number, scores are integers | the INT columns |
| `FeedAssumption` | a viewer watches a match, the mailbox has room for one update, the bounds are numbers | `match_feed`'s path parameter, `maxsize=256` |
| `TokensAssumption` | the bounds are numbers | |
| `SessionAssumption` | a task has one refresh and one logout | `score()` and `signOut()` |
| `LimiterAssumption` | addresses are no accounts; limit and window are positive | the two prefixes of the keys, the settings |
| `TablesAssumption`, `AssignmentAssumption` | requests, seeds and posts have different names | each is a transaction of its own |
| `PanelAssumption` | today's games are games, `Nothing` is neither a game nor an account | |

No assumption bounds the number of requests, matches, keys, teams, viewers, tokens,
tasks, games, accounts or runs, the length of a log or of a table, or how many
transactions are open.

### What is proved

| Module | Theorems (property) |
|---|---|
| `ProjectionsProofs` | `StandingsCount`, and that a fold over a longer log goes on where the shorter one ended |
| `CountingProofs` | `FoldCounts`, `TableCounts`, `OrderIsIrrelevant`: what `Fold` and `ComputeStandings` return is what Counting says, for every log and every list of results |
| `EventStoreProofs` | `TypeCorrect` (`TypeOK`), `ContiguousLog` (`LogContiguous`), `NoLostUpdate` (`StatesChain`), `ExactlyOnce` (`ExactlyOncePerKey`), `StatusMirrored` (`StatusMirrorsState`), `ReplyConsistent` (`ReplyCoversEvent`), `DuplicateFound`, `Rebuildable`, `StateCounts` (`StateCountsTheLog`), `Refinement` (`ImplementsEventLog`), `TeamsOnce` (`OneRowPerTeam`), `TablesWhole` (`WholeRecompute`), `OwnMatchCounted` (`FinaliseCountsOwnMatch`), `RepairedWhenCurrent` (`RefreshesWhenCurrent`), from `StoreInvariant` and `StandingsInvariant` |
| `LiveFeedProofs` | `FeedTypeCorrect` (`TypeOK`), `InOrder` (`FeedInOrder`), `NoUnexplainedGap` (`GapExplained`), `Truthful` (`FeedTruthful`), from `FeedInvariant` |
| `SessionProofs`, tokens | `ChainEnds` (`ChainAscends`), `ExchangedStaysDead` (`ExchangedIsDead`), `OneUsable` (`OneUsablePerLogin`), `ReuseEnds` (`ReuseEndsLogin`), from `TokensInvariant` |
| `SessionProofs`, session | `SessionUsesStore` (every behaviour of the session is one of RefreshTokens), `StoredUsable` (`StoredTokenUsable`), `SignedOutRevoked` (`SignedOutIsRevoked`), `SessionKept` (`KeptUntilCap`), from `SessionInvariant` |
| `ExtensionPanelProofs` | `TickerFed` (`SocketOfTicker`), `ControlsFit` (`ControlsMatchAlone`), `ListComplete` (`ListOmitsOnlyMoved`), from `PanelInvariant` |
| `SeedProofs` | `AccountsUnique` (`OneAccount`), `ListedOnce` (`EveryMatchListed`), `ScorekeeperUnique` (`OneScorekeeper`), `SeededOnce` (`DemoOnce`), `SeededWhole` (`DemoMatchReady`), from `ReferenceInvariant` |
| `RateLimiterProofs` | `WithinTheLimit` (`WindowLimit`), from `LimiterInvariant` |

### How

**The pure code** (`FoldInv`). `fold()` goes on where the fold of the shorter log ended
(`FoldAppend`), so an event at a time: the position of the last correction and that of
the last lifecycle event are witnesses of the invariant, and the counts behind the
former grow by the new event alone. The loop of `compute_standings` writes, for each
result, the two rows that count it (`AddResultCounts`), so that a row counts the results
of its team in any list (`StandingsCount`) and of any set in whatever order (`TableCounts`).

**The write path** (`StoreInv`). `LogContiguous` alone is not inductive: nothing in it
says that the row a request is about to commit has the next version. `VersionsAhead`
does: a version computed from an older snapshot may be stale but is never more than one
above the log, and a row that is in the index has exactly the next one. Hence two
uncommitted rows of a match would have the same version, which
`UNIQUE (match_id, version)` excludes (`HoldersApart`): at most one request per match
is between its INSERT and its COMMIT. So what it read of `match_state` is still
there when it commits (`NewStateCurrent`), and the read-modify-write in Python is
atomic although nothing in the code locks the row. `CommittedInLog` and
`OriginalSelected` tie the requests that are past their commit to the log, for the
answers. That each state follows from the one before it is also why the stored
projection is the fold of the log (`Rebuildable`), and so what the log counts
(`StateCounts`). The refinement maps `pending` to the
updates of requests in `committed`; `Commit` is `AppendEvent`, `Publish` and
`LoseAnswer` are themselves, every other step stutters.

**The points table** (`StandingsInv`, on top of `StoreInv`). `OneRowPerTeam` depends on
what open recomputes have inserted and will: its rows are of its competition and of
different teams (`RowsOK`), no other open recompute has inserted a row with their keys
and no committed row that survives its DELETE has one (`KeysOK`), because the primary
key makes the second one wait or fail. `WholeRecompute` depends on what a DELETE
takes: the rows of a recompute that committed, all of them or none (`DoomedOK`), so that
of what a recompute inserted all or nothing is left (`AllOrNone`).
`ComputesOK` says what is written: the rows inserted and still to insert are
the table counted from the results that the recompute read, which contain its own match at
the score it stores. When it commits, the rows of that request are those it inserted,
since before its commit no committed row is its own; and `compute_standings` returns the
counted table whatever the order in which the results were read (`TableIsCounted`). Hence `FinaliseCountsOwnMatch`.
`CurrentOK` says that rows which its DELETE did not take were committed after it read,
by an append that it therefore did not see; so a recompute that saw the current
projections replaces the whole table (`RefreshesWhenCurrent`).

**The live feed** (`FeedInv`). The log of a match has the versions 1, 2, 3, ..., each
state following from the last (`LogInv`), so the fold of the replay and the state that
was written through are the same. Of a mailbox nothing can be said about its order;
but an update in it that is older than one before it has been marked as late, and so
has an outstanding one that is older than one in a mailbox (`MailboxInv`). The socket
ascends from the cursor to the watermark (`SocketInv`) and the replay goes on from
there without a gap (`BacklogInv`): this is the seam, and it holds because the
subscription precedes the read of the log. Coverage (`CoverInv`) follows each version
from the log through outstanding, mailbox and socket, or to `evicted` or `skipped`.

**The refresh tokens** (`TokensInv`). `replaced_by` and `parent` are inverse to each
other except where a second rotation overwrote the first; a successor is later than its
token and is that of one rotation (`RowInv`, `CallInv`). For the login of a token there is no
induction over its rows; instead the lineage of a token is the least set that leads to
the login, and a token outside it, taken earliest, would contradict `ExchangedOnce`. A
reuse follows the chain for at most `MaxTokens` steps and so arrives at the one live
token, unless a rotation committed since the revocation's snapshot.

**The session** (`SessionInv`, on top of `TokensInv`). Every step of a task is one of the
token store or leaves it alone: a task only presents a token that the browser was given
(`SessionTypes`, `TaskInv`). So `TokensInv` and its theorems hold here, too. As long as no tasks
have overlapped, the stored token is one that works and that no call has been given
(`Spare`), until the one task that runs presents it; hence it is never a reuse, and a
token that the client was not given yet is untouched. A logout ends with its token
revoked or fails (`RequestInv`), and without a failure a task gets to the removal of
the tokens only from a sign-out or past the cap (`AloneTask`).

**The panel** (`PanelInv`). A handler that may still write belongs to the kind of view
that is shown, since replacing the body disables all others; under a ticker, what will
write controls is for its game unless something was crossed; a handler that has asked
for the live games knows each game that became live since (`HandlerInv`,
`ControlsInv`).

**The reference data** (`ReferenceInv`). Rows of open transactions carry their
transaction; the users are unique over committed and uncommitted rows together, which
is what `UNIQUE (email)` gives (`UserInv`), and each open insert of a scorekeeper is the
only one for its match and deletes all rows that the match has (`KeeperInv`). For
`DemoOnce` the runs are in one of three situations (`OnceInv`): a user has the demo
address; or no demo account is committed, and only the run that holds its unique entry
can be past its first step (`Pending`); or a run has committed, and every run since
finds its ten rows and inserts none (`Settled`).

**The limiter** (`LimiterInv`). The deque is the end of the attempts that were granted,
and those it has dropped are a window old; so attempts that are the limit apart are a
window apart.

Induction over data is done without an induction rule that takes a predicate: by a least
element, or a least counterexample, of a set of numbers or rows.

### Only model-checked

- Liveness: `EveryPostAnswered`, `CatchesUp`, `EveryClickEnds`, `AllEnd`. TLAPS has no
  rules for `ENABLED` and fairness here.
- The four violated properties, which do not hold. What the passing runs say of the same
  behaviour, under the condition that excludes the finding, is proved.

## The plan

Done: all components but those under "Not modelled", and the proofs above.

All invariants and action properties of the passing runs are proved. Next: lemmas that
would let more of the liveness arguments be stated as safety (a circle of waits needs two
requests that hold each other's keys); the order in which a client that stays connected sees its own
evictions.

## Not modelled

- Password hashing and token signatures: library calls that the other parts use as they
  are. The role that `AuthService.refresh` reads after a rotation.
- The read handlers of one SELECT: they change nothing, and what they show is what the
  other modules say of the tables.
- The CHECK constraints that repeat what the request validators have seen to, and the
  indexes: no reachable statement of the application meets them.
- Configuration (settings read once; the size of the pool is `PoolSize`) and the
  application shell (routers, middleware, error answers): no state of their own.
- Wording and layout of the extension, and the script `simulate.py`, a sequence of
  posts.
