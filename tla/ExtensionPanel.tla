--------------------------- MODULE ExtensionPanel ---------------------------
(***************************************************************************)
(* The panel of the browser extension (extension/content.js): the list of  *)
(* games, the ticker of one game, and the scorekeeper's controls under it. *)
(*                                                                         *)
(* JavaScript runs one piece of a handler at a time, but each await lets   *)
(* clicks and other handlers in between.  A handler that goes on after an  *)
(* await writes into the element it took hold of before; when the body was *)
(* replaced meanwhile, that element is no longer in the page ("live").     *)
(***************************************************************************)
EXTENDS Integers, FiniteSets, TLC

CONSTANTS Games,
          Today,    \* games scheduled for today
          Demo,     \* the demo account
          Accounts, \* accounts the user may sign in with
          Nothing,
          Tasks     \* handlers that wait at an await, at most

ASSUME PanelAssumption == Today \subseteq Games /\ Demo \in Accounts /\ Nothing \notin Games \cup Accounts

VARIABLES page,    \* what .dbp-body shows
          socket,  \* the game of the open WebSocket, or Nothing
          session, \* the account in the storage, or Nothing
          status,  \* per game, matches.status on the server
          task,    \* the waiting handlers
          crossed  \* a ticker was opened while an action of another game's was under way

vars == <<page, socket, session, status, task, crossed>>

Idle == [stage |-> "idle", game |-> Nothing, live |-> FALSE,
         session |-> Nothing, games |-> {}, moved |-> {}]

At(t, stage) == task[t].stage = stage

\* A handler starts to wait; those that write when they go on have hold of
\* elements that are in the page.
Waits(stage, game) ==
    [Idle EXCEPT !.stage = stage, !.game = game, !.live = stage \in {"live", "sk"}]

\* body.innerHTML = ...: what other handlers hold is no longer in the page.
Detached == [t \in Tasks |-> [task[t] EXCEPT !.live = FALSE]]

Init ==
    /\ page = [view |-> "empty"]
    /\ socket = Nothing
    /\ session = Nothing
    /\ status \in [Games -> {"scheduled", "in_progress"}]
    /\ \E t \in Tasks : task = [u \in Tasks |-> IF u = t THEN Waits("current", Nothing) ELSE Idle]
    /\ crossed = FALSE

ListShows(list) == page.view = "games" /\ page.list = list
Sk(content) == page.view = "ticker" /\ page.sk = content

-----------------------------------------------------------------------------
(* showGames().                                                            *)

\* closeSocket(), then auth.current().
ShowGames(t) ==
    /\ socket' = Nothing
    /\ task' = [task EXCEPT ![t] = Waits("current", Nothing)]
    /\ UNCHANGED <<page, crossed>>

ReplaceByList(t) ==
    /\ At(t, "current")
    /\ page' = [view |-> "games", who |-> session, list |-> "loading", games |-> {}]
    /\ task' = [Detached EXCEPT ![t] = [Waits("live", Nothing) EXCEPT !.session = session]]
    /\ UNCHANGED <<socket, session, status, crossed>>

\* The list is written, if it is still the one in the page.
ListBecomes(t, list, games) ==
    /\ page' = IF task[t].live THEN [page EXCEPT !.list = list, !.games = games] ELSE page
    /\ task' = [task EXCEPT ![t] = Idle]
    /\ UNCHANGED <<socket, session, status, crossed>>

Live == {g \in Games : status[g] = "in_progress"}

\* fetchMatches("in_progress"); without a session that is all.
FetchLive(t) ==
    /\ At(t, "live")
    /\ IF task[t].session = Nothing
       THEN ListBecomes(t, "shown", Live)
       ELSE /\ task' = [task EXCEPT ![t].stage = "scheduled", ![t].games = Live]
            /\ UNCHANGED <<page, socket, session, status, crossed>>

\* The games that fetchMatches("scheduled", date) returns to the account.
Scheduled(account) ==
    {g \in Games : status[g] = "scheduled" /\ (account = Demo \/ g \in Today)}

\* Mutant of Concatenated: the second answer replaces the first.
SecondOnly(t) == Scheduled(task[t].session)

Concatenated(t) == task[t].games \cup Scheduled(task[t].session)

FetchScheduled(t) == At(t, "scheduled") /\ ListBecomes(t, "shown", Concatenated(t))

FetchFails(t) ==
    /\ At(t, "live") \/ At(t, "scheduled")
    /\ ListBecomes(t, "error", {})

-----------------------------------------------------------------------------
(* showTicker() and renderScorekeeper().                                   *)

\* Mutant of Connected: a socket that is open already is kept.
ConnectOnce(game) == IF socket = Nothing THEN game ELSE socket

\* connect(): closeSocket() and a new WebSocket.
Connected(game) == game

\* Stages of what the user does to a game: a post, a sign-out or a sign-in.
Acting == {"scoring", "signing_out", "signing_in"}

ShowTicker(t, game) ==
    /\ page' = [view |-> "ticker", game |-> game, sk |-> "empty", of |-> Nothing]
    /\ socket' = Connected(game)
    /\ task' = [Detached EXCEPT ![t] = Waits("sk", game)]
    /\ crossed' = (crossed \/ \E u \in Tasks :
                      task[u].stage \in Acting /\ task[u].game \notin {game, Nothing})
    /\ UNCHANGED <<session, status>>

\* It takes hold of the [data-sk] that is in the page, or returns.
RenderScorekeeper(t, game) ==
    /\ task' = [task EXCEPT ![t] = IF page.view = "ticker" THEN Waits("sk", game) ELSE Idle]
    /\ UNCHANGED <<page, socket, crossed>>

\* Mutant of Reaches: [data-sk] is looked up after the await.
InAnyTicker(t) == page.view = "ticker"

\* The element that the handler writes is in the page.
Reaches(t) == task[t].live

\* After auth.current(): the controls of the game, or the link to sign in.
WriteScorekeeper(t) ==
    /\ At(t, "sk")
    /\ page' = IF Reaches(t)
               THEN [page EXCEPT !.sk = IF session = Nothing THEN "signin" ELSE "controls",
                                 !.of = task[t].game]
               ELSE page
    /\ task' = [task EXCEPT ![t] = Idle]
    /\ UNCHANGED <<socket, session, status, crossed>>

\* What a sign-in, a sign-out or a cancel goes on with: the list, or a game.
OnDone(t, game) == IF game = Nothing THEN ShowGames(t) ELSE RenderScorekeeper(t, game)

-----------------------------------------------------------------------------
(* Answers to what the user did.                                           *)

\* A game changes on the server, maybe between the two requests for a list.
Moves(game, new, tasks) ==
    /\ status' = [status EXCEPT ![game] = new]
    /\ task' = [t \in Tasks |->
           IF tasks[t].stage = "scheduled" /\ new # status[game]
           THEN [tasks[t] EXCEPT !.moved = @ \cup {game}] ELSE tasks[t]]
    /\ UNCHANGED <<page, socket, session, crossed>>

\* Another scorekeeper's event.
MatchMoves(game) ==
    \/ status[game] = "scheduled" /\ Moves(game, "in_progress", task)
    \/ status[game] = "in_progress" /\ Moves(game, "final", task)

\* The event is published: started, finalised, or neither.
Scored(t) ==
    /\ At(t, "scoring")
    /\ \E new \in {"in_progress", "final", status[task[t].game]} :
         Moves(task[t].game, new, [task EXCEPT ![t] = Idle])

\* 401, and no tokens to refresh: the session is gone.
ScoreSignedOut(t) ==
    /\ At(t, "scoring")
    /\ session' = Nothing
    /\ RenderScorekeeper(t, task[t].game)
    /\ UNCHANGED status

SignedOut(t) ==
    /\ At(t, "signing_out")
    /\ session' = Nothing
    /\ OnDone(t, task[t].game)
    /\ UNCHANGED status

SignedIn(t) ==
    /\ At(t, "signing_in")
    /\ session' \in Accounts
    /\ OnDone(t, task[t].game)
    /\ UNCHANGED status

\* Forbidden, an error, or a wrong password: a message in the handler's element.
Refused(t) ==
    /\ At(t, "scoring") \/ At(t, "signing_in")
    /\ task' = [task EXCEPT ![t] = Idle]
    /\ UNCHANGED <<page, socket, session, status, crossed>>

\* The cap of the session passes, or another page signs out.
SessionEnds ==
    /\ session' = Nothing
    /\ UNCHANGED <<page, socket, status, task, crossed>>

Answer(t) ==
    \/ ReplaceByList(t) \/ FetchLive(t) \/ FetchScheduled(t) \/ FetchFails(t)
    \/ WriteScorekeeper(t)
    \/ Scored(t) \/ ScoreSignedOut(t) \/ SignedOut(t) \/ SignedIn(t) \/ Refused(t)

-----------------------------------------------------------------------------
(* Clicks on what the page shows.                                          *)

Starts(t, stage, game) ==
    /\ task' = [task EXCEPT ![t] = Waits(stage, game)]
    /\ UNCHANGED <<page, socket, session, status, crossed>>

Shows(field, content) ==
    /\ page' = [page EXCEPT ![field] = content]
    /\ UNCHANGED <<socket, session, status, task, crossed>>

ClickInList(t) ==
    \/ /\ ListShows("shown") \/ ListShows("error") \/ ListShows("login") \* Refresh, Retry, cancel
       /\ ShowGames(t)
       /\ UNCHANGED <<session, status>>
    \/ \E game \in page.games : ListShows("shown") /\ ShowTicker(t, game)
    \/ page.who = Nothing /\ Shows("list", "login")
    \/ page.who # Nothing /\ Starts(t, "signing_out", Nothing)
    \/ ListShows("login") /\ Starts(t, "signing_in", Nothing)

ClickInTicker(t) ==
    \/ ShowGames(t) /\ UNCHANGED <<session, status>> \* back
    \/ Sk("signin") /\ Shows("sk", "login")
    \/ Sk("login") /\ Starts(t, "signing_in", page.of)
    \/ Sk("login") /\ RenderScorekeeper(t, page.of) /\ UNCHANGED <<session, status>> \* cancel
    \/ Sk("controls") /\ \E stage \in {"scoring", "signing_out"} : Starts(t, stage, page.of)

Click(t) ==
    /\ At(t, "idle")
    /\ \/ page.view = "games" /\ ClickInList(t)
       \/ page.view = "ticker" /\ ClickInTicker(t)

\* The panel is removed; what waits can show nothing any more.
Close ==
    /\ page.view # "closed"
    /\ page' = [view |-> "closed"]
    /\ socket' = Nothing
    /\ task' = [t \in Tasks |-> Idle]
    /\ UNCHANGED <<session, status, crossed>>

Next ==
    \/ \E t \in Tasks : Answer(t) \/ Click(t)
    \/ \E game \in Games : MatchMoves(game)
    \/ SessionEnds
    \/ Close

Spec == Init /\ [][Next]_vars

-----------------------------------------------------------------------------
(* Properties.                                                             *)

\* A ticker in the page is fed by the socket of its game, unless the list is on
\* its way; no socket outlives the panel.
SocketOfTicker ==
    /\ page.view = "ticker" => socket = page.game \/ \E t \in Tasks : At(t, "current")
    /\ page.view = "closed" => socket = Nothing

\* "live ticker for one game (+ scorekeeper controls)": the controls under a
\* ticker score its game.
ControlsMatchTicker == page.view = "ticker" /\ page.sk # "empty" => page.of = page.game

\* They do, however clicks, lists and renderings overlap, unless a post, sign-in
\* or sign-out of one game was still under way when another's ticker was opened.
ControlsMatchAlone == crossed \/ ControlsMatchTicker

\* The games that an account has in its list.
Offered(account) == Live \cup IF account = Nothing THEN {} ELSE Scheduled(account)

\* A list that comes up leaves out games that moved between its two
\* requests: in neither answer, as each was asked for the other status.
ListOmitsOnlyMoved ==
    [][\A t \in Tasks :
         /\ task[t].stage \in {"live", "scheduled"} /\ task[t].live
         /\ page'.view = "games" /\ page.list # "shown" /\ page'.list = "shown"
         /\ task'[t].stage = "idle"
         => \A game \in Offered(task[t].session) \ page'.games : game \in task[t].moved]_vars
=============================================================================
