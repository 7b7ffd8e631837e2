------------------------- MODULE ExtensionPanelProofs -------------------------
(***************************************************************************)
(* Proofs about the panel of the browser extension, for any games,         *)
(* accounts and number of handlers that wait: what the page shows fits     *)
(* together, however clicks and answers interleave.                        *)
(***************************************************************************)
EXTENDS ExtensionPanel, TLAPS

-----------------------------------------------------------------------------
(* The inductive invariant.                                                *)

BarePage == [view : {"empty", "closed"}]
ListPage == [view : {"games"}, who : Accounts \cup {Nothing},
             list : {"loading", "shown", "error", "login"}, games : SUBSET Games]
TickerPage == [view : {"ticker"}, game : Games, sk : {"empty", "signin", "login", "controls"},
               of : Games \cup {Nothing}]

Stages == {"idle", "current", "live", "scheduled", "sk"} \cup Acting

Handlers == [stage : Stages, game : Games \cup {Nothing}, live : BOOLEAN,
             session : Accounts \cup {Nothing}, games : SUBSET Games, moved : SUBSET Games]

PanelTypes ==
    /\ page \in BarePage \cup ListPage \cup TickerPage
    /\ session \in Accounts \cup {Nothing}
    /\ status \in [Games -> {"scheduled", "in_progress", "final"}]
    /\ task \in [Tasks -> Handlers]
    /\ crossed \in BOOLEAN

\* A handler that can still write writes into the kind of page that it is for, one that
\* renders controls or posts is for a game, and one that has asked for the live games
\* knows of those that came later.
HandlerInv(t) ==
    /\ task[t].live => \/ task[t].stage \in {"live", "scheduled"} /\ page.view = "games"
                       \/ At(t, "sk") /\ page.view = "ticker"
    /\ task[t].stage \in {"sk", "scoring"} => task[t].game \in Games
    /\ page.view = "closed" => At(t, "idle")
    /\ At(t, "scheduled") => Live \subseteq task[t].games \cup task[t].moved

\* The handlers that will write the controls of a ticker, now or after an answer.
Renders(t) ==
    \/ At(t, "sk") /\ task[t].live
    \/ task[t].stage \in Acting /\ task[t].game # Nothing

ControlsInv ==
    page.view = "ticker" =>
        /\ page.sk # "empty" => page.of \in Games
        /\ ~ crossed => /\ page.sk # "empty" => page.of = page.game
                        /\ \A t \in Tasks : Renders(t) => task[t].game = page.game

PanelInv ==
    /\ PanelTypes
    /\ \A t \in Tasks : HandlerInv(t)
    /\ ControlsInv
    /\ SocketOfTicker

-----------------------------------------------------------------------------
(* Steps.                                                                  *)

\* What a page is, by what it shows.
LEMMA PageKinds ==
  ASSUME PanelTypes
  PROVE  /\ page.view \in {"empty", "closed", "games", "ticker"}
         /\ page.view = "games" => page \in ListPage
         /\ page.view = "ticker" => page \in TickerPage
BY DEF PanelTypes, BarePage, ListPage, TickerPage

\* The records that handlers are made from.
LEMMA HandlerTypes ==
  /\ Idle \in Handlers /\ Idle.stage = "idle" /\ ~ Idle.live
  /\ \A stage \in Stages, game \in Games \cup {Nothing} :
       /\ Waits(stage, game) \in Handlers
       /\ Waits(stage, game).stage = stage /\ Waits(stage, game).game = game
       /\ stage \notin {"live", "sk"} => ~ Waits(stage, game).live
<1>1. Idle \in Handlers /\ Idle.stage = "idle" /\ ~ Idle.live
  BY DEF Idle, Handlers, Stages
<1>2. ASSUME NEW stage \in Stages, NEW game \in Games \cup {Nothing}
      PROVE  /\ Waits(stage, game) \in Handlers
             /\ Waits(stage, game).stage = stage /\ Waits(stage, game).game = game
             /\ stage \notin {"live", "sk"} => ~ Waits(stage, game).live
  <2>1. ASSUME NEW holds \in BOOLEAN
        PROVE  LET r == [Idle EXCEPT !.stage = stage, !.game = game, !.live = holds]
               IN  r \in Handlers /\ r.stage = stage /\ r.game = game /\ (~ holds => ~ r.live)
    BY DEF Idle, Handlers
  <2>2. (stage \in {"live", "sk"}) \in BOOLEAN
    OBVIOUS
  <2> QED
    BY <2>1, <2>2, Zenon DEF Waits
<1> QED
  BY <1>1, <1>2

\* What follows from an open ticker when one handler goes on and the page stays.
LEMMA OneHandler ==
  ASSUME PanelInv, NEW t \in Tasks, NEW r \in Handlers,
         task' = [task EXCEPT ![t] = r],
         UNCHANGED <<page, status, crossed>>, session' \in Accounts \cup {Nothing},
         \/ socket' = socket /\ ~ At(t, "current")
         \/ socket' = Nothing /\ r.stage = "current",
         r.live => \/ r.stage \in {"live", "scheduled"} /\ page.view = "games"
                   \/ r.stage = "sk" /\ page.view = "ticker",
         r.stage \in {"sk", "scoring"} => r.game \in Games,
         page.view = "closed" => r.stage = "idle",
         r.stage = "scheduled" => Live \subseteq r.games \cup r.moved,
         ~ crossed /\ page.view = "ticker"
           /\ (r.stage = "sk" \/ (r.stage \in Acting /\ r.game # Nothing)) => r.game = page.game
  PROVE  PanelInv'
<1>1. /\ task'[t] = r /\ \A u \in Tasks \ {t} : task'[u] = task[u]
  BY DEF PanelInv, PanelTypes
<1>2. PanelTypes'
  BY DEF PanelInv, PanelTypes
<1>3. \A u \in Tasks : HandlerInv(u)'
  BY <1>1 DEF PanelInv, HandlerInv, At, Live
<1>4. ControlsInv'
  BY <1>1 DEF PanelInv, ControlsInv, Renders, At, Acting
<1>5. SocketOfTicker'
  BY <1>1 DEF PanelInv, SocketOfTicker, At, HandlerInv
<1> QED
  BY <1>2, <1>3, <1>4, <1>5 DEF PanelInv

\* The page is written, not replaced, and a handler that has written is done.
LEMMA PageWritten ==
  ASSUME PanelInv, UNCHANGED <<session, status, socket, crossed>>,
         \/ task' = task
         \/ \E t \in Tasks : ~ At(t, "current") /\ task' = [task EXCEPT ![t] = Idle],
         \/ page' = page
         \/ page \in ListPage /\ page' \in ListPage
         \/ /\ page \in TickerPage /\ page' \in TickerPage /\ page'.game = page.game
            /\ page'.of \in Games
            /\ ~ crossed => page'.of = page.game
  PROVE  PanelInv'
<1>1. \A u \in Tasks : \/ task'[u] = task[u]
                       \/ task'[u] = Idle /\ ~ At(u, "current")
  BY DEF PanelInv, PanelTypes
<1>2. task' \in [Tasks -> Handlers]
  BY HandlerTypes DEF PanelInv, PanelTypes
<1>3. page'.view = page.view
  BY DEF ListPage, TickerPage
<1>4. PanelTypes'
  BY <1>2 DEF PanelInv, PanelTypes
<1>5. ASSUME NEW u \in Tasks PROVE HandlerInv(u)'
  BY <1>1, <1>3, HandlerTypes DEF PanelInv, HandlerInv, At, Live
<1>6. ControlsInv'
  BY <1>1, <1>3, HandlerTypes DEF PanelInv, ControlsInv, Renders, At, Acting, ListPage, TickerPage
<1>7. SocketOfTicker'
  BY <1>1, <1>3 DEF PanelInv, SocketOfTicker, At, ListPage, TickerPage
<1> QED
  BY <1>4, <1>5, <1>6, <1>7 DEF PanelInv

\* The list is asked for: the handler waits for the session, the socket is closed.
LEMMA ShowGamesStep ==
  ASSUME PanelInv, NEW t \in Tasks, page.view # "closed",
         ShowGames(t), status' = status, session' \in Accounts \cup {Nothing}
  PROVE  PanelInv'
<1> DEFINE r == Waits("current", Nothing)
<1>1. r \in Handlers /\ r.stage = "current" /\ ~ r.live
  BY HandlerTypes DEF Stages
<1>2. /\ task' = [task EXCEPT ![t] = r] /\ UNCHANGED <<page, status, crossed>>
      /\ socket' = Nothing
  BY DEF ShowGames
<1> HIDE DEF r
<1>3. r.stage \notin {"sk", "scoring", "scheduled"} \cup Acting
  BY <1>1 DEF Acting
<1> QED
  BY <1>1, <1>2, <1>3, OneHandler

\* The controls of a game are rendered under its ticker, if one is in the page.
LEMMA RenderStep ==
  ASSUME PanelInv, NEW t \in Tasks, ~ At(t, "current"), page.view # "closed",
         NEW game \in Games, RenderScorekeeper(t, game),
         status' = status, session' \in Accounts \cup {Nothing},
         ~ crossed /\ page.view = "ticker" => game = page.game
  PROVE  PanelInv'
<1>1. CASE page.view = "ticker"
  <2> DEFINE r == Waits("sk", game)
  <2>1. r \in Handlers /\ r.stage = "sk" /\ r.game = game
    BY HandlerTypes DEF Stages
  <2>2. /\ task' = [task EXCEPT ![t] = r] /\ UNCHANGED <<page, status, crossed>>
        /\ socket' = socket
    BY <1>1 DEF RenderScorekeeper
  <2> HIDE DEF r
  <2> QED
    BY <1>1, <2>1, <2>2, OneHandler
<1>2. CASE page.view # "ticker"
  <2>1. /\ task' = [task EXCEPT ![t] = Idle] /\ UNCHANGED <<page, status, crossed>>
        /\ socket' = socket
    BY <1>2 DEF RenderScorekeeper
  <2> QED
    BY <1>2, <2>1, HandlerTypes, OneHandler DEF Acting
<1> QED
  BY <1>1, <1>2

\* The body is replaced: nothing that waits has hold of an element of the new one.
LEMMA DetachedIs ==
  ASSUME PanelTypes
  PROVE  \A t \in Tasks : /\ Detached[t] \in Handlers /\ ~ Detached[t].live
                          /\ Detached[t].stage = task[t].stage
                          /\ Detached[t].game = task[t].game
                          /\ Detached[t].games = task[t].games
                          /\ Detached[t].moved = task[t].moved
BY DEF Detached, PanelTypes, Handlers

\* The list comes up, with the session that was asked for.
LEMMA ReplaceByListStep ==
  ASSUME PanelInv, NEW t \in Tasks, ReplaceByList(t)
  PROVE  PanelInv'
<1> DEFINE r == [Waits("live", Nothing) EXCEPT !.session = session]
<1>1. /\ page'.view = "games" /\ page' \in ListPage
      /\ UNCHANGED <<socket, session, status, crossed>>
      /\ task' = [Detached EXCEPT ![t] = r]
  BY DEF ReplaceByList, PanelInv, PanelTypes, ListPage
<1>2. r \in Handlers /\ r.stage = "live"
  <2> DEFINE w == Waits("live", Nothing)
  <2>1. w \in Handlers /\ w.stage = "live"
    BY HandlerTypes DEF Stages
  <2> HIDE DEF w
  <2>2. session \in Accounts \cup {Nothing}
    BY DEF PanelInv, PanelTypes
  <2>3. [w EXCEPT !.session = session] \in Handlers
    BY <2>1, <2>2 DEF Handlers
  <2>4. [w EXCEPT !.session = session].stage = w.stage
    BY <2>1 DEF Handlers
  <2> QED
    BY <2>1, <2>3, <2>4 DEF w
<1> HIDE DEF r
<1>3. /\ task'[t] = r
      /\ \A u \in Tasks \ {t} : task'[u] = Detached[u]
  BY <1>1 DEF Detached
<1>4. task' \in [Tasks -> Handlers]
  BY <1>1, <1>2, DetachedIs DEF PanelInv, Detached
<1>5. PanelTypes'
  BY <1>1, <1>4 DEF PanelInv, PanelTypes
<1>6. ASSUME NEW u \in Tasks PROVE HandlerInv(u)'
  BY <1>1, <1>2, <1>3, DetachedIs DEF PanelInv, HandlerInv, At, Live
<1>7. ControlsInv' /\ SocketOfTicker'
  BY <1>1 DEF ControlsInv, SocketOfTicker
<1> QED
  BY <1>5, <1>6, <1>7 DEF PanelInv

\* A ticker is opened, with a socket of its own; if something is done to another game at
\* that time, "crossed" says so from then on.
LEMMA ShowTickerStep ==
  ASSUME PanelInv, NEW t \in Tasks, At(t, "idle"), NEW game \in Games, ShowTicker(t, game)
  PROVE  PanelInv'
<1> DEFINE r == Waits("sk", game)
<1>1. /\ page' = [view |-> "ticker", game |-> game, sk |-> "empty", of |-> Nothing]
      /\ socket' = game /\ UNCHANGED <<session, status>>
      /\ task' = [Detached EXCEPT ![t] = r]
  BY DEF ShowTicker, Connected
<1>2. r \in Handlers /\ r.stage = "sk" /\ r.game = game
  BY HandlerTypes DEF Stages
<1> HIDE DEF r
<1>3. /\ task'[t] = r
      /\ \A u \in Tasks \ {t} : task'[u] = Detached[u]
  BY <1>1 DEF Detached
<1>4. page' \in TickerPage /\ page'.view = "ticker" /\ page'.sk = "empty" /\ page'.game = game
  BY <1>1 DEF TickerPage
<1>5. PanelTypes'
  <2>1. task' \in [Tasks -> Handlers]
    BY <1>1, <1>2, DetachedIs DEF PanelInv, Detached
  <2>2. crossed' \in BOOLEAN
    BY DEF ShowTicker, PanelInv, PanelTypes
  <2> QED
    BY <1>1, <1>4, <2>1, <2>2 DEF PanelInv, PanelTypes
<1>6. ASSUME NEW u \in Tasks PROVE HandlerInv(u)'
  BY <1>1, <1>2, <1>3, <1>4, DetachedIs DEF PanelInv, HandlerInv, At, Live
<1>7. ControlsInv'
  <2> SUFFICES ASSUME ~ crossed', NEW u \in Tasks, Renders(u)' PROVE task'[u].game = game
    BY <1>4 DEF ControlsInv
  <2>1. CASE u = t
    BY <1>2, <1>3, <2>1
  <2>2. CASE u # t
    <3>1. /\ ~ task'[u].live /\ task'[u].stage = task[u].stage /\ task'[u].game = task[u].game
      BY <1>3, <2>2, DetachedIs DEF PanelInv
    <3>2. task[u].stage \in Acting /\ task[u].game # Nothing
      BY <3>1 DEF Renders
    <3>3. task[u].game \in {game, Nothing}
      BY <3>2 DEF ShowTicker
    <3> QED
      BY <3>1, <3>2, <3>3
  <2> QED
    BY <2>1, <2>2
<1>8. SocketOfTicker'
  BY <1>1, <1>4 DEF SocketOfTicker
<1> QED
  BY <1>5, <1>6, <1>7, <1>8 DEF PanelInv

\* The two requests for the list, and the list that is written.
LEMMA FetchStep ==
  ASSUME PanelInv, NEW t \in Tasks, FetchLive(t) \/ FetchScheduled(t) \/ FetchFails(t)
  PROVE  PanelInv'
<1>1. task[t] \in Handlers /\ HandlerInv(t)
  BY DEF PanelInv, PanelTypes
<1>2. ASSUME At(t, "live") \/ At(t, "scheduled"),
             NEW list \in {"shown", "error"}, NEW games \in SUBSET Games,
             ListBecomes(t, list, games)
      PROVE  PanelInv'
  <2>1. /\ UNCHANGED <<session, status, socket, crossed>> /\ ~ At(t, "current")
        /\ task' = [task EXCEPT ![t] = Idle]
    BY <1>2 DEF ListBecomes, At
  <2>2. page' = page \/ (page \in ListPage /\ page' \in ListPage)
    <3>1. CASE task[t].live
      <4>1. page \in ListPage
        BY <1>1, <1>2, <3>1, PageKinds DEF HandlerInv, At, PanelInv
      <4>2. page' = [page EXCEPT !.list = list, !.games = games]
        BY <1>2, <3>1 DEF ListBecomes
      <4> QED
        BY <4>1, <4>2 DEF ListPage
    <3>2. CASE ~ task[t].live
      BY <1>2, <3>2 DEF ListBecomes
    <3> QED
      BY <3>1, <3>2
  <2> QED
    BY <2>1, <2>2, PageWritten
<1>3. CASE FetchLive(t)
  <2>1. CASE task[t].session = Nothing
    BY <1>2, <1>3, <2>1 DEF FetchLive, Live
  <2>2. CASE task[t].session # Nothing
    <3> DEFINE r == [task[t] EXCEPT !.stage = "scheduled", !.games = Live]
    <3>1. /\ task' = [task EXCEPT ![t] = r] /\ UNCHANGED <<page, status, crossed, socket, session>>
          /\ At(t, "live")
      BY <1>1, <1>3, <2>2 DEF FetchLive, PanelInv, PanelTypes
    <3>2. r \in Handlers /\ r.stage = "scheduled" /\ r.games = Live /\ r.live = task[t].live
      BY <1>1 DEF Handlers, Stages, Live
    <3> HIDE DEF r
    <3>3. session' \in Accounts \cup {Nothing}
      BY <3>1 DEF PanelInv, PanelTypes
    <3>4. /\ task[t].live => page.view = "games"
          /\ page.view # "closed"
      BY <1>1, <3>1 DEF HandlerInv, At
    <3> QED
      BY <3>1, <3>2, <3>3, <3>4, OneHandler DEF At, Acting
  <2> QED
    BY <2>1, <2>2
<1>4. CASE FetchScheduled(t)
  <2>1. Concatenated(t) \in SUBSET Games
    BY <1>1 DEF Concatenated, Scheduled, Handlers
  <2> QED
    BY <1>2, <1>4, <2>1 DEF FetchScheduled
<1>5. CASE FetchFails(t)
  BY <1>2, <1>5 DEF FetchFails
<1> QED
  BY <1>3, <1>4, <1>5

\* The controls are written, into the ticker that they were rendered for if its element is
\* still in the page.
LEMMA WriteScorekeeperStep ==
  ASSUME PanelInv, NEW t \in Tasks, WriteScorekeeper(t)
  PROVE  PanelInv'
<1>1. task[t] \in Handlers /\ HandlerInv(t) /\ At(t, "sk") /\ task[t].game \in Games
  BY DEF PanelInv, PanelTypes, HandlerInv, WriteScorekeeper, At
<1>2. /\ UNCHANGED <<session, status, socket, crossed>> /\ ~ At(t, "current")
      /\ task' = [task EXCEPT ![t] = Idle]
  BY <1>1 DEF WriteScorekeeper, At
<1>3. CASE task[t].live
  <2>1. page \in TickerPage /\ page.view = "ticker"
    BY <1>1, <1>3, PageKinds DEF HandlerInv, At, PanelInv
  <2>2. \E content \in {"signin", "controls"} :
          page' = [page EXCEPT !.sk = content, !.of = task[t].game]
    BY <1>3 DEF WriteScorekeeper, Reaches
  <2>3. page' \in TickerPage /\ page'.game = page.game /\ page'.of = task[t].game
    BY <1>1, <2>1, <2>2 DEF TickerPage
  <2>4. ~ crossed => task[t].game = page.game
    BY <1>1, <1>3, <2>1 DEF PanelInv, ControlsInv, Renders
  <2> QED
    BY <1>1, <1>2, <2>1, <2>3, <2>4, PageWritten
<1>4. CASE ~ task[t].live
  <2>1. page' = page
    BY <1>4 DEF WriteScorekeeper, Reaches
  <2> QED
    BY <1>2, <2>1, PageWritten
<1> QED
  BY <1>3, <1>4

\* A game moves on the server; the handlers between their two requests take note of it.
LEMMA MovesStep ==
  ASSUME PanelInv, NEW game \in Games, NEW new \in {"scheduled", "in_progress", "final"},
         NEW tasks, Moves(game, new, tasks),
         \/ tasks = task
         \/ \E t \in Tasks : At(t, "scoring") /\ tasks = [task EXCEPT ![t] = Idle]
  PROVE  PanelInv'
<1>1. /\ UNCHANGED <<page, socket, session, crossed>>
      /\ status' = [status EXCEPT ![game] = new]
      /\ status \in [Games -> {"scheduled", "in_progress", "final"}]
  BY DEF Moves, PanelInv, PanelTypes
<1>2. \A u \in Tasks : \/ tasks[u] = task[u]
                       \/ tasks[u] = Idle /\ ~ At(u, "current")
  BY DEF PanelInv, PanelTypes, At
<1>3. tasks \in [Tasks -> Handlers]
  BY HandlerTypes DEF PanelInv, PanelTypes
<1>4. ASSUME NEW u \in Tasks
      PROVE  /\ task'[u] \in Handlers
             /\ task'[u].stage = tasks[u].stage /\ task'[u].game = tasks[u].game
             /\ task'[u].live = tasks[u].live /\ task'[u].games = tasks[u].games
             /\ tasks[u].stage = "scheduled" =>
                  task'[u].moved = IF new # status[game] THEN tasks[u].moved \cup {game}
                                   ELSE tasks[u].moved
  <2>1. tasks[u] \in Handlers
    BY <1>3
  <2>2. CASE tasks[u].stage = "scheduled" /\ new # status[game]
    <3>1. task'[u] = [tasks[u] EXCEPT !.moved = @ \cup {game}]
      BY <2>2 DEF Moves
    <3> QED
      BY <2>1, <2>2, <3>1 DEF Handlers
  <2>3. CASE ~ (tasks[u].stage = "scheduled" /\ new # status[game])
    <3>1. task'[u] = tasks[u]
      BY <2>3 DEF Moves
    <3> QED
      BY <2>1, <2>3, <3>1
  <2> QED
    BY <2>2, <2>3
<1>5. PanelTypes'
  <2>1. task' \in [Tasks -> Handlers]
    BY <1>4 DEF Moves
  <2> QED
    BY <1>1, <2>1 DEF PanelInv, PanelTypes
<1>6. ASSUME NEW u \in Tasks PROVE HandlerInv(u)'
  <2>1. \/ tasks[u] = task[u]
        \/ tasks[u].stage = "idle" /\ ~ tasks[u].live
    BY <1>2, HandlerTypes
  <2>2. HandlerInv(u)
    BY DEF PanelInv
  <2>3. Live' \subseteq Live \cup {game} /\ (new = status[game] => Live' = Live)
    BY <1>1 DEF Live
  <2>4. CASE tasks[u] = task[u]
    BY <1>1, <1>4, <2>2, <2>3, <2>4 DEF HandlerInv, At
  <2>5. CASE tasks[u].stage = "idle" /\ ~ tasks[u].live
    BY <1>4, <2>5 DEF HandlerInv, At
  <2> QED
    BY <2>1, <2>4, <2>5
<1>7. \A u \in Tasks :
        \/ /\ task'[u].stage = task[u].stage /\ task'[u].game = task[u].game
           /\ task'[u].live = task[u].live
        \/ task'[u].stage = "idle" /\ task[u].stage # "current"
  BY <1>2, <1>4, HandlerTypes DEF At
<1>8. ControlsInv'
  BY <1>1, <1>7 DEF PanelInv, ControlsInv, Renders, At, Acting
<1>9. SocketOfTicker'
  BY <1>1, <1>7 DEF PanelInv, SocketOfTicker, At
<1> QED
  BY <1>5, <1>6, <1>8, <1>9 DEF PanelInv

\* An answer arrives.
LEMMA AnswerStep ==
  ASSUME PanelInv, NEW t \in Tasks, Answer(t)
  PROVE  PanelInv'
<1>1. /\ task[t] \in Handlers /\ HandlerInv(t) /\ session \in Accounts \cup {Nothing}
      /\ status \in [Games -> {"scheduled", "in_progress", "final"}]
  BY DEF PanelInv, PanelTypes
<1>2. CASE ReplaceByList(t)
  BY <1>2, ReplaceByListStep
<1>3. CASE FetchLive(t) \/ FetchScheduled(t) \/ FetchFails(t)
  BY <1>3, FetchStep
<1>4. CASE WriteScorekeeper(t)
  BY <1>4, WriteScorekeeperStep
<1>5. CASE Scored(t)
  <2>1. At(t, "scoring") /\ task[t].game \in Games
    BY <1>1, <1>5 DEF Scored, HandlerInv, At
  <2>2. PICK new \in {"in_progress", "final", status[task[t].game]} :
          Moves(task[t].game, new, [task EXCEPT ![t] = Idle])
    BY <1>5 DEF Scored
  <2>3. new \in {"scheduled", "in_progress", "final"}
    BY <1>1, <2>1
  <2> QED
    BY <2>1, <2>2, <2>3, MovesStep
<1>6. ASSUME task[t].stage \in Acting, task[t].game # Nothing,
             RenderScorekeeper(t, task[t].game), status' = status,
             session' \in Accounts \cup {Nothing}
      PROVE  PanelInv'
  <2>1. task[t].game \in Games /\ ~ At(t, "current") /\ page.view # "closed"
    BY <1>1, <1>6 DEF Handlers, At, Acting, HandlerInv
  <2>2. ~ crossed /\ page.view = "ticker" => task[t].game = page.game
    BY <1>6 DEF PanelInv, ControlsInv, Renders
  <2> QED
    BY <1>6, <2>1, <2>2, RenderStep
<1>7. CASE ScoreSignedOut(t)
  <2>1. task[t].game # Nothing
    BY <1>1, <1>7, PanelAssumption DEF ScoreSignedOut, HandlerInv, At
  <2> QED
    BY <1>6, <1>7, <2>1 DEF ScoreSignedOut, At, Acting
<1>8. CASE SignedOut(t) \/ SignedIn(t)
  <2>1. /\ task[t].stage \in {"signing_out", "signing_in"} /\ OnDone(t, task[t].game)
        /\ status' = status /\ session' \in Accounts \cup {Nothing}
    BY <1>8 DEF SignedOut, SignedIn, At
  <2>2. page.view # "closed"
    BY <1>1, <2>1 DEF HandlerInv, At
  <2>3. CASE task[t].game = Nothing
    BY <2>1, <2>2, <2>3, ShowGamesStep DEF OnDone
  <2>4. CASE task[t].game # Nothing
    BY <1>6, <2>1, <2>4 DEF OnDone, Acting
  <2> QED
    BY <2>3, <2>4
<1>9. CASE Refused(t)
  <2>1. /\ ~ At(t, "current") /\ task' = [task EXCEPT ![t] = Idle]
        /\ UNCHANGED <<session, status, socket, crossed, page>>
    BY <1>9 DEF Refused, At
  <2> QED
    BY <2>1, PageWritten
<1> QED
  BY <1>2, <1>3, <1>4, <1>5, <1>7, <1>8, <1>9 DEF Answer

\* A handler starts that posts, signs in or signs out: for the game of the ticker, if any.
LEMMA StartsStep ==
  ASSUME PanelInv, NEW t \in Tasks, At(t, "idle"), page.view # "closed",
         NEW stage \in Acting, NEW game \in Games \cup {Nothing}, Starts(t, stage, game),
         stage = "scoring" => game \in Games,
         ~ crossed /\ page.view = "ticker" => game = page.game
  PROVE  PanelInv'
<1> DEFINE r == Waits(stage, game)
<1>1. r \in Handlers /\ r.stage = stage /\ r.game = game /\ ~ r.live
  BY HandlerTypes DEF Stages, Acting
<1>2. task' = [task EXCEPT ![t] = r] /\ UNCHANGED <<page, status, crossed, socket, session>>
  BY DEF Starts
<1> HIDE DEF r
<1>3. session' \in Accounts \cup {Nothing}
  BY <1>2 DEF PanelInv, PanelTypes
<1>4. stage \notin {"sk", "scheduled", "current"}
  BY DEF Acting
<1> QED
  BY <1>1, <1>2, <1>3, <1>4, OneHandler DEF At

\* A click.
LEMMA ClickStep ==
  ASSUME PanelInv, NEW t \in Tasks, Click(t)
  PROVE  PanelInv'
<1>1. At(t, "idle") /\ session \in Accounts \cup {Nothing}
  BY DEF Click, PanelInv, PanelTypes
<1>2. CASE page.view = "games" /\ ClickInList(t)
  <2>1. page \in ListPage
    BY <1>2, PageKinds DEF PanelInv
  <2>2. CASE ShowGames(t) /\ UNCHANGED <<session, status>>
    BY <1>1, <1>2, <2>2, ShowGamesStep
  <2>3. CASE \E game \in page.games : ListShows("shown") /\ ShowTicker(t, game)
    BY <1>1, <2>1, <2>3, ShowTickerStep DEF ListPage
  <2>4. CASE Shows("list", "login")
    <3>1. /\ page' = [page EXCEPT !["list"] = "login"]
          /\ UNCHANGED <<session, status, socket, crossed, task>>
      BY <2>4 DEF Shows
    <3>2. page' \in ListPage
      BY <2>1, <3>1 DEF ListPage
    <3> QED
      BY <2>1, <3>1, <3>2, PageWritten
  <2>5. CASE \E stage \in {"signing_out", "signing_in"} : Starts(t, stage, Nothing)
    BY <1>1, <1>2, <2>5, StartsStep DEF Acting
  <2> QED
    BY <1>2, <2>2, <2>3, <2>4, <2>5 DEF ClickInList
<1>3. CASE page.view = "ticker" /\ ClickInTicker(t)
  <2>1. page \in TickerPage
    BY <1>3, PageKinds DEF PanelInv
  <2>2. page.sk # "empty" => page.of \in Games /\ (~ crossed => page.of = page.game)
    BY <1>3 DEF PanelInv, ControlsInv
  <2>3. CASE ShowGames(t) /\ UNCHANGED <<session, status>>
    BY <1>1, <1>3, <2>3, ShowGamesStep
  <2>4. CASE Sk("signin") /\ Shows("sk", "login")
    <3>1. /\ page' = [page EXCEPT !["sk"] = "login"]
          /\ UNCHANGED <<session, status, socket, crossed, task>>
      BY <2>4 DEF Shows
    <3>2. page' \in TickerPage /\ page'.game = page.game /\ page'.of = page.of
      BY <2>1, <3>1 DEF TickerPage
    <3>3. page.sk # "empty"
      BY <2>4 DEF Sk
    <3> QED
      BY <2>1, <2>2, <3>1, <3>2, <3>3, PageWritten
  <2>5. CASE Sk("login") /\ RenderScorekeeper(t, page.of) /\ UNCHANGED <<session, status>>
    BY <1>1, <1>3, <2>2, <2>5, RenderStep DEF Sk, At
  <2>6. CASE \/ Sk("login") /\ Starts(t, "signing_in", page.of)
             \/ Sk("controls") /\ \E stage \in {"scoring", "signing_out"} :
                                    Starts(t, stage, page.of)
    BY <1>1, <1>3, <2>2, <2>6, StartsStep DEF Sk, Acting
  <2> QED
    BY <1>3, <2>3, <2>4, <2>5, <2>6 DEF ClickInTicker
<1> QED
  BY <1>2, <1>3 DEF Click

-----------------------------------------------------------------------------
(* What follows.                                                           *)

\* PanelInv holds throughout.
THEOREM PanelInvariant == Spec => []PanelInv
<1>1. Init => PanelInv
  <2> SUFFICES ASSUME Init PROVE PanelInv
    OBVIOUS
  <2>1. /\ page = [view |-> "empty"] /\ page.view = "empty" /\ socket = Nothing
        /\ session = Nothing /\ crossed = FALSE
        /\ status \in [Games -> {"scheduled", "in_progress", "final"}]
    BY DEF Init
  <2>2. \A stage \in {"current"} :
          /\ Waits(stage, Nothing) \in Handlers /\ Waits(stage, Nothing).stage = stage
          /\ ~ Waits(stage, Nothing).live
    BY HandlerTypes DEF Stages
  <2>3. task \in [Tasks -> Handlers]
    BY <2>2, HandlerTypes DEF Init
  <2>4. \A t \in Tasks : task[t].stage \in {"idle", "current"} /\ ~ task[t].live
    BY <2>2, HandlerTypes DEF Init
  <2>5. PanelTypes
    BY <2>1, <2>3 DEF PanelTypes, BarePage
  <2>6. \A t \in Tasks : HandlerInv(t)
    BY <2>1, <2>4 DEF HandlerInv, At
  <2> QED
    BY <2>1, <2>5, <2>6 DEF PanelInv, ControlsInv, SocketOfTicker
<1>2. PanelInv /\ [Next]_vars => PanelInv'
  <2> SUFFICES ASSUME PanelInv, [Next]_vars PROVE PanelInv'
    OBVIOUS
  <2>1. ASSUME NEW t \in Tasks, Answer(t) \/ Click(t) PROVE PanelInv'
    BY <2>1, AnswerStep, ClickStep
  <2>2. ASSUME NEW game \in Games, MatchMoves(game) PROVE PanelInv'
    BY <2>2, MovesStep DEF MatchMoves
  <2>3. CASE SessionEnds
    BY <2>3 DEF SessionEnds, PanelInv, PanelTypes, HandlerInv, ControlsInv, SocketOfTicker,
                Renders, At, Live
  <2>4. CASE Close
    <3>1. /\ page' = [view |-> "closed"] /\ page'.view = "closed" /\ socket' = Nothing
          /\ task' = [t \in Tasks |-> Idle] /\ UNCHANGED <<session, status, crossed>>
      BY <2>4 DEF Close
    <3>2. PanelTypes'
      BY <3>1, HandlerTypes DEF PanelInv, PanelTypes, BarePage
    <3>3. \A t \in Tasks : HandlerInv(t)'
      BY <3>1, HandlerTypes DEF HandlerInv, At
    <3> QED
      BY <3>1, <3>2, <3>3 DEF PanelInv, ControlsInv, SocketOfTicker
  <2>5. CASE UNCHANGED vars
    BY <2>5 DEF vars, PanelInv, PanelTypes, HandlerInv, ControlsInv, SocketOfTicker,
                Renders, At, Live
  <2> QED
    BY <2>1, <2>2, <2>3, <2>4, <2>5 DEF Next
<1> QED
  BY <1>1, <1>2, PTL DEF Spec

\* The ticker in the page is fed by the socket of its game, unless the list is on its way,
\* and no socket outlives the panel.
THEOREM TickerFed == Spec => []SocketOfTicker
<1>1. PanelInv => SocketOfTicker
  BY DEF PanelInv
<1> QED
  BY <1>1, PanelInvariant, PTL

\* The controls under a ticker score its game, unless something was done to one game when
\* the ticker of another was opened.
THEOREM ControlsFit == Spec => []ControlsMatchAlone
<1>1. PanelInv => ControlsMatchAlone
  BY DEF PanelInv, ControlsInv, ControlsMatchAlone, ControlsMatchTicker
<1> QED
  BY <1>1, PanelInvariant, PTL

\* Only an answer brings up a list, the last one to the handler whose list is in the page.
LEMMA WhoShowsTheList ==
  ASSUME PanelInv, Next, page.view = "games", page'.view = "games",
         page.list # "shown", page'.list = "shown"
  PROVE  \E u \in Tasks : FetchLive(u) \/ FetchScheduled(u)
<1>1. page' # page
  OBVIOUS
<1>2. page \in ListPage
  BY PageKinds DEF PanelInv
<1>3. ASSUME NEW u \in Tasks, Answer(u) PROVE FetchLive(u) \/ FetchScheduled(u)
  <2>1. ~ ReplaceByList(u)
    <3>1. ReplaceByList(u) => page'.list = "loading"
      BY DEF ReplaceByList
    <3> QED
      BY <3>1
  <2>2. ~ FetchFails(u)
    <3>1. ASSUME FetchFails(u) PROVE page' = page \/ page' = [page EXCEPT !.list = "error", !.games = {}]
      BY <3>1 DEF FetchFails, ListBecomes
    <3>2. [page EXCEPT !.list = "error", !.games = {}].list = "error"
      BY <1>2 DEF ListPage
    <3> QED
      BY <1>1, <3>1, <3>2
  <2>3. ~ WriteScorekeeper(u)
    <3>1. ASSUME WriteScorekeeper(u) PROVE ~ task[u].live
      BY <3>1 DEF WriteScorekeeper, PanelInv, HandlerInv, At
    <3> QED
      BY <1>1, <3>1 DEF WriteScorekeeper, Reaches
  <2>4. ~ (Scored(u) \/ ScoreSignedOut(u) \/ SignedOut(u) \/ SignedIn(u) \/ Refused(u))
    BY <1>1 DEF Scored, Moves, ScoreSignedOut, SignedOut, SignedIn, Refused, OnDone, ShowGames,
                RenderScorekeeper
  <2> QED
    BY <1>3, <2>1, <2>2, <2>3, <2>4 DEF Answer
<1>4. ASSUME NEW u \in Tasks, Click(u) PROVE FALSE
  <2>1. ClickInList(u)
    BY <1>4 DEF Click
  <2>2. ~ Shows("list", "login")
    <3>1. Shows("list", "login") => page' = [page EXCEPT !["list"] = "login"]
      BY DEF Shows
    <3>2. [page EXCEPT !["list"] = "login"].list = "login"
      BY <1>2 DEF ListPage
    <3> QED
      BY <3>1, <3>2
  <2>3. \A game : ~ ShowTicker(u, game)
    <3>1. \A game : ShowTicker(u, game) => page'.view = "ticker"
      BY DEF ShowTicker
    <3> QED
      BY <3>1
  <2> QED
    BY <1>1, <2>1, <2>2, <2>3 DEF ClickInList, ShowGames, Starts
<1>5. \A game \in Games : ~ MatchMoves(game)
  BY <1>1 DEF MatchMoves, Moves
<1>6. ~ SessionEnds
  BY <1>1 DEF SessionEnds
<1>7. ~ Close
  <2>1. Close => page'.view = "closed"
    BY DEF Close
  <2> QED
    BY <2>1
<1> QED
  BY <1>3, <1>4, <1>5, <1>6, <1>7 DEF Next

\* A list that comes up leaves out no game that its account has, but those that moved
\* between the two requests for it.
THEOREM ListComplete == Spec => ListOmitsOnlyMoved
<1> DEFINE ComesUp(t) ==
             /\ task[t].stage \in {"live", "scheduled"} /\ task[t].live
             /\ page'.view = "games" /\ page.list # "shown" /\ page'.list = "shown"
             /\ task'[t].stage = "idle"
<1>1. ASSUME PanelInv, [Next]_vars, NEW t \in Tasks, ComesUp(t),
             NEW game \in Offered(task[t].session) \ page'.games
      PROVE  game \in task[t].moved
  <2>1. /\ task[t] \in Handlers /\ task \in [Tasks -> Handlers] /\ HandlerInv(t)
        /\ page.view = "games"
    BY <1>1 DEF PanelInv, PanelTypes, HandlerInv, At
  <2>2. Next
    BY <1>1 DEF vars
  <2>3. PICK u \in Tasks : FetchLive(u) \/ FetchScheduled(u)
    BY <1>1, <2>1, <2>2, WhoShowsTheList
  <2>4. u = t
    <3>1. \A v \in Tasks \ {u} : task'[v] = task[v]
      BY <2>1, <2>3 DEF FetchLive, FetchScheduled, ListBecomes
    <3> QED
      BY <1>1, <3>1
  <2>5. page \in ListPage
    BY <1>1, <2>1, PageKinds DEF PanelInv
  <2>6. ASSUME NEW games, ListBecomes(t, "shown", games) PROVE page'.games = games
    <3>1. page' = [page EXCEPT !.list = "shown", !.games = games]
      BY <1>1, <2>6 DEF ListBecomes
    <3> QED
      BY <2>5, <3>1 DEF ListPage
  <2>7. CASE FetchLive(t)
    <3>1. page' # page
      BY <1>1
    <3>2. task[t].session = Nothing /\ ListBecomes(t, "shown", Live)
      BY <2>7, <3>1 DEF FetchLive
    <3>3. game \in Live /\ game \notin Live
      BY <1>1, <2>6, <3>2 DEF Offered
    <3> QED
      BY <3>3
  <2>8. CASE FetchScheduled(t)
    <3>1. page'.games = task[t].games \cup Scheduled(task[t].session) /\ At(t, "scheduled")
      BY <2>6, <2>8 DEF FetchScheduled, Concatenated
    <3>2. game \in Live
      BY <1>1, <3>1 DEF Offered
    <3>3. Live \subseteq task[t].games \cup task[t].moved
      BY <2>1, <3>1 DEF HandlerInv
    <3> QED
      BY <1>1, <3>1, <3>2, <3>3
  <2> QED
    BY <2>3, <2>4, <2>7, <2>8
<1>2. PanelInv /\ [Next]_vars =>
        \A t \in Tasks : ComesUp(t) =>
          \A game \in Offered(task[t].session) \ page'.games : game \in task[t].moved
  BY <1>1
<1> QED
  BY <1>2, PanelInvariant, PTL DEF Spec, ListOmitsOnlyMoved
=============================================================================
