------------------------------ MODULE LiveFeed ------------------------------
(***************************************************************************)
(* Live viewers of a match: the in-process dispatcher with a bounded       *)
(* mailbox per connection (app/core/dispatcher.py), the WebSocket handler  *)
(* that subscribes, replays the log and then streams (app/api/ws.py), the  *)
(* pump with its watermark (app/delivery/stream.py), the socket, and a     *)
(* client that keeps the last version it received.                         *)
(*                                                                         *)
(* The log is the atomic one of EventLog, which EventStore implements.     *)
(* The server is one process with one event loop, so a step of a task      *)
(* between two awaits is atomic; append() returns in any order when more   *)
(* than one answer to a COMMIT is outstanding.                             *)
(***************************************************************************)
EXTENDS EventLog

CONSTANTS Viewers,      \* connections' clients
          Watching,     \* per viewer, the match it watches
          MailboxSize,  \* _MAILBOX_SIZE
          ScoredTypes,  \* bound: the types of event that are scored
          MaxEvents,    \* bound: events per match
          MaxPending,   \* committed appends whose answer is outstanding at a time
          AnswersLost   \* whether the answer to a COMMIT can be lost

ASSUME FeedAssumption ==
    /\ Watching \in [Viewers -> Matches]
    /\ MailboxSize \in Nat \ {0}
    /\ ScoredTypes \subseteq EventTypes
    /\ MaxEvents \in Nat
    /\ MaxPending \in Nat
    /\ AnswersLost \in BOOLEAN

VARIABLES phase,     \* per viewer, how far match_feed() is
          mailbox,   \* per viewer, the updates queued for its connection
          backlog,   \* per viewer, the updates _replay() has still to send
          last_sent, \* per viewer, the watermark of the connection
          wire,      \* per viewer, the messages sent and not yet received
          cursor,    \* per viewer, the last version the client received
          screen,    \* per viewer, the state the client shows
          evicted,   \* history: per viewer, the versions its full mailbox dropped
          skipped    \* history: per match, the versions that were published
                     \* after a later one or not at all

feedVars == <<phase, mailbox, backlog, last_sent, wire, cursor, screen, evicted, skipped>>
vars == <<logVars, feedVars>>

LogOf(v) == history[Watching[v]]
Connected(v) == phase[v] # "closed"

Init ==
    /\ LogInit
    /\ phase = [v \in Viewers |-> "closed"]
    /\ mailbox = [v \in Viewers |-> <<>>]
    /\ backlog = [v \in Viewers |-> <<>>]
    /\ last_sent = [v \in Viewers |-> 0]
    /\ wire = [v \in Viewers |-> <<>>]
    /\ cursor = [v \in Viewers |-> 0]
    /\ screen = [v \in Viewers |-> InitialState]
    /\ evicted = [v \in Viewers |-> {}]
    /\ skipped = [m \in Matches |-> {}]

-----------------------------------------------------------------------------
(* The write side.                                                         *)

\* Any fresh key does: nothing here looks at it.
FreshKeys == {k \in Keys : ~ KeyUsed(k)}

Score ==
    /\ Cardinality(pending) < MaxPending
    /\ FreshKeys # {}
    /\ \E m \in Matches, type \in ScoredTypes :
         /\ Len(history[m]) < MaxEvents
         /\ \E payload \in Payloads(type) :
              AppendEvent(m, CHOOSE k \in FreshKeys : TRUE, type, payload[1], payload[2])
    /\ UNCHANGED feedVars

\* The versions of a match whose append has not returned.
Outstanding(m) == {u.event.version : u \in {u \in pending : u.event.match = m}}
Skip(m, versions) == skipped' = [skipped EXCEPT ![m] = @ \cup versions]

\* Mutant of Subscribed: a connection subscribes once it has replayed the log.
SubscribedLate(m) == {v \in Viewers : phase[v] = "live" /\ Watching[v] = m}

\* The mailboxes of the subscribers of the match.
Subscribed(m) == {v \in Viewers : Connected(v) /\ Watching[v] = m}
Full(v) == Len(mailbox[v]) >= MailboxSize

\* Mutants of Offered: a full mailbox keeps what it has; a mailbox has no limit.
DropNewest(v, update) == IF Full(v) THEN mailbox[v] ELSE Append(mailbox[v], update)
Unbounded(v, update) == Append(mailbox[v], update)

\* full() / get_nowait() / put_nowait(): drop the oldest.
Offered(v, update) ==
    Append(IF Full(v) THEN Tail(mailbox[v]) ELSE mailbox[v], update)

\* append() returns and publish() fans out, without an await.
PublishUpdate(update) ==
    /\ Publish(update)
    /\ LET to == Subscribed(update.event.match)
       IN  /\ mailbox' = [v \in Viewers |->
                 IF v \in to THEN Offered(v, update) ELSE mailbox[v]]
           /\ evicted' = [v \in Viewers |->
                 IF v \in to /\ Full(v)
                 THEN evicted[v] \cup {Head(mailbox[v]).event.version} ELSE evicted[v]]
    /\ Skip(update.event.match,
            {n \in Outstanding(update.event.match) : n < update.event.version})
    /\ UNCHANGED <<phase, backlog, last_sent, wire, cursor, screen>>

LoseUpdate(update) ==
    /\ AnswersLost
    /\ LoseAnswer(update)
    /\ Skip(update.event.match, {update.event.version})
    /\ UNCHANGED <<phase, mailbox, backlog, last_sent, wire, cursor, screen, evicted>>

-----------------------------------------------------------------------------
(* A connection.                                                           *)

\* accept() and subscribe().
Connect(v) ==
    /\ phase[v] = "closed"
    /\ phase' = [phase EXCEPT ![v] = "handshake"]
    /\ mailbox' = [mailbox EXCEPT ![v] = <<>>]
    /\ evicted' = [evicted EXCEPT ![v] = {}]
    /\ UNCHANGED <<logVars, backlog, last_sent, wire, cursor, screen, skipped>>

\* Mutant of Replay: fold only what is sent.
ReplayUnfolded(m, last) ==
    LET events == [i \in 1 .. Len(history[m]) - last |-> history[m][last + i].event]
    IN  [i \in DOMAIN events |->
           [event |-> events[i], state |-> Fold(SubSeq(events, 1, i))]]

\* read_since(m, 0), every event folded, those after the cursor kept: the log is in
\* the order of the versions 1, 2, 3, ...
Replay(m, last) ==
    LET events == [i \in DOMAIN history[m] |-> history[m][i].event]
        folded == [i \in DOMAIN events |->
                     [event |-> events[i], state |-> Fold(SubSeq(events, 1, i))]]
    IN  SubSeq(folded, last + 1, Len(folded))

\* The client sends its cursor and the handler reads the log.  A client may
\* give the cursor it holds, or start over from 0 (extension/content.js,
\* examples/watch.py).
Handshake(v, last) ==
    /\ phase[v] = "handshake"
    /\ phase' = [phase EXCEPT ![v] = "replaying"]
    /\ backlog' = [backlog EXCEPT ![v] = Replay(Watching[v], last)]
    /\ last_sent' = [last_sent EXCEPT ![v] = last]
    /\ cursor' = [cursor EXCEPT ![v] = last]
    /\ UNCHANGED <<logVars, mailbox, wire, screen, evicted, skipped>>

Send(v, update) ==
    /\ wire' = [wire EXCEPT ![v] = Append(@, update)]
    /\ last_sent' = [last_sent EXCEPT ![v] = update.event.version]

SendReplay(v) ==
    /\ phase[v] = "replaying"
    /\ backlog[v] # <<>>
    /\ Send(v, Head(backlog[v]))
    /\ backlog' = [backlog EXCEPT ![v] = Tail(@)]
    /\ UNCHANGED <<logVars, phase, mailbox, cursor, screen, evicted, skipped>>

ServeLive(v) ==
    /\ phase[v] = "replaying"
    /\ backlog[v] = <<>>
    /\ phase' = [phase EXCEPT ![v] = "live"]
    /\ UNCHANGED <<logVars, mailbox, backlog, last_sent, wire, cursor, screen, evicted, skipped>>

\* Mutant of AlreadySent: no dedupe by version.
NeverSent(v, update) == FALSE

AlreadySent(v, update) == update.event.version <= last_sent[v]

\* One turn of _pump().
Pump(v) ==
    /\ phase[v] = "live"
    /\ mailbox[v] # <<>>
    /\ mailbox' = [mailbox EXCEPT ![v] = Tail(@)]
    /\ IF AlreadySent(v, Head(mailbox[v]))
       THEN UNCHANGED <<wire, last_sent>>
       ELSE Send(v, Head(mailbox[v]))
    /\ UNCHANGED <<logVars, phase, backlog, cursor, screen, evicted, skipped>>

\* The client shows the state of a message and keeps its version.
Receive(v) ==
    /\ wire[v] # <<>>
    /\ wire' = [wire EXCEPT ![v] = Tail(@)]
    /\ cursor' = [cursor EXCEPT ![v] = Head(wire[v]).event.version]
    /\ screen' = [screen EXCEPT ![v] = Head(wire[v]).state]
    /\ UNCHANGED <<logVars, phase, mailbox, backlog, last_sent, evicted, skipped>>

\* finally: unsubscribe; what was on its way is lost.
Closed(gone) ==
    /\ phase' = [v \in Viewers |-> IF v \in gone THEN "closed" ELSE phase[v]]
    /\ mailbox' = [v \in Viewers |-> IF v \in gone THEN <<>> ELSE mailbox[v]]
    /\ backlog' = [v \in Viewers |-> IF v \in gone THEN <<>> ELSE backlog[v]]
    /\ wire' = [v \in Viewers |-> IF v \in gone THEN <<>> ELSE wire[v]]
    /\ UNCHANGED <<last_sent, cursor, screen, evicted>>

Disconnect(v) ==
    /\ Connected(v)
    /\ Closed({v})
    /\ UNCHANGED <<logVars, skipped>>

\* The process dies: its mailboxes, sockets and unpublished updates are gone,
\* the log is not.
Restart ==
    /\ Closed(Viewers)
    /\ pending' = {}
    /\ skipped' = [m \in Matches |-> skipped[m] \cup Outstanding(m)]
    /\ UNCHANGED history

\* GET /matches/{id}/snapshot: a disconnected client adopts a snapshot and its version.
LoadSnapshot(v) ==
    /\ ~ Connected(v)
    /\ cursor' = [cursor EXCEPT ![v] = StateAfter(LogOf(v)).version]
    /\ screen' = [screen EXCEPT ![v] = StateAfter(LogOf(v))]
    /\ UNCHANGED <<logVars, phase, mailbox, backlog, last_sent, wire, evicted, skipped>>

-----------------------------------------------------------------------------
Serve(v) == SendReplay(v) \/ ServeLive(v) \/ Pump(v) \/ Receive(v)

Next ==
    \/ Score
    \/ \E update \in pending : PublishUpdate(update) \/ LoseUpdate(update)
    \/ \E v \in Viewers :
         \/ Connect(v) \/ Serve(v) \/ Disconnect(v) \/ LoadSnapshot(v)
         \/ \E last \in {0, cursor[v]} : Handshake(v, last)
    \/ Restart

Spec == Init /\ [][Next]_vars

\* The event loop resumes a task whose await is over: a COMMIT is answered, the
\* replay, the pump and the socket move on.  Nobody has to score or connect.
Fairness ==
    /\ WF_vars(\E update \in pending : PublishUpdate(update) \/ LoseUpdate(update))
    /\ \A v \in Viewers : WF_vars(Serve(v))

FairSpec == Spec /\ Fairness

-----------------------------------------------------------------------------
(* Properties.                                                             *)

\* A mailbox never exceeds its limit, a closed connection holds nothing, and
\* neither a client's cursor nor a watermark is ahead of the log.
TypeOK ==
    /\ pending \subseteq UNION {ToSet(history[m]) : m \in Matches}
    /\ Cardinality(pending) <= MaxPending
    /\ \A v \in Viewers :
         /\ phase[v] \in {"closed", "handshake", "replaying", "live"}
         /\ Len(mailbox[v]) <= MailboxSize
         /\ phase[v] = "closed" => mailbox[v] = <<>> /\ wire[v] = <<>>
         /\ phase[v] # "replaying" => backlog[v] = <<>>
         /\ cursor[v] \in 0 .. Len(LogOf(v))
         /\ last_sent[v] \in 0 .. Len(LogOf(v))

\* What a viewer has received, then what is on the socket, then what the replay
\* has still to send.
Stream(v) ==
    <<cursor[v]>> \o [i \in DOMAIN wire[v] |-> wire[v][i].event.version]
                  \o [i \in DOMAIN backlog[v] |-> backlog[v][i].event.version]

\* A connection delivers versions in strictly ascending order after the cursor
\* it was given, across the seam between replay and live updates and whatever
\* the order in which concurrent appends publish.
FeedInOrder ==
    \A v \in Viewers : \A i \in 1 .. Len(Stream(v)) - 1 : Stream(v)[i] < Stream(v)[i + 1]

\* The versions that a connection skips.
Gaps(v) ==
    UNION {Stream(v)[i] + 1 .. Stream(v)[i + 1] - 1 : i \in 1 .. Len(Stream(v)) - 1}

\* "subscribe BEFORE replay - no gap" at the seam of the replay and the live
\* updates, wherever appends, answers, reconnects and restarts fall: what a
\* connection skips was evicted from its full mailbox, or was published late or
\* not at all.
GapExplained ==
    \A v \in Viewers : Gaps(v) \subseteq evicted[v] \cup skipped[Watching[v]]

\* Every message, replayed or live, is the update that was committed under its
\* version for the watched match: the state folded by the replay and the state
\* computed by the write-through are the same.  What a client shows is a state
\* the match was in.
FeedTruthful ==
    \A v \in Viewers :
        /\ \A update \in ToSet(mailbox[v]) \cup ToSet(backlog[v]) \cup ToSet(wire[v]) :
             update = LogOf(v)[update.event.version]
        /\ \E i \in 0 .. Len(LogOf(v)) : screen[v] = StateAfter(SubSeq(LogOf(v), 1, i))

\* A viewer that stays connected reaches every version the log had, or a later
\* one, as long as updates are published in their turn: eviction drops the oldest
\* updates, so the newest score arrives.
CatchesUp ==
    \A v \in Viewers : \A n \in 1 .. MaxEvents :
        (phase[v] \in {"replaying", "live"} /\ Len(LogOf(v)) >= n)
            ~> (~ Connected(v) \/ cursor[v] >= n \/ skipped[Watching[v]] # {})
=============================================================================
