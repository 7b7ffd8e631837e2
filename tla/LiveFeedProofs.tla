---------------------------- MODULE LiveFeedProofs ----------------------------
(***************************************************************************)
(* Proofs about the live feed, for every set of matches and viewers and    *)
(* every limit of a mailbox: the invariant FeedInv is inductive, so a      *)
(* connection delivers true updates in ascending order, and what it skips  *)
(* was evicted from its mailbox, published late or never published.        *)
(***************************************************************************)
EXTENDS LiveFeed, ProjectionsProofs, FiniteSetTheorems, SequenceTheorems

-----------------------------------------------------------------------------
(* The inductive invariant.                                                *)

FeedTypes ==
    /\ history \in [Matches -> Seq(Updates)]
    /\ pending \in SUBSET Updates
    /\ IsFiniteSet(pending) /\ Cardinality(pending) <= MaxPending
    /\ phase \in [Viewers -> {"closed", "handshake", "replaying", "live"}]
    /\ mailbox \in [Viewers -> Seq(Updates)]
    /\ backlog \in [Viewers -> Seq(Updates)]
    /\ wire \in [Viewers -> Seq(Updates)]
    /\ last_sent \in [Viewers -> Nat]
    /\ cursor \in [Viewers -> Nat]
    /\ screen \in [Viewers -> States]
    /\ evicted \in [Viewers -> SUBSET Nat]
    /\ skipped \in [Matches -> SUBSET Nat]

\* The i-th update of a log has version i and the state that follows from the one
\* before it; what is pending is in its log.
LogInv ==
    /\ \A m \in Matches : \A i \in DOMAIN history[m] :
         /\ history[m][i].event.match = m
         /\ history[m][i].event.version = i
         /\ history[m][i].state =
              Apply(IF i = 1 THEN InitialState ELSE history[m][i - 1].state,
                    history[m][i].event)
    /\ \A u \in pending :
         /\ u.event.version \in DOMAIN history[u.event.match]
         /\ u = history[u.event.match][u.event.version]

\* The updates of s are those of the watched match.
FromLog(v, s) ==
    \A i \in DOMAIN s : /\ s[i].event.version \in DOMAIN LogOf(v)
                        /\ s[i] = LogOf(v)[s[i].event.version]

\* An update in the mailbox that is older than one before it, or an outstanding one
\* that is older than one in the mailbox, is published late.
MailboxInv(v) ==
    /\ Len(mailbox[v]) <= MailboxSize
    /\ phase[v] = "closed" => mailbox[v] = <<>>
    /\ FromLog(v, mailbox[v])
    /\ \A i, j \in DOMAIN mailbox[v] :
         i < j => \/ mailbox[v][j].event.version > mailbox[v][i].event.version
                  \/ mailbox[v][j].event.version \in skipped[Watching[v]]
    /\ \A u \in pending : \A i \in DOMAIN mailbox[v] :
         u.event.match = Watching[v] =>
            \/ u.event.version > mailbox[v][i].event.version
            \/ u.event.version \in skipped[Watching[v]]

\* The socket holds ascending versions between the client's cursor and the watermark.
SocketInv(v) ==
    /\ cursor[v] <= Len(LogOf(v)) /\ last_sent[v] <= Len(LogOf(v))
    /\ phase[v] \in {"closed", "handshake"} => wire[v] = <<>>
    /\ FromLog(v, wire[v])
    /\ \A i \in DOMAIN wire[v] :
         /\ wire[v][i].event.version > cursor[v]
         /\ \A j \in DOMAIN wire[v] :
              i < j => wire[v][i].event.version < wire[v][j].event.version
    /\ phase[v] \in {"replaying", "live"} =>
         last_sent[v] = IF wire[v] = <<>> THEN cursor[v]
                        ELSE wire[v][Len(wire[v])].event.version

\* The replay goes on where the watermark is, without a gap.
BacklogInv(v) ==
    /\ phase[v] # "replaying" => backlog[v] = <<>>
    /\ \A i \in DOMAIN backlog[v] :
         /\ last_sent[v] + i \in DOMAIN LogOf(v)
         /\ backlog[v][i] = LogOf(v)[last_sent[v] + i]

\* A version up to the watermark is on the socket, and one after the replay in the
\* mailbox or outstanding, unless its gap is explained.
CoverInv(v) ==
    phase[v] \in {"replaying", "live"} =>
        /\ \A n \in cursor[v] + 1 .. last_sent[v] :
             \/ n \in evicted[v] \cup skipped[Watching[v]]
             \/ \E i \in DOMAIN wire[v] : wire[v][i].event.version = n
        /\ \A n \in last_sent[v] + Len(backlog[v]) + 1 .. Len(LogOf(v)) :
             \/ n \in evicted[v] \cup skipped[Watching[v]]
             \/ \E i \in DOMAIN mailbox[v] : mailbox[v][i].event.version = n
             \/ \E u \in pending : u.event.match = Watching[v] /\ u.event.version = n

\* The client shows a state of the match.
ScreenInv(v) ==
    \/ screen[v] = InitialState
    \/ \E i \in DOMAIN LogOf(v) : screen[v] = LogOf(v)[i].state

ViewerInv(v) ==
    MailboxInv(v) /\ SocketInv(v) /\ BacklogInv(v) /\ CoverInv(v) /\ ScreenInv(v)

FeedInv == FeedTypes /\ LogInv /\ \A v \in Viewers : ViewerInv(v)

-----------------------------------------------------------------------------
(* Lemmas about the log and the replay.                                    *)

\* A function on 1 .. n is a sequence.
LEMMA FunctionIsSeq ==
    ASSUME NEW S, NEW n \in Nat, NEW f \in [1 .. n -> S]
    PROVE  f \in Seq(S) /\ Len(f) = n
OBVIOUS

\* An update is an event and the state after it.
LEMMA UpdateFields ==
    ASSUME NEW u \in Updates
    PROVE  /\ u.event \in ScoringEvents(Matches, Keys) /\ u.state \in States
           /\ u.event.match \in Matches /\ u.event.version \in Nat
           /\ u = [event |-> u.event, state |-> u.state]
<1>1. u.event \in ScoringEvents(Matches, Keys) /\ u.state \in States
  BY DEF Updates
<1> QED
  BY <1>1 DEF Updates, ScoringEvents

\* The state of an update has its version.
LEMMA StateVersion ==
    ASSUME FeedTypes, LogInv, NEW m \in Matches, NEW i \in DOMAIN history[m]
    PROVE  /\ history[m][i] \in Updates
           /\ history[m][i].state \in States
           /\ history[m][i].state.version = i
<1>1. history[m] \in Seq(Updates) /\ DOMAIN history[m] = 1 .. Len(history[m])
  BY DEF FeedTypes
<1>2. \A j \in DOMAIN history[m] : history[m][j] \in Updates
  BY <1>1
<1>3. history[m][i].event \in ScoringEvents(Matches, Keys) /\ history[m][i].state \in States
  BY <1>2 DEF Updates
<1> DEFINE before == IF i = 1 THEN InitialState ELSE history[m][i - 1].state
<1>4. before \in States
  <2>1. CASE i = 1
    BY <2>1, InitialStateType
  <2>2. CASE i # 1
    <3>1. i - 1 \in DOMAIN history[m]
      BY <1>1, <2>2
    <3> QED
      BY <1>2, <2>2, <3>1 DEF Updates
  <2> QED
    BY <2>1, <2>2
<1>5. history[m][i].state = Apply(before, history[m][i].event)
  BY DEF LogInv
<1>6. history[m][i].event.version = i
  BY DEF LogInv
<1> HIDE DEF before
<1> QED
  BY <1>2, <1>3, <1>4, <1>5, <1>6, ApplyType

\* The replay sends the updates of the log after the cursor, with the states that
\* were stored for them.
LEMMA ReplayIsLog ==
    ASSUME FeedTypes, LogInv, NEW m \in Matches, NEW last \in 0 .. Len(history[m])
    PROVE  /\ Replay(m, last) \in Seq(Updates)
           /\ Len(Replay(m, last)) = Len(history[m]) - last
           /\ \A i \in 1 .. Len(history[m]) - last :
                last + i \in DOMAIN history[m] /\ Replay(m, last)[i] = history[m][last + i]
<1> DEFINE log == history[m]
           n == Len(log)
           events == [i \in DOMAIN log |-> log[i].event]
           folded == [i \in DOMAIN events |->
                        [event |-> events[i], state |-> Fold(SubSeq(events, 1, i))]]
<1>1. log \in Seq(Updates) /\ n \in Nat /\ DOMAIN log = 1 .. n
  BY DEF FeedTypes
<1>2. DOMAIN events = 1 .. n /\ DOMAIN folded = 1 .. n
  BY <1>1
<1>3. ASSUME NEW i \in 1 .. n
      PROVE  folded[i] = log[i]
  <2> DEFINE prefix == SubSeq(events, 1, i)
  <2>1. events \in Seq(ScoringEvents(Matches, Keys))
    <3>1. ASSUME NEW j \in 1 .. n
          PROVE  log[j].event \in ScoringEvents(Matches, Keys)
      <4>1. log[j] \in Updates
        BY <1>1
      <4> QED
        BY <4>1, UpdateFields
    <3> QED
      BY <1>1, <3>1
  <2>2. Len(events) = n
    BY <1>1, <2>1
  <2>3. DOMAIN prefix = 1 .. i /\ \A k \in 1 .. i : prefix[k] = events[k]
    BY <2>1, <2>2, SubSeqProperties
  <2>4. \A k \in 1 .. i : prefix[k] = log[k].event
    BY <1>1, <2>3
  <2>5. \A k \in 1 .. i :
          log[k].state = Apply(IF k = 1 THEN InitialState ELSE log[k - 1].state,
                               log[k].event)
    BY <1>1 DEF LogInv
  <2>6. i \in Nat /\ i # 0
    OBVIOUS
  <2>7. Fold(prefix) = log[i].state
    <3> HIDE DEF log, prefix
    <3> QED
      BY <2>3, <2>4, <2>5, <2>6, FoldOfChain
  <2>8. folded[i] = [event |-> log[i].event, state |-> log[i].state]
    BY <1>2, <2>7
  <2>9. log[i] \in Updates
    BY <1>1
  <2> HIDE DEF log, folded
  <2> QED
    BY <2>8, <2>9, UpdateFields
<1>4. folded \in Seq(Updates) /\ Len(folded) = n
  <2>1. folded = [i \in 1 .. n |-> folded[i]]
    BY <1>2
  <2> HIDE DEF folded
  <2>2. \A i \in 1 .. n : folded[i] \in Updates
    <3> HIDE DEF log, n
    <3> QED
      BY <1>1, <1>3, ElementOfSeq
  <2>3. folded \in [1 .. n -> Updates]
    BY <2>1, <2>2
  <2> HIDE DEF n
  <2> QED
    BY <1>1, <2>3, FunctionIsSeq
<1>5. Replay(m, last) = SubSeq(folded, last + 1, n)
  <2>1. Replay(m, last) = SubSeq(folded, last + 1, Len(folded))
    BY DEF Replay
  <2> QED
    BY <1>4, <2>1
<1> HIDE DEF folded, events, n
<1>6. /\ SubSeq(folded, last + 1, n) \in Seq(Updates)
      /\ Len(SubSeq(folded, last + 1, n)) = n - last
      /\ \A i \in 1 .. n - last : SubSeq(folded, last + 1, n)[i] = folded[last + i]
  <2>1. last \in 0 .. n
    BY DEF n
  <2> QED
    BY <1>1, <1>4, <2>1, SubSeqProperties
<1>7. \A i \in 1 .. n - last : last + i \in 1 .. n
  BY <1>1 DEF n
<1> QED
  BY <1>1, <1>3, <1>5, <1>6, <1>7 DEF n

-----------------------------------------------------------------------------
(* FeedInv is inductive: the write side.                                   *)

\* A server that has just started, with an empty log and no connection.
LEMMA FeedInvInit == Init => FeedInv
<1> SUFFICES ASSUME Init PROVE FeedInv
  OBVIOUS
<1>1. FeedTypes
  BY FS_EmptySet, InitialStateType, FeedAssumption
  DEF Init, LogInit, FeedTypes
<1>2. LogInv
  BY DEF Init, LogInit, LogInv
<1>3. ASSUME NEW v \in Viewers
      PROVE  ViewerInv(v)
  <2>1. LogOf(v) = <<>>
    BY FeedAssumption DEF Init, LogInit, LogOf
  <2>2. /\ phase[v] = "closed" /\ mailbox[v] = <<>> /\ backlog[v] = <<>>
        /\ wire[v] = <<>> /\ last_sent[v] = 0 /\ cursor[v] = 0
        /\ screen[v] = InitialState /\ pending = {}
    BY DEF Init, LogInit
  <2> QED
    BY <2>1, <2>2, FeedAssumption
    DEF ViewerInv, MailboxInv, FromLog, SocketInv, BacklogInv, CoverInv, ScreenInv
<1> QED
  BY <1>1, <1>2, <1>3 DEF FeedInv

\* What Score does: one log gets its next update, which is pending.
LEMMA ScoreEffect ==
    ASSUME FeedInv, Score
    PROVE  \E m \in Matches, u \in Updates :
              /\ u.event.match = m /\ u.event.version = Len(history[m]) + 1
              /\ u.state = Apply(StateAfter(history[m]), u.event)
              /\ history' = [history EXCEPT ![m] = Append(@, u)]
              /\ pending' = pending \cup {u}
<1>0. PICK m \in Matches, type \in ScoredTypes : \E payload \in Payloads(type) :
        AppendEvent(m, CHOOSE k \in FreshKeys : TRUE, type, payload[1], payload[2])
  BY DEF Score
<1>1. PICK payload \in Payloads(type) :
        AppendEvent(m, CHOOSE k \in FreshKeys : TRUE, type, payload[1], payload[2])
  BY <1>0
<1> DEFINE k == CHOOSE k \in FreshKeys : TRUE
           event == [match |-> m, version |-> NextVersion(m), type |-> type,
                     score_home |-> payload[1], score_away |-> payload[2], key |-> k]
           u == [event |-> event, state |-> Apply(StateAfter(history[m]), event)]
<1>2. /\ history' = [history EXCEPT ![m] = Append(@, u)]
      /\ pending' = pending \cup {u}
  BY <1>1 DEF AppendEvent
<1>3. event \in ScoringEvents(Matches, Keys)
  <2>1. k \in Keys
    BY DEF Score, FreshKeys
  <2>2. payload[1] \in Int /\ payload[2] \in Int
    <3>1. CASE type = "score_correction"
      BY <3>1, ScoresAssumption DEF Payloads
    <3>2. CASE type # "score_correction"
      BY <3>2 DEF Payloads
    <3> QED
      BY <3>1, <3>2
  <2>3. NextVersion(m) \in Nat
    BY DEF FeedInv, FeedTypes, NextVersion
  <2>4. type \in EventTypes
    BY FeedAssumption
  <2> HIDE DEF k
  <2> QED
    BY <2>1, <2>2, <2>3, <2>4 DEF ScoringEvents
<1>4. StateAfter(history[m]) \in States
  <2>1. CASE history[m] = <<>>
    BY <2>1, InitialStateType DEF StateAfter
  <2>2. CASE history[m] # <<>>
    <3>1. Len(history[m]) \in DOMAIN history[m]
      BY <2>2, EmptySeq, LenProperties DEF FeedInv, FeedTypes
    <3> QED
      BY <2>2, <3>1, StateVersion DEF StateAfter, FeedInv
  <2> QED
    BY <2>1, <2>2
<1>5. u.event = event /\ u.state = Apply(StateAfter(history[m]), event)
  OBVIOUS
<1>6. event.match = m /\ event.version = Len(history[m]) + 1
  BY DEF NextVersion
<1>7. u \in Updates
  <2> HIDE DEF event
  <2> QED
    BY <1>3, <1>4, ApplyType DEF Updates
<1> HIDE DEF u, event
<1> QED
  BY <1>2, <1>5, <1>6, <1>7

\* A commit lengthens the log of its match; what was sent stays a part of it.
LEMMA ScoreStep ==
    ASSUME FeedInv, Score
    PROVE  FeedInv'
<1> USE DEF FeedInv
<1>1. PICK m \in Matches, u \in Updates :
        /\ u.event.match = m /\ u.event.version = Len(history[m]) + 1
        /\ u.state = Apply(StateAfter(history[m]), u.event)
        /\ history' = [history EXCEPT ![m] = Append(@, u)]
        /\ pending' = pending \cup {u}
  BY ScoreEffect
<1> DEFINE n == Len(history[m])
<1>2. /\ Cardinality(pending) < MaxPending
      /\ UNCHANGED feedVars
  BY DEF Score
<1>3. n \in Nat /\ DOMAIN history[m] = 1 .. n /\ history[m] \in Seq(Updates)
  BY LenProperties DEF FeedTypes
<1>4. /\ history'[m] \in Seq(Updates)
      /\ DOMAIN history'[m] = 1 .. n + 1 /\ Len(history'[m]) = n + 1
      /\ \A i \in 1 .. n : history'[m][i] = history[m][i]
      /\ history'[m][n + 1] = u
      /\ \A x \in Matches : x # m => history'[x] = history[x]
  <2>1. history'[m] = Append(history[m], u) /\ \A x \in Matches : x # m => history'[x] = history[x]
    BY <1>1 DEF FeedTypes
  <2> QED
    BY <1>3, <2>1, AppendProperties, LenProperties
<1>5. FeedTypes'
  <2>1. history' \in [Matches -> Seq(Updates)]
    BY <1>1, <1>3, AppendProperties DEF FeedTypes
  <2>2. IsFiniteSet(pending') /\ Cardinality(pending') <= MaxPending
    <3>0. IsFiniteSet(pending)
      BY DEF FeedTypes
    <3>1. Cardinality(pending) \in Nat
      BY <3>0, FS_CardinalityType
    <3>2. /\ IsFiniteSet(pending \cup {u})
          /\ \/ Cardinality(pending \cup {u}) = Cardinality(pending)
             \/ Cardinality(pending \cup {u}) = Cardinality(pending) + 1
      BY <3>0, FS_AddElement, Zenon
    <3> QED
      BY <1>1, <1>2, <3>1, <3>2, FeedAssumption
  <2> QED
    BY <1>1, <1>2, <2>1, <2>2 DEF FeedTypes, feedVars
<1>6. LogInv'
  <2>1. ASSUME NEW x \in Matches, NEW i \in DOMAIN history'[x]
        PROVE  /\ history'[x][i].event.match = x
               /\ history'[x][i].event.version = i
               /\ history'[x][i].state =
                    Apply(IF i = 1 THEN InitialState ELSE history'[x][i - 1].state,
                          history'[x][i].event)
    <3>1. CASE x # m
      <4>1. history'[x] = history[x]
        BY <1>4, <3>1
      <4>2. i \in DOMAIN history[x]
        BY <2>1, <4>1
      <4> QED
        BY <4>1, <4>2 DEF LogInv
    <3>2. CASE x = m /\ i \in 1 .. n
      <4>1. i # 1 => i - 1 \in 1 .. n
        BY <1>3, <3>2
      <4>2. /\ history'[x][i] = history[m][i]
            /\ i # 1 => history'[x][i - 1] = history[m][i - 1]
        BY <1>4, <3>2, <4>1
      <4>3. i \in DOMAIN history[m]
        BY <1>3, <3>2
      <4> HIDE DEF n
      <4> QED
        BY <3>2, <4>2, <4>3 DEF LogInv
    <3>3. CASE x = m /\ i = n + 1
      <4>1. i # 1 => i - 1 \in 1 .. n /\ i - 1 = n
        BY <1>3, <3>3
      <4>2. StateAfter(history[m]) = IF i = 1 THEN InitialState ELSE history'[x][i - 1].state
        <5>1. history[m] = <<>> <=> n = 0
          BY <1>3, EmptySeq
        <5> QED
          BY <1>3, <1>4, <3>3, <4>1, <5>1 DEF StateAfter
      <4> QED
        BY <1>1, <1>4, <3>3, <4>2
    <3> QED
      BY <1>3, <1>4, <2>1, <3>1, <3>2, <3>3
  <2>2. ASSUME NEW w \in pending'
        PROVE  /\ w.event.version \in DOMAIN history'[w.event.match]
               /\ w = history'[w.event.match][w.event.version]
    <3>1. CASE w = u
      BY <1>1, <1>3, <1>4, <3>1
    <3>2. CASE w \in pending
      <4> DEFINE x == w.event.match
      <4>1. x \in Matches
        BY <3>2, UpdateFields DEF FeedTypes
      <4>2. w.event.version \in DOMAIN history[x] /\ w = history[x][w.event.version]
        BY <3>2 DEF LogInv
      <4>3. CASE x = m
        BY <1>3, <1>4, <4>2, <4>3
      <4>4. CASE x # m
        BY <1>4, <4>1, <4>2, <4>4
      <4> QED
        BY <4>3, <4>4
    <3> QED
      BY <1>1, <2>2, <3>1, <3>2
  <2> QED
    BY <2>1, <2>2 DEF LogInv
<1>7. ASSUME NEW v \in Viewers
      PROVE  ViewerInv(v)'
  <2>1. /\ UNCHANGED <<phase[v], mailbox[v], backlog[v], last_sent[v], wire[v], cursor[v],
                       screen[v], evicted[v], skipped[Watching[v]]>>
        /\ Watching[v] \in Matches
    BY <1>2, FeedAssumption DEF feedVars
  <2>2. /\ DOMAIN LogOf(v) \subseteq DOMAIN LogOf(v)'
        /\ \A i \in DOMAIN LogOf(v) : LogOf(v)'[i] = LogOf(v)[i]
        /\ Len(LogOf(v)) \in Nat /\ Len(LogOf(v)') \in Nat
        /\ Len(LogOf(v)) <= Len(LogOf(v)')
        /\ DOMAIN LogOf(v) = 1 .. Len(LogOf(v))
    <3>1. CASE Watching[v] = m
      BY <1>3, <1>4, <3>1 DEF LogOf
    <3>2. CASE Watching[v] # m
      <4>1. LogOf(v)' = LogOf(v)
        BY <1>4, <2>1, <3>2 DEF LogOf
      <4>2. LogOf(v) \in Seq(Updates)
        BY <2>1 DEF LogOf, FeedTypes
      <4> QED
        BY <4>1, <4>2, LenProperties
    <3> QED
      BY <3>1, <3>2
  <2>3. ViewerInv(v)
    OBVIOUS
  <2>4. MailboxInv(v)'
    <3>1. FromLog(v, mailbox[v])'
      BY <2>1, <2>2, <2>3 DEF ViewerInv, MailboxInv, FromLog
    <3>2. ASSUME NEW w \in pending', NEW i \in DOMAIN mailbox[v],
                 w.event.match = Watching[v]
          PROVE  \/ w.event.version > mailbox[v][i].event.version
                 \/ w.event.version \in skipped[Watching[v]]
      <4>1. CASE w = u
        <5>1. mailbox[v][i].event.version \in 1 .. n
          BY <1>1, <1>3, <2>3, <3>2, <4>1 DEF ViewerInv, MailboxInv, FromLog, LogOf
        <5> QED
          BY <1>1, <1>3, <4>1, <5>1
      <4>2. CASE w \in pending
        BY <2>3, <3>2, <4>2 DEF ViewerInv, MailboxInv
      <4> QED
        BY <1>1, <4>1, <4>2
    <3> QED
      BY <2>1, <2>3, <3>1, <3>2 DEF ViewerInv, MailboxInv
  <2>5. SocketInv(v)'
    <3>1. FromLog(v, wire[v])'
      BY <2>1, <2>2, <2>3 DEF ViewerInv, SocketInv, FromLog
    <3>2. cursor[v] <= Len(LogOf(v)') /\ last_sent[v] <= Len(LogOf(v)')
      BY <2>2, <2>3 DEF ViewerInv, SocketInv, FeedTypes
    <3> QED
      BY <2>1, <2>3, <3>1, <3>2 DEF ViewerInv, SocketInv
  <2>6. BacklogInv(v)'
    BY <2>1, <2>2, <2>3 DEF ViewerInv, BacklogInv
  <2>7. CoverInv(v)'
    <3> SUFFICES ASSUME phase[v] \in {"replaying", "live"},
                        NEW k \in last_sent[v] + Len(backlog[v]) + 1 .. Len(LogOf(v)')
                 PROVE  \/ k \in evicted[v] \cup skipped[Watching[v]]
                        \/ \E i \in DOMAIN mailbox[v] : mailbox[v][i].event.version = k
                        \/ \E w \in pending' : w.event.match = Watching[v] /\ w.event.version = k
      BY <2>1, <2>3 DEF ViewerInv, CoverInv
    <3>1. CASE k <= Len(LogOf(v))
      <4>1. k \in last_sent[v] + Len(backlog[v]) + 1 .. Len(LogOf(v))
        BY <2>2, <3>1
      <4> QED
        BY <1>1, <2>3, <4>1 DEF ViewerInv, CoverInv
    <3>2. CASE ~ (k <= Len(LogOf(v)))
      <4>1. k \in Nat /\ k <= Len(LogOf(v)')
        BY LenProperties, <2>2 DEF FeedTypes
      <4>2. Watching[v] = m /\ k = n + 1
        BY <1>3, <1>4, <2>1, <2>2, <3>2, <4>1 DEF LogOf
      <4> QED
        BY <1>1, <4>2
    <3> QED
      BY <3>1, <3>2
  <2>8. ScreenInv(v)'
    BY <2>1, <2>2, <2>3 DEF ViewerInv, ScreenInv
  <2> QED
    BY <2>4, <2>5, <2>6, <2>7, <2>8 DEF ViewerInv
<1> QED
  BY <1>5, <1>6, <1>7

\* Ending an append leaves the log as it is.
LEMMA PendingShrinks ==
    ASSUME FeedInv, UNCHANGED history, pending' \subseteq pending
    PROVE  /\ LogInv'
           /\ history' \in [Matches -> Seq(Updates)]
           /\ pending' \in SUBSET Updates
           /\ IsFiniteSet(pending') /\ Cardinality(pending') <= MaxPending
           /\ \A v \in Viewers : LogOf(v)' = LogOf(v)
<1>1. LogInv'
  BY DEF FeedInv, LogInv
<1>2. IsFiniteSet(pending) /\ Cardinality(pending) <= MaxPending
  BY DEF FeedInv, FeedTypes
<1>3. IsFiniteSet(pending') /\ Cardinality(pending') <= Cardinality(pending)
  BY <1>2, FS_Subset
<1>4. Cardinality(pending') \in Nat /\ Cardinality(pending) \in Nat
  BY <1>2, <1>3, FS_CardinalityType
<1>5. history' \in [Matches -> Seq(Updates)] /\ pending' \in SUBSET Updates
  BY DEF FeedInv, FeedTypes
<1>6. \A v \in Viewers : LogOf(v)' = LogOf(v)
  BY DEF LogOf
<1> QED
  BY <1>1, <1>2, <1>3, <1>4, <1>5, <1>6, FeedAssumption

\* A full mailbox loses its head, and gets the update at its end.
LEMMA OfferedEffect ==
    ASSUME FeedInv, NEW v \in Viewers, NEW u \in Updates
    PROVE  LET n == Len(mailbox[v])
               off == IF Full(v) THEN 1 ELSE 0
           IN  /\ n \in Nat /\ DOMAIN mailbox[v] = 1 .. n
               /\ Full(v) => n >= 1 /\ Head(mailbox[v]) = mailbox[v][1]
               /\ Offered(v, u) \in Seq(Updates)
               /\ DOMAIN Offered(v, u) = 1 .. n - off + 1
               /\ Len(Offered(v, u)) = n - off + 1
               /\ Len(Offered(v, u)) <= MailboxSize
               /\ \A i \in 1 .. n - off : Offered(v, u)[i] = mailbox[v][i + off]
               /\ Offered(v, u)[n - off + 1] = u
<1> DEFINE n == Len(mailbox[v])
           kept == IF Full(v) THEN Tail(mailbox[v]) ELSE mailbox[v]
<1>1. mailbox[v] \in Seq(Updates) /\ n \in Nat /\ DOMAIN mailbox[v] = 1 .. n
  BY LenProperties DEF FeedInv, FeedTypes
<1>2. n <= MailboxSize /\ MailboxSize \in Nat /\ MailboxSize >= 1
  BY FeedAssumption DEF FeedInv, ViewerInv, MailboxInv
<1>3. Offered(v, u) = Append(kept, u)
  BY DEF Offered
<1>4. CASE Full(v)
  <2>1. n >= 1 /\ mailbox[v] # <<>> /\ n = MailboxSize
    BY <1>1, <1>2, <1>4 DEF Full
  <2>2. /\ kept \in Seq(Updates) /\ Len(kept) = n - 1
        /\ \A i \in 1 .. n - 1 : kept[i] = mailbox[v][i + 1]
        /\ Head(mailbox[v]) = mailbox[v][1]
    BY <1>1, <1>4, <2>1, HeadTailProperties
  <2> HIDE DEF kept, n
  <2>3. /\ Append(kept, u) \in Seq(Updates) /\ Len(Append(kept, u)) = n
        /\ \A i \in 1 .. n - 1 : Append(kept, u)[i] = kept[i]
        /\ Append(kept, u)[n] = u
    BY <1>1, <2>2, AppendProperties
  <2> QED
    BY <1>1, <1>2, <1>3, <1>4, <2>1, <2>2, <2>3, LenProperties DEF n
<1>5. CASE ~ Full(v)
  <2>1. n + 1 <= MailboxSize
    BY <1>1, <1>2, <1>5 DEF Full
  <2>2. kept = mailbox[v]
    BY <1>5
  <2> HIDE DEF kept
  <2>3. /\ Append(kept, u) \in Seq(Updates) /\ Len(Append(kept, u)) = n + 1
        /\ \A i \in 1 .. n : Append(kept, u)[i] = mailbox[v][i]
        /\ Append(kept, u)[n + 1] = u
    BY <1>1, <2>2, AppendProperties
  <2> HIDE DEF n
  <2> QED
    BY <1>1, <1>2, <1>3, <1>5, <2>1, <2>3, LenProperties DEF n
<1> QED
  BY <1>4, <1>5

\* Two outstanding updates of a match have different versions.
LEMMA PendingApart ==
    ASSUME FeedInv, NEW u \in pending, NEW w \in pending, u # w,
           u.event.match = w.event.match
    PROVE  /\ u.event.version \in Nat /\ w.event.version \in Nat
           /\ u.event.version # w.event.version
BY UpdateFields DEF FeedInv, FeedTypes, LogInv

\* publish() puts an update in the mailbox of every subscriber of its match; the older
\* versions that are not published yet are, from then on, skipped.
LEMMA PublishStep ==
    ASSUME FeedInv, NEW u \in pending, PublishUpdate(u)
    PROVE  FeedInv'
<1> USE DEF FeedInv
<1> DEFINE m == u.event.match
           x == u.event.version
           late == {n \in Outstanding(m) : n < x}
<1>1. /\ pending' = pending \ {u}
      /\ UNCHANGED <<history, phase, backlog, last_sent, wire, cursor, screen>>
      /\ skipped' = [skipped EXCEPT ![m] = @ \cup late]
  BY DEF PublishUpdate, Publish, Skip
<1>2. /\ u \in Updates /\ m \in Matches /\ x \in Nat
      /\ x \in DOMAIN history[m] /\ u = history[m][x]
  BY UpdateFields DEF FeedTypes, LogInv
<1>3. /\ LogInv' /\ history' \in [Matches -> Seq(Updates)]
      /\ pending' \in SUBSET Updates
      /\ IsFiniteSet(pending') /\ Cardinality(pending') <= MaxPending
      /\ \A v \in Viewers : LogOf(v)' = LogOf(v)
  BY <1>1, PendingShrinks
<1>4. ASSUME NEW v \in Viewers
      PROVE  IF Connected(v) /\ Watching[v] = m
             THEN /\ mailbox'[v] = Offered(v, u)
                  /\ evicted'[v] = IF Full(v)
                                   THEN evicted[v] \cup {Head(mailbox[v]).event.version}
                                   ELSE evicted[v]
             ELSE mailbox'[v] = mailbox[v] /\ evicted'[v] = evicted[v]
  BY DEF PublishUpdate, Subscribed
<1>5. /\ skipped' \in [Matches -> SUBSET Nat]
      /\ \A y \in Matches : skipped[y] \subseteq skipped'[y]
      /\ late \subseteq skipped'[m]
  <2>1. late \subseteq Nat
    <3>1. \A w \in pending : w.event.version \in Nat
      BY UpdateFields DEF FeedTypes
    <3> QED
      BY <3>1 DEF Outstanding
  <2> HIDE DEF late
  <2> QED
    BY <1>1, <1>2, <2>1 DEF FeedTypes
<1>6. FeedTypes'
  <2>1. \A v \in Viewers : mailbox'[v] \in Seq(Updates) /\ evicted'[v] \in SUBSET Nat
    <3> SUFFICES ASSUME NEW v \in Viewers
                 PROVE  mailbox'[v] \in Seq(Updates) /\ evicted'[v] \in SUBSET Nat
      OBVIOUS
    <3>1. mailbox[v] \in Seq(Updates) /\ evicted[v] \in SUBSET Nat
      BY DEF FeedTypes
    <3>2. Offered(v, u) \in Seq(Updates)
      BY <1>2, OfferedEffect
    <3>3. Full(v) => Head(mailbox[v]).event.version \in Nat
      <4> SUFFICES ASSUME Full(v) PROVE Head(mailbox[v]).event.version \in Nat
        OBVIOUS
      <4>1. Head(mailbox[v]) = mailbox[v][1] /\ 1 \in 1 .. Len(mailbox[v])
        <5>1. Len(mailbox[v]) \in Nat /\ Len(mailbox[v]) >= 1 /\ Head(mailbox[v]) = mailbox[v][1]
          BY <1>2, OfferedEffect
        <5> QED
          BY <5>1
      <4>2. mailbox[v][1] \in Updates
        BY <3>1, <4>1, ElementOfSeq
      <4> QED
        BY <4>1, <4>2, UpdateFields
    <3> QED
      BY <1>4, <3>1, <3>2, <3>3
  <2>2. /\ mailbox' = [v \in Viewers |-> mailbox'[v]]
        /\ evicted' = [v \in Viewers |-> evicted'[v]]
    BY DEF PublishUpdate
  <2> QED
    BY <1>1, <1>3, <1>5, <2>1, <2>2 DEF FeedTypes
<1>7. ASSUME NEW v \in Viewers
      PROVE  ViewerInv(v)'
  <2> DEFINE n == Len(mailbox[v])
             off == IF Full(v) THEN 1 ELSE 0
  <2>1. /\ n \in Nat /\ DOMAIN mailbox[v] = 1 .. n
        /\ off \in {0, 1} /\ (off = 1 <=> Full(v))
        /\ Full(v) => n >= 1 /\ Head(mailbox[v]) = mailbox[v][1]
        /\ DOMAIN Offered(v, u) = 1 .. n - off + 1
        /\ Len(Offered(v, u)) <= MailboxSize
        /\ \A i \in 1 .. n - off : Offered(v, u)[i] = mailbox[v][i + off]
        /\ Offered(v, u)[n - off + 1] = u
    <3>1. off \in {0, 1} /\ (off = 1 <=> Full(v))
      OBVIOUS
    <3> HIDE DEF FeedInv
    <3> QED
      BY <1>2, <3>1, OfferedEffect
  <2>2. LogOf(v)' = LogOf(v) /\ Watching[v] \in Matches
    BY <1>3, FeedAssumption
  <2>3. /\ UNCHANGED <<phase[v], backlog[v], last_sent[v], wire[v], cursor[v], screen[v]>>
        /\ skipped[Watching[v]] \subseteq skipped'[Watching[v]]
        /\ evicted[v] \subseteq evicted'[v]
    BY <1>1, <1>4, <1>5, <2>2
  <2>4. ViewerInv(v)
    OBVIOUS
  <2> HIDE DEF FeedInv, late, n, off
  <2>5. CASE ~ (Connected(v) /\ Watching[v] = m)
    <3>1. mailbox'[v] = mailbox[v]
      BY <1>4, <2>5
    <3>2. MailboxInv(v)'
      BY <1>1, <2>2, <2>3, <2>4, <3>1 DEF ViewerInv, MailboxInv, FromLog
    <3>3. CoverInv(v)'
      <4> SUFFICES ASSUME phase[v] \in {"replaying", "live"}
                   PROVE  CoverInv(v)'
        BY <2>3 DEF CoverInv
      <4>1. Watching[v] # m
        BY <2>5 DEF Connected
      <4>2. \A w \in pending : w.event.match = Watching[v] => w \in pending'
        BY <1>1, <4>1
      <4> QED
        BY <2>2, <2>3, <2>4, <3>1, <4>2 DEF ViewerInv, CoverInv
    <3> QED
      BY <2>2, <2>3, <2>4, <3>2, <3>3
      DEF ViewerInv, SocketInv, FromLog, BacklogInv, ScreenInv
  <2>6. CASE Connected(v) /\ Watching[v] = m
    <3>1. mailbox'[v] = Offered(v, u)
      BY <1>4, <2>6
    <3>2. x \in DOMAIN LogOf(v) /\ u = LogOf(v)[x]
      BY <1>2, <2>6 DEF LogOf
    <3>3. ASSUME NEW i \in 1 .. n - off
          PROVE  i + off \in 1 .. n
      BY <2>1
    <3>4. MailboxInv(v)'
      <4>1. FromLog(v, mailbox[v])'
        <5> SUFFICES ASSUME NEW i \in 1 .. n - off + 1
                     PROVE  /\ Offered(v, u)[i].event.version \in DOMAIN LogOf(v)
                            /\ Offered(v, u)[i] = LogOf(v)[Offered(v, u)[i].event.version]
          BY <2>1, <2>2, <3>1 DEF FromLog
        <5>1. CASE i = n - off + 1
          BY <2>1, <3>2, <5>1
        <5>2. CASE i # n - off + 1
          <6>1. i \in 1 .. n - off
            BY <2>1, <5>2
          <6> QED
            BY <2>1, <2>4, <3>3, <6>1 DEF ViewerInv, MailboxInv, FromLog
        <5> QED
          BY <5>1, <5>2
      <4>2. ASSUME NEW i \in 1 .. n - off + 1, NEW j \in 1 .. n - off + 1, i < j
            PROVE  \/ Offered(v, u)[j].event.version > Offered(v, u)[i].event.version
                   \/ Offered(v, u)[j].event.version \in skipped'[Watching[v]]
        <5>1. i \in 1 .. n - off /\ i + off \in 1 .. n
          BY <2>1, <3>3, <4>2
        <5>2. CASE j = n - off + 1
          <6>1. \/ x > mailbox[v][i + off].event.version
                \/ x \in skipped[Watching[v]]
            BY <2>1, <2>4, <2>6, <5>1 DEF ViewerInv, MailboxInv
          <6> QED
            BY <2>1, <2>3, <5>1, <5>2, <6>1
        <5>3. CASE j # n - off + 1
          <6>1. j \in 1 .. n - off /\ j + off \in 1 .. n /\ i + off < j + off
            BY <2>1, <3>3, <4>2, <5>3
          <6>2. \/ mailbox[v][j + off].event.version > mailbox[v][i + off].event.version
                \/ mailbox[v][j + off].event.version \in skipped[Watching[v]]
            BY <2>1, <2>4, <5>1, <6>1 DEF ViewerInv, MailboxInv
          <6> QED
            BY <2>1, <2>3, <5>1, <6>1, <6>2
        <5> QED
          BY <5>2, <5>3
      <4>3. ASSUME NEW w \in pending', NEW i \in 1 .. n - off + 1,
                   w.event.match = Watching[v]
            PROVE  \/ w.event.version > Offered(v, u)[i].event.version
                   \/ w.event.version \in skipped'[Watching[v]]
        <5>1. CASE i = n - off + 1
          <6>1. w \in pending /\ w # u
            BY <1>1, <4>3
          <6>2. w.event.version \in Nat /\ w.event.version # x
            BY <2>6, <4>3, <6>1, PendingApart
          <6>3. w.event.version < x => w.event.version \in late
            BY <2>6, <4>3, <6>1 DEF late, Outstanding
          <6> QED
            BY <1>2, <1>5, <2>1, <2>6, <5>1, <6>2, <6>3
        <5>2. CASE i # n - off + 1
          <6>1. i \in 1 .. n - off
            BY <2>1, <5>2
          <6>2. i + off \in 1 .. n
            BY <3>3, <6>1
          <6>3. w \in pending
            BY <1>1
          <6>4. \/ w.event.version > mailbox[v][i + off].event.version
                \/ w.event.version \in skipped[Watching[v]]
            BY <2>1, <2>4, <4>3, <6>2, <6>3 DEF ViewerInv, MailboxInv
          <6> QED
            BY <2>1, <2>3, <6>1, <6>4
        <5> QED
          BY <5>1, <5>2
      <4>4. Len(mailbox'[v]) <= MailboxSize /\ phase'[v] # "closed"
        BY <2>1, <2>3, <2>6, <3>1 DEF Connected
      <4> QED
        BY <2>1, <3>1, <4>1, <4>2, <4>3, <4>4 DEF MailboxInv
    <3>5. CoverInv(v)'
      <4> SUFFICES ASSUME phase[v] \in {"replaying", "live"},
                          NEW k \in last_sent[v] + Len(backlog[v]) + 1 .. Len(LogOf(v))
                   PROVE  \/ k \in evicted'[v] \cup skipped'[Watching[v]]
                          \/ \E i \in DOMAIN mailbox'[v] : mailbox'[v][i].event.version = k
                          \/ \E w \in pending' : w.event.match = Watching[v] /\ w.event.version = k
        BY <2>2, <2>3, <2>4 DEF ViewerInv, CoverInv
      <4>1. \/ k \in evicted[v] \cup skipped[Watching[v]]
            \/ \E i \in 1 .. n : mailbox[v][i].event.version = k
            \/ \E w \in pending : w.event.match = Watching[v] /\ w.event.version = k
        BY <2>1, <2>4 DEF ViewerInv, CoverInv
      <4>2. ASSUME NEW i \in 1 .. n, mailbox[v][i].event.version = k
            PROVE  \/ k \in evicted'[v]
                   \/ \E j \in DOMAIN mailbox'[v] : mailbox'[v][j].event.version = k
        <5>1. CASE i - off \in 1 .. n - off
          <6>1. (i - off) + off = i /\ i - off \in 1 .. n - off + 1
            BY <2>1, <5>1
          <6>2. Offered(v, u)[i - off] = mailbox[v][i]
            BY <2>1, <5>1, <6>1
          <6> QED
            BY <2>1, <3>1, <4>2, <6>1, <6>2
        <5>2. CASE i - off \notin 1 .. n - off
          <6>1. Full(v) /\ i = 1
            BY <2>1, <5>2
          <6> QED
            BY <1>4, <2>1, <2>6, <4>2, <6>1
        <5> QED
          BY <5>1, <5>2
      <4>3. ASSUME NEW w \in pending, w.event.match = Watching[v], w.event.version = k
            PROVE  \/ \E j \in DOMAIN mailbox'[v] : mailbox'[v][j].event.version = k
                   \/ w \in pending'
        <5>1. n - off + 1 \in DOMAIN Offered(v, u)
          BY <2>1
        <5> QED
          BY <1>1, <2>1, <3>1, <4>3, <5>1
      <4> QED
        BY <2>3, <4>1, <4>2, <4>3
    <3> QED
      BY <2>2, <2>3, <2>4, <3>4, <3>5
      DEF ViewerInv, SocketInv, FromLog, BacklogInv, ScreenInv
  <2> QED
    BY <2>5, <2>6
<1> QED
  BY <1>3, <1>6, <1>7

\* An update whose answer is lost is never published.
LEMMA LoseStep ==
    ASSUME FeedInv, NEW u \in pending, LoseUpdate(u)
    PROVE  FeedInv'
<1> USE DEF FeedInv
<1> DEFINE m == u.event.match
           x == u.event.version
<1>1. /\ pending' = pending \ {u}
      /\ UNCHANGED <<history, phase, mailbox, backlog, last_sent, wire, cursor, screen, evicted>>
      /\ skipped' = [skipped EXCEPT ![m] = @ \cup {x}]
  BY DEF LoseUpdate, LoseAnswer, Skip
<1>2. m \in Matches /\ x \in Nat
  BY UpdateFields DEF FeedTypes
<1>3. /\ LogInv' /\ history' \in [Matches -> Seq(Updates)]
      /\ pending' \in SUBSET Updates
      /\ IsFiniteSet(pending') /\ Cardinality(pending') <= MaxPending
      /\ \A v \in Viewers : LogOf(v)' = LogOf(v)
  BY <1>1, PendingShrinks
<1>4. /\ skipped' \in [Matches -> SUBSET Nat]
      /\ \A y \in Matches : skipped[y] \subseteq skipped'[y]
      /\ x \in skipped'[m]
  BY <1>1, <1>2 DEF FeedTypes
<1>5. FeedTypes'
  BY <1>1, <1>3, <1>4 DEF FeedTypes
<1>6. ASSUME NEW v \in Viewers
      PROVE  ViewerInv(v)'
  <2>1. /\ UNCHANGED <<phase[v], mailbox[v], backlog[v], last_sent[v], wire[v], cursor[v],
                       screen[v], evicted[v]>>
        /\ LogOf(v)' = LogOf(v)
        /\ skipped[Watching[v]] \subseteq skipped'[Watching[v]]
    BY <1>1, <1>3, <1>4, FeedAssumption
  <2>2. \A w \in pending : w.event.match = Watching[v] =>
           w \in pending' \/ w.event.version \in skipped'[Watching[v]]
    BY <1>1, <1>4
  <2>3. ViewerInv(v) /\ pending' \subseteq pending
    BY <1>1
  <2> HIDE DEF FeedInv
  <2>4. MailboxInv(v)'
    BY <2>1, <2>3 DEF ViewerInv, MailboxInv, FromLog
  <2>5. CoverInv(v)'
    BY <2>1, <2>2, <2>3 DEF ViewerInv, CoverInv
  <2> QED
    BY <2>1, <2>3, <2>4, <2>5
    DEF ViewerInv, SocketInv, FromLog, BacklogInv, ScreenInv
<1> QED
  BY <1>3, <1>5, <1>6

\* A connection that is gone has nothing queued and nothing on its way.
LEMMA ClosedViewer ==
    ASSUME FeedInv, NEW v \in Viewers, UNCHANGED history,
           phase'[v] = "closed", mailbox'[v] = <<>>, backlog'[v] = <<>>, wire'[v] = <<>>,
           UNCHANGED <<last_sent[v], cursor[v], screen[v]>>
    PROVE  ViewerInv(v)'
<1>1. LogOf(v)' = LogOf(v)
  BY DEF LogOf
<1>2. ViewerInv(v)
  BY DEF FeedInv
<1>3. MailboxInv(v)'
  BY FeedAssumption DEF MailboxInv, FromLog
<1>4. SocketInv(v)' /\ BacklogInv(v)' /\ CoverInv(v)' /\ ScreenInv(v)'
  BY <1>1, <1>2 DEF ViewerInv, SocketInv, FromLog, BacklogInv, CoverInv, ScreenInv
<1> QED
  BY <1>3, <1>4 DEF ViewerInv

\* The end of the process closes every connection and skips what was not published.
LEMMA RestartStep ==
    ASSUME FeedInv, Restart
    PROVE  FeedInv'
<1>1. /\ pending' = {} /\ UNCHANGED <<history, last_sent, cursor, screen, evicted>>
      /\ skipped' = [m \in Matches |-> skipped[m] \cup Outstanding(m)]
      /\ phase' = [v \in Viewers |-> "closed"]
      /\ mailbox' = [v \in Viewers |-> <<>>]
      /\ backlog' = [v \in Viewers |-> <<>>]
      /\ wire' = [v \in Viewers |-> <<>>]
  BY DEF Restart, Closed
<1>2. /\ LogInv' /\ history' \in [Matches -> Seq(Updates)]
      /\ pending' \in SUBSET Updates
      /\ IsFiniteSet(pending') /\ Cardinality(pending') <= MaxPending
  BY <1>1, PendingShrinks
<1>3. skipped' \in [Matches -> SUBSET Nat]
  <2>1. \A u \in pending : u.event.version \in Nat
    BY UpdateFields DEF FeedInv, FeedTypes
  <2>2. \A m \in Matches : Outstanding(m) \subseteq Nat
    BY <2>1 DEF Outstanding
  <2> QED
    BY <1>1, <2>2 DEF FeedInv, FeedTypes
<1>4. FeedTypes'
  BY <1>1, <1>2, <1>3 DEF FeedInv, FeedTypes
<1>5. \A v \in Viewers : ViewerInv(v)'
  BY <1>1, ClosedViewer
<1> QED
  BY <1>2, <1>4, <1>5 DEF FeedInv

-----------------------------------------------------------------------------
(* FeedInv is inductive: the steps of one connection.                      *)

\* Nothing of another viewer changes.
LEMMA OtherViewer ==
    ASSUME FeedInv, NEW w \in Viewers, UNCHANGED <<history, pending, skipped>>,
           UNCHANGED <<phase[w], mailbox[w], backlog[w], last_sent[w], wire[w], cursor[w],
                       screen[w], evicted[w]>>
    PROVE  ViewerInv(w)'
<1>1. LogOf(w)' = LogOf(w)
  BY DEF LogOf
<1>2. ViewerInv(w)
  BY DEF FeedInv
<1>3. MailboxInv(w)'
  BY <1>1, <1>2 DEF ViewerInv, MailboxInv, FromLog
<1>4. SocketInv(w)' /\ BacklogInv(w)' /\ CoverInv(w)' /\ ScreenInv(w)'
  BY <1>1, <1>2 DEF ViewerInv, SocketInv, FromLog, BacklogInv, CoverInv, ScreenInv
<1> QED
  BY <1>3, <1>4 DEF ViewerInv

\* A step of one connection that leaves log and dispatcher alone disturbs no other.
LEMMA LocalStep ==
    ASSUME FeedInv, NEW v \in Viewers, UNCHANGED <<history, pending, skipped>>,
           FeedTypes', ViewerInv(v)',
           \A w \in Viewers : w # v =>
              UNCHANGED <<phase[w], mailbox[w], backlog[w], last_sent[w], wire[w], cursor[w],
                          screen[w], evicted[w]>>
    PROVE  FeedInv'
<1>1. LogInv'
  BY DEF FeedInv, LogInv
<1>2. \A w \in Viewers : w # v => ViewerInv(w)'
  BY OtherViewer
<1> QED
  BY <1>1, <1>2 DEF FeedInv

\* A closed connection holds nothing.
LEMMA DisconnectStep ==
    ASSUME FeedInv, NEW v \in Viewers, Disconnect(v)
    PROVE  FeedInv'
<1>1. /\ UNCHANGED <<history, pending, last_sent, cursor, screen, evicted, skipped>>
      /\ phase' = [w \in Viewers |-> IF w = v THEN "closed" ELSE phase[w]]
      /\ mailbox' = [w \in Viewers |-> IF w = v THEN <<>> ELSE mailbox[w]]
      /\ backlog' = [w \in Viewers |-> IF w = v THEN <<>> ELSE backlog[w]]
      /\ wire' = [w \in Viewers |-> IF w = v THEN <<>> ELSE wire[w]]
  BY DEF Disconnect, Closed, logVars
<1>2. FeedTypes'
  BY <1>1 DEF FeedInv, FeedTypes
<1>3. ViewerInv(v)'
  BY <1>1, ClosedViewer
<1> QED
  BY <1>1, <1>2, <1>3, LocalStep

\* A connection that has subscribed has an empty mailbox, and replays from the
\* cursor that the client holds.
LEMMA ConnectStep ==
    ASSUME FeedInv, NEW v \in Viewers, Connect(v)
    PROVE  FeedInv'
<1>1. /\ phase[v] = "closed" /\ phase' = [phase EXCEPT ![v] = "handshake"]
      /\ mailbox' = [mailbox EXCEPT ![v] = <<>>]
      /\ evicted' = [evicted EXCEPT ![v] = {}]
      /\ UNCHANGED <<history, pending, backlog, last_sent, wire, cursor, screen, skipped>>
  BY DEF Connect, logVars
<1>2. FeedTypes'
  BY <1>1 DEF FeedInv, FeedTypes
<1>3. phase'[v] = "handshake" /\ mailbox'[v] = <<>>
  BY <1>1 DEF FeedInv, FeedTypes
<1>4. ViewerInv(v) /\ LogOf(v)' = LogOf(v)
  BY <1>1 DEF FeedInv, LogOf
<1>5. MailboxInv(v)'
  BY <1>3, FeedAssumption DEF MailboxInv, FromLog
<1>6. SocketInv(v)' /\ BacklogInv(v)' /\ CoverInv(v)' /\ ScreenInv(v)'
  BY <1>1, <1>3, <1>4 DEF ViewerInv, SocketInv, FromLog, BacklogInv, CoverInv, ScreenInv
<1>7. ViewerInv(v)'
  BY <1>5, <1>6 DEF ViewerInv
<1>8. \A w \in Viewers : w # v =>
         UNCHANGED <<phase[w], mailbox[w], backlog[w], last_sent[w], wire[w], cursor[w],
                     screen[w], evicted[w]>>
  BY <1>1 DEF FeedInv, FeedTypes
<1> QED
  BY <1>1, <1>2, <1>7, <1>8, LocalStep

\* A connection's log is a sequence whose i-th update has version i.
LEMMA LogOfViewer ==
    ASSUME FeedInv, NEW v \in Viewers
    PROVE  /\ Watching[v] \in Matches
           /\ LogOf(v) \in Seq(Updates) /\ Len(LogOf(v)) \in Nat
           /\ DOMAIN LogOf(v) = 1 .. Len(LogOf(v))
           /\ \A i \in 1 .. Len(LogOf(v)) :
                 LogOf(v)[i] \in Updates /\ LogOf(v)[i].event.version = i
<1>1. Watching[v] \in Matches
  BY FeedAssumption
<1>2. LogOf(v) \in Seq(Updates)
  BY <1>1 DEF FeedInv, FeedTypes, LogOf
<1>3. \A i \in DOMAIN LogOf(v) : LogOf(v)[i].event.version = i
  BY <1>1 DEF FeedInv, LogInv, LogOf
<1> QED
  BY <1>1, <1>2, <1>3, LenProperties, ElementOfSeq

\* The replay that the handshake reads is the log up to what is committed then.
LEMMA HandshakeStep ==
    ASSUME FeedInv, NEW v \in Viewers, NEW last \in {0, cursor[v]}, Handshake(v, last)
    PROVE  FeedInv'
<1> DEFINE n == Len(LogOf(v))
           B == Replay(Watching[v], last)
<1>1. /\ phase[v] = "handshake" /\ phase' = [phase EXCEPT ![v] = "replaying"]
      /\ backlog' = [backlog EXCEPT ![v] = B]
      /\ last_sent' = [last_sent EXCEPT ![v] = last]
      /\ cursor' = [cursor EXCEPT ![v] = last]
      /\ UNCHANGED <<history, pending, mailbox, wire, screen, evicted, skipped>>
  BY DEF Handshake, logVars
<1>2. /\ ViewerInv(v) /\ n \in Nat /\ DOMAIN LogOf(v) = 1 .. n
      /\ Watching[v] \in Matches
  BY LogOfViewer DEF FeedInv
<1>3. last \in 0 .. n
  BY <1>2 DEF FeedInv, FeedTypes, ViewerInv, SocketInv
<1>4. /\ B \in Seq(Updates) /\ Len(B) = n - last /\ DOMAIN B = 1 .. n - last
      /\ \A i \in 1 .. n - last : last + i \in DOMAIN LogOf(v) /\ B[i] = LogOf(v)[last + i]
  <2>1. last \in 0 .. Len(history[Watching[v]])
    BY <1>3 DEF LogOf
  <2>2. /\ B \in Seq(Updates) /\ Len(B) = Len(history[Watching[v]]) - last
        /\ \A i \in 1 .. Len(history[Watching[v]]) - last :
             /\ last + i \in DOMAIN history[Watching[v]]
             /\ B[i] = history[Watching[v]][last + i]
    BY <1>2, <2>1, ReplayIsLog DEF FeedInv
  <2> HIDE DEF B
  <2> QED
    BY <2>2, LenProperties DEF LogOf
<1> HIDE DEF B, n
<1>5. /\ phase'[v] = "replaying" /\ backlog'[v] = B /\ last_sent'[v] = last /\ cursor'[v] = last
      /\ UNCHANGED <<mailbox[v], wire[v], screen[v], evicted[v]>>
      /\ LogOf(v)' = LogOf(v)
  BY <1>1 DEF FeedInv, FeedTypes, LogOf
<1>6. FeedTypes'
  BY <1>1, <1>2, <1>3, <1>4 DEF FeedInv, FeedTypes
<1>7. wire[v] = <<>>
  BY <1>1, <1>2 DEF ViewerInv, SocketInv
<1>8. MailboxInv(v)' /\ ScreenInv(v)'
  BY <1>1, <1>2, <1>5 DEF ViewerInv, MailboxInv, FromLog, ScreenInv
<1>9. SocketInv(v)'
  BY <1>2, <1>3, <1>5, <1>7 DEF SocketInv, FromLog, n
<1>10. BacklogInv(v)'
  BY <1>4, <1>5 DEF BacklogInv
<1>11. CoverInv(v)'
  <2>1. last_sent'[v] + Len(backlog'[v]) = n /\ Len(LogOf(v)') = n
    BY <1>2, <1>3, <1>4, <1>5 DEF n
  <2>2. cursor'[v] + 1 .. last_sent'[v] = {} /\ n + 1 .. n = {}
    BY <1>2, <1>3, <1>5
  <2> QED
    BY <2>1, <2>2 DEF CoverInv
<1>12. ViewerInv(v)'
  BY <1>8, <1>9, <1>10, <1>11 DEF ViewerInv
<1>13. \A w \in Viewers : w # v =>
          UNCHANGED <<phase[w], mailbox[w], backlog[w], last_sent[w], wire[w], cursor[w],
                      screen[w], evicted[w]>>
  BY <1>1 DEF FeedInv, FeedTypes
<1> QED
  BY <1>1, <1>6, <1>12, <1>13, LocalStep

\* The socket of a connection that is served ends at the watermark.
LEMMA Watermark ==
    ASSUME FeedInv, NEW v \in Viewers, phase[v] \in {"replaying", "live"}
    PROVE  /\ wire[v] \in Seq(Updates) /\ Len(wire[v]) \in Nat
           /\ DOMAIN wire[v] = 1 .. Len(wire[v])
           /\ cursor[v] \in Nat /\ last_sent[v] \in Nat
           /\ cursor[v] <= last_sent[v] /\ last_sent[v] <= Len(LogOf(v))
           /\ \A i \in DOMAIN wire[v] :
                /\ wire[v][i].event.version \in Nat
                /\ wire[v][i].event.version <= last_sent[v]
<1> DEFINE n == Len(wire[v])
<1>1. wire[v] \in Seq(Updates) /\ n \in Nat /\ DOMAIN wire[v] = 1 .. n
  BY LenProperties DEF FeedInv, FeedTypes
<1>2. cursor[v] \in Nat /\ last_sent[v] \in Nat
  BY DEF FeedInv, FeedTypes
<1>3. SocketInv(v)
  BY DEF FeedInv, ViewerInv
<1>4. \A i \in 1 .. n : wire[v][i].event.version \in Nat
  BY <1>1, ElementOfSeq, UpdateFields
<1>5. CASE n = 0
  BY <1>1, <1>2, <1>3, <1>5, EmptySeq DEF SocketInv
<1>6. CASE n # 0
  <2>1. wire[v] # <<>> /\ n \in 1 .. n
    BY <1>1, <1>6, EmptySeq
  <2>2. last_sent[v] = wire[v][n].event.version
    BY <1>3, <2>1 DEF SocketInv
  <2> HIDE DEF n
  <2>3. \A i \in 1 .. n : i = n \/ i < n
    BY <1>1
  <2>4. cursor[v] < last_sent[v]
    BY <1>1, <1>3, <2>1, <2>2 DEF SocketInv
  <2>5. \A i \in 1 .. n : wire[v][i].event.version <= last_sent[v]
    <3> SUFFICES ASSUME NEW i \in 1 .. n
                 PROVE  wire[v][i].event.version <= last_sent[v]
      OBVIOUS
    <3>1. CASE i = n
      BY <1>2, <2>2, <3>1
    <3>2. CASE i < n
      <4>1. wire[v][i].event.version < wire[v][n].event.version
        BY <1>1, <1>3, <2>1, <3>2 DEF SocketInv
      <4> QED
        BY <1>2, <1>4, <2>2, <4>1
    <3> QED
      BY <2>3, <3>1, <3>2
  <2>6. last_sent[v] <= Len(LogOf(v))
    BY <1>3 DEF SocketInv
  <2> QED
    BY <1>1, <1>2, <1>4, <2>4, <2>5, <2>6 DEF n
<1> QED
  BY <1>5, <1>6

\* An update after the watermark may be sent.
LEMMA SentInOrder ==
    ASSUME FeedInv, NEW v \in Viewers, phase[v] \in {"replaying", "live"},
           NEW u \in Updates, u.event.version \in DOMAIN LogOf(v),
           u = LogOf(v)[u.event.version], u.event.version > last_sent[v],
           UNCHANGED <<history, phase[v], cursor[v]>>,
           wire'[v] = Append(wire[v], u), last_sent'[v] = u.event.version
    PROVE  /\ SocketInv(v)'
           /\ wire'[v] \in Seq(Updates)
           /\ DOMAIN wire'[v] = 1 .. Len(wire[v]) + 1
           /\ \A i \in 1 .. Len(wire[v]) : wire'[v][i] = wire[v][i]
           /\ wire'[v][Len(wire[v]) + 1] = u
<1> DEFINE n == Len(wire[v])
           x == u.event.version
<1>1. /\ wire[v] \in Seq(Updates) /\ n \in Nat /\ DOMAIN wire[v] = 1 .. n
      /\ cursor[v] \in Nat /\ last_sent[v] \in Nat
      /\ cursor[v] <= last_sent[v] /\ last_sent[v] <= Len(LogOf(v))
      /\ \A i \in 1 .. n :
           wire[v][i].event.version \in Nat /\ wire[v][i].event.version <= last_sent[v]
  BY Watermark
<1>2. /\ wire'[v] \in Seq(Updates) /\ wire'[v] # <<>> /\ Len(wire'[v]) = n + 1
      /\ DOMAIN wire'[v] = 1 .. n + 1
      /\ \A i \in 1 .. n : wire'[v][i] = wire[v][i]
      /\ wire'[v][n + 1] = u
  <2>1. /\ Append(wire[v], u) \in Seq(Updates) /\ Append(wire[v], u) # <<>>
        /\ Len(Append(wire[v], u)) = n + 1
        /\ \A i \in 1 .. n : Append(wire[v], u)[i] = wire[v][i]
        /\ Append(wire[v], u)[n + 1] = u
    BY <1>1, AppendProperties
  <2> HIDE DEF n
  <2> QED
    BY <2>1, LenProperties
<1>3. /\ LogOf(v)' = LogOf(v) /\ x \in Nat /\ x <= Len(LogOf(v)) /\ Len(LogOf(v)) \in Nat
  BY LogOfViewer DEF LogOf
<1>4. SocketInv(v)
  BY DEF FeedInv, ViewerInv
<1> HIDE DEF n
<1>5. FromLog(v, wire[v])'
  <2> SUFFICES ASSUME NEW i \in 1 .. n + 1
               PROVE  /\ wire'[v][i].event.version \in DOMAIN LogOf(v)
                      /\ wire'[v][i] = LogOf(v)[wire'[v][i].event.version]
    BY <1>2, <1>3 DEF FromLog
  <2>1. i \in 1 .. n \/ i = n + 1
    BY <1>1
  <2> QED
    BY <1>1, <1>2, <1>4, <2>1 DEF SocketInv, FromLog
<1>6. ASSUME NEW i \in 1 .. n + 1
      PROVE  /\ wire'[v][i].event.version > cursor[v]
             /\ \A j \in 1 .. n + 1 :
                  i < j => wire'[v][i].event.version < wire'[v][j].event.version
  <2>1. CASE i = n + 1
    <3>1. wire'[v][i].event.version > cursor[v]
      BY <1>1, <1>2, <1>3, <2>1
    <3>2. \A j \in 1 .. n + 1 : ~ (i < j)
      BY <1>1, <2>1
    <3> QED
      BY <3>1, <3>2
  <2>2. CASE i \in 1 .. n
    <3>1. wire'[v][i] = wire[v][i] /\ wire[v][i].event.version > cursor[v]
      BY <1>1, <1>2, <1>4, <2>2 DEF SocketInv
    <3>2. ASSUME NEW j \in 1 .. n + 1, i < j
          PROVE  wire[v][i].event.version < wire'[v][j].event.version
      <4>1. CASE j = n + 1
        <5>1. wire'[v][j] = u
          BY <1>2, <4>1
        <5>2. wire[v][i].event.version \in Nat /\ wire[v][i].event.version <= last_sent[v]
          BY <1>1, <2>2
        <5>3. wire[v][i].event.version < x
          BY <1>1, <1>3, <5>2
        <5> QED
          BY <5>1, <5>3
      <4>2. CASE j \in 1 .. n
        <5>1. wire[v][i].event.version < wire[v][j].event.version
          BY <1>1, <1>4, <2>2, <3>2, <4>2 DEF SocketInv
        <5> QED
          BY <1>2, <4>2, <5>1
      <4> QED
        BY <1>1, <4>1, <4>2
    <3> QED
      BY <3>1, <3>2
  <2> QED
    BY <1>1, <2>1, <2>2
<1>7. SocketInv(v)'
  <2>1. /\ wire'[v] # <<>> /\ Len(wire'[v]) = n + 1
        /\ wire'[v][Len(wire'[v])] = u /\ phase'[v] \in {"replaying", "live"}
    BY <1>1, <1>2
  <2>2. (cursor[v] <= Len(LogOf(v)) /\ last_sent[v] <= Len(LogOf(v)))'
    BY <1>1, <1>3
  <2>3. (phase[v] \in {"closed", "handshake"} => wire[v] = <<>>)'
    BY <2>1
  <2>4. (\A i \in DOMAIN wire[v] :
           /\ wire[v][i].event.version > cursor[v]
           /\ \A j \in DOMAIN wire[v] :
                i < j => wire[v][i].event.version < wire[v][j].event.version)'
    BY <1>2, <1>6
  <2>5. (phase[v] \in {"replaying", "live"}
           => last_sent[v] = (IF wire[v] = <<>> THEN cursor[v]
                              ELSE wire[v][Len(wire[v])].event.version))'
    BY <2>1
  <2> QED
    BY <1>5, <2>2, <2>3, <2>4, <2>5 DEF SocketInv
<1> QED
  BY <1>2, <1>7 DEF n

\* A replayed update is sent if it is above the cursor of the client.
LEMMA SendReplayStep ==
    ASSUME FeedInv, NEW v \in Viewers, SendReplay(v)
    PROVE  FeedInv'
<1> DEFINE u == Head(backlog[v])
           n == Len(backlog[v])
           w == Len(wire[v])
<1>1. /\ phase[v] = "replaying" /\ backlog[v] # <<>>
      /\ wire' = [wire EXCEPT ![v] = Append(@, u)]
      /\ last_sent' = [last_sent EXCEPT ![v] = u.event.version]
      /\ backlog' = [backlog EXCEPT ![v] = Tail(@)]
      /\ UNCHANGED <<history, pending, phase, mailbox, cursor, screen, evicted, skipped>>
  BY DEF SendReplay, Send, logVars
<1>2. /\ ViewerInv(v) /\ backlog[v] \in Seq(Updates) /\ last_sent[v] \in Nat
      /\ cursor[v] \in Nat
  BY DEF FeedInv, FeedTypes
<1>3. /\ n \in Nat /\ n >= 1 /\ DOMAIN backlog[v] = 1 .. n
      /\ u = backlog[v][1] /\ u \in Updates
      /\ Tail(backlog[v]) \in Seq(Updates) /\ Len(Tail(backlog[v])) = n - 1
      /\ DOMAIN Tail(backlog[v]) = 1 .. n - 1
      /\ \A i \in 1 .. n - 1 : Tail(backlog[v])[i] = backlog[v][i + 1]
  BY <1>1, <1>2, HeadTailProperties, EmptySeq, LenProperties
<1>4. /\ last_sent[v] + 1 \in DOMAIN LogOf(v)
      /\ u = LogOf(v)[last_sent[v] + 1]
      /\ u.event.version = last_sent[v] + 1
  <2>1. 1 \in DOMAIN backlog[v]
    BY <1>3
  <2>2. last_sent[v] + 1 \in DOMAIN LogOf(v) /\ u = LogOf(v)[last_sent[v] + 1]
    BY <1>2, <1>3, <2>1 DEF ViewerInv, BacklogInv
  <2> QED
    BY <2>2, LogOfViewer
<1>5. /\ wire'[v] = Append(wire[v], u) /\ last_sent'[v] = last_sent[v] + 1
      /\ backlog'[v] = Tail(backlog[v])
      /\ UNCHANGED <<phase[v], mailbox[v], cursor[v], screen[v], evicted[v]>>
      /\ LogOf(v)' = LogOf(v)
  BY <1>1, <1>4 DEF FeedInv, FeedTypes, LogOf
<1>6. /\ SocketInv(v)' /\ wire'[v] \in Seq(Updates)
      /\ DOMAIN wire'[v] = 1 .. w + 1
      /\ \A i \in 1 .. w : wire'[v][i] = wire[v][i]
      /\ wire'[v][w + 1] = u
  <2>1. last_sent'[v] = u.event.version /\ u.event.version > last_sent[v]
    BY <1>2, <1>4, <1>5
  <2>2. u.event.version \in DOMAIN LogOf(v) /\ u = LogOf(v)[u.event.version]
    BY <1>4
  <2> HIDE DEF u
  <2> QED
    BY <1>1, <1>3, <1>5, <2>1, <2>2, SentInOrder
<1>7. w \in Nat /\ DOMAIN wire[v] = 1 .. w
  BY <1>1, Watermark
<1> HIDE DEF u, n, w
<1>a. last_sent'[v] = last_sent[v] + 1 /\ last_sent[v] \in Nat /\ n \in Nat /\ n >= 1
  BY <1>2, <1>3, <1>5
<1>8. FeedTypes'
  <2>1. /\ \A y \in Viewers : backlog'[y] \in Seq(Updates) /\ last_sent'[y] \in Nat
                              /\ wire'[y] \in Seq(Updates)
        /\ DOMAIN backlog' = Viewers /\ DOMAIN last_sent' = Viewers /\ DOMAIN wire' = Viewers
    BY <1>1, <1>2, <1>3, <1>4, <1>6 DEF FeedInv, FeedTypes
  <2>2. /\ backlog' = [y \in Viewers |-> backlog'[y]]
        /\ last_sent' = [y \in Viewers |-> last_sent'[y]]
        /\ wire' = [y \in Viewers |-> wire'[y]]
    BY <1>1 DEF FeedInv, FeedTypes
  <2> QED
    BY <1>1, <2>1, <2>2 DEF FeedInv, FeedTypes
<1>9. MailboxInv(v)' /\ ScreenInv(v)'
  BY <1>1, <1>2, <1>5 DEF ViewerInv, MailboxInv, FromLog, ScreenInv
<1>10. BacklogInv(v)'
  <2>1. ASSUME NEW i \in 1 .. n - 1
        PROVE  /\ last_sent'[v] + i \in DOMAIN LogOf(v)
               /\ backlog'[v][i] = LogOf(v)[last_sent'[v] + i]
    <3>1. i + 1 \in 1 .. n /\ last_sent'[v] + i = last_sent[v] + (i + 1)
      BY <1>a
    <3> QED
      BY <1>2, <1>3, <1>5, <3>1 DEF ViewerInv, BacklogInv
  <2> QED
    BY <1>1, <1>3, <1>5, <2>1 DEF BacklogInv
<1>11. CoverInv(v)'
  <2>1. last_sent'[v] + Len(backlog'[v]) = last_sent[v] + Len(backlog[v])
    <3>1. Len(backlog'[v]) = n - 1 /\ Len(backlog[v]) = n
      BY <1>3, <1>5 DEF n
    <3> QED
      BY <1>a, <3>1
  <2>2. ASSUME NEW k \in cursor[v] + 1 .. last_sent[v] + 1
        PROVE  \/ k \in evicted[v] \cup skipped[Watching[v]]
               \/ \E i \in DOMAIN wire'[v] : wire'[v][i].event.version = k
    <3>1. CASE k = last_sent[v] + 1
      BY <1>4, <1>6, <1>7, <3>1
    <3>2. CASE k # last_sent[v] + 1
      <4>1. k \in cursor[v] + 1 .. last_sent[v]
        BY <1>2, <3>2
      <4>2. \/ k \in evicted[v] \cup skipped[Watching[v]]
            \/ \E i \in 1 .. w : wire[v][i].event.version = k
        BY <1>1, <1>2, <1>7, <4>1 DEF ViewerInv, CoverInv
      <4> QED
        BY <1>6, <1>7, <4>2
    <3> QED
      BY <3>1, <3>2
  <2> QED
    BY <1>1, <1>2, <1>5, <2>1, <2>2 DEF ViewerInv, CoverInv
<1>12. ViewerInv(v)'
  BY <1>6, <1>9, <1>10, <1>11 DEF ViewerInv
<1>13. \A y \in Viewers : y # v =>
          UNCHANGED <<phase[y], mailbox[y], backlog[y], last_sent[y], wire[y], cursor[y],
                      screen[y], evicted[y]>>
  BY <1>1 DEF FeedInv, FeedTypes
<1> QED
  BY <1>1, <1>8, <1>12, <1>13, LocalStep

\* The pump starts with the last version of the replay as its watermark: whatever the
\* mailbox missed before it subscribed is in the replay.
LEMMA ServeLiveStep ==
    ASSUME FeedInv, NEW v \in Viewers, ServeLive(v)
    PROVE  FeedInv'
<1>1. /\ phase[v] = "replaying" /\ backlog[v] = <<>>
      /\ phase' = [phase EXCEPT ![v] = "live"]
      /\ UNCHANGED <<history, pending, mailbox, backlog, last_sent, wire, cursor, screen,
                     evicted, skipped>>
  BY DEF ServeLive, logVars
<1>2. FeedTypes'
  BY <1>1 DEF FeedInv, FeedTypes
<1>3. phase'[v] = "live" /\ LogOf(v)' = LogOf(v) /\ ViewerInv(v)
  BY <1>1 DEF FeedInv, FeedTypes, LogOf
<1>4. MailboxInv(v)' /\ ScreenInv(v)' /\ BacklogInv(v)'
  BY <1>1, <1>3 DEF ViewerInv, MailboxInv, FromLog, ScreenInv, BacklogInv
<1>5. SocketInv(v)' /\ CoverInv(v)'
  BY <1>1, <1>3 DEF ViewerInv, SocketInv, FromLog, CoverInv
<1>6. ViewerInv(v)'
  BY <1>4, <1>5 DEF ViewerInv
<1>7. \A y \in Viewers : y # v =>
         UNCHANGED <<phase[y], mailbox[y], backlog[y], last_sent[y], wire[y], cursor[y],
                     screen[y], evicted[y]>>
  BY <1>1 DEF FeedInv, FeedTypes
<1> QED
  BY <1>1, <1>2, <1>6, <1>7, LocalStep

\* What the pump passes over is before the watermark; what it sends may leave out only
\* updates that are published late or that the mailbox has dropped.
LEMMA PumpStep ==
    ASSUME FeedInv, NEW v \in Viewers, Pump(v)
    PROVE  FeedInv'
<1> DEFINE u == Head(mailbox[v])
           x == u.event.version
           n == Len(mailbox[v])
           w == Len(wire[v])
<1>1. /\ phase[v] = "live" /\ mailbox[v] # <<>>
      /\ mailbox' = [mailbox EXCEPT ![v] = Tail(@)]
      /\ UNCHANGED <<history, pending, phase, backlog, cursor, screen, evicted, skipped>>
      /\ IF x <= last_sent[v]
         THEN UNCHANGED <<wire, last_sent>>
         ELSE /\ wire' = [wire EXCEPT ![v] = Append(@, u)]
              /\ last_sent' = [last_sent EXCEPT ![v] = x]
  BY DEF Pump, AlreadySent, Send, logVars
<1>2. /\ ViewerInv(v) /\ mailbox[v] \in Seq(Updates) /\ last_sent[v] \in Nat
      /\ cursor[v] \in Nat
  BY DEF FeedInv, FeedTypes
<1>3. /\ n \in Nat /\ n >= 1 /\ DOMAIN mailbox[v] = 1 .. n
      /\ u = mailbox[v][1] /\ u \in Updates
      /\ Tail(mailbox[v]) \in Seq(Updates) /\ Len(Tail(mailbox[v])) = n - 1
      /\ DOMAIN Tail(mailbox[v]) = 1 .. n - 1
      /\ \A i \in 1 .. n - 1 : Tail(mailbox[v])[i] = mailbox[v][i + 1]
  BY <1>1, <1>2, HeadTailProperties, EmptySeq, LenProperties
<1>4. /\ 1 \in 1 .. n /\ x \in Nat
      /\ x \in DOMAIN LogOf(v) /\ u = LogOf(v)[x]
  <2>1. 1 \in 1 .. n
    BY <1>3
  <2>2. x \in DOMAIN LogOf(v) /\ u = LogOf(v)[x]
    BY <1>2, <1>3, <2>1 DEF ViewerInv, MailboxInv, FromLog
  <2> QED
    BY <1>3, <2>1, <2>2, UpdateFields
<1>5. /\ mailbox'[v] = Tail(mailbox[v])
      /\ UNCHANGED <<phase[v], backlog[v], cursor[v], screen[v], evicted[v]>>
      /\ LogOf(v)' = LogOf(v) /\ backlog[v] = <<>>
  BY <1>1, <1>2 DEF FeedInv, FeedTypes, LogOf, ViewerInv, BacklogInv
<1>6. w \in Nat /\ DOMAIN wire[v] = 1 .. w /\ wire[v] \in Seq(Updates)
  BY <1>1, Watermark
<1> DEFINE sent == ~ (x <= last_sent[v])
<1>7. ASSUME sent
      PROVE  /\ wire'[v] = Append(wire[v], u) /\ last_sent'[v] = x
             /\ SocketInv(v)' /\ wire'[v] \in Seq(Updates)
             /\ DOMAIN wire'[v] = 1 .. w + 1
             /\ \A i \in 1 .. w : wire'[v][i] = wire[v][i]
             /\ wire'[v][w + 1] = u
  <2>1. wire'[v] = Append(wire[v], u) /\ last_sent'[v] = x
    BY <1>1, <1>7 DEF FeedInv, FeedTypes
  <2>2. x > last_sent[v]
    BY <1>2, <1>4, <1>7
  <2>3. x \in DOMAIN LogOf(v) /\ u = LogOf(v)[x]
    BY <1>4
  <2> HIDE DEF u
  <2> QED
    BY <1>1, <1>3, <1>5, <2>1, <2>2, <2>3, SentInOrder
<1>8. ASSUME ~ sent
      PROVE  wire' = wire /\ last_sent' = last_sent /\ SocketInv(v)'
  <2>1. wire' = wire /\ last_sent' = last_sent
    BY <1>1, <1>8
  <2> QED
    BY <1>2, <1>5, <2>1 DEF ViewerInv, SocketInv, FromLog
<1>9. /\ last_sent'[v] \in Nat /\ last_sent'[v] >= last_sent[v] /\ last_sent'[v] >= x
      /\ \/ last_sent'[v] = last_sent[v]
         \/ sent /\ last_sent'[v] = x
  BY <1>2, <1>4, <1>7, <1>8
<1> HIDE DEF u, n, w, x, sent
<1>10. FeedTypes'
  <2>1. mailbox' \in [Viewers -> Seq(Updates)]
    BY <1>1, <1>3 DEF FeedInv, FeedTypes
  <2>2. wire' \in [Viewers -> Seq(Updates)] /\ last_sent' \in [Viewers -> Nat]
    <3>1. CASE ~ sent
      BY <1>8, <3>1 DEF FeedInv, FeedTypes
    <3>2. CASE sent
      <4>1. /\ wire' = [wire EXCEPT ![v] = Append(@, u)]
            /\ last_sent' = [last_sent EXCEPT ![v] = x]
        BY <1>1, <3>2 DEF sent
      <4>2. Append(wire[v], u) \in Seq(Updates)
        BY <1>7, <3>2
      <4> QED
        BY <1>4, <4>1, <4>2 DEF FeedInv, FeedTypes
    <3> QED
      BY <3>1, <3>2
  <2> QED
    BY <1>1, <2>1, <2>2 DEF FeedInv, FeedTypes
<1>11. MailboxInv(v)'
  <2>1. ASSUME NEW i \in 1 .. n - 1
        PROVE  i + 1 \in 1 .. n /\ mailbox'[v][i] = mailbox[v][i + 1]
    BY <1>3, <1>5
  <2>2. DOMAIN mailbox'[v] = 1 .. n - 1
    BY <1>3, <1>5
  <2>3. FromLog(v, mailbox[v])'
    <3>1. FromLog(v, mailbox[v])
      BY <1>2 DEF ViewerInv, MailboxInv
    <3>2. ASSUME NEW i \in 1 .. n - 1
          PROVE  /\ mailbox'[v][i].event.version \in DOMAIN LogOf(v)
                 /\ mailbox'[v][i] = LogOf(v)[mailbox'[v][i].event.version]
      <4>1. i + 1 \in DOMAIN mailbox[v] /\ mailbox'[v][i] = mailbox[v][i + 1]
        BY <1>3, <2>1
      <4> QED
        BY <3>1, <4>1 DEF FromLog
    <3> QED
      BY <1>5, <2>2, <3>2 DEF FromLog
  <2>4. ASSUME NEW i \in 1 .. n - 1, NEW j \in 1 .. n - 1, i < j
        PROVE  \/ mailbox'[v][j].event.version > mailbox'[v][i].event.version
               \/ mailbox'[v][j].event.version \in skipped[Watching[v]]
    <3>1. i + 1 \in 1 .. n /\ j + 1 \in 1 .. n /\ i + 1 < j + 1
      BY <2>1, <2>4
    <3>2. \/ mailbox[v][j + 1].event.version > mailbox[v][i + 1].event.version
          \/ mailbox[v][j + 1].event.version \in skipped[Watching[v]]
      BY <1>2, <1>3, <3>1 DEF ViewerInv, MailboxInv
    <3> QED
      BY <2>1, <3>2
  <2>5. ASSUME NEW y \in pending, NEW i \in 1 .. n - 1, y.event.match = Watching[v]
        PROVE  \/ y.event.version > mailbox'[v][i].event.version
               \/ y.event.version \in skipped[Watching[v]]
    BY <1>2, <1>3, <2>1, <2>5 DEF ViewerInv, MailboxInv
  <2>6. Len(mailbox'[v]) <= MailboxSize /\ phase'[v] # "closed"
    <3>1. Len(mailbox'[v]) = n - 1 /\ n <= MailboxSize
      BY <1>2, <1>3, <1>5 DEF ViewerInv, MailboxInv, n
    <3>2. phase'[v] = "live"
      BY <1>1
    <3> QED
      BY <1>3, <3>1, <3>2, FeedAssumption
  <2> QED
    BY <1>1, <2>2, <2>3, <2>4, <2>5, <2>6 DEF MailboxInv
<1>12. BacklogInv(v)' /\ ScreenInv(v)'
  BY <1>1, <1>2, <1>5 DEF ViewerInv, BacklogInv, ScreenInv
<1>13. CoverInv(v)'
  <2>1. /\ Len(backlog[v]) = 0 /\ Len(LogOf(v)) \in Nat
        /\ x <= Len(LogOf(v)) /\ last_sent[v] <= Len(LogOf(v))
    BY <1>2, <1>4, <1>5, LogOfViewer DEF ViewerInv, SocketInv
  <2>2. ASSUME NEW k \in last_sent[v] + 1 .. Len(LogOf(v)), k # x
        PROVE  \/ k \in evicted[v] \cup skipped[Watching[v]]
               \/ \E i \in 1 .. n - 1 : mailbox'[v][i].event.version = k /\ k > x
               \/ \E y \in pending : y.event.match = Watching[v] /\ y.event.version = k /\ k > x
    <3>1. \/ k \in evicted[v] \cup skipped[Watching[v]]
          \/ \E i \in 1 .. n : mailbox[v][i].event.version = k
          \/ \E y \in pending : y.event.match = Watching[v] /\ y.event.version = k
      <4>1. k \in last_sent[v] + Len(backlog[v]) + 1 .. Len(LogOf(v))
        BY <1>2, <2>1
      <4> QED
        BY <1>1, <1>2, <1>3, <4>1 DEF ViewerInv, CoverInv
    <3>2. ASSUME NEW i \in 1 .. n, mailbox[v][i].event.version = k,
                 k \notin skipped[Watching[v]]
          PROVE  \E j \in 1 .. n - 1 : mailbox'[v][j].event.version = k /\ k > x
      <4>1. i # 1
        BY <1>3, <2>2, <3>2 DEF x
      <4>2. i - 1 \in 1 .. n - 1 /\ (i - 1) + 1 = i /\ 1 < i
        BY <1>3, <4>1
      <4>3. k > x
        BY <1>2, <1>3, <1>4, <3>2, <4>2 DEF ViewerInv, MailboxInv, x
      <4>4. mailbox'[v][i - 1] = mailbox[v][i]
        BY <1>3, <1>5, <4>2
      <4> QED
        BY <3>2, <4>2, <4>3, <4>4
    <3>3. ASSUME NEW y \in pending, y.event.match = Watching[v], y.event.version = k,
                 k \notin skipped[Watching[v]]
          PROVE  k > x
      BY <1>2, <1>3, <1>4, <3>3 DEF ViewerInv, MailboxInv, x
    <3> QED
      BY <3>1, <3>2, <3>3
  <2>3. ASSUME NEW k \in cursor[v] + 1 .. last_sent'[v]
        PROVE  \/ k \in evicted[v] \cup skipped[Watching[v]]
               \/ \E i \in DOMAIN wire'[v] : wire'[v][i].event.version = k
    <3>1. CASE k <= last_sent[v]
      <4>1. k \in cursor[v] + 1 .. last_sent[v]
        BY <1>2, <3>1
      <4>2. \/ k \in evicted[v] \cup skipped[Watching[v]]
            \/ \E i \in 1 .. w : wire[v][i].event.version = k
        BY <1>1, <1>2, <1>6, <4>1 DEF ViewerInv, CoverInv
      <4>3. ASSUME NEW i \in 1 .. w
            PROVE  i \in DOMAIN wire'[v] /\ wire'[v][i] = wire[v][i]
        <5>1. i \in 1 .. w + 1
          BY <1>6
        <5> QED
          BY <1>6, <1>7, <1>8, <5>1
      <4> QED
        BY <4>2, <4>3
    <3>2. CASE ~ (k <= last_sent[v])
      <4>1. sent /\ last_sent'[v] = x /\ k \in last_sent[v] + 1 .. x
        BY <1>2, <1>9, <3>2
      <4>2. CASE k = x
        <5>1. w + 1 \in DOMAIN wire'[v] /\ wire'[v][w + 1] = u
          BY <1>6, <1>7, <4>1
        <5> QED
          BY <4>2, <5>1 DEF x
      <4>3. CASE k # x
        <5>1. k \in last_sent[v] + 1 .. Len(LogOf(v)) /\ ~ (k > x)
          BY <1>2, <1>4, <2>1, <4>1
        <5> QED
          BY <2>2, <4>3, <5>1
      <4> QED
        BY <4>2, <4>3
    <3> QED
      BY <3>1, <3>2
  <2>4. ASSUME NEW k \in last_sent'[v] + 1 .. Len(LogOf(v))
        PROVE  \/ k \in evicted[v] \cup skipped[Watching[v]]
               \/ \E i \in DOMAIN mailbox'[v] : mailbox'[v][i].event.version = k
               \/ \E y \in pending : y.event.match = Watching[v] /\ y.event.version = k
    <3>1. k \in last_sent[v] + 1 .. Len(LogOf(v)) /\ k # x
      BY <1>2, <1>4, <1>9
    <3> QED
      BY <1>3, <1>5, <2>2, <3>1
  <2>5. last_sent'[v] + Len(backlog'[v]) + 1 = last_sent'[v] + 1
    BY <1>5, <1>9, <2>1
  <2> QED
    BY <1>1, <1>5, <2>3, <2>4, <2>5 DEF CoverInv
<1>14. SocketInv(v)'
  BY <1>7, <1>8
<1>15. ViewerInv(v)'
  BY <1>11, <1>12, <1>13, <1>14 DEF ViewerInv
<1>16. \A y \in Viewers : y # v =>
          UNCHANGED <<phase[y], mailbox[y], backlog[y], last_sent[y], wire[y], cursor[y],
                      screen[y], evicted[y]>>
  BY <1>1 DEF FeedInv, FeedTypes
<1> QED
  BY <1>1, <1>10, <1>15, <1>16, LocalStep

\* The client takes the message at the head of the socket.
LEMMA ReceiveStep ==
    ASSUME FeedInv, NEW v \in Viewers, Receive(v)
    PROVE  FeedInv'
<1> DEFINE u == Head(wire[v])
           x == u.event.version
           n == Len(wire[v])
<1>1. /\ wire[v] # <<>>
      /\ wire' = [wire EXCEPT ![v] = Tail(@)]
      /\ cursor' = [cursor EXCEPT ![v] = x]
      /\ screen' = [screen EXCEPT ![v] = u.state]
      /\ UNCHANGED <<history, pending, phase, mailbox, backlog, last_sent, evicted, skipped>>
  BY DEF Receive, logVars
<1>2. /\ ViewerInv(v) /\ wire[v] \in Seq(Updates) /\ last_sent[v] \in Nat
      /\ cursor[v] \in Nat /\ phase[v] \in {"replaying", "live"}
  BY <1>1 DEF FeedInv, FeedTypes, ViewerInv, SocketInv
<1>3. /\ n \in Nat /\ n >= 1 /\ DOMAIN wire[v] = 1 .. n
      /\ u = wire[v][1] /\ u \in Updates
      /\ Tail(wire[v]) \in Seq(Updates) /\ Len(Tail(wire[v])) = n - 1
      /\ DOMAIN Tail(wire[v]) = 1 .. n - 1
      /\ \A i \in 1 .. n - 1 : Tail(wire[v])[i] = wire[v][i + 1]
  BY <1>1, <1>2, HeadTailProperties, EmptySeq, LenProperties
<1>4. /\ 1 \in 1 .. n /\ x \in Nat /\ x > cursor[v] /\ x <= last_sent[v]
      /\ x \in DOMAIN LogOf(v) /\ u = LogOf(v)[x]
  <2>1. 1 \in 1 .. n
    BY <1>3
  <2>2. x \in DOMAIN LogOf(v) /\ u = LogOf(v)[x] /\ x > cursor[v]
    BY <1>2, <1>3, <2>1 DEF ViewerInv, SocketInv, FromLog
  <2>3. x \in Nat /\ x <= last_sent[v]
    BY <1>2, <1>3, <2>1, Watermark
  <2> QED
    BY <2>1, <2>2, <2>3
<1>5. /\ wire'[v] = Tail(wire[v]) /\ cursor'[v] = x /\ screen'[v] = u.state
      /\ UNCHANGED <<phase[v], mailbox[v], backlog[v], last_sent[v], evicted[v]>>
      /\ LogOf(v)' = LogOf(v)
  BY <1>1 DEF FeedInv, FeedTypes, LogOf
<1>6. u.state \in States
  BY <1>3, UpdateFields
<1> HIDE DEF u, x, n
<1>7. FeedTypes'
  BY <1>1, <1>3, <1>4, <1>6 DEF FeedInv, FeedTypes
<1>8. MailboxInv(v)' /\ BacklogInv(v)'
  BY <1>1, <1>2, <1>5 DEF ViewerInv, MailboxInv, FromLog, BacklogInv
<1>9. ScreenInv(v)'
  BY <1>4, <1>5 DEF ScreenInv
<1>10. ASSUME NEW i \in 1 .. n - 1
       PROVE  i + 1 \in 1 .. n /\ 1 < i + 1 /\ wire'[v][i] = wire[v][i + 1]
  BY <1>3, <1>5
<1>11. DOMAIN wire'[v] = 1 .. n - 1 /\ Len(wire'[v]) = n - 1 /\ wire'[v] \in Seq(Updates)
  BY <1>3, <1>5
<1>12. SocketInv(v)'
  <2>1. cursor'[v] <= Len(LogOf(v)')
    BY <1>4, <1>5, LogOfViewer
  <2>2. FromLog(v, wire[v])'
    <3>1. \A i \in 1 .. n : /\ wire[v][i].event.version \in DOMAIN LogOf(v)
                            /\ wire[v][i] = LogOf(v)[wire[v][i].event.version]
      BY <1>2, <1>3 DEF ViewerInv, SocketInv, FromLog
    <3>2. \A i \in 1 .. n - 1 : /\ wire'[v][i].event.version \in DOMAIN LogOf(v)
                                /\ wire'[v][i] = LogOf(v)[wire'[v][i].event.version]
      BY <1>10, <3>1
    <3> QED
      BY <1>5, <1>11, <3>2 DEF FromLog
  <2>3. ASSUME NEW i \in 1 .. n - 1
        PROVE  wire'[v][i].event.version > x
    <3>1. wire[v][1].event.version < wire[v][i + 1].event.version
      BY <1>2, <1>3, <1>4, <1>10 DEF ViewerInv, SocketInv
    <3>2. wire[v][i + 1].event.version \in Nat
      BY <1>2, <1>3, <1>10, Watermark
    <3> QED
      BY <1>3, <1>4, <1>10, <3>1, <3>2 DEF x
  <2>4. ASSUME NEW i \in 1 .. n - 1, NEW j \in 1 .. n - 1, i < j
        PROVE  wire'[v][i].event.version < wire'[v][j].event.version
    <3>1. i + 1 \in 1 .. n /\ j + 1 \in 1 .. n /\ i + 1 < j + 1
      BY <1>10, <2>4
    <3>2. wire[v][i + 1].event.version < wire[v][j + 1].event.version
      BY <1>2, <1>3, <3>1 DEF ViewerInv, SocketInv
    <3> QED
      BY <1>10, <3>2
  <2>5. last_sent[v] = wire[v][n].event.version
    BY <1>1, <1>2 DEF ViewerInv, SocketInv, n
  <2>6. last_sent[v] = IF wire'[v] = <<>> THEN cursor'[v]
                       ELSE wire'[v][Len(wire'[v])].event.version
    <3>1. CASE n = 1
      <4>1. wire'[v] = <<>>
        BY <1>11, <3>1, EmptySeq
      <4> QED
        BY <1>3, <1>5, <2>5, <3>1, <4>1 DEF x
    <3>2. CASE n # 1
      <4>1. n - 1 \in 1 .. n - 1 /\ (n - 1) + 1 = n /\ n - 1 # 0
        BY <1>3, <3>2
      <4>2. wire'[v] # <<>>
        BY <1>11, <4>1, EmptySeq
      <4>3. wire'[v][n - 1] = wire[v][n]
        BY <1>10, <4>1
      <4> QED
        BY <1>11, <2>5, <4>2, <4>3
    <3> QED
      BY <3>1, <3>2
  <2>7. last_sent'[v] <= Len(LogOf(v)')
    BY <1>2, <1>5 DEF ViewerInv, SocketInv
  <2> QED
    BY <1>2, <1>5, <1>11, <2>1, <2>2, <2>3, <2>4, <2>6, <2>7 DEF SocketInv
<1>13. CoverInv(v)'
  <2>1. ASSUME NEW k \in x + 1 .. last_sent[v]
        PROVE  \/ k \in evicted[v] \cup skipped[Watching[v]]
               \/ \E i \in DOMAIN wire'[v] : wire'[v][i].event.version = k
    <3>1. k \in cursor[v] + 1 .. last_sent[v] /\ k # x
      BY <1>2, <1>4
    <3>2. \/ k \in evicted[v] \cup skipped[Watching[v]]
          \/ \E i \in 1 .. n : wire[v][i].event.version = k
      BY <1>2, <1>3, <3>1 DEF ViewerInv, CoverInv
    <3>3. ASSUME NEW i \in 1 .. n, wire[v][i].event.version = k
          PROVE  \E j \in DOMAIN wire'[v] : wire'[v][j].event.version = k
      <4>1. i # 1
        BY <1>3, <3>1, <3>3 DEF x
      <4>2. i - 1 \in 1 .. n - 1 /\ (i - 1) + 1 = i
        BY <1>3, <4>1
      <4>3. wire'[v][i - 1] = wire[v][i]
        BY <1>10, <4>2
      <4> QED
        BY <1>11, <3>3, <4>2, <4>3
    <3> QED
      BY <3>2, <3>3
  <2> QED
    BY <1>1, <1>2, <1>5, <2>1 DEF ViewerInv, CoverInv
<1>14. ViewerInv(v)'
  BY <1>8, <1>9, <1>12, <1>13 DEF ViewerInv
<1>15. \A y \in Viewers : y # v =>
          UNCHANGED <<phase[y], mailbox[y], backlog[y], last_sent[y], wire[y], cursor[y],
                      screen[y], evicted[y]>>
  BY <1>1 DEF FeedInv, FeedTypes
<1> QED
  BY <1>1, <1>7, <1>14, <1>15, LocalStep

\* A snapshot is a state of the log that is no older than the client's.
LEMMA LoadSnapshotStep ==
    ASSUME FeedInv, NEW v \in Viewers, LoadSnapshot(v)
    PROVE  FeedInv'
<1> DEFINE n == Len(LogOf(v))
           state == StateAfter(LogOf(v))
<1>1. /\ phase[v] = "closed"
      /\ cursor' = [cursor EXCEPT ![v] = state.version]
      /\ screen' = [screen EXCEPT ![v] = state]
      /\ UNCHANGED <<history, pending, phase, mailbox, backlog, last_sent, wire, evicted, skipped>>
  BY DEF LoadSnapshot, Connected, logVars
<1>2. /\ state \in States /\ state.version = n /\ n \in Nat
      /\ \/ state = InitialState
         \/ n \in DOMAIN LogOf(v) /\ state = LogOf(v)[n].state
  <2>1. n \in Nat /\ DOMAIN LogOf(v) = 1 .. n /\ LogOf(v) \in Seq(Updates)
    BY LogOfViewer
  <2>2. CASE n = 0
    <3>1. LogOf(v) = <<>>
      BY <2>1, <2>2, EmptySeq
    <3>2. state = InitialState
      BY <3>1 DEF StateAfter
    <3> QED
      BY <2>1, <2>2, <3>2, InitialStateType DEF InitialState
  <2>3. CASE n # 0
    <3>1. n \in DOMAIN history[Watching[v]] /\ LogOf(v) # <<>> /\ Watching[v] \in Matches
      BY <2>1, <2>3, EmptySeq, FeedAssumption DEF LogOf
    <3>2. LogOf(v)[n].state \in States /\ LogOf(v)[n].state.version = n
      BY <3>1, StateVersion DEF LogOf, FeedInv
    <3>3. state = LogOf(v)[n].state
      BY <3>1 DEF StateAfter
    <3> QED
      BY <2>1, <2>3, <3>2, <3>3
  <2> QED
    BY <2>2, <2>3
<1> HIDE DEF n, state
<1>3. FeedTypes'
  BY <1>1, <1>2 DEF FeedInv, FeedTypes
<1>4. /\ cursor'[v] = n /\ screen'[v] = state
      /\ UNCHANGED <<phase[v], mailbox[v], backlog[v], last_sent[v], wire[v], evicted[v]>>
      /\ LogOf(v)' = LogOf(v) /\ ViewerInv(v)
  BY <1>1, <1>2 DEF FeedInv, FeedTypes, LogOf
<1>5. MailboxInv(v)' /\ BacklogInv(v)'
  BY <1>1, <1>4 DEF ViewerInv, MailboxInv, FromLog, BacklogInv
<1>6. SocketInv(v)'
  <2>1. wire[v] = <<>>
    BY <1>1, <1>4 DEF ViewerInv, SocketInv
  <2>2. n <= Len(LogOf(v))
    BY <1>2 DEF n
  <2> QED
    BY <1>1, <1>4, <2>1, <2>2 DEF ViewerInv, SocketInv, FromLog
<1>7. CoverInv(v)' /\ ScreenInv(v)'
  BY <1>1, <1>2, <1>4 DEF CoverInv, ScreenInv
<1>8. ViewerInv(v)'
  BY <1>5, <1>6, <1>7 DEF ViewerInv
<1>9. \A y \in Viewers : y # v =>
         UNCHANGED <<phase[y], mailbox[y], backlog[y], last_sent[y], wire[y], cursor[y],
                     screen[y], evicted[y]>>
  BY <1>1 DEF FeedInv, FeedTypes
<1> QED
  BY <1>1, <1>3, <1>8, <1>9, LocalStep

\* Every step of the feed keeps the invariant.
LEMMA FeedInvStep == FeedInv /\ [Next]_vars => FeedInv'
<1> SUFFICES ASSUME FeedInv, [Next]_vars PROVE FeedInv'
  OBVIOUS
<1>1. CASE UNCHANGED vars
  <2>1. FeedTypes' /\ LogInv'
    BY <1>1 DEF FeedInv, FeedTypes, LogInv, vars, logVars, feedVars
  <2>2. \A v \in Viewers : ViewerInv(v)'
    BY <1>1, OtherViewer DEF vars, logVars, feedVars
  <2> QED
    BY <2>1, <2>2 DEF FeedInv
<1>2. CASE Score
  BY <1>2, ScoreStep
<1>3. ASSUME NEW u \in pending, PublishUpdate(u) \/ LoseUpdate(u)
      PROVE  FeedInv'
  BY <1>3, PublishStep, LoseStep
<1>4. ASSUME NEW v \in Viewers, Connect(v) \/ Serve(v) \/ Disconnect(v) \/ LoadSnapshot(v)
      PROVE  FeedInv'
  BY <1>4, ConnectStep, SendReplayStep, ServeLiveStep, PumpStep, ReceiveStep,
     DisconnectStep, LoadSnapshotStep DEF Serve
<1>5. ASSUME NEW v \in Viewers, NEW last \in {0, cursor[v]}, Handshake(v, last)
      PROVE  FeedInv'
  BY <1>5, HandshakeStep
<1>6. CASE Restart
  BY <1>6, RestartStep
<1> QED
  BY <1>1, <1>2, <1>3, <1>4, <1>5, <1>6 DEF Next

-----------------------------------------------------------------------------
(* The theorems.                                                           *)

\* FeedInv holds in every reachable state.
THEOREM FeedInvariant == Spec => []FeedInv
BY FeedInvInit, FeedInvStep, PTL DEF Spec

\* Types, the limit of a mailbox, nothing held by a closed connection, and neither a
\* cursor nor a watermark ahead of the log.
THEOREM FeedTypeCorrect == Spec => []TypeOK
<1>1. FeedInv => TypeOK
  <2> SUFFICES ASSUME FeedInv PROVE TypeOK
    OBVIOUS
  <2>1. ASSUME NEW u \in pending
        PROVE  u \in UNION {ToSet(history[m]) : m \in Matches}
    <3> DEFINE m == u.event.match
    <3>1. m \in Matches
      BY UpdateFields DEF FeedInv, FeedTypes
    <3>2. u.event.version \in DOMAIN history[m] /\ u = history[m][u.event.version]
      BY DEF FeedInv, LogInv
    <3>3. u \in ToSet(history[m])
      BY <3>2 DEF ToSet
    <3> HIDE DEF m
    <3> QED
      BY <3>1, <3>3
  <2>2. ASSUME NEW v \in Viewers
        PROVE  /\ phase[v] \in {"closed", "handshake", "replaying", "live"}
               /\ Len(mailbox[v]) <= MailboxSize
               /\ phase[v] = "closed" => mailbox[v] = <<>> /\ wire[v] = <<>>
               /\ phase[v] # "replaying" => backlog[v] = <<>>
               /\ cursor[v] \in 0 .. Len(LogOf(v))
               /\ last_sent[v] \in 0 .. Len(LogOf(v))
    <3>1. /\ phase[v] \in {"closed", "handshake", "replaying", "live"}
          /\ cursor[v] \in Nat /\ last_sent[v] \in Nat
      BY DEF FeedInv, FeedTypes
    <3>2. MailboxInv(v) /\ SocketInv(v) /\ BacklogInv(v)
      BY DEF FeedInv, ViewerInv
    <3> QED
      BY <3>1, <3>2, LogOfViewer DEF MailboxInv, SocketInv, BacklogInv
  <2> QED
    BY <2>1, <2>2 DEF TypeOK, FeedInv, FeedTypes
<1> QED
  BY <1>1, FeedInvariant, PTL

\* The positions of a viewer's stream: its cursor, the socket, the replay.
LEMMA StreamParts ==
    ASSUME FeedInv, NEW v \in Viewers
    PROVE  LET w == Len(wire[v])
               b == Len(backlog[v])
           IN  /\ w \in Nat /\ b \in Nat
               /\ Len(Stream(v)) = 1 + w + b
               /\ Stream(v)[1] = cursor[v]
               /\ \A i \in 1 .. w : Stream(v)[1 + i] = wire[v][i].event.version
               /\ \A i \in 1 .. b : Stream(v)[1 + w + i] = backlog[v][i].event.version
<1> DEFINE W == [i \in DOMAIN wire[v] |-> wire[v][i].event.version]
           B == [i \in DOMAIN backlog[v] |-> backlog[v][i].event.version]
           w == Len(wire[v])
           b == Len(backlog[v])
<1>1. /\ wire[v] \in Seq(Updates) /\ w \in Nat /\ DOMAIN wire[v] = 1 .. w
      /\ backlog[v] \in Seq(Updates) /\ b \in Nat /\ DOMAIN backlog[v] = 1 .. b
      /\ cursor[v] \in Nat
  BY LenProperties DEF FeedInv, FeedTypes
<1>2. /\ \A i \in 1 .. w : wire[v][i].event.version \in Nat
      /\ \A i \in 1 .. b : backlog[v][i].event.version \in Nat
  BY <1>1, ElementOfSeq, UpdateFields
<1>3. W \in Seq(Nat) /\ Len(W) = w /\ \A i \in 1 .. w : W[i] = wire[v][i].event.version
  BY <1>1, <1>2
<1>4. B \in Seq(Nat) /\ Len(B) = b /\ \A i \in 1 .. b : B[i] = backlog[v][i].event.version
  BY <1>1, <1>2
<1>5. Stream(v) = <<cursor[v]>> \o W \o B
  BY DEF Stream
<1>6. <<cursor[v]>> \in Seq(Nat) /\ Len(<<cursor[v]>>) = 1 /\ <<cursor[v]>>[1] = cursor[v]
  BY <1>1
<1> HIDE DEF W, B, w, b
<1> DEFINE C == <<cursor[v]>>
           CW == C \o W
<1> HIDE DEF C
<1>7. /\ CW \in Seq(Nat) /\ Len(CW) = 1 + w
      /\ \A i \in 1 .. 1 + w : CW[i] = IF i <= 1 THEN C[i] ELSE W[i - 1]
  BY <1>1, <1>3, <1>6, ConcatProperties DEF C
<1> HIDE DEF CW
<1>8. /\ Len(CW \o B) = (1 + w) + b
      /\ \A i \in 1 .. (1 + w) + b : (CW \o B)[i] = IF i <= 1 + w THEN CW[i] ELSE B[i - (1 + w)]
  <2>1. /\ Len(CW \o B) = Len(CW) + Len(B)
        /\ \A i \in 1 .. Len(CW) + Len(B) :
              (CW \o B)[i] = IF i <= Len(CW) THEN CW[i] ELSE B[i - Len(CW)]
    BY <1>4, <1>7, ConcatProperties
  <2> QED
    BY <1>4, <1>7, <2>1
<1>9. Stream(v) = CW \o B
  BY <1>5 DEF CW, C
<1>10. Stream(v)[1] = cursor[v]
  <2>1. 1 \in 1 .. 1 + w /\ 1 \in 1 .. (1 + w) + b
    BY <1>1
  <2>2. C[1] = cursor[v]
    BY <1>6 DEF C
  <2> QED
    BY <1>1, <1>7, <1>8, <1>9, <2>1, <2>2
<1>11. ASSUME NEW i \in 1 .. w
       PROVE  Stream(v)[1 + i] = wire[v][i].event.version
  <2>1. /\ 1 + i \in 1 .. 1 + w /\ 1 + i \in 1 .. (1 + w) + b /\ ~ (1 + i <= 1)
        /\ (1 + i) - 1 = i /\ 1 + i <= 1 + w
    BY <1>1
  <2> QED
    BY <1>3, <1>7, <1>8, <1>9, <2>1
<1>12. ASSUME NEW i \in 1 .. b
       PROVE  Stream(v)[1 + w + i] = backlog[v][i].event.version
  <2>1. /\ 1 + w + i \in 1 .. (1 + w) + b /\ ~ (1 + w + i <= 1 + w)
        /\ (1 + w + i) - (1 + w) = i
    BY <1>1
  <2> QED
    BY <1>4, <1>8, <1>9, <2>1
<1> QED
  BY <1>1, <1>8, <1>9, <1>10, <1>11, <1>12 DEF w, b

\* Neighbours in a stream ascend, and what lies between them is explained.
LEMMA StreamAscends ==
    ASSUME FeedInv, NEW v \in Viewers, NEW i \in 1 .. Len(Stream(v)) - 1
    PROVE  /\ Stream(v)[i] \in Nat /\ Stream(v)[i + 1] \in Nat
           /\ Stream(v)[i] < Stream(v)[i + 1]
           /\ \A n \in Stream(v)[i] + 1 .. Stream(v)[i + 1] - 1 :
                 n \in evicted[v] \cup skipped[Watching[v]]
<1> DEFINE w == Len(wire[v])
           b == Len(backlog[v])
<1>1. /\ w \in Nat /\ b \in Nat
      /\ Len(Stream(v)) = 1 + w + b
      /\ Stream(v)[1] = cursor[v]
      /\ \A j \in 1 .. w : Stream(v)[1 + j] = wire[v][j].event.version
      /\ \A j \in 1 .. b : Stream(v)[1 + w + j] = backlog[v][j].event.version
  BY StreamParts
<1>2. ViewerInv(v)
  BY DEF FeedInv
<1>3. phase[v] \in {"replaying", "live"}
  <2> SUFFICES ASSUME phase[v] \notin {"replaying", "live"} PROVE FALSE
    OBVIOUS
  <2>1. phase[v] \in {"closed", "handshake"}
    BY DEF FeedInv, FeedTypes
  <2>2. wire[v] = <<>> /\ backlog[v] = <<>>
    BY <1>2, <2>1 DEF ViewerInv, SocketInv, BacklogInv
  <2>3. w = 0 /\ b = 0
    BY <2>2, EmptySeq
  <2> HIDE DEF w, b
  <2> QED
    BY <1>1, <2>3
<1>4. /\ DOMAIN wire[v] = 1 .. w
      /\ cursor[v] \in Nat /\ last_sent[v] \in Nat /\ cursor[v] <= last_sent[v]
      /\ \A j \in 1 .. w :
           wire[v][j].event.version \in Nat /\ wire[v][j].event.version <= last_sent[v]
  BY <1>3, Watermark
<1>5. last_sent[v] = IF w = 0 THEN cursor[v] ELSE wire[v][w].event.version
  <2>1. wire[v] = <<>> <=> w = 0
    BY <1>1, EmptySeq DEF FeedInv, FeedTypes
  <2> QED
    BY <1>2, <1>3, <2>1 DEF ViewerInv, SocketInv
<1>6. /\ \A j \in 1 .. w : cursor[v] < wire[v][j].event.version
      /\ \A j, k \in 1 .. w : j < k => wire[v][j].event.version < wire[v][k].event.version
  BY <1>2, <1>4 DEF ViewerInv, SocketInv
<1>7. \A j \in 1 .. b : backlog[v][j].event.version = last_sent[v] + j
  <2>1. backlog[v] \in Seq(Updates)
    BY DEF FeedInv, FeedTypes
  <2>2. \A j \in 1 .. b : last_sent[v] + j \in DOMAIN LogOf(v)
                          /\ backlog[v][j] = LogOf(v)[last_sent[v] + j]
    BY <1>2, <2>1 DEF ViewerInv, BacklogInv
  <2> QED
    BY <2>2, LogOfViewer
<1> HIDE DEF w, b
<1>8. CASE i <= w
  <2>1. i \in 1 .. w /\ i + 1 = 1 + i /\ (i # 1 => i - 1 \in 1 .. w /\ i - 1 < i /\ 1 + (i - 1) = i)
    BY <1>1, <1>8
  <2>2. Stream(v)[i + 1] = wire[v][i].event.version
    BY <1>1, <2>1
  <2>3. Stream(v)[i] = IF i = 1 THEN cursor[v] ELSE wire[v][i - 1].event.version
    BY <1>1, <2>1
  <2>4. /\ Stream(v)[i] \in Nat /\ Stream(v)[i + 1] \in Nat
        /\ Stream(v)[i] < Stream(v)[i + 1]
        /\ cursor[v] <= Stream(v)[i] /\ Stream(v)[i + 1] <= last_sent[v]
    <3>1. CASE i = 1
      BY <1>4, <1>6, <2>1, <2>2, <2>3, <3>1
    <3>2. CASE i # 1
      <4>1. /\ wire[v][i - 1].event.version < wire[v][i].event.version
            /\ cursor[v] < wire[v][i - 1].event.version
        BY <1>6, <2>1, <3>2
      <4> QED
        BY <1>4, <2>1, <2>2, <2>3, <3>2, <4>1
    <3> QED
      BY <3>1, <3>2
  <2>5. ASSUME NEW n \in Stream(v)[i] + 1 .. Stream(v)[i + 1] - 1
        PROVE  n \in evicted[v] \cup skipped[Watching[v]]
    <3>1. n \in cursor[v] + 1 .. last_sent[v] /\ Stream(v)[i] < n /\ n < Stream(v)[i + 1]
      BY <1>4, <2>4
    <3>2. ASSUME NEW j \in 1 .. w, wire[v][j].event.version = n
          PROVE  FALSE
      <4>1. CASE j < i
        <5>1. i # 1 /\ (j = i - 1 \/ j < i - 1)
          BY <2>1, <4>1
        <5>2. wire[v][j].event.version <= wire[v][i - 1].event.version
          <6>1. CASE j = i - 1
            BY <1>4, <5>1, <6>1
          <6>2. CASE j < i - 1
            <7>1. i - 1 \in 1 .. w
              BY <2>1, <5>1
            <7>2. wire[v][j].event.version < wire[v][i - 1].event.version
              BY <1>6, <6>2, <7>1
            <7> QED
              BY <1>4, <7>1, <7>2
          <6> QED
            BY <5>1, <6>1, <6>2
        <5> QED
          BY <1>4, <2>1, <2>3, <2>4, <3>1, <3>2, <5>1, <5>2
      <4>2. CASE j = i
        BY <2>2, <2>4, <3>1, <3>2, <4>2
      <4>3. CASE i < j
        <5>1. wire[v][i].event.version < wire[v][j].event.version
          BY <1>6, <2>1, <4>3
        <5> QED
          BY <2>2, <2>4, <3>1, <3>2, <5>1
      <4> QED
        BY <2>1, <4>1, <4>2, <4>3
    <3> QED
      BY <1>2, <1>3, <1>4, <3>1, <3>2 DEF ViewerInv, CoverInv
  <2> QED
    BY <2>4, <2>5
<1>9. CASE ~ (i <= w)
  <2> DEFINE j == i - w
  <2>1. /\ j \in 1 .. b /\ i = w + j /\ i + 1 = 1 + w + j
        /\ j # 1 => j - 1 \in 1 .. b /\ i = 1 + w + (j - 1)
        /\ j = 1 => i = 1 + w
    BY <1>1, <1>9
  <2> HIDE DEF j
  <2>2. Stream(v)[i + 1] = last_sent[v] + j
    BY <1>1, <1>7, <2>1
  <2>3. Stream(v)[i] = last_sent[v] + j - 1
    <3>1. CASE j = 1
      <4>1. CASE w = 0
        BY <1>1, <1>4, <1>5, <2>1, <3>1, <4>1
      <4>2. CASE w # 0
        <5>1. w \in 1 .. w
          BY <1>1, <4>2
        <5> QED
          BY <1>1, <1>4, <1>5, <2>1, <3>1, <4>2, <5>1
      <4> QED
        BY <4>1, <4>2
    <3>2. CASE j # 1
      <4>1. Stream(v)[i] = last_sent[v] + (j - 1)
        BY <1>1, <1>7, <2>1, <3>2
      <4> QED
        BY <1>4, <2>1, <4>1
    <3> QED
      BY <3>1, <3>2
  <2>4. j \in Nat /\ j >= 1
    BY <2>1
  <2>5. /\ Stream(v)[i] \in Nat /\ Stream(v)[i + 1] \in Nat
        /\ Stream(v)[i + 1] = Stream(v)[i] + 1
    BY <1>4, <2>2, <2>3, <2>4
  <2> QED
    BY <2>5
<1> QED
  BY <1>8, <1>9

\* A connection delivers versions in strictly ascending order, whatever the order in
\* which appends publish.
THEOREM InOrder == Spec => []FeedInOrder
<1>1. FeedInv => FeedInOrder
  BY StreamAscends DEF FeedInOrder
<1> QED
  BY <1>1, FeedInvariant, PTL

\* Subscribing before the replay leaves no gap: what a connection skips was evicted,
\* published late or never published.
THEOREM NoUnexplainedGap == Spec => []GapExplained
<1>1. FeedInv => GapExplained
  <2> SUFFICES ASSUME FeedInv, NEW v \in Viewers
               PROVE  Gaps(v) \subseteq evicted[v] \cup skipped[Watching[v]]
    BY DEF GapExplained
  <2> QED
    BY StreamAscends DEF Gaps
<1> QED
  BY <1>1, FeedInvariant, PTL

\* Every message is the update that was committed under its version, and a client
\* shows a state the match was in.
THEOREM Truthful == Spec => []FeedTruthful
<1>1. FeedInv => FeedTruthful
  <2> SUFFICES ASSUME FeedInv, NEW v \in Viewers
               PROVE  /\ \A u \in ToSet(mailbox[v]) \cup ToSet(backlog[v]) \cup ToSet(wire[v]) :
                            u = LogOf(v)[u.event.version]
                      /\ \E i \in 0 .. Len(LogOf(v)) :
                            screen[v] = StateAfter(SubSeq(LogOf(v), 1, i))
    BY DEF FeedTruthful
  <2>1. ViewerInv(v)
    BY DEF FeedInv
  <2>2. \A u \in ToSet(mailbox[v]) : u = LogOf(v)[u.event.version]
    BY <2>1 DEF ViewerInv, MailboxInv, FromLog, ToSet
  <2>3. \A u \in ToSet(wire[v]) : u = LogOf(v)[u.event.version]
    BY <2>1 DEF ViewerInv, SocketInv, FromLog, ToSet
  <2>4. ASSUME NEW u \in ToSet(backlog[v])
        PROVE  u = LogOf(v)[u.event.version]
    <3>1. PICK i \in DOMAIN backlog[v] : u = backlog[v][i]
      BY DEF ToSet
    <3>2. last_sent[v] + i \in DOMAIN LogOf(v) /\ u = LogOf(v)[last_sent[v] + i]
      BY <2>1, <3>1 DEF ViewerInv, BacklogInv
    <3> QED
      BY <3>2, LogOfViewer
  <2>5. \E i \in 0 .. Len(LogOf(v)) : screen[v] = StateAfter(SubSeq(LogOf(v), 1, i))
    <3>1. /\ LogOf(v) \in Seq(Updates) /\ Len(LogOf(v)) \in Nat
          /\ DOMAIN LogOf(v) = 1 .. Len(LogOf(v))
      BY LogOfViewer
    <3>2. CASE screen[v] = InitialState
      <4>1. 0 \in 0 .. Len(LogOf(v)) /\ SubSeq(LogOf(v), 1, 0) = <<>>
        BY <3>1, SubSeqEmpty
      <4>2. screen[v] = StateAfter(SubSeq(LogOf(v), 1, 0))
        BY <3>2, <4>1 DEF StateAfter
      <4> QED
        BY <4>1, <4>2
    <3>3. ASSUME NEW i \in DOMAIN LogOf(v), screen[v] = LogOf(v)[i].state
          PROVE  i \in 0 .. Len(LogOf(v)) /\ screen[v] = StateAfter(SubSeq(LogOf(v), 1, i))
      <4> DEFINE shown == SubSeq(LogOf(v), 1, i)
      <4>1. i \in 1 .. Len(LogOf(v))
        BY <3>1
      <4>2. /\ shown \in Seq(Updates) /\ Len(shown) = i /\ shown[i] = LogOf(v)[i]
        <5>1. \A k \in 1 .. i : LogOf(v)[k] \in Updates
          BY <3>1, <4>1, ElementOfSeq
        <5> QED
          BY <4>1, <5>1, SubSeqProperties
      <4>3. shown # <<>>
        BY <4>1, <4>2, EmptySeq
      <4> HIDE DEF shown
      <4>4. screen[v] = StateAfter(shown)
        BY <3>3, <4>2, <4>3 DEF StateAfter
      <4> QED
        BY <4>1, <4>4 DEF shown
    <3> QED
      BY <2>1, <3>2, <3>3 DEF ViewerInv, ScreenInv
  <2> QED
    BY <2>2, <2>3, <2>4, <2>5
<1> QED
  BY <1>1, FeedInvariant, PTL
=============================================================================
