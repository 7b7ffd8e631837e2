-------------------------- MODULE EventStoreProofs --------------------------
(***************************************************************************)
(* Proofs about the write path, for every set of requests, matches, keys   *)
(* and bodies: the invariant StoreInv is inductive, so the log of a match  *)
(* is contiguous and its projection follows from it, and the statements of *)
(* append() implement the atomic store of EventLog.                        *)
(***************************************************************************)
EXTENDS EventStore, CountingProofs

-----------------------------------------------------------------------------
(* Lemmas about the log.                                                   *)

\* In a contiguous log, MAX(version) is the number of rows.
LEMMA MaxVersionIsLength ==
    ASSUME NEW m \in Matches, history \in [Matches -> Seq(Updates)], LogContiguous
    PROVE  MaxVersion(m) = Len(history[m])
<1> DEFINE n == Len(history[m])
<1>1. n \in Nat /\ DOMAIN history[m] = 1 .. n
  OBVIOUS
<1>2. {e.version : e \in Log(m)} \cup {0} = 0 .. n
  <2>1. Log(m) = {history[m][i].event : i \in 1 .. n}
    BY <1>1 DEF Log
  <2>2. \A i \in 1 .. n : history[m][i].event.version = i
    BY <1>1 DEF LogContiguous
  <2>3. {e.version : e \in Log(m)} = 1 .. n
    BY <2>1, <2>2
  <2> QED
    BY <2>3, <1>1
<1>3. n \in 0 .. n /\ \A x \in 0 .. n : n >= x
  BY <1>1
<1>4. ASSUME NEW x \in 0 .. n, \A y \in 0 .. n : x >= y
      PROVE  x = n
  <2> HIDE DEF n
  <2>1. x >= n
    BY <1>3, <1>4
  <2> QED
    BY <1>1, <2>1
<1>5. Max(0 .. n) = n
  <2> DEFINE S == 0 .. n
  <2> HIDE DEF S
  <2>1. \E x \in S : \A y \in S : x >= y
    BY <1>3 DEF S
  <2>2. Max(S) \in S /\ \A y \in S : Max(S) >= y
    BY <2>1, Zenon DEF Max
  <2> QED
    BY <2>2, <1>4 DEF S
<1> QED
  BY <1>2, <1>5 DEF MaxVersion

-----------------------------------------------------------------------------
(* StoreInv is inductive.                                                  *)

\* An empty store, as the migration leaves it, satisfies the invariant.
LEMMA StoreInvInit == Init => StoreInv
<1> SUFFICES ASSUME Init PROVE StoreInv
  OBVIOUS
<1>a. FitsInt(InitialState)
  BY IntAssumption DEF FitsInt, InitialState
<1>b. /\ history \in [Matches -> Seq(Updates)]
      /\ match_state \in [Matches -> States]
      /\ new_state \in [Requests -> States]
  BY InitialStateType DEF Init
<1>c. /\ match_status \in [Matches -> Statuses]
      /\ pc \in [Requests -> Stages]
      /\ post \in [Requests -> Posts \cup {NoPost}]
      /\ ver \in [Requests -> Nat]
      /\ DOMAIN reply = Requests
  BY DEF Init, Stages, Statuses
<1>d. /\ \A r \in Requests : pc[r] = "idle"
      /\ \A m \in Matches : FitsInt(match_state[m])
  BY <1>a DEF Init
<1>1. TypeOK
  BY <1>b, <1>c, <1>d DEF TypeOK
<1>2. LogContiguous /\ StatesChain
  BY DEF Init, LogContiguous, StatesChain, Store!StateAfter, Store!InitialState, InitialState
<1>3. VersionsAhead /\ HoldersApart /\ NewStateCurrent /\ CommittedInLog
  BY DEF Init, VersionsAhead, HoldersApart, NewStateCurrent, CommittedInLog, Done, Holding
<1>4. OriginalSelected /\ DuplicateSelectFinds
  BY DEF Init, OriginalSelected, DuplicateSelectFinds
<1>5. ExactlyOncePerKey /\ StatusMirrorsState /\ ReplyCoversEvent
  BY DEF Init, ExactlyOncePerKey, StatusMirrorsState, ReplyCoversEvent, InitialState
<1> QED
  BY <1>1, <1>2, <1>3, <1>4, <1>5 DEF StoreInv

\* A request with a body has a match, and its row is an event.
LEMMA EventType ==
    ASSUME StoreInv, NEW r \in Requests, pc[r] # "idle"
    PROVE  /\ post[r] \in Posts
           /\ post[r].match \in Matches
           /\ EventOf(r) \in ScoringEvents(Matches, Keys)
           /\ EventOf(r).match = post[r].match
           /\ EventOf(r).version = ver[r]
           /\ EventOf(r).key = post[r].key
           /\ EventOf(r).type = post[r].type
BY PostsAssumption DEF StoreInv, TypeOK, EventOf, ScoringEvents

(***************************************************************************)
(* Steps that move the pc of one request and write nothing: the two looks  *)
(* at the indexes, the upsert, the answers to COMMIT and every failure.    *)
(***************************************************************************)
LEMMA QuietStep ==
    ASSUME StoreInv, NEW r \in Requests,
           NEW to \in {"arbiter", "index", "duplicate", "original", "written",
                       "published", "failed"},
           pc[r] # "idle",
           to \in {"arbiter", "index"} => pc[r] \in {"arbiter", "index"},
           to \in {"duplicate", "original"} => KeyCommitted(post[r].key),
           to = "written" => pc[r] = "applied" /\ FitsInt(new_state[r]),
           to = "published" => pc[r] = "committed",
           pc' = [pc EXCEPT ![r] = to],
           UNCHANGED <<history, match_state, match_status, post, ver, new_state, reply>>
    PROVE  StoreInv'
<1> USE DEF StoreInv
<1>1. TypeOK'
  BY DEF TypeOK, Stages, InTransaction, Holding, Answered
<1>2. pc \in [Requests -> Stages] /\ pc'[r] = to /\ \A q \in Requests : q # r => pc'[q] = pc[q]
  BY DEF TypeOK
<1>3. LogContiguous' /\ StatesChain' /\ StatusMirrorsState'
  BY DEF LogContiguous, StatesChain, StatusMirrorsState, Store!StateAfter
<1>4. VersionsAhead'
  BY <1>2 DEF VersionsAhead, Holding
<1>5. \A k : KeyCommitted(k)' <=> KeyCommitted(k)
  BY DEF KeyCommitted, CommittedEvents, Log
<1>6. HoldersApart'
  BY <1>2, <1>5 DEF HoldersApart, Holding
<1>7. NewStateCurrent'
  BY <1>2 DEF NewStateCurrent, EventOf
<1>8. CommittedInLog'
  BY <1>2 DEF CommittedInLog, Done, EventOf, UpdateOf
<1>9. OriginalSelected' /\ DuplicateSelectFinds'
  BY <1>2, <1>5 DEF OriginalSelected, DuplicateSelectFinds
<1>10. ExactlyOncePerKey'
  BY <1>2 DEF ExactlyOncePerKey, CommittedEvents, Log
<1>11. ReplyCoversEvent'
  BY <1>2 DEF ReplyCoversEvent
<1> QED
  BY <1>1, <1>3, <1>4, <1>6, <1>7, <1>8, <1>9, <1>10, <1>11

\* The quiet actions satisfy the hypotheses of QuietStep.
LEMMA QuietActions ==
    ASSUME StoreInv, NEW r \in Requests,
           \/ KeyIsNew(r) \/ KeyIsTaken(r) \/ KeyAppeared(r) \/ VersionTaken(r)
           \/ WriteState(r) \/ OutOfRange(r) \/ StandingTaken(r)
           \/ Publish(r) \/ LoseAnswer(r) \/ SelectOriginal(r) \/ Rollback(r)
    PROVE  StoreInv'
<1>1. CASE KeyIsNew(r)
  BY <1>1, QuietStep, pc[r] = "arbiter" DEF KeyIsNew, Goto
<1>2. CASE KeyIsTaken(r)
  BY <1>2, QuietStep, pc[r] = "arbiter" DEF KeyIsTaken, KeyConflict, Goto
<1>3. CASE KeyAppeared(r)
  BY <1>3, QuietStep, pc[r] = "index" DEF KeyAppeared, Goto
<1>4. CASE Fail(r) /\ pc[r] # "idle"
  BY <1>4, QuietStep DEF Fail
<1>5. CASE VersionTaken(r) \/ OutOfRange(r) \/ StandingTaken(r) \/ Rollback(r)
  BY <1>4, <1>5
  DEF VersionTaken, OutOfRange, StandingTaken, Rollback, Recomputing, InTransaction, Holding
<1>6. CASE WriteState(r)
  BY <1>6, QuietStep, pc[r] = "applied" DEF WriteState, Storable, Goto
<1>7. CASE Publish(r)
  BY <1>7, QuietStep, pc[r] = "committed" DEF Publish, Goto
<1>8. CASE LoseAnswer(r)
  BY <1>8, QuietStep, pc[r] = "committed" DEF LoseAnswer, Goto
<1>9. CASE SelectOriginal(r)
  <2>1. KeyCommitted(post[r].key)
    BY <1>9 DEF SelectOriginal, KeyCommitted
  <2> QED
    BY <1>9, <2>1, QuietStep DEF SelectOriginal, Goto
<1> QED
  BY <1>1, <1>2, <1>3, <1>5, <1>6, <1>7, <1>8, <1>9

\* A statement of the recompute changes none of the variables of StoreInv.
LEMMA UnchangedStore ==
    ASSUME StoreInv, UNCHANGED storeVars
    PROVE  StoreInv'
<1> USE DEF StoreInv, storeVars
<1>1. TypeOK'
  BY DEF TypeOK
<1>2. LogContiguous' /\ StatesChain' /\ StatusMirrorsState'
  BY DEF LogContiguous, StatesChain, StatusMirrorsState, Store!StateAfter
<1>3. VersionsAhead' /\ NewStateCurrent' /\ CommittedInLog'
  BY DEF VersionsAhead, NewStateCurrent, CommittedInLog, EventOf, UpdateOf
<1>4. \A k : KeyCommitted(k)' <=> KeyCommitted(k)
  BY DEF KeyCommitted, CommittedEvents, Log
<1>5. HoldersApart' /\ OriginalSelected' /\ DuplicateSelectFinds'
  BY <1>4 DEF HoldersApart, OriginalSelected, DuplicateSelectFinds
<1>6. ExactlyOncePerKey'
  BY DEF ExactlyOncePerKey, CommittedEvents, Log
<1>7. ReplyCoversEvent'
  BY DEF ReplyCoversEvent
<1> QED
  BY <1>1, <1>2, <1>3, <1>5, <1>6, <1>7

\* A request arrives: it holds nothing yet.
LEMMA BeginStep ==
    ASSUME StoreInv, NEW r \in Requests, NEW body \in Posts, Begin(r, body)
    PROVE  StoreInv'
<1> USE DEF StoreInv
<1>1. /\ pc[r] = "idle" /\ pc' = [pc EXCEPT ![r] = "ready"]
      /\ post' = [post EXCEPT ![r] = body]
      /\ UNCHANGED <<history, match_state, match_status, ver, new_state, reply>>
  BY DEF Begin, Goto
<1>2. /\ pc'[r] = "ready" /\ \A q \in Requests : q # r => pc'[q] = pc[q]
      /\ post'[r] = body /\ \A q \in Requests : q # r => post'[q] = post[q]
  BY <1>1 DEF TypeOK
<1>3. TypeOK'
  BY <1>1, <1>2 DEF TypeOK, Stages, InTransaction
<1>4. LogContiguous' /\ StatesChain' /\ StatusMirrorsState'
  BY <1>1 DEF LogContiguous, StatesChain, StatusMirrorsState, Store!StateAfter
<1>5. VersionsAhead' /\ NewStateCurrent' /\ CommittedInLog'
  BY <1>1, <1>2 DEF VersionsAhead, NewStateCurrent, CommittedInLog, Done, EventOf, UpdateOf, Holding
<1>6. \A k : KeyCommitted(k)' <=> KeyCommitted(k)
  BY <1>1 DEF KeyCommitted, CommittedEvents, Log
<1>7. HoldersApart' /\ OriginalSelected' /\ DuplicateSelectFinds'
  BY <1>1, <1>2, <1>6 DEF HoldersApart, OriginalSelected, DuplicateSelectFinds, Holding
<1>8. ExactlyOncePerKey'
  BY <1>1, <1>2 DEF ExactlyOncePerKey, CommittedEvents, Log
<1>9. ReplyCoversEvent'
  BY <1>1, <1>2 DEF ReplyCoversEvent
<1> QED
  BY <1>3, <1>4, <1>5, <1>7, <1>8, <1>9

\* The statement snapshot gives the next version, or a stale one later on.
LEMMA SelectVersionStep ==
    ASSUME StoreInv, NEW r \in Requests, SelectVersion(r)
    PROVE  StoreInv'
<1> USE DEF StoreInv
<1> DEFINE m == post[r].match
<1>1. /\ pc[r] = "ready" /\ pc' = [pc EXCEPT ![r] = "arbiter"]
      /\ ver' = [ver EXCEPT ![r] = MaxVersion(m) + 1]
      /\ UNCHANGED <<history, match_state, match_status, post, new_state, reply>>
  BY DEF SelectVersion, Goto
<1>2. m \in Matches /\ MaxVersion(m) = Len(history[m]) /\ Len(history[m]) \in Nat
  <2>1. m \in Matches
    BY <1>1, EventType
  <2>2. history[m] \in Seq(Updates)
    BY <2>1 DEF TypeOK
  <2>3. history \in [Matches -> Seq(Updates)]
    BY DEF TypeOK
  <2>4. MaxVersion(m) = Len(history[m])
    BY <2>1, <2>3, MaxVersionIsLength
  <2> QED
    BY <2>1, <2>2, <2>4
<1>3. /\ pc'[r] = "arbiter" /\ \A q \in Requests : q # r => pc'[q] = pc[q]
      /\ ver'[r] = Len(history[m]) + 1 /\ \A q \in Requests : q # r => ver'[q] = ver[q]
  BY <1>1, <1>2 DEF TypeOK
<1>4. TypeOK'
  BY <1>1, <1>2, <1>3 DEF TypeOK, Stages, InTransaction
<1>5. LogContiguous' /\ StatesChain' /\ StatusMirrorsState'
  BY <1>1 DEF LogContiguous, StatesChain, StatusMirrorsState, Store!StateAfter
<1>6. VersionsAhead'
  BY <1>1, <1>2, <1>3 DEF VersionsAhead, Holding
<1>7. NewStateCurrent' /\ CommittedInLog'
  BY <1>1, <1>3 DEF NewStateCurrent, CommittedInLog, Done, EventOf, UpdateOf
<1>8. \A k : KeyCommitted(k)' <=> KeyCommitted(k)
  BY <1>1 DEF KeyCommitted, CommittedEvents, Log
<1>9. HoldersApart' /\ OriginalSelected' /\ DuplicateSelectFinds'
  BY <1>1, <1>3, <1>8 DEF HoldersApart, OriginalSelected, DuplicateSelectFinds, Holding
<1>10. ExactlyOncePerKey'
  BY <1>1, <1>3 DEF ExactlyOncePerKey, CommittedEvents, Log
<1>11. ReplyCoversEvent'
  BY <1>1, <1>3 DEF ReplyCoversEvent
<1> QED
  BY <1>4, <1>5, <1>6, <1>7, <1>9, <1>10, <1>11

\* UNIQUE (match_id, version) lets only the next version of the match into the
\* log, and only one transaction at a time: here the appends of a match are put
\* in order.
LEMMA InsertEventStep ==
    ASSUME StoreInv, NEW r \in Requests, InsertEvent(r)
    PROVE  StoreInv'
<1> USE DEF StoreInv
<1> DEFINE m == post[r].match
<1>1. /\ pc[r] = "index" /\ pc' = [pc EXCEPT ![r] = "inserted"]
      /\ ~ VersionCommitted(m, ver[r]) /\ HoldersOfVersion(m, ver[r]) = {}
      /\ ~ KeyCommitted(post[r].key) /\ HoldersOfKey(post[r].key) = {}
      /\ UNCHANGED <<history, match_state, match_status, post, ver, new_state, reply>>
  BY DEF InsertEvent, Goto
<1>2. m \in Matches /\ history[m] \in Seq(Updates)
  BY <1>1, EventType DEF TypeOK
<1>3. /\ pc'[r] = "inserted" /\ \A q \in Requests : q # r => pc'[q] = pc[q]
  BY <1>1 DEF TypeOK
<1>4. ver[r] = Len(history[m]) + 1
  <2>1. ver[r] \in 1 .. Len(history[m]) + 1
    BY <1>1 DEF VersionsAhead
  <2>2. ASSUME ver[r] \in DOMAIN history[m] PROVE FALSE
    <3>1. history[m][ver[r]].event.version = ver[r]
      BY <1>2, <2>2 DEF LogContiguous
    <3>2. VersionCommitted(m, ver[r])
      BY <2>2, <3>1 DEF VersionCommitted, Log
    <3> QED
      BY <1>1, <3>2
  <2> QED
    BY <1>2, <2>1, <2>2
<1>5. \A q \in Requests : pc[q] \in Holding =>
        q # r /\ post[q].match # m /\ post[q].key # post[r].key
  BY <1>1, <1>4 DEF HoldersOfVersion, HoldersOfKey, VersionsAhead, Holding
<1>6. TypeOK'
  BY <1>1, <1>3 DEF TypeOK, Stages, Holding, InTransaction
<1>7. LogContiguous' /\ StatesChain' /\ StatusMirrorsState'
  BY <1>1 DEF LogContiguous, StatesChain, StatusMirrorsState, Store!StateAfter
<1>8. VersionsAhead'
  BY <1>1, <1>3, <1>4 DEF VersionsAhead, Holding
<1>9. NewStateCurrent' /\ CommittedInLog'
  BY <1>1, <1>3 DEF NewStateCurrent, CommittedInLog, Done, EventOf, UpdateOf
<1>10. \A k : KeyCommitted(k)' <=> KeyCommitted(k)
  BY <1>1 DEF KeyCommitted, CommittedEvents, Log
<1>11. HoldersApart'
  BY <1>1, <1>3, <1>5, <1>10 DEF HoldersApart, Holding
<1>12. OriginalSelected' /\ DuplicateSelectFinds'
  BY <1>1, <1>3, <1>10 DEF OriginalSelected, DuplicateSelectFinds
<1>13. ExactlyOncePerKey'
  BY <1>1, <1>3 DEF ExactlyOncePerKey, CommittedEvents, Log
<1>14. ReplyCoversEvent'
  BY <1>1, <1>3 DEF ReplyCoversEvent
<1> QED
  BY <1>6, <1>7, <1>8, <1>9, <1>11, <1>12, <1>13, <1>14

\* The state is computed from the row that the commit will replace.
LEMMA ApplyEventStep ==
    ASSUME StoreInv, NEW r \in Requests, ApplyEvent(r)
    PROVE  StoreInv'
<1> USE DEF StoreInv
<1>1. /\ pc[r] = "inserted" /\ pc' = [pc EXCEPT ![r] = "applied"]
      /\ new_state' = [new_state EXCEPT ![r] = Apply(match_state[post[r].match], EventOf(r))]
      /\ UNCHANGED <<history, match_state, match_status, post, ver, reply>>
  BY DEF ApplyEvent, NextState, Goto
<1>2. Apply(match_state[post[r].match], EventOf(r)) \in States
  BY <1>1, EventType, ApplyType DEF TypeOK
<1>3. /\ pc'[r] = "applied" /\ \A q \in Requests : q # r => pc'[q] = pc[q]
      /\ new_state'[r] = Apply(match_state[post[r].match], EventOf(r))
      /\ \A q \in Requests : q # r => new_state'[q] = new_state[q]
  BY <1>1 DEF TypeOK
<1>4. TypeOK'
  BY <1>1, <1>2, <1>3 DEF TypeOK, Stages, InTransaction, Holding
<1>5. LogContiguous' /\ StatesChain' /\ StatusMirrorsState'
  BY <1>1 DEF LogContiguous, StatesChain, StatusMirrorsState, Store!StateAfter
<1>6. VersionsAhead'
  BY <1>1, <1>3 DEF VersionsAhead, Holding
<1>7. \A q \in Requests : EventOf(q)' = EventOf(q)
  BY <1>1 DEF EventOf
<1>8. NewStateCurrent'
  BY <1>1, <1>3, <1>7 DEF NewStateCurrent
<1>9. CommittedInLog'
  BY <1>1, <1>3, <1>7 DEF CommittedInLog, Done, UpdateOf
<1>10. \A k : KeyCommitted(k)' <=> KeyCommitted(k)
  BY <1>1 DEF KeyCommitted, CommittedEvents, Log
<1>11. HoldersApart' /\ OriginalSelected' /\ DuplicateSelectFinds'
  BY <1>1, <1>3, <1>10 DEF HoldersApart, OriginalSelected, DuplicateSelectFinds, Holding
<1>12. ExactlyOncePerKey'
  BY <1>1, <1>3 DEF ExactlyOncePerKey, CommittedEvents, Log
<1>13. ReplyCoversEvent'
  BY <1>1, <1>3 DEF ReplyCoversEvent
<1> QED
  BY <1>4, <1>5, <1>6, <1>8, <1>9, <1>11, <1>12, <1>13

(***************************************************************************)
(* The commit.  What it does to the log is stated first: the match of r is *)
(* one event longer, and the key of r is the only new one.                 *)
(***************************************************************************)
LEMMA CommitEffect ==
    ASSUME StoreInv, NEW r \in Requests, Commit(r)
    PROVE  LET m == post[r].match
               n == Len(history[m])
           IN  /\ m \in Matches /\ n \in Nat /\ ver[r] = n + 1
               /\ EventOf(r) \in ScoringEvents(Matches, Keys)
               /\ UpdateOf(r) \in Updates
               /\ new_state[r] = Apply(match_state[m], EventOf(r))
               /\ new_state[r].version = n + 1
               /\ history' \in [Matches -> Seq(Updates)]
               /\ history'[m] = Append(history[m], UpdateOf(r))
               /\ DOMAIN history[m] = 1 .. n /\ DOMAIN history'[m] = 1 .. n + 1
               /\ \A i \in 1 .. n : history'[m][i] = history[m][i]
               /\ history'[m][n + 1] = UpdateOf(r)
               /\ \A k \in Matches : k # m => history'[k] = history[k]
               /\ \A k : KeyCommitted(k)' <=> KeyCommitted(k) \/ k = post[r].key
<1> DEFINE m == post[r].match
           n == Len(history[m])
<1>1. /\ pc[r] = "written"
      /\ history' = [history EXCEPT ![m] = Append(@, UpdateOf(r))]
  BY DEF Commit, Goto
<1>2. /\ m \in Matches /\ history \in [Matches -> Seq(Updates)]
      /\ history[m] \in Seq(Updates) /\ new_state[r] \in States
      /\ match_state[m] \in States
  BY <1>1, EventType DEF StoreInv, TypeOK
<1>3. EventOf(r) \in ScoringEvents(Matches, Keys) /\ EventOf(r).version = ver[r]
  BY <1>1, EventType
<1>4. UpdateOf(r) \in Updates
  BY <1>2, <1>3 DEF UpdateOf, Updates
<1>5. n \in Nat /\ DOMAIN history[m] = 1 .. n
  BY <1>2
<1>6. ver[r] = n + 1
  BY <1>1 DEF StoreInv, VersionsAhead, Holding
<1>7. new_state[r] = Apply(match_state[m], EventOf(r))
  BY <1>1 DEF StoreInv, NewStateCurrent
<1>8. new_state[r].version = n + 1
  BY <1>2, <1>3, <1>6, <1>7, ApplyType
<1>9. history'[m] = Append(history[m], UpdateOf(r))
  BY <1>1, <1>2
<1>10. history'[m] \in Seq(Updates)
  BY <1>2, <1>4, <1>9
<1>11. \A k \in Matches : k # m => history'[k] = history[k]
  BY <1>1, <1>2
<1>12. history' \in [Matches -> Seq(Updates)]
  BY <1>1, <1>2, <1>10, <1>11
<1>13. /\ DOMAIN history'[m] = 1 .. n + 1
       /\ \A i \in 1 .. n : history'[m][i] = history[m][i]
       /\ history'[m][n + 1] = UpdateOf(r)
  BY <1>2, <1>4, <1>5, <1>9
<1>14. UpdateOf(r).event.key = post[r].key
  BY DEF UpdateOf, EventOf
<1>15. \A k : KeyCommitted(k) <=>
         \E x \in Matches : \E i \in DOMAIN history[x] : history[x][i].event.key = k
  BY DEF KeyCommitted, CommittedEvents, Log
<1>16. \A k : KeyCommitted(k)' <=>
         \E x \in Matches : \E i \in DOMAIN history'[x] : history'[x][i].event.key = k
  BY DEF KeyCommitted, CommittedEvents, Log
<1>17. ASSUME NEW k PROVE KeyCommitted(k)' <=> KeyCommitted(k) \/ k = post[r].key
  <2> HIDE DEF m, n
  <2>1. KeyCommitted(k) => KeyCommitted(k)'
    BY <1>2, <1>5, <1>11, <1>13, <1>15, <1>16
  <2>2. ASSUME k = post[r].key PROVE KeyCommitted(k)'
    BY <1>2, <1>5, <1>13, <1>14, <1>16, <2>2
  <2>3. ASSUME KeyCommitted(k)', k # post[r].key PROVE KeyCommitted(k)
    <3>0. PICK x \in Matches : \E i \in DOMAIN history'[x] : history'[x][i].event.key = k
      BY <1>16, <2>3
    <3>1. PICK i \in DOMAIN history'[x] : history'[x][i].event.key = k
      BY <3>0
    <3>2. CASE x # m
      BY <1>11, <1>15, <3>1, <3>2
    <3>3. CASE x = m
      <4>1. i \in 1 .. n
        BY <1>5, <1>13, <1>14, <2>3, <3>1, <3>3
      <4> QED
        BY <1>2, <1>5, <1>13, <1>15, <3>1, <3>3, <4>1
    <3> QED
      BY <3>2, <3>3
  <2> QED
    BY <2>1, <2>2, <2>3
<1> QED
  BY <1>2, <1>3, <1>4, <1>5, <1>6, <1>7, <1>8, <1>9, <1>11, <1>12, <1>13, <1>17

\* COMMIT moves the writes of a request into the log, the projection and the status:
\* the row was the next version, and nobody else holds one of that match.
LEMMA CommitStep ==
    ASSUME StoreInv, NEW r \in Requests, Commit(r)
    PROVE  StoreInv'
<1> DEFINE m == post[r].match
           n == Len(history[m])
<1>1. /\ pc[r] = "written" /\ pc' = [pc EXCEPT ![r] = "committed"]
      /\ match_state' = [match_state EXCEPT ![m] = new_state[r]]
      /\ match_status' = [match_status EXCEPT ![m] = Mirrored(r)]
      /\ UNCHANGED <<post, ver, new_state, reply>>
  BY DEF Commit, Goto
<1>2. /\ m \in Matches /\ n \in Nat /\ ver[r] = n + 1
      /\ UpdateOf(r) \in Updates
      /\ new_state[r] = Apply(match_state[m], EventOf(r))
      /\ new_state[r].version = n + 1
      /\ history' \in [Matches -> Seq(Updates)]
      /\ DOMAIN history[m] = 1 .. n /\ DOMAIN history'[m] = 1 .. n + 1
      /\ \A i \in 1 .. n : history'[m][i] = history[m][i]
      /\ history'[m][n + 1] = UpdateOf(r)
      /\ \A k \in Matches : k # m => history'[k] = history[k]
      /\ \A k : KeyCommitted(k)' <=> KeyCommitted(k) \/ k = post[r].key
      /\ EventOf(r) \in ScoringEvents(Matches, Keys)
  BY CommitEffect
<1>3. /\ EventOf(r).match = m /\ EventOf(r).version = n + 1 /\ EventOf(r).key = post[r].key
      /\ EventOf(r).type = post[r].type
      /\ UpdateOf(r).event = EventOf(r) /\ UpdateOf(r).state = new_state[r]
  BY <1>2 DEF EventOf, UpdateOf
<1>4. /\ TypeOK
      /\ pc'[r] = "committed" /\ \A q \in Requests : q # r => pc'[q] = pc[q]
      /\ match_state'[m] = new_state[r] /\ match_status'[m] = Mirrored(r)
      /\ \A k \in Matches : k # m => /\ match_state'[k] = match_state[k]
                                     /\ match_status'[k] = match_status[k]
  BY <1>1, <1>2 DEF StoreInv, TypeOK
<1>5. ~ KeyCommitted(post[r].key)
  BY <1>1 DEF StoreInv, HoldersApart, Holding
<1>6. \A q \in Requests : pc[q] \in Holding /\ q # r =>
        post[q].match # m /\ post[q].key # post[r].key
  BY <1>1 DEF StoreInv, HoldersApart, Holding
<1>7. \A q \in Requests : EventOf(q)' = EventOf(q) /\ UpdateOf(q)' = UpdateOf(q)
  BY <1>1 DEF EventOf, UpdateOf
<1>8. \A k \in Matches : /\ DOMAIN history[k] = 1 .. Len(history[k])
                         /\ Len(history[k]) \in Nat
  BY <1>4 DEF TypeOK
<1>9. Len(history'[m]) = n + 1
  BY <1>2
<1> HIDE DEF m, n
<1>10. Mirrored(r) = new_state[r].status
  <2>1. CASE post[r].type \in {"match_started", "match_finalised"}
    BY <2>1 DEF Mirrored
  <2>2. CASE post[r].type \notin {"match_started", "match_finalised"}
    <3>1. Mirrored(r) = match_state[m].status
      BY <1>2, <2>2 DEF Mirrored, StoreInv, StatusMirrorsState, m
    <3>2. Apply(match_state[m], EventOf(r)).status = match_state[m].status
      BY <1>2, <1>3, <1>4, <2>2, ApplyStatus DEF TypeOK
    <3> QED
      BY <1>2, <3>1, <3>2
  <2> QED
    BY <2>1, <2>2
<1>11. TypeOK'
  <2>1. new_state[r] \in States /\ FitsInt(new_state[r])
    BY <1>1, <1>4 DEF TypeOK
  <2>2. match_state' \in [Matches -> States] /\ match_status' \in [Matches -> Statuses]
    BY <1>1, <1>2, <1>4, <1>10, <2>1 DEF TypeOK, States
  <2>3. \A k \in Matches : FitsInt(match_state'[k])
    BY <1>4, <2>1 DEF TypeOK
  <2> QED
    BY <1>1, <1>2, <1>4, <2>2, <2>3 DEF TypeOK, Stages
<1>12. LogContiguous'
  <2> SUFFICES ASSUME NEW k \in Matches, NEW i \in DOMAIN history'[k]
               PROVE  history'[k][i].event.version = i /\ history'[k][i].event.match = k
    BY DEF LogContiguous
  <2>1. CASE k # m
    BY <1>2, <2>1 DEF StoreInv, LogContiguous
  <2>2. CASE k = m /\ i \in 1 .. n
    BY <1>2, <2>2 DEF StoreInv, LogContiguous
  <2>3. CASE k = m /\ i = n + 1
    BY <1>2, <1>3, <2>3
  <2> QED
    BY <1>2, <2>1, <2>2, <2>3
<1>13. StatusMirrorsState'
  BY <1>2, <1>4, <1>10 DEF StoreInv, StatusMirrorsState
<1>14. match_state[m] = IF n = 0 THEN InitialState ELSE history[m][n].state
  BY <1>2, <1>4 DEF StoreInv, StatesChain, TypeOK, m, n,
     Store!StateAfter, Store!InitialState, InitialState
<1>15. StatesChain'
  <2>1. SUFFICES ASSUME NEW k \in Matches
                 PROVE  /\ match_state'[k] = Store!StateAfter(history'[k])
                        /\ \A i \in DOMAIN history'[k] :
                             history'[k][i].state =
                                Apply(IF i = 1 THEN InitialState ELSE history'[k][i - 1].state,
                                      history'[k][i].event)
    BY DEF StatesChain, Store!StateAfter
  <2>2. CASE k # m
    BY <1>2, <1>4, <2>2 DEF StoreInv, StatesChain
  <2>3. CASE k = m
    <3>1. history'[m] # <<>>
      BY <1>2, <1>9
    <3>2. match_state'[m] = Store!StateAfter(history'[m])
      BY <1>2, <1>3, <1>4, <1>9, <3>1 DEF Store!StateAfter
    <3>3. ASSUME NEW i \in 1 .. n + 1
          PROVE  history'[m][i].state =
                    Apply(IF i = 1 THEN InitialState ELSE history'[m][i - 1].state,
                          history'[m][i].event)
      <4>1. CASE i = n + 1
        <5>1. (IF i = 1 THEN InitialState ELSE history'[m][i - 1].state) = match_state[m]
          BY <1>2, <1>14, <4>1
        <5> QED
          BY <1>2, <1>3, <4>1, <5>1
      <4>2. CASE i \in 1 .. n
        <5>1. /\ history'[m][i] = history[m][i]
              /\ i # 1 => history'[m][i - 1] = history[m][i - 1]
          BY <1>2, <4>2
        <5>2. history[m][i].state =
                Apply(IF i = 1 THEN InitialState ELSE history[m][i - 1].state,
                      history[m][i].event)
          BY <1>2, <4>2 DEF StoreInv, StatesChain
        <5> QED
          BY <5>1, <5>2
      <4> QED
        BY <1>2, <4>1, <4>2
    <3> QED
      BY <1>2, <2>3, <3>2, <3>3
  <2> QED
    BY <2>2, <2>3
<1>16. VersionsAhead'
  <2> SUFFICES ASSUME NEW q \in Requests
               PROVE  /\ pc'[q] \in {"arbiter", "index"} =>
                           ver[q] \in 1 .. Len(history'[post[q].match]) + 1
                      /\ pc'[q] \in Holding => ver[q] = Len(history'[post[q].match]) + 1
    BY <1>1 DEF VersionsAhead
  <2>1. CASE pc'[q] \in {"arbiter", "index"}
    <3>1. q # r /\ pc[q] \in {"arbiter", "index"}
      BY <1>4, <2>1
    <3>2. ver[q] \in 1 .. Len(history[post[q].match]) + 1 /\ post[q].match \in Matches
      BY <3>1, PostsAssumption DEF StoreInv, VersionsAhead, TypeOK
    <3>3. CASE post[q].match = m
      BY <1>2, <1>9, <2>1, <3>2, <3>3 DEF n, Holding
    <3>4. CASE post[q].match # m
      BY <1>2, <2>1, <3>2, <3>4 DEF Holding
    <3> QED
      BY <3>3, <3>4
  <2>2. CASE pc'[q] \in Holding
    <3>1. q # r /\ pc[q] \in Holding
      BY <1>4, <2>2 DEF Holding
    <3>2. post[q].match \in Matches
      BY <3>1, PostsAssumption DEF StoreInv, TypeOK, Holding
    <3> QED
      BY <1>2, <1>6, <2>2, <3>1, <3>2 DEF StoreInv, VersionsAhead, Holding
  <2> QED
    BY <2>1, <2>2
<1>17. HoldersApart'
  BY <1>1, <1>2, <1>4, <1>6 DEF StoreInv, HoldersApart, Holding
<1>18. NewStateCurrent'
  <2> SUFFICES ASSUME NEW q \in Requests, pc'[q] \in {"applied", "written"}
               PROVE  new_state[q] = Apply(match_state'[post[q].match], EventOf(q))
    BY <1>1, <1>7 DEF NewStateCurrent
  <2>1. q # r /\ pc[q] \in {"applied", "written"}
    BY <1>4
  <2>2. post[q].match \in Matches /\ post[q].match # m
    BY <1>6, <2>1, PostsAssumption DEF StoreInv, TypeOK, Holding
  <2> QED
    BY <1>4, <2>1, <2>2 DEF StoreInv, NewStateCurrent
<1>19. \A q \in Requests : q # r /\ pc[q] \in Done =>
         KeyCommitted(post[q].key) /\ post[q].match \in Matches
  <2> SUFFICES ASSUME NEW q \in Requests, q # r, pc[q] \in Done
               PROVE  KeyCommitted(post[q].key) /\ post[q].match \in Matches
    OBVIOUS
  <2>1. post[q].match \in Matches
    BY PostsAssumption DEF StoreInv, TypeOK, Done
  <2>2. /\ ver[q] \in DOMAIN history[post[q].match]
        /\ history[post[q].match][ver[q]] = UpdateOf(q)
    BY DEF StoreInv, CommittedInLog
  <2>3. UpdateOf(q).event.key = post[q].key
    BY DEF UpdateOf, EventOf
  <2> QED
    BY <2>1, <2>2, <2>3 DEF KeyCommitted, CommittedEvents, Log
<1>20. CommittedInLog'
  <2>1. ASSUME NEW q \in Requests, pc'[q] \in Done
        PROVE  /\ ver[q] \in DOMAIN history'[post[q].match]
               /\ history'[post[q].match][ver[q]] = UpdateOf(q)
    <3>1. CASE q = r
      BY <1>2, <3>1 DEF m
    <3>2. CASE q # r
      <4>1. pc[q] \in Done /\ post[q].match \in Matches
        BY <1>4, <1>19, <2>1, <3>2
      <4>2. /\ ver[q] \in DOMAIN history[post[q].match]
            /\ history[post[q].match][ver[q]] = UpdateOf(q)
        BY <4>1 DEF StoreInv, CommittedInLog
      <4> QED
        BY <1>2, <4>1, <4>2
    <3> QED
      BY <3>1, <3>2
  <2>2. ASSUME NEW p \in Requests, NEW q \in Requests,
               pc'[p] \in Done, pc'[q] \in Done, post[p].key = post[q].key
        PROVE  p = q
    BY <1>4, <1>5, <1>19, <2>2 DEF StoreInv, CommittedInLog
  <2> QED
    BY <1>1, <1>7, <2>1, <2>2 DEF CommittedInLog
<1>21. OriginalSelected' /\ DuplicateSelectFinds'
  BY <1>1, <1>2, <1>4 DEF StoreInv, OriginalSelected, DuplicateSelectFinds
<1>22. ExactlyOncePerKey'
  <2>1. ASSUME NEW x \in Matches, NEW y \in Matches,
               NEW i \in DOMAIN history'[x], NEW j \in DOMAIN history'[y],
               history'[x][i].event.key = history'[y][j].event.key
        PROVE  x = y /\ i = j
    <3>1. \A k \in Matches : \A l \in DOMAIN history'[k] :
            \/ /\ l \in DOMAIN history[k]
               /\ history'[k][l] = history[k][l]
               /\ history'[k][l].event.key # post[r].key
            \/ k = m /\ l = n + 1 /\ history'[k][l].event.key = post[r].key
      <4> SUFFICES ASSUME NEW k \in Matches, NEW l \in DOMAIN history'[k]
                   PROVE  \/ /\ l \in DOMAIN history[k]
                             /\ history'[k][l] = history[k][l]
                             /\ history'[k][l].event.key # post[r].key
                          \/ /\ k = m /\ l = n + 1
                             /\ history'[k][l].event.key = post[r].key
        OBVIOUS
      <4>1. CASE k = m /\ l = n + 1
        BY <1>2, <1>3, <4>1
      <4>2. CASE ~ (k = m /\ l = n + 1)
        <5>1. l \in DOMAIN history[k] /\ history'[k][l] = history[k][l]
          BY <1>2, <4>2
        <5>2. KeyCommitted(history[k][l].event.key)
          BY <5>1 DEF KeyCommitted, CommittedEvents, Log
        <5> QED
          BY <1>5, <5>1, <5>2
      <4> QED
        BY <4>1, <4>2
    <3> QED
      BY <2>1, <3>1 DEF StoreInv, ExactlyOncePerKey
  <2>2. ASSUME NEW e \in CommittedEvents PROVE e \in CommittedEvents'
    <3>1. PICK x \in Matches : e \in Log(x)
      BY DEF CommittedEvents
    <3>2. PICK i \in DOMAIN history[x] : e = history[x][i].event
      BY <3>1 DEF Log
    <3>3. i \in DOMAIN history'[x] /\ history'[x][i] = history[x][i]
      <4>1. CASE x = m
        <5>1. i \in 1 .. n
          BY <1>2, <3>2, <4>1
        <5> QED
          BY <1>2, <4>1, <5>1
      <4>2. CASE x # m
        BY <1>2, <3>1, <4>2
      <4> QED
        BY <4>1, <4>2
    <3>4. e \in {history'[x][j].event : j \in DOMAIN history'[x]}
      BY <3>2, <3>3
    <3> QED
      BY <3>4 DEF CommittedEvents, Log
  <2>3. \A q \in Requests : pc'[q] \in {"created", "replayed"} =>
          pc'[q] = pc[q] /\ q # r
    BY <1>4
  <2> QED
    BY <1>1, <2>1, <2>2, <2>3 DEF StoreInv, ExactlyOncePerKey
<1>23. ReplyCoversEvent'
  <2> SUFFICES ASSUME NEW q \in Requests, pc'[q] \in {"created", "replayed"},
                      reply[q].event.match = post[q].match
               PROVE  LET state == reply[q].state
                      IN  /\ state.version \in
                               reply[q].event.version .. Len(history'[post[q].match])
                          /\ state = history'[post[q].match][state.version].state
    BY <1>1 DEF ReplyCoversEvent
  <2>1. q # r /\ pc[q] \in {"created", "replayed"} /\ post[q].match \in Matches
    BY <1>4, PostsAssumption DEF TypeOK
  <2> DEFINE h == history[post[q].match]
             v == reply[q].state.version
  <2>2. v \in reply[q].event.version .. Len(h) /\ reply[q].state = h[v].state
    BY <2>1 DEF StoreInv, ReplyCoversEvent
  <2>3. reply[q].event \in Log(post[q].match)
    <3>1. reply[q].event \in CommittedEvents
      BY <2>1 DEF StoreInv, ExactlyOncePerKey
    <3>2. PICK x \in Matches : reply[q].event \in Log(x)
      BY <3>1 DEF CommittedEvents
    <3>3. PICK i \in DOMAIN history[x] : reply[q].event = history[x][i].event
      BY <3>2 DEF Log
    <3>4. reply[q].event.match = x
      BY <3>2, <3>3 DEF StoreInv, LogContiguous
    <3> QED
      BY <3>2, <3>4
  <2>4. reply[q].event.version \in DOMAIN h
    BY <2>1, <2>3 DEF StoreInv, LogContiguous, Log
  <2>5. v \in DOMAIN h
    BY <1>8, <2>1, <2>2, <2>4
  <2>6. CASE post[q].match = m
    <3>1. v \in 1 .. n /\ Len(h) = n
      BY <1>2, <2>5, <2>6 DEF n, m
    <3> QED
      BY <1>2, <1>9, <2>2, <2>4, <2>6, <3>1
  <2>7. CASE post[q].match # m
    BY <1>2, <2>1, <2>2, <2>7
  <2> QED
    BY <2>6, <2>7
<1> QED
  BY <1>11, <1>12, <1>13, <1>15, <1>16, <1>17, <1>18, <1>20, <1>21, <1>22, <1>23 DEF StoreInv

-----------------------------------------------------------------------------
(* The answers.                                                            *)

\* An event that is in some log is in the log of its own match.
LEMMA EventInItsLog ==
    ASSUME LogContiguous, NEW e \in CommittedEvents
    PROVE  e.match \in Matches /\ e.version \in DOMAIN history[e.match]
<1>1. PICK x \in Matches : e \in Log(x)
  BY DEF CommittedEvents
<1>2. PICK i \in DOMAIN history[x] : e = history[x][i].event
  BY <1>1 DEF Log
<1> QED
  BY <1>1, <1>2 DEF LogContiguous

\* Both answers read the projection after the event was committed.
LEMMA AnswerStep ==
    ASSUME StoreInv, NEW r \in Requests, NEW e \in CommittedEvents,
           NEW kind \in {"created", "replayed"},
           e.key = post[r].key,
           kind = "created" => pc[r] = "published" /\ e = EventOf(r),
           kind = "replayed" => pc[r] = "original",
           Answer(r, e, kind)
    PROVE  StoreInv'
<1> DEFINE m == post[r].match
<1>1. /\ pc' = [pc EXCEPT ![r] = kind]
      /\ reply' = [reply EXCEPT ![r] = [kind |-> kind, event |-> e, state |-> match_state[m]]]
      /\ UNCHANGED <<history, match_state, match_status, post, ver, new_state>>
  BY DEF Answer, Snapshot
<1>2. pc[r] \in {"published", "original"} /\ m \in Matches
  BY EventType
<1>3. /\ TypeOK
      /\ pc'[r] = kind /\ \A q \in Requests : q # r => pc'[q] = pc[q]
  BY <1>1 DEF StoreInv, TypeOK
<1>4. TypeOK'
  BY <1>1, <1>2, <1>3 DEF TypeOK, Stages, Answered
<1>5. LogContiguous' /\ StatesChain' /\ StatusMirrorsState'
  BY <1>1 DEF StoreInv, LogContiguous, StatesChain, StatusMirrorsState, Store!StateAfter
<1>6. VersionsAhead' /\ NewStateCurrent'
  BY <1>1, <1>3 DEF StoreInv, VersionsAhead, NewStateCurrent, EventOf, Holding
<1>7. CommittedInLog'
  BY <1>1, <1>3 DEF StoreInv, CommittedInLog, Done, EventOf, UpdateOf
<1>8. \A k : KeyCommitted(k)' <=> KeyCommitted(k)
  BY <1>1 DEF KeyCommitted, CommittedEvents, Log
<1>9. HoldersApart' /\ OriginalSelected' /\ DuplicateSelectFinds'
  BY <1>1, <1>3, <1>8 DEF StoreInv, HoldersApart, OriginalSelected, DuplicateSelectFinds, Holding
<1>10. ExactlyOncePerKey'
  <2>1. CommittedEvents' = CommittedEvents
    BY <1>1 DEF CommittedEvents, Log
  <2>2. \A p, q \in Requests :
          pc'[p] = "created" /\ pc'[q] = "created" /\ post[p].key = post[q].key => p = q
    BY <1>3 DEF StoreInv, CommittedInLog, Done
  <2>3. ASSUME NEW q \in Requests, pc'[q] \in {"created", "replayed"}
        PROVE  reply'[q].event.key = post[q].key /\ reply'[q].event \in CommittedEvents
    <3>1. CASE pc[q] \in {"created", "replayed"}
      BY <1>1, <1>2, <1>3, <2>3, <3>1 DEF StoreInv, ExactlyOncePerKey
    <3>2. CASE q = r
      <4>1. r \in DOMAIN reply
        BY <1>3 DEF TypeOK
      <4> QED
        BY <1>1, <3>2, <4>1
    <3> QED
      BY <1>3, <2>3, <3>1, <3>2
  <2> QED
    BY <1>1, <2>1, <2>2, <2>3 DEF StoreInv, ExactlyOncePerKey
<1>11. ReplyCoversEvent'
  <2> SUFFICES ASSUME NEW q \in Requests, pc'[q] \in {"created", "replayed"},
                      reply'[q].event.match = post[q].match
               PROVE  LET state == reply'[q].state
                      IN  /\ state.version \in
                               reply'[q].event.version .. Len(history[post[q].match])
                          /\ state = history[post[q].match][state.version].state
    BY <1>1 DEF ReplyCoversEvent
  <2>1. CASE q # r
    BY <1>1, <1>3, <2>1 DEF StoreInv, ReplyCoversEvent
  <2>2. CASE q = r
    <3> DEFINE h == history[m]
    <3>1. reply'[r].event = e /\ reply'[r].state = match_state[m]
      BY <1>1, <1>3 DEF TypeOK
    <3>2. e.match = m /\ e.version \in DOMAIN h
      BY <2>2, <3>1, EventInItsLog DEF StoreInv
    <3>3. h \in Seq(Updates)
      BY <1>2, <1>3 DEF TypeOK
    <3>4. Len(h) \in Nat /\ DOMAIN h = 1 .. Len(h) /\ e.version \in 1 .. Len(h)
      BY <3>2, <3>3
    <3>5. h # <<>> /\ Len(h) \in DOMAIN h
      BY <3>4
    <3>6. match_state[m] = h[Len(h)].state
      BY <1>2, <3>5 DEF StoreInv, StatesChain, Store!StateAfter
    <3>7. match_state[m].version = Len(h)
      <4>0. \A j \in DOMAIN h : h[j] \in Updates
        BY <3>3
      <4>1. h[Len(h)] \in Updates
        BY <3>5, <4>0
      <4>2. h[Len(h)].event \in ScoringEvents(Matches, Keys)
        BY <4>1 DEF Updates
      <4>3. h[Len(h)].event.version = Len(h)
        BY <1>2, <3>5 DEF StoreInv, LogContiguous
      <4>4. PICK before \in States : h[Len(h)].state = Apply(before, h[Len(h)].event)
        <5> DEFINE before == IF Len(h) = 1 THEN InitialState ELSE h[Len(h) - 1].state
        <5>1. h[Len(h)].state = Apply(before, h[Len(h)].event)
          BY <1>2, <3>5 DEF StoreInv, StatesChain
        <5>2. CASE Len(h) = 1
          BY <5>1, <5>2, InitialStateType
        <5>3. CASE Len(h) # 1
          <6> DEFINE k == Len(h) - 1
          <6>1. k \in DOMAIN h
            <7>1. \A l \in Nat : l # 0 /\ l # 1 => l - 1 \in 1 .. l
              OBVIOUS
            <7>2. Len(h) \in Nat /\ Len(h) # 0 /\ Len(h) # 1
              BY <3>4, <5>3
            <7>3. k \in 1 .. Len(h)
              BY <7>1, <7>2
            <7> QED
              BY <3>4, <7>3
          <6> HIDE DEF k
          <6>2. h[k] \in Updates
            BY <4>0, <6>1
          <6>3. before = h[k].state
            BY <5>3 DEF k
          <6> QED
            BY <5>1, <6>2, <6>3 DEF Updates
        <5> QED
          BY <5>2, <5>3
      <4> QED
        BY <3>6, <4>2, <4>3, <4>4, ApplyType
    <3> QED
      BY <2>2, <3>1, <3>4, <3>6, <3>7
  <2> QED
    BY <2>1, <2>2
<1> QED
  BY <1>4, <1>5, <1>6, <1>7, <1>9, <1>10, <1>11 DEF StoreInv

\* What follows a COMMIT, the look-up of the original and an error are steps of the
\* request alone: no table changes.
LEMMA AnswerActions ==
    ASSUME StoreInv, NEW r \in Requests, AnswerCreated(r) \/ AnswerReplayed(r)
    PROVE  StoreInv'
<1>1. CASE AnswerCreated(r)
  <2>1. pc[r] = "published" /\ Answer(r, EventOf(r), "created")
    BY <1>1 DEF AnswerCreated
  <2>2. EventOf(r) \in CommittedEvents
    <3>1. /\ post[r].match \in Matches
          /\ ver[r] \in DOMAIN history[post[r].match]
          /\ history[post[r].match][ver[r]] = UpdateOf(r)
      BY <2>1, EventType DEF StoreInv, CommittedInLog, Done
    <3>2. history[post[r].match][ver[r]].event = EventOf(r)
      BY <3>1 DEF UpdateOf
    <3> QED
      BY <3>1, <3>2 DEF CommittedEvents, Log
  <2>3. EventOf(r).key = post[r].key
    BY <2>1, EventType
  <2> QED
    BY <2>1, <2>2, <2>3, AnswerStep
<1>2. CASE AnswerReplayed(r)
  BY <1>2, AnswerStep DEF AnswerReplayed
<1> QED
  BY <1>1, <1>2

-----------------------------------------------------------------------------
(* The theorems.                                                           *)

\* Every step of the write path keeps the invariant.
LEMMA StoreInvStep == StoreInv /\ [Next]_vars => StoreInv'
<1> SUFFICES ASSUME StoreInv, [Next]_vars PROVE StoreInv'
  OBVIOUS
<1>1. CASE UNCHANGED vars
  BY <1>1, UnchangedStore DEF vars
<1>2. CASE Finished
  BY <1>1, <1>2 DEF Finished
<1>3. ASSUME NEW r \in Requests, NEW body \in Posts, Begin(r, body) PROVE StoreInv'
  BY <1>3, BeginStep
<1>4. ASSUME NEW r \in Requests, Progress(r) PROVE StoreInv'
  <2>1. CASE RecomputeStep(r)
    BY <2>1, UnchangedStore DEF RecomputeStep
  <2> QED
    BY <1>4, <2>1, SelectVersionStep, InsertEventStep, ApplyEventStep, CommitStep,
       AnswerActions, QuietActions DEF Progress
<1>5. ASSUME NEW r \in Requests, LoseAnswer(r) \/ Rollback(r) PROVE StoreInv'
  BY <1>5, QuietActions
<1> QED
  BY <1>1, <1>2, <1>3, <1>4, <1>5 DEF Next

\* StoreInv holds in every reachable state.
THEOREM StoreInvariant == Spec => []StoreInv
BY StoreInvInit, StoreInvStep, PTL DEF Spec

\* Every variable of the write path keeps its type, and no score outside the
\* range of an INT column is stored.
THEOREM TypeCorrect == Spec => []TypeOK
<1>1. StoreInv => TypeOK
  BY DEF StoreInv
<1> QED
  BY <1>1, StoreInvariant, PTL

\* The log of each match holds the versions 1, 2, 3, ... in commit order,
\* however many requests append to it at the same time.
THEOREM ContiguousLog == Spec => []LogContiguous
<1>1. StoreInv => LogContiguous
  BY DEF StoreInv
<1> QED
  BY <1>1, StoreInvariant, PTL

\* Each stored state follows from the one before it, and match_state is the last.
THEOREM NoLostUpdate == Spec => []StatesChain
<1>1. StoreInv => StatesChain
  BY DEF StoreInv
<1> QED
  BY <1>1, StoreInvariant, PTL

\* A key is appended and answered with 201 at most once, retries included.
THEOREM ExactlyOnce == Spec => []ExactlyOncePerKey
<1>1. StoreInv => ExactlyOncePerKey
  BY DEF StoreInv
<1> QED
  BY <1>1, StoreInvariant, PTL

\* The SELECT of the duplicate path finds the event that ON CONFLICT saw: .one()
\* does not raise.
THEOREM DuplicateFound == Spec => []DuplicateSelectFinds
<1>1. StoreInv => DuplicateSelectFinds
  BY DEF StoreInv
<1> QED
  BY <1>1, StoreInvariant, PTL

\* The status shown in the lists of matches is the status of the projection.
THEOREM StatusMirrored == Spec => []StatusMirrorsState
<1>1. StoreInv => StatusMirrorsState
  BY DEF StoreInv
<1> QED
  BY <1>1, StoreInvariant, PTL

\* An answer carries a state of the match that contains the answered event.
THEOREM ReplyConsistent == Spec => []ReplyCoversEvent
<1>1. StoreInv => ReplyCoversEvent
  BY DEF StoreInv
<1> QED
  BY <1>1, StoreInvariant, PTL

-----------------------------------------------------------------------------
(* The statements of append() implement the atomic store.                  *)

\* The instance has a copy of the projection of its own.
LEMMA SameProjection ==
    /\ Store!InitialState = InitialState
    /\ \A state, event : Store!Apply(state, event) = Apply(state, event)
BY DEF Store!InitialState, InitialState, Store!Apply, Apply

\* Steps that commit nothing and end no commit are stutters of the store.
LEMMA Stutter ==
    ASSUME UNCHANGED history,
           \A q \in Requests : pc'[q] = "committed" <=> pc[q] = "committed",
           \A q \in Requests : pc[q] = "committed" => UpdateOf(q)' = UpdateOf(q)
    PROVE  UNCHANGED Store!logVars
<1>1. Pending' = Pending
  BY DEF Pending
<1> QED
  BY <1>1 DEF Store!logVars

\* COMMIT is the atomic append.
LEMMA CommitIsAppend ==
    ASSUME StoreInv, NEW r \in Requests, Commit(r)
    PROVE  Store!LogNext
<1> DEFINE m == post[r].match
           n == Len(history[m])
           payload == <<post[r].score_home, post[r].score_away>>
<1>1. /\ pc[r] = "written" /\ pc' = [pc EXCEPT ![r] = "committed"]
      /\ history' = [history EXCEPT ![m] = Append(@, UpdateOf(r))]
      /\ UNCHANGED <<post, ver, new_state>>
  BY DEF Commit, Goto
<1>2. /\ m \in Matches /\ ver[r] = n + 1
      /\ new_state[r] = Apply(match_state[m], EventOf(r))
  BY CommitEffect
<1>3. /\ post[r] \in Posts /\ post[r].key \in Keys /\ post[r].type \in EventTypes
  BY <1>1, PostsAssumption DEF StoreInv, TypeOK
<1>4. ~ Store!KeyUsed(post[r].key)
  BY <1>1 DEF StoreInv, HoldersApart, Holding, Store!KeyUsed, KeyCommitted,
     CommittedEvents, Log
<1>5. UpdateOf(r) =
        [event |-> EventOf(r), state |-> Store!Apply(Store!StateAfter(history[m]), EventOf(r))]
  <2>1. match_state[m] = Store!StateAfter(history[m])
    BY <1>2 DEF StoreInv, StatesChain
  <2> QED
    BY <1>2, <2>1, SameProjection DEF UpdateOf
<1>6. Pending' = Pending \cup {UpdateOf(r)}
  <2>1. \A q \in Requests : UpdateOf(q)' = UpdateOf(q)
    BY <1>1 DEF UpdateOf, EventOf
  <2>2. {q \in Requests : pc'[q] = "committed"} = {q \in Requests : pc[q] = "committed"} \cup {r}
    BY <1>1 DEF StoreInv, TypeOK
  <2> QED
    BY <2>1, <2>2 DEF Pending
<1>7. EventOf(r) =
        [match |-> m, version |-> Store!NextVersion(m), type |-> post[r].type,
         score_home |-> payload[1], score_away |-> payload[2], key |-> post[r].key]
  BY <1>2 DEF EventOf, Store!NextVersion
<1>8. Store!AppendEvent(m, post[r].key, post[r].type, payload[1], payload[2])
  <2> HIDE DEF payload, m
  <2> QED
    BY <1>1, <1>4, <1>5, <1>6, <1>7 DEF Store!AppendEvent
<1>9. payload \in Store!Payloads(post[r].type)
  <2>1. CASE post[r].type = "score_correction"
    BY <1>3, <2>1 DEF Store!Payloads, PostedScores
  <2>2. CASE post[r].type # "score_correction"
    BY <1>3, <2>2, PayloadAssumption DEF Store!Payloads
  <2> QED
    BY <2>1, <2>2
<1>10. post[r].type \in Store!EventTypes
  BY <1>3 DEF Store!EventTypes, EventTypes
<1>11. Store!Grows(m)
  <2>1. history'[m] = Append(history[m], UpdateOf(r)) /\ Len(history'[m]) # Len(history[m])
    BY <1>1, <1>2 DEF StoreInv, TypeOK
  <2> QED
    BY <2>1 DEF Store!Grows
<1> HIDE DEF payload, m
<1> QED
  BY <1>2, <1>3, <1>8, <1>9, <1>10, <1>11 DEF Store!LogNext, m

\* The answer to COMMIT, received or lost, is the end of a pending update.
LEMMA AnswerEndsPending ==
    ASSUME StoreInv, NEW r \in Requests, Publish(r) \/ LoseAnswer(r)
    PROVE  Store!LogNext
<1>1. /\ pc[r] = "committed"
      /\ \A q \in Requests : pc'[q] = "committed" <=> pc[q] = "committed" /\ q # r
      /\ UNCHANGED <<history, post, ver, new_state>>
  BY DEF Publish, LoseAnswer, Goto, StoreInv, TypeOK
<1>2. \A q \in Requests : UpdateOf(q)' = UpdateOf(q)
  BY <1>1 DEF UpdateOf, EventOf
<1>3. \A q \in Requests : pc[q] = "committed" /\ q # r => UpdateOf(q) # UpdateOf(r)
  <2> SUFFICES ASSUME NEW q \in Requests, pc[q] = "committed", UpdateOf(q) = UpdateOf(r)
               PROVE  q = r
    OBVIOUS
  <2>1. UpdateOf(q).event.key = post[q].key /\ UpdateOf(r).event.key = post[r].key
    BY DEF UpdateOf, EventOf
  <2> QED
    BY <1>1, <2>1 DEF StoreInv, CommittedInLog, Done
<1>4. UpdateOf(r) \in Pending /\ Pending' = Pending \ {UpdateOf(r)}
  BY <1>1, <1>2, <1>3 DEF Pending
<1>5. Store!Publish(UpdateOf(r))
  BY <1>1, <1>4 DEF Store!Publish
<1> QED
  BY <1>4, <1>5 DEF Store!LogNext

\* Every step of the write path is a step of the log or leaves the log as it is.
LEMMA StepImplements ==
    StoreInv /\ [Next]_vars => [Store!LogNext]_(Store!logVars)
<1> SUFFICES ASSUME StoreInv, [Next]_vars
             PROVE  Store!LogNext \/ UNCHANGED Store!logVars
  OBVIOUS
<1>1. CASE UNCHANGED storeVars
  BY <1>1, Stutter DEF storeVars, UpdateOf, EventOf
<1>2. ASSUME NEW r \in Requests, NEW to, to # "committed", pc[r] # "committed",
             pc' = [pc EXCEPT ![r] = to], UNCHANGED history,
             \A q \in Requests : q # r => UpdateOf(q)' = UpdateOf(q)
      PROVE  UNCHANGED Store!logVars
  <2>1. \A q \in Requests : pc'[q] = "committed" <=> pc[q] = "committed"
    BY <1>2 DEF StoreInv, TypeOK
  <2> QED
    BY <1>2, <2>1, Stutter
<1>3. ASSUME NEW r \in Requests, NEW body \in Posts, Begin(r, body)
      PROVE  UNCHANGED Store!logVars
  <2>1. \A q \in Requests : q # r => UpdateOf(q)' = UpdateOf(q)
    BY <1>3 DEF Begin, UpdateOf, EventOf, StoreInv, TypeOK
  <2> QED
    BY <1>2, <1>3, <2>1 DEF Begin, Goto
<1>4. ASSUME NEW r \in Requests, SelectVersion(r) \/ ApplyEvent(r)
      PROVE  UNCHANGED Store!logVars
  <2>1. \A q \in Requests : q # r => UpdateOf(q)' = UpdateOf(q)
    BY <1>4 DEF SelectVersion, ApplyEvent, UpdateOf, EventOf, StoreInv, TypeOK
  <2> QED
    BY <1>2, <1>4, <2>1 DEF SelectVersion, ApplyEvent, Goto
<1>5. ASSUME NEW r \in Requests,
             \/ KeyIsNew(r) \/ KeyIsTaken(r) \/ KeyAppeared(r) \/ InsertEvent(r)
             \/ WriteState(r) \/ SelectOriginal(r)
      PROVE  UNCHANGED Store!logVars
  <2>1. UNCHANGED <<history, post, ver, new_state>>
    BY <1>5 DEF KeyIsNew, KeyIsTaken, KeyAppeared, InsertEvent, WriteState, SelectOriginal
  <2>2. \A q \in Requests : UpdateOf(q)' = UpdateOf(q)
    BY <2>1 DEF UpdateOf, EventOf
  <2> QED
    BY <1>2, <1>5, <2>1, <2>2
    DEF KeyIsNew, KeyIsTaken, KeyAppeared, InsertEvent, WriteState, SelectOriginal, Goto
<1>6. ASSUME NEW r \in Requests,
             VersionTaken(r) \/ OutOfRange(r) \/ StandingTaken(r) \/ Rollback(r)
      PROVE  UNCHANGED Store!logVars
  <2>1. Fail(r) /\ pc[r] # "committed"
    BY <1>6 DEF VersionTaken, OutOfRange, StandingTaken, Rollback, Recomputing,
       InTransaction, Holding
  <2>2. \A q \in Requests : UpdateOf(q)' = UpdateOf(q)
    BY <2>1 DEF Fail, UpdateOf, EventOf
  <2> QED
    BY <1>2, <2>1, <2>2 DEF Fail
<1>7. ASSUME NEW r \in Requests, AnswerCreated(r) \/ AnswerReplayed(r)
      PROVE  UNCHANGED Store!logVars
  <2>1. PICK kind \in {"created", "replayed"} :
          /\ pc' = [pc EXCEPT ![r] = kind] /\ pc[r] # "committed"
          /\ UNCHANGED <<history, post, ver, new_state>>
    BY <1>7 DEF AnswerCreated, AnswerReplayed, Answer
  <2>2. \A q \in Requests : UpdateOf(q)' = UpdateOf(q)
    BY <2>1 DEF UpdateOf, EventOf
  <2> QED
    BY <1>2, <2>1, <2>2
<1>8. ASSUME NEW r \in Requests, Progress(r)
      PROVE  Store!LogNext \/ UNCHANGED Store!logVars
  BY <1>1, <1>4, <1>5, <1>6, <1>7, <1>8, CommitIsAppend, AnswerEndsPending
  DEF Progress, RecomputeStep
<1> QED
  BY <1>1, <1>3, <1>6, <1>8, AnswerEndsPending DEF Next, Finished, vars

\* PostgresEventStore keeps the contract of EventStore: contiguous versions,
\* one event per key, a projection that follows, publication only of what is
\* durable.
THEOREM Refinement == Spec => ImplementsEventLog
<1>1. Init => Store!LogInit
  BY DEF Init, Store!LogInit, Pending
<1> QED
  BY <1>1, StepImplements, StoreInvariant, PTL DEF Spec, ImplementsEventLog, Store!LogSpec

-----------------------------------------------------------------------------
(* The projection and the log.                                             *)

\* The projection that append() keeps in place, one read-modify-write at a time, is
\* what fold() would rebuild from the log: snapshot() and a replay agree.
MatchStateIsFold ==
    \A m \in Matches :
        match_state[m] = Fold([i \in DOMAIN history[m] |-> history[m][i].event])

\* The stored projection is the fold of the log: what append() writes through is what
\* a rebuild from match_events by fold() would give, for logs of any length.
THEOREM Rebuildable == Spec => []MatchStateIsFold
<1>1. StoreInv => MatchStateIsFold
  <2> SUFFICES ASSUME StoreInv, NEW m \in Matches
               PROVE  match_state[m] = Fold([i \in DOMAIN history[m] |-> history[m][i].event])
    BY DEF MatchStateIsFold
  <2> DEFINE log == history[m]
             n == Len(log)
             events == [i \in DOMAIN log |-> log[i].event]
  <2>1. log \in Seq(Updates)
    BY DEF StoreInv, TypeOK
  <2>2. n \in Nat /\ DOMAIN log = 1 .. n /\ DOMAIN events = 1 .. n
    BY <2>1
  <2>3. \A k \in 1 .. n : events[k] = log[k].event
    BY <2>2
  <2>4. /\ match_state[m] = IF n = 0 THEN InitialState ELSE log[n].state
        /\ \A k \in 1 .. n :
             log[k].state = Apply(IF k = 1 THEN InitialState ELSE log[k - 1].state,
                                  log[k].event)
    <3>1. log = <<>> <=> n = 0
      BY <2>1
    <3>2. Store!StateAfter(log) = IF log = <<>> THEN InitialState ELSE log[n].state
      BY SameProjection DEF Store!StateAfter
    <3> QED
      BY <2>2, <3>1, <3>2, Zenon DEF StoreInv, StatesChain
  <2> HIDE DEF log, n, events
  <2>5. Fold(events) = IF n = 0 THEN InitialState ELSE log[n].state
    BY <2>2, <2>3, <2>4, FoldOfChain
  <2> QED
    BY <2>4, <2>5 DEF events, log
<1> QED
  BY <1>1, StoreInvariant, PTL

\* The stored projection is what one counts in the log, for logs of any length.
THEOREM StateCounts == Spec => []StateCountsTheLog
<1>1. StoreInv /\ MatchStateIsFold => StateCountsTheLog
  <2> SUFFICES ASSUME StoreInv, MatchStateIsFold, NEW m \in Matches
               PROVE  CountsTheLog(match_state[m],
                                   [i \in DOMAIN history[m] |-> history[m][i].event])
    BY DEF StateCountsTheLog
  <2> DEFINE n == Len(history[m])
             events == [i \in DOMAIN history[m] |-> history[m][i].event]
  <2>1. n \in Nat /\ DOMAIN history[m] = 1 .. n /\ \A i \in 1 .. n : history[m][i] \in Updates
    BY DEF StoreInv, TypeOK
  <2>2. \A i \in 1 .. n : history[m][i].event \in ScoringEvents(Matches, Keys)
    BY <2>1 DEF Updates
  <2>3. \A i \in 1 .. n : history[m][i].event.version = i
    BY <2>1 DEF StoreInv, LogContiguous
  <2> HIDE DEF n
  <2>4. events \in Seq(ScoringEvents(Matches, Keys)) /\ Len(events) = n
    BY <2>1, <2>2
  <2>5. \A i \in 1 .. n : events[i].version = i
    BY <2>1, <2>3
  <2>6. match_state[m] = Fold(events)
    BY DEF MatchStateIsFold
  <2> HIDE DEF events
  <2>7. CountsTheLog(Fold(events), events)
    BY <2>4, <2>5, FoldCounts DEF IsLog
  <2> QED
    BY <2>6, <2>7 DEF events
<1> QED
  BY <1>1, StoreInvariant, Rebuildable, PTL

-----------------------------------------------------------------------------
(***************************************************************************)
(* The points table.  Its invariant says what the statements of a          *)
(* recompute own while it runs: rows it wrote are its own, of its          *)
(* competition, and no other open recompute or surviving committed row has *)
(* their keys; what it deletes are whole older tables.                     *)
(***************************************************************************)
TableStages == {"idle", "read", "deleting", "inserting", "committed"}

\* A recompute belongs to a finalisation that has written its state.
StageOK(r) ==
    /\ recompute[r].stage \in TableStages
    /\ recompute[r].stage \in {"read", "deleting", "inserting"} => Recomputing(r)
    /\ recompute[r].stage = "committed" => pc[r] \in Done \cup {"failed"}
    /\ recompute[r].stage = "idle" => recompute[r].table = <<>> /\ recompute[r].inserted = {}

\* The rows still to insert and those inserted are of different teams of one competition.
RowsOK(r) ==
    LET x == recompute[r]
    IN  /\ DOMAIN x = {"stage", "table", "doomed", "inserted", "saw"}
        /\ x.table \in Seq(ToSet(x.table))
        /\ OneRowEach(x.table)
        /\ \A row \in ToSet(x.table) : row.competition = CompetitionOf(r)
        /\ \A row \in x.inserted : row.by = r /\ row.competition = CompetitionOf(r)
        /\ \A row1, row2 \in x.inserted : row1.team = row2.team => row1 = row2
        /\ \A row1 \in x.inserted, row2 \in ToSet(x.table) : row1.team # row2.team
        /\ x.stage \in {"idle", "read", "deleting"} => x.inserted = {}

\* A row that is, or was, committed.
IsCommitted(row) ==
    /\ row.by \in Requests
    /\ recompute[row.by].stage = "committed"
    /\ row \in recompute[row.by].inserted

Whole(q, rows) == recompute[q].inserted \subseteq rows \/ recompute[q].inserted \cap rows = {}

\* A DELETE takes the table that an earlier recompute left as a whole.
DoomedOK(r) ==
    recompute[r].stage \in {"deleting", "inserting"} =>
        /\ \A row \in recompute[r].doomed : IsCommitted(row)
        /\ \A q \in Requests : recompute[q].stage = "committed" => Whole(q, recompute[r].doomed)

\* No row that will be in the table with an inserted row has its key.
KeysOK(r) ==
    recompute[r].stage = "inserting" =>
        \A row \in recompute[r].inserted :
            /\ KeyRows(r, row) = {}
            /\ \A q \in Requests \ {r} : recompute[q].stage = "inserting" =>
                  \A other \in recompute[q].inserted : ~ SameKey(row, other)

\* The results that the recompute read: the committed ones of that moment, and its own.
FinalsSeen(r) ==
    FinalResults(CompetitionOf(r), [recompute[r].saw EXCEPT ![post[r].match] = new_state[r]])

RowsBy(r, rows) == {WrittenBy(r, row) : row \in rows}

\* What it inserts, all in all, is the points table of these results.
ComputesOK(r) ==
    recompute[r].stage \in {"read", "deleting", "inserting"} =>
        /\ recompute[r].saw \in [Matches -> States]
        /\ \A m \in Matches : recompute[r].saw[m].version <= match_state[m].version
        /\ \E results \in SetToSeqs(FinalsSeen(r)) :
             RowsBy(r, ToSet(ComputeStandings(CompetitionOf(r), results)))
               = RowsBy(r, ToSet(recompute[r].table)) \cup recompute[r].inserted

\* Rows of its competition that it does not delete were committed after it read the
\* results, with an append to the competition.
CurrentOK(r) ==
    recompute[r].stage \in {"deleting", "inserting"} =>
        \/ RowsOf(r, CompetitionOf(r)) \subseteq recompute[r].doomed
        \/ \E m \in Matches : /\ Fixture[m].competition = CompetitionOf(r)
                              /\ recompute[r].saw[m].version < match_state[m].version

\* The rows of a recompute that committed stand or fall together.
AllOrNone ==
    \A q \in Requests : recompute[q].stage = "committed" =>
        recompute[q].inserted \subseteq standings \/ recompute[q].inserted \cap standings = {}

StandingsInv ==
    /\ DOMAIN recompute = Requests
    /\ \A r \in Requests : StageOK(r)
    /\ \A r \in Requests : RowsOK(r)
    /\ \A row \in standings : IsCommitted(row)
    /\ \A r \in Requests : DoomedOK(r)
    /\ \A r \in Requests : KeysOK(r)
    /\ \A r \in Requests : ComputesOK(r)
    /\ \A r \in Requests : CurrentOK(r)
    /\ OneRowPerTeam
    /\ AllOrNone

\* No recompute has begun, and no row is stored.
LEMMA StandingsInvInit == Init => StandingsInv
<1> SUFFICES ASSUME Init PROVE StandingsInv
  OBVIOUS
<1>1. /\ standings = {} /\ DOMAIN recompute = Requests
      /\ \A r \in Requests : recompute[r] = NoRecompute
  BY DEF Init, TableInit
<1>2. /\ NoRecompute.stage = "idle" /\ NoRecompute.table = <<>> /\ NoRecompute.inserted = {}
      /\ DOMAIN NoRecompute = {"stage", "table", "doomed", "inserted", "saw"}
  BY DEF NoRecompute
<1>3. /\ <<>> \in Seq(ToSet(<<>>)) /\ OneRowEach(<<>>) /\ ToSet(<<>>) = {}
  BY DEF OneRowEach, ToSet
<1>4. \A r \in Requests : StageOK(r)
  BY <1>1, <1>2 DEF StageOK, TableStages
<1>5. \A r \in Requests : RowsOK(r)
  BY <1>1, <1>2, <1>3 DEF RowsOK
<1>6. \A r \in Requests : DoomedOK(r) /\ KeysOK(r) /\ ComputesOK(r) /\ CurrentOK(r)
  BY <1>1, <1>2 DEF DoomedOK, KeysOK, ComputesOK, CurrentOK
<1>7. OneRowPerTeam /\ AllOrNone
  BY <1>1, <1>2 DEF OneRowPerTeam, AllOrNone
<1> QED
  BY <1>1, <1>4, <1>5, <1>6, <1>7 DEF StandingsInv

\* A step of the request outside its recompute.
LEMMA TableFrame ==
    ASSUME StandingsInv, UNCHANGED tableVars,
           \A q \in Requests : recompute[q].stage # "idle" => post'[q] = post[q],
           \A q \in Requests : recompute[q].stage \in {"read", "deleting", "inserting"} =>
                                 pc'[q] = pc[q] /\ new_state'[q] = new_state[q],
           \A q \in Requests : recompute[q].stage = "committed" => pc'[q] \in Done \cup {"failed"},
           \A m \in Matches : /\ match_state[m].version \in Int /\ match_state'[m].version \in Int
                              /\ match_state[m].version <= match_state'[m].version,
           \A s \in [Matches -> States] : \A m \in Matches : s[m].version \in Int
    PROVE  StandingsInv'
<1> USE DEF tableVars
<1>1. ASSUME NEW q \in Requests PROVE StageOK(q)'
  BY DEF StandingsInv, StageOK, Recomputing
<1>2. ASSUME NEW q \in Requests PROVE RowsOK(q)'
  <2>1. CASE recompute[q].stage = "idle"
    <3>1. /\ recompute'[q] = recompute[q] /\ recompute[q].table = <<>>
          /\ recompute[q].inserted = {} /\ ToSet(<<>>) = {}
      BY <2>1 DEF StandingsInv, StageOK, ToSet
    <3>2. RowsOK(q)
      BY DEF StandingsInv
    <3> QED
      BY <3>1, <3>2 DEF RowsOK
  <2>2. CASE recompute[q].stage # "idle"
    <3>1. CompetitionOf(q)' = CompetitionOf(q) /\ recompute'[q] = recompute[q]
      BY <2>2 DEF CompetitionOf
    <3>2. RowsOK(q)
      BY DEF StandingsInv
    <3> QED
      BY <3>1, <3>2 DEF RowsOK
  <2> QED
    BY <2>1, <2>2
<1>3. \A row : IsCommitted(row)' <=> IsCommitted(row)
  BY DEF IsCommitted
<1>4. \A row \in standings' : IsCommitted(row)'
  BY <1>3 DEF StandingsInv
<1>5. ASSUME NEW q \in Requests PROVE DoomedOK(q)'
  BY <1>3 DEF StandingsInv, DoomedOK, Whole
<1>6. ASSUME NEW q \in Requests PROVE KeysOK(q)'
  BY DEF StandingsInv, KeysOK, KeyRows
<1>7. ASSUME NEW q \in Requests PROVE ComputesOK(q)'
  <2> SUFFICES ASSUME recompute[q].stage \in {"read", "deleting", "inserting"}
               PROVE  ComputesOK(q)'
    BY DEF ComputesOK
  <2>1. /\ recompute'[q] = recompute[q] /\ CompetitionOf(q)' = CompetitionOf(q)
        /\ FinalsSeen(q)' = FinalsSeen(q)
    BY DEF CompetitionOf, FinalsSeen
  <2>2. ComputesOK(q)
    BY DEF StandingsInv
  <2>3. \A m \in Matches : recompute[q].saw[m].version <= match_state'[m].version
    BY <2>2 DEF ComputesOK
  <2> QED
    BY <2>1, <2>2, <2>3, Zenon DEF ComputesOK
<1>8. ASSUME NEW q \in Requests PROVE CurrentOK(q)'
  <2> SUFFICES ASSUME recompute[q].stage \in {"deleting", "inserting"}
               PROVE  CurrentOK(q)'
    BY DEF CurrentOK
  <2>1. /\ recompute'[q] = recompute[q] /\ CompetitionOf(q)' = CompetitionOf(q)
    BY DEF CompetitionOf
  <2>2. CurrentOK(q) /\ ComputesOK(q)
    BY DEF StandingsInv
  <2>3. \A m \in Matches : recompute[q].saw[m].version \in Int
    BY <2>2 DEF ComputesOK
  <2>4. \A m \in Matches : recompute[q].saw[m].version < match_state[m].version =>
                           recompute[q].saw[m].version < match_state'[m].version
    BY <2>3
  <2>5. RowsOf(q, CompetitionOf(q))' = RowsOf(q, CompetitionOf(q))
    BY <2>1 DEF RowsOf
  <2> QED
    BY <2>1, <2>2, <2>4, <2>5 DEF CurrentOK
<1>9. OneRowPerTeam' /\ AllOrNone'
  BY DEF StandingsInv, OneRowPerTeam, AllOrNone
<1>10. DOMAIN recompute' = Requests
  BY DEF StandingsInv
<1> QED
  BY <1>1, <1>2, <1>4, <1>5, <1>6, <1>7, <1>8, <1>9, <1>10 DEF StandingsInv

\* A statement of one recompute before its commit: what the others rely on is left alone.
LEMMA OwnStep ==
    ASSUME StandingsInv, NEW r \in Requests,
           UNCHANGED <<standings, post, new_state, match_state>>,
           DOMAIN recompute' = Requests,
           \A q \in Requests : q # r => recompute'[q] = recompute[q] /\ pc'[q] = pc[q],
           recompute[r].stage # "committed", recompute'[r].stage # "committed",
           StageOK(r)', RowsOK(r)', DoomedOK(r)', KeysOK(r)', ComputesOK(r)', CurrentOK(r)'
    PROVE  StandingsInv'
<1>0. \A q \in Requests : CompetitionOf(q)' = CompetitionOf(q)
  BY DEF CompetitionOf
<1>1. ASSUME NEW q \in Requests, q # r PROVE StageOK(q)'
  BY <1>1 DEF StandingsInv, StageOK, Recomputing
<1>2. ASSUME NEW q \in Requests, q # r PROVE RowsOK(q)'
  <2>1. RowsOK(q) /\ recompute'[q] = recompute[q] /\ CompetitionOf(q)' = CompetitionOf(q)
    BY <1>0, <1>2 DEF StandingsInv
  <2> QED
    BY <2>1 DEF RowsOK
<1>3. \A row : IsCommitted(row)' <=> IsCommitted(row)
  BY DEF IsCommitted
<1>4. \A row \in standings' : IsCommitted(row)'
  BY <1>3 DEF StandingsInv
<1>5. ASSUME NEW q \in Requests, q # r PROVE DoomedOK(q)'
  BY <1>3, <1>5 DEF StandingsInv, DoomedOK, Whole
<1>6. ASSUME NEW q \in Requests, q # r PROVE KeysOK(q)'
  <2> SUFFICES ASSUME recompute'[q].stage = "inserting", NEW row \in recompute'[q].inserted
               PROVE  /\ KeyRows(q, row)' = {}
                      /\ \A p \in Requests \ {q} : recompute'[p].stage = "inserting" =>
                            \A other \in recompute'[p].inserted : ~ SameKey(row, other)
    BY DEF KeysOK
  <2>1. KeysOK(q) /\ recompute'[q] = recompute[q]
    BY <1>6 DEF StandingsInv
  <2>2. KeyRows(q, row)' = {}
    BY <2>1 DEF KeysOK, KeyRows
  <2>3. ASSUME NEW p \in Requests \ {q}, recompute'[p].stage = "inserting",
               NEW other \in recompute'[p].inserted
        PROVE  ~ SameKey(row, other)
    <3>1. CASE p = r
      <4>1. ~ SameKey(other, row)
        BY <1>6, <2>3, <3>1 DEF KeysOK
      <4> QED
        BY <4>1 DEF SameKey
    <3>2. CASE p # r
      BY <2>1, <2>3, <3>2 DEF KeysOK
    <3> QED
      BY <3>1, <3>2
  <2> QED
    BY <2>2, <2>3
<1>7. ASSUME NEW q \in Requests, q # r PROVE ComputesOK(q)'
  <2>1. /\ recompute'[q] = recompute[q] /\ CompetitionOf(q)' = CompetitionOf(q)
        /\ FinalsSeen(q)' = FinalsSeen(q)
    BY <1>0, <1>7 DEF FinalsSeen
  <2>2. ComputesOK(q)
    BY DEF StandingsInv
  <2> QED
    BY <2>1, <2>2, Zenon DEF ComputesOK
<1>8. ASSUME NEW q \in Requests, q # r PROVE CurrentOK(q)'
  <2>1. /\ recompute'[q] = recompute[q] /\ CompetitionOf(q)' = CompetitionOf(q)
        /\ RowsOf(q, CompetitionOf(q))' = RowsOf(q, CompetitionOf(q))
    BY <1>0, <1>8 DEF RowsOf
  <2>2. CurrentOK(q)
    BY DEF StandingsInv
  <2> QED
    BY <2>1, <2>2 DEF CurrentOK
<1>9. OneRowPerTeam' /\ AllOrNone'
  BY DEF StandingsInv, OneRowPerTeam, AllOrNone
<1> QED
  BY <1>1, <1>2, <1>4, <1>5, <1>6, <1>7, <1>8, <1>9 DEF StandingsInv

\* A rollback takes the recompute with it.
LEMMA AbortKeepsTable ==
    ASSUME StoreInv, StandingsInv, NEW r \in Requests, Fail(r),
           pc[r] \notin Done \cup {"failed"}
    PROVE  StandingsInv'
<1>1. /\ recompute' = [recompute EXCEPT ![r] = NoRecompute]
      /\ pc' = [pc EXCEPT ![r] = "failed"]
      /\ UNCHANGED <<standings, post, new_state, match_state>>
  BY DEF Fail, AbortTable
<1>2. /\ DOMAIN recompute' = Requests
      /\ recompute'[r] = NoRecompute
      /\ \A q \in Requests : q # r => recompute'[q] = recompute[q]
  BY <1>1 DEF StandingsInv
<1>3. \A q \in Requests : q # r => pc'[q] = pc[q]
  BY <1>1 DEF StoreInv, TypeOK
<1>4. recompute[r].stage # "committed"
  BY DEF StandingsInv, StageOK
<1>5. /\ NoRecompute.stage = "idle" /\ NoRecompute.table = <<>> /\ NoRecompute.inserted = {}
      /\ DOMAIN NoRecompute = {"stage", "table", "doomed", "inserted", "saw"}
  BY DEF NoRecompute
<1>6. /\ <<>> \in Seq(ToSet(<<>>)) /\ OneRowEach(<<>>) /\ ToSet(<<>>) = {}
  BY DEF OneRowEach, ToSet
<1>7. StageOK(r)'
  BY <1>2, <1>5 DEF StageOK, TableStages
<1>8. RowsOK(r)'
  BY <1>2, <1>5, <1>6 DEF RowsOK
<1>9. DoomedOK(r)' /\ KeysOK(r)' /\ ComputesOK(r)' /\ CurrentOK(r)'
  BY <1>2, <1>5 DEF DoomedOK, KeysOK, ComputesOK, CurrentOK
<1> QED
  BY <1>1, <1>2, <1>3, <1>4, <1>5, <1>7, <1>8, <1>9, OwnStep

\* The finalisation itself is among the results that its recompute reads.
LEMMA FinalsAre ==
    ASSUME NEW competition, NEW states \in [Matches -> States]
    PROVE  /\ IsFiniteSet(FinalResults(competition, states))
           /\ \A x \in FinalResults(competition, states) :
                x.home # x.away /\ x.score_home \in Int /\ x.score_away \in Int
           /\ \A m \in Matches :
                Fixture[m].competition = competition /\ states[m].status = "final" =>
                   \E x \in FinalResults(competition, states) :
                      x.home = Fixture[m].home /\ x.away = Fixture[m].away
<1> DEFINE M == {n \in Matches : /\ Fixture[n].competition = competition
                                 /\ states[n].status = "final"}
           F == FinalResults(competition, states)
           f == [m \in M |-> ResultOf(m, states[m])]
<1>1. F = {ResultOf(m, states[m]) : m \in M}
  BY DEF FinalResults
<1>2. \A m \in M : m \in Matches /\ states[m].score_home \in Int /\ states[m].score_away \in Int
  BY DEF States
<1>3. \A m \in M : /\ ResultOf(m, states[m]).home = Fixture[m].home
                   /\ ResultOf(m, states[m]).away = Fixture[m].away
                   /\ ResultOf(m, states[m]).score_home = states[m].score_home
                   /\ ResultOf(m, states[m]).score_away = states[m].score_away
  BY DEF ResultOf
<1>4. IsFiniteSet(F)
  <2>1. IsFiniteSet(M)
    BY FixtureAssumption, FS_Subset
  <2>2. f \in Surjection(M, F)
    BY <1>1 DEF Surjection
  <2> HIDE DEF M, F, f
  <2> QED
    BY <2>1, <2>2, FS_Surjection
<1>5. \A x \in F : x.home # x.away /\ x.score_home \in Int /\ x.score_away \in Int
  <2> HIDE DEF M
  <2> QED
    BY <1>1, <1>2, <1>3, FixtureAssumption
<1>6. ASSUME NEW m \in Matches, Fixture[m].competition = competition, states[m].status = "final"
      PROVE  \E x \in F : x.home = Fixture[m].home /\ x.away = Fixture[m].away
  <2>1. m \in M
    BY <1>6
  <2> HIDE DEF M
  <2> QED
    BY <1>1, <1>3, <2>1
<1> QED
  BY <1>4, <1>5, <1>6

\* The table computed from any order of them.
LEMMA TableComputed ==
    ASSUME NEW competition, NEW S, IsFiniteSet(S),
           \A x \in S : x.home # x.away /\ x.score_home \in Int /\ x.score_away \in Int,
           NEW results \in SetToSeqs(S)
    PROVE  LET table == ComputeStandings(competition, results)
           IN  /\ table \in Seq(ToSet(table))
               /\ OneRowEach(table)
               /\ \A row \in ToSet(table) : row.competition = competition
               /\ \A x \in S : \A team \in {x.home, x.away} :
                    \E row \in ToSet(table) : row.team = team /\ row.played >= 1
<1> DEFINE n == Cardinality(S)
           table == ComputeStandings(competition, results)
<1>1. n \in Nat /\ DOMAIN results = 1 .. n /\ S = {results[i] : i \in 1 .. n}
  BY OrderOfSet
<1> HIDE DEF n
<1>2. IsResults(results, n)
  BY <1>1 DEF IsResults
<1>3. table \in Seq(RowsWritten(competition, results, n)) /\ Counted(competition, results, n, table)
  BY <1>1, <1>2, StandingsCount
<1> HIDE DEF table
<1>4. table \in Seq(ToSet(table))
  BY <1>3 DEF ToSet
<1>5. ToSet(table) = {CountRow(competition, results, n, team) : team \in TeamsOf(results, n)}
  BY <1>3 DEF Counted
<1>6. \A team : /\ CountRow(competition, results, n, team).competition = competition
                /\ CountRow(competition, results, n, team).team = team
                /\ CountRow(competition, results, n, team).played
                     = Cardinality({i \in 1 .. n : Plays(results[i], team)})
  BY DEF CountRow
<1>7. ASSUME NEW x \in S, NEW team \in {x.home, x.away}
      PROVE  \E row \in ToSet(table) : row.team = team /\ row.played >= 1
  <2>1. PICK i \in 1 .. n : results[i] = x
    BY <1>1
  <2>2. team \in TeamsOf(results, n)
    BY <2>1 DEF TeamsOf
  <2> DEFINE P == {j \in 1 .. n : Plays(results[j], team)}
  <2>3. i \in P
    BY <2>1 DEF Plays
  <2>4. IsFiniteSet(P)
    <3>1. IsFiniteSet(1 .. n)
      BY <1>1, FS_Interval
    <3> QED
      BY <3>1, FS_Subset
  <2>5. Cardinality(P) >= 1
    <3> HIDE DEF P
    <3>1. Cardinality(P) \in Nat /\ Cardinality(P) # 0
      BY <2>3, <2>4, FS_EmptySet, FS_CardinalityType
    <3> QED
      BY <3>1
  <2> QED
    BY <1>5, <1>6, <2>2, <2>5
<1> QED
  BY <1>3, <1>4, <1>5, <1>6, <1>7 DEF Counted, table

\* The results of the competition are read.
LEMMA ReadFinalsStep ==
    ASSUME StoreInv, StandingsInv, NEW r \in Requests, Recomputing(r), UNCHANGED storeVars,
           ReadFinals(r, CompetitionOf(r), FinalResults(CompetitionOf(r), VisibleTo(r)), match_state)
    PROVE  StandingsInv'
<1> DEFINE c == CompetitionOf(r)
           F == FinalResults(c, VisibleTo(r))
<1>1. UNCHANGED <<standings, post, new_state, match_state, pc>> /\ recompute[r].stage = "idle"
  BY DEF storeVars, ReadFinals
<1>2. PICK results \in SetToSeqs(F) :
         recompute' = [recompute EXCEPT ![r].stage = "read",
                                        ![r].table = ComputeStandings(c, results),
                                        ![r].saw = match_state]
  BY DEF ReadFinals
<1>3. /\ RowsOK(r) /\ StageOK(r) /\ DOMAIN recompute = Requests
  BY DEF StandingsInv
<1>4. /\ DOMAIN recompute' = Requests
      /\ \A q \in Requests : q # r => recompute'[q] = recompute[q]
      /\ recompute'[r] = [recompute[r] EXCEPT !.stage = "read", !.table = ComputeStandings(c, results),
                                              !.saw = match_state]
  BY <1>2, <1>3
<1>5. /\ recompute'[r].stage = "read" /\ recompute'[r].saw = match_state
      /\ recompute'[r].table = ComputeStandings(c, results)
      /\ recompute'[r].inserted = {}
      /\ DOMAIN recompute'[r] = {"stage", "table", "doomed", "inserted", "saw"}
  BY <1>1, <1>3, <1>4 DEF RowsOK, StageOK
<1>6. /\ match_state \in [Matches -> States] /\ new_state[r] \in States
      /\ \A m \in Matches : match_state[m].version \in Nat
  BY DEF StoreInv, TypeOK, States
<1>7. VisibleTo(r) \in [Matches -> States]
  BY <1>6 DEF VisibleTo
<1>8. IsFiniteSet(F) /\ \A x \in F : x.home # x.away /\ x.score_home \in Int /\ x.score_away \in Int
  BY <1>7, FinalsAre
<1> DEFINE table == ComputeStandings(c, results)
<1> HIDE DEF F
<1>9. /\ table \in Seq(ToSet(table)) /\ OneRowEach(table)
      /\ \A row \in ToSet(table) : row.competition = c
  BY <1>8, TableComputed
<1>10. CompetitionOf(r)' = c
  BY <1>1 DEF CompetitionOf
<1> HIDE DEF table, c
<1>11. RowsOK(r)'
  BY <1>5, <1>9, <1>10 DEF RowsOK, table
<1>12. StageOK(r)'
  BY <1>1, <1>5 DEF StageOK, TableStages, Recomputing
<1>13. ComputesOK(r)'
  <2>1. FinalsSeen(r)' = F
    BY <1>1, <1>5, <1>10 DEF FinalsSeen, F, VisibleTo
  <2>2. \E s \in SetToSeqs(FinalsSeen(r)') :
          RowsBy(r, ToSet(ComputeStandings(c, s)))
            = RowsBy(r, ToSet(recompute'[r].table)) \cup recompute'[r].inserted
    BY <1>2, <1>5, <2>1
  <2>3. \A m \in Matches : recompute'[r].saw[m].version <= match_state'[m].version
    BY <1>1, <1>5, <1>6
  <2> QED
    BY <1>1, <1>5, <1>6, <1>10, <2>2, <2>3 DEF ComputesOK
<1>14. DoomedOK(r)' /\ KeysOK(r)' /\ CurrentOK(r)'
  BY <1>5 DEF DoomedOK, KeysOK, CurrentOK
<1> QED
  BY <1>1, <1>4, <1>5, <1>11, <1>12, <1>13, <1>14, OwnStep

\* The rows to delete are chosen: all of the competition.
LEMMA StartDeleteStep ==
    ASSUME StoreInv, StandingsInv, NEW r \in Requests, Recomputing(r), UNCHANGED storeVars,
           StartDelete(r, CompetitionOf(r))
    PROVE  StandingsInv'
<1> DEFINE c == CompetitionOf(r)
<1>1. /\ UNCHANGED <<standings, post, new_state, match_state, pc>>
      /\ recompute[r].stage = "read"
      /\ recompute' = [recompute EXCEPT ![r].stage = "deleting", ![r].doomed = RowsOf(r, c)]
  BY DEF storeVars, StartDelete
<1>2. RowsOK(r) /\ ComputesOK(r) /\ DOMAIN recompute = Requests
  BY DEF StandingsInv
<1>3. /\ DOMAIN recompute' = Requests
      /\ \A q \in Requests : q # r => recompute'[q] = recompute[q]
      /\ recompute'[r] = [recompute[r] EXCEPT !.stage = "deleting", !.doomed = RowsOf(r, c)]
  BY <1>1, <1>2
<1>4. /\ recompute'[r].stage = "deleting" /\ recompute'[r].doomed = RowsOf(r, c)
      /\ recompute'[r].table = recompute[r].table /\ recompute'[r].saw = recompute[r].saw
      /\ recompute'[r].inserted = recompute[r].inserted /\ recompute[r].inserted = {}
      /\ DOMAIN recompute'[r] = {"stage", "table", "doomed", "inserted", "saw"}
  BY <1>1, <1>2, <1>3 DEF RowsOK
<1>5. CompetitionOf(r)' = c
  BY <1>1 DEF CompetitionOf
<1>6. RowsOK(r)'
  BY <1>2, <1>4, <1>5 DEF RowsOK
<1>7. StageOK(r)'
  BY <1>1, <1>4 DEF StageOK, TableStages, Recomputing
<1>8. ComputesOK(r)'
  <2>1. FinalsSeen(r)' = FinalsSeen(r)
    BY <1>1, <1>4, <1>5 DEF FinalsSeen
  <2> QED
    BY <1>1, <1>2, <1>4, <1>5, <2>1, Zenon DEF ComputesOK
<1>9. KeysOK(r)' /\ CurrentOK(r)'
  BY <1>1, <1>4, <1>5 DEF KeysOK, CurrentOK, RowsOf
<1>10. DoomedOK(r)'
  <2>1. \A row : IsCommitted(row) => IsCommitted(row)'
    BY <1>1, <1>3 DEF IsCommitted
  <2>2. \A row \in RowsOf(r, c) : IsCommitted(row)
    BY DEF RowsOf, StandingsInv
  <2>3. ASSUME NEW q \in Requests, recompute'[q].stage = "committed"
        PROVE  Whole(q, RowsOf(r, c))'
    <3>1. q # r /\ recompute[q].stage = "committed" /\ recompute'[q] = recompute[q]
      BY <1>3, <1>4, <2>3
    <3>2. \A row \in recompute[q].inserted : row.competition = CompetitionOf(q)
      BY DEF StandingsInv, RowsOK
    <3>3. recompute[q].inserted \subseteq standings \/ recompute[q].inserted \cap standings = {}
      BY <3>1 DEF StandingsInv, AllOrNone
    <3>4. Whole(q, RowsOf(r, c))
      BY <3>2, <3>3 DEF Whole, RowsOf
    <3>5. RowsOf(r, c)' = RowsOf(r, c)
      BY <1>1, <1>5 DEF RowsOf
    <3> QED
      BY <3>1, <3>4, <3>5 DEF Whole
  <2>4. RowsOf(r, c)' = RowsOf(r, c)
    BY <1>1, <1>5 DEF RowsOf
  <2> QED
    BY <1>4, <2>1, <2>2, <2>3, <2>4 DEF DoomedOK, Whole
<1> QED
  BY <1>1, <1>3, <1>4, <1>6, <1>7, <1>8, <1>9, <1>10, OwnStep

\* The rows that are still there are deleted.
LEMMA FinishDeleteStep ==
    ASSUME StoreInv, StandingsInv, NEW r \in Requests, Recomputing(r), UNCHANGED storeVars,
           FinishDelete(r)
    PROVE  StandingsInv'
<1>1. /\ UNCHANGED <<standings, post, new_state, match_state, pc>>
      /\ recompute[r].stage = "deleting"
      /\ recompute' = [recompute EXCEPT ![r].stage = "inserting", ![r].doomed = @ \cap standings]
  BY DEF storeVars, FinishDelete
<1>2. RowsOK(r) /\ ComputesOK(r) /\ DoomedOK(r) /\ CurrentOK(r) /\ DOMAIN recompute = Requests
  BY DEF StandingsInv
<1>3. /\ DOMAIN recompute' = Requests
      /\ \A q \in Requests : q # r => recompute'[q] = recompute[q]
      /\ recompute'[r] = [recompute[r] EXCEPT !.stage = "inserting", !.doomed = @ \cap standings]
  BY <1>1, <1>2
<1>4. /\ recompute'[r].stage = "inserting"
      /\ recompute'[r].doomed = recompute[r].doomed \cap standings
      /\ recompute'[r].table = recompute[r].table /\ recompute'[r].saw = recompute[r].saw
      /\ recompute'[r].inserted = recompute[r].inserted /\ recompute[r].inserted = {}
      /\ DOMAIN recompute'[r] = {"stage", "table", "doomed", "inserted", "saw"}
  BY <1>1, <1>2, <1>3 DEF RowsOK
<1>5. CompetitionOf(r)' = CompetitionOf(r)
  BY <1>1 DEF CompetitionOf
<1>6. RowsOK(r)'
  BY <1>2, <1>4, <1>5 DEF RowsOK
<1>7. StageOK(r)'
  BY <1>1, <1>4 DEF StageOK, TableStages, Recomputing
<1>8. ComputesOK(r)'
  <2>1. FinalsSeen(r)' = FinalsSeen(r)
    BY <1>1, <1>4, <1>5 DEF FinalsSeen
  <2> QED
    BY <1>1, <1>2, <1>4, <1>5, <2>1, Zenon DEF ComputesOK
<1>9. KeysOK(r)'
  BY <1>4 DEF KeysOK
<1>10. CurrentOK(r)'
  <2>1. RowsOf(r, CompetitionOf(r))' = RowsOf(r, CompetitionOf(r))
    BY <1>1, <1>5 DEF RowsOf
  <2> QED
    BY <1>1, <1>2, <1>4, <1>5, <2>1 DEF CurrentOK, RowsOf
<1>11. DoomedOK(r)'
  <2>1. \A row : IsCommitted(row) => IsCommitted(row)'
    BY <1>1, <1>3 DEF IsCommitted
  <2>2. ASSUME NEW q \in Requests, recompute'[q].stage = "committed"
        PROVE  Whole(q, recompute[r].doomed \cap standings)
               /\ recompute'[q] = recompute[q]
    <3>1. q # r /\ recompute[q].stage = "committed" /\ recompute'[q] = recompute[q]
      BY <1>3, <1>4, <2>2
    <3>2. Whole(q, standings) /\ Whole(q, recompute[r].doomed)
      BY <1>1, <1>2, <3>1 DEF StandingsInv, AllOrNone, DoomedOK, Whole
    <3> QED
      BY <3>1, <3>2 DEF Whole
  <2> QED
    BY <1>1, <1>2, <1>4, <2>1, <2>2 DEF DoomedOK, Whole
<1> QED
  BY <1>1, <1>3, <1>4, <1>6, <1>7, <1>8, <1>9, <1>10, <1>11, OwnStep

\* A sequence is one of its elements.
LEMMA SeqOfElements ==
    ASSUME NEW R, NEW s \in Seq(R)
    PROVE  s \in Seq(ToSet(s))
BY DEF ToSet

\* The head of a table of different teams, and the rest.
LEMMA HeadAndTail ==
    ASSUME NEW table, table \in Seq(ToSet(table)), table # <<>>, OneRowEach(table)
    PROVE  /\ Tail(table) \in Seq(ToSet(Tail(table)))
           /\ OneRowEach(Tail(table))
           /\ ToSet(table) = ToSet(Tail(table)) \cup {Head(table)}
           /\ \A row \in ToSet(Tail(table)) : row.team # Head(table).team
<1> DEFINE n == Len(table)
           rest == Tail(table)
<1>1. n \in Nat /\ n >= 1 /\ DOMAIN table = 1 .. n /\ Head(table) = table[1]
  OBVIOUS
<1>2. /\ rest \in Seq(ToSet(table)) /\ Len(rest) = n - 1 /\ DOMAIN rest = 1 .. n - 1
      /\ \A i \in 1 .. n - 1 : rest[i] = table[i + 1]
  OBVIOUS
<1> HIDE DEF n, rest
<1>3. rest \in Seq(ToSet(rest))
  BY <1>2, SeqOfElements
<1>4. OneRowEach(rest)
  <2> SUFFICES ASSUME NEW i \in 1 .. n - 1, NEW j \in 1 .. n - 1, rest[i].team = rest[j].team
               PROVE  i = j
    BY <1>2 DEF OneRowEach
  <2>1. i + 1 \in 1 .. n /\ j + 1 \in 1 .. n
    BY <1>1
  <2>3. table[i + 1].team = table[j + 1].team
    BY <1>2
  <2>2. i + 1 = j + 1
    BY <1>1, <2>1, <2>3, Zenon DEF OneRowEach
  <2> QED
    BY <1>1, <2>2
<1>5. ToSet(table) = ToSet(rest) \cup {Head(table)}
  <2>1. ToSet(table) = {table[i] : i \in 1 .. n} /\ ToSet(rest) = {rest[i] : i \in 1 .. n - 1}
    BY <1>1, <1>2 DEF ToSet
  <2>2. ASSUME NEW i \in 1 .. n PROVE table[i] \in ToSet(rest) \cup {Head(table)}
    <3>1. CASE i = 1
      BY <1>1, <3>1
    <3>2. CASE i # 1
      <4>1. i - 1 \in 1 .. n - 1 /\ (i - 1) + 1 = i
        BY <1>1, <3>2
      <4>2. rest[i - 1] = table[i]
        BY <1>2, <4>1
      <4> QED
        BY <2>1, <4>1, <4>2
    <3> QED
      BY <3>1, <3>2
  <2>3. ASSUME NEW i \in 1 .. n - 1 PROVE rest[i] \in ToSet(table)
    <3>1. i + 1 \in 1 .. n
      BY <1>1
    <3> QED
      BY <1>2, <2>1, <3>1
  <2>4. Head(table) \in ToSet(table)
    <3>1. 1 \in 1 .. n
      BY <1>1
    <3> QED
      BY <1>1, <2>1, <3>1
  <2>5. ToSet(table) \subseteq ToSet(rest) \cup {Head(table)}
    BY <2>1, <2>2
  <2>6. ToSet(rest) \subseteq ToSet(table)
    BY <2>1, <2>3
  <2> QED
    BY <2>4, <2>5, <2>6
<1>6. ASSUME NEW row \in ToSet(rest) PROVE row.team # Head(table).team
  <2>1. PICK i \in 1 .. n - 1 : row = rest[i]
    BY <1>2 DEF ToSet
  <2>2. i + 1 \in 1 .. n /\ 1 \in 1 .. n /\ i + 1 # 1
    BY <1>1
  <2> QED
    BY <1>1, <1>2, <2>1, <2>2 DEF OneRowEach
<1> QED
  BY <1>3, <1>4, <1>5, <1>6 DEF rest

\* A row is inserted: its key is free.
LEMMA InsertStandingStep ==
    ASSUME StoreInv, StandingsInv, NEW r \in Requests, Recomputing(r), UNCHANGED storeVars,
           InsertStanding(r)
    PROVE  StandingsInv'
<1> DEFINE table == recompute[r].table
           next == Head(table)
           new == WrittenBy(r, next)
<1>1. /\ UNCHANGED <<standings, post, new_state, match_state, pc>>
      /\ recompute[r].stage = "inserting" /\ table # <<>>
      /\ KeyHolders(r, next) = {} /\ KeyRows(r, next) = {}
      /\ recompute' = [recompute EXCEPT ![r].table = Tail(@), ![r].inserted = @ \cup {new}]
  BY DEF storeVars, InsertStanding, Inserting, PrimaryKeyFree, NextRow
<1>2. /\ RowsOK(r) /\ ComputesOK(r) /\ DoomedOK(r) /\ CurrentOK(r) /\ KeysOK(r)
      /\ DOMAIN recompute = Requests
  BY DEF StandingsInv
<1>3. /\ DOMAIN recompute' = Requests
      /\ \A q \in Requests : q # r => recompute'[q] = recompute[q]
      /\ recompute'[r] = [recompute[r] EXCEPT !.table = Tail(@), !.inserted = @ \cup {new}]
  BY <1>1, <1>2
<1>4. /\ recompute'[r].stage = "inserting"
      /\ recompute'[r].doomed = recompute[r].doomed
      /\ recompute'[r].table = Tail(table) /\ recompute'[r].saw = recompute[r].saw
      /\ recompute'[r].inserted = recompute[r].inserted \cup {new}
      /\ DOMAIN recompute'[r] = {"stage", "table", "doomed", "inserted", "saw"}
  <2> HIDE DEF new
  <2> QED
    BY <1>1, <1>2, <1>3 DEF RowsOK
<1>5. CompetitionOf(r)' = CompetitionOf(r)
  BY <1>1 DEF CompetitionOf
<1>6. new.by = r /\ new.team = next.team /\ new.competition = next.competition
  BY DEF WrittenBy
<1>7. /\ table \in Seq(ToSet(table)) /\ OneRowEach(table)
      /\ Tail(table) \in Seq(ToSet(Tail(table)))
      /\ OneRowEach(Tail(table))
      /\ ToSet(table) = ToSet(Tail(table)) \cup {next}
      /\ \A row \in ToSet(Tail(table)) : row.team # next.team
  <2>1. table \in Seq(ToSet(table)) /\ OneRowEach(table)
    BY <1>2 DEF RowsOK
  <2> HIDE DEF table
  <2> QED
    BY <1>1, <2>1, HeadAndTail
<1> DEFINE rest == Tail(table)
<1>8. RowsOK(r)'
  <2>1. /\ \A row \in ToSet(table) : row.competition = CompetitionOf(r)
        /\ \A row \in recompute[r].inserted : row.by = r /\ row.competition = CompetitionOf(r)
        /\ \A row1, row2 \in recompute[r].inserted : row1.team = row2.team => row1 = row2
        /\ \A row1 \in recompute[r].inserted, row2 \in ToSet(table) : row1.team # row2.team
    BY <1>2 DEF RowsOK
  <2>2. /\ recompute'[r].table = rest /\ rest \in Seq(ToSet(rest)) /\ OneRowEach(rest)
        /\ ToSet(table) = ToSet(rest) \cup {next}
        /\ \A row \in ToSet(rest) : row.team # next.team
    BY <1>4, <1>7
  <2> HIDE DEF table, next, new, rest
  <2>3. \A row \in ToSet(rest) : row.competition = CompetitionOf(r)
    BY <2>1, <2>2
  <2>4. \A row \in recompute'[r].inserted : row.by = r /\ row.competition = CompetitionOf(r)
    BY <1>4, <1>6, <2>1, <2>2
  <2>5. \A row1, row2 \in recompute'[r].inserted : row1.team = row2.team => row1 = row2
    BY <1>4, <1>6, <2>1, <2>2
  <2>6. \A row1 \in recompute'[r].inserted, row2 \in ToSet(rest) : row1.team # row2.team
    BY <1>4, <1>6, <2>1, <2>2
  <2> QED
    BY <1>4, <1>5, <2>2, <2>3, <2>4, <2>5, <2>6, Zenon DEF RowsOK
<1>9. StageOK(r)'
  BY <1>1, <1>4 DEF StageOK, TableStages, Recomputing
<1>10. ComputesOK(r)'
  <2>1. FinalsSeen(r)' = FinalsSeen(r)
    BY <1>1, <1>4, <1>5 DEF FinalsSeen
  <2>2. RowsBy(r, ToSet(table)) \cup recompute[r].inserted
          = RowsBy(r, ToSet(rest)) \cup recompute'[r].inserted
    <3>1. RowsBy(r, ToSet(table)) = RowsBy(r, ToSet(rest)) \cup {new}
      BY <1>7 DEF RowsBy
    <3> HIDE DEF new, table, rest
    <3> QED
      BY <1>4, <3>1
  <2>3. PICK results \in SetToSeqs(FinalsSeen(r)) :
           RowsBy(r, ToSet(ComputeStandings(CompetitionOf(r), results)))
             = RowsBy(r, ToSet(table)) \cup recompute[r].inserted
    BY <1>1, <1>2 DEF ComputesOK
  <2>4. /\ results \in SetToSeqs(FinalsSeen(r)')
        /\ RowsBy(r, ToSet(ComputeStandings(CompetitionOf(r)', results)))
             = RowsBy(r, ToSet(recompute'[r].table)) \cup recompute'[r].inserted
    <3>1. recompute'[r].table = rest
      BY <1>4
    <3> HIDE DEF table, rest
    <3> QED
      BY <1>5, <2>1, <2>2, <2>3, <3>1
  <2>5. /\ recompute'[r].saw \in [Matches -> States]
        /\ \A m \in Matches : recompute'[r].saw[m].version <= match_state'[m].version
    BY <1>1, <1>2, <1>4 DEF ComputesOK
  <2> HIDE DEF table, rest, new, next
  <2> QED
    BY <2>4, <2>5, Zenon DEF ComputesOK, RowsBy
<1>11. CurrentOK(r)'
  <2>1. RowsOf(r, CompetitionOf(r))' = RowsOf(r, CompetitionOf(r))
    BY <1>1, <1>5 DEF RowsOf
  <2> HIDE DEF table, new, next
  <2> QED
    BY <1>1, <1>2, <1>4, <1>5, <2>1 DEF CurrentOK
<1>12. DoomedOK(r)'
  <2>1. \A row : IsCommitted(row) => IsCommitted(row)'
    BY <1>1, <1>3 DEF IsCommitted
  <2>2. \A q \in Requests : recompute'[q].stage = "committed" =>
            recompute[q].stage = "committed" /\ recompute'[q] = recompute[q]
    BY <1>3, <1>4
  <2> HIDE DEF table, new, next
  <2> QED
    BY <1>1, <1>2, <1>4, <2>1, <2>2 DEF DoomedOK, Whole
<1>13. KeysOK(r)'
  <2> HIDE DEF table, new, next
  <2> SUFFICES ASSUME NEW row \in recompute'[r].inserted
               PROVE  /\ KeyRows(r, row)' = {}
                      /\ \A q \in Requests \ {r} : recompute'[q].stage = "inserting" =>
                            \A other \in recompute'[q].inserted : ~ SameKey(row, other)
    BY DEF KeysOK
  <2>1. \A x : KeyRows(r, x)' = KeyRows(r, x)
    BY <1>1, <1>4 DEF KeyRows
  <2>2. \A q \in Requests \ {r} : recompute'[q] = recompute[q]
    BY <1>3
  <2>3. CASE row \in recompute[r].inserted
    BY <1>1, <1>2, <2>1, <2>2, <2>3 DEF KeysOK
  <2>4. CASE row = new
    <3>1. \A other : SameKey(row, other) <=> SameKey(next, other)
      BY <1>6, <2>4 DEF SameKey
    <3>2. KeyRows(r, row) = {}
      BY <1>1, <3>1 DEF KeyRows
    <3>3. \A q \in Requests \ {r} : recompute[q].stage = "inserting" =>
             \A other \in recompute[q].inserted : ~ SameKey(next, other)
      BY <1>1 DEF KeyHolders
    <3> QED
      BY <2>1, <2>2, <3>1, <3>2, <3>3
  <2> QED
    BY <1>4, <2>3, <2>4
<1> HIDE DEF table, new, next
<1> QED
  BY <1>1, <1>3, <1>4, <1>8, <1>9, <1>10, <1>11, <1>12, <1>13, OwnStep

\* The version of a match grows with each commit to it, and no other changes.
LEMMA VersionGrows ==
    ASSUME StoreInv, NEW r \in Requests, Commit(r)
    PROVE  /\ post[r].match \in Matches
           /\ \A m \in Matches : /\ match_state[m].version \in Int
                                 /\ match_state'[m].version \in Int
                                 /\ match_state[m].version <= match_state'[m].version
           /\ match_state[post[r].match].version < match_state'[post[r].match].version
<1> DEFINE m == post[r].match
           n == Len(history[m])
<1>1. /\ m \in Matches /\ n \in Nat /\ DOMAIN history[m] = 1 .. n
      /\ new_state[r].version = n + 1
  BY CommitEffect
<1>2. match_state' = [match_state EXCEPT ![m] = new_state[r]]
  BY DEF Commit
<1>3. match_state \in [Matches -> States] /\ history[m] \in Seq(Updates)
  BY <1>1 DEF StoreInv, TypeOK
<1>4. /\ match_state'[m] = new_state[r] /\ \A k \in Matches : k # m => match_state'[k] = match_state[k]
  BY <1>1, <1>2, <1>3
<1>5. match_state[m].version = n
  <2>1. CASE n = 0
    <3>1. history[m] = <<>>
      BY <1>3, <2>1
    <3>2. match_state[m] = InitialState
      BY <1>1, <3>1, SameProjection DEF StoreInv, StatesChain, Store!StateAfter
    <3> QED
      BY <2>1, <3>2 DEF InitialState
  <2>2. CASE n # 0
    <3> DEFINE u == history[m][n]
               before == IF n = 1 THEN InitialState ELSE history[m][n - 1].state
    <3>1. n \in 1 .. n /\ n - 1 \in 0 .. n - 1
      BY <1>1, <2>2
    <3>2. u.event.version = n /\ u.state = Apply(before, u.event)
      BY <1>1, <3>1 DEF StoreInv, LogContiguous, StatesChain
    <3>3. u.event \in ScoringEvents(Matches, Keys)
      <4>1. u \in Updates
        BY <1>1, <1>3, <3>1
      <4> QED
        BY <4>1 DEF Updates
    <3>4. before \in States
      <4>1. CASE n = 1
        BY <4>1, InitialStateType
      <4>2. CASE n # 1
        <5>1. n - 1 \in 1 .. n
          <6>1. n \in Nat /\ n # 0 /\ n # 1
            BY <1>1, <2>2, <4>2
          <6> HIDE DEF n
          <6> QED
            BY <6>1
        <5>2. history[m][n - 1] \in Updates
          BY <1>1, <1>3, <5>1
        <5> QED
          BY <4>2, <5>2 DEF Updates
      <4> QED
        BY <4>1, <4>2
    <3>5. history[m] # <<>>
      BY <1>3, <2>2
    <3>6. match_state[m] = u.state
      BY <1>1, <3>5 DEF StoreInv, StatesChain, Store!StateAfter
    <3> HIDE DEF u, before, n, m
    <3> QED
      BY <3>2, <3>3, <3>4, <3>6, ApplyType
  <2> QED
    BY <2>1, <2>2
<1>6. \A k \in Matches : match_state[k].version \in Int
  BY <1>3 DEF States
<1> HIDE DEF m, n
<1> QED
  BY <1>1, <1>4, <1>5, <1>6 DEF m

\* The commit of a finalisation: its table takes the place of the rows it deleted.
LEMMA CommitTableStep ==
    ASSUME StoreInv, StandingsInv, NEW r \in Requests, Commit(r),
           post[r].type = "match_finalised"
    PROVE  StandingsInv'
<1> DEFINE kept == standings \ recompute[r].doomed
           mine == recompute[r].inserted
<1>1. /\ pc[r] = "written" /\ pc' = [pc EXCEPT ![r] = "committed"]
      /\ UNCHANGED <<post, new_state>>
      /\ recompute[r].stage = "inserting" /\ recompute[r].table = <<>>
      /\ standings' = kept \cup mine
      /\ recompute' = [recompute EXCEPT ![r].stage = "committed",
                                        ![r].doomed = {}, ![r].saw = <<>>]
  BY DEF Commit, Goto, Recomputed, CommitTable
<1>2. /\ RowsOK(r) /\ KeysOK(r) /\ DOMAIN recompute = Requests
  BY DEF StandingsInv
<1>3. /\ DOMAIN recompute' = Requests
      /\ \A q \in Requests : q # r => recompute'[q] = recompute[q]
      /\ recompute'[r] = [recompute[r] EXCEPT !.stage = "committed", !.doomed = {}, !.saw = <<>>]
  BY <1>1, <1>2
<1>4. /\ recompute'[r].stage = "committed"
      /\ recompute'[r].table = <<>> /\ recompute'[r].inserted = mine
      /\ DOMAIN recompute'[r] = {"stage", "table", "doomed", "inserted", "saw"}
  BY <1>1, <1>2, <1>3 DEF RowsOK
<1>5. /\ pc'[r] = "committed" /\ \A q \in Requests : q # r => pc'[q] = pc[q]
  BY <1>1 DEF StoreInv, TypeOK
<1>6. \A q \in Requests : CompetitionOf(q)' = CompetitionOf(q)
  BY <1>1 DEF CompetitionOf
<1>7. /\ \A row \in mine : row.by = r /\ row.competition = CompetitionOf(r)
      /\ \A row1, row2 \in mine : row1.team = row2.team => row1 = row2
  BY <1>2 DEF RowsOK
<1>8. ASSUME NEW row, IsCommitted(row) PROVE IsCommitted(row)' /\ row.by # r
  BY <1>1, <1>3, <1>8 DEF IsCommitted
<1>9. \A row \in mine : IsCommitted(row)'
  BY <1>4, <1>7 DEF IsCommitted
<1>10. \A row \in standings : IsCommitted(row)
  BY DEF StandingsInv
<1>11. /\ post[r].match \in Matches
       /\ \A m \in Matches : /\ match_state[m].version \in Int
                             /\ match_state'[m].version \in Int
                             /\ match_state[m].version <= match_state'[m].version
       /\ match_state[post[r].match].version < match_state'[post[r].match].version
  BY VersionGrows
<1> HIDE DEF kept, mine
<1>12. \A row \in standings' : IsCommitted(row)'
  BY <1>1, <1>8, <1>9, <1>10 DEF kept
<1>13. ASSUME NEW q \in Requests PROVE StageOK(q)'
  BY <1>3, <1>4, <1>5, <1>1, <1>13 DEF StandingsInv, StageOK, Recomputing, TableStages, Done
<1>14. ASSUME NEW q \in Requests PROVE RowsOK(q)'
  <2>1. RowsOK(q) /\ CompetitionOf(q)' = CompetitionOf(q)
    BY <1>6 DEF StandingsInv
  <2>2. CASE q = r
    <3>1. /\ recompute'[r].table = recompute[r].table
          /\ recompute'[r].inserted = recompute[r].inserted
      BY <1>1, <1>4 DEF mine
    <3> QED
      BY <1>4, <2>1, <2>2, <3>1 DEF RowsOK
  <2>3. CASE q # r
    BY <1>3, <2>1, <2>3 DEF RowsOK
  <2> QED
    BY <2>2, <2>3
<1>15. ASSUME NEW q \in Requests PROVE DoomedOK(q)'
  <2> SUFFICES ASSUME q # r, recompute[q].stage \in {"deleting", "inserting"}
               PROVE  DoomedOK(q)'
    BY <1>3, <1>4 DEF DoomedOK
  <2>1. DoomedOK(q) /\ recompute'[q] = recompute[q]
    BY <1>3 DEF StandingsInv
  <2>2. \A row \in recompute[q].doomed : IsCommitted(row)
    BY <2>1 DEF DoomedOK
  <2>3. ASSUME NEW p \in Requests, recompute'[p].stage = "committed"
        PROVE  Whole(p, recompute[q].doomed)'
    <3>1. CASE p = r
      <4>1. mine \cap recompute[q].doomed = {}
        BY <1>7, <1>8, <2>2
      <4> QED
        BY <1>4, <2>1, <3>1, <4>1 DEF Whole
    <3>2. CASE p # r
      BY <1>3, <2>1, <2>3, <3>2 DEF DoomedOK, Whole
    <3> QED
      BY <3>1, <3>2
  <2> QED
    BY <1>8, <2>1, <2>2, <2>3 DEF DoomedOK
<1>16. ASSUME NEW q \in Requests PROVE KeysOK(q)'
  <2> SUFFICES ASSUME q # r, recompute[q].stage = "inserting",
                      NEW row \in recompute[q].inserted
               PROVE  /\ KeyRows(q, row)' = {}
                      /\ \A p \in Requests \ {q} : recompute'[p].stage = "inserting" =>
                            \A other \in recompute'[p].inserted : ~ SameKey(row, other)
    BY <1>3, <1>4 DEF KeysOK
  <2>1. KeysOK(q) /\ recompute'[q] = recompute[q]
    BY <1>3 DEF StandingsInv
  <2>2. \A other \in mine : ~ SameKey(row, other)
    BY <1>1, <2>1 DEF KeysOK, mine
  <2>3. \A other \in standings \ recompute[q].doomed : ~ SameKey(row, other)
    BY <2>1 DEF KeysOK, KeyRows
  <2>4. KeyRows(q, row)' = {}
    BY <1>1, <2>1, <2>2, <2>3 DEF KeyRows, kept
  <2>5. \A p \in Requests \ {q} : recompute'[p].stage = "inserting" =>
           \A other \in recompute'[p].inserted : ~ SameKey(row, other)
    BY <1>3, <1>4, <2>1 DEF KeysOK
  <2> QED
    BY <2>4, <2>5
<1>17. ASSUME NEW q \in Requests PROVE ComputesOK(q)'
  <2> SUFFICES ASSUME q # r, recompute[q].stage \in {"read", "deleting", "inserting"}
               PROVE  ComputesOK(q)'
    BY <1>3, <1>4 DEF ComputesOK
  <2>1. /\ recompute'[q] = recompute[q] /\ CompetitionOf(q)' = CompetitionOf(q)
        /\ FinalsSeen(q)' = FinalsSeen(q)
    BY <1>1, <1>3, <1>6 DEF FinalsSeen
  <2>2. ComputesOK(q)
    BY DEF StandingsInv
  <2>3. \A m \in Matches : recompute[q].saw[m].version \in Int
    BY <2>2 DEF ComputesOK, States
  <2>4. \A m \in Matches : recompute[q].saw[m].version <= match_state'[m].version
    BY <1>11, <2>2, <2>3 DEF ComputesOK
  <2> QED
    BY <2>1, <2>2, <2>4, Zenon DEF ComputesOK
<1>18. ASSUME NEW q \in Requests PROVE CurrentOK(q)'
  <2> SUFFICES ASSUME q # r, recompute[q].stage \in {"deleting", "inserting"}
               PROVE  CurrentOK(q)'
    BY <1>3, <1>4 DEF CurrentOK
  <2>1. /\ recompute'[q] = recompute[q] /\ CompetitionOf(q)' = CompetitionOf(q)
        /\ CurrentOK(q) /\ ComputesOK(q)
    BY <1>3, <1>6 DEF StandingsInv
  <2>2. \A m \in Matches : /\ recompute[q].saw[m].version \in Int
                           /\ recompute[q].saw[m].version <= match_state[m].version
    BY <2>1 DEF ComputesOK, States
  <2>3. CASE \E m \in Matches : /\ Fixture[m].competition = CompetitionOf(q)
                                /\ recompute[q].saw[m].version < match_state[m].version
    BY <1>11, <2>1, <2>2, <2>3 DEF CurrentOK
  <2>4. CASE CompetitionOf(r) = CompetitionOf(q)
    <3>1. recompute[q].saw[post[r].match].version < match_state'[post[r].match].version
      BY <1>11, <2>2
    <3>2. Fixture[post[r].match].competition = CompetitionOf(q)
      BY <2>4 DEF CompetitionOf
    <3> QED
      BY <1>11, <2>1, <3>1, <3>2 DEF CurrentOK
  <2>5. CASE /\ RowsOf(q, CompetitionOf(q)) \subseteq recompute[q].doomed
             /\ CompetitionOf(r) # CompetitionOf(q)
    <3>1. RowsOf(q, CompetitionOf(q))' \subseteq RowsOf(q, CompetitionOf(q))
      BY <1>1, <1>7, <2>1, <2>5 DEF RowsOf, kept
    <3> QED
      BY <2>1, <2>5, <3>1 DEF CurrentOK
  <2> QED
    BY <2>1, <2>3, <2>4, <2>5 DEF CurrentOK
<1>19. OneRowPerTeam'
  <2> SUFFICES ASSUME NEW row1 \in standings', NEW row2 \in standings', SameKey(row1, row2)
               PROVE  row1 = row2
    BY DEF OneRowPerTeam
  <2>1. \A row \in mine, other \in kept : ~ SameKey(row, other)
    BY <1>1, <1>2 DEF KeysOK, KeyRows, mine, kept
  <2>2. SameKey(row2, row1)
    BY DEF SameKey
  <2>3. CASE row1 \in kept /\ row2 \in kept
    BY <2>3 DEF StandingsInv, OneRowPerTeam, kept
  <2>4. CASE row1 \in mine /\ row2 \in mine
    BY <1>7, <2>4 DEF SameKey
  <2> QED
    BY <1>1, <2>1, <2>2, <2>3, <2>4
<1>20. AllOrNone'
  <2> SUFFICES ASSUME NEW q \in Requests, recompute'[q].stage = "committed"
               PROVE  \/ recompute'[q].inserted \subseteq standings'
                      \/ recompute'[q].inserted \cap standings' = {}
    BY DEF AllOrNone
  <2>1. CASE q = r
    BY <1>1, <1>4, <2>1
  <2>2. CASE q # r
    <3>1. recompute'[q] = recompute[q] /\ recompute[q].stage = "committed"
      BY <1>3, <2>2
    <3>2. Whole(q, standings) /\ Whole(q, recompute[r].doomed)
      BY <1>1, <3>1 DEF StandingsInv, AllOrNone, DoomedOK, Whole
    <3>3. recompute[q].inserted \cap mine = {}
      BY <1>7, <2>2 DEF StandingsInv, RowsOK
    <3> QED
      BY <1>1, <3>1, <3>2, <3>3 DEF Whole, kept
  <2> QED
    BY <2>1, <2>2
<1> QED
  BY <1>3, <1>12, <1>13, <1>14, <1>15, <1>16, <1>17, <1>18, <1>19, <1>20 DEF StandingsInv

\* A step of a request that has no recompute open.
LEMMA MoveStep ==
    ASSUME StoreInv, StandingsInv, NEW r \in Requests, NEW to,
           UNCHANGED <<tableVars, match_state>>,
           pc[r] # "written", pc' = [pc EXCEPT ![r] = to],
           pc[r] \in Done \cup {"failed"} => to \in Done \cup {"failed"},
           pc[r] # "idle" => post'[r] = post[r],
           \A q \in Requests : q # r => post'[q] = post[q] /\ new_state'[q] = new_state[q]
    PROVE  StandingsInv'
<1>1. pc'[r] = to /\ \A q \in Requests : q # r => pc'[q] = pc[q]
  BY DEF StoreInv, TypeOK
<1>2. \A q \in Requests : StageOK(q)
  BY DEF StandingsInv
<1>3. recompute[r].stage \in {"idle", "committed"}
  BY <1>2 DEF StageOK, TableStages, Recomputing
<1>4. \A q \in Requests : recompute[q].stage # "idle" => post'[q] = post[q]
  BY <1>2, <1>3 DEF StageOK, Done
<1>5. \A q \in Requests : recompute[q].stage \in {"read", "deleting", "inserting"} =>
                            pc'[q] = pc[q] /\ new_state'[q] = new_state[q]
  BY <1>1, <1>3
<1>6. \A q \in Requests : recompute[q].stage = "committed" => pc'[q] \in Done \cup {"failed"}
  BY <1>1, <1>2 DEF StageOK
<1>7. match_state \in [Matches -> States]
  BY DEF StoreInv, TypeOK
<1>8. \A m \in Matches : /\ match_state[m].version \in Int /\ match_state'[m].version \in Int
                         /\ match_state[m].version <= match_state'[m].version
  BY <1>7 DEF States
<1>9. \A s \in [Matches -> States] : \A m \in Matches : s[m].version \in Int
  BY DEF States
<1> QED
  BY <1>4, <1>5, <1>6, <1>8, <1>9, TableFrame

\* Every statement outside the recompute and the commit is such a step, or a rollback.
LEMMA MoveActions ==
    ASSUME StoreInv, StandingsInv, NEW r \in Requests,
           \/ \E body \in Posts : Begin(r, body)
           \/ SelectVersion(r) \/ KeyIsNew(r) \/ KeyIsTaken(r) \/ InsertEvent(r)
           \/ KeyAppeared(r) \/ ApplyEvent(r) \/ WriteState(r) \/ Publish(r)
           \/ LoseAnswer(r) \/ AnswerCreated(r) \/ SelectOriginal(r) \/ AnswerReplayed(r)
           \/ VersionTaken(r) \/ OutOfRange(r) \/ StandingTaken(r) \/ Rollback(r)
    PROVE  StandingsInv'
<1>0. /\ DOMAIN post = Requests /\ DOMAIN new_state = Requests
      /\ post \in [Requests -> Posts \cup {NoPost}] /\ new_state \in [Requests -> States]
  BY DEF StoreInv, TypeOK
<1>1. ASSUME NEW body \in Posts, Begin(r, body) PROVE StandingsInv'
  BY <1>0, <1>1, MoveStep DEF Begin, Goto, Done
<1>2. CASE SelectVersion(r)
  BY <1>2, MoveStep DEF SelectVersion, Goto, Done
<1>3. CASE KeyIsNew(r) \/ KeyIsTaken(r)
  BY <1>3, MoveStep DEF KeyIsNew, KeyIsTaken, Goto, Done
<1>4. CASE InsertEvent(r) \/ KeyAppeared(r)
  BY <1>4, MoveStep DEF InsertEvent, KeyAppeared, Goto, Done
<1>5. CASE ApplyEvent(r)
  BY <1>0, <1>5, MoveStep DEF ApplyEvent, Goto, Done
<1>6. CASE WriteState(r) \/ Publish(r)
  BY <1>6, MoveStep DEF WriteState, Publish, Goto, Done
<1>7. CASE LoseAnswer(r) \/ SelectOriginal(r)
  BY <1>7, MoveStep DEF LoseAnswer, SelectOriginal, Goto, Done
<1>8. CASE AnswerCreated(r)
  BY <1>8, MoveStep DEF AnswerCreated, Answer, Done
<1>9. CASE AnswerReplayed(r)
  <2>1. PICK e \in CommittedEvents : Answer(r, e, "replayed")
    BY <1>9 DEF AnswerReplayed
  <2>2. pc[r] = "original"
    BY <1>9 DEF AnswerReplayed
  <2> QED
    BY <2>1, <2>2, MoveStep DEF Answer, Done
<1>10. CASE VersionTaken(r) \/ OutOfRange(r) \/ StandingTaken(r) \/ Rollback(r)
  <2>1. Fail(r)
    BY <1>10 DEF VersionTaken, OutOfRange, StandingTaken, Rollback
  <2>2. pc[r] \in InTransaction
    BY <1>10 DEF VersionTaken, OutOfRange, StandingTaken, Rollback, Recomputing, InTransaction,
                 Holding
  <2>3. pc[r] \notin Done \cup {"failed"}
    BY <2>2 DEF InTransaction, Holding, Done
  <2> QED
    BY <2>1, <2>3, AbortKeepsTable
<1> QED
  BY <1>1, <1>2, <1>3, <1>4, <1>5, <1>6, <1>7, <1>8, <1>9, <1>10

\* The commit of any other event leaves the table alone.
LEMMA CommitOtherStep ==
    ASSUME StoreInv, StandingsInv, NEW r \in Requests, Commit(r),
           post[r].type # "match_finalised"
    PROVE  StandingsInv'
<1>1. /\ pc[r] = "written" /\ pc' = [pc EXCEPT ![r] = "committed"]
      /\ UNCHANGED <<post, new_state>> /\ UNCHANGED tableVars
  BY DEF Commit, Goto
<1>2. pc'[r] = "committed" /\ \A q \in Requests : q # r => pc'[q] = pc[q]
  BY <1>1 DEF StoreInv, TypeOK
<1>3. \A q \in Requests : StageOK(q)
  BY DEF StandingsInv
<1>4. recompute[r].stage \notin {"read", "deleting", "inserting"}
  BY <1>3 DEF StageOK, Recomputing
<1>5. \A q \in Requests : recompute[q].stage \in {"read", "deleting", "inserting"} =>
                            pc'[q] = pc[q] /\ new_state'[q] = new_state[q]
  BY <1>1, <1>2, <1>4
<1>6. \A q \in Requests : recompute[q].stage = "committed" => pc'[q] \in Done \cup {"failed"}
  BY <1>1, <1>2, <1>3 DEF StageOK, Done
<1>7. \A m \in Matches : /\ match_state[m].version \in Int /\ match_state'[m].version \in Int
                         /\ match_state[m].version <= match_state'[m].version
  BY VersionGrows
<1>8. \A s \in [Matches -> States] : \A m \in Matches : s[m].version \in Int
  BY DEF States
<1> QED
  BY <1>1, <1>5, <1>6, <1>7, <1>8, TableFrame

\* Every step of the write path keeps what the recomputes rely on.
LEMMA StandingsInvStep == StoreInv /\ StandingsInv /\ [Next]_vars => StandingsInv'
<1> SUFFICES ASSUME StoreInv, StandingsInv, [Next]_vars PROVE StandingsInv'
  OBVIOUS
<1>1. CASE UNCHANGED vars
  <2>1. match_state \in [Matches -> States]
    BY DEF StoreInv, TypeOK
  <2>2. \A m \in Matches : /\ match_state[m].version \in Int /\ match_state'[m].version \in Int
                           /\ match_state[m].version <= match_state'[m].version
    BY <1>1, <2>1 DEF States, vars, storeVars
  <2>3. \A s \in [Matches -> States] : \A m \in Matches : s[m].version \in Int
    BY DEF States
  <2>4. \A q \in Requests : recompute[q].stage = "committed" => pc'[q] \in Done \cup {"failed"}
    BY <1>1 DEF vars, storeVars, StandingsInv, StageOK
  <2> QED
    BY <1>1, <2>2, <2>3, <2>4, TableFrame DEF vars, storeVars
<1>2. CASE Finished
  BY <1>1, <1>2 DEF Finished
<1>3. ASSUME NEW r \in Requests,
             \/ \E body \in Posts : Begin(r, body)
             \/ Progress(r) \/ LoseAnswer(r) \/ Rollback(r)
      PROVE  StandingsInv'
  <2>1. CASE Commit(r)
    BY <2>1, CommitTableStep, CommitOtherStep
  <2>2. CASE RecomputeStep(r)
    BY <2>2, ReadFinalsStep, StartDeleteStep, FinishDeleteStep, InsertStandingStep
    DEF RecomputeStep
  <2> QED
    BY <1>3, <2>1, <2>2, MoveActions DEF Progress
<1> QED
  BY <1>1, <1>2, <1>3 DEF Next

\* StandingsInv holds in every reachable state.
THEOREM StandingsInvariant == Spec => []StandingsInv
BY StandingsInvInit, StandingsInvStep, StoreInvariant, PTL DEF Spec

\* A competition never shows two rows for one team: DELETE and INSERTs of overlapping
\* recomputes never leave the rows of two tables next to each other.
THEOREM TeamsOnce == Spec => []OneRowPerTeam
<1>1. StandingsInv => OneRowPerTeam
  BY DEF StandingsInv
<1> QED
  BY <1>1, StandingsInvariant, PTL

\* The table is a union of whole tables: each row was written by a recompute that
\* committed, and is there with all that this recompute wrote.
THEOREM TablesWhole == Spec => []WholeRecompute
<1>1. StandingsInv => WholeRecompute
  BY DEF StandingsInv, AllOrNone, IsCommitted, WholeRecompute
<1> QED
  BY <1>1, StandingsInvariant, PTL

-----------------------------------------------------------------------------
(* What a finalisation that commits leaves in the points table.            *)

\* Only the commit of a request takes it from "written" to "committed".
LEMMA FinalisingIsCommit ==
    ASSUME StoreInv, [Next]_vars, NEW r \in Requests, Finalising(r)
    PROVE  Commit(r) /\ post[r].type = "match_finalised"
<1>1. pc[r] = "written" /\ pc'[r] = "committed" /\ post[r].type = "match_finalised"
  BY DEF Finalising, Committing
<1>2. pc \in [Requests -> Stages]
  BY DEF StoreInv, TypeOK
<1>3. CASE UNCHANGED vars \/ Finished
  BY <1>1, <1>3 DEF Finished, vars, storeVars
<1>4. ASSUME NEW q \in Requests, NEW body \in Posts, Begin(q, body) PROVE FALSE
  BY <1>1, <1>2, <1>4 DEF Begin, Goto
<1>5. ASSUME NEW q \in Requests, Fail(q) PROVE FALSE
  BY <1>1, <1>2, <1>5 DEF Fail
<1>6. ASSUME NEW q \in Requests, Progress(q) \/ LoseAnswer(q) \/ Rollback(q), ~ Commit(q)
      PROVE  FALSE
  <2>1. CASE SelectVersion(q) \/ KeyIsNew(q) \/ KeyIsTaken(q) \/ InsertEvent(q)
    BY <1>1, <1>2, <2>1 DEF SelectVersion, KeyIsNew, KeyIsTaken, InsertEvent, Goto
  <2>2. CASE KeyAppeared(q) \/ ApplyEvent(q) \/ WriteState(q) \/ Publish(q) \/ LoseAnswer(q)
    BY <1>1, <1>2, <2>2 DEF KeyAppeared, ApplyEvent, WriteState, Publish, LoseAnswer, Goto
  <2>3. CASE AnswerCreated(q) \/ AnswerReplayed(q) \/ SelectOriginal(q)
    BY <1>1, <1>2, <2>3 DEF AnswerCreated, AnswerReplayed, SelectOriginal, Answer, Goto
  <2>4. CASE RecomputeStep(q)
    BY <1>1, <2>4 DEF RecomputeStep, storeVars
  <2>5. CASE VersionTaken(q) \/ OutOfRange(q) \/ StandingTaken(q) \/ Rollback(q)
    BY <1>5, <2>5 DEF VersionTaken, OutOfRange, StandingTaken, Rollback
  <2> QED
    BY <1>6, <2>1, <2>2, <2>3, <2>4, <2>5 DEF Progress
<1>7. ASSUME NEW q \in Requests, Commit(q), q # r PROVE FALSE
  BY <1>1, <1>2, <1>7 DEF Commit, Goto
<1> QED
  BY <1>1, <1>3, <1>4, <1>6, <1>7 DEF Next

\* What the commit writes is the table of the results that were read.
LEMMA TableWritten ==
    ASSUME StoreInv, StandingsInv, NEW r \in Requests, Commit(r),
           post[r].type = "match_finalised"
    PROVE  /\ standings' = (standings \ recompute[r].doomed) \cup recompute[r].inserted
           /\ [recompute[r].saw EXCEPT ![post[r].match] = new_state[r]] \in [Matches -> States]
           /\ post[r].match \in Matches
           /\ new_state[r].status = "final"
           /\ \E results \in SetToSeqs(FinalsSeen(r)) :
                recompute[r].inserted
                  = RowsBy(r, ToSet(ComputeStandings(CompetitionOf(r), results)))
<1>1. /\ recompute[r].stage = "inserting" /\ recompute[r].table = <<>>
      /\ standings' = (standings \ recompute[r].doomed) \cup recompute[r].inserted
      /\ pc[r] = "written"
  BY DEF Commit, Recomputed, CommitTable, Goto
<1>2. ComputesOK(r)
  BY DEF StandingsInv
<1>3. RowsBy(r, ToSet(<<>>)) = {}
  BY DEF RowsBy, ToSet
<1>4. PICK results \in SetToSeqs(FinalsSeen(r)) :
         RowsBy(r, ToSet(ComputeStandings(CompetitionOf(r), results)))
           = RowsBy(r, ToSet(recompute[r].table)) \cup recompute[r].inserted
  BY <1>1, <1>2 DEF ComputesOK
<1>5. recompute[r].inserted = RowsBy(r, ToSet(ComputeStandings(CompetitionOf(r), results)))
  <2> DEFINE T == RowsBy(r, ToSet(ComputeStandings(CompetitionOf(r), results)))
  <2>1. T = {} \cup recompute[r].inserted
    BY <1>1, <1>3, <1>4
  <2> HIDE DEF T
  <2>2. T = recompute[r].inserted
    BY <2>1
  <2> QED
    BY <2>2 DEF T
<1>6. /\ post[r].match \in Matches /\ new_state[r] \in States
      /\ EventOf(r) \in ScoringEvents(Matches, Keys) /\ EventOf(r).type = "match_finalised"
      /\ match_state[post[r].match] \in States
      /\ new_state[r] = Apply(match_state[post[r].match], EventOf(r))
  BY <1>1, EventType DEF StoreInv, TypeOK, NewStateCurrent
<1>7. new_state[r].status = "final"
  BY <1>6 DEF Apply, States
<1>8. [recompute[r].saw EXCEPT ![post[r].match] = new_state[r]] \in [Matches -> States]
  BY <1>1, <1>2, <1>6 DEF ComputesOK
<1> QED
  BY <1>1, <1>4, <1>5, <1>6, <1>7, <1>8

\* The rows that a recompute computes are the table that counting gives.
LEMMA TableIsCounted ==
    ASSUME NEW by, NEW c, NEW F, IsFiniteSet(F),
           \A x \in F : x.home # x.away /\ x.score_home \in Int /\ x.score_away \in Int,
           NEW results \in SetToSeqs(F)
    PROVE  TableOf(by, c, F) = RowsBy(by, ToSet(ComputeStandings(c, results)))
<1>1. ToSet(ComputeStandings(c, results)) = CountedTable(c, F)
  BY TableCounts
<1> QED
  BY <1>1 DEF TableOf, RowsBy

\* A finalisation that commits leaves as its own rows the table of the results that it
\* read and of its own match at the score it stores: whatever is committed meanwhile,
\* its own result is among those counted.
THEOREM OwnMatchCounted == Spec => FinaliseCountsOwnMatch
<1>1. ASSUME StoreInv, StandingsInv, [Next]_vars, NEW r \in Requests, Finalising(r),
             NEW m, m = post[r].match, NEW state, state = match_state'[m],
             NEW counted,
             counted = FinalResults(CompetitionOf(r), [recompute[r].saw EXCEPT ![m] = state])
      PROVE  /\ ResultOf(m, state) \in counted
             /\ {row \in standings' : row.by = r} = TableOf(r, CompetitionOf(r), counted)
  <2> DEFINE c == CompetitionOf(r)
             states == [recompute[r].saw EXCEPT ![m] = new_state[r]]
  <2>1. Commit(r) /\ post[r].type = "match_finalised"
    BY <1>1, FinalisingIsCommit
  <2>2. /\ standings' = (standings \ recompute[r].doomed) \cup recompute[r].inserted
        /\ states \in [Matches -> States] /\ m \in Matches /\ new_state[r].status = "final"
    BY <1>1, <2>1, TableWritten
  <2>3. PICK results \in SetToSeqs(FinalsSeen(r)) :
           recompute[r].inserted = RowsBy(r, ToSet(ComputeStandings(c, results)))
    BY <1>1, <2>1, TableWritten
  <2>4. state = new_state[r]
    BY <1>1, <2>1, <2>2 DEF Commit, StoreInv, TypeOK
  <2>5. counted = FinalsSeen(r) /\ counted = FinalResults(c, states)
    BY <1>1, <2>4 DEF FinalsSeen
  <2>6. Fixture[m].competition = c /\ states[m] = state /\ state.status = "final"
    <3>1. DOMAIN recompute[r].saw = Matches
      BY <2>2
    <3> QED
      BY <1>1, <2>2, <2>4, <3>1 DEF CompetitionOf
  <2>7. ResultOf(m, state) \in counted
    <3> HIDE DEF c, states
    <3> QED
      BY <2>2, <2>5, <2>6 DEF FinalResults
  <2>8. {row \in standings' : row.by = r} = recompute[r].inserted
    <3>1. recompute[r].stage = "inserting"
      BY <2>1 DEF Commit, Recomputed
    <3>2. \A row \in standings : row.by # r
      BY <1>1, <3>1 DEF StandingsInv, IsCommitted
    <3>3. \A row \in recompute[r].inserted : row.by = r
      BY <1>1 DEF StandingsInv, RowsOK
    <3> QED
      BY <2>2, <3>2, <3>3
  <2>9. /\ IsFiniteSet(counted)
        /\ \A x \in counted : x.home # x.away /\ x.score_home \in Int /\ x.score_away \in Int
    <3> HIDE DEF c, states
    <3> QED
      BY <2>2, <2>5, FinalsAre
  <2>10. TableOf(r, c, counted) = RowsBy(r, ToSet(ComputeStandings(c, results)))
    <3>1. results \in SetToSeqs(counted)
      BY <2>3, <2>5
    <3> HIDE DEF c
    <3> QED
      BY <2>9, <3>1, TableIsCounted
  <2> QED
    BY <2>3, <2>7, <2>8, <2>10
<1>2. StoreInv /\ StandingsInv /\ [Next]_vars =>
        [\A r \in Requests : Finalising(r) =>
           LET m == post[r].match
               counted == FinalResults(CompetitionOf(r),
                                       [recompute[r].saw EXCEPT ![m] = match_state'[m]])
           IN  /\ ResultOf(m, match_state'[m]) \in counted
               /\ {row \in standings' : row.by = r} = TableOf(r, CompetitionOf(r), counted)]_vars
  BY <1>1
<1> QED
  BY <1>2, StoreInvariant, StandingsInvariant, PTL DEF Spec, FinaliseCountsOwnMatch

\* The mark of the writer is the only thing that tells two equal rows apart.
LEMMA Unmarked ==
    ASSUME NEW r, NEW x
    PROVE  [WrittenBy(r, x) EXCEPT !.by = "any"] = WrittenBy("any", x)
BY DEF WrittenBy

\* If no append to the competition commits between a finalisation's read of the results
\* and its commit, it leaves the table of all final matches at their present scores,
\* whatever earlier recompute lost, and no other row of the competition.
THEOREM RepairedWhenCurrent == Spec => RefreshesWhenCurrent
<1>1. ASSUME StoreInv, StandingsInv, [Next]_vars,
             NEW r \in Requests, Finalising(r),
             \A m \in Matches : Fixture[m].competition = CompetitionOf(r) =>
                                recompute[r].saw[m] = match_state[m]
      PROVE  TableIsCurrent(CompetitionOf(r), standings', match_state')
  <2> DEFINE c == CompetitionOf(r)
             own == post[r].match
             states == [recompute[r].saw EXCEPT ![own] = new_state[r]]
             F == FinalsSeen(r)
  <2>1. Commit(r) /\ post[r].type = "match_finalised"
    BY <1>1, FinalisingIsCommit
  <2>2. /\ standings' = (standings \ recompute[r].doomed) \cup recompute[r].inserted
        /\ states \in [Matches -> States] /\ own \in Matches
    BY <1>1, <2>1, TableWritten
  <2>3. PICK results \in SetToSeqs(F) :
           recompute[r].inserted = RowsBy(r, ToSet(ComputeStandings(c, results)))
    BY <1>1, <2>1, TableWritten
  <2>4. F = FinalResults(c, states)
    BY DEF FinalsSeen
  <2>5. /\ IsFiniteSet(F)
        /\ \A x \in F : x.home # x.away /\ x.score_home \in Int /\ x.score_away \in Int
    <3> HIDE DEF c, states, F
    <3> QED
      BY <2>2, <2>4, FinalsAre
  <2>6. F = FinalResults(c, match_state')
    <3>1. match_state' = [match_state EXCEPT ![own] = new_state[r]] /\ DOMAIN match_state = Matches
      BY <1>1, <2>1 DEF Commit, StoreInv, TypeOK
    <3>2. DOMAIN recompute[r].saw = Matches
      BY <2>2
    <3>3. \A m \in Matches : Fixture[m].competition = c => states[m] = match_state'[m]
      BY <1>1, <2>2, <3>1, <3>2
    <3>4. PICK after : after = match_state'
      OBVIOUS
    <3>5. \A m \in Matches : Fixture[m].competition = c => states[m] = after[m]
      BY <3>3, <3>4
    <3> HIDE DEF c, states, F
    <3>6. FinalResults(c, states) = FinalResults(c, after)
      BY <3>5 DEF FinalResults
    <3> QED
      BY <2>4, <3>4, <3>6
  <2>7. {x \in standings' : x.competition = c} = recompute[r].inserted
    <3>1. RowsOf(r, c) \subseteq recompute[r].doomed
      <4>1. recompute[r].stage = "inserting" /\ ComputesOK(r) /\ CurrentOK(r)
        BY <1>1, <2>1 DEF Commit, Recomputed, StandingsInv
      <4>2. ~ \E m \in Matches : /\ Fixture[m].competition = CompetitionOf(r)
                                 /\ recompute[r].saw[m].version < match_state[m].version
        BY <1>1, <4>1 DEF ComputesOK, States
      <4> QED
        BY <4>1, <4>2 DEF CurrentOK
    <3>2. \A x \in recompute[r].inserted : x.competition = c
      BY <1>1 DEF StandingsInv, RowsOK
    <3> HIDE DEF c
    <3> QED
      BY <2>2, <3>1, <3>2 DEF RowsOf
  <2>8. {[row EXCEPT !.by = "any"] : row \in recompute[r].inserted} = TableOf("any", c, F)
    <3> DEFINE T == ToSet(ComputeStandings(c, results))
               U(row) == [row EXCEPT !.by = "any"]
    <3>1. TableOf("any", c, F) = RowsBy("any", T)
      <4> HIDE DEF c, F
      <4> QED
        BY <2>3, <2>5, TableIsCounted
    <3>2. \A x : U(WrittenBy(r, x)) = WrittenBy("any", x)
      BY Unmarked
    <3>3. recompute[r].inserted = {WrittenBy(r, x) : x \in T}
      BY <2>3 DEF RowsBy
    <3> HIDE DEF U, T
    <3>4. {U(row) : row \in recompute[r].inserted} = {WrittenBy("any", row) : row \in T}
      BY <3>2, <3>3
    <3> QED
      BY <3>1, <3>4 DEF U, RowsBy
  <2>9. PICK rows, after : rows = standings' /\ after = match_state'
    OBVIOUS
  <2>10. TableIsCurrent(c, rows, after)
    <3>1. FinalResults(c, after) = F /\ {x \in rows : x.competition = c} = recompute[r].inserted
      BY <2>6, <2>7, <2>9
    <3> HIDE DEF c, F
    <3> QED
      BY <2>8, <3>1 DEF TableIsCurrent
  <2> QED
    BY <2>9, <2>10
<1>2. StoreInv /\ StandingsInv /\ [Next]_vars =>
        [\A r \in Requests :
           /\ Finalising(r)
           /\ \A m \in Matches : Fixture[m].competition = CompetitionOf(r) =>
                                 recompute[r].saw[m] = match_state[m]
           => TableIsCurrent(CompetitionOf(r), standings', match_state')]_vars
  BY <1>1
<1> QED
  BY <1>2, StoreInvariant, StandingsInvariant, PTL DEF Spec, RefreshesWhenCurrent
=============================================================================
