-------------------------- MODULE ProjectionsProofs --------------------------
(***************************************************************************)
(* Lemmas about apply() and fold() for logs of any length.  They rest on   *)
(* induction over sets of natural numbers, which needs no operator as a    *)
(* parameter: a nonempty set of them has a least element.                  *)
(***************************************************************************)
EXTENDS Counting, FiniteSetTheorems, WellFoundedInduction, TLAPS

-----------------------------------------------------------------------------
(* Induction.                                                              *)

\* A nonempty set of natural numbers has a least element.
LEMMA LeastElement ==
    ASSUME NEW T, T \subseteq Nat, T # {}
    PROVE  \E x \in T : \A y \in T : x <= y
<1> DEFINE R == OpToRel(<, Nat)
<1>1. \E x \in T : \A y \in T : ~ (<<y, x>> \in R)
  <2>1. IsWellFoundedOn(R, Nat)
    BY NatLessThanWellFounded
  <2> HIDE DEF R
  <2> QED
    BY <2>1, WFMin
<1>2. \A x, y \in Nat : <<y, x>> \in R <=> y < x
  BY DEF OpToRel
<1>3. \E x \in T : \A y \in T : ~ (y < x)
  <2> HIDE DEF R
  <2> QED
    BY <1>1, <1>2, Zenon
<1> QED
  BY <1>3

\* Induction over the natural numbers, for the set of those that have a property.
LEMMA NatSetInduction ==
    ASSUME NEW S, 0 \in S, \A n \in Nat : n \in S => n + 1 \in S
    PROVE  Nat \subseteq S
<1> SUFFICES ASSUME Nat \ S # {} PROVE FALSE
  OBVIOUS
<1>1. PICK x \in Nat \ S : \A y \in Nat \ S : x <= y
  BY LeastElement
<1>2. x - 1 \in Nat /\ x - 1 \notin Nat \ S
  BY <1>1
<1> QED
  BY <1>1, <1>2

-----------------------------------------------------------------------------
(* apply().                                                                *)

\* Scores may be replaced by any integers.
LEMMA ScoreType ==
    ASSUME NEW state \in States, NEW a \in Int, NEW b \in Int, NEW c \in Int
    PROVE  /\ [state EXCEPT !.score_home = a, !.current_round = c] \in States
           /\ [state EXCEPT !.score_away = b, !.current_round = c] \in States
           /\ [state EXCEPT !.score_home = a, !.score_away = b,
                            !.current_round = c] \in States
BY DEF States

\* apply() keeps a state well-formed and takes the version of the event.
LEMMA ApplyType ==
    ASSUME NEW matches, NEW keys,
           NEW state \in States, NEW event \in ScoringEvents(matches, keys)
    PROVE  /\ Apply(state, event) \in States
           /\ Apply(state, event).version = event.version
<1> DEFINE moved ==
      CASE event.type = "match_started" -> [state EXCEPT !.status = "in_progress"]
        [] event.type = "round_won_home" ->
             [state EXCEPT !.score_home = @ + 1, !.current_round = @ + 1]
        [] event.type = "round_won_away" ->
             [state EXCEPT !.score_away = @ + 1, !.current_round = @ + 1]
        [] event.type = "score_correction" ->
             [state EXCEPT !.score_home = event.score_home,
                           !.score_away = event.score_away,
                           !.current_round = event.score_home + event.score_away]
        [] event.type = "match_finalised" -> [state EXCEPT !.status = "final"]
<1>1. moved \in States
  <2>1. CASE event.type = "match_started"
    BY <2>1 DEF States, Statuses
  <2>a. /\ state.score_home \in Int /\ state.score_away \in Int
        /\ state.current_round \in Int
        /\ event.score_home \in Int /\ event.score_away \in Int
    BY DEF States, ScoringEvents
  <2>2. CASE event.type = "round_won_home"
    <3> DEFINE a == state.score_home + 1
               c == state.current_round + 1
    <3>1. a \in Int /\ c \in Int
      BY <2>a
    <3>2. moved = [state EXCEPT !.score_home = a, !.current_round = c]
      BY <2>2
    <3> HIDE DEF a, c, moved
    <3> QED
      BY <3>1, <3>2, ScoreType
  <2>3. CASE event.type = "round_won_away"
    <3> DEFINE b == state.score_away + 1
               c == state.current_round + 1
    <3>1. b \in Int /\ c \in Int
      BY <2>a
    <3>2. moved = [state EXCEPT !.score_away = b, !.current_round = c]
      BY <2>3
    <3> HIDE DEF b, c, moved
    <3> QED
      BY <3>1, <3>2, ScoreType
  <2>4. CASE event.type = "score_correction"
    <3> DEFINE a == event.score_home
               b == event.score_away
               c == a + b
    <3>1. a \in Int /\ b \in Int /\ c \in Int
      BY <2>a
    <3>2. moved = [state EXCEPT !.score_home = a, !.score_away = b, !.current_round = c]
      BY <2>4
    <3> HIDE DEF a, b, c, moved
    <3> QED
      BY <3>1, <3>2, ScoreType
  <2>5. CASE event.type = "match_finalised"
    BY <2>5 DEF States, Statuses
  <2> QED
    BY <2>1, <2>2, <2>3, <2>4, <2>5 DEF ScoringEvents, EventTypes
<1>2. event.version \in Nat
  BY DEF ScoringEvents
<1>3. Apply(state, event) = [moved EXCEPT !.version = event.version]
  BY DEF Apply
<1> HIDE DEF moved
<1> QED
  BY <1>1, <1>2, <1>3 DEF States

\* Only the two lifecycle events change the status.
LEMMA ApplyStatus ==
    ASSUME NEW matches, NEW keys,
           NEW state \in States, NEW event \in ScoringEvents(matches, keys),
           event.type \notin {"match_started", "match_finalised"}
    PROVE  Apply(state, event).status = state.status
<1>1. CASE event.type = "round_won_home"
  BY <1>1 DEF States, Apply
<1>2. CASE event.type = "round_won_away"
  BY <1>2 DEF States, Apply
<1>3. CASE event.type = "score_correction"
  BY <1>3 DEF States, Apply
<1> QED
  BY <1>1, <1>2, <1>3 DEF ScoringEvents, EventTypes

\* The state of a match before its first event is one.
LEMMA InitialStateType == InitialState \in States
BY DEF InitialState, States, Statuses

-----------------------------------------------------------------------------
(* fold().                                                                 *)

\* The recursive function that a fold of the first n events unfolds to; it is
\* indexed by sets of positions, of which the fold takes the greatest.
IsIter(events, n, g) ==
    g = [T \in SUBSET (1 .. n) |->
            IF T = {} THEN InitialState
            ELSE LET x == Max(T) IN Apply(g[T \ {x}], events[x])]

\* An element that no other exceeds is the maximum.
LEMMA MaxIs ==
    ASSUME NEW T, T \subseteq Int, NEW x \in T, \A y \in T : x >= y
    PROVE  Max(T) = x
<1>1. Max(T) \in T /\ \A y \in T : Max(T) >= y
  BY Zenon DEF Max
<1>2. Max(T) \in Int /\ x \in Int /\ Max(T) >= x /\ x >= Max(T)
  BY <1>1
<1> HIDE DEF Max
<1> QED
  BY <1>2

\* The recursion has a solution: one for n positions extends to n + 1.
LEMMA IterExists ==
    ASSUME NEW events, NEW n \in Nat
    PROVE  \E g : IsIter(events, n, g)
<1> DEFINE S == {k \in Nat : \E g : IsIter(events, k, g)}
<1>1. 0 \in S
  <2> DEFINE g == [T \in SUBSET (1 .. 0) |-> InitialState]
  <2>1. IsIter(events, 0, g)
    BY 1 .. 0 = {} DEF IsIter
  <2> QED
    BY <2>1
<1>2. ASSUME NEW k \in Nat, k \in S
      PROVE  k + 1 \in S
  <2>1. PICK g : IsIter(events, k, g)
    BY <1>2
  <2> DEFINE h == [T \in SUBSET (1 .. k + 1) |->
                     IF k + 1 \in T THEN Apply(g[T \ {k + 1}], events[k + 1]) ELSE g[T]]
  <2>2. ASSUME NEW T \in SUBSET (1 .. k + 1)
        PROVE  h[T] = IF T = {} THEN InitialState
                      ELSE LET x == Max(T) IN Apply(h[T \ {x}], events[x])
    <3>1. CASE k + 1 \in T
      <4>1. Max(T) = k + 1
        <5>1. T \subseteq Int /\ k + 1 \in T /\ \A y \in T : k + 1 >= y
          BY <3>1
        <5> QED
          BY <5>1, MaxIs, Zenon
      <4>2. h[T \ {k + 1}] = g[T \ {k + 1}]
        BY <3>1
      <4> QED
        BY <3>1, <4>1, <4>2
    <3>2. CASE k + 1 \notin T
      <4>1. T \in SUBSET (1 .. k)
        BY <3>2
      <4>2. h[T] = g[T]
        BY <3>2
      <4>3. \A x : h[T \ {x}] = g[T \ {x}]
        BY <3>2
      <4> HIDE DEF h
      <4>4. g[T] = IF T = {} THEN InitialState
                   ELSE LET x == Max(T) IN Apply(g[T \ {x}], events[x])
        BY <2>1, <4>1, Zenon DEF IsIter
      <4> QED
        BY <4>2, <4>3, <4>4, Zenon
    <3> QED
      BY <3>1, <3>2
  <2>3. IsIter(events, k + 1, h)
    <3> DEFINE F(f) == [T \in SUBSET (1 .. k + 1) |->
            IF T = {} THEN InitialState
            ELSE LET x == Max(T) IN Apply(f[T \ {x}], events[x])]
    <3>1. DOMAIN h = SUBSET (1 .. k + 1) /\ h = [T \in SUBSET (1 .. k + 1) |-> h[T]]
      OBVIOUS
    <3> HIDE DEF h
    <3>2. h = F(h)
      BY <3>1, <2>2, Zenon
    <3> QED
      BY <3>2 DEF IsIter
  <2> QED
    BY <2>3
<1> HIDE DEF S
<1>3. n \in S
  BY <1>1, <1>2, NatSetInduction
<1> QED
  BY <1>3 DEF S

\* A solution takes the events one at a time, in order.
LEMMA IterSteps ==
    ASSUME NEW events, NEW n \in Nat, NEW g, IsIter(events, n, g)
    PROVE  /\ g[1 .. 0] = InitialState
           /\ \A k \in 1 .. n : g[1 .. k] = Apply(g[1 .. k - 1], events[k])
<1>0. \A T \in SUBSET (1 .. n) :
        g[T] = IF T = {} THEN InitialState
               ELSE LET x == Max(T) IN Apply(g[T \ {x}], events[x])
  BY Zenon DEF IsIter
<1>1. g[1 .. 0] = InitialState
  <2>1. 1 .. 0 = {} /\ 1 .. 0 \in SUBSET (1 .. n)
    OBVIOUS
  <2> QED
    BY <2>1, <1>0, Zenon
<1>2. ASSUME NEW k \in 1 .. n
      PROVE  g[1 .. k] = Apply(g[1 .. k - 1], events[k])
  <2>1. 1 .. k # {} /\ 1 .. k \in SUBSET (1 .. n) /\ (1 .. k) \ {k} = 1 .. k - 1
    OBVIOUS
  <2>2. Max(1 .. k) = k
    <3>1. 1 .. k \subseteq Int /\ k \in 1 .. k /\ \A y \in 1 .. k : k >= y
      OBVIOUS
    <3> QED
      BY <3>1, MaxIs, Zenon
  <2> QED
    BY <2>1, <2>2, <1>0, Zenon
<1> QED
  BY <1>1, <1>2

\* fold() is the value of a solution at all positions.
LEMMA FoldIsIter ==
    ASSUME NEW events, NEW n \in Nat, DOMAIN events = 1 .. n
    PROVE  \E g : IsIter(events, n, g) /\ Fold(events) = g[1 .. n]
<1> DEFINE g == CHOOSE h : IsIter(events, n, h)
<1>1. Fold(events) = g[1 .. n]
  BY DEF Fold, FoldLeft, MapThenFoldSet, IsIter
<1>2. IsIter(events, n, g)
  BY IterExists
<1> HIDE DEF g
<1> QED
  BY <1>1, <1>2

\* Whatever starts at the default state and follows apply() is what fold() gives.
LEMMA FoldFollows ==
    ASSUME NEW events, NEW n \in Nat, DOMAIN events = 1 .. n,
           NEW x, x[0] = InitialState,
           \A k \in 1 .. n : x[k] = Apply(x[k - 1], events[k])
    PROVE  Fold(events) = x[n]
<1>1. PICK g : IsIter(events, n, g) /\ Fold(events) = g[1 .. n]
  BY FoldIsIter
<1> DEFINE S == {k \in Nat : k <= n => g[1 .. k] = x[k]}
<1>2. 0 \in S
  BY <1>1, IterSteps
<1>3. ASSUME NEW k \in Nat, k \in S
      PROVE  k + 1 \in S
  <2> SUFFICES ASSUME k + 1 <= n
               PROVE  g[1 .. k + 1] = x[k + 1]
    OBVIOUS
  <2>1. k + 1 \in 1 .. n /\ (k + 1) - 1 = k
    OBVIOUS
  <2>2. g[1 .. k + 1] = Apply(g[1 .. k], events[k + 1])
    BY <1>1, <2>1, IterSteps
  <2> QED
    BY <1>3, <2>1, <2>2
<1> HIDE DEF S
<1>4. n \in S
  BY <1>2, <1>3, NatSetInduction
<1> QED
  BY <1>1, <1>4 DEF S

\* fold() of no events is the default state.
LEMMA FoldEmpty == Fold(<<>>) = InitialState
<1>1. 0 \in Nat /\ DOMAIN <<>> = 1 .. 0
  OBVIOUS
<1>2. PICK g : IsIter(<<>>, 0, g) /\ Fold(<<>>) = g[1 .. 0]
  BY <1>1, FoldIsIter, Zenon
<1> QED
  BY <1>1, <1>2, IterSteps

\* fold() of one more event is apply() of it to the fold so far: an update in
\* place and a rebuild agree.
LEMMA FoldAppend ==
    ASSUME NEW Events, NEW events \in Seq(Events), NEW event \in Events
    PROVE  Fold(Append(events, event)) = Apply(Fold(events), event)
<1> DEFINE n == Len(events)
           longer == Append(events, event)
<1>1. n \in Nat /\ DOMAIN events = 1 .. n /\ DOMAIN longer = 1 .. n + 1
  OBVIOUS
<1>2. longer[n + 1] = event /\ \A k \in 1 .. n : longer[k] = events[k]
  OBVIOUS
<1> HIDE DEF n, longer
<1>3. PICK g : IsIter(longer, n + 1, g) /\ Fold(longer) = g[1 .. n + 1]
  BY <1>1, FoldIsIter
<1> DEFINE x == [k \in 0 .. n |-> g[1 .. k]]
<1>4. g[1 .. 0] = InitialState /\ \A k \in 1 .. n + 1 : g[1 .. k] = Apply(g[1 .. k - 1], longer[k])
  BY <1>1, <1>3, IterSteps
<1>5. x[0] = InitialState /\ \A k \in 1 .. n : x[k] = Apply(x[k - 1], events[k])
  <2>1. x[0] = InitialState
    BY <1>1, <1>4
  <2>2. ASSUME NEW k \in 1 .. n
        PROVE  x[k] = Apply(x[k - 1], events[k])
    BY <1>1, <1>2, <1>4
  <2> QED
    BY <2>1, <2>2
<1>6. x[n] = g[1 .. n]
  BY <1>1
<1> HIDE DEF x
<1>7. Fold(events) = g[1 .. n]
  BY <1>1, <1>5, <1>6, FoldFollows
<1>8. g[1 .. n + 1] = Apply(g[1 .. n], event)
  <2>1. n + 1 \in 1 .. n + 1 /\ (n + 1) - 1 = n
    BY <1>1
  <2> QED
    BY <1>2, <1>4, <2>1
<1> QED
  BY <1>3, <1>7, <1>8 DEF longer

\* fold() gives a well-formed state.
LEMMA FoldType ==
    ASSUME NEW matches, NEW keys, NEW events \in Seq(ScoringEvents(matches, keys))
    PROVE  Fold(events) \in States
<1> DEFINE n == Len(events)
<1>1. n \in Nat /\ DOMAIN events = 1 .. n
  OBVIOUS
<1>2. \A k \in 1 .. n : events[k] \in ScoringEvents(matches, keys)
  OBVIOUS
<1> HIDE DEF n
<1>3. PICK g : IsIter(events, n, g) /\ Fold(events) = g[1 .. n]
  BY <1>1, FoldIsIter
<1> DEFINE S == {k \in Nat : k <= n => g[1 .. k] \in States}
<1>4. 0 \in S
  BY <1>1, <1>3, IterSteps, InitialStateType
<1>5. ASSUME NEW k \in Nat, k \in S
      PROVE  k + 1 \in S
  <2> SUFFICES ASSUME k + 1 <= n
               PROVE  g[1 .. k + 1] \in States
    OBVIOUS
  <2>1. k + 1 \in 1 .. n /\ (k + 1) - 1 = k
    BY <1>1
  <2>2. g[1 .. k + 1] = Apply(g[1 .. k], events[k + 1])
    BY <1>1, <1>3, <2>1, IterSteps
  <2>3. g[1 .. k] \in States /\ events[k + 1] \in ScoringEvents(matches, keys)
    BY <1>1, <1>2, <1>5, <2>1
  <2> QED
    BY <2>2, <2>3, ApplyType
<1> HIDE DEF S
<1>6. n \in S
  BY <1>1, <1>4, <1>5, NatSetInduction
<1> QED
  BY <1>1, <1>3, <1>6 DEF S

\* If each update of a log carries the state that apply() makes of the one before
\* it, its state is the fold of the events up to it.
LEMMA FoldOfChain ==
    ASSUME NEW log, NEW n \in Nat, NEW events, DOMAIN events = 1 .. n,
           \A k \in 1 .. n : events[k] = log[k].event,
           \A k \in 1 .. n :
              log[k].state = Apply(IF k = 1 THEN InitialState ELSE log[k - 1].state,
                                   log[k].event)
    PROVE  Fold(events) = IF n = 0 THEN InitialState ELSE log[n].state
<1> DEFINE x == [k \in 0 .. n |-> IF k = 0 THEN InitialState ELSE log[k].state]
<1>1. x[0] = InitialState /\ x[n] = IF n = 0 THEN InitialState ELSE log[n].state
  OBVIOUS
<1>2. ASSUME NEW k \in 1 .. n
      PROVE  x[k] = Apply(x[k - 1], events[k])
  <2>1. x[k] = log[k].state
    OBVIOUS
  <2>2. x[k - 1] = IF k = 1 THEN InitialState ELSE log[k - 1].state
    OBVIOUS
  <2> HIDE DEF x
  <2> QED
    BY <2>1, <2>2, Zenon
<1> HIDE DEF x
<1> QED
  BY <1>1, <1>2, FoldFollows

-----------------------------------------------------------------------------
(* compute_standings(): its dict, one row at a time.                       *)

\* No team has two rows.
OneRowEach(table) ==
    \A i, j \in DOMAIN table : table[i].team = table[j].team => i = j

\* Writing a row under its team replaces the row of the team, or adds one.
LEMMA PutRow ==
    ASSUME NEW Rows, NEW table \in Seq(Rows), NEW row \in Rows, OneRowEach(table)
    PROVE  /\ Put(table, row) \in Seq(Rows)
           /\ OneRowEach(Put(table, row))
           /\ ToSet(Put(table, row)) = {x \in ToSet(table) : x.team # row.team} \cup {row}
<1> DEFINE n == Len(table)
<1>0. n \in Nat /\ DOMAIN table = 1 .. n /\ \A i \in 1 .. n : table[i] \in Rows
  OBVIOUS
<1>1. CASE \E i \in DOMAIN table : table[i].team = row.team
  <2> DEFINE new == [i \in DOMAIN table |-> IF table[i].team = row.team THEN row ELSE table[i]]
  <2>1. Put(table, row) = new
    BY <1>1 DEF Put
  <2>2. new \in Seq(Rows)
    BY <1>0
  <2>3. \A i \in 1 .. n : new[i].team = table[i].team
    BY <1>0
  <2>4. OneRowEach(new)
    BY <1>0, <2>3 DEF OneRowEach
  <2>5. ToSet(new) = {x \in ToSet(table) : x.team # row.team} \cup {row}
    BY <1>0, <1>1 DEF ToSet
  <2> QED
    BY <2>1, <2>2, <2>4, <2>5
<1>2. CASE ~ \E i \in DOMAIN table : table[i].team = row.team
  <2> DEFINE new == Append(table, row)
  <2>1. Put(table, row) = new
    BY <1>2 DEF Put
  <2>2. new \in Seq(Rows) /\ DOMAIN new = 1 .. n + 1 /\ new[n + 1] = row
        /\ \A i \in 1 .. n : new[i] = table[i]
    OBVIOUS
  <2> HIDE DEF new, n
  <2>3. OneRowEach(new)
    BY <1>0, <1>2, <2>2 DEF OneRowEach
  <2>4. ToSet(table) = {table[i] : i \in 1 .. n} /\ ToSet(new) = {new[i] : i \in 1 .. n + 1}
    BY <1>0, <2>2 DEF ToSet
  <2>5. \A x \in ToSet(table) : x.team # row.team
    BY <1>0, <1>2, <2>4
  <2>6. ToSet(new) = ToSet(table) \cup {row}
    BY <1>0, <2>2, <2>4
  <2> QED
    BY <2>1, <2>2, <2>3, <2>5, <2>6
<1> QED
  BY <1>1, <1>2

\* Reading a team gives its row, or one with no match.
LEMMA TallyRow ==
    ASSUME NEW Rows, NEW table \in Seq(Rows), OneRowEach(table), NEW competition, NEW team
    PROVE  /\ \A row \in ToSet(table) :
                row.team = team => Tally(table, competition, team) = row
           /\ (\A row \in ToSet(table) : row.team # team) =>
                Tally(table, competition, team) = ZeroRow(competition, team)
<1>1. ASSUME NEW row \in ToSet(table), row.team = team
      PROVE  Tally(table, competition, team) = row
  <2>1. {x \in ToSet(table) : x.team = team} = {row}
    BY <1>1 DEF ToSet, OneRowEach
  <2> QED
    BY <2>1 DEF Tally
<1>2. ASSUME \A row \in ToSet(table) : row.team # team
      PROVE  Tally(table, competition, team) = ZeroRow(competition, team)
  <2>1. {x \in ToSet(table) : x.team = team} = {}
    BY <1>2
  <2> QED
    BY <2>1 DEF Tally
<1> QED
  BY <1>1, <1>2

-----------------------------------------------------------------------------
(* compute_standings(): its loop.                                          *)

\* The recursive function that the loop over the first n results unfolds to.
IsLoop(competition, results, n, g) ==
    g = [T \in SUBSET (1 .. n) |->
            IF T = {} THEN <<>>
            ELSE LET x == Max(T) IN AddResult(competition, g[T \ {x}], results[x])]

\* The loop of compute_standings() over any list of results has a run: a function that
\* gives the rows after each number of turns.
LEMMA LoopExists ==
    ASSUME NEW competition, NEW results, NEW n \in Nat
    PROVE  \E g : IsLoop(competition, results, n, g)
<1> DEFINE S == {k \in Nat : \E g : IsLoop(competition, results, k, g)}
<1>1. 0 \in S
  <2> DEFINE g == [T \in SUBSET (1 .. 0) |-> <<>>]
  <2>1. IsLoop(competition, results, 0, g)
    BY 1 .. 0 = {} DEF IsLoop
  <2> QED
    BY <2>1
<1>2. ASSUME NEW k \in Nat, k \in S
      PROVE  k + 1 \in S
  <2>1. PICK g : IsLoop(competition, results, k, g)
    BY <1>2
  <2> DEFINE h == [T \in SUBSET (1 .. k + 1) |->
                     IF k + 1 \in T THEN AddResult(competition, g[T \ {k + 1}], results[k + 1]) ELSE g[T]]
  <2>2. ASSUME NEW T \in SUBSET (1 .. k + 1)
        PROVE  h[T] = IF T = {} THEN <<>>
                      ELSE LET x == Max(T) IN AddResult(competition, h[T \ {x}], results[x])
    <3>1. CASE k + 1 \in T
      <4>1. Max(T) = k + 1
        <5>1. T \subseteq Int /\ k + 1 \in T /\ \A y \in T : k + 1 >= y
          BY <3>1
        <5> QED
          BY <5>1, MaxIs, Zenon
      <4>2. h[T \ {k + 1}] = g[T \ {k + 1}]
        BY <3>1
      <4> QED
        BY <3>1, <4>1, <4>2
    <3>2. CASE k + 1 \notin T
      <4>1. T \in SUBSET (1 .. k)
        BY <3>2
      <4>2. h[T] = g[T]
        BY <3>2
      <4>3. \A x : h[T \ {x}] = g[T \ {x}]
        BY <3>2
      <4> HIDE DEF h
      <4>4. g[T] = IF T = {} THEN <<>>
                   ELSE LET x == Max(T) IN AddResult(competition, g[T \ {x}], results[x])
        BY <2>1, <4>1, Zenon DEF IsLoop
      <4> QED
        BY <4>2, <4>3, <4>4, Zenon
    <3> QED
      BY <3>1, <3>2
  <2>3. IsLoop(competition, results, k + 1, h)
    <3> DEFINE F(f) == [T \in SUBSET (1 .. k + 1) |->
            IF T = {} THEN <<>>
            ELSE LET x == Max(T) IN AddResult(competition, f[T \ {x}], results[x])]
    <3>1. DOMAIN h = SUBSET (1 .. k + 1) /\ h = [T \in SUBSET (1 .. k + 1) |-> h[T]]
      OBVIOUS
    <3> HIDE DEF h
    <3>2. h = F(h)
      BY <3>1, <2>2, Zenon
    <3> QED
      BY <3>2 DEF IsLoop
  <2> QED
    BY <2>3
<1> HIDE DEF S
<1>3. n \in S
  BY <1>1, <1>2, NatSetInduction
<1> QED
  BY <1>3 DEF S

\* A solution takes the results one at a time, in order.
LEMMA LoopSteps ==
    ASSUME NEW competition, NEW results, NEW n \in Nat, NEW g, IsLoop(competition, results, n, g)
    PROVE  /\ g[1 .. 0] = <<>>
           /\ \A k \in 1 .. n : g[1 .. k] = AddResult(competition, g[1 .. k - 1], results[k])
<1>0. \A T \in SUBSET (1 .. n) :
        g[T] = IF T = {} THEN <<>>
               ELSE LET x == Max(T) IN AddResult(competition, g[T \ {x}], results[x])
  BY Zenon DEF IsLoop
<1>1. g[1 .. 0] = <<>>
  <2>1. 1 .. 0 = {} /\ 1 .. 0 \in SUBSET (1 .. n)
    OBVIOUS
  <2> QED
    BY <2>1, <1>0, Zenon
<1>2. ASSUME NEW k \in 1 .. n
      PROVE  g[1 .. k] = AddResult(competition, g[1 .. k - 1], results[k])
  <2>1. 1 .. k # {} /\ 1 .. k \in SUBSET (1 .. n) /\ (1 .. k) \ {k} = 1 .. k - 1
    OBVIOUS
  <2>2. Max(1 .. k) = k
    <3>1. 1 .. k \subseteq Int /\ k \in 1 .. k /\ \A y \in 1 .. k : k >= y
      OBVIOUS
    <3> QED
      BY <3>1, MaxIs, Zenon
  <2> QED
    BY <2>1, <2>2, <1>0, Zenon
<1> QED
  BY <1>1, <1>2

\* compute_standings() is the value of a solution at all positions.
LEMMA StandingsIsLoop ==
    ASSUME NEW competition, NEW results, NEW n \in Nat, DOMAIN results = 1 .. n
    PROVE  \E g : IsLoop(competition, results, n, g) /\ ComputeStandings(competition, results) = g[1 .. n]
<1> DEFINE g == CHOOSE h : IsLoop(competition, results, n, h)
<1>1. ComputeStandings(competition, results) = g[1 .. n]
  BY DEF ComputeStandings, FoldLeft, MapThenFoldSet, IsLoop
<1>2. IsLoop(competition, results, n, g)
  BY LoopExists
<1> HIDE DEF g
<1> QED
  BY <1>1, <1>2

-----------------------------------------------------------------------------
(* compute_standings(): what it counts.                                    *)

\* The row of a team that the first n results add up to.
CountRow(competition, results, n, team) ==
    LET wins == Cardinality({i \in 1 .. n : Beats(results[i], team)})
    IN  [competition |-> competition, team |-> team,
         played |-> Cardinality({i \in 1 .. n : Plays(results[i], team)}),
         wins   |-> wins,
         losses |-> Cardinality({i \in 1 .. n : Loses(results[i], team)}),
         points |-> 3 * wins + Cardinality({i \in 1 .. n : Draws(results[i], team)})]

\* The teams of the first n results.
TeamsOf(results, n) == {results[i].home : i \in 1 .. n} \cup {results[i].away : i \in 1 .. n}

\* Results of matches between two different teams.
IsResults(results, n) ==
    \A i \in 1 .. n : /\ results[i].home # results[i].away
                      /\ results[i].score_home \in Int /\ results[i].score_away \in Int

\* A set of positions grows by at most the next one.
LEMMA CountNext ==
    ASSUME NEW n \in Nat, NEW S, S \subseteq 1 .. n + 1
    PROVE  /\ Cardinality(S) \in Nat
           /\ Cardinality(S \cap (1 .. n)) \in Nat
           /\ n + 1 \in S => Cardinality(S) = Cardinality(S \cap (1 .. n)) + 1
           /\ n + 1 \notin S => Cardinality(S) = Cardinality(S \cap (1 .. n))
<1> DEFINE before == S \cap (1 .. n)
<1>0. n + 1 \notin 1 .. n /\ \A i \in S : i \in 1 .. n \/ i = n + 1
  OBVIOUS
<1>1. IsFiniteSet(1 .. n) /\ IsFiniteSet(1 .. n + 1)
  BY FS_Interval
<1>2. IsFiniteSet(S) /\ IsFiniteSet(before)
  BY <1>1, FS_Subset
<1>3. Cardinality(S) \in Nat /\ Cardinality(before) \in Nat
  BY <1>2, FS_CardinalityType
<1>4. ASSUME n + 1 \in S
      PROVE  Cardinality(S) = Cardinality(before) + 1
  <2>1. S = before \cup {n + 1} /\ n + 1 \notin before
    BY <1>0, <1>4
  <2> QED
    BY <1>2, <2>1, FS_AddElement
<1>5. ASSUME n + 1 \notin S
      PROVE  S = before
  BY <1>0, <1>5
<1> QED
  BY <1>3, <1>4, <1>5

\* A row of the table, as a function of its fields.
RowFields == {"competition", "team", "played", "wins", "losses", "points"}
IsRow(row) == row = [field \in RowFields |-> row[field]]

\* Rows that agree in each field are equal.
LEMMA SameRow ==
    ASSUME NEW row1, NEW row2, IsRow(row1), IsRow(row2),
           row1.competition = row2.competition, row1.team = row2.team,
           row1.played = row2.played, row1.wins = row2.wins,
           row1.losses = row2.losses, row1.points = row2.points
    PROVE  row1 = row2
<1>1. \A field \in RowFields : row1[field] = row2[field]
  BY DEF RowFields
<1>2. [field \in RowFields |-> row1[field]] = [field \in RowFields |-> row2[field]]
  BY <1>1
<1> QED
  BY <1>2, Zenon DEF IsRow

\* The three ways a row changes.
LEMMA RowAfter ==
    ASSUME NEW row, IsRow(row)
    PROVE  /\ /\ IsRow(Won(row))
              /\ Won(row).competition = row.competition /\ Won(row).team = row.team
              /\ Won(row).played = row.played + 1 /\ Won(row).wins = row.wins + 1
              /\ Won(row).losses = row.losses /\ Won(row).points = row.points + 3
           /\ /\ IsRow(Lost(row))
              /\ Lost(row).competition = row.competition /\ Lost(row).team = row.team
              /\ Lost(row).played = row.played + 1 /\ Lost(row).wins = row.wins
              /\ Lost(row).losses = row.losses + 1 /\ Lost(row).points = row.points
           /\ /\ IsRow(Drew(row))
              /\ Drew(row).competition = row.competition /\ Drew(row).team = row.team
              /\ Drew(row).played = row.played + 1 /\ Drew(row).wins = row.wins
              /\ Drew(row).losses = row.losses /\ Drew(row).points = row.points + 1
<1>1. /\ IsRow(Won(row))
      /\ Won(row).competition = row.competition /\ Won(row).team = row.team
      /\ Won(row).played = row.played + 1 /\ Won(row).wins = row.wins + 1
      /\ Won(row).losses = row.losses /\ Won(row).points = row.points + 3
  BY DEF Won, IsRow, RowFields
<1>2. /\ IsRow(Lost(row))
      /\ Lost(row).competition = row.competition /\ Lost(row).team = row.team
      /\ Lost(row).played = row.played + 1 /\ Lost(row).wins = row.wins
      /\ Lost(row).losses = row.losses + 1 /\ Lost(row).points = row.points
  BY DEF Lost, IsRow, RowFields
<1>3. /\ IsRow(Drew(row))
      /\ Drew(row).competition = row.competition /\ Drew(row).team = row.team
      /\ Drew(row).played = row.played + 1 /\ Drew(row).wins = row.wins
      /\ Drew(row).losses = row.losses /\ Drew(row).points = row.points + 1
  BY DEF Drew, IsRow, RowFields
<1> QED
  BY <1>1, <1>2, <1>3

\* No result counts for a team twice: one of a match it plays in is a win, a
\* loss or a draw, and changes its row as the code does.
LEMMA CountRowNext ==
    ASSUME NEW competition, NEW results, NEW n \in Nat, NEW team,
           IsResults(results, n + 1)
    PROVE  LET old == CountRow(competition, results, n, team)
               new == CountRow(competition, results, n + 1, team)
               x == results[n + 1]
           IN  /\ Beats(x, team) => new = Won(old)
               /\ Loses(x, team) => new = Lost(old)
               /\ Draws(x, team) => new = Drew(old)
               /\ ~ Plays(x, team) => new = old
<1> DEFINE x == results[n + 1]
           P == {i \in 1 .. n + 1 : Plays(results[i], team)}
           W == {i \in 1 .. n + 1 : Beats(results[i], team)}
           L == {i \in 1 .. n + 1 : Loses(results[i], team)}
           D == {i \in 1 .. n + 1 : Draws(results[i], team)}
           C(S) == Cardinality(S)
           B(S) == Cardinality(S \cap (1 .. n))
<1>1. \A S \in {P, W, L, D} :
        /\ C(S) \in Nat /\ B(S) \in Nat
        /\ n + 1 \in S => C(S) = B(S) + 1
        /\ n + 1 \notin S => C(S) = B(S)
  <2> SUFFICES ASSUME NEW S \in {P, W, L, D}
               PROVE  /\ C(S) \in Nat /\ B(S) \in Nat
                      /\ n + 1 \in S => C(S) = B(S) + 1
                      /\ n + 1 \notin S => C(S) = B(S)
    OBVIOUS
  <2>1. S \subseteq 1 .. n + 1
    OBVIOUS
  <2> QED
    BY <2>1, CountNext
<1>2. /\ P \cap (1 .. n) = {i \in 1 .. n : Plays(results[i], team)}
      /\ W \cap (1 .. n) = {i \in 1 .. n : Beats(results[i], team)}
      /\ L \cap (1 .. n) = {i \in 1 .. n : Loses(results[i], team)}
      /\ D \cap (1 .. n) = {i \in 1 .. n : Draws(results[i], team)}
  OBVIOUS
<1>3. /\ n + 1 \in P <=> Plays(x, team)
      /\ n + 1 \in W <=> Beats(x, team)
      /\ n + 1 \in L <=> Loses(x, team)
      /\ n + 1 \in D <=> Draws(x, team)
  OBVIOUS
<1>4. /\ x.home # x.away /\ x.score_home \in Int /\ x.score_away \in Int
  BY DEF IsResults
<1> DEFINE old == CountRow(competition, results, n, team)
           new == CountRow(competition, results, n + 1, team)
<1>5. /\ IsRow(old) /\ old.competition = competition /\ old.team = team
      /\ old.played = B(P) /\ old.wins = B(W) /\ old.losses = B(L)
      /\ old.points = 3 * B(W) + B(D)
  BY <1>2 DEF CountRow, IsRow, RowFields
<1>6. /\ IsRow(new) /\ new.competition = competition /\ new.team = team
      /\ new.played = C(P) /\ new.wins = C(W) /\ new.losses = C(L)
      /\ new.points = 3 * C(W) + C(D)
  BY DEF CountRow, IsRow, RowFields
<1>7. /\ C(P) \in Nat /\ C(W) \in Nat /\ C(L) \in Nat /\ C(D) \in Nat
      /\ B(P) \in Nat /\ B(W) \in Nat /\ B(L) \in Nat /\ B(D) \in Nat
      /\ C(P) = IF Plays(x, team) THEN B(P) + 1 ELSE B(P)
      /\ C(W) = IF Beats(x, team) THEN B(W) + 1 ELSE B(W)
      /\ C(L) = IF Loses(x, team) THEN B(L) + 1 ELSE B(L)
      /\ C(D) = IF Draws(x, team) THEN B(D) + 1 ELSE B(D)
  <2> HIDE DEF P, W, L, D, C, B, x
  <2> QED
    BY <1>1, <1>3
<1> HIDE DEF P, W, L, D, C, B, old, new, x
<1>8. /\ Beats(x, team) => Plays(x, team) /\ ~ Loses(x, team) /\ ~ Draws(x, team)
      /\ Loses(x, team) => Plays(x, team) /\ ~ Beats(x, team) /\ ~ Draws(x, team)
      /\ Draws(x, team) => Plays(x, team) /\ ~ Beats(x, team) /\ ~ Loses(x, team)
      /\ ~ Plays(x, team) => ~ Beats(x, team) /\ ~ Loses(x, team) /\ ~ Draws(x, team)
  BY <1>4 DEF Plays, Beats, Loses, Draws
<1>10. 3 * (B(W) + 1) + B(D) = (3 * B(W) + B(D)) + 3 /\ 3 * B(W) + (B(D) + 1) = (3 * B(W) + B(D)) + 1
  BY <1>7
<1>9. ASSUME Beats(x, team) PROVE new = Won(old)
  <2>1. new.points = old.points + 3
    BY <1>5, <1>6, <1>7, <1>8, <1>9, <1>10
  <2> QED
    BY <1>5, <1>6, <1>7, <1>8, <1>9, <2>1, RowAfter, SameRow
<1>11. ASSUME Loses(x, team) PROVE new = Lost(old)
  BY <1>5, <1>6, <1>7, <1>8, <1>11, RowAfter, SameRow
<1>12. ASSUME Draws(x, team) PROVE new = Drew(old)
  <2>1. new.points = old.points + 1
    BY <1>5, <1>6, <1>7, <1>8, <1>12, <1>10
  <2> QED
    BY <1>5, <1>6, <1>7, <1>8, <1>12, <2>1, RowAfter, SameRow
<1>13. ASSUME ~ Plays(x, team) PROVE new = old
  BY <1>5, <1>6, <1>7, <1>8, <1>13, SameRow
<1> QED
  BY <1>9, <1>11, <1>12, <1>13 DEF old, new, x

\* A team that has not played has the empty row.
LEMMA CountRowNone ==
    ASSUME NEW competition, NEW results, NEW n \in Nat, NEW team,
           team \notin TeamsOf(results, n)
    PROVE  CountRow(competition, results, n, team) = ZeroRow(competition, team)
<1>1. \A i \in 1 .. n : ~ Plays(results[i], team)
  BY DEF TeamsOf, Plays
<1>2. /\ {i \in 1 .. n : Plays(results[i], team)} = {}
      /\ {i \in 1 .. n : Beats(results[i], team)} = {}
      /\ {i \in 1 .. n : Loses(results[i], team)} = {}
      /\ {i \in 1 .. n : Draws(results[i], team)} = {}
  BY <1>1 DEF Plays, Beats, Loses, Draws
<1>3. Cardinality({}) = 0 /\ 3 * 0 + 0 = 0
  BY FS_EmptySet
<1> QED
  BY <1>2, <1>3, Zenon DEF CountRow, ZeroRow

\* Both rows of a match are written.
LEMMA PutBoth ==
    ASSUME NEW Rows, NEW table \in Seq(Rows), OneRowEach(table),
           NEW home \in Rows, NEW away \in Rows, home.team # away.team
    PROVE  LET new == Put(Put(table, home), away)
           IN  /\ new \in Seq(Rows) /\ OneRowEach(new)
               /\ ToSet(new) = {x \in ToSet(table) : x.team \notin {home.team, away.team}}
                                 \cup {home, away}
<1>1. /\ Put(table, home) \in Seq(Rows) /\ OneRowEach(Put(table, home))
      /\ ToSet(Put(table, home)) = {x \in ToSet(table) : x.team # home.team} \cup {home}
  BY PutRow
<1> DEFINE first == Put(table, home)
           new == Put(first, away)
<1>2. first \in Seq(Rows) /\ OneRowEach(first)
  BY <1>1
<1> HIDE DEF first
<1>3. /\ new \in Seq(Rows) /\ OneRowEach(new)
      /\ ToSet(new) = {x \in ToSet(first) : x.team # away.team} \cup {away}
  BY <1>2, PutRow
<1>4. ToSet(first) = {x \in ToSet(table) : x.team # home.team} \cup {home}
  BY <1>1 DEF first
<1>5. ToSet(new) = {x \in ToSet(table) : x.team \notin {home.team, away.team}} \cup {home, away}
  <2> DEFINE old == ToSet(table)
  <2> HIDE DEF old, new
  <2> QED
    BY <1>3, <1>4 DEF old
<1> QED
  BY <1>3, <1>5 DEF first

\* What the table is after the first k results.
Counted(competition, results, k, table) ==
    /\ OneRowEach(table)
    /\ ToSet(table) = {CountRow(competition, results, k, team) : team \in TeamsOf(results, k)}

\* One pass of the loop keeps the table the count of what it has read.
LEMMA AddResultCounts ==
    ASSUME NEW competition, NEW results, NEW n \in Nat, IsResults(results, n + 1),
           NEW Rows, NEW table \in Seq(Rows), Counted(competition, results, n, table),
           \A team \in TeamsOf(results, n + 1) : CountRow(competition, results, n + 1, team) \in Rows
    PROVE  LET new == AddResult(competition, table, results[n + 1])
           IN  new \in Seq(Rows) /\ Counted(competition, results, n + 1, new)
<1> DEFINE x == results[n + 1]
           Old(team) == CountRow(competition, results, n, team)
           New(team) == CountRow(competition, results, n + 1, team)
           new == AddResult(competition, table, x)
<1>0. /\ n + 1 \in 1 .. n + 1
      /\ x.home # x.away /\ x.score_home \in Int /\ x.score_away \in Int
  <2>1. n + 1 \in 1 .. n + 1
    OBVIOUS
  <2> QED
    BY <2>1 DEF IsResults
<1>1. \A team : Old(team).team = team /\ New(team).team = team
  BY DEF CountRow
<1>2. TeamsOf(results, n + 1) = TeamsOf(results, n) \cup {x.home, x.away}
  <2>1. n + 1 \in 1 .. n + 1 /\ 1 .. n \subseteq 1 .. n + 1 /\ \A i \in 1 .. n + 1 : i \in 1 .. n \/ i = n + 1
    OBVIOUS
  <2> QED
    BY <2>1 DEF TeamsOf
<1>3. ASSUME NEW team PROVE Tally(table, competition, team) = Old(team)
  <2>1. CASE team \in TeamsOf(results, n)
    <3>1. Old(team) \in ToSet(table) /\ Old(team).team = team
      BY <1>1, <2>1 DEF Counted
    <3> HIDE DEF Old
    <3> QED
      BY <3>1, TallyRow DEF Counted
  <2>2. CASE team \notin TeamsOf(results, n)
    <3>1. \A row \in ToSet(table) : row.team # team
      BY <1>1, <2>2 DEF Counted
    <3>2. Tally(table, competition, team) = ZeroRow(competition, team)
      BY <3>1, TallyRow DEF Counted
    <3> QED
      BY <2>2, <3>2, CountRowNone
  <2> QED
    BY <2>1, <2>2
<1>4. /\ x.score_home > x.score_away => New(x.home) = Won(Old(x.home)) /\ New(x.away) = Lost(Old(x.away))
      /\ x.score_home < x.score_away => New(x.home) = Lost(Old(x.home)) /\ New(x.away) = Won(Old(x.away))
      /\ x.score_home = x.score_away => New(x.home) = Drew(Old(x.home)) /\ New(x.away) = Drew(Old(x.away))
  <2>1. /\ x.score_home > x.score_away => Beats(x, x.home) /\ Loses(x, x.away)
        /\ x.score_home < x.score_away => Loses(x, x.home) /\ Beats(x, x.away)
        /\ x.score_home = x.score_away => Draws(x, x.home) /\ Draws(x, x.away)
    <3> HIDE DEF x
    <3> QED
      BY <1>0 DEF Beats, Loses, Draws, Plays
  <2>2. \A team : /\ Beats(x, team) => New(team) = Won(Old(team))
                  /\ Loses(x, team) => New(team) = Lost(Old(team))
                  /\ Draws(x, team) => New(team) = Drew(Old(team))
    BY CountRowNext
  <2> HIDE DEF x, New, Old
  <2> QED
    BY <2>1, <2>2
<1>5. new = Put(Put(table, New(x.home)), New(x.away))
  <2> HIDE DEF x, Old, New
  <2>1. Tally(table, competition, x.home) = Old(x.home) /\ Tally(table, competition, x.away) = Old(x.away)
    BY <1>3
  <2>2. CASE x.score_home > x.score_away
    BY <1>0, <1>4, <2>1, <2>2 DEF AddResult
  <2>3. CASE x.score_home < x.score_away
    BY <1>0, <1>4, <2>1, <2>3 DEF AddResult
  <2>4. CASE x.score_home = x.score_away
    BY <1>0, <1>4, <2>1, <2>4 DEF AddResult
  <2> QED
    BY <1>0, <2>2, <2>3, <2>4
<1>6. \A team : team \notin {x.home, x.away} => New(team) = Old(team)
  <2>1. \A team : ~ Plays(x, team) => New(team) = Old(team)
    BY CountRowNext
  <2> HIDE DEF x, New, Old
  <2> QED
    BY <2>1 DEF Plays
<1> DEFINE home == New(x.home)
           away == New(x.away)
<1>7. home \in Rows /\ away \in Rows /\ home.team = x.home /\ away.team = x.away
  BY <1>1, <1>2
<1> HIDE DEF x, Old, New, home, away, new
<1>8. OneRowEach(table) /\ ToSet(table) = {Old(team) : team \in TeamsOf(results, n)}
  BY DEF Counted, Old
<1>9. /\ new \in Seq(Rows) /\ OneRowEach(new)
      /\ ToSet(new) = {y \in ToSet(table) : y.team \notin {x.home, x.away}} \cup {home, away}
  BY <1>0, <1>5, <1>7, <1>8, PutBoth DEF home, away
<1>10. ToSet(new) = {New(team) : team \in TeamsOf(results, n + 1)}
  BY <1>1, <1>2, <1>6, <1>8, <1>9 DEF home, away
<1> QED
  BY <1>9, <1>10 DEF Counted, New, new, x

\* The rows that the loop writes.
RowsWritten(competition, results, n) ==
    {CountRow(competition, results, k, team) : k \in 0 .. n, team \in TeamsOf(results, n)}

\* compute_standings() returns one row for each team that has a result, and the
\* row counts all of its results, whichever side the team played on.
LEMMA StandingsCount ==
    ASSUME NEW competition, NEW results, NEW n \in Nat, DOMAIN results = 1 .. n,
           IsResults(results, n)
    PROVE  /\ ComputeStandings(competition, results) \in Seq(RowsWritten(competition, results, n))
           /\ Counted(competition, results, n, ComputeStandings(competition, results))
<1> DEFINE Rows == RowsWritten(competition, results, n)
<1>1. PICK g : IsLoop(competition, results, n, g)
                 /\ ComputeStandings(competition, results) = g[1 .. n]
  BY StandingsIsLoop
<1>2. g[1 .. 0] = <<>> /\ \A k \in 1 .. n : g[1 .. k] = AddResult(competition, g[1 .. k - 1], results[k])
  BY <1>1, LoopSteps
<1> DEFINE S == {k \in Nat : k <= n => g[1 .. k] \in Seq(Rows)
                                       /\ Counted(competition, results, k, g[1 .. k])}
<1>3. 0 \in S
  <2>1. <<>> \in Seq(Rows) /\ OneRowEach(<<>>) /\ ToSet(<<>>) = {}
    BY DEF OneRowEach, ToSet
  <2>2. TeamsOf(results, 0) = {}
    BY 1 .. 0 = {} DEF TeamsOf
  <2>3. {CountRow(competition, results, 0, team) : team \in TeamsOf(results, 0)} = {}
    BY <2>2
  <2> HIDE DEF Rows
  <2> QED
    BY <1>2, <2>1, <2>3, 0 \in Nat, Zenon DEF Counted
<1>4. ASSUME NEW k \in Nat, k \in S
      PROVE  k + 1 \in S
  <2> SUFFICES ASSUME k + 1 <= n
               PROVE  /\ g[1 .. k + 1] \in Seq(Rows)
                      /\ Counted(competition, results, k + 1, g[1 .. k + 1])
    OBVIOUS
  <2>1. /\ k + 1 \in 1 .. n /\ (k + 1) - 1 = k /\ k + 1 \in 0 .. n
        /\ \A i \in 1 .. k + 1 : i \in 1 .. n
    OBVIOUS
  <2>2. g[1 .. k + 1] = AddResult(competition, g[1 .. k], results[k + 1])
    BY <1>2, <2>1
  <2>3. g[1 .. k] \in Seq(Rows) /\ Counted(competition, results, k, g[1 .. k])
    BY <1>4, <2>1
  <2>4. IsResults(results, k + 1)
    BY <2>1 DEF IsResults
  <2>5. TeamsOf(results, k + 1) \subseteq TeamsOf(results, n)
    BY <2>1 DEF TeamsOf
  <2>6. \A team \in TeamsOf(results, k + 1) : CountRow(competition, results, k + 1, team) \in Rows
    BY <2>1, <2>5 DEF RowsWritten
  <2> HIDE DEF Rows
  <2> QED
    BY <2>2, <2>3, <2>4, <2>6, AddResultCounts
<1> HIDE DEF S
<1>5. n \in S
  BY <1>3, <1>4, NatSetInduction
<1> QED
  BY <1>1, <1>5 DEF S

(***************************************************************************)
(* The query has no ORDER BY: its results come as a set, in any order.     *)
(***************************************************************************)

\* An order of a finite set has each of its elements once.
LEMMA OrderOfSet ==
    ASSUME NEW S, IsFiniteSet(S), NEW s \in SetToSeqs(S)
    PROVE  /\ Cardinality(S) \in Nat
           /\ DOMAIN s = 1 .. Cardinality(S)
           /\ S = {s[i] : i \in 1 .. Cardinality(S)}
           /\ \A i, j \in 1 .. Cardinality(S) : s[i] = s[j] => i = j
<1> DEFINE n == Cardinality(S)
           D == 1 .. n
<1>1. n \in Nat
  BY FS_CardinalityType
<1>2. s \in [D -> S] /\ \A i, j \in D : i # j => s[i] # s[j]
  BY DEF SetToSeqs
<1>3. IsFiniteSet(D) /\ Cardinality(D) = n
  <2>1. n - 1 + 1 = n
    BY <1>1
  <2> HIDE DEF n
  <2> QED
    BY <1>1, <2>1, FS_Interval
<1>4. s \in Injection(D, S)
  BY <1>2 DEF Injection, IsInjective
<1>5. s \in Surjection(D, S)
  BY <1>3, <1>4, FS_Injection
<1> HIDE DEF D
<1>6. S = {s[i] : i \in D}
  BY <1>2, <1>5 DEF Surjection
<1> QED
  BY <1>1, <1>2, <1>6 DEF D

\* So positions count as elements do.
LEMMA CountOfSet ==
    ASSUME NEW S, IsFiniteSet(S), NEW s \in SetToSeqs(S), NEW T, T \subseteq S
    PROVE  Cardinality({i \in 1 .. Cardinality(S) : s[i] \in T}) = Cardinality(T)
<1> DEFINE n == Cardinality(S)
           P == {i \in 1 .. n : s[i] \in T}
           f == [i \in P |-> s[i]]
<1>1. /\ n \in Nat /\ S = {s[i] : i \in 1 .. n}
      /\ \A i, j \in 1 .. n : s[i] = s[j] => i = j
  BY OrderOfSet
<1>2. IsFiniteSet(P)
  <2>1. IsFiniteSet(1 .. n)
    BY FS_Interval, <1>1
  <2> QED
    BY <2>1, FS_Subset
<1>3. f \in [P -> T]
  OBVIOUS
<1> HIDE DEF n
<1>4. f \in Injection(P, T)
  BY <1>1, <1>3 DEF Injection, IsInjective
<1>5. f \in Surjection(P, T)
  <2>1. \A x \in T : \E i \in P : f[i] = x
    BY <1>1
  <2> QED
    BY <1>3, <2>1 DEF Surjection
<1> HIDE DEF P, f
<1>6. f \in Bijection(P, T)
  BY <1>4, <1>5 DEF Bijection
<1>8. ExistsBijection(P, T)
  BY <1>6 DEF ExistsBijection
<1>7. Cardinality(P) = Cardinality(T)
  BY <1>2, <1>8, FS_Bijection
<1> QED
  BY <1>7 DEF P, n
=============================================================================
