-------------------------- MODULE RateLimiterProofs --------------------------
(***************************************************************************)
(* Proofs about the rate limiter, for every limit, window and set of keys: *)
(* the attempts that the deques have dropped are stale, so attempts that   *)
(* are MaxAttempts apart in what was allowed are a window apart in time.   *)
(***************************************************************************)
EXTENDS RateLimiter, FiniteSetTheorems, SequenceTheorems, WellFoundedInduction, TLAPS

-----------------------------------------------------------------------------
(* The inductive invariant.                                                *)

Times == 0 .. MaxTime

LimiterTypes ==
    /\ now \in Times
    /\ hits \in [Keys -> Seq(Times)]
    /\ granted \in [Keys -> Seq(Times)]

\* The allowed attempts of a key, given its deque: they ascend, the deque is the end of
\* them, what it has dropped is stale, and the limit holds.
Accounted(all, deque, time) ==
    LET dropped == Len(all) - Len(deque)
    IN  /\ dropped \in Nat
        /\ \A i \in 1 .. Len(deque) : deque[i] = all[dropped + i]
        /\ \A i \in 1 .. dropped : all[i] <= time - Window
        /\ \A i, j \in 1 .. Len(all) : i <= j => all[i] <= all[j]
        /\ \A i \in 1 .. Len(all) : all[i] <= time
        /\ \A i, j \in 1 .. Len(all) : j - i >= MaxAttempts => all[j] - all[i] >= Window

LimiterInv ==
    LimiterTypes /\ \A key \in Keys : Accounted(granted[key], hits[key], now)

-----------------------------------------------------------------------------
(* allow().                                                                *)

\* The least element of a set of positions.
LEMMA LeastPosition ==
  ASSUME NEW T, T \subseteq Nat, T # {}
  PROVE  \E x \in T : \A y \in T : x <= y
<1> DEFINE R == OpToRel(<, Nat)
<1>1. \E x \in T : \A y \in T : ~ (<<y, x>> \in R)
  <2>1. IsWellFoundedOn(R, Nat)
    BY NatLessThanWellFounded
  <2> HIDE DEF R
  <2> QED
    BY <2>1, WFMin
<1>2. \A x, y \in Nat : <<y, x>> \in R <=> y < x
  BY DEF OpToRel
<1>3. \E x \in T : \A y \in T : ~ (y < x)
  <2> HIDE DEF R
  <2> QED
    BY <1>1, <1>2, Zenon
<1> QED
  BY <1>3

\* Pruning drops stale attempts and leaves none.
LEMMA PrunedIs ==
  ASSUME LimiterInv, NEW key \in Keys
  PROVE  /\ Pruned(key) \in Seq(Times)
         /\ Accounted(granted[key], Pruned(key), now)
         /\ \A i \in 1 .. Len(Pruned(key)) : ~ Stale(Pruned(key)[i])
<1> USE LimiterAssumption
<1> DEFINE h == hits[key]
           g == granted[key]
           fresh == {i \in DOMAIN h : ~ Stale(h[i])}
           k == Len(g) - Len(h)
<1>1. /\ h \in Seq(Times) /\ g \in Seq(Times) /\ now \in Int /\ Window \in Int
      /\ DOMAIN h = 1 .. Len(h) /\ Len(h) \in Nat /\ Len(g) \in Nat
      /\ k \in Nat
      /\ \A i \in 1 .. Len(h) : h[i] \in Int /\ h[i] = g[k + i]
      /\ \A i \in 1 .. Len(g) : g[i] \in Int
      /\ \A i \in 1 .. k : g[i] <= now - Window
      /\ \A i, j \in 1 .. Len(g) : i <= j => g[i] <= g[j]
      /\ k = Len(g) - Len(h)
  BY LenProperties, ElementOfSeq DEF LimiterInv, LimiterTypes, Times, Accounted
<1>a. Accounted(g, h, now)
  BY DEF LimiterInv
<1>b. Pruned(key) = IF fresh = {} THEN <<>> ELSE SubSeq(h, Min(fresh), Len(h))
  BY DEF Pruned
<1>c. \A i : i \in fresh <=> i \in 1 .. Len(h) /\ ~ Stale(h[i])
  BY <1>1
<1> SUFFICES /\ Pruned(key) \in Seq(Times)
             /\ Accounted(g, Pruned(key), now)
             /\ \A i \in 1 .. Len(Pruned(key)) : ~ Stale(Pruned(key)[i])
  OBVIOUS
<1> HIDE DEF h, g, fresh, k
<1>2. CASE fresh = {}
  <2>1. Pruned(key) = <<>>
    BY <1>2, <1>b
  <2>2. \A i \in 1 .. Len(g) : g[i] <= now - Window
    <3> SUFFICES ASSUME NEW i \in 1 .. Len(g), i > k PROVE g[i] <= now - Window
      BY <1>1
    <3>1. i - k \in 1 .. Len(h) /\ k + (i - k) = i
      BY <1>1
    <3>2. Stale(h[i - k]) /\ h[i - k] = g[i]
      BY <1>1, <1>2, <1>c, <3>1
    <3> QED
      BY <3>2 DEF Stale
  <2>3. <<>> \in Seq(Times) /\ Len(<<>>) = 0
    OBVIOUS
  <2>4. Accounted(g, <<>>, now)
    <3>1. Len(g) - Len(<<>>) = Len(g)
      BY <1>1, <2>3
    <3> QED
      BY <1>1, <1>a, <2>2, <2>3, <3>1 DEF Accounted
  <2> QED
    BY <2>1, <2>3, <2>4
<1>3. CASE fresh # {}
  <2> DEFINE m == Min(fresh)
             p == SubSeq(h, m, Len(h))
             d == Len(g) - Len(p)
  <2>1. Pruned(key) = p
    BY <1>3, <1>b
  <2>2. m \in fresh /\ \A i \in fresh : m <= i
    <3>1. fresh \subseteq Nat
      BY <1>c
    <3>2. \E i \in fresh : \A j \in fresh : i <= j
      BY <1>3, <3>1, LeastPosition
    <3> QED
      BY <3>2, Zenon DEF Min
  <2>3. m \in 1 .. Len(h) /\ m \in Nat /\ ~ Stale(h[m])
    <3> HIDE DEF m
    <3> QED
      BY <2>2, <1>c, <1>1
  <2> HIDE DEF m
  <2>4. /\ p \in Seq(Times) /\ Len(p) = Len(h) - m + 1
        /\ \A i \in 1 .. Len(p) : p[i] = h[m + i - 1]
    <3>1. \A i \in m .. Len(h) : h[i] \in Times
      BY <1>1, <2>3, ElementOfSeq
    <3> QED
      BY <1>1, <2>3, <3>1, SubSeqProperties
  <2> HIDE DEF p
  <2>5. d = k + m - 1 /\ d \in Nat
    BY <1>1, <2>3, <2>4
  <2>6. ASSUME NEW i \in 1 .. Len(p) PROVE p[i] = g[d + i] /\ ~ Stale(p[i])
    <3> DEFINE n == m + i - 1
    <3>1. n \in 1 .. Len(h) /\ n >= m /\ k + n = d + i /\ k + n \in 1 .. Len(g)
          /\ k + m \in 1 .. Len(g) /\ k + m <= k + n
      BY <1>1, <2>3, <2>4, <2>5
    <3>2. p[i] = h[n] /\ h[n] = g[k + n] /\ h[m] = g[k + m]
      BY <1>1, <2>3, <2>4, <3>1
    <3> HIDE DEF n, d
    <3>3. g[k + m] <= g[k + n] /\ g[k + m] \in Int /\ g[k + n] \in Int
      BY <1>1, <3>1
    <3> QED
      BY <1>1, <2>3, <3>1, <3>2, <3>3 DEF Stale
  <2>7. ASSUME NEW i \in 1 .. d PROVE g[i] <= now - Window
    <3>1. CASE i <= k
      BY <1>1, <2>5, <3>1
    <3>2. CASE i > k
      <4> DEFINE n == i - k
      <4>1. n \in 1 .. Len(h) /\ n < m /\ k + n = i
        BY <1>1, <2>3, <2>5, <3>2
      <4> HIDE DEF n
      <4>2. n \notin fresh
        BY <2>2, <2>3, <4>1
      <4>3. Stale(h[n]) /\ h[n] = g[i]
        BY <1>1, <1>c, <4>1, <4>2
      <4> QED
        BY <4>3 DEF Stale
    <3> QED
      BY <3>1, <3>2, <1>1
  <2>8. Accounted(g, p, now)
    BY <1>a, <2>5, <2>6, <2>7 DEF Accounted
  <2> QED
    BY <2>1, <2>4, <2>6, <2>8
<1> QED
  BY <1>2, <1>3

\* An attempt that is allowed when fewer than MaxAttempts are left in the deque comes a
\* window after the one that is MaxAttempts before it: that one has been dropped.
LEMMA RecordedIs ==
  ASSUME NEW all \in Seq(Times), NEW deque \in Seq(Times), NEW time \in Times,
         Accounted(all, deque, time), Len(deque) < MaxAttempts
  PROVE  Accounted(Append(all, time), Append(deque, time), time)
<1> USE LimiterAssumption
<1> DEFINE a == Append(all, time)
           d == Append(deque, time)
           n == Len(all)
           l == Len(deque)
<1>1. /\ n \in Nat /\ l \in Nat /\ n - l \in Nat /\ l < MaxAttempts /\ time \in Int
      /\ \A i \in 1 .. l : deque[i] = all[(n - l) + i]
      /\ \A i \in 1 .. n - l : all[i] <= time - Window
      /\ \A i, j \in 1 .. n : i <= j => all[i] <= all[j]
      /\ \A i \in 1 .. n : all[i] <= time /\ all[i] \in Int
      /\ \A i, j \in 1 .. n : j - i >= MaxAttempts => all[j] - all[i] >= Window
  BY LenProperties, ElementOfSeq DEF Accounted, Times
<1>2. /\ Len(a) = n + 1 /\ a[n + 1] = time /\ \A i \in 1 .. n : a[i] = all[i]
      /\ Len(d) = l + 1 /\ d[l + 1] = time /\ \A i \in 1 .. l : d[i] = deque[i]
  BY AppendProperties
<1> SUFFICES Accounted(a, d, time)
  OBVIOUS
<1> HIDE DEF a, d, n, l
<1>3. Len(a) - Len(d) = n - l
  BY <1>1, <1>2
<1>4. \A i \in 1 .. l + 1 : d[i] = a[(n - l) + i]
  BY <1>1, <1>2
<1>5. \A i, j \in 1 .. n + 1 : i <= j => a[i] <= a[j]
  BY <1>1, <1>2
<1>6. \A i \in 1 .. n - l : a[i] <= time - Window
  BY <1>1, <1>2
<1>7. \A i \in 1 .. n + 1 : a[i] <= time
  BY <1>1, <1>2
<1>8. \A i, j \in 1 .. n + 1 : j - i >= MaxAttempts => a[j] - a[i] >= Window
  <2> SUFFICES ASSUME NEW i \in 1 .. n + 1, NEW j \in 1 .. n + 1, j - i >= MaxAttempts
               PROVE  a[j] - a[i] >= Window
    OBVIOUS
  <2>1. CASE j \in 1 .. n
    BY <1>1, <1>2, <2>1
  <2>2. CASE j = n + 1
    <3>1. i \in 1 .. n - l /\ i \in 1 .. n
      BY <1>1, <2>2
    <3>2. a[i] = all[i] /\ a[j] = time /\ all[i] <= time - Window /\ all[i] \in Int
      BY <1>1, <1>2, <2>2, <3>1
    <3> QED
      BY <1>1, <3>2
  <2> QED
    BY <2>1, <2>2, <1>1
<1> QED
  BY <1>1, <1>2, <1>3, <1>4, <1>5, <1>6, <1>7, <1>8 DEF Accounted

-----------------------------------------------------------------------------
(* Steps.                                                                  *)

\* The deques start empty, and are empty after a restart.
LEMMA NothingRecorded ==
  /\ NoHits \in [Keys -> Seq(Times)]
  /\ \A time \in Times, key \in Keys : Accounted(NoHits[key], NoHits[key], time)
<1>1. <<>> \in Seq(Times) /\ Len(<<>>) = 0
  OBVIOUS
<1> QED
  BY <1>1 DEF NoHits, Accounted

\* A request, whichever keys it asks for.
LEMMA AllowStep ==
  ASSUME LimiterInv, NEW keys, Allow(keys)
  PROVE  LimiterInv'
<1>1. now' = now /\ now \in Times
  BY DEF Allow, LimiterInv, LimiterTypes
<1>2. ASSUME NEW key \in Keys
      PROVE  /\ hits'[key] \in Seq(Times) /\ granted'[key] \in Seq(Times)
             /\ Accounted(granted'[key], hits'[key], now)
  <2>1. /\ hits[key] \in Seq(Times) /\ granted[key] \in Seq(Times)
        /\ Accounted(granted[key], hits[key], now)
    BY DEF LimiterInv, LimiterTypes
  <2>2. Pruned(key) \in Seq(Times) /\ Accounted(granted[key], Pruned(key), now)
    BY PrunedIs
  <2>3. CASE key \notin keys
    BY <2>1, <2>3 DEF Allow
  <2>4. CASE key \in keys /\ ~ Room(key)
    <3>1. hits'[key] = Pruned(key) /\ granted'[key] = granted[key]
      BY <2>4 DEF Allow, Recorded
    <3> QED
      BY <2>1, <2>2, <3>1
  <2>5. CASE key \in keys /\ Room(key)
    <3>1. /\ hits'[key] = Append(Pruned(key), now)
          /\ granted'[key] = Append(granted[key], now)
          /\ Len(Pruned(key)) < MaxAttempts
      BY <2>5 DEF Allow, Recorded, Room
    <3>2. Append(Pruned(key), now) \in Seq(Times) /\ Append(granted[key], now) \in Seq(Times)
      BY <1>1, <2>1, <2>2, AppendProperties
    <3> QED
      BY <1>1, <2>1, <2>2, <3>1, <3>2, RecordedIs
  <2> QED
    BY <2>3, <2>4, <2>5
<1>3. hits' \in [Keys -> Seq(Times)] /\ granted' \in [Keys -> Seq(Times)]
  BY <1>2 DEF Allow
<1> QED
  BY <1>1, <1>2, <1>3 DEF LimiterInv, LimiterTypes

\* What is stale stays stale.
LEMMA TickStep == LimiterInv /\ Tick => LimiterInv'
<1> SUFFICES ASSUME LimiterInv, Tick PROVE LimiterInv'
  OBVIOUS
<1> USE LimiterAssumption
<1>1. now' = now + 1 /\ now' \in Times /\ now \in Int /\ hits' = hits /\ granted' = granted
  BY DEF Tick, LimiterInv, LimiterTypes, Times
<1>2. ASSUME NEW key \in Keys PROVE Accounted(granted[key], hits[key], now + 1)
  <2> DEFINE g == granted[key]
             h == hits[key]
  <2>1. \A i \in 1 .. Len(g) : g[i] \in Int
    BY ElementOfSeq DEF LimiterInv, LimiterTypes, Times
  <2>2. Accounted(g, h, now) /\ Len(g) \in Nat /\ Len(h) \in Nat
    BY LenProperties DEF LimiterInv, LimiterTypes
  <2> SUFFICES Accounted(g, h, now + 1)
    OBVIOUS
  <2> HIDE DEF g, h
  <2> QED
    BY <1>1, <2>1, <2>2 DEF Accounted
<1> QED
  BY <1>1, <1>2 DEF LimiterInv, LimiterTypes

\* LimiterInv holds throughout.
THEOREM LimiterInvariant == Spec => []LimiterInv
<1>1. Init => LimiterInv
  <2> SUFFICES ASSUME Init PROVE LimiterInv
    OBVIOUS
  <2>1. now = 0 /\ 0 \in Times /\ hits = NoHits /\ granted = NoHits
    BY LimiterAssumption DEF Init, Times
  <2> QED
    BY <2>1, NothingRecorded DEF LimiterInv, LimiterTypes
<1>2. LimiterInv /\ [Next]_vars => LimiterInv'
  <2> SUFFICES ASSUME LimiterInv, [Next]_vars PROVE LimiterInv'
    OBVIOUS
  <2>1. CASE \E keys : Allow(keys)
    BY <2>1, AllowStep
  <2>2. CASE Tick
    BY <2>2, TickStep
  <2>3. CASE Restart
    <3>1. now' = now /\ now \in Times /\ hits' = NoHits /\ granted' = NoHits
      BY <2>3 DEF Restart, LimiterInv, LimiterTypes
    <3> QED
      BY <3>1, NothingRecorded DEF LimiterInv, LimiterTypes
  <2>4. CASE UNCHANGED vars
    BY <2>4 DEF vars, LimiterInv, LimiterTypes
  <2> QED
    BY <2>1, <2>2, <2>3, <2>4 DEF Next, FromAddress, Login
<1> QED
  BY <1>1, <1>2, PTL DEF Spec

-----------------------------------------------------------------------------
(* What follows.                                                           *)

\* No window holds more allowed attempts of a key than the limit, and a key that has had
\* less in the window that ends now has room.
THEOREM WithinTheLimit == Spec => []WindowLimit
<1> USE LimiterAssumption
<1>1. ASSUME LimiterInv, NEW key \in Keys, NEW end \in Int
      PROVE  /\ IsFiniteSet(InWindow(key, end)) /\ Cardinality(InWindow(key, end)) \in Nat
             /\ Cardinality(InWindow(key, end)) <= MaxAttempts
  <2> DEFINE g == granted[key]
             S == InWindow(key, end)
  <2>1. /\ g \in Seq(Times) /\ Len(g) \in Nat /\ DOMAIN g = 1 .. Len(g)
        /\ \A i \in 1 .. Len(g) : g[i] \in Int
    BY <1>1, LenProperties, ElementOfSeq DEF LimiterInv, LimiterTypes, Times
  <2>2. \A i, j \in 1 .. Len(g) : j - i >= MaxAttempts => g[j] - g[i] >= Window
    BY <1>1 DEF LimiterInv, Accounted
  <2>3. \A i : i \in S <=> i \in 1 .. Len(g) /\ g[i] > end - Window /\ g[i] <= end
    BY <2>1 DEF InWindow
  <2> HIDE DEF g, S
  <2>4. S \subseteq Nat /\ \A i \in S, j \in S : j - i < MaxAttempts
    BY <2>1, <2>2, <2>3
  <2>5. CASE S = {}
    BY <2>5, FS_EmptySet DEF S
  <2>6. CASE S # {}
    <3>1. PICK i \in S : \A j \in S : i <= j
      BY <2>4, <2>6, LeastPosition
    <3> DEFINE top == i + MaxAttempts - 1
    <3>2. i \in Nat /\ top \in Int /\ S \subseteq i .. top
      BY <2>4, <3>1
    <3>3. IsFiniteSet(i .. top) /\ Cardinality(i .. top) = MaxAttempts
      BY <3>2, FS_Interval
    <3>4. IsFiniteSet(S) /\ Cardinality(S) <= Cardinality(i .. top)
      BY <3>2, <3>3, FS_Subset
    <3>5. Cardinality(S) \in Nat
      BY <3>4, FS_CardinalityType
    <3> QED
      BY <3>3, <3>4, <3>5 DEF S
  <2> QED
    BY <2>5, <2>6
<1>2. ASSUME LimiterInv, NEW key \in Keys PROVE Len(Pruned(key)) <= Cardinality(InWindow(key, now))
  <2> DEFINE g == granted[key]
             p == Pruned(key)
             d == Len(g) - Len(p)
             S == InWindow(key, now)
  <2>1. /\ Accounted(g, p, now) /\ Len(g) \in Nat /\ Len(p) \in Nat /\ now \in Int
        /\ DOMAIN g = 1 .. Len(g)
        /\ \A i \in 1 .. Len(g) : g[i] \in Int
        /\ \A i \in 1 .. Len(p) : ~ Stale(p[i])
    BY <1>2, PrunedIs, LenProperties, ElementOfSeq DEF LimiterInv, LimiterTypes, Times
  <2>2. \A i : i \in S <=> i \in 1 .. Len(g) /\ g[i] > now - Window /\ g[i] <= now
    BY <2>1 DEF InWindow
  <2>3. IsFiniteSet(S) /\ Cardinality(S) \in Nat
    BY <1>1, <1>2, <2>1
  <2> HIDE DEF g, p, S
  <2>4. d + 1 .. Len(g) \subseteq S
    <3> SUFFICES ASSUME NEW i \in d + 1 .. Len(g) PROVE i \in S
      OBVIOUS
    <3>1. d \in Nat /\ i - d \in 1 .. Len(p) /\ d + (i - d) = i /\ i \in 1 .. Len(g)
      BY <2>1 DEF Accounted
    <3>2. p[i - d] = g[i] /\ ~ Stale(p[i - d]) /\ g[i] <= now /\ g[i] \in Int
      BY <2>1, <3>1 DEF Accounted
    <3> QED
      BY <2>1, <2>2, <3>1, <3>2 DEF Stale
  <2>5. d \in Nat /\ Cardinality(d + 1 .. Len(g)) = Len(p)
    <3> DEFINE lo == d + 1
               hi == Len(g)
    <3>1. d \in Nat /\ lo \in Int /\ hi \in Int
      BY <2>1 DEF Accounted
    <3>2. (IF lo > hi THEN 0 ELSE hi - lo + 1) = Len(p)
      BY <2>1
    <3> HIDE DEF lo, hi
    <3>3. Cardinality(lo .. hi) = IF lo > hi THEN 0 ELSE hi - lo + 1
      BY <3>1, FS_Interval
    <3> QED
      BY <3>1, <3>2, <3>3 DEF lo, hi
  <2>6. Cardinality(d + 1 .. Len(g)) <= Cardinality(S)
    BY <2>3, <2>4, FS_Subset
  <2> QED
    BY <2>5, <2>6 DEF S, p
<1>3. ASSUME LimiterInv, NEW key \in Keys, Cardinality(InWindow(key, now)) < MaxAttempts
      PROVE  Room(key)
  <2>1. now \in Int /\ Len(Pruned(key)) \in Nat
    BY <1>3, PrunedIs, LenProperties DEF LimiterInv, LimiterTypes, Times
  <2>2. Cardinality(InWindow(key, now)) \in Nat
    BY <1>1, <1>3, <2>1
  <2> QED
    BY <1>2, <1>3, <2>1, <2>2 DEF Room
<1>4. LimiterInv => WindowLimit
  BY <1>1, <1>3 DEF WindowLimit
<1> QED
  BY <1>4, LimiterInvariant, PTL
=============================================================================
