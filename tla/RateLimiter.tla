----------------------------- MODULE RateLimiter -----------------------------
(***************************************************************************)
(* The sliding window of app/auth/ratelimit.py and the auth endpoints that *)
(* ask it (app/api/auth.py).                                               *)
(*                                                                         *)
(* allow() has no await, so a call is one step; a request makes one or two *)
(* calls in one step too.  Time is the monotonic clock of the process.     *)
(***************************************************************************)
EXTENDS Integers, Sequences, FiniteSetsExt, TLC

CONSTANTS Addresses, \* keys "ip:..."
          Accounts,  \* keys "acct:..."
          MaxAttempts, Window,
          MaxTime    \* bound on the clock

ASSUME LimiterAssumption ==
    /\ Addresses \cap Accounts = {}
    /\ MaxAttempts \in Nat \ {0} /\ Window \in Nat \ {0} /\ MaxTime \in Nat

VARIABLES now,
          hits,   \* per key, the deque of recorded attempts
          granted \* per key, every attempt allowed since the process started

vars == <<now, hits, granted>>

Keys == Addresses \cup Accounts
NoHits == [key \in Keys |-> <<>>]

Init == now = 0 /\ hits = NoHits /\ granted = NoHits

Stale(time) == time <= now - Window

\* The deque without its stale front.
Pruned(key) ==
    LET fresh == {i \in DOMAIN hits[key] : ~Stale(hits[key][i])}
    IN  IF fresh = {} THEN <<>> ELSE SubSeq(hits[key], Min(fresh), Len(hits[key]))

\* Mutant of Room: one attempt too many.
OneTooMany(key) == Len(Pruned(key)) <= MaxAttempts

Room(key) == Len(Pruned(key)) < MaxAttempts

Recorded(key) == IF Room(key) THEN Append(Pruned(key), now) ELSE Pruned(key)

\* allow() is called for the keys, in a request of its own.
Allow(keys) ==
    /\ hits' = [key \in Keys |-> IF key \in keys THEN Recorded(key) ELSE hits[key]]
    /\ granted' = [key \in Keys |->
           IF key \in keys /\ Room(key) THEN Append(granted[key], now) ELSE granted[key]]
    /\ UNCHANGED now

\* POST /auth/register and /auth/refresh.
FromAddress(address) == Allow({address})

\* "not allow(ip) or not allow(acct)": the account is asked when the address
\* has room.
Asked(address, account) ==
    IF Room(address) THEN {address, account} ELSE {address}

\* POST /auth/login.
Login(address, account) == Allow(Asked(address, account))

Tick == now < MaxTime /\ now' = now + 1 /\ UNCHANGED <<hits, granted>>

\* The counters live in the process.
Restart == hits' = NoHits /\ granted' = NoHits /\ UNCHANGED now

Next ==
    \/ \E address \in Addresses :
         FromAddress(address) \/ \E account \in Accounts : Login(address, account)
    \/ Tick
    \/ Restart

Spec == Init /\ [][Next]_vars

-----------------------------------------------------------------------------
(* Properties.                                                             *)

\* The attempts of a key that were allowed in the window that ends at a time.
InWindow(key, end) ==
    {i \in DOMAIN granted[key] : granted[key][i] > end - Window /\ granted[key][i] <= end}

\* No window of that length, wherever it ends, holds more allowed attempts of a
\* key than the limit; and a key that had less than the limit in the window that
\* ends now has room, whatever was rejected ("a key recovers once its earlier
\* attempts age out").
WindowLimit ==
    \A key \in Keys :
        /\ \A end \in 0 .. MaxTime : Cardinality(InWindow(key, end)) <= MaxAttempts
        /\ Cardinality(InWindow(key, now)) < MaxAttempts => Room(key)
=============================================================================
